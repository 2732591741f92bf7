------------------------------ MODULE Scd2Batch ------------------------------
(***************************************************************************)
(* What one call of scd2_batch (gandalf/merge/merge_types.py) computes:    *)
(* the rows of an initial load, the three legs it stages for the Delta     *)
(* MERGE, and the MERGE itself, as operators on sets of rows.              *)
(*                                                                         *)
(* A source row is a record [key, val].  A target row has in addition the  *)
(* control columns: cs (checksum), cur (is_current), start and end (the    *)
(* validity interval), part (the derived partition column), and an id that *)
(* keeps apart two rows equal in every column, because a Delta table is a  *)
(* bag of rows.  A staged row pairs a target row with its merge_key.       *)
(***************************************************************************)
EXTENDS Integers, FiniteSets

CONSTANTS
  Keys,      \* business keys, a key stands for the tuple of the columns in ids
  NullKeys,  \* the keys with a NULL component: SQL equality never holds of them
  Unkeyed,   \* the merge_key of the leg that must not match: lit(None)
  Vals,      \* the business columns of a row that are not in its key
  CsOf,      \* CsOf[v] is the checksum of v; ignored columns make it collapse
  Deleted,   \* the literal "deleted", which is the checksum of no row
  Scope,     \* the payloads of the target rows merge_cond holds of (all: no merge_cond)
  PartCol,   \* create_part_col: "none", "start_dt" or "end_dt"
  MonthLen,  \* clock ticks in a month
  MaxRuns    \* bound on the instants the driver clock shows

ASSUME KeysAssumption == NullKeys \subseteq Keys /\ Unkeyed \notin Keys
ASSUME ValsAssumption ==
  /\ Scope \subseteq Vals
  /\ DOMAIN CsOf = Vals
  /\ \A v \in Vals : CsOf[v] # Deleted
ASSUME TimeAssumption ==
  /\ MonthLen \in Nat \ {0}
  /\ MaxRuns \in Nat \ {0}
  /\ PartCol \in {"none", "start_dt", "end_dt"}

Rows == [key : Keys, val : Vals]

Forever == MaxRuns + 1     \* 9999-12-31, later than every instant
NullTime == -1             \* a NULL timestamp, and its NULL month

\* trunc(timestamp, "mm")
MonthOf(t) == IF t \in {NullTime, Forever} THEN t ELSE t \div MonthLen

\* The partition column of a row whose control columns are start and end.
PartOf(start, end) ==
  CASE PartCol = "start_dt" -> MonthOf(start)
    [] PartCol = "end_dt"   -> MonthOf(end)
    [] OTHER                -> NullTime

\* SQL equality of keys in a WHERE or ON clause.
SqlEq(k, l) == k = l /\ k \notin NullKeys

Current(T) == {r \in T : r.cur = 1}

(***************************************************************************)
(* The initial load.                                                       *)
(***************************************************************************)
\* A new current version of source row s.
Fresh(s, now, leg, n) ==
  [key |-> s.key, val |-> s.val, cs |-> CsOf[s.val], cur |-> 1,
   start |-> now, end |-> Forever, part |-> PartOf(now, Forever),
   id |-> <<now, leg, n>>]

Photo(F, now) == {Fresh(s, now, "new", 1) : s \in F}

(***************************************************************************)
(* The staged rows.                                                        *)
(***************************************************************************)
\* Mutant: the new rows are staged without their merge key.
NewLegUnkeyed(F, now) == {[row |-> Fresh(s, now, "new", 1), mk |-> Unkeyed] : s \in F}

\* new_and_inactive_values: every source row, keyed by its own ids.
NewLeg(F, now) == {[row |-> Fresh(s, now, "new", 1), mk |-> s.key] : s \in F}

\* Mutant: the join forgets target.is_current = 1.
StaleAnyVersion(s, T) == {r \in T : SqlEq(r.key, s.key) /\ CsOf[s.val] # r.cs}

\* The current rows whose checksum source row s changes: its join partners.
Stale(s, T) == {r \in Current(T) : SqlEq(r.key, s.key) /\ CsOf[s.val] # r.cs}

\* new_values_to_update: a changed source row once per join partner, unkeyed
\* so that the MERGE inserts it.
UpdLeg(F, T, now) ==
  UNION {{[row |-> Fresh(s, now, "upd", n), mk |-> Unkeyed]
            : n \in 1 .. Cardinality(Stale(s, T))} : s \in F}

\* The left anti join of the current target rows with the source.
Absent(F, T) == {r \in Current(T) : \A s \in F : ~ SqlEq(r.key, s.key)}

Tombstone(r, now, n) ==
  [r EXCEPT !.cs = Deleted, !.cur = 0, !.start = NullTime, !.end = now,
            !.part = PartOf(NullTime, now), !.id = <<now, "del", n>>]

\* values_to_delete: one tombstone per absent row, whatever merge_cond says.
DelLeg(F, T, now) ==
  UNION {{[row |-> Tombstone(r, now, n), mk |-> r.key]
            : n \in 1 .. Cardinality({x \in Absent(F, T) :
                                        x.key = r.key /\ x.val = r.val})}
         : r \in Absent(F, T)}

\* Mutants: ignore_delete is taken as set, and as not set.
StagedNoDeletes(F, T, now, ignoreDelete) == NewLeg(F, now) \cup UpdLeg(F, T, now)
StagedAllDeletes(F, T, now, ignoreDelete) ==
  NewLeg(F, now) \cup UpdLeg(F, T, now) \cup DelLeg(F, T, now)

\* staged_updates; ignoreDelete is the parameter scd2_no_delete sets.
Staged(F, T, now, ignoreDelete) ==
  NewLeg(F, now) \cup UpdLeg(F, T, now)
    \cup (IF ignoreDelete THEN {} ELSE DelLeg(F, T, now))

(***************************************************************************)
(* The MERGE of staged rows M into T.                                      *)
(***************************************************************************)
\* Mutant: the ON condition forgets target.is_current = 1.
MatchedAnyVersion(r, m) == SqlEq(r.key, m.mk) /\ r.val \in Scope

\* The ON condition: key equality, a current row, and merge_cond.
Matched(r, m) == SqlEq(r.key, m.mk) /\ r.cur = 1 /\ r.val \in Scope

\* Mutant: the clause forgets to compare checksums.
ClosesAlways(r, m) == Matched(r, m)

\* The whenMatchedUpdate clause applies.
Closes(r, m) == Matched(r, m) /\ m.row.cs # r.cs

\* Delta refuses a MERGE in which two source rows update one target row.
Ambiguous(T, M) ==
  \E r \in T : \E m1, m2 \in M : m1 # m2 /\ Closes(r, m1) /\ Closes(r, m2)

\* Mutants: the version ends at the run's instant, ends NULL, keeps its old end,
\* or keeps its old partition.
ClosedAtInstant(r, now) ==
  [r EXCEPT !.cur = 0, !.end = now,
            !.part = IF PartCol = "end_dt" THEN MonthOf(now) ELSE @]
ClosedNull(r, now)    == [r EXCEPT !.cur = 0, !.end = NullTime]
ClosedFlag(r, now)    == [r EXCEPT !.cur = 0]
ClosedInPlace(r, now) == [r EXCEPT !.cur = 0, !.end = now - 1]

\* set_dict: the version ends a millisecond before the run's instant.
Closed(r, now) ==
  [r EXCEPT !.cur = 0, !.end = now - 1,
            !.part = IF PartCol = "end_dt" THEN MonthOf(now - 1) ELSE @]

\* schema_to_insert: every staged column, but end_dt is always 9999-12-31.
Inserted(m) == [m.row EXCEPT !.end = Forever]

MergeInto(T, M, now) ==
  {IF \E m \in M : Closes(r, m) THEN Closed(r, now) ELSE r : r \in T}
    \cup {Inserted(m) : m \in {x \in M : \A r \in T : ~ Matched(r, x)}}

(***************************************************************************)
(* check_duplicates (gandalf/utils/df_validations.py): groupBy puts the    *)
(* rows with a NULL key in one group.                                      *)
(***************************************************************************)
DuplicateKeys(R) == \E r, s \in R : r # s /\ r.key = s.key

\* Mutant: rows with a NULL key are in no group.
DuplicateKeyedBounds(R) ==
  \E r, s \in R : r # s /\ SqlEq(r.key, s.key) /\ r.end = s.end

DuplicateBounds(R) == \E r, s \in R : r # s /\ r.key = s.key /\ r.end = s.end

=============================================================================
