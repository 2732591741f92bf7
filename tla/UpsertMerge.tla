----------------------------- MODULE UpsertMerge -----------------------------
(***************************************************************************)
(* What one call of upsert_merge (gandalf/merge/merge_types.py) does to    *)
(* the rows of a table, as operators on sets of rows.  A source row is a   *)
(* record [key, val]; a target row has also an id, which keeps apart rows  *)
(* that are equal in every column, and which an update leaves alone.       *)
(***************************************************************************)
EXTENDS Integers, FiniteSets

CONSTANTS
  Keys,      \* business keys, a key stands for the tuple of the columns in ids
  JoinOf,    \* JoinOf[k]: what the MERGE compares, k itself or its fact SK
  Null,      \* the JoinOf of a key with a NULL component
  Vals,      \* the other columns of a row
  Overlay,   \* Overlay[<<v, w>>]: w with the ignore_update_cols of v
  Scope      \* the payloads of the target rows merge_cond holds of (all: none set)

ASSUME JoinAssumption == DOMAIN JoinOf = Keys
ASSUME OverlayAssumption == Overlay \in [Vals \X Vals -> Vals]
ASSUME ScopeAssumption == Scope \subseteq Vals

Rows == [key : Keys, val : Vals]

\* Mutant: a group is reported from its third row on.
ThriceKeys(R) ==
  \E r, s, t \in R : r # s /\ s # t /\ r # t /\ r.key = s.key /\ s.key = t.key

\* check_duplicates: NULL keys are in one group.
DuplicateKeys(R) == \E r, s \in R : r # s /\ r.key = s.key

\* The sources step 3 of merge_delta_table lets through.
Feeds == {F \in SUBSET Rows : ~ DuplicateKeys(F)}

\* Mutant: NULL equals NULL.
JoinsNulls(r, s) == JoinOf[r.key] = JoinOf[s.key]

\* SQL equality of the join columns.
Joins(r, s) == JoinOf[r.key] = JoinOf[s.key] /\ JoinOf[r.key] # Null

\* The target rows a MERGE can match at all: none of their ids is NULL, and
\* merge_cond holds of them.
Reached(r) == JoinOf[r.key] # Null /\ r.val \in Scope

\* The ON condition: join columns and merge_cond.
Hits(r, s) == Joins(r, s) /\ r.val \in Scope

\* schema_to_update: every source column, the ids included, but the ignored.
Updated(r, s) == [r EXCEPT !.key = s.key, !.val = Overlay[<<r.val, s.val>>]]

\* Mutant: the flag column of the staged rows is inserted with them.
InsertedFlagged(s, now) == [key |-> s.key, val |-> s.val, id |-> now, deleted |-> 0]

\* whenNotMatchedInsertAll; now tells this call's rows from earlier ones.
Inserted(s, now) == [key |-> s.key, val |-> s.val, id |-> now]

\* Delta refuses a MERGE in which two source rows match one target row.
Ambiguous(T, F) == \E r \in T : \E s, t \in F : s # t /\ Hits(r, s) /\ Hits(r, t)

\* Mutant: rows are inserted without looking for a match.
UpsertBlind(T, F, now) ==
  {r \in T : \A s \in F : ~ Hits(r, s)}
    \cup {Updated(r, s) : r \in T, s \in F} \cup {Inserted(s, now) : s \in F}

Upsert(T, F, now) ==
  {r \in T : \A s \in F : ~ Hits(r, s)}
    \cup {Updated(x[1], x[2]) : x \in {y \in T \X F : Hits(y[1], y[2])}}
    \cup {Inserted(s, now) : s \in {x \in F : \A r \in T : ~ Hits(r, x)}}

\* df_delete: the target rows without a partner in the source, under merge_cond.
ToDelete(T, F) == {r \in T : r.val \in Scope /\ \A s \in F : ~ Joins(r, s)}

\* has_delete: the MERGE's source is the source and what is to be deleted, each
\* row flagged; a row hit by one to delete goes, and one to delete that hits no
\* row is inserted like any other.  Copies of equal rows count once.
UpsertDelete(T, F, now) ==
  Upsert({r \in T : \A d \in ToDelete(T, F) : ~ Hits(r, d)}, F, now)
    \cup {Inserted(d, now) : d \in {x \in ToDelete(T, F) : \A r \in T : ~ Hits(r, x)}}
=============================================================================
