--------------------------------- MODULE Scd6 ---------------------------------
(***************************************************************************)
(* merge_delta_table with an SCDConfig of scd_type "scd6": scd6_merge      *)
(* (gandalf/scd/strategies.py) joins its source with the current rows for  *)
(* the values of the previous columns, and has scd2_batch merge the        *)
(* result.  It looks whether the target is empty, and scd2_batch looks     *)
(* again; the join is evaluated with the MERGE; other jobs may commit at   *)
(* any point between.  merge_cond goes to scd2_batch and restricts the     *)
(* MERGE only: the join is with every current row, in its scope or not.    *)
(*                                                                         *)
(* A payload of the target is a record [biz, prev, copy]: what the source  *)
(* gave, the values of the previous columns, and a number nothing in the   *)
(* code reads, which keeps equal rows of the join apart.                   *)
(***************************************************************************)
EXTENDS Integers, FiniteSets

CONSTANTS
  Keys, NullKeys, Unkeyed, Deleted, PartCol, MonthLen, MaxRuns, \* as in Scd2Batch
  Jobs,      \* the callers of merge_delta_table
  Sources,   \* the business columns of a source row that are not in its key
  BizCs,     \* the checksum step 6 computes from them
  Tracked,   \* Tracked[b]: the columns of b that previous_columns tracks
  NoPrev,    \* NULL in every previous column
  Scope      \* the [biz, prev] of the target rows merge_cond holds of (all: no merge_cond)

ASSUME KeyAssumption == NullKeys \subseteq Keys /\ Unkeyed \notin Keys
ASSUME SourcesAssumption ==
  \A b \in Sources : BizCs[b] # Deleted /\ Tracked[b] # NoPrev
ASSUME RunsAssumption ==
  /\ MonthLen \in Nat \ {0}
  /\ MaxRuns \in Nat \ {0}
  /\ PartCol \in {"none", "start_dt", "end_dt"}

Previous   == {Tracked[b] : b \in Sources} \cup {NoPrev}
Payloads   == [biz : Sources, prev : Previous, copy : Nat]
ChecksumOf == [v \in Payloads |-> BizCs[v.biz]]
Reachable  == {v \in Payloads : [biz |-> v.biz, prev |-> v.prev] \in Scope}

ASSUME ScopeAssumption == Scope \subseteq [biz : Sources, prev : Previous]

INSTANCE Scd2Batch WITH Vals <- Payloads, CsOf <- ChecksumOf, Scope <- Reachable

VARIABLES
  target,    \* the rows of the target table
  clock,     \* the next instant the driver clock shows
  job,       \* per job: [pc, feed, cts, empty], empty being what scd6_merge saw
  blind,     \* history: the instants of the calls that saw an empty target at either look
  beyond     \* history: the keys that had a row on file out of merge_cond

vars == <<target, clock, job, blind, beyond>>

SourceRows == [key : Keys, val : Sources]
Feeds == {F \in SUBSET SourceRows : ~ DuplicateKeys(F)}

Verdicts == {"idle", "aborted", "refused", "duplicated", "ok"}
InFlight == {"look", "enrich", "inspect", "photo", "merge", "validate", "current", "bounds"}

Ended(v) == [pc |-> v, feed |-> {}, cts |-> 0, empty |-> FALSE]

Init ==
  /\ target = {}
  /\ clock = 1
  /\ job = [j \in Jobs |-> Ended("idle")]
  /\ blind = {}
  /\ beyond = {}

Goto(j, pc) == job' = [job EXCEPT ![j].pc = pc]
End(j, v)   == job' = [job EXCEPT ![j] = Ended(v)]

Start(j) ==
  /\ job[j].pc \in Verdicts
  /\ \E F \in Feeds :
       job' = [job EXCEPT ![j] = [pc |-> "look", feed |-> F, cts |-> 0, empty |-> FALSE]]
  /\ UNCHANGED <<target, clock, blind, beyond>>

\* scd6_merge looks whether there is anything to join with.
Look(j) ==
  /\ job[j].pc = "look"
  /\ job' = [job EXCEPT ![j].pc = IF target = {} THEN "inspect" ELSE "enrich",
                        ![j].empty = (target = {})]
  /\ UNCHANGED <<target, clock, blind, beyond>>

\* Row n of the left join that has source row s and previous values p.
Enrich(s, p, n) == [key |-> s.key, val |-> [biz |-> s.val, prev |-> p, copy |-> n]]

\* Mutant: the join is with all versions of a key.
PartnersOfAny(s, T) == {r \in T : SqlEq(r.key, s.key)}

Partners(s, T) == {r \in Current(T) : SqlEq(r.key, s.key)}

\* A row of the join per partner, whose previous values are Prev[partner].
Joined(s, P, Prev) ==
  UNION {{Enrich(s, p, n) : n \in 1 .. Cardinality({r \in P : Prev[r] = p})} : p \in Previous}

\* Mutant: the previous columns are handed on instead of the tracked ones.
EnrichedStale(F, T) ==
  UNION {IF Partners(s, T) = {} THEN {Enrich(s, NoPrev, 1)}
         ELSE Joined(s, Partners(s, T), [r \in T |-> r.val.prev]) : s \in F}

\* Mutant: an inner join, which drops the new keys.
EnrichedInner(F, T) ==
  UNION {Joined(s, Partners(s, T), [r \in T |-> Tracked[r.val.biz]]) : s \in F}

\* enriched: the left join of the source with the current rows.
Enriched(F, T) ==
  UNION {IF Partners(s, T) = {} THEN {Enrich(s, NoPrev, 1)}
         ELSE Joined(s, Partners(s, T), [r \in T |-> Tracked[r.val.biz]]) : s \in F}

SeedRows(F) == {Enrich(s, NoPrev, 1) : s \in F}

\* check_duplicates(enriched): a second current row would double a source row.
CheckEnriched(j) ==
  /\ job[j].pc = "enrich"
  /\ IF \E s \in job[j].feed : Cardinality(Partners(s, target)) > 1
       THEN End(j, "refused")
       ELSE Goto(j, "inspect")
  /\ UNCHANGED <<target, clock, blind, beyond>>

\* scd2_batch takes its instant and looks again.
Inspect(j) ==
  /\ job[j].pc = "inspect"
  /\ clock =< MaxRuns
  /\ job' = [job EXCEPT ![j].pc = IF target = {} THEN "photo" ELSE "merge",
                        ![j].cts = clock]
  /\ clock' = clock + 1
  /\ blind' = IF job[j].empty \/ target = {} THEN blind \cup {clock} ELSE blind
  /\ UNCHANGED <<target, beyond>>

\* What scd2_batch is given; the join is evaluated with what consumes it.
Given(j) == IF job[j].empty THEN SeedRows(job[j].feed) ELSE Enriched(job[j].feed, target)

\* What was row q in T.
Former(T, q) == {r \in T : r.key = q.key /\ r.val = q.val /\ r.id = q.id}

\* The rows U that scd2_batch makes of T.  A call that saw an empty target passes
\* no create_part_col: new rows have no partition, and the others keep theirs.
Filed(j, T, U) ==
  IF ~ job[j].empty THEN U
  ELSE {[q EXCEPT !.part = IF Former(T, q) = {} THEN NullTime
                             ELSE (CHOOSE r \in Former(T, q) : TRUE).part] : q \in U}

\* No MERGE ends a row out of merge_cond.
Record == beyond' = beyond \cup {r.key : r \in {q \in target' : q.val \notin Reachable}}

WritePhoto(j) ==
  /\ job[j].pc = "photo"
  /\ target' = Filed(j, {}, Photo(Given(j), job[j].cts))
  /\ Record
  /\ Goto(j, "validate")
  /\ UNCHANGED <<clock, blind>>

\* scd2_batch with ignore_delete.
Merge(j) ==
  LET staged == Staged(Given(j), target, job[j].cts, TRUE)
  IN /\ job[j].pc = "merge"
     /\ IF Ambiguous(target, staged)
          THEN End(j, "aborted") /\ UNCHANGED <<target, beyond>>
          ELSE /\ target' = Filed(j, target, MergeInto(target, staged, job[j].cts))
               /\ Record
               /\ Goto(j, "validate")
     /\ UNCHANGED <<clock, blind>>

\* validate_no_duplicate_current, which a call that saw an empty target skips.
ValidateCurrent(j) ==
  /\ job[j].pc = "validate"
  /\ IF ~ job[j].empty /\ DuplicateKeys(Current(target))
       THEN End(j, "refused")
       ELSE Goto(j, "current")
  /\ UNCHANGED <<target, clock, blind, beyond>>

\* Step 10, as for scd2_no_delete.
CheckCurrent(j) ==
  /\ job[j].pc = "current"
  /\ IF DuplicateKeys(Current(target)) THEN End(j, "duplicated") ELSE Goto(j, "bounds")
  /\ UNCHANGED <<target, clock, blind, beyond>>

CheckBounds(j) ==
  /\ job[j].pc = "bounds"
  /\ End(j, IF DuplicateBounds(target) THEN "duplicated" ELSE "ok")
  /\ UNCHANGED <<target, clock, blind, beyond>>

\* Any step may raise instead: a missing column, a Spark failure, a Delta conflict.
Abort(j) ==
  /\ job[j].pc \in InFlight
  /\ End(j, "aborted")
  /\ UNCHANGED <<target, clock, blind, beyond>>

Next == \E j \in Jobs :
  \/ Start(j) \/ Look(j) \/ CheckEnriched(j) \/ Inspect(j) \/ WritePhoto(j) \/ Merge(j)
  \/ ValidateCurrent(j) \/ CheckCurrent(j) \/ CheckBounds(j) \/ Abort(j)

Spec == Init /\ [][Next]_vars

(***************************************************************************)
(* Properties.                                                             *)
(***************************************************************************)
TargetRows ==
  [key : Keys, val : Payloads, cs : {BizCs[b] : b \in Sources}, cur : {0, 1},
   start : 1 .. MaxRuns, end : 0 .. Forever, part : NullTime .. Forever,
   id : (1 .. MaxRuns) \X {"new", "upd"} \X Nat]

\* Every variable has its type.
TypeOK ==
  /\ target \subseteq TargetRows
  /\ clock \in 1 .. MaxRuns + 1
  /\ job \in [Jobs -> [pc : Verdicts \cup InFlight, feed : SUBSET SourceRows,
                       cts : 0 .. MaxRuns, empty : BOOLEAN]]
  /\ blind \subseteq 1 .. MaxRuns
  /\ beyond \subseteq Keys

\* scd6_merge: "previous columns populated from current target".  Whatever other
\* jobs commit between the two looks and the MERGE, a version shows the tracked
\* columns of the version that ended when it began, and NULLs if there was none.
\* Not so the versions of a call that saw an empty target and commits after
\* another job's load, and those of a key that had a row out of merge_cond: that
\* row joins and does not end.
PreviousIsBefore ==
  \A r \in {x \in target : x.start \notin blind /\ x.key \notin beyond} :
    LET before == {q \in target : q.key = r.key /\ q.end = r.start - 1}
    IN {r.val.prev} = IF before = {} THEN {NoPrev} ELSE {Tracked[q.val.biz] : q \in before}

\* The rows of an initial load have no partition; the later call that ends one
\* files it, if the partition column derives from end_dt.
EndedFiled ==
  PartCol = "end_dt" =>
    \A r \in target : r.cur = 0 /\ r.end + 1 \notin blind => r.part = MonthOf(r.end)

Alarmed(j) == job[j].pc \in {"refused", "duplicated"}

\* scd6_merge of the check of the join: "Healthy targets have unique current rows, so
\* this is a no-op".  However many jobs interleave, and whatever commits between the two
\* evaluations of the join or between the MERGE and the checks after it, with its instant
\* out of order: a check of duplicates after step 3 fails a call only on a table with a
\* key that no MERGE can match, for a NULL, or that had a row out of merge_cond.
ChecksSilent ==
  [][\A j \in Jobs : ~ Alarmed(j) /\ Alarmed(j)' =>
       \E r \in target : r.key \in NullKeys \cup beyond]_vars

(***************************************************************************)
(* Refinement: but for the previous columns and the partition, a call is   *)
(* one of scd2_no_delete.                                                  *)
(***************************************************************************)
PcOf(pc) ==
  CASE pc = "look"     -> "check"
    [] pc = "enrich"   -> "inspect"
    [] pc = "validate" -> "count"
    [] pc = "refused"  -> "aborted"
    [] OTHER           -> pc

AsScd2 ==
  INSTANCE Scd2 WITH
    Vals <- Sources, CsOf <- BizCs, Scope <- Sources, PartCol <- "none",
    Types <- {"scd2_no_delete"}, Seeded <- FALSE,
    target <- {[r EXCEPT !.val = r.val.biz, !.part = NullTime] : r \in target},
    job <- [j \in Jobs |->
              [pc |-> PcOf(job[j].pc), feed |-> job[j].feed, cts |-> job[j].cts,
               type |-> IF job[j].pc \in Verdicts THEN "none" ELSE "scd2_no_delete"]]

\* While merge_cond held of every row ever on file, and so without one, the join neither
\* loses nor doubles a source row, and the previous columns do not count as a change:
\* scd6 versions its rows exactly as scd2_no_delete does.
RefinesScd2 ==
  /\ AsScd2!Init
  /\ [][beyond = {} => AsScd2!Next]_(AsScd2!vars)
=============================================================================
