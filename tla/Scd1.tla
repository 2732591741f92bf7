--------------------------------- MODULE Scd1 ---------------------------------
(***************************************************************************)
(* merge_delta_table with the merge types that keep one row per key and no *)
(* history: "scd1" ("upsert"), "scd1_delete" ("upsert-delete"),            *)
(* "overwrite" and "overwrite-partition"; and the incremental filter of    *)
(* its step 2.  The source is a table that goes on changing; every write   *)
(* stamps the row in the column delta_col_filter names, and a payload      *)
(* stands for its stamp.                                                   *)
(***************************************************************************)
EXTENDS UpsertMerge

CONSTANTS
  Jobs,       \* the callers of merge_delta_table
  Ids,        \* bound: what tells apart equal rows of the target
  TypesOf,    \* TypesOf[j]: the merge types job j calls with
  PartOf,     \* PartOf[<<k, v>>]: the partition of a row
  Filtered    \* delta_col_filter is set

Types == {"scd1", "scd1_delete", "overwrite", "overwrite-partition"}
Upserts == {"scd1", "scd1_delete"}
Parts == {PartOf[x] : x \in Keys \X Vals}

ASSUME StampAssumption == Vals \subseteq Nat
ASSUME TypesAssumption == TypesOf \in [Jobs -> SUBSET Types]
ASSUME FilteredAssumption == Filtered \in BOOLEAN

VARIABLES
  src,    \* the rows of the source table
  clock,  \* the stamp of its next write
  tgt,    \* the rows of the target
  job     \* per job: [pc, type, region, df, feed], region being the partitions
          \* merge_cond names to overwrite-partition, df the caller's DataFrame
          \* and feed what step 2 keeps of it

vars == <<src, clock, tgt, job>>

Verdicts == {"idle", "aborted", "duplicated", "ok"}
InFlight == {"filter", "merge", "validate"}

Ended(v) == [pc |-> v, type |-> "none", region |-> {}, df |-> {}, feed |-> {}]

\* Whether a row is in the partitions R.
In(R, r) == PartOf[<<r.key, r.val>>] \in R

Init ==
  /\ src = {}
  /\ clock = 1
  /\ tgt = {}
  /\ job = [j \in Jobs |-> Ended("idle")]

\* The source is written and deleted from, one row per key, with rising stamps.
WriteSource(k) ==
  /\ clock \in Vals
  /\ src' = {s \in src : s.key # k} \cup {[key |-> k, val |-> clock]}
  /\ clock' = clock + 1
  /\ UNCHANGED <<tgt, job>>

DeleteSource(k) ==
  /\ \E s \in src : s.key = k
  /\ src' = {s \in src : s.key # k}
  /\ UNCHANGED <<clock, tgt, job>>

\* The regions of a call: some partitions, or none for the other types.
Regions(type) ==
  IF type = "overwrite-partition" THEN SUBSET Parts \ {{}} ELSE {{}}

\* The caller takes a DataFrame of the source, or of the partitions it names.
Snapshot(type, R) ==
  IF type = "overwrite-partition" THEN {s \in src : In(R, s)} ELSE src

Call(type, R) ==
  [pc |-> "filter", type |-> type, region |-> R, df |-> Snapshot(type, R), feed |-> {}]

Start(j) ==
  /\ job[j].pc \in Verdicts
  /\ \E type \in TypesOf[j] : \E R \in Regions(type) :
       job' = [job EXCEPT ![j] = Call(type, R)]
  /\ UNCHANGED <<src, clock, tgt>>

\* Mutant: the first stamp after the watermark is skipped.
AfterNext(F, T) == {s \in F : \A r \in T : s.val > r.val + 1}

\* The rows stamped after the watermark, the greatest stamp in the target; all
\* of them if the target is empty.
After(F, T) == {s \in F : \A r \in T : s.val > r.val}

\* Steps 2 and 3; the source has no duplicates for step 3 to reject.
Filter(j) ==
  /\ job[j].pc = "filter"
  /\ job' = [job EXCEPT ![j] =
       [pc |-> "merge", type |-> job[j].type, region |-> job[j].region,
        df |-> job[j].df,
        feed |-> IF Filtered THEN After(job[j].df, tgt) ELSE job[j].df]]
  /\ UNCHANGED <<src, clock, tgt>>

\* What the MERGE takes for its source.
StagedBy(j) ==
  job[j].feed \cup
    (IF job[j].type = "scd1_delete" THEN ToDelete(tgt, job[j].feed) ELSE {})

\* Delta refuses the MERGE, of the types that have one.
Refused(j) ==
  job[j].type \in Upserts /\ Ambiguous(tgt, StagedBy(j))

\* An id for the rows this call inserts.
Free(n) == \A r \in tgt : r.id # n
Unused  == CHOOSE n \in Ids : Free(n)

Overwrite(F, now) == {Inserted(s, now) : s \in F}

\* Mutant: replaceWhere is not passed on.
OverwriteAll(T, F, R, now) == Overwrite(F, now)

\* replaceWhere: the rows of the partitions give way to the source's.
OverwritePartition(T, F, R, now) == {r \in T : ~ In(R, r)} \cup Overwrite(F, now)

\* The target after the merge of a call.
Written(type, T, F, R, now) ==
  CASE type = "scd1"        -> Upsert(T, F, now)
    [] type = "scd1_delete" -> UpsertDelete(T, F, now)
    [] type = "overwrite"   -> Overwrite(F, now)
    [] OTHER                -> OverwritePartition(T, F, R, now)

Commit(j) ==
  /\ \E n \in Ids : Free(n)
  /\ tgt' = Written(job[j].type, tgt, job[j].feed, job[j].region, Unused)
  /\ job' = [job EXCEPT ![j] =
       [pc |-> "validate", type |-> job[j].type, region |-> job[j].region,
        df |-> job[j].df, feed |-> job[j].feed]]

Merge(j) ==
  /\ job[j].pc = "merge"
  /\ IF Refused(j)
       THEN job' = [job EXCEPT ![j] = Ended("aborted")] /\ UNCHANGED tgt
       ELSE Commit(j)
  /\ UNCHANGED <<src, clock>>

\* What step 10 reads of the target.
Looked(j) ==
  IF job[j].type = "overwrite-partition" THEN {r \in tgt : In(job[j].region, r)} ELSE tgt

\* Step 10: check_duplicates(target, ids).
Validate(j) ==
  /\ job[j].pc = "validate"
  /\ job' = [job EXCEPT ![j] = Ended(IF DuplicateKeys(Looked(j)) THEN "duplicated" ELSE "ok")]
  /\ UNCHANGED <<src, clock, tgt>>

\* Any step may raise: a rejected schema, a merge_cond that does not name every
\* partition column or may widen what is replaced, a Spark failure, a conflict.
Abort(j) ==
  /\ job[j].pc \in InFlight
  /\ job' = [job EXCEPT ![j] = Ended("aborted")]
  /\ UNCHANGED <<src, clock, tgt>>

Step(j) ==
  Start(j) \/ Filter(j) \/ Merge(j) \/ Validate(j) \/ Abort(j)

Next ==
  \/ \E k \in Keys : WriteSource(k) \/ DeleteSource(k)
  \/ \E j \in Jobs : Step(j)

Spec == Init /\ [][Next]_vars

\* Each job is run again and again, and not every run of it fails.
FairSpec ==
  Spec /\ \A j \in Jobs :
            WF_vars(Start(j) \/ Validate(j)) /\ SF_vars(Filter(j)) /\ SF_vars(Merge(j))

(***************************************************************************)
(* Properties.                                                             *)
(***************************************************************************)
\* Every variable has its type.
TypeOK ==
  /\ src \subseteq Rows
  /\ clock \in Nat
  /\ tgt \subseteq [key : Keys, val : Vals, id : Ids]
  /\ job \in [Jobs -> [pc : Verdicts \cup InFlight, type : Types \cup {"none"},
                       region : SUBSET Parts, df : SUBSET Rows, feed : SUBSET Rows]]

\* However calls interleave and fail, the target has one row per key, of the rows
\* MERGE can match.
UniqueKeys == ~ DuplicateKeys({r \in tgt : Reached(r)})

\* The call whose merge commits in this step.
Commits(j) == job[j].pc = "merge" /\ job'[j].pc = "validate"

\* A failure that step 10 reports after the commit is on file: from two rows with
\* one key on, both under merge_cond or both beyond it, no upsert takes one away,
\* with has_delete or without, and until the table is overwritten no call that
\* looks at all of it ends well.
Stuck(T) ==
  \E r, s \in T : r # s /\ r.key = s.key /\ (r.val \in Scope <=> s.val \in Scope)
LatchedFailure ==
  [][Stuck(tgt) /\ (\A j \in Jobs : Commits(j) => job[j].type \in Upserts) =>
       /\ Stuck(tgt')
       /\ \A j \in Jobs : job'[j].pc = "ok" =>
            job[j].pc = "ok" \/ job[j].type = "overwrite-partition"]_vars

Pairs(R) == {<<r.key, r.val>> : r \in R}

\* Rows with a NULL in their ids, or beyond merge_cond, are out of every upsert's
\* reach: none is updated or deleted, whatever becomes of it in the source.  Each
\* upsert adds to the first: once more what its source has of them and, with
\* has_delete, what the target has of them, which look as if to be deleted.
BeyondReach ==
  [][\A j \in Jobs : Commits(j) /\ job[j].type \in Upserts =>
       /\ \A r \in tgt : ~ Reached(r) => r \in tgt'
       /\ \A s \in StagedBy(j) :
            JoinOf[s.key] = Null => <<s.key, s.val>> \in Pairs(tgt' \ tgt)]_vars

\* What a committed call may leave of the earlier rows.
Leaves(j, x) ==
  \/ job[j].type \in Upserts /\ ~ Reached(x)
  \/ job[j].type = "scd1" /\ \A s \in job[j].df : s.key # x.key
  \/ job[j].type = "overwrite-partition" /\ ~ In(job[j].region, x)

\* README.md: scd1 "overwrite current value", scd1_delete "also deletes rows
\* absent from source", overwrite-partition "replaceWhere-scoped replacement".  A
\* committed merge leaves what the caller passed, over the rows it can reach,
\* instead of them or instead of those of its partitions; the incremental filter,
\* the interleaved calls and the way MERGE finds its matches make no difference.
LandsSource ==
  [][\A j \in Jobs : Commits(j) =>
       Pairs(tgt') = Pairs(job[j].df) \cup Pairs({x \in tgt : Leaves(j, x)})]_vars

\* Nothing is out of the filter's reach: with one job at a time, a source row is
\* in the target, or stamped after everything in it.
Reachable(S, T) ==
  \A s \in S : <<s.key, s.val>> \in Pairs(T) \/ \A r \in T : s.val > r.val
Catchable == Reachable(src, tgt)

\* Once the source is quiet, the target comes to have every row of it.
Converges == <>[](Pairs(src) \subseteq Pairs(tgt))
=============================================================================
