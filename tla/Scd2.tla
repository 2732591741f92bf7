--------------------------------- MODULE Scd2 ---------------------------------
(***************************************************************************)
(* merge_delta_table (gandalf/merge/merge_delta_table.py) with merge_type  *)
(* "scd2" or "scd2_no_delete", called by several jobs at once on one Delta *)
(* table.  A call checks its source for duplicate keys, reads the driver   *)
(* clock and whether the target is empty, commits once, and then validates *)
(* the table it reads back: commit and validation are separate, and        *)
(* nothing is rolled back when the validation raises.                      *)
(*                                                                         *)
(* External: Delta commits an overwrite or a MERGE atomically, a MERGE     *)
(* reads the version it replaces, and a lost optimistic race is an         *)
(* exception (Abort).                                                      *)
(***************************************************************************)
EXTENDS Scd2Batch

CONSTANTS
  Jobs,      \* the callers of merge_delta_table
  Types,     \* the merge types they use
  Seeded     \* TRUE: the table starts with an initial load already made

ASSUME TypesAssumption == Types \subseteq {"scd2", "scd2_no_delete"}
ASSUME SeededAssumption == Seeded \in BOOLEAN

VARIABLES
  target,    \* the rows of the target table
  clock,     \* the next instant the driver clock shows
  job        \* per job: [pc, type, feed, cts], cts being the instant it stamps

vars == <<target, clock, job>>

Verdicts == {"idle", "rejected", "aborted", "miscounted", "duplicated", "ok"}
InFlight == {"check", "inspect", "photo", "merge", "count", "current", "bounds"}

\* merge_cond is set.
Partial == Scope # Vals

Feeds == {F \in SUBSET Rows : ~ DuplicateKeys(F)}

\* A job that is in no call; v is how its last call ended.
Ended(v) == [pc |-> v, type |-> "none", feed |-> {}, cts |-> 0]

Init ==
  /\ target \in (IF Seeded THEN {Photo(F, 0) : F \in Feeds \ {{}}} ELSE {{}})
  /\ clock = 1
  /\ job = [j \in Jobs |-> Ended("idle")]

Goto(j, pc) == job' = [job EXCEPT ![j].pc = pc]
End(j, v)   == job' = [job EXCEPT ![j] = Ended(v)]

\* A job calls merge_delta_table with any source it may have extracted.
Start(j) ==
  /\ job[j].pc \in Verdicts
  /\ \E type \in Types, F \in SUBSET Rows :
       job' = [job EXCEPT ![j] = [pc |-> "check", type |-> type, feed |-> F, cts |-> 0]]
  /\ UNCHANGED <<target, clock>>

\* Step 3: the source has one row per key.
CheckSource(j) ==
  /\ job[j].pc = "check"
  /\ ~ DuplicateKeys(job[j].feed)
  /\ Goto(j, "inspect")
  /\ UNCHANGED <<target, clock>>

RejectSource(j) ==
  /\ job[j].pc = "check"
  /\ DuplicateKeys(job[j].feed)
  /\ End(j, "rejected")
  /\ UNCHANGED <<target, clock>>

\* scd2_batch takes its instant and looks whether the target is empty.  No two
\* calls get the same instant, and there are at most MaxRuns of them.
Inspect(j) ==
  /\ job[j].pc = "inspect"
  /\ clock =< MaxRuns
  /\ job' = [job EXCEPT ![j] = [pc   |-> IF target = {} THEN "photo" ELSE "merge",
                                type |-> @.type, feed |-> @.feed, cts |-> clock]]
  /\ clock' = clock + 1
  /\ UNCHANGED target

\* The initial load overwrites whatever the table holds by now.
WritePhoto(j) ==
  /\ job[j].pc = "photo"
  /\ target' = Photo(job[j].feed, job[j].cts)
  /\ Goto(j, "count")
  /\ UNCHANGED clock

StagedBy(j) ==
  Staged(job[j].feed, target, job[j].cts, job[j].type = "scd2_no_delete")

Merge(j) ==
  /\ job[j].pc = "merge"
  /\ ~ Ambiguous(target, StagedBy(j))
  /\ target' = MergeInto(target, StagedBy(j), job[j].cts)
  /\ Goto(j, "count")
  /\ UNCHANGED clock

MergeRefused(j) ==
  /\ job[j].pc = "merge"
  /\ Ambiguous(target, StagedBy(j))
  /\ End(j, "aborted")
  /\ UNCHANGED <<target, clock>>

\* Step 10: a full snapshot has as many rows as the target has current rows.
\* Skipped for scd2_no_delete and when merge_cond is set.
Counted(j) ==
  \/ job[j].type # "scd2"
  \/ Partial
  \/ Cardinality(job[j].feed) = Cardinality(Current(target))

RowCount(j) ==
  /\ job[j].pc = "count"
  /\ IF Counted(j) THEN Goto(j, "current") ELSE End(j, "miscounted")
  /\ UNCHANGED <<target, clock>>

\* Step 10: no key has two current rows.
CheckCurrent(j) ==
  /\ job[j].pc = "current"
  /\ IF DuplicateKeys(Current(target)) THEN End(j, "duplicated") ELSE Goto(j, "bounds")
  /\ UNCHANGED <<target, clock>>

\* Step 10: no key has two rows that end at the same instant.
CheckBounds(j) ==
  /\ job[j].pc = "bounds"
  /\ End(j, IF DuplicateBounds(target) THEN "duplicated" ELSE "ok")
  /\ UNCHANGED <<target, clock>>

\* Any step may raise instead: a lost driver, a Spark failure, a Delta conflict.
Abort(j) ==
  /\ job[j].pc \in InFlight
  /\ End(j, "aborted")
  /\ UNCHANGED <<target, clock>>

Step(j) ==
  \/ Start(j)
  \/ CheckSource(j)
  \/ RejectSource(j)
  \/ Inspect(j)
  \/ WritePhoto(j)
  \/ Merge(j)
  \/ MergeRefused(j)
  \/ RowCount(j)
  \/ CheckCurrent(j)
  \/ CheckBounds(j)
  \/ Abort(j)

Next == \E j \in Jobs : Step(j)

Spec == Init /\ [][Next]_vars

(***************************************************************************)
(* Properties.                                                             *)
(***************************************************************************)
TargetRows ==
  [key : Keys, val : Vals, cs : {CsOf[v] : v \in Vals} \cup {Deleted}, cur : {0, 1},
   start : NullTime .. MaxRuns, end : 0 .. Forever, part : NullTime .. Forever,
   id : Nat \X {"new", "upd", "del"} \X Nat]

\* Every variable has its type.
TypeOK ==
  /\ target \subseteq TargetRows
  /\ clock \in 1 .. MaxRuns + 1
  /\ job \in [Jobs -> [pc : Verdicts \cup InFlight, type : Types \cup {"none"},
                       feed : SUBSET Rows, cts : 0 .. MaxRuns]]

\* However the calls of several jobs interleave, no key has two current rows,
\* which check_duplicates(ids, current) tests only after the commit.
UniqueCurrent == ~ DuplicateKeys(Current(target))

\* No key has two rows with the same end, which check_duplicates(ids + [end_dt])
\* tests after the commit: with stale instants the intervals may be inverted,
\* but (ids, end_dt) stays a key of the table.
UniqueBounds == ~ DuplicateBounds(target)

\* With one job, keys without a NULL and no merge_cond, the validation after the
\* commit never has anything to report: a call that MERGE accepts never leaves an
\* invalid table behind.
GuardsSilent == \A j \in Jobs : job[j].pc \notin {"miscounted", "duplicated"}

\* With one job, the versions of a key are disjoint intervals of the clock, and
\* a version is current exactly when it has not ended.
Timeline ==
  /\ \A r \in target : r.start =< r.end /\ (r.cur = 1 <=> r.end = Forever)
  /\ \A r, s \in target :
       r # s /\ r.key = s.key => r.end < s.start \/ s.end < r.start

\* A row is in the partition of its own control column, after scd2_batch has
\* ended its version (set_dict) as well as when it was inserted.
PartitionAligned == \A r \in target : r.part = PartOf(r.start, r.end)

\* With one job, a committed load is delivered: each source row is current up
\* to its checksum, and a full snapshot leaves no other row current.
Delivered ==
  \A j \in Jobs : job[j].pc \in {"count", "current", "bounds"} =>
    /\ \A s \in job[j].feed :
         \E r \in Current(target) : r.key = s.key /\ r.cs = CsOf[s.val]
    /\ job[j].type = "scd2" =>
         \A r \in Current(target) : \E s \in job[j].feed : s.key = r.key

\* No step rewrites history: a row that is not current stays as it is, and a
\* current row stays or becomes the ended version that started with it.
HistoryKept ==
  [][\A r \in target :
       \/ r \in target'
       \/ /\ r.cur = 1
          /\ \E q \in target' : q.cur = 0 /\ q.id = r.id /\ q.key = r.key
                                 /\ q.val = r.val /\ q.start = r.start]_target

\* Once a tombstone is on file, no later call ends "ok": nothing scd2_batch
\* does can clear what its own validation rejects.
LatchedFailure ==
  [][(\E r \in target : r.cs = Deleted)
       => \A j \in Jobs : job'[j].pc = "ok" => job[j].pc = "ok"]_vars

\* scd2_batch: "On empty target: initial load with SCD control columns. On
\* existing target: detect inserts, updates, and optionally deletes."
InitialLoadOnlyOnEmpty == [][(\E j \in Jobs : WritePhoto(j)) => target = {}]_vars

(***************************************************************************)
(* Refinement.  The current rows are the live versions, the others the     *)
(* past, and the loads asked for are those of the calls that are about to  *)
(* commit: a commit does the load of its own call and no other.  With one  *)
(* job every load is later than what it replaces.                          *)
(***************************************************************************)
live == {[key |-> r.key, val |-> r.val, from |-> r.start] : r \in Current(target)}
past == {[key |-> r.key, val |-> r.val, from |-> r.start, to |-> r.end]
           : r \in target \ Current(target)}
asked ==
  {[feed |-> job[j].feed, full |-> job[j].type = "scd2", at |-> job[j].cts]
     : j \in {i \in Jobs : job[i].pc \in {"photo", "merge"}}}

SerialHistory   == INSTANCE VersionedHistory WITH Stamps <- 1 .. MaxRuns, Ordered <- TRUE
UnorderedHistory == INSTANCE VersionedHistory WITH Stamps <- 1 .. MaxRuns, Ordered <- FALSE

\* Staging, merge keys and the sentinel amount to the loads the calls ask for,
\* each at a later instant than the last.
RefinesHistory == SerialHistory!Spec

\* The same when jobs interleave, except that an instant taken before another
\* job's commit may be earlier than the version it replaces.
RefinesUnorderedHistory == UnorderedHistory!Spec
=============================================================================
