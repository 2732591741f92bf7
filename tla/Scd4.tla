--------------------------------- MODULE Scd4 ---------------------------------
(***************************************************************************)
(* merge_delta_table with an SCDConfig of scd_type "scd4": scd4_merge      *)
(* (gandalf/scd/strategies.py) keeps a current table by upsert and appends *)
(* to a history table the rows that are new or changed.  Append and upsert *)
(* are two Delta commits: a call may stop between them, and the calls of   *)
(* several jobs may interleave there.                                      *)
(*                                                                         *)
(* A payload is a record with a field cs, the checksum step 6 computes     *)
(* from the others: from all of them, those in ignore_update_cols too.     *)
(***************************************************************************)
EXTENDS UpsertMerge

CONSTANTS
  Jobs,         \* the callers of merge_delta_table
  Seed,         \* the rows the current table starts with, unless it is empty
  Sources,      \* the payloads of source rows: checksum and columns agree
  Schemas,      \* whether the current table may have the checksum column, or lack it
  MaxRuns       \* bound on the instants the driver clock shows

ASSUME RunsAssumption == MaxRuns \in Nat \ {0}
ASSUME SeedAssumption == Seed \subseteq Rows
ASSUME SourcesAssumption == Sources \subseteq Vals
ASSUME SchemasAssumption == Schemas \subseteq BOOLEAN

VARIABLES
  cur,         \* the rows of the current table
  hist,        \* the history table: [key, val, from, of], of being the row joined
  hasChecksum, \* the current table has the checksum column
  clock,       \* the next instant the driver clock shows
  job,         \* per job: [pc, feed, cts, recs], recs being what it will append
  calm         \* history: no calls have overlapped, and none has stopped between
               \* its two commits

vars == <<cur, hist, hasChecksum, clock, job, calm>>

Verdicts == {"idle", "aborted", "duplicated", "ok"}
InFlight == {"inspect", "compare", "append", "upsert", "validate"}

Ended(v) == [pc |-> v, feed |-> {}, cts |-> 0, recs |-> {}]

Init ==
  /\ cur \in {{}, {Inserted(s, 0) : s \in Seed}}
  /\ hist = {}
  /\ hasChecksum \in Schemas
  /\ clock = 1
  /\ job = [j \in Jobs |-> Ended("idle")]
  /\ calm = TRUE

Start(j) ==
  /\ job[j].pc \in Verdicts
  /\ \E F \in {G \in Feeds : \A s \in G : s.val \in Sources} :
       job' = [job EXCEPT ![j] = [pc |-> "inspect", feed |-> F, cts |-> 0, recs |-> {}]]
  /\ calm' = (calm /\ \A i \in Jobs : job[i].pc \in Verdicts)
  /\ UNCHANGED <<cur, hist, hasChecksum, clock>>

\* A row of the history: the source row with its effective-from instant.
Record(s, now, of) == [key |-> s.key, val |-> s.val, from |-> now, of |-> of]

\* Mutant: the source as it is, without the stamps.
Unstamped(F, now) == F

\* history_candidate.
Candidates(F, now) == {Record(s, now, 0) : s \in F}

\* The history records are stamped, and the target's emptiness and columns
\* decide whether all will be appended: on an initial load, and if there is no
\* checksum to compare with.  No two calls get the same instant.
Inspect(j) ==
  /\ job[j].pc = "inspect"
  /\ clock =< MaxRuns
  /\ job' = [job EXCEPT ![j] =
       IF cur = {} \/ ~ hasChecksum
         THEN [pc |-> "append", feed |-> job[j].feed, cts |-> clock,
               recs |-> Candidates(job[j].feed, clock)]
         ELSE [pc |-> "compare", feed |-> job[j].feed, cts |-> clock, recs |-> {}]]
  /\ clock' = clock + 1
  /\ UNCHANGED <<cur, hist, hasChecksum, calm>>

\* Mutant: only changed rows are recorded, new keys are not.
ChangedOnly(F, T, now) ==
  UNION {{Record(s, now, r.id) : r \in {x \in T : Joins(x, s) /\ x.val.cs # s.val.cs}}
           : s \in F}

\* Mutant: every source row is recorded.
ChangedOrNot(F, T, now) == Candidates(F, now)

\* changed_or_new: the left join of the source with the target's checksums,
\* a source row without partner or once per partner with another checksum.
ChangedOrNew(F, T, now) ==
  Candidates({s \in F : \A r \in T : ~ Joins(r, s)}, now)
    \cup UNION {{Record(s, now, r.id)
                   : r \in {x \in T : Joins(x, s) /\ x.val.cs # s.val.cs}} : s \in F}

\* The append's job reads the current table, then commits to the history.
Compare(j) ==
  /\ job[j].pc = "compare"
  /\ job' = [job EXCEPT ![j] =
       [pc |-> "append", feed |-> job[j].feed, cts |-> job[j].cts,
        recs |-> ChangedOrNew(job[j].feed, cur, job[j].cts)]]
  /\ UNCHANGED <<cur, hist, hasChecksum, clock, calm>>

Goto(j, pc) ==
  job' = [job EXCEPT ![j] =
            [pc |-> pc, feed |-> job[j].feed, cts |-> job[j].cts, recs |-> {}]]
End(j, v) == job' = [job EXCEPT ![j] = Ended(v)]

AppendHistory(j) ==
  /\ job[j].pc = "append"
  /\ hist' = hist \cup job[j].recs
  /\ Goto(j, "upsert")
  /\ UNCHANGED <<cur, hasChecksum, clock, calm>>

\* scd1_merge, whose update sets the checksum column too.
UpsertCurrent(j) ==
  /\ job[j].pc = "upsert"
  /\ hasChecksum
  /\ ~ Ambiguous(cur, job[j].feed)
  /\ cur' = Upsert(cur, job[j].feed, job[j].cts)
  /\ Goto(j, "validate")
  /\ UNCHANGED <<hist, hasChecksum, clock, calm>>

\* Delta rejects a MERGE that sets a column the target does not have, and one
\* in which two source rows update one row.
UpsertRejected(j) ==
  /\ job[j].pc = "upsert"
  /\ ~ hasChecksum \/ Ambiguous(cur, job[j].feed)
  /\ End(j, "aborted")
  /\ calm' = FALSE
  /\ UNCHANGED <<cur, hist, hasChecksum, clock>>

\* Step 10: check_duplicates(target, ids).
Validate(j) ==
  /\ job[j].pc = "validate"
  /\ End(j, IF DuplicateKeys(cur) THEN "duplicated" ELSE "ok")
  /\ UNCHANGED <<cur, hist, hasChecksum, clock, calm>>

\* Any step may raise instead: a rejected source or schema before anything is
\* written, a lost driver, a Spark failure or a Delta conflict after.
Abort(j) ==
  /\ job[j].pc \in InFlight
  /\ End(j, "aborted")
  /\ calm' = (calm /\ job[j].pc # "upsert")
  /\ UNCHANGED <<cur, hist, hasChecksum, clock>>

Next == \E j \in Jobs :
  \/ Start(j) \/ Inspect(j) \/ Compare(j) \/ AppendHistory(j)
  \/ UpsertCurrent(j) \/ UpsertRejected(j) \/ Validate(j) \/ Abort(j)

Spec == Init /\ [][Next]_vars

(***************************************************************************)
(* Properties.                                                             *)
(***************************************************************************)
CurrentRows == [key : Keys, val : Vals, id : 0 .. MaxRuns]
Records == [key : Keys, val : Vals, from : 1 .. MaxRuns, of : 0 .. MaxRuns]

\* Every variable has its type.
TypeOK ==
  /\ cur \subseteq CurrentRows
  /\ hist \subseteq Records
  /\ hasChecksum \in BOOLEAN
  /\ clock \in 1 .. MaxRuns + 1
  /\ job \in [Jobs -> [pc : Verdicts \cup InFlight, feed : SUBSET Rows,
                       cts : 0 .. MaxRuns, recs : SUBSET Records]]
  /\ calm \in BOOLEAN

\* The history H, or the table as the first scd4 call found it, has checksum cs
\* for key k.
OnRecord(H, k, cs) ==
  \/ \E h \in H : h.key = k /\ h.val.cs = cs
  \/ \E s \in Seed : s.key = k /\ s.val.cs = cs

\* Whatever interleaves and wherever a call stops, what the current table shows
\* of a key is on record: the append comes first, and it leaves out only what
\* an earlier append recorded.
AuditComplete == \A r \in cur : OnRecord(hist, r.key, r.val.cs)

\* However calls interleave, the current table has one row per key.
UniqueKeys == ~ DuplicateKeys(cur)

Latest(k) == {h \in hist : h.key = k /\ \A g \in hist : g.key = k => g.from =< h.from}

\* Between calls, and as long as calls neither overlap nor stop between their
\* commits, the current row of a key shows its last record, but for the columns of
\* ignore_update_cols, in which the two may differ for good; only rows that no
\* call has changed have no record.
HistoryMirrors ==
  calm /\ (\A j \in Jobs : job[j].pc \in Verdicts) =>
    /\ \A h \in hist : \E r \in cur : r.key = h.key
    /\ \A r \in cur :
         IF Latest(r.key) = {} THEN \E s \in Seed : r = Inserted(s, 0)
         ELSE \A h \in Latest(r.key) : r.val = Overlay[<<r.val, h.val>>]

\* tests/test_scd_strategies_unit.py: "scd4_merge must not append duplicate
\* history rows when checksum is unchanged": of two records of a key that
\* follow each other, the second has another checksum.  (Not so when calls
\* overlap, or when one that stopped between its commits is retried.)
NoRepeats ==
  calm => \A g, h \in hist :
    /\ g # h /\ g.key = h.key /\ g.val.cs = h.val.cs /\ g.from =< h.from
    => \E m \in hist :
         m.key = g.key /\ m.val.cs # g.val.cs /\ g.from =< m.from /\ m.from =< h.from
=============================================================================
