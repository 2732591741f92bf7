--------------------------------- MODULE Scd0 ---------------------------------
(***************************************************************************)
(* merge_delta_table with an SCDConfig of scd_type "scd0": scd0_merge      *)
(* (gandalf/scd/strategies.py) compares the protected columns of its       *)
(* source with the target, a Spark job for each, and then inserts the new  *)
(* keys.  Each comparison and the MERGE read the table of their own        *)
(* moment, and other jobs may commit in between.                           *)
(*                                                                         *)
(* A payload is a function of the column names.                            *)
(***************************************************************************)
EXTENDS UpsertMerge, Sequences

CONSTANTS
  Jobs,       \* the callers of merge_delta_table
  Protected,  \* protected_columns, or else tracked_columns
  MaxRuns     \* bound on the commits

ASSUME RunsAssumption == MaxRuns \in Nat \ {0}
ASSUME ProtectedAssumption ==
  /\ Protected \in Seq(STRING)
  /\ \A v \in Vals, n \in 1 .. Len(Protected) : Protected[n] \in DOMAIN v

VARIABLES
  tgt,    \* the rows of the target; an id is the commit that inserted the row
  clock,  \* the number of the next commit
  job     \* per job: [pc, feed, col, began], col being the protected column to
          \* compare next, began the commits before the call

vars == <<tgt, clock, job>>

Verdicts == {"idle", "changed", "aborted", "duplicated", "ok"}
InFlight == {"compare", "validate"}

Ended(v) == [pc |-> v, feed |-> {}, col |-> 1, began |-> 0]

Init ==
  /\ tgt = {}
  /\ clock = 1
  /\ job = [j \in Jobs |-> Ended("idle")]

Start(j) ==
  /\ job[j].pc \in Verdicts
  /\ \E F \in Feeds :
       job' = [job EXCEPT ![j] = [pc |-> "compare", feed |-> F, col |-> 1, began |-> clock]]
  /\ UNCHANGED <<tgt, clock>>

\* Mutant: only the first protected column is looked at.
ChangedFirst(F, T, n) ==
  n = 1 /\ \E s \in F, r \in T : Joins(r, s) /\ r.val[Protected[n]] # s.val[Protected[n]]

\* The inner join has a row in which the nth protected column differs.
Changed(F, T, n) ==
  \E s \in F, r \in T : Joins(r, s) /\ r.val[Protected[n]] # s.val[Protected[n]]

Compare(j) ==
  /\ job[j].pc = "compare"
  /\ job[j].col =< Len(Protected)
  /\ ~ Changed(job[j].feed, tgt, job[j].col)
  /\ job' = [job EXCEPT ![j] =
       [pc |-> "compare", feed |-> job[j].feed, col |-> job[j].col + 1,
        began |-> job[j].began]]
  /\ UNCHANGED <<tgt, clock>>

\* SCDValidationError.
Reject(j) ==
  /\ job[j].pc = "compare"
  /\ job[j].col =< Len(Protected)
  /\ Changed(job[j].feed, tgt, job[j].col)
  /\ job' = [job EXCEPT ![j] = Ended("changed")]
  /\ UNCHANGED <<tgt, clock>>

\* Mutants: every source row is inserted, and matched rows are overwritten.
InsertAll(T, F, now) == T \cup {Inserted(s, now) : s \in F}
InsertOver(T, F, now) == Upsert(T, F, now)

\* whenNotMatchedInsertAll, and no clause for the rows that match.
InsertNew(T, F, now) ==
  T \cup {Inserted(s, now) : s \in {x \in F : \A r \in T : ~ Hits(r, x)}}

Merge(j) ==
  /\ job[j].pc = "compare"
  /\ job[j].col > Len(Protected)
  /\ clock =< MaxRuns
  /\ tgt' = InsertNew(tgt, job[j].feed, clock)
  /\ clock' = clock + 1
  /\ job' = [job EXCEPT ![j] =
       [pc |-> "validate", feed |-> job[j].feed, col |-> job[j].col,
        began |-> job[j].began]]

\* Step 10: check_duplicates(target, ids).
Validate(j) ==
  /\ job[j].pc = "validate"
  /\ job' = [job EXCEPT ![j] = Ended(IF DuplicateKeys(tgt) THEN "duplicated" ELSE "ok")]
  /\ UNCHANGED <<tgt, clock>>

\* Any step may raise instead: a rejected source or schema, a lost driver, a
\* Spark failure, a Delta conflict.
Abort(j) ==
  /\ job[j].pc \in InFlight
  /\ job' = [job EXCEPT ![j] = Ended("aborted")]
  /\ UNCHANGED <<tgt, clock>>

Next == \E j \in Jobs :
  Start(j) \/ Compare(j) \/ Reject(j) \/ Merge(j) \/ Validate(j) \/ Abort(j)

Spec == Init /\ [][Next]_vars

(***************************************************************************)
(* Properties.                                                             *)
(***************************************************************************)
\* Every variable has its type.
TypeOK ==
  /\ tgt \subseteq [key : Keys, val : Vals, id : 1 .. MaxRuns]
  /\ clock \in 1 .. MaxRuns + 1
  /\ job \in [Jobs -> [pc : Verdicts \cup InFlight, feed : SUBSET Rows,
                       col : 1 .. Len(Protected) + 1, began : 0 .. MaxRuns + 1]]

\* Two jobs that find the same key new do not both insert it.
UniqueKeys == ~ DuplicateKeys(tgt)

SameProtected(v, w) == \A n \in 1 .. Len(Protected) : v[Protected[n]] = w[Protected[n]]

\* scd0_merge: "insert new keys and reject protected-column changes for existing
\* keys".  A call that has committed agrees, in every protected column, with the
\* rows that were on file when it began, although the columns were compared at
\* different moments.  (With a row inserted since, it may not: the MERGE passes
\* over it.)
ChangesRejected ==
  \A j \in Jobs : job[j].pc = "validate" =>
    \A s \in job[j].feed, r \in tgt :
      Joins(r, s) /\ r.id < job[j].began => SameProtected(r.val, s.val)

\* README.md: "protected columns cannot change".  What a key was first given
\* stays, whatever jobs interleave between comparison and MERGE.
FirstForever ==
  [][\A r \in tgt : \E q \in tgt' : q.key = r.key /\ SameProtected(q.val, r.val)]_tgt
=============================================================================
