------------------------------ MODULE Scd0Proofs ------------------------------
(***************************************************************************)
(* Proofs about Scd0 for every value of its constants.                     *)
(***************************************************************************)
EXTENDS Scd0, UpsertProofs

TRows == [key : Keys, val : Vals, id : 1 .. MaxRuns]
Calls == [pc : Verdicts \cup InFlight, feed : SUBSET Rows,
          col : 1 .. Len(Protected) + 1, began : 0 .. MaxRuns + 1]

LEMMA LengthNat == Len(Protected) \in Nat
BY ProtectedAssumption

LEMMA EndedCall ==
  ASSUME NEW v \in Verdicts
  PROVE  Ended(v) \in Calls
BY LengthNat, RunsAssumption DEF Ended, Calls

LEMMA InsertType ==
  ASSUME NEW T \in SUBSET TRows, NEW F \in SUBSET Rows, NEW now \in 1 .. MaxRuns
  PROVE  InsertNew(T, F, now) \in SUBSET TRows
BY DEF InsertNew, Inserted, TRows, Rows

\* Every variable keeps its type, for any number of jobs, keys and columns.
THEOREM TypeCorrect == Spec => []TypeOK
<1> USE RunsAssumption, LengthNat
<1>1. Init => TypeOK
  BY EndedCall DEF Init, TypeOK, Calls, Verdicts
<1>2. TypeOK /\ [Next]_vars => TypeOK'
  <2> SUFFICES ASSUME TypeOK, [Next]_vars
               PROVE  TypeOK'
    OBVIOUS
  <2>t. tgt \in SUBSET TRows /\ clock \in 1 .. MaxRuns + 1 /\ job \in [Jobs -> Calls]
    BY DEF TypeOK, TRows, Calls
  <2>0. CASE UNCHANGED vars
    BY <2>0 DEF vars, TypeOK
  <2>1. ASSUME NEW j \in Jobs, Start(j)
        PROVE  TypeOK'
    <3>1. PICK F \in Feeds :
            job' = [job EXCEPT ![j] = [pc |-> "compare", feed |-> F, col |-> 1, began |-> clock]]
      BY <2>1 DEF Start
    <3>2. [pc |-> "compare", feed |-> F, col |-> 1, began |-> clock] \in Calls
      BY <2>t DEF Calls, Feeds, InFlight
    <3> QED
      BY <2>t, <2>1, <3>1, <3>2 DEF Start, TypeOK, TRows, Calls
  <2>2. ASSUME NEW j \in Jobs, Compare(j)
        PROVE  TypeOK'
    <3>1. job[j] \in Calls /\ job[j].col =< Len(Protected) /\ job[j].col \in Nat
      BY <2>t, <2>2 DEF Compare, Calls
    <3>2. [pc |-> "compare", feed |-> job[j].feed, col |-> job[j].col + 1,
           began |-> job[j].began] \in Calls
      BY <3>1 DEF Calls, InFlight
    <3> QED
      BY <2>t, <2>2, <3>2 DEF Compare, TypeOK, TRows, Calls
  <2>3. ASSUME NEW j \in Jobs, Merge(j)
        PROVE  TypeOK'
    <3>1. job[j] \in Calls /\ clock \in 1 .. MaxRuns
      BY <2>t, <2>3 DEF Merge
    <3>2. [pc |-> "validate", feed |-> job[j].feed, col |-> job[j].col,
           began |-> job[j].began] \in Calls
      BY <3>1 DEF Calls, InFlight
    <3>3. tgt' \in SUBSET TRows
      <4>1. job[j].feed \in SUBSET Rows
        BY <3>1 DEF Calls
      <4> QED
        BY <2>t, <2>3, <3>1, <4>1, InsertType DEF Merge
    <3>4. clock' \in 1 .. MaxRuns + 1
      BY <2>3, <3>1 DEF Merge
    <3> QED
      BY <2>t, <2>3, <3>2, <3>3, <3>4 DEF Merge, TypeOK, TRows, Calls
  <2>4. ASSUME NEW j \in Jobs, Reject(j) \/ Validate(j) \/ Abort(j)
        PROVE  TypeOK'
    <3>1. PICK v \in Verdicts : job' = [job EXCEPT ![j] = Ended(v)]
      BY <2>4 DEF Reject, Validate, Abort, Verdicts
    <3>2. Ended(v) \in Calls
      BY EndedCall
    <3>3. tgt' = tgt /\ clock' = clock
      BY <2>4 DEF Reject, Validate, Abort
    <3> QED
      BY <2>t, <3>1, <3>2, <3>3 DEF TypeOK, TRows, Calls
  <2> QED
    BY <2>0, <2>1, <2>2, <2>3, <2>4 DEF Next
<1> QED
  BY <1>1, <1>2, PTL DEF Spec

(***************************************************************************)
(* A changed protected column is rejected.  The columns a call has passed  *)
(* agreed when they were compared; rows do not change, and the rows that   *)
(* come in later have a later commit than those on file when it began.     *)
(***************************************************************************)
\* In the first n - 1 protected columns F agrees with the rows of T on file
\* before commit c.
AgreedTo(F, T, n, c) ==
  \A m \in 1 .. Len(Protected) : m < n =>
    \A s \in F, r \in T :
      Joins(r, s) /\ r.id < c => r.val[Protected[m]] = s.val[Protected[m]]

RejectInv ==
  /\ \A r \in tgt : r.id < clock
  /\ \A j \in Jobs :
       /\ job[j].began =< clock
       /\ AgreedTo(job[j].feed, tgt, job[j].col, job[j].began)
       /\ job[j].pc = "validate" => job[j].col > Len(Protected)

\* However many calls interleave or fail, a call that commits agrees in every
\* protected column with the rows that were on file when it began.
THEOREM ChangesRejectedAlways == Spec => []ChangesRejected
<1> USE RunsAssumption, LengthNat
<1>1. Init => RejectInv
  BY DEF Init, RejectInv, AgreedTo, Ended
<1>2. TypeOK /\ RejectInv /\ [Next]_vars => RejectInv'
  <2> SUFFICES ASSUME TypeOK, RejectInv, [Next]_vars
               PROVE  RejectInv'
    OBVIOUS
  <2>t. tgt \in SUBSET TRows /\ clock \in Nat /\ job \in [Jobs -> Calls]
    BY DEF TypeOK, TRows, Calls
  <2>0. CASE UNCHANGED vars
    BY <2>0 DEF vars, RejectInv
  <2>1. ASSUME NEW j \in Jobs, Start(j)
        PROVE  RejectInv'
    <3>1. /\ job'[j].col = 1 /\ job'[j].began = clock /\ job'[j].pc = "compare"
          /\ \A i \in Jobs \ {j} : job'[i] = job[i]
          /\ tgt' = tgt /\ clock' = clock
      BY <2>t, <2>1 DEF Start
    <3>2. AgreedTo(job'[j].feed, tgt', 1, clock)
      BY DEF AgreedTo
    <3> QED
      BY <2>t, <3>1, <3>2 DEF RejectInv
  <2>2. ASSUME NEW j \in Jobs, Compare(j)
        PROVE  RejectInv'
    <3>1. /\ job'[j].col = job[j].col + 1 /\ job'[j].feed = job[j].feed
          /\ job'[j].began = job[j].began /\ job'[j].pc = "compare"
          /\ \A i \in Jobs \ {j} : job'[i] = job[i]
          /\ tgt' = tgt /\ clock' = clock
          /\ job[j].col \in Nat
      BY <2>t, <2>2 DEF Compare, Calls
    <3>2. AgreedTo(job[j].feed, tgt, job[j].col + 1, job[j].began)
      <4>1. AgreedTo(job[j].feed, tgt, job[j].col, job[j].began)
        BY DEF RejectInv
      <4>2. \A s \in job[j].feed, r \in tgt :
              Joins(r, s) => r.val[Protected[job[j].col]] = s.val[Protected[job[j].col]]
        BY <2>2 DEF Compare, Changed
      <4> QED
        BY <3>1, <4>1, <4>2 DEF AgreedTo
    <3> QED
      BY <3>1, <3>2 DEF RejectInv
  <2>3. ASSUME NEW j \in Jobs, Merge(j)
        PROVE  RejectInv'
    <3>1. /\ job'[j].col = job[j].col /\ job'[j].feed = job[j].feed
          /\ job'[j].began = job[j].began /\ job[j].col > Len(Protected)
          /\ \A i \in Jobs \ {j} : job'[i] = job[i]
          /\ clock' = clock + 1
      BY <2>t, <2>3 DEF Merge
    <3>2. \A r \in tgt' : r \in tgt \/ r.id = clock
      BY <2>3 DEF Merge, InsertNew, Inserted
    <3>3. \A r \in tgt' : r.id < clock'
      BY <2>t, <3>1, <3>2 DEF RejectInv, TRows
    <3>4. ASSUME NEW i \in Jobs
          PROVE  AgreedTo(job[i].feed, tgt', job[i].col, job[i].began)
      <4>1. /\ AgreedTo(job[i].feed, tgt, job[i].col, job[i].began)
            /\ job[i].began =< clock /\ job[i].began \in Nat
        BY <2>t DEF RejectInv, Calls
      <4>2. \A r \in tgt' : r.id < job[i].began => r \in tgt
        BY <2>t, <3>2, <4>1
      <4> QED
        BY <4>1, <4>2 DEF AgreedTo
    <3>5. \A i \in Jobs : job'[i].col = job[i].col /\ job'[i].feed = job[i].feed
                            /\ job'[i].began = job[i].began
      BY <3>1
    <3>6. \A i \in Jobs : AgreedTo(job'[i].feed, tgt', job'[i].col, job'[i].began)
      BY <3>4, <3>5
    <3>9. \A i \in Jobs : job'[i].began =< clock'
      <4>1. \A i \in Jobs : job[i].began \in Nat /\ job[i].began =< clock
        BY <2>t DEF RejectInv, Calls
      <4> QED
        BY <2>t, <3>1, <3>5, <4>1
    <3>7. \A i \in Jobs : job'[i].pc = "validate" => job'[i].col > Len(Protected)
      BY <3>1 DEF RejectInv
    <3> QED
      BY <3>3, <3>6, <3>7, <3>9 DEF RejectInv
  <2>4. ASSUME NEW j \in Jobs, Reject(j) \/ Validate(j) \/ Abort(j)
        PROVE  RejectInv'
    <3>1. PICK v \in Verdicts : job' = [job EXCEPT ![j] = Ended(v)]
      BY <2>4 DEF Reject, Validate, Abort, Verdicts
    <3>2. /\ job'[j].feed = {} /\ job'[j].began = 0 /\ job'[j].pc # "validate"
          /\ \A i \in Jobs \ {j} : job'[i] = job[i]
      BY <2>t, <3>1 DEF Ended, Verdicts
    <3>3. tgt' = tgt /\ clock' = clock
      BY <2>4 DEF Reject, Validate, Abort
    <3>4. AgreedTo(job'[j].feed, tgt, job'[j].col, job'[j].began)
      BY <3>2 DEF AgreedTo
    <3>5. ASSUME NEW i \in Jobs
          PROVE  /\ job'[i].began =< clock
                 /\ AgreedTo(job'[i].feed, tgt, job'[i].col, job'[i].began)
                 /\ job'[i].pc = "validate" => job'[i].col > Len(Protected)
      <4>1. CASE i = j
        <5>1. job'[j].began =< clock
          BY <2>t, <3>2
        <5>2. job'[i] = job'[j] /\ job'[j].pc # "validate"
          BY <3>2, <4>1
        <5> QED
          BY <3>4, <5>1, <5>2
      <4>2. CASE i # j
        BY <3>2, <4>2 DEF RejectInv
      <4> QED
        BY <4>1, <4>2
    <3> QED
      BY <3>3, <3>5 DEF RejectInv
  <2> QED
    BY <2>0, <2>1, <2>2, <2>3, <2>4 DEF Next
<1>3. TypeOK /\ RejectInv => ChangesRejected
  BY DEF TypeOK, RejectInv, ChangesRejected, AgreedTo, SameProtected
<1> QED
  BY <1>1, <1>2, <1>3, TypeCorrect, PTL DEF Spec

\* What a key was first given stays, however many calls interleave or fail: no
\* step of a call takes a row away or changes it.
THEOREM FirstForeverAlways == Spec => FirstForever
<1> DEFINE Stays == \A r \in tgt : \E q \in tgt' : q.key = r.key /\ SameProtected(q.val, r.val)
<1>1. ASSUME [Next]_vars
      PROVE  tgt \subseteq tgt'
  <2>1. CASE UNCHANGED vars
    BY <2>1 DEF vars
  <2>2. ASSUME NEW j \in Jobs, Merge(j)
        PROVE  tgt \subseteq tgt'
    BY <2>2 DEF Merge, InsertNew
  <2>3. ASSUME NEW j \in Jobs,
               Start(j) \/ Compare(j) \/ Reject(j) \/ Validate(j) \/ Abort(j)
        PROVE  tgt \subseteq tgt'
    BY <2>3 DEF Start, Compare, Reject, Validate, Abort
  <2> QED
    BY <1>1, <2>1, <2>2, <2>3 DEF Next
<1>2. \A r \in tgt : SameProtected(r.val, r.val)
  BY DEF SameProtected
<1>3. [Next]_vars => [Stays]_tgt
  BY <1>1, <1>2
<1> QED
  BY <1>3, PTL DEF Spec, FirstForever

(***************************************************************************)
(* One row per key.  A row is inserted only for a key the target of that   *)
(* moment has not, and a source has one row per key.                       *)
(***************************************************************************)
LEMMA InsertUnique ==
  ASSUME PlainKeys,
         NEW T \in SUBSET TRows, ~ DuplicateKeys(T), NEW F \in Feeds, NEW now
  PROVE  ~ DuplicateKeys(InsertNew(T, F, now))
<1>1. Table(T) /\ Table(F) /\ ~ DuplicateKeys(F)
  BY DEF Table, TRows, Feeds, Rows
<1>2. \A r \in T : \A s \in F : Hits(r, s) <=> r.key = s.key
  BY <1>1, HitIsKey
<1>3. \A q \in InsertNew(T, F, now) :
        \/ q \in T
        \/ \E s \in F : q = Inserted(s, now) /\ \A r \in T : r.key # s.key
  BY <1>2 DEF InsertNew
<1>4. \A s \in F : Inserted(s, now).key = s.key
  BY DEF Inserted
<1> QED
  BY <1>1, <1>3, <1>4 DEF DuplicateKeys

\* The source of a call had its keys checked before.
UniqueInv ==
  /\ UniqueKeys
  /\ \A j \in Jobs : job[j].feed \in Feeds

\* Jobs that find the same key new do not both insert it, if no key has a NULL
\* and scd0 runs without merge_cond.
THEOREM UniqueKeysAlways == ASSUME PlainKeys PROVE Spec => []UniqueKeys
<1>0. {} \in Feeds
  BY DEF Feeds, DuplicateKeys
<1>1. Init => UniqueInv
  <2>1. Init => ~ DuplicateKeys(tgt)
    BY DEF Init, DuplicateKeys
  <2>2. Init => \A j \in Jobs : job[j].feed = {}
    BY DEF Init, Ended
  <2> QED
    BY <1>0, <2>1, <2>2 DEF UniqueInv, UniqueKeys
<1>2. TypeOK /\ UniqueInv /\ [Next]_vars => UniqueInv'
  <2> SUFFICES ASSUME TypeOK, UniqueInv, [Next]_vars
               PROVE  UniqueInv'
    OBVIOUS
  <2>t. tgt \in SUBSET TRows /\ job \in [Jobs -> Calls]
    BY DEF TypeOK, TRows, Calls
  <2>0. CASE UNCHANGED vars
    BY <2>0 DEF vars, UniqueInv, UniqueKeys
  <2>1. ASSUME NEW j \in Jobs, Start(j)
        PROVE  UniqueInv'
    <3>1. /\ job'[j].feed \in Feeds
          /\ \A i \in Jobs \ {j} : job'[i] = job[i]
          /\ tgt' = tgt
      BY <2>t, <2>1 DEF Start
    <3> QED
      BY <3>1 DEF UniqueInv, UniqueKeys
  <2>2. ASSUME NEW j \in Jobs, Compare(j)
        PROVE  UniqueInv'
    <3>1. /\ job'[j].feed = job[j].feed
          /\ \A i \in Jobs \ {j} : job'[i] = job[i]
          /\ tgt' = tgt
      BY <2>t, <2>2 DEF Compare
    <3> QED
      BY <3>1 DEF UniqueInv, UniqueKeys
  <2>3. ASSUME NEW j \in Jobs, Merge(j)
        PROVE  UniqueInv'
    <3>1. /\ job'[j].feed = job[j].feed
          /\ \A i \in Jobs \ {j} : job'[i] = job[i]
          /\ tgt' = InsertNew(tgt, job[j].feed, clock)
      BY <2>t, <2>3 DEF Merge
    <3>2. ~ DuplicateKeys(tgt')
      BY <2>t, <3>1, InsertUnique DEF UniqueInv, UniqueKeys
    <3> QED
      BY <3>1, <3>2 DEF UniqueInv, UniqueKeys
  <2>4. ASSUME NEW j \in Jobs, Reject(j) \/ Validate(j) \/ Abort(j)
        PROVE  UniqueInv'
    <3>1. PICK v \in Verdicts : job' = [job EXCEPT ![j] = Ended(v)]
      BY <2>4 DEF Reject, Validate, Abort, Verdicts
    <3>2. /\ job'[j].feed = {}
          /\ \A i \in Jobs \ {j} : job'[i] = job[i]
      BY <2>t, <3>1 DEF Ended
    <3>3. tgt' = tgt
      BY <2>4 DEF Reject, Validate, Abort
    <3> QED
      BY <1>0, <3>2, <3>3 DEF UniqueInv, UniqueKeys
  <2> QED
    BY <2>0, <2>1, <2>2, <2>3, <2>4 DEF Next
<1>3. UniqueInv => UniqueKeys
  BY DEF UniqueInv
<1> QED
  BY <1>1, <1>2, <1>3, TypeCorrect, PTL DEF Spec
=============================================================================
