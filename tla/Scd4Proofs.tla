------------------------------ MODULE Scd4Proofs ------------------------------
(***************************************************************************)
(* Proofs about Scd4 for every value of its constants.                     *)
(***************************************************************************)
EXTENDS Scd4, UpsertProofs

\* A call that has taken its instant took one the clock has shown.
Stamped ==
  \A j \in Jobs :
    job[j].pc \in {"compare", "append", "upsert"} => job[j].cts \in 1 .. MaxRuns

TypeInv == TypeOK /\ Stamped

LEMMA UpsertType ==
  ASSUME NEW T \in SUBSET CurrentRows, NEW F \in SUBSET Rows, NEW now \in 0 .. MaxRuns
  PROVE  Upsert(T, F, now) \subseteq CurrentRows
<1>1. ASSUME NEW r \in T, NEW s \in F
      PROVE  Updated(r, s) \in CurrentRows
  <2>1. Overlay[<<r.val, s.val>>] \in Vals
    BY OverlayAssumption DEF CurrentRows, Rows
  <2> QED
    BY <2>1 DEF Updated, CurrentRows, Rows
<1>2. ASSUME NEW s \in F
      PROVE  Inserted(s, now) \in CurrentRows
  BY DEF Inserted, CurrentRows, Rows
<1> QED
  BY <1>1, <1>2 DEF Upsert

LEMMA RecordType ==
  ASSUME NEW s \in Rows, NEW now \in 1 .. MaxRuns, NEW of \in 0 .. MaxRuns
  PROVE  Record(s, now, of) \in Records
  BY DEF Record, Records, Rows

LEMMA CandidatesType ==
  ASSUME NEW F \in SUBSET Rows, NEW now \in 1 .. MaxRuns
  PROVE  Candidates(F, now) \subseteq Records
  BY RecordType, RunsAssumption DEF Candidates

LEMMA ChangedType ==
  ASSUME NEW F \in SUBSET Rows, NEW T \in SUBSET CurrentRows, NEW now \in 1 .. MaxRuns
  PROVE  ChangedOrNew(F, T, now) \subseteq Records
<1>1. \A s \in F : \A r \in T : Record(s, now, r.id) \in Records
  BY RecordType DEF CurrentRows
<1>2. Candidates({s \in F : \A r \in T : ~ Joins(r, s)}, now) \subseteq Records
  BY CandidatesType
<1> QED
  BY <1>1, <1>2 DEF ChangedOrNew

LEMMA TypeInvariant == Spec => []TypeInv
<1> USE RunsAssumption
<1>1. Init => TypeInv
  <2> SUFFICES ASSUME Init PROVE TypeInv
    OBVIOUS
  <2>1. cur \subseteq CurrentRows
    BY SeedAssumption DEF Init, Inserted, CurrentRows, Rows
  <2> QED
    BY <2>1, SchemasAssumption
       DEF Init, TypeInv, TypeOK, Stamped, Ended, Verdicts, InFlight
<1>2. TypeInv /\ [Next]_vars => TypeInv'
  <2> SUFFICES ASSUME TypeInv, [Next]_vars
               PROVE  TypeInv'
    OBVIOUS
  <2> USE DEF TypeInv, TypeOK, Stamped, Verdicts, InFlight
  <2>0. CASE UNCHANGED vars
    BY <2>0 DEF vars
  <2>1. ASSUME NEW j \in Jobs, Start(j) PROVE TypeInv'
    BY <2>1 DEF Start, Feeds
  <2>2. ASSUME NEW j \in Jobs, Inspect(j) PROVE TypeInv'
    <3>1. clock \in 1 .. MaxRuns
      BY <2>2 DEF Inspect
    <3>2. Candidates(job[j].feed, clock) \subseteq Records
      BY <3>1, CandidatesType
    <3> QED
      BY <2>2, <3>1, <3>2 DEF Inspect
  <2>3. ASSUME NEW j \in Jobs, Compare(j) PROVE TypeInv'
    <3>1. ChangedOrNew(job[j].feed, cur, job[j].cts) \subseteq Records
      BY <2>3, ChangedType DEF Compare
    <3> QED
      BY <2>3, <3>1 DEF Compare
  <2>4. ASSUME NEW j \in Jobs, AppendHistory(j) PROVE TypeInv'
    BY <2>4 DEF AppendHistory, Goto
  <2>5. ASSUME NEW j \in Jobs, UpsertCurrent(j) PROVE TypeInv'
    <3>1. cur' \subseteq CurrentRows
      BY <2>5, UpsertType DEF UpsertCurrent
    <3> QED
      BY <2>5, <3>1 DEF UpsertCurrent, Goto
  <2>6. ASSUME NEW j \in Jobs, UpsertRejected(j) \/ Validate(j) \/ Abort(j) PROVE TypeInv'
    <3>1. calm' \in BOOLEAN
      BY <2>6 DEF UpsertRejected, Validate, Abort
    <3> QED
      BY <2>6, <3>1 DEF UpsertRejected, Validate, Abort, End, Ended
  <2> QED
    BY <2>0, <2>1, <2>2, <2>3, <2>4, <2>5, <2>6 DEF Next
<1> QED
  BY <1>1, <1>2, PTL DEF Spec

\* Every variable keeps its type, for any number of jobs, keys and payloads.
THEOREM TypeCorrect == Spec => []TypeOK
<1>1. TypeInv => TypeOK
  BY DEF TypeInv
<1> QED
  BY <1>1, TypeInvariant, PTL

(***************************************************************************)
(* The audit trail.  A call about to append has each of its source rows on *)
(* record, or among the records it will append: it left out only rows that *)
(* the current table had with the same checksum, and those were on record. *)
(* A call about to upsert has them all on record.                          *)
(***************************************************************************)
AuditInv ==
  /\ \A r \in cur : OnRecord(hist, r.key, r.val.cs)
  /\ \A j \in Jobs : \A s \in job[j].feed :
       /\ job[j].pc = "append" => OnRecord(hist \cup job[j].recs, s.key, s.val.cs)
       /\ job[j].pc = "upsert" => OnRecord(hist, s.key, s.val.cs)

\* What MERGE compares are the ids themselves.
PlainIds ==
  \A k, l \in Keys : JoinOf[k] = JoinOf[l] /\ JoinOf[k] # Null => k = l

\* The update sets the checksum: it is not among the ignore_update_cols.
ChecksumUpdated == \A v, w \in Vals : Overlay[<<v, w>>].cs = w.cs

\* Every source row has a candidate record.
LEMMA CandidatesCover ==
  ASSUME NEW F, NEW now, NEW s \in F
  PROVE  OnRecord(Candidates(F, now), s.key, s.val.cs)
<1>1. Record(s, now, 0) \in Candidates(F, now)
  BY DEF Candidates
<1> QED
  BY <1>1 DEF OnRecord, Record

\* What changed_or_new leaves out, the current table has.
LEMMA ChangedCover ==
  ASSUME PlainIds,
         NEW F \in SUBSET Rows, NEW T \in SUBSET CurrentRows, NEW now, NEW s \in F
  PROVE  \/ OnRecord(ChangedOrNew(F, T, now), s.key, s.val.cs)
         \/ \E r \in T : r.key = s.key /\ r.val.cs = s.val.cs
<1>1. CASE \A r \in T : ~ Joins(r, s)
  <2>1. OnRecord(Candidates({x \in F : \A r \in T : ~ Joins(r, x)}, now), s.key, s.val.cs)
    BY <1>1, CandidatesCover
  <2> QED
    BY <2>1 DEF OnRecord, ChangedOrNew
<1>2. ASSUME NEW r \in T, Joins(r, s), r.val.cs # s.val.cs
      PROVE  OnRecord(ChangedOrNew(F, T, now), s.key, s.val.cs)
  <2>1. Record(s, now, r.id) \in ChangedOrNew(F, T, now)
    BY <1>2 DEF ChangedOrNew
  <2> QED
    BY <2>1 DEF OnRecord, Record
<1>3. ASSUME NEW r \in T, Joins(r, s), r.val.cs = s.val.cs
      PROVE  r.key = s.key
  BY <1>3 DEF Joins, PlainIds, CurrentRows, Rows
<1> QED
  BY <1>1, <1>2, <1>3

LEMMA AuditInvariant ==
  ASSUME PlainIds, ChecksumUpdated
  PROVE  Spec => []AuditInv
<1>1. Init => AuditInv
  <2>1. \A s \in Seed : Inserted(s, 0).key = s.key /\ Inserted(s, 0).val = s.val
    BY DEF Inserted
  <2> QED
    BY <2>1 DEF Init, AuditInv, Ended, OnRecord
<1>2. TypeOK /\ AuditInv /\ [Next]_vars => AuditInv'
  <2> SUFFICES ASSUME TypeOK, AuditInv, [Next]_vars
               PROVE  AuditInv'
    OBVIOUS
  <2> USE DEF AuditInv
  <2>0. CASE UNCHANGED vars
    BY <2>0 DEF vars
  <2>1. ASSUME NEW j \in Jobs, Start(j)
        PROVE  AuditInv'
    <3>1. /\ \A i \in Jobs \ {j} : job'[i] = job[i]
          /\ job'[j].pc = "inspect"
      BY <2>1 DEF Start, TypeOK
    <3>2. hist' = hist /\ cur' = cur
      BY <2>1 DEF Start
    <3> QED
      BY <3>1, <3>2
  <2>2. ASSUME NEW j \in Jobs, Inspect(j)
        PROVE  AuditInv'
    <3>1. ASSUME NEW s \in job[j].feed
          PROVE  OnRecord(hist \cup Candidates(job[j].feed, clock), s.key, s.val.cs)
      BY CandidatesCover DEF OnRecord
    <3> QED
      BY <2>2, <3>1 DEF Inspect, TypeOK
  <2>3. ASSUME NEW j \in Jobs, Compare(j)
        PROVE  AuditInv'
    <3>1. job[j].feed \subseteq Rows
      BY DEF TypeOK
    <3>2. ASSUME NEW s \in job[j].feed
          PROVE  OnRecord(hist \cup ChangedOrNew(job[j].feed, cur, job[j].cts), s.key, s.val.cs)
      BY <3>1, ChangedCover DEF OnRecord, TypeOK
    <3> QED
      BY <2>3, <3>2 DEF Compare, TypeOK
  <2>6. ASSUME NEW j \in Jobs, AppendHistory(j)
        PROVE  AuditInv'
    <3>1. hist' = hist \cup job[j].recs /\ cur' = cur
      BY <2>6 DEF AppendHistory
    <3>2. \A s \in job[j].feed : OnRecord(hist', s.key, s.val.cs)
      BY <2>6, <3>1 DEF AppendHistory
    <3>3. /\ \A i \in Jobs \ {j} : job'[i] = job[i]
          /\ job'[j].feed = job[j].feed /\ job'[j].pc = "upsert"
      BY <2>6 DEF AppendHistory, Goto, TypeOK
    <3> QED
      BY <3>1, <3>2, <3>3 DEF OnRecord
  <2>4. ASSUME NEW j \in Jobs, UpsertCurrent(j)
        PROVE  AuditInv'
    <3>1. /\ cur' = Upsert(cur, job[j].feed, job[j].cts)
          /\ hist' = hist
          /\ \A s \in job[j].feed : OnRecord(hist, s.key, s.val.cs)
          /\ job[j].feed \subseteq Rows
      BY <2>4 DEF UpsertCurrent, TypeOK
    <3>2. ASSUME NEW q \in cur'
          PROVE  OnRecord(hist, q.key, q.val.cs)
      <4>1. CASE q \in cur
        BY <4>1
      <4>2. ASSUME NEW r \in cur, NEW s \in job[j].feed, q = Updated(r, s)
            PROVE  OnRecord(hist, q.key, q.val.cs)
        <5>1. /\ r \in CurrentRows /\ r.val \in Vals /\ s.val \in Vals
          BY <3>1 DEF TypeOK, CurrentRows, Rows
        <5>2. q.key = s.key /\ q.val = Overlay[<<r.val, s.val>>]
          BY <4>2, <5>1 DEF Updated, CurrentRows
        <5>3. q.val.cs = s.val.cs
          BY <5>1, <5>2 DEF ChecksumUpdated
        <5> QED
          BY <3>1, <5>2, <5>3
      <4>3. ASSUME NEW s \in job[j].feed, q = Inserted(s, job[j].cts)
            PROVE  OnRecord(hist, q.key, q.val.cs)
        BY <3>1, <4>3 DEF Inserted
      <4> QED
        BY <3>1, <4>1, <4>2, <4>3 DEF Upsert
    <3>3. /\ \A i \in Jobs \ {j} : job'[i] = job[i]
          /\ job'[j].pc = "validate"
      BY <2>4 DEF UpsertCurrent, Goto, TypeOK
    <3> QED
      BY <3>1, <3>2, <3>3
  <2>5. ASSUME NEW j \in Jobs, UpsertRejected(j) \/ Validate(j) \/ Abort(j)
        PROVE  AuditInv'
    <3>1. PICK v : job' = [job EXCEPT ![j] = Ended(v)]
      BY <2>5, Zenon DEF UpsertRejected, Validate, Abort, End
    <3>2. /\ \A i \in Jobs \ {j} : job'[i] = job[i]
          /\ job'[j].feed = {}
      BY <3>1 DEF Ended, TypeOK
    <3>3. hist' = hist /\ cur' = cur
      BY <2>5 DEF UpsertRejected, Validate, Abort
    <3> QED
      BY <3>2, <3>3
  <2> QED
    BY <2>0, <2>1, <2>2, <2>3, <2>4, <2>5, <2>6 DEF Next
<1> QED
  BY <1>1, <1>2, TypeCorrect, PTL DEF Spec

\* What the current table shows of a key is on record, wherever any number of
\* calls interleave or stop, whatever merge_cond and NULL keys.
THEOREM AuditAlwaysComplete ==
  ASSUME PlainIds, ChecksumUpdated
  PROVE  Spec => []AuditComplete
<1>1. AuditInv => AuditComplete
  BY DEF AuditInv, AuditComplete, OnRecord
<1> QED
  BY <1>1, AuditInvariant, PTL

(***************************************************************************)
(* One row per key in the current table.                                   *)
(***************************************************************************)
UniqueInv == UniqueKeys /\ \A j \in Jobs : job[j].feed \in Feeds

LEMMA UniqueInvariant ==
  ASSUME PlainKeys, Seed \in Feeds
  PROVE  Spec => []UniqueInv
<1>1. Init => UniqueInv
  BY DEF Init, UniqueInv, UniqueKeys, Ended, Feeds, DuplicateKeys, Inserted
<1>2. TypeOK /\ UniqueInv /\ [Next]_vars => UniqueInv'
  <2> SUFFICES ASSUME TypeOK, UniqueInv, [Next]_vars
               PROVE  UniqueInv'
    OBVIOUS
  <2>0. {} \in Feeds
    BY DEF Feeds, DuplicateKeys
  <2>1. CASE UNCHANGED vars
    BY <2>1 DEF vars, UniqueInv, UniqueKeys
  <2>2. ASSUME NEW j \in Jobs, \/ Start(j) \/ Inspect(j) \/ Compare(j) \/ AppendHistory(j)
                               \/ UpsertRejected(j) \/ Validate(j) \/ Abort(j)
        PROVE  UniqueInv'
    <3>1. cur' = cur
      BY <2>2 DEF Start, Inspect, Compare, AppendHistory, UpsertRejected, Validate, Abort
    <3>2. \A i \in Jobs : job'[i].feed \in Feeds
      <4>1. CASE Start(j)
        BY <4>1 DEF Start, UniqueInv, TypeOK
      <4>2. CASE Inspect(j)
        <5>1. job'[j].feed = job[j].feed
          BY <4>2 DEF Inspect, TypeOK
        <5> QED
          BY <4>2, <5>1 DEF Inspect, UniqueInv, TypeOK
      <4>3. CASE Compare(j) \/ AppendHistory(j)
        BY <4>3 DEF Compare, AppendHistory, Goto, UniqueInv, TypeOK
      <4>4. CASE UpsertRejected(j) \/ Validate(j) \/ Abort(j)
        <5>1. PICK v : job' = [job EXCEPT ![j] = Ended(v)]
          BY <4>4, Zenon DEF UpsertRejected, Validate, Abort, End
        <5>2. job'[j].feed = {} /\ \A i \in Jobs \ {j} : job'[i] = job[i]
          BY <5>1 DEF Ended, TypeOK
        <5> QED
          BY <2>0, <5>2 DEF UniqueInv
      <4> QED
        BY <2>2, <4>1, <4>2, <4>3, <4>4
    <3> QED
      BY <3>1, <3>2 DEF UniqueInv, UniqueKeys
  <2>3. ASSUME NEW j \in Jobs, UpsertCurrent(j)
        PROVE  UniqueInv'
    <3>1. /\ cur \subseteq [key : Keys, val : Vals, id : 0 .. MaxRuns]
          /\ job[j].feed \in Feeds /\ ~ DuplicateKeys(cur)
      BY DEF TypeOK, CurrentRows, UniqueInv, UniqueKeys
    <3>2. ~ DuplicateKeys(Upsert(cur, job[j].feed, job[j].cts))
      BY <3>1, UpsertUnique
    <3>3. \A i \in Jobs : job'[i].feed \in Feeds
      BY <2>3 DEF UpsertCurrent, Goto, UniqueInv, TypeOK
    <3> QED
      BY <2>3, <3>2, <3>3 DEF UpsertCurrent, UniqueInv, UniqueKeys
  <2> QED
    BY <2>1, <2>2, <2>3 DEF Next
<1> QED
  BY <1>1, <1>2, TypeCorrect, PTL DEF Spec

\* However many calls interleave or stop between their two commits, the current
\* table keeps one row per key, if MERGE can tell the keys apart.
THEOREM UniqueKeysAlways ==
  ASSUME PlainKeys, Seed \in Feeds
  PROVE  Spec => []UniqueKeys
<1>1. UniqueInv => UniqueKeys
  BY DEF UniqueInv
<1> QED
  BY <1>1, UniqueInvariant, PTL

(***************************************************************************)
(* The history as a mirror of the current table, as long as calls neither  *)
(* overlap nor stop between their two commits.                             *)
(***************************************************************************)
\* What is assumed of payloads: the checksum of a source row tells it from every
\* other source row, the table's first rows were a source too, and ignoring
\* columns of a row in favour of those it already has, or twice, is ignoring them
\* once.
FaithfulPayloads ==
  /\ ChecksumUpdated
  /\ \A v, w \in Sources : v.cs = w.cs => v = w
  /\ Seed \in Feeds /\ \A s \in Seed : s.val \in Sources
  /\ \A w \in Vals : Overlay[<<w, w>>] = w
  /\ \A v, w \in Vals : Overlay[<<Overlay[<<v, w>>], w>>] = Overlay[<<v, w>>]

\* The last records of key k in the history H.
LastOf(H, k) == {h \in H : h.key = k /\ \A g \in H : g.key = k => g.from =< h.from}

\* Row r shows the last record of its key in H, or has none and was never changed.
Shows(r, H) ==
  \/ LastOf(H, r.key) = {} /\ \E s \in Seed : r = Inserted(s, 0)
  \/ LastOf(H, r.key) # {} /\ \A h \in LastOf(H, r.key) : r.val = Overlay[<<r.val, h.val>>]

Mirrors(T, H) ==
  /\ \A h \in H : \E r \in T : r.key = h.key
  /\ \A r \in T : Shows(r, H)

\* No key has two records of one instant, and a key with records has a last one.
Dated(H) ==
  /\ \A g, h \in H : g.key = h.key /\ g.from = h.from => g = h
  /\ \A h \in H : LastOf(H, h.key) # {}

\* A record repeats none before it.
Repeatless(H) ==
  \A g, h \in H :
    g # h /\ g.key = h.key /\ g.val.cs = h.val.cs /\ g.from =< h.from
    => \E m \in H :
         m.key = g.key /\ m.val.cs # g.val.cs /\ g.from =< m.from /\ m.from =< h.from

\* The records of one call: one at most for a source row, with its instant.
RecordsOf(R, F, now) ==
  /\ \A x \in R : x.from = now /\ \E s \in F : x.key = s.key /\ x.val = s.val
  /\ \A x, y \in R : x.key = y.key => x = y

LEMMA RecordRow ==
  ASSUME NEW s, NEW now, NEW of
  PROVE  /\ Record(s, now, of).key = s.key /\ Record(s, now, of).val = s.val
         /\ Record(s, now, of).from = now
  BY DEF Record

LEMMA CandidatesOf ==
  ASSUME NEW F, ~ DuplicateKeys(F), NEW now
  PROVE  RecordsOf(Candidates(F, now), F, now)
<1>1. \A x \in Candidates(F, now) : \E s \in F : x = Record(s, now, 0)
  BY DEF Candidates
<1> QED
  BY <1>1, RecordRow DEF RecordsOf, DuplicateKeys

\* Where the MERGE tells keys apart: a record of a row without a partner, or with
\* one whose checksum differs.
LEMMA ChangedFrom ==
  ASSUME PlainKeys, NEW F \in SUBSET Rows, NEW T \in SUBSET CurrentRows, NEW now,
         NEW x \in ChangedOrNew(F, T, now)
  PROVE  \E s \in F :
           \/ x = Record(s, now, 0) /\ \A r \in T : r.key # s.key
           \/ \E r \in T : r.key = s.key /\ r.val.cs # s.val.cs /\ x = Record(s, now, r.id)
<1>1. \A r \in T : \A s \in F : Joins(r, s) <=> r.key = s.key
  BY DEF PlainKeys, Joins, CurrentRows, Rows
<1>2. CASE x \in Candidates({s \in F : \A r \in T : ~ Joins(r, s)}, now)
  BY <1>1, <1>2 DEF Candidates
<1>3. ASSUME NEW s \in F,
             x \in {Record(s, now, r.id) : r \in {y \in T : Joins(y, s) /\ y.val.cs # s.val.cs}}
      PROVE  \E r \in T : r.key = s.key /\ r.val.cs # s.val.cs /\ x = Record(s, now, r.id)
  BY <1>1, <1>3
<1> QED
  BY <1>2, <1>3 DEF ChangedOrNew

\* And there is one for each.
LEMMA ChangedHas ==
  ASSUME PlainKeys, NEW F \in SUBSET Rows, NEW T \in SUBSET CurrentRows, NEW now
  PROVE  /\ \A s \in F : (\A r \in T : r.key # s.key) => Record(s, now, 0) \in ChangedOrNew(F, T, now)
         /\ \A s \in F, r \in T : r.key = s.key /\ r.val.cs # s.val.cs
              => Record(s, now, r.id) \in ChangedOrNew(F, T, now)
<1>1. \A r \in T : \A s \in F : Joins(r, s) <=> r.key = s.key
  BY DEF PlainKeys, Joins, CurrentRows, Rows
<1>2. ASSUME NEW s \in F, \A r \in T : r.key # s.key
      PROVE  Record(s, now, 0) \in ChangedOrNew(F, T, now)
  BY <1>1, <1>2 DEF ChangedOrNew, Candidates
<1>3. ASSUME NEW s \in F, NEW r \in T, r.key = s.key, r.val.cs # s.val.cs
      PROVE  Record(s, now, r.id) \in ChangedOrNew(F, T, now)
  BY <1>1, <1>3 DEF ChangedOrNew
<1> QED
  BY <1>2, <1>3

LEMMA ChangedOf ==
  ASSUME PlainKeys, NEW F \in SUBSET Rows, ~ DuplicateKeys(F),
         NEW T \in SUBSET CurrentRows, ~ DuplicateKeys(T), NEW now
  PROVE  RecordsOf(ChangedOrNew(F, T, now), F, now)
<1>1. \A x \in ChangedOrNew(F, T, now) : \E s \in F :
        \/ x = Record(s, now, 0) /\ \A r \in T : r.key # s.key
        \/ \E r \in T : r.key = s.key /\ r.val.cs # s.val.cs /\ x = Record(s, now, r.id)
  BY ChangedFrom
<1> QED
  BY <1>1, RecordRow DEF RecordsOf, DuplicateKeys

\* Appending the records of a later call.
LEMMA AppendLast ==
  ASSUME NEW H \in SUBSET Records, NEW R \in SUBSET Records, NEW F, NEW now \in Int,
         RecordsOf(R, F, now), Dated(H), \A h \in H : h.from < now
  PROVE  /\ Dated(H \cup R)
         /\ \A x \in R : LastOf(H \cup R, x.key) = {x}
         /\ \A k : (\A x \in R : x.key # k) => LastOf(H \cup R, k) = LastOf(H, k)
<1>0. \A h \in H \cup R : h.from \in Int
  BY DEF Records
<1>1. ASSUME NEW x \in R
      PROVE  LastOf(H \cup R, x.key) = {x}
  BY <1>0 DEF LastOf, RecordsOf
<1>2. ASSUME NEW k, \A x \in R : x.key # k
      PROVE  LastOf(H \cup R, k) = LastOf(H, k)
  BY <1>2 DEF LastOf
<1>3. ASSUME NEW h \in H \cup R
      PROVE  LastOf(H \cup R, h.key) # {}
  <2>1. CASE \E x \in R : x.key = h.key
    BY <1>1, <2>1
  <2>2. CASE \A x \in R : x.key # h.key
    BY <1>2, <2>2 DEF Dated
  <2> QED
    BY <2>1, <2>2
<1>4. ASSUME NEW g \in H \cup R, NEW h \in H \cup R, g.key = h.key, g.from = h.from
      PROVE  g = h
  BY <1>0, <1>4 DEF Dated, RecordsOf
<1> QED
  BY <1>1, <1>2, <1>3, <1>4 DEF Dated

\* A row that shows its last records has their checksum.
LEMMA ShowsChecksum ==
  ASSUME FaithfulPayloads, NEW r \in CurrentRows, NEW H \in SUBSET Records, Shows(r, H),
         NEW h \in LastOf(H, r.key)
  PROVE  r.val = Overlay[<<r.val, h.val>>] /\ r.val.cs = h.val.cs
<1>1. r.val = Overlay[<<r.val, h.val>>]
  BY DEF Shows
<1>2. r.val \in Vals /\ h.val \in Vals
  BY DEF CurrentRows, LastOf, Records
<1>3. Overlay[<<r.val, h.val>>].cs = h.val.cs
  BY <1>2 DEF FaithfulPayloads, ChecksumUpdated
<1> QED
  BY <1>1, <1>3

\* What changed_or_new records of a mirrored table repeats nothing.
LEMMA AppendRepeatless ==
  ASSUME PlainKeys, FaithfulPayloads,
         NEW H \in SUBSET Records, Dated(H), Repeatless(H),
         NEW F \in SUBSET Rows, ~ DuplicateKeys(F),
         NEW T \in SUBSET CurrentRows, ~ DuplicateKeys(T), Mirrors(T, H),
         NEW now \in Int, \A h \in H : h.from < now,
         NEW R \in SUBSET Records, R = ChangedOrNew(F, T, now)
  PROVE  Repeatless(H \cup R)
<1>0. \A h \in H \cup R : h.from \in Int
  BY DEF Records
<1>1. RecordsOf(R, F, now)
  BY ChangedOf
<1>6. \A x \in R : \E s \in F :
        \/ x = Record(s, now, 0) /\ \A r \in T : r.key # s.key
        \/ \E r \in T : r.key = s.key /\ r.val.cs # s.val.cs /\ x = Record(s, now, r.id)
  <2>1. \A x \in ChangedOrNew(F, T, now) : \E s \in F :
          \/ x = Record(s, now, 0) /\ \A r \in T : r.key # s.key
          \/ \E r \in T : r.key = s.key /\ r.val.cs # s.val.cs /\ x = Record(s, now, r.id)
    BY ChangedFrom
  <2> QED
    BY <2>1
<1> SUFFICES ASSUME NEW g \in H \cup R, NEW h \in H \cup R,
                    g # h, g.key = h.key, g.val.cs = h.val.cs, g.from =< h.from
             PROVE  \E m \in H \cup R :
                      m.key = g.key /\ m.val.cs # g.val.cs /\ g.from =< m.from /\ m.from =< h.from
  BY DEF Repeatless
<1>2. CASE g \in H /\ h \in H
  BY <1>2 DEF Repeatless
<1>3. CASE g \in R /\ h \in R
  BY <1>1, <1>3 DEF RecordsOf
<1>4. CASE g \in R /\ h \in H
  BY <1>0, <1>1, <1>4 DEF RecordsOf
<1>5. CASE g \in H /\ h \in R
  <2>1. PICK q \in T : q.key = g.key
    BY <1>5 DEF Mirrors
  <2>2. PICK s \in F :
          \/ h = Record(s, now, 0) /\ \A r \in T : r.key # s.key
          \/ \E r \in T : r.key = s.key /\ r.val.cs # s.val.cs /\ h = Record(s, now, r.id)
    BY <1>5, <1>6
  <2>3. h.key = s.key /\ h.val = s.val /\ h.from = now
    BY <2>2, RecordRow
  <2>4. PICK r \in T : r.key = s.key /\ r.val.cs # s.val.cs
    BY <2>1, <2>2, <2>3
  <2>5. PICK m \in LastOf(H, g.key) : TRUE
    BY <1>5 DEF Dated
  <2>6. r.val.cs = m.val.cs
    <3>1. r.key = g.key /\ r \in CurrentRows /\ Shows(r, H)
      BY <2>3, <2>4 DEF Mirrors
    <3> QED
      BY <2>5, <3>1, ShowsChecksum
  <2>7. m \in H /\ m.key = g.key /\ g.from =< m.from /\ m.from =< now
    BY <1>0, <1>5, <2>5 DEF LastOf
  <2> QED
    BY <2>3, <2>4, <2>6, <2>7
<1> QED
  BY <1>2, <1>3, <1>4, <1>5

\* And what the upsert makes of the table then mirrors the history again.
LEMMA AppendMirrors ==
  ASSUME PlainKeys, FaithfulPayloads,
         NEW H \in SUBSET Records, Dated(H), \A h \in H : h.val \in Sources,
         NEW F \in SUBSET Rows, ~ DuplicateKeys(F), \A s \in F : s.val \in Sources,
         NEW T \in SUBSET CurrentRows, ~ DuplicateKeys(T), Mirrors(T, H),
         NEW now \in Int, \A h \in H : h.from < now,
         NEW R \in SUBSET Records, R = ChangedOrNew(F, T, now),
         NEW U, U = Upsert(T, F, now)
  PROVE  Mirrors(U, H \cup R)
<1>1. RecordsOf(R, F, now)
  BY ChangedOf
<1>2. /\ \A x \in R : LastOf(H \cup R, x.key) = {x}
      /\ \A k : (\A x \in R : x.key # k) => LastOf(H \cup R, k) = LastOf(H, k)
  BY <1>1, AppendLast
<1>3. /\ \A s \in F : (\A r \in T : r.key # s.key) => Record(s, now, 0) \in R
      /\ \A s \in F, r \in T : r.key = s.key /\ r.val.cs # s.val.cs
              => Record(s, now, r.id) \in R
  BY ChangedHas
<1>13. \A x \in R : \E s \in F :
        \/ x = Record(s, now, 0) /\ \A r \in T : r.key # s.key
        \/ \E r \in T : r.key = s.key /\ r.val.cs # s.val.cs /\ x = Record(s, now, r.id)
  BY ChangedFrom
<1>4. \A r \in T : \A s \in F : Hits(r, s) <=> r.key = s.key
  <2>1. Table(T) /\ Table(F)
    BY DEF Table, CurrentRows, Rows
  <2> QED
    BY <2>1, HitIsKey
<1>5. \A r \in T, s \in F :
        /\ Updated(r, s).key = s.key
        /\ Updated(r, s).val = Overlay[<<r.val, s.val>>]
  BY DEF Updated, CurrentRows
<1>6. \A s \in F : Inserted(s, now).key = s.key /\ Inserted(s, now).val = s.val
  BY DEF Inserted
<1>7. ASSUME NEW s \in F
      PROVE  \E q \in U : q.key = s.key
  <2>1. CASE \E r \in T : r.key = s.key
    <3>1. PICK r \in T : r.key = s.key
      BY <2>1
    <3>2. <<r, s>> \in {y \in T \X F : Hits(y[1], y[2])}
      BY <1>4, <3>1
    <3>3. Updated(r, s) \in U
      BY <3>2 DEF Upsert
    <3> QED
      BY <1>5, <3>3
  <2>2. CASE \A r \in T : r.key # s.key
    <3>1. Inserted(s, now) \in U
      BY <1>4, <2>2 DEF Upsert
    <3> QED
      BY <1>6, <3>1
  <2> QED
    BY <2>1, <2>2
<1>8. ASSUME NEW h \in H \cup R
      PROVE  \E q \in U : q.key = h.key
  <2>1. CASE \E s \in F : s.key = h.key
    BY <1>7, <2>1
  <2>2. CASE \A s \in F : s.key # h.key
    <3>1. h \in H
      BY <1>1, <2>2 DEF RecordsOf
    <3>2. PICK r \in T : r.key = h.key
      BY <3>1 DEF Mirrors
    <3>3. r \in U
      BY <1>4, <2>2, <3>2 DEF Upsert
    <3> QED
      BY <3>2, <3>3
  <2> QED
    BY <2>1, <2>2
<1>9. ASSUME NEW q \in T, \A s \in F : s.key # q.key
      PROVE  Shows(q, H \cup R)
  <2>1. \A x \in R : x.key # q.key
    BY <1>1, <1>9 DEF RecordsOf
  <2>2. LastOf(H \cup R, q.key) = LastOf(H, q.key)
    BY <1>2, <2>1
  <2> QED
    BY <2>2 DEF Mirrors, Shows
<1>10. ASSUME NEW r \in T, NEW s \in F, r.key = s.key, NEW q, q = Updated(r, s)
       PROVE  Shows(q, H \cup R)
  <2>0. /\ q.key = s.key /\ q.val = Overlay[<<r.val, s.val>>]
        /\ r.val \in Vals /\ s.val \in Vals
    BY <1>5, <1>10 DEF CurrentRows, Rows
  <2>1. CASE r.val.cs # s.val.cs
    <3> DEFINE x == Record(s, now, r.id)
    <3>1. x \in R /\ x.key = s.key /\ x.val = s.val
      BY <1>3, <1>10, <2>1, RecordRow
    <3>2. LastOf(H \cup R, q.key) = {x}
      BY <1>2, <2>0, <3>1
    <3>3. q.val = Overlay[<<q.val, s.val>>]
      BY <2>0 DEF FaithfulPayloads
    <3> HIDE DEF x
    <3> QED
      BY <3>1, <3>2, <3>3 DEF Shows
  <2>2. CASE r.val.cs = s.val.cs
    <3>1. ASSUME NEW x \in R, x.key = s.key
          PROVE  FALSE
      <4>1. PICK t \in F :
              \/ x = Record(t, now, 0) /\ \A y \in T : y.key # t.key
              \/ \E y \in T : y.key = t.key /\ y.val.cs # t.val.cs /\ x = Record(t, now, y.id)
        BY <1>13
      <4>2. t = s
        BY <3>1, <4>1, RecordRow DEF DuplicateKeys
      <4> QED
        BY <1>10, <2>2, <4>1, <4>2 DEF DuplicateKeys
    <3>2. LastOf(H \cup R, q.key) = LastOf(H, r.key)
      BY <1>2, <1>10, <2>0, <3>1
    <3>3. Shows(r, H)
      BY DEF Mirrors
    <3>4. CASE LastOf(H, r.key) = {}
      <4>1. PICK z \in Seed : r = Inserted(z, 0)
        BY <3>3, <3>4 DEF Shows
      <4>2. r.val = z.val /\ z.val \in Sources /\ s.val \in Sources
        BY <4>1 DEF Inserted, FaithfulPayloads
      <4>3. r.val = s.val
        BY <2>2, <4>2 DEF FaithfulPayloads
      <4>4. q.val = r.val
        BY <2>0, <4>3 DEF FaithfulPayloads
      <4>5. q = r
        BY <1>10, <2>0, <4>4 DEF Updated, CurrentRows
      <4> QED
        BY <3>2, <3>4, <4>1, <4>5 DEF Shows
    <3>5. CASE LastOf(H, r.key) # {}
      <4>1. ASSUME NEW h \in LastOf(H, r.key)
            PROVE  q.val = r.val /\ r.val = Overlay[<<r.val, h.val>>]
        <5>1. r.val = Overlay[<<r.val, h.val>>] /\ r.val.cs = h.val.cs
          <6>1. r \in CurrentRows
            OBVIOUS
          <6> QED
            BY <3>3, <6>1, ShowsChecksum
        <5>2. h.val \in Sources /\ s.val \in Sources
          BY DEF LastOf
        <5>3. h.val = s.val
          BY <2>2, <5>1, <5>2 DEF FaithfulPayloads
        <5> QED
          BY <2>0, <5>1, <5>3
      <4>2. q.val = r.val
        BY <3>5, <4>1
      <4> QED
        BY <3>2, <3>5, <4>1, <4>2 DEF Shows
    <3> QED
      BY <3>4, <3>5
  <2> QED
    BY <2>1, <2>2
<1>11. ASSUME NEW s \in F, \A r \in T : r.key # s.key, NEW q, q = Inserted(s, now)
       PROVE  Shows(q, H \cup R)
  <2> DEFINE x == Record(s, now, 0)
  <2>1. x \in R /\ x.key = s.key /\ x.val = s.val
    BY <1>3, <1>11, RecordRow
  <2>2. q.key = s.key /\ q.val = s.val /\ s.val \in Vals
    BY <1>6, <1>11 DEF Rows
  <2>3. LastOf(H \cup R, q.key) = {x}
    BY <1>2, <2>1, <2>2
  <2> HIDE DEF x
  <2>4. s.val = Overlay[<<s.val, s.val>>]
    BY <2>2 DEF FaithfulPayloads
  <2>5. \A h \in LastOf(H \cup R, q.key) : q.val = Overlay[<<q.val, h.val>>]
    BY <2>1, <2>2, <2>3, <2>4
  <2>6. LastOf(H \cup R, q.key) # {}
    BY <2>3
  <2> QED
    BY <2>5, <2>6 DEF Shows
<1>12. ASSUME NEW q \in U
       PROVE  Shows(q, H \cup R)
  <2>1. \/ q \in T /\ \A s \in F : s.key # q.key
        \/ \E r \in T, s \in F : r.key = s.key /\ q = Updated(r, s)
        \/ \E s \in F : q = Inserted(s, now) /\ \A r \in T : r.key # s.key
    <3>1. Table(T)
      BY DEF Table, CurrentRows
    <3> QED
      BY <3>1, UpsertRow
  <2> QED
    BY <1>9, <1>10, <1>11, <2>1
<1> QED
  BY <1>8, <1>12 DEF Mirrors

\* Where rows come from and when: all are source rows, recorded before now.
Whence ==
  /\ \A h \in hist : h.val \in Sources /\ h.from < clock
  /\ \A j \in Jobs : \A s \in job[j].feed : s.val \in Sources
  /\ \A j \in Jobs : job[j].pc \in {"compare", "append"} => job[j].cts < clock
  /\ \A j \in Jobs : job[j].pc = "append" =>
       \A x \in job[j].recs : x.val \in Sources /\ x.from = job[j].cts

Alone == \A i, j \in Jobs : job[i].pc \in InFlight /\ job[j].pc \in InFlight => i = j

\* With no call between its two commits, the table mirrors the history.
Settled ==
  (\A j \in Jobs : job[j].pc # "upsert") =>
    Mirrors(cur, hist) /\ (~ hasChecksum => hist = {})

\* What job j is about to commit: its records follow all others and are what the
\* tables call for, and what its upsert makes of the table mirrors the history.
Ready(j) ==
  /\ job[j].pc \in {"compare", "append"} => \A h \in hist : h.from < job[j].cts
  /\ job[j].pc = "compare" => hasChecksum
  /\ job[j].pc = "append" =>
       job[j].recs = IF hasChecksum THEN ChangedOrNew(job[j].feed, cur, job[j].cts)
                                    ELSE Candidates(job[j].feed, job[j].cts)
  /\ job[j].pc = "upsert" /\ hasChecksum =>
       Mirrors(Upsert(cur, job[j].feed, job[j].cts), hist)

CalmInv ==
  /\ Whence
  /\ calm => /\ Dated(hist) /\ Repeatless(hist)
             /\ Alone /\ Settled
             /\ \A j \in Jobs : Ready(j)

\* A step of job j leaves the other jobs as they are.
LEMMA StepOfOne ==
  ASSUME TypeInv, NEW j \in Jobs,
         \/ Start(j) \/ Inspect(j) \/ Compare(j) \/ AppendHistory(j)
         \/ UpsertCurrent(j) \/ UpsertRejected(j) \/ Validate(j) \/ Abort(j)
  PROVE  \A i \in Jobs \ {j} : job'[i] = job[i]
<1>1. CASE Start(j)
  BY <1>1 DEF Start, TypeInv, TypeOK
<1>2. CASE Inspect(j)
  BY <1>2 DEF Inspect, TypeInv, TypeOK
<1>3. CASE Compare(j) \/ AppendHistory(j) \/ UpsertCurrent(j)
  BY <1>3 DEF Compare, AppendHistory, UpsertCurrent, Goto, TypeInv, TypeOK
<1>4. CASE UpsertRejected(j) \/ Validate(j) \/ Abort(j)
  <2>1. PICK v : job' = [job EXCEPT ![j] = Ended(v)]
    BY <1>4, Zenon DEF UpsertRejected, Validate, Abort, End
  <2> QED
    BY <2>1 DEF TypeInv, TypeOK
<1> QED
  BY <1>1, <1>2, <1>3, <1>4

\* The end of a call.
LEMMA EndOfOne ==
  ASSUME TypeInv, NEW j \in Jobs, UpsertRejected(j) \/ Validate(j) \/ Abort(j)
  PROVE  job'[j].pc \in Verdicts /\ job'[j].feed = {}
<1>1. PICK v \in Verdicts : job' = [job EXCEPT ![j] = Ended(v)]
  <2>1. CASE Validate(j)
    BY <2>1, Zenon DEF Validate, End, Verdicts
  <2>2. CASE UpsertRejected(j) \/ Abort(j)
    <3>1. job' = [job EXCEPT ![j] = Ended("aborted")]
      BY <2>2 DEF UpsertRejected, Abort, End
    <3> QED
      BY <3>1 DEF Verdicts
  <2> QED
    BY <2>1, <2>2
<1> QED
  BY <1>1 DEF Ended, TypeInv, TypeOK

\* The records are of source rows.
LEMMA RecordsFromSources ==
  ASSUME PlainKeys, NEW F \in SUBSET Rows, \A s \in F : s.val \in Sources,
         NEW T \in SUBSET CurrentRows, NEW now
  PROVE  /\ \A x \in Candidates(F, now) : x.val \in Sources /\ x.from = now
         /\ \A x \in ChangedOrNew(F, T, now) : x.val \in Sources /\ x.from = now
<1>1. \A x \in Candidates(F, now) : x.val \in Sources /\ x.from = now
  BY RecordRow DEF Candidates
<1>2. ASSUME NEW x \in ChangedOrNew(F, T, now)
      PROVE  x.val \in Sources /\ x.from = now
  <2>1. \E s \in F :
          \/ x = Record(s, now, 0) /\ \A r \in T : r.key # s.key
          \/ \E r \in T : r.key = s.key /\ r.val.cs # s.val.cs /\ x = Record(s, now, r.id)
    BY <1>2, ChangedFrom
  <2> QED
    BY <2>1, RecordRow
<1> QED
  BY <1>1, <1>2

LEMMA WhenceStep ==
  ASSUME PlainKeys, TypeInv, Whence, NEW j \in Jobs,
         \/ Start(j) \/ Inspect(j) \/ Compare(j) \/ AppendHistory(j)
         \/ UpsertCurrent(j) \/ UpsertRejected(j) \/ Validate(j) \/ Abort(j)
  PROVE  Whence'
<1>1. \A i \in Jobs \ {j} : job'[i] = job[i]
  BY StepOfOne
<1>2. job[j].feed \in SUBSET Rows /\ cur \in SUBSET CurrentRows /\ clock \in Int
  BY DEF TypeInv, TypeOK
<1>3. CASE Start(j)
  <2>1. /\ job'[j].pc = "inspect" /\ \A s \in job'[j].feed : s.val \in Sources
        /\ hist' = hist /\ clock' = clock
    BY <1>3 DEF Start, TypeInv, TypeOK
  <2> QED
    BY <1>1, <2>1 DEF Whence
<1>4. CASE Inspect(j)
  <2>1. /\ job'[j].feed = job[j].feed /\ job'[j].cts = clock
        /\ job'[j].pc = "append" => job'[j].recs = Candidates(job[j].feed, clock)
        /\ hist' = hist /\ clock' = clock + 1
    BY <1>4 DEF Inspect, TypeInv, TypeOK
  <2>2. \A x \in Candidates(job[j].feed, clock) : x.val \in Sources /\ x.from = clock
    BY <1>2, RecordsFromSources DEF Whence
  <2>3. /\ \A h \in hist : h.from \in Int
        /\ \A i \in Jobs : job[i].cts \in Int
    BY DEF TypeInv, TypeOK, Records
  <2> QED
    BY <1>1, <1>2, <2>1, <2>2, <2>3 DEF Whence
<1>5. CASE Compare(j)
  <2>1. /\ job'[j].feed = job[j].feed /\ job'[j].cts = job[j].cts
        /\ job'[j].recs = ChangedOrNew(job[j].feed, cur, job[j].cts)
        /\ job[j].pc = "compare"
        /\ hist' = hist /\ clock' = clock
    BY <1>5 DEF Compare, TypeInv, TypeOK
  <2>2. \A x \in ChangedOrNew(job[j].feed, cur, job[j].cts) :
          x.val \in Sources /\ x.from = job[j].cts
    BY <1>2, RecordsFromSources DEF Whence
  <2> QED
    BY <1>1, <2>1, <2>2 DEF Whence
<1>6. CASE AppendHistory(j)
  <2>1. /\ job'[j].feed = job[j].feed /\ job'[j].pc = "upsert"
        /\ job[j].pc = "append"
        /\ hist' = hist \cup job[j].recs /\ clock' = clock
    BY <1>6 DEF AppendHistory, Goto, TypeInv, TypeOK
  <2> QED
    BY <1>1, <2>1 DEF Whence
<1>7. CASE UpsertCurrent(j)
  <2>1. /\ job'[j].feed = job[j].feed /\ job'[j].pc = "validate"
        /\ hist' = hist /\ clock' = clock
    BY <1>7 DEF UpsertCurrent, Goto, TypeInv, TypeOK
  <2> QED
    BY <1>1, <2>1 DEF Whence
<1>8. CASE UpsertRejected(j) \/ Validate(j) \/ Abort(j)
  <2>1. job'[j].pc \in Verdicts /\ job'[j].feed = {}
    BY <1>8, EndOfOne
  <2>2. hist' = hist /\ clock' = clock
    BY <1>8 DEF UpsertRejected, Validate, Abort
  <2> QED
    BY <1>1, <2>1, <2>2 DEF Whence, Verdicts
<1> QED
  BY <1>3, <1>4, <1>5, <1>6, <1>7, <1>8

LEMMA CalmStep ==
  ASSUME PlainKeys, FaithfulPayloads, TypeInv, UniqueInv, CalmInv, NEW j \in Jobs,
         \/ Start(j) \/ Inspect(j) \/ Compare(j) \/ AppendHistory(j)
         \/ UpsertCurrent(j) \/ UpsertRejected(j) \/ Validate(j) \/ Abort(j),
         calm'
  PROVE  /\ Dated(hist)' /\ Repeatless(hist)'
         /\ Alone' /\ Settled'
         /\ \A i \in Jobs : Ready(i)'
<1>1. calm /\ Whence /\ Dated(hist) /\ Repeatless(hist) /\ Alone /\ Settled /\ Ready(j)
  BY DEF CalmInv, Start, Inspect, Compare, AppendHistory, UpsertCurrent, UpsertRejected,
         Validate, Abort
<1>2. /\ cur \in SUBSET CurrentRows /\ hist \in SUBSET Records
      /\ job[j].feed \in SUBSET Rows /\ job[j].recs \in SUBSET Records
      /\ ~ DuplicateKeys(cur) /\ ~ DuplicateKeys(job[j].feed)
      /\ clock \in Int /\ job[j].cts \in Int /\ hasChecksum \in BOOLEAN
      /\ \A i \in Jobs : job[i].pc \in Verdicts \cup InFlight
  BY DEF TypeInv, TypeOK, UniqueInv, UniqueKeys, Feeds
<1>3. \A i \in Jobs \ {j} : job'[i] = job[i] /\ job'[i].pc \notin InFlight
  <2>1. \A i \in Jobs \ {j} : job'[i] = job[i]
    BY StepOfOne
  <2>2. CASE Start(j)
    <3>1. \A i \in Jobs : job[i].pc \in Verdicts
      BY <2>2 DEF Start
    <3> QED
      BY <2>1, <3>1 DEF Verdicts, InFlight
  <2>3. CASE ~ Start(j)
    <3>1. job[j].pc \in InFlight
      BY <2>3 DEF Inspect, Compare, AppendHistory, UpsertCurrent, UpsertRejected,
                  Validate, Abort, InFlight
    <3> QED
      BY <1>1, <2>1, <3>1 DEF Alone
  <2> QED
    BY <2>2, <2>3
<1>4. Alone' /\ \A i \in Jobs \ {j} : Ready(i)'
  <2>1. Alone'
    BY <1>3 DEF Alone
  <2>2. \A i \in Jobs \ {j} : Ready(i)'
    BY <1>3 DEF Ready, InFlight
  <2> QED
    BY <2>1, <2>2
<1>5. \A i \in Jobs \ {j} : job'[i].pc # "upsert" /\ job[i].pc # "upsert"
  BY <1>3 DEF InFlight
<1>6. CASE Start(j)
  <2>1. job'[j].pc = "inspect" /\ hist' = hist /\ cur' = cur /\ hasChecksum' = hasChecksum
    BY <1>6 DEF Start, TypeInv, TypeOK
  <2>2. job[j].pc # "upsert"
    BY <1>6 DEF Start, Verdicts
  <2>3. Settled'
    BY <1>1, <1>5, <2>1, <2>2 DEF Settled
  <2>4. Ready(j)'
    BY <2>1 DEF Ready
  <2> QED
    BY <1>1, <1>4, <2>1, <2>3, <2>4
<1>7. CASE Inspect(j)
  <2>1. /\ job'[j] = IF cur = {} \/ ~ hasChecksum
                       THEN [pc |-> "append", feed |-> job[j].feed, cts |-> clock,
                             recs |-> Candidates(job[j].feed, clock)]
                       ELSE [pc |-> "compare", feed |-> job[j].feed, cts |-> clock, recs |-> {}]
        /\ hist' = hist /\ cur' = cur /\ hasChecksum' = hasChecksum
        /\ job[j].pc = "inspect"
    BY <1>7 DEF Inspect, TypeInv, TypeOK
  <2>2. \A h \in hist : h.from < clock
    BY <1>1 DEF Whence
  <2>3. Settled'
    BY <1>1, <1>5, <2>1 DEF Settled
  <2>4. cur = {} => ChangedOrNew(job[j].feed, cur, clock) = Candidates(job[j].feed, clock)
    BY DEF ChangedOrNew, Candidates
  <2>5. Ready(j)'
    <3>1. CASE cur = {} \/ ~ hasChecksum
      <4>1. /\ job'[j].pc = "append" /\ job'[j].feed = job[j].feed
            /\ job'[j].cts = clock /\ job'[j].recs = Candidates(job[j].feed, clock)
        BY <2>1, <3>1
      <4> QED
        BY <2>1, <2>2, <2>4, <3>1, <4>1 DEF Ready
    <3>2. CASE ~ (cur = {} \/ ~ hasChecksum)
      <4>1. job'[j].pc = "compare" /\ job'[j].cts = clock
        BY <2>1, <3>2
      <4> QED
        BY <2>1, <2>2, <3>2, <4>1 DEF Ready
    <3> QED
      BY <3>1, <3>2
  <2> QED
    BY <1>1, <1>4, <2>1, <2>3, <2>5
<1>8. CASE Compare(j)
  <2>1. /\ job'[j] = [pc |-> "append", feed |-> job[j].feed, cts |-> job[j].cts,
                      recs |-> ChangedOrNew(job[j].feed, cur, job[j].cts)]
        /\ hist' = hist /\ cur' = cur /\ hasChecksum' = hasChecksum
        /\ job[j].pc = "compare"
    BY <1>8 DEF Compare, TypeInv, TypeOK
  <2>2. /\ job'[j].pc = "append" /\ job'[j].feed = job[j].feed /\ job'[j].cts = job[j].cts
        /\ job'[j].recs = ChangedOrNew(job[j].feed, cur, job[j].cts)
    BY <2>1
  <2>3. hasChecksum /\ \A h \in hist : h.from < job[j].cts
    BY <1>1, <2>1 DEF Ready
  <2>4. Settled'
    BY <1>1, <1>5, <2>1 DEF Settled
  <2>5. Ready(j)'
    BY <2>1, <2>2, <2>3 DEF Ready
  <2> QED
    BY <1>1, <1>4, <2>1, <2>4, <2>5
<1>9. CASE AppendHistory(j)
  <2>1. /\ job'[j].pc = "upsert" /\ job'[j].feed = job[j].feed /\ job'[j].cts = job[j].cts
        /\ hist' = hist \cup job[j].recs /\ cur' = cur /\ hasChecksum' = hasChecksum
        /\ job[j].pc = "append"
    BY <1>9 DEF AppendHistory, Goto, TypeInv, TypeOK
  <2>2. \A h \in hist : h.from < job[j].cts
    BY <1>1, <2>1 DEF Ready
  <2>3. Mirrors(cur, hist) /\ (~ hasChecksum => hist = {})
    BY <1>1, <1>5, <2>1 DEF Settled
  <2>4. /\ \A h \in hist : h.val \in Sources
        /\ \A s \in job[j].feed : s.val \in Sources
    BY <1>1 DEF Whence
  <2>5. Settled'
    BY <2>1 DEF Settled
  <2>6. CASE hasChecksum
    <3>1. job[j].recs = ChangedOrNew(job[j].feed, cur, job[j].cts)
      BY <1>1, <2>1, <2>6 DEF Ready
    <3>2. RecordsOf(job[j].recs, job[j].feed, job[j].cts)
      BY <1>2, <3>1, ChangedOf
    <3>3. Dated(hist \cup job[j].recs)
      BY <1>1, <1>2, <2>2, <3>2, AppendLast
    <3>4. Repeatless(hist \cup job[j].recs)
      BY <1>1, <1>2, <2>2, <2>3, <3>1, AppendRepeatless
    <3>5. Mirrors(Upsert(cur, job[j].feed, job[j].cts), hist \cup job[j].recs)
      BY <1>1, <1>2, <2>2, <2>3, <2>4, <3>1, AppendMirrors
    <3>6. Ready(j)'
      BY <2>1, <3>5 DEF Ready
    <3> QED
      BY <1>4, <2>1, <2>5, <3>3, <3>4, <3>6
  <2>7. CASE ~ hasChecksum
    <3>1. job[j].recs = Candidates(job[j].feed, job[j].cts) /\ hist = {}
      BY <1>1, <2>1, <2>3, <2>7 DEF Ready
    <3>2. RecordsOf(job[j].recs, job[j].feed, job[j].cts)
      BY <1>2, <3>1, CandidatesOf
    <3>3. Dated(hist \cup job[j].recs)
      BY <1>1, <1>2, <2>2, <3>2, AppendLast
    <3>4. Repeatless(hist \cup job[j].recs)
      BY <3>1, <3>2 DEF Repeatless, RecordsOf
    <3>5. Ready(j)'
      BY <2>1, <2>7 DEF Ready
    <3> QED
      BY <1>4, <2>1, <2>5, <3>3, <3>4, <3>5
  <2> QED
    BY <1>2, <2>6, <2>7
<1>10. CASE UpsertCurrent(j)
  <2>1. /\ job'[j].pc = "validate" /\ job[j].pc = "upsert" /\ hasChecksum
        /\ cur' = Upsert(cur, job[j].feed, job[j].cts)
        /\ hist' = hist /\ hasChecksum' = hasChecksum
    BY <1>10 DEF UpsertCurrent, Goto, TypeInv, TypeOK
  <2>2. Mirrors(cur', hist')
    BY <1>1, <2>1 DEF Ready
  <2>3. Settled'
    BY <2>1, <2>2 DEF Settled
  <2>4. Ready(j)'
    BY <2>1 DEF Ready
  <2> QED
    BY <1>1, <1>4, <2>1, <2>3, <2>4
<1>11. CASE UpsertRejected(j)
  BY <1>11 DEF UpsertRejected
<1>12. CASE Validate(j) \/ Abort(j)
  <2>1. job'[j].pc \in Verdicts
    BY <1>12, EndOfOne
  <2>2. /\ hist' = hist /\ cur' = cur /\ hasChecksum' = hasChecksum
        /\ job[j].pc # "upsert"
    BY <1>12 DEF Validate, Abort
  <2>3. Settled'
    BY <1>1, <1>5, <2>2 DEF Settled
  <2>4. Ready(j)'
    BY <2>1 DEF Ready, Verdicts
  <2> QED
    BY <1>1, <1>4, <2>2, <2>3, <2>4
<1> QED
  BY <1>6, <1>7, <1>8, <1>9, <1>10, <1>11, <1>12

LEMMA CalmInvariant ==
  ASSUME PlainKeys, FaithfulPayloads
  PROVE  Spec => []CalmInv
<1>1. Init => CalmInv
  <2> SUFFICES ASSUME Init PROVE CalmInv
    OBVIOUS
  <2>1. \A j \in Jobs : job[j].pc = "idle" /\ job[j].feed = {}
    BY DEF Init, Ended
  <2>2. Whence /\ Alone /\ \A j \in Jobs : Ready(j)
    BY <2>1 DEF Init, Whence, Alone, Ready, InFlight
  <2>3. hist = {}
    BY DEF Init
  <2>4. Dated({}) /\ Repeatless({})
    BY DEF Dated, Repeatless
  <2>5. \A r \in cur : \E s \in Seed : r = Inserted(s, 0)
    BY DEF Init
  <2>6. \A k : LastOf({}, k) = {}
    BY DEF LastOf
  <2>7. Mirrors(cur, {})
    BY <2>5, <2>6 DEF Mirrors, Shows
  <2> QED
    BY <2>2, <2>3, <2>4, <2>7 DEF CalmInv, Settled
<1>2. TypeInv /\ UniqueInv /\ CalmInv /\ [Next]_vars => CalmInv'
  <2> SUFFICES ASSUME TypeInv, UniqueInv, CalmInv, [Next]_vars
               PROVE  CalmInv'
    OBVIOUS
  <2>1. CASE UNCHANGED vars
    BY <2>1 DEF vars, CalmInv, Whence, Alone, Settled, Ready
  <2>2. ASSUME NEW j \in Jobs,
               \/ Start(j) \/ Inspect(j) \/ Compare(j) \/ AppendHistory(j)
               \/ UpsertCurrent(j) \/ UpsertRejected(j) \/ Validate(j) \/ Abort(j)
        PROVE  CalmInv'
    <3>1. Whence'
      BY <2>2, WhenceStep DEF CalmInv
    <3>2. calm' => /\ Dated(hist)' /\ Repeatless(hist)'
                   /\ Alone' /\ Settled'
                   /\ \A i \in Jobs : Ready(i)'
      BY <2>2, CalmStep
    <3> QED
      BY <3>1, <3>2 DEF CalmInv
  <2> QED
    BY <2>1, <2>2 DEF Next
<1>3. Seed \in Feeds
  BY DEF FaithfulPayloads
<1>4. Spec => []UniqueInv
  BY <1>3, UniqueInvariant
<1> QED
  BY <1>1, <1>2, <1>4, TypeInvariant, PTL DEF Spec

\* As long as no call overlapped another or stopped between its two commits, the
\* current row of a key shows its last record but for the ignored columns, and
\* only rows that no call changed have none, for any number of calls.
THEOREM HistoryAlwaysMirrors ==
  ASSUME PlainKeys, FaithfulPayloads
  PROVE  Spec => []HistoryMirrors
<1>1. CalmInv => HistoryMirrors
  <2> SUFFICES ASSUME CalmInv, calm, \A j \in Jobs : job[j].pc \in Verdicts
               PROVE  /\ \A h \in hist : \E r \in cur : r.key = h.key
                      /\ \A r \in cur :
                           IF Latest(r.key) = {} THEN \E s \in Seed : r = Inserted(s, 0)
                           ELSE \A h \in Latest(r.key) : r.val = Overlay[<<r.val, h.val>>]
    BY DEF HistoryMirrors
  <2>1. Mirrors(cur, hist)
    BY DEF CalmInv, Settled, Verdicts
  <2>2. \A k : Latest(k) = LastOf(hist, k)
    BY DEF Latest, LastOf
  <2> QED
    BY <2>1, <2>2 DEF Mirrors, Shows
<1> QED
  BY <1>1, CalmInvariant, PTL

\* Nor does the history then repeat itself: two records of a key with one checksum
\* have another between them.
THEOREM NeverRepeats ==
  ASSUME PlainKeys, FaithfulPayloads
  PROVE  Spec => []NoRepeats
<1>1. CalmInv => NoRepeats
  BY DEF CalmInv, NoRepeats, Repeatless
<1> QED
  BY <1>1, CalmInvariant, PTL
=============================================================================
