------------------------------ MODULE Scd1Proofs ------------------------------
(***************************************************************************)
(* Proofs about Scd1 for every value of its constants.                     *)
(***************************************************************************)
EXTENDS Scd1, UpsertProofs

TRows == [key : Keys, val : Vals, id : Ids]

(***************************************************************************)
(* Types.                                                                  *)
(***************************************************************************)
LEMMA UpsertType ==
  ASSUME NEW T \in SUBSET TRows, NEW F \in SUBSET Rows, NEW now \in Ids
  PROVE  Upsert(T, F, now) \in SUBSET TRows
<1>1. ASSUME NEW r \in T, NEW s \in F
      PROVE  Updated(r, s) \in TRows
  <2>1. Overlay[<<r.val, s.val>>] \in Vals
    BY OverlayAssumption DEF TRows, Rows
  <2> QED
    BY <2>1 DEF Updated, TRows, Rows
<1>2. ASSUME NEW s \in F
      PROVE  Inserted(s, now) \in TRows
  BY DEF Inserted, TRows, Rows
<1> QED
  BY <1>1, <1>2 DEF Upsert

LEMMA UpsertDeleteType ==
  ASSUME NEW T \in SUBSET TRows, NEW F \in SUBSET Rows, NEW now \in Ids
  PROVE  UpsertDelete(T, F, now) \in SUBSET TRows
<1> DEFINE U == {r \in T : \A d \in ToDelete(T, F) : ~ Hits(r, d)}
<1>1. Upsert(U, F, now) \in SUBSET TRows
  <2>1. U \in SUBSET TRows
    OBVIOUS
  <2> HIDE DEF U
  <2> QED
    BY <2>1, UpsertType
<1>2. \A d \in ToDelete(T, F) : Inserted(d, now) \in TRows
  BY DEF ToDelete, Inserted, TRows
<1> QED
  BY <1>1, <1>2 DEF UpsertDelete


LEMMA WrittenType ==
  ASSUME NEW type, NEW T \in SUBSET TRows, NEW F \in SUBSET Rows, NEW R, NEW now \in Ids
  PROVE  Written(type, T, F, R, now) \in SUBSET TRows
<1>1. Overwrite(F, now) \in SUBSET TRows
  BY DEF Overwrite, Inserted, TRows, Rows
<1>2. OverwritePartition(T, F, R, now) \in SUBSET TRows
  BY <1>1 DEF OverwritePartition
<1> QED
  BY <1>1, <1>2, UpsertType, UpsertDeleteType DEF Written

\* The rows a call passes to overwrite-partition are rows of its partitions.
Within(R, F) == \A s \in F : In(R, s)

\* The source table, and what the caller takes of it, has one row per key.
Sources ==
  /\ ~ DuplicateKeys(src)
  /\ \A j \in Jobs : job[j].df \in Feeds /\ job[j].feed \in Feeds
  /\ \A j \in Jobs : job[j].type = "overwrite-partition" =>
       Within(job[j].region, job[j].df) /\ Within(job[j].region, job[j].feed)

Records == [pc : Verdicts \cup InFlight, type : Types \cup {"none"},
            region : SUBSET Parts, df : SUBSET Rows, feed : SUBSET Rows]

LEMMA CallType ==
  ASSUME TypeOK, ~ DuplicateKeys(src), NEW type \in Types, NEW R \in Regions(type)
  PROVE  /\ Call(type, R) \in Records
         /\ Call(type, R).type \in Types
         /\ Call(type, R).df \in Feeds /\ Call(type, R).feed \in Feeds
         /\ Call(type, R).type = "overwrite-partition" =>
              Within(Call(type, R).region, Call(type, R).df)
                /\ Within(Call(type, R).region, Call(type, R).feed)
<1>1. R \in SUBSET Parts
  BY DEF Regions
<1>2. Snapshot(type, R) \in SUBSET src /\ src \in SUBSET Rows
  BY DEF Snapshot, TypeOK
<1>3. Snapshot(type, R) \in Feeds /\ {} \in Feeds
  BY <1>2 DEF Feeds, DuplicateKeys
<1>4. type = "overwrite-partition" => Within(R, Snapshot(type, R))
  BY DEF Within, Snapshot
<1>5. Call(type, R) \in Records
  BY <1>1, <1>2 DEF Call, Records, InFlight
<1> QED
  BY <1>3, <1>4, <1>5 DEF Call, Within

\* A call in flight has a type.
Named == \A j \in Jobs : job[j].pc \in InFlight => job[j].type \in Types

TypeInv == TypeOK /\ Sources /\ Named

LEMMA TypeInvariant == Spec => []TypeInv
<1>1. Init => TypeInv
  BY DEF Init, TypeInv, TypeOK, Sources, Named, Ended, Verdicts, InFlight, Feeds, DuplicateKeys
<1>2. TypeInv /\ [Next]_vars => TypeInv'
  <2> SUFFICES ASSUME TypeInv, [Next]_vars
               PROVE  TypeInv'
    OBVIOUS
  <2> USE DEF TypeInv, TypeOK, Sources, Named, Verdicts, InFlight
  <2>0. CASE UNCHANGED vars
    BY <2>0 DEF vars
  <2>1. ASSUME NEW k \in Keys, WriteSource(k)
        PROVE  TypeInv'
    <3>1. src' \subseteq Rows /\ clock' \in Nat
      BY <2>1 DEF WriteSource, Rows
    <3>2. ~ DuplicateKeys(src')
      BY <2>1 DEF WriteSource, DuplicateKeys
    <3> QED
      BY <2>1, <3>1, <3>2 DEF WriteSource
  <2>2. ASSUME NEW k \in Keys, DeleteSource(k)
        PROVE  TypeInv'
    BY <2>2 DEF DeleteSource, DuplicateKeys
  <2>3. ASSUME NEW j \in Jobs, Start(j)
        PROVE  TypeInv'
    <3>1. PICK type \in TypesOf[j] : \E R \in Regions(type) :
            job' = [job EXCEPT ![j] = Call(type, R)]
      BY <2>3 DEF Start
    <3>2. PICK R \in Regions(type) : job' = [job EXCEPT ![j] = Call(type, R)]
      BY <3>1
    <3>3. type \in Types
      BY TypesAssumption
    <3>4. /\ Call(type, R) \in Records
          /\ Call(type, R).type \in Types
          /\ Call(type, R).df \in Feeds /\ Call(type, R).feed \in Feeds
          /\ Call(type, R).type = "overwrite-partition" =>
               Within(Call(type, R).region, Call(type, R).df)
                 /\ Within(Call(type, R).region, Call(type, R).feed)
      BY <3>3, CallType
    <3>5. src' = src /\ clock' = clock /\ tgt' = tgt
      BY <2>3 DEF Start
    <3>6. job' \in [Jobs -> Records]
      BY <3>2, <3>4, <3>5 DEF Records
    <3>7. \A i \in Jobs : job'[i] = job[i] \/ job'[i] = Call(type, R)
      BY <3>2, <3>4, <3>5
    <3>8. Sources' /\ Named'
      BY <3>2, <3>4, <3>5, <3>7
    <3> QED
      BY <3>2, <3>4, <3>5, <3>6, <3>8 DEF Records
  <2>4. ASSUME NEW j \in Jobs, Filter(j)
        PROVE  TypeInv'
    <3>1. After(job[j].df, tgt) \in Feeds /\ After(job[j].df, tgt) \subseteq job[j].df
      BY DEF After, Feeds, DuplicateKeys
    <3> QED
      BY <2>4, <3>1 DEF Filter, Feeds, Within
  <2>5. ASSUME NEW j \in Jobs, Merge(j), ~ Refused(j)
        PROVE  TypeInv'
    <3>1. Commit(j) /\ src' = src /\ clock' = clock
      BY <2>5 DEF Merge
    <3>2. Unused \in Ids
      BY <3>1 DEF Commit, Unused
    <3>3. job[j].feed \in SUBSET Rows /\ tgt \in SUBSET TRows
      BY DEF TRows
    <3>4. tgt' \in SUBSET TRows
      BY <3>1, <3>2, <3>3, WrittenType DEF Commit
    <3> QED
      BY <2>5, <3>1, <3>4 DEF Merge, Commit, TRows
  <2>6. ASSUME NEW j \in Jobs, (Merge(j) /\ Refused(j)) \/ Validate(j) \/ Abort(j)
        PROVE  TypeInv'
    <3>1. PICK v \in Verdicts : job' = [job EXCEPT ![j] = Ended(v)]
      BY <2>6 DEF Merge, Validate, Abort
    <3>2. /\ Ended(v) \in Records
          /\ Ended(v).df \in Feeds /\ Ended(v).feed \in Feeds
          /\ Ended(v).type # "overwrite-partition"
          /\ Ended(v).pc \notin InFlight
      BY DEF Ended, Feeds, DuplicateKeys, Records
    <3>3. src' = src /\ clock' = clock /\ tgt' = tgt
      BY <2>6 DEF Merge, Validate, Abort
    <3>6. job' \in [Jobs -> Records]
      BY <3>1, <3>2, <3>3 DEF Records
    <3>7. \A i \in Jobs : job'[i] = job[i] \/ job'[i] = Ended(v)
      BY <3>1, <3>2, <3>3
    <3>8. Sources' /\ Named'
      BY <3>1, <3>2, <3>3, <3>7
    <3> QED
      BY <3>1, <3>2, <3>3, <3>6, <3>8 DEF Records
  <2> QED
    BY <2>0, <2>1, <2>2, <2>3, <2>4, <2>5, <2>6 DEF Next, Step
<1> QED
  BY <1>1, <1>2, PTL DEF Spec

\* Every variable keeps its type, for any number of jobs, keys and stamps.
THEOREM TypeCorrect == Spec => []TypeOK
<1>1. TypeInv => TypeOK
  BY DEF TypeInv
<1> QED
  BY <1>1, TypeInvariant, PTL

(***************************************************************************)
(* One row per key.                                                        *)
(***************************************************************************)
\* A row stays in its partition whatever becomes of its other columns.
PartByKey == \A k \in Keys : \A v, w \in Vals : PartOf[<<k, v>>] = PartOf[<<k, w>>]

LEMMA OverwriteUnique ==
  ASSUME PartByKey, NEW T \in SUBSET TRows, UniqueReached(T),
         NEW F \in Feeds, NEW R, Within(R, F), NEW now
  PROVE  UniqueReached(OverwritePartition(T, F, R, now))
<1>1. F \in SUBSET Rows /\ ~ DuplicateKeys(F)
  BY DEF Feeds
<1>2. \A s \in F : Inserted(s, now).key = s.key
  BY DEF Inserted
<1>3. ASSUME NEW r \in T, NEW s \in F, ~ In(R, r)
      PROVE  r.key # s.key
  BY <1>1, <1>3 DEF Within, In, PartByKey, TRows, Rows
<1> QED
  BY <1>1, <1>2, <1>3 DEF OverwritePartition, Overwrite, UniqueReached, DuplicateKeys

\* However many calls of scd1, scd1_delete, overwrite and overwrite-partition
\* interleave or fail, there is one row per key among the rows MERGE can match, if
\* no two keys without a NULL have one surrogate key and no row changes partition.
THEOREM UniqueKeysAlways ==
  ASSUME KeysApart, PartByKey
  PROVE  Spec => []UniqueKeys
<1>1. Init => UniqueKeys
  BY DEF Init, UniqueKeys, DuplicateKeys
<1>2. TypeInv /\ UniqueKeys /\ [Next]_vars => UniqueKeys'
  <2> SUFFICES ASSUME TypeInv, UniqueKeys, [Next]_vars
               PROVE  UniqueKeys'
    OBVIOUS
  <2>1. CASE tgt' = tgt
    BY <2>1 DEF UniqueKeys, DuplicateKeys, Reached
  <2>2. ASSUME NEW j \in Jobs, Merge(j), ~ Refused(j)
        PROVE  UniqueKeys'
    <3>0. tgt' = Written(job[j].type, tgt, job[j].feed, job[j].region, Unused)
      BY <2>2 DEF Merge, Commit
    <3>1. /\ tgt \subseteq [key : Keys, val : Vals, id : Ids] /\ job[j].feed \in Feeds
          /\ UniqueReached(tgt)
      BY DEF TypeInv, TypeOK, Sources, UniqueKeys, UniqueReached
    <3>2. /\ UniqueReached(Upsert(tgt, job[j].feed, Unused))
          /\ UniqueReached(UpsertDelete(tgt, job[j].feed, Unused))
      BY <3>1, UpsertUniqueReached, UpsertDeleteUniqueReached
    <3>3. UniqueReached(Overwrite(job[j].feed, Unused))
      BY <3>1 DEF Overwrite, Inserted, Feeds, UniqueReached, DuplicateKeys
    <3>4. job[j].type = "overwrite-partition" =>
            UniqueReached(OverwritePartition(tgt, job[j].feed, job[j].region, Unused))
      <4>1. tgt \in SUBSET TRows
        BY <3>1 DEF TRows
      <4>2. job[j].type = "overwrite-partition" => Within(job[j].region, job[j].feed)
        BY DEF TypeInv, Sources
      <4> QED
        BY <3>1, <4>1, <4>2, OverwriteUnique
    <3>5. job[j].type \in Types
      BY <2>2 DEF Merge, TypeInv, Named, InFlight
    <3>6. UniqueReached(tgt')
      BY <3>0, <3>2, <3>3, <3>4, <3>5 DEF Written, Types
    <3> QED
      BY <3>6 DEF UniqueKeys, UniqueReached, DuplicateKeys, Reached
  <2> QED
    BY <2>1, <2>2
       DEF Next, Step, vars, WriteSource, DeleteSource, Start, Filter, Merge,
           Validate, Abort
<1> QED
  BY <1>1, <1>2, TypeInvariant, PTL DEF Spec

(***************************************************************************)
(* The incremental filter.  A call's DataFrame has all the source rows but *)
(* those written since, whose stamps are after its own and the target's.   *)
(***************************************************************************)
OneJob == \A i, j \in Jobs : i = j

\* Every call is one of scd1.
UpsertsOnly == \A j \in Jobs : TypesOf[j] \subseteq {"scd1"}

\* The MERGE overwrites the whole payload, the stamp with it.
Overwriting == \A v, w \in Vals : Overlay[<<v, w>>] = w

\* Of the rows S, those not in D are stamped after D and T.
Later(S, D, T) ==
  \A s \in S \ D : (\A d \in D : s.val > d.val) /\ (\A r \in T : s.val > r.val)

\* The stamps of U are stamps of T or D.
StampsFrom(U, T, D) == \A q \in U : q \in T \/ \E d \in D : q.val = d.val

WatermarkInv ==
  /\ Catchable
  /\ \A j \in Jobs : job[j].type \in {"scd1", "none"}
  /\ \A s \in src : s.val < clock
  /\ \A r \in tgt : r.val < clock
  /\ \A j \in Jobs :
       /\ \A d \in job[j].df : d.val < clock
       /\ job[j].pc \in {"filter", "merge"} =>
            /\ Reachable(job[j].df, tgt)
            /\ Later(src, job[j].df, tgt)
       /\ job[j].pc = "merge" => job[j].feed = After(job[j].df, tgt)

\* After the MERGE each source row is in the target, or stamped after it.
LEMMA MergeReaches ==
  ASSUME PlainKeys, Overwriting,
         NEW T \in SUBSET TRows, NEW D \in Feeds, NEW S \in SUBSET Rows, NEW now,
         Reachable(D, T), Later(S, D, T)
  PROVE  /\ Reachable(S, Upsert(T, After(D, T), now))
         /\ StampsFrom(Upsert(T, After(D, T), now), T, D)
<1> DEFINE F == After(D, T)
           U == Upsert(T, F, now)
<1>1. /\ D \in SUBSET Rows /\ F \in SUBSET D /\ F \in SUBSET Rows
      /\ Table(T) /\ Table(F)
  BY DEF Feeds, After, Table, TRows, Rows
<1>2. \A r \in T : \A s \in F : Hits(r, s) <=> r.key = s.key
  BY <1>1, HitIsKey
<1>3. \A r \in T, s \in F : Updated(r, s).val = s.val /\ Updated(r, s).key = s.key
  BY <1>1 DEF Updated, Overwriting, TRows, Rows
<1>4. \A s \in F : Inserted(s, now).val = s.val /\ Inserted(s, now).key = s.key
  BY DEF Inserted
<1>5. ASSUME NEW q \in U
      PROVE  q \in T \/ \E d \in D : q.val = d.val
  <2>1. \/ q \in T /\ \A s \in F : s.key # q.key
        \/ \E r \in T, s \in F : r.key = s.key /\ q = Updated(r, s)
        \/ \E s \in F : q = Inserted(s, now) /\ \A r \in T : r.key # s.key
    BY <1>1, UpsertRow
  <2> QED
    BY <1>1, <1>3, <1>4, <2>1
<1>6. ASSUME NEW s \in F
      PROVE  <<s.key, s.val>> \in Pairs(U)
  <2>1. CASE \E r \in T : r.key = s.key
    <3>1. PICK r \in T : r.key = s.key
      BY <2>1
    <3>2. <<r, s>> \in {y \in T \X F : Hits(y[1], y[2])}
      BY <1>2, <3>1
    <3>3. Updated(r, s) \in U
      BY <3>2 DEF Upsert
    <3> QED
      BY <1>3, <3>3 DEF Pairs
  <2>2. CASE \A r \in T : r.key # s.key
    <3>1. Inserted(s, now) \in U
      BY <1>2, <2>2 DEF Upsert
    <3> QED
      BY <1>4, <3>1 DEF Pairs
  <2> QED
    BY <2>1, <2>2
<1>7. ASSUME NEW s \in D, s \notin F
      PROVE  <<s.key, s.val>> \in Pairs(U)
  <2>1. ~ \A r \in T : s.val > r.val
    BY <1>7 DEF After
  <2>2. <<s.key, s.val>> \in Pairs(T)
    BY <2>1 DEF Reachable
  <2>3. PICK r \in T : r.key = s.key /\ r.val = s.val
    BY <2>2 DEF Pairs
  <2>4. \A f \in F : f.key # s.key
    BY <1>1, <1>7 DEF Feeds, DuplicateKeys
  <2>5. r \in U
    BY <1>2, <2>3, <2>4 DEF Upsert
  <2> QED
    BY <2>3, <2>5 DEF Pairs
<1>8. ASSUME NEW s \in S, s \notin D, NEW q \in U
      PROVE  s.val > q.val
  BY <1>5, <1>8 DEF Later
<1> QED
  BY <1>5, <1>6, <1>7, <1>8 DEF Reachable, StampsFrom

LEMMA WatermarkInvariant ==
  ASSUME PlainKeys, Overwriting, OneJob, Filtered, UpsertsOnly
  PROVE  Spec => []WatermarkInv
<1>1. Init => WatermarkInv
  BY DEF Init, WatermarkInv, Catchable, Reachable, Ended
<1>2. TypeInv /\ WatermarkInv /\ [Next]_vars => WatermarkInv'
  <2> SUFFICES ASSUME TypeInv, WatermarkInv, [Next]_vars
               PROVE  WatermarkInv'
    OBVIOUS
  <2> USE StampAssumption
  <2>t. /\ src \subseteq Rows /\ clock \in Nat /\ tgt \in SUBSET TRows
        /\ \A j \in Jobs : job[j].df \in Feeds /\ job[j].df \subseteq Rows
    BY DEF TypeInv, TypeOK, Sources, TRows, Feeds
  <2>v. /\ \A s \in src : s.val \in Nat
        /\ \A r \in tgt : r.val \in Nat
        /\ \A j \in Jobs : \A d \in job[j].df : d.val \in Nat
    BY <2>t DEF Rows, TRows
  <2>0. CASE UNCHANGED vars
    BY <2>0 DEF vars, WatermarkInv, Catchable
  <2>1. ASSUME NEW k \in Keys, WriteSource(k)
        PROVE  WatermarkInv'
    <3>1. /\ \A s \in src' : s \in src \/ s.val = clock
          /\ clock' = clock + 1 /\ tgt' = tgt /\ job' = job
      BY <2>1 DEF WriteSource
    <3>2. Catchable'
      BY <2>t, <2>v, <3>1 DEF WatermarkInv, Catchable, Reachable
    <3> QED
      BY <2>t, <2>v, <3>1, <3>2 DEF WatermarkInv, Later
  <2>2. ASSUME NEW k \in Keys, DeleteSource(k)
        PROVE  WatermarkInv'
    <3>1. src' \subseteq src /\ clock' = clock /\ tgt' = tgt /\ job' = job
      BY <2>2 DEF DeleteSource
    <3> QED
      BY <3>1 DEF WatermarkInv, Catchable, Reachable, Later
  <2>3. ASSUME NEW j \in Jobs, Start(j)
        PROVE  WatermarkInv'
    <3>0. PICK type \in TypesOf[j] : \E R \in Regions(type) :
            job' = [job EXCEPT ![j] = Call(type, R)]
      BY <2>3 DEF Start
    <3>d. type = "scd1"
      BY DEF UpsertsOnly
    <3>s. PICK R \in Regions(type) : job' = [job EXCEPT ![j] = Call("scd1", R)]
      BY <3>0, <3>d
    <3>1. /\ src' = src /\ clock' = clock /\ tgt' = tgt
          /\ job'[j].pc = "filter" /\ job'[j].df = src /\ job'[j].type = "scd1"
          /\ \A i \in Jobs : i = j
      BY <2>3, <3>s DEF Start, Call, Snapshot, TypeInv, TypeOK, OneJob
    <3>2. Later(src, src, tgt) /\ Reachable(src, tgt) /\ \A s \in src : s.val < clock
      BY DEF Later, WatermarkInv, Catchable
    <3>3. /\ Later(src', job'[j].df, tgt')
          /\ Reachable(job'[j].df, tgt') /\ Reachable(src', tgt')
          /\ \A d \in job'[j].df : d.val < clock'
      BY <3>1, <3>2
    <3> QED
      BY <3>1, <3>2, <3>3 DEF WatermarkInv, Catchable
  <2>4. ASSUME NEW j \in Jobs, Filter(j)
        PROVE  WatermarkInv'
    <3>1. /\ src' = src /\ clock' = clock /\ tgt' = tgt
          /\ job[j].pc = "filter" /\ job'[j].pc = "merge"
          /\ job'[j].df = job[j].df /\ job'[j].feed = After(job[j].df, tgt)
          /\ job'[j].type = job[j].type
          /\ \A i \in Jobs : i = j
      BY <2>4 DEF Filter, TypeInv, TypeOK, OneJob
    <3> QED
      BY <3>1 DEF WatermarkInv, Catchable
  <2>5. ASSUME NEW j \in Jobs, Merge(j), ~ Refused(j)
        PROVE  WatermarkInv'
    <3>1. /\ src' = src /\ clock' = clock
          /\ tgt' = Upsert(tgt, job[j].feed, Unused)
          /\ job[j].pc = "merge" /\ job'[j].pc = "validate"
          /\ job'[j].df = job[j].df /\ job'[j].type = "scd1"
          /\ \A i \in Jobs : i = j
      <4>1. job[j].pc = "merge" /\ job[j].type = "scd1"
        BY <2>5 DEF Merge, TypeInv, Named, InFlight, Types, WatermarkInv
      <4> QED
        BY <2>5, <4>1 DEF Merge, Commit, Written, TypeInv, TypeOK, OneJob
    <3>2. job[j].feed = After(job[j].df, tgt)
      BY <3>1 DEF WatermarkInv
    <3>a. Reachable(job[j].df, tgt) /\ Later(src, job[j].df, tgt)
      BY <3>1 DEF WatermarkInv
    <3>d. tgt \in SUBSET TRows /\ job[j].df \in Feeds /\ src \in SUBSET Rows
      BY <2>t
    <3>b. /\ Reachable(src, Upsert(tgt, After(job[j].df, tgt), Unused))
          /\ StampsFrom(Upsert(tgt, After(job[j].df, tgt), Unused), tgt, job[j].df)
      BY ONLY PlainKeys, Overwriting, <3>a, <3>d, MergeReaches
    <3>3. Reachable(src, tgt')
      BY <3>1, <3>2, <3>b
    <3>4. \A q \in tgt' : q \in tgt \/ \E d \in job[j].df : q.val = d.val
      BY <3>1, <3>2, <3>b DEF StampsFrom
    <3> QED
      BY <3>1, <3>3, <3>4 DEF WatermarkInv, Catchable
  <2>6. ASSUME NEW j \in Jobs, (Merge(j) /\ Refused(j)) \/ Validate(j) \/ Abort(j)
        PROVE  WatermarkInv'
    <3>1. /\ src' = src /\ clock' = clock /\ tgt' = tgt
          /\ job'[j].pc \notin {"filter", "merge"} /\ job'[j].df = {}
          /\ job'[j].type = "none"
          /\ \A i \in Jobs : i = j
      BY <2>6 DEF Merge, Validate, Abort, Ended, TypeInv, TypeOK, OneJob
    <3> QED
      BY <3>1 DEF WatermarkInv, Catchable
  <2> QED
    BY <2>0, <2>1, <2>2, <2>3, <2>4, <2>5, <2>6 DEF Next, Step
<1> QED
  BY <1>1, <1>2, TypeInvariant, PTL DEF Spec

\* With one job at a time, no write to the source ever falls behind the
\* watermark unseen: what a call has not merged, the next one will be given.
THEOREM CatchableAlways ==
  ASSUME PlainKeys, Overwriting, OneJob, Filtered, UpsertsOnly
  PROVE  Spec => []Catchable
<1>1. WatermarkInv => Catchable
  BY DEF WatermarkInv
<1> QED
  BY <1>1, WatermarkInvariant, PTL

(***************************************************************************)
(* What a merge leaves.                                                    *)
(***************************************************************************)
\* A call that commits in a step is the one that merges in it.
LEMMA CommitIsMerge ==
  ASSUME TypeInv, [Next]_vars, NEW j \in Jobs, Commits(j)
  PROVE  /\ tgt' = Written(job[j].type, tgt, job[j].feed, job[j].region, Unused)
         /\ Unused \in Ids /\ \A r \in tgt : r.id # Unused
         /\ ~ Refused(j) /\ job[j].type \in Types
         /\ \A i \in Jobs : Commits(i) => i = j
<1>1. job[j].pc = "merge" /\ job'[j].pc = "validate" /\ job' # job
  BY DEF Commits
<1>2. PICK i \in Jobs : Step(i)
  BY <1>1 DEF Next, vars, WriteSource, DeleteSource
<1>3. PICK c : job' = [job EXCEPT ![i] = c]
  <2>1. CASE Start(i)
    BY <2>1 DEF Start
  <2>2. CASE Merge(i) /\ ~ Refused(i)
    BY <2>2 DEF Merge, Commit
  <2>3. CASE Filter(i) \/ (Merge(i) /\ Refused(i)) \/ Validate(i) \/ Abort(i)
    BY <2>3 DEF Filter, Merge, Validate, Abort
  <2> QED
    BY <1>2, <2>1, <2>2, <2>3 DEF Step
<1>4. \A k \in Jobs \ {i} : job'[k] = job[k]
  BY <1>3 DEF TypeInv, TypeOK
<1>5. i = j /\ \A k \in Jobs : Commits(k) => k = j
  BY <1>1, <1>4 DEF Commits
<1>6. ~ Start(j) /\ ~ Filter(j) /\ ~ Validate(j)
  BY <1>1 DEF Start, Filter, Validate, Verdicts
<1>7. ~ \E v \in Verdicts : job' = [job EXCEPT ![j] = Ended(v)]
  BY <1>1 DEF Ended, Verdicts, TypeInv, TypeOK
<1>8. "aborted" \in Verdicts
  BY DEF Verdicts
<1>9. Merge(j) /\ ~ Refused(j)
  BY <1>2, <1>5, <1>6, <1>7, <1>8 DEF Step, Merge, Abort
<1>10. /\ \E n \in Ids : Free(n)
       /\ tgt' = Written(job[j].type, tgt, job[j].feed, job[j].region, Unused)
  BY <1>9 DEF Merge, Commit
<1>11. Unused \in Ids /\ Free(Unused)
  BY <1>10 DEF Unused
<1>12. job[j].type \in Types
  BY <1>1 DEF TypeInv, Named, InFlight
<1> QED
  BY <1>5, <1>9, <1>10, <1>11, <1>12 DEF Free

\* The rows of an upsert.
LEMMA UpsertMembers ==
  ASSUME NEW T, NEW F, NEW now
  PROVE  /\ \A r \in T : (\A s \in F : ~ Hits(r, s)) => r \in Upsert(T, F, now)
         /\ \A r \in T : \A s \in F : Hits(r, s) => Updated(r, s) \in Upsert(T, F, now)
         /\ \A s \in F : (\A r \in T : ~ Hits(r, s)) => Inserted(s, now) \in Upsert(T, F, now)
         /\ \A q \in Upsert(T, F, now) :
              \/ q \in T /\ \A s \in F : ~ Hits(q, s)
              \/ \E r \in T, s \in F : Hits(r, s) /\ q = Updated(r, s)
              \/ \E s \in F : q = Inserted(s, now) /\ \A r \in T : ~ Hits(r, s)
<1>1. ASSUME NEW r \in T, NEW s \in F, Hits(r, s)
      PROVE  Updated(r, s) \in Upsert(T, F, now)
  <2>1. <<r, s>> \in {y \in T \X F : Hits(y[1], y[2])}
    BY <1>1
  <2> QED
    BY <2>1 DEF Upsert
<1>2. ASSUME NEW q \in {Updated(x[1], x[2]) : x \in {y \in T \X F : Hits(y[1], y[2])}}
      PROVE  \E r \in T, s \in F : Hits(r, s) /\ q = Updated(r, s)
  OBVIOUS
<1>3. \A r \in T : (\A s \in F : ~ Hits(r, s)) => r \in Upsert(T, F, now)
  BY DEF Upsert
<1>4. \A s \in F : (\A r \in T : ~ Hits(r, s)) => Inserted(s, now) \in Upsert(T, F, now)
  BY DEF Upsert
<1>5. \A q \in Upsert(T, F, now) :
        \/ q \in T /\ \A s \in F : ~ Hits(q, s)
        \/ \E r \in T, s \in F : Hits(r, s) /\ q = Updated(r, s)
        \/ \E s \in F : q = Inserted(s, now) /\ \A r \in T : ~ Hits(r, s)
  BY <1>2 DEF Upsert
<1> QED
  BY <1>1, <1>3, <1>4, <1>5

\* With has_delete: the target rows the MERGE does not delete, and the rows to be
\* deleted that hit none and are inserted.
Spared(T, F) == {r \in T : \A d \in ToDelete(T, F) : ~ Hits(r, d)}
Strays(T, F) == {d \in ToDelete(T, F) : \A r \in T : ~ Hits(r, d)}

LEMMA UpsertDeleteForm ==
  ASSUME NEW T, NEW F, NEW now
  PROVE  UpsertDelete(T, F, now) =
           Upsert(Spared(T, F), F, now) \cup {Inserted(d, now) : d \in Strays(T, F)}
  BY DEF UpsertDelete, Spared, Strays

\* No row to be deleted joins a row that has a partner.
LEMMA SparedRows ==
  ASSUME NEW T, NEW F
  PROVE  /\ Spared(T, F) \subseteq T
         /\ \A r \in T : ~ Reached(r) => r \in Spared(T, F)
         /\ \A r \in T : \A s \in F : Hits(r, s) => r \in Spared(T, F)
         /\ \A r \in Spared(T, F) : Reached(r) => \E s \in F : Hits(r, s)
         /\ \A d \in Strays(T, F) : d \in T /\ JoinOf[d.key] = Null
<1>1. \A r \in T : ~ Reached(r) => r \in Spared(T, F)
  BY DEF Spared, Reached, Hits, Joins
<1>2. \A r \in T : \A s \in F : Hits(r, s) => r \in Spared(T, F)
  BY DEF Spared, ToDelete, Hits, Joins
<1>3. \A r \in Spared(T, F) : Reached(r) => \E s \in F : Hits(r, s)
  BY DEF Spared, ToDelete, Reached, Hits, Joins
<1>4. \A d \in Strays(T, F) : d \in T /\ JoinOf[d.key] = Null
  BY DEF Strays, ToDelete, Hits, Joins
<1> QED
  BY <1>1, <1>2, <1>3, <1>4 DEF Spared

\* What an upsert's MERGE cannot match stays as it is; what of its source cannot
\* match is inserted.
LEMMA UpsertReach ==
  ASSUME NEW T, NEW F, NEW now
  PROVE  /\ \A r \in T : ~ Reached(r) => r \in Upsert(T, F, now)
         /\ \A s \in F : JoinOf[s.key] = Null => Inserted(s, now) \in Upsert(T, F, now)
<1>1. \A r \in T : ~ Reached(r) => \A s \in F : ~ Hits(r, s)
  BY DEF Reached, Hits, Joins
<1>2. \A s \in F : JoinOf[s.key] = Null => \A r \in T : ~ Hits(r, s)
  BY DEF Hits, Joins
<1> QED
  BY <1>1, <1>2, UpsertMembers

LEMMA UpsertDeleteReach ==
  ASSUME NEW T, NEW F, NEW now
  PROVE  /\ \A r \in T : ~ Reached(r) => r \in UpsertDelete(T, F, now)
         /\ \A s \in F \cup ToDelete(T, F) :
              JoinOf[s.key] = Null => Inserted(s, now) \in UpsertDelete(T, F, now)
<1>1. \A r \in Spared(T, F) : ~ Reached(r) => r \in Upsert(Spared(T, F), F, now)
  BY UpsertReach
<1>2. \A s \in F : JoinOf[s.key] = Null => Inserted(s, now) \in Upsert(Spared(T, F), F, now)
  BY UpsertReach
<1>3. \A d \in ToDelete(T, F) : JoinOf[d.key] = Null => d \in Strays(T, F)
  BY DEF Strays, Hits, Joins
<1> QED
  BY <1>1, <1>2, <1>3, SparedRows, UpsertDeleteForm

\* Whatever the keys, the payloads and merge_cond: no upsert touches a row its
\* MERGE cannot match, and each adds to the rows with NULL ids.
THEOREM BeyondReachAlways == Spec => BeyondReach
<1>1. TypeInv /\ [Next]_vars =>
        [\A j \in Jobs : Commits(j) /\ job[j].type \in Upserts =>
           /\ \A r \in tgt : ~ Reached(r) => r \in tgt'
           /\ \A s \in StagedBy(j) :
                JoinOf[s.key] = Null => <<s.key, s.val>> \in Pairs(tgt' \ tgt)]_vars
  <2> SUFFICES ASSUME TypeInv, [Next]_vars,
                      NEW j \in Jobs, Commits(j), job[j].type \in Upserts
               PROVE  /\ \A r \in tgt : ~ Reached(r) => r \in tgt'
                      /\ \A s \in StagedBy(j) :
                           JoinOf[s.key] = Null => <<s.key, s.val>> \in Pairs(tgt' \ tgt)
    OBVIOUS
  <2>1. /\ tgt' = Written(job[j].type, tgt, job[j].feed, job[j].region, Unused)
        /\ \A r \in tgt : r.id # Unused
    BY CommitIsMerge
  <2>2. ASSUME NEW s \in StagedBy(j), Inserted(s, Unused) \in tgt'
        PROVE  <<s.key, s.val>> \in Pairs(tgt' \ tgt)
    <3>1. /\ Inserted(s, Unused).id = Unused
          /\ Inserted(s, Unused).key = s.key /\ Inserted(s, Unused).val = s.val
      BY DEF Inserted
    <3>2. Inserted(s, Unused) \in tgt' \ tgt
      BY <2>1, <2>2, <3>1
    <3> QED
      BY <3>1, <3>2 DEF Pairs
  <2>3. CASE job[j].type = "scd1"
    <3>1. tgt' = Upsert(tgt, job[j].feed, Unused) /\ StagedBy(j) = job[j].feed
      BY <2>1, <2>3 DEF Written, StagedBy
    <3> QED
      BY <2>2, <3>1, UpsertReach
  <2>4. CASE job[j].type = "scd1_delete"
    <3>1. /\ tgt' = UpsertDelete(tgt, job[j].feed, Unused)
          /\ StagedBy(j) = job[j].feed \cup ToDelete(tgt, job[j].feed)
      BY <2>1, <2>4 DEF Written, StagedBy
    <3> QED
      BY <2>2, <3>1, UpsertDeleteReach
  <2> QED
    BY <2>3, <2>4 DEF Upserts
<1> QED
  BY <1>1, TypeInvariant, PTL DEF Spec, BeyondReach

(***************************************************************************)
(* A merge lands its source.                                               *)
(***************************************************************************)
\* An update makes the row look like the source's.
LEMMA UpdatedPair ==
  ASSUME Overwriting, NEW r \in TRows, NEW s \in Rows
  PROVE  Updated(r, s).key = s.key /\ Updated(r, s).val = s.val
  BY DEF Overwriting, Updated, TRows, Rows

\* Upserting F leaves F, and the rows it does not hit.
LEMMA UpsertPairs ==
  ASSUME Overwriting, NEW T \in SUBSET TRows, NEW F \in SUBSET Rows, NEW now
  PROVE  Pairs(Upsert(T, F, now)) = Pairs(F) \cup Pairs({r \in T : \A s \in F : ~ Hits(r, s)})
<1> DEFINE U == Upsert(T, F, now)
           K == {r \in T : \A s \in F : ~ Hits(r, s)}
<1>1. \A r \in T : \A s \in F : Updated(r, s).key = s.key /\ Updated(r, s).val = s.val
  BY UpdatedPair
<1>2. \A s : Inserted(s, now).key = s.key /\ Inserted(s, now).val = s.val
  BY DEF Inserted
<1>3. /\ \A r \in T : (\A s \in F : ~ Hits(r, s)) => r \in U
      /\ \A r \in T : \A s \in F : Hits(r, s) => Updated(r, s) \in U
      /\ \A s \in F : (\A r \in T : ~ Hits(r, s)) => Inserted(s, now) \in U
  BY UpsertMembers
<1>4. \A q \in U : \/ q \in T /\ \A s \in F : ~ Hits(q, s)
                   \/ \E r \in T, s \in F : Hits(r, s) /\ q = Updated(r, s)
                   \/ \E s \in F : q = Inserted(s, now) /\ \A r \in T : ~ Hits(r, s)
  BY UpsertMembers
<1> HIDE DEF U
<1>5. \A q \in U : q \in K \/ \E s \in F : q.key = s.key /\ q.val = s.val
  BY <1>1, <1>2, <1>4
<1>6. \A s \in F : \E q \in U : q.key = s.key /\ q.val = s.val
  BY <1>1, <1>2, <1>3
<1>7. K \subseteq U
  BY <1>3
<1> HIDE DEF K
<1>8. Pairs(U) = Pairs(F) \cup Pairs(K)
  BY <1>5, <1>6, <1>7 DEF Pairs
<1> QED
  BY <1>8 DEF U, K

\* With has_delete it leaves F, and the rows the MERGE cannot match.
LEMMA UpsertDeletePairs ==
  ASSUME Overwriting, NEW T \in SUBSET TRows, NEW F \in SUBSET Rows, NEW now
  PROVE  Pairs(UpsertDelete(T, F, now)) = Pairs(F) \cup Pairs({r \in T : ~ Reached(r)})
<1> DEFINE U == Spared(T, F)
           K == {r \in U : \A s \in F : ~ Hits(r, s)}
           D == {Inserted(d, now) : d \in Strays(T, F)}
           B == {r \in T : ~ Reached(r)}
<1>1. U \in SUBSET TRows
  BY SparedRows
<1>2. Pairs(Upsert(U, F, now)) = Pairs(F) \cup Pairs(K)
  <2> HIDE DEF U
  <2> QED
    BY <1>1, UpsertPairs
<1>3. K = B
  <2>1. \A r \in T : Reached(r) => r \notin K
    BY SparedRows
  <2>2. \A r \in T : \A s \in F : Hits(r, s) => Reached(r)
    BY DEF Hits, Joins, Reached
  <2> QED
    BY <2>1, <2>2, SparedRows
<1>4. Pairs(D) \subseteq Pairs(B)
  <2>1. \A d \in Strays(T, F) : d \in B
    BY SparedRows DEF Reached
  <2>2. \A d : Inserted(d, now).key = d.key /\ Inserted(d, now).val = d.val
    BY DEF Inserted
  <2> HIDE DEF B
  <2> QED
    BY <2>1, <2>2 DEF Pairs
<1>5. UpsertDelete(T, F, now) = Upsert(U, F, now) \cup D
  BY UpsertDeleteForm
<1> HIDE DEF U, K, D, B
<1>6. Pairs(UpsertDelete(T, F, now)) = Pairs(Upsert(U, F, now)) \cup Pairs(D)
  BY <1>5 DEF Pairs
<1>7. Pairs(UpsertDelete(T, F, now)) = Pairs(F) \cup Pairs(B)
  BY <1>2, <1>3, <1>4, <1>6
<1> QED
  BY <1>7 DEF B

\* Without the filter, what a call merges is what its caller passed.
WholeFeed == \A j \in Jobs : job[j].pc = "merge" => job[j].feed = job[j].df

LEMMA WholeFeedInvariant ==
  ASSUME ~ Filtered
  PROVE  Spec => []WholeFeed
<1>1. Init => WholeFeed
  BY DEF Init, WholeFeed, Ended
<1>2. TypeInv /\ WholeFeed /\ [Next]_vars => WholeFeed'
  <2> SUFFICES ASSUME TypeInv, WholeFeed, [Next]_vars
               PROVE  WholeFeed'
    OBVIOUS
  <2>1. CASE job' = job
    BY <2>1 DEF WholeFeed
  <2>2. ASSUME NEW j \in Jobs, NEW c, job' = [job EXCEPT ![j] = c],
               c.pc = "merge" => c.feed = c.df
        PROVE  WholeFeed'
    BY <2>2 DEF WholeFeed, TypeInv, TypeOK
  <2>3. ASSUME NEW j \in Jobs, Start(j)
        PROVE  WholeFeed'
    <3>1. PICK type \in TypesOf[j] : \E R \in Regions(type) :
            job' = [job EXCEPT ![j] = Call(type, R)]
      BY <2>3 DEF Start
    <3>2. PICK R \in Regions(type) : job' = [job EXCEPT ![j] = Call(type, R)]
      BY <3>1
    <3>3. Call(type, R).pc # "merge"
      BY DEF Call
    <3> QED
      BY <2>2, <3>2, <3>3
  <2>4. ASSUME NEW j \in Jobs, Filter(j)
        PROVE  WholeFeed'
    <3> DEFINE c == [pc |-> "merge", type |-> job[j].type, region |-> job[j].region,
                     df |-> job[j].df, feed |-> job[j].df]
    <3>1. job' = [job EXCEPT ![j] = c]
      BY <2>4 DEF Filter
    <3>2. c.feed = c.df
      OBVIOUS
    <3> HIDE DEF c
    <3> QED
      BY <2>2, <3>1, <3>2
  <2>5. ASSUME NEW j \in Jobs, Merge(j) \/ Validate(j) \/ Abort(j)
        PROVE  WholeFeed'
    <3>1. \/ \E v \in Verdicts : job' = [job EXCEPT ![j] = Ended(v)]
          \/ job' = [job EXCEPT ![j] =
               [pc |-> "validate", type |-> job[j].type, region |-> job[j].region,
                df |-> job[j].df, feed |-> job[j].feed]]
      BY <2>5 DEF Merge, Commit, Validate, Abort, Verdicts
    <3>2. \A v \in Verdicts : Ended(v).pc # "merge"
      BY DEF Ended, Verdicts
    <3> QED
      BY <2>2, <3>1, <3>2
  <2> QED
    BY <2>1, <2>3, <2>4, <2>5 DEF Next, Step, vars, WriteSource, DeleteSource
<1> QED
  BY <1>1, <1>2, TypeInvariant, PTL DEF Spec

\* A committed merge leaves what the caller passed instead of what it can reach,
\* or instead of the rows of its partitions, for every way the calls interleave.
THEOREM LandsSourceAlways ==
  ASSUME KeysApart, Overwriting, ~ Filtered
  PROVE  Spec => LandsSource
<1>1. TypeInv /\ WholeFeed /\ [Next]_vars =>
        [\A j \in Jobs : Commits(j) =>
           Pairs(tgt') = Pairs(job[j].df) \cup Pairs({x \in tgt : Leaves(j, x)})]_vars
  <2> SUFFICES ASSUME TypeInv, WholeFeed, [Next]_vars, NEW j \in Jobs, Commits(j)
               PROVE  Pairs(tgt') = Pairs(job[j].df) \cup Pairs({x \in tgt : Leaves(j, x)})
    OBVIOUS
  <2> DEFINE D == job[j].df
  <2>1. /\ tgt' = Written(job[j].type, tgt, D, job[j].region, Unused)
        /\ job[j].type \in Types
    BY CommitIsMerge DEF WholeFeed, Commits
  <2>2. tgt \in SUBSET TRows /\ D \in SUBSET Rows
    BY DEF TypeInv, TypeOK, TRows
  <2>3. \A s : Inserted(s, Unused).key = s.key /\ Inserted(s, Unused).val = s.val
    BY DEF Inserted
  <2>4. Pairs(Overwrite(D, Unused)) = Pairs(D)
    BY <2>3 DEF Overwrite, Pairs
  <2>5. CASE job[j].type = "scd1"
    <3>1. tgt' = Upsert(tgt, D, Unused)
      BY <2>1, <2>5 DEF Written
    <3>2. \A r \in tgt : \A s \in D : Hits(r, s) <=> r.key = s.key /\ Reached(r)
      <4>1. Table(tgt) /\ Table(D)
        BY <2>2 DEF Table, TRows, Rows
      <4> QED
        BY <4>1, HitIsReachedKey
    <3>3. {x \in tgt : Leaves(j, x)} = {r \in tgt : \A s \in D : ~ Hits(r, s)}
      BY <2>5, <3>2 DEF Leaves, Upserts
    <3> HIDE DEF D
    <3>4. Pairs(Upsert(tgt, D, Unused)) =
            Pairs(D) \cup Pairs({r \in tgt : \A s \in D : ~ Hits(r, s)})
      BY <2>2, UpsertPairs
    <3>5. Pairs(tgt') = Pairs(D) \cup Pairs({x \in tgt : Leaves(j, x)})
      BY <3>1, <3>3, <3>4
    <3> QED
      BY <3>5 DEF D
  <2>6. CASE job[j].type = "scd1_delete"
    <3>1. tgt' = UpsertDelete(tgt, D, Unused)
      BY <2>1, <2>6 DEF Written
    <3>2. {x \in tgt : Leaves(j, x)} = {r \in tgt : ~ Reached(r)}
      BY <2>6 DEF Leaves, Upserts
    <3> HIDE DEF D
    <3>3. Pairs(UpsertDelete(tgt, D, Unused)) =
            Pairs(D) \cup Pairs({r \in tgt : ~ Reached(r)})
      BY <2>2, UpsertDeletePairs
    <3>4. Pairs(tgt') = Pairs(D) \cup Pairs({x \in tgt : Leaves(j, x)})
      BY <3>1, <3>2, <3>3
    <3> QED
      BY <3>4 DEF D
  <2>7. CASE job[j].type = "overwrite"
    <3>1. tgt' = Overwrite(D, Unused)
      BY <2>1, <2>7 DEF Written
    <3>2. {x \in tgt : Leaves(j, x)} = {}
      BY <2>7 DEF Leaves, Upserts
    <3> QED
      BY <2>4, <3>1, <3>2 DEF Pairs
  <2>8. CASE job[j].type = "overwrite-partition"
    <3>1. tgt' = {r \in tgt : ~ In(job[j].region, r)} \cup Overwrite(D, Unused)
      BY <2>1, <2>8 DEF Written, OverwritePartition
    <3>2. {x \in tgt : Leaves(j, x)} = {r \in tgt : ~ In(job[j].region, r)}
      BY <2>8 DEF Leaves, Upserts
    <3> QED
      BY <2>4, <3>1, <3>2 DEF Pairs
  <2> QED
    BY <2>1, <2>5, <2>6, <2>7, <2>8 DEF Types
<1>2. Spec => []WholeFeed
  BY WholeFeedInvariant
<1> QED
  BY <1>1, <1>2, TypeInvariant, PTL DEF Spec, LandsSource

\* An upsert of what the filter keeps lands all that the filter was given: the rows
\* it drops are in the target already.
LEMMA FilteredPairs ==
  ASSUME PlainKeys, Overwriting, NEW T \in SUBSET TRows, ~ DuplicateKeys(T),
         NEW D \in Feeds, Reachable(D, T), NEW now
  PROVE  Pairs(Upsert(T, After(D, T), now)) =
           Pairs(D) \cup Pairs({x \in T : \A s \in D : s.key # x.key})
<1> DEFINE F == After(D, T)
           K == {r \in T : \A s \in F : ~ Hits(r, s)}
           L == {x \in T : \A s \in D : s.key # x.key}
<1>1. D \in SUBSET Rows /\ F \in SUBSET Rows /\ F \subseteq D /\ ~ DuplicateKeys(D)
  BY DEF Feeds, After
<1>2. \A r \in T : \A s \in F : Hits(r, s) <=> r.key = s.key
  <2>1. Table(T) /\ Table(F)
    BY <1>1 DEF Table, TRows, Rows
  <2> HIDE DEF F
  <2> QED
    BY <2>1, HitIsKey
<1>3. \A s \in D \ F : \E r \in T : r.key = s.key /\ r.val = s.val
  BY DEF After, Reachable, Pairs
<1> HIDE DEF F
<1>4. Pairs(Upsert(T, F, now)) = Pairs(F) \cup Pairs(K)
  BY <1>1, UpsertPairs
<1>5. ASSUME NEW r \in K
      PROVE  r \in L \/ \E s \in D : r.key = s.key /\ r.val = s.val
  <2>1. ASSUME NEW s \in D, s.key = r.key
        PROVE  r.val = s.val
    <3>1. s \notin F
      BY <1>2, <2>1
    <3>2. PICK q \in T : q.key = s.key /\ q.val = s.val
      BY <1>3, <3>1
    <3> QED
      BY <2>1, <3>2 DEF DuplicateKeys
  <2> QED
    BY <2>1
<1>6. ASSUME NEW s \in D \ F
      PROVE  \E r \in K : r.key = s.key /\ r.val = s.val
  <2>1. PICK r \in T : r.key = s.key /\ r.val = s.val
    BY <1>3
  <2>2. \A f \in F : f.key # r.key
    BY <1>1, <2>1 DEF DuplicateKeys
  <2> QED
    BY <1>2, <2>1, <2>2
<1>7. L \subseteq K
  BY <1>1, <1>2
<1> HIDE DEF K, L
<1>8. Pairs(F) \cup Pairs(K) = Pairs(D) \cup Pairs(L)
  BY <1>1, <1>5, <1>6, <1>7 DEF Pairs
<1> QED
  BY <1>4, <1>8 DEF F, L

\* So the incremental filter makes no difference to one job that upserts.
THEOREM LandsFilteredAlways ==
  ASSUME PlainKeys, Overwriting, OneJob, Filtered, UpsertsOnly
  PROVE  Spec => LandsSource
<1>1. /\ Spec => []WatermarkInv
      /\ \A r \in TRows : Reached(r)
      /\ KeysApart
  BY WatermarkInvariant DEF PlainKeys, Reached, TRows, KeysApart
<1>2. TypeInv /\ WatermarkInv =>
        \A j \in Jobs : [Next]_vars /\ Commits(j) =>
          /\ tgt' = Upsert(tgt, After(job[j].df, tgt), Unused)
          /\ tgt \in SUBSET TRows /\ job[j].feed \in Feeds /\ job[j].df \in Feeds
          /\ job[j].feed = After(job[j].df, tgt)
          /\ Reachable(job[j].df, tgt) /\ job[j].type = "scd1"
  <2> SUFFICES ASSUME TypeInv, WatermarkInv, NEW j \in Jobs, [Next]_vars, Commits(j)
               PROVE  /\ tgt' = Upsert(tgt, After(job[j].df, tgt), Unused)
                      /\ tgt \in SUBSET TRows /\ job[j].feed \in Feeds /\ job[j].df \in Feeds
                      /\ job[j].feed = After(job[j].df, tgt)
                      /\ Reachable(job[j].df, tgt) /\ job[j].type = "scd1"
    OBVIOUS
  <2>1. /\ tgt' = Written(job[j].type, tgt, job[j].feed, job[j].region, Unused)
        /\ job[j].type \in Types
    BY CommitIsMerge
  <2>2. job[j].type = "scd1" /\ job[j].feed = After(job[j].df, tgt) /\ Reachable(job[j].df, tgt)
    BY <2>1 DEF WatermarkInv, Commits, Types
  <2> QED
    BY <2>1, <2>2 DEF Written, TypeInv, TypeOK, TRows, Sources
<1>3. Init => UniqueKeys
  BY DEF Init, UniqueKeys, DuplicateKeys
<1>4. TypeInv /\ WatermarkInv /\ UniqueKeys /\ [Next]_vars => UniqueKeys'
  <2> SUFFICES ASSUME TypeInv, WatermarkInv, UniqueKeys, [Next]_vars
               PROVE  UniqueKeys'
    OBVIOUS
  <2>1. CASE tgt' = tgt
    BY <2>1 DEF UniqueKeys, DuplicateKeys, Reached
  <2>2. ASSUME NEW j \in Jobs, Commits(j)
        PROVE  UniqueKeys'
    <3>1. /\ tgt' = Upsert(tgt, job[j].feed, Unused)
          /\ tgt \subseteq [key : Keys, val : Vals, id : Ids] /\ job[j].feed \in Feeds
          /\ UniqueReached(tgt)
      BY <1>2, <2>2 DEF UniqueKeys, UniqueReached, TRows
    <3>2. UniqueReached(tgt')
      BY <1>1, <3>1, UpsertUniqueReached
    <3> QED
      BY <3>2 DEF UniqueKeys, UniqueReached, DuplicateKeys, Reached
  <2>3. (\E j \in Jobs : Commits(j)) \/ tgt' = tgt
    <3>1. ASSUME NEW j \in Jobs, Merge(j), ~ Refused(j)
          PROVE  Commits(j)
      BY <3>1 DEF Merge, Commit, Commits, TypeInv, TypeOK
    <3> QED
      BY <3>1 DEF Next, Step, vars, WriteSource, DeleteSource, Start, Filter, Merge,
                  Validate, Abort
  <2> QED
    BY <2>1, <2>2, <2>3
<1>5. TypeInv /\ WatermarkInv /\ UniqueKeys /\ [Next]_vars =>
        [\A j \in Jobs : Commits(j) =>
           Pairs(tgt') = Pairs(job[j].df) \cup Pairs({x \in tgt : Leaves(j, x)})]_vars
  <2> SUFFICES ASSUME TypeInv, WatermarkInv, UniqueKeys, [Next]_vars, NEW j \in Jobs, Commits(j)
               PROVE  Pairs(tgt') = Pairs(job[j].df) \cup Pairs({x \in tgt : Leaves(j, x)})
    OBVIOUS
  <2>1. /\ tgt' = Upsert(tgt, After(job[j].df, tgt), Unused)
        /\ tgt \in SUBSET TRows /\ job[j].df \in Feeds
        /\ Reachable(job[j].df, tgt) /\ job[j].type = "scd1"
    BY <1>2
  <2>2. ~ DuplicateKeys(tgt)
    BY <1>1, <2>1 DEF UniqueKeys, DuplicateKeys
  <2>3. {x \in tgt : Leaves(j, x)} = {x \in tgt : \A s \in job[j].df : s.key # x.key}
    BY <1>1, <2>1 DEF Leaves, Upserts
  <2>4. Pairs(Upsert(tgt, After(job[j].df, tgt), Unused)) =
          Pairs(job[j].df) \cup Pairs({x \in tgt : \A s \in job[j].df : s.key # x.key})
    BY <2>1, <2>2, FilteredPairs
  <2> QED
    BY <2>1, <2>3, <2>4
<1> QED
  BY <1>1, <1>3, <1>4, <1>5, TypeInvariant, PTL DEF Spec, LandsSource

(***************************************************************************)
(* Two rows with one key.                                                  *)
(***************************************************************************)
\* An id is used once for a key a MERGE can match.
Identified(T) ==
  \A r, s \in T : r.key = s.key /\ r.id = s.id /\ JoinOf[r.key] # Null => r = s

LEMMA UpsertIdentified ==
  ASSUME KeysApart, NEW T \in SUBSET TRows, Identified(T), NEW F \in Feeds,
         NEW now, \A r \in T : r.id # now
  PROVE  Identified(Upsert(T, F, now))
<1>1. F \in SUBSET Rows /\ \A s, t \in F : s.key = t.key => s = t
  BY DEF Feeds, DuplicateKeys
<1>2. \A r \in T : \A s \in F : Hits(r, s) <=> r.key = s.key /\ Reached(r)
  <2>1. Table(T) /\ Table(F)
    BY <1>1 DEF Table, TRows, Rows
  <2> QED
    BY <2>1, HitIsReachedKey
<1>3. /\ \A r \in T : \A s \in F : Updated(r, s).key = s.key /\ Updated(r, s).id = r.id
      /\ \A s : Inserted(s, now).key = s.key /\ Inserted(s, now).id = now
  BY DEF Updated, Inserted, TRows
<1> DEFINE Kept(q) == q \in T /\ \A s \in F : ~ Hits(q, s)
           Changed(q) == \E r \in T, s \in F : Hits(r, s) /\ q = Updated(r, s)
           Added(q) == \E s \in F : q = Inserted(s, now)
<1>4. \A q \in Upsert(T, F, now) : Kept(q) \/ Changed(q) \/ Added(q)
  BY UpsertMembers
\* A row of the table becomes one row of the result.
<1>5. \A q : Kept(q) \/ Changed(q) => \E r \in T :
        /\ q.key = r.key /\ q.id = r.id
        /\ \/ q = r /\ \A s \in F : ~ Hits(r, s)
           \/ \E s \in F : s.key = r.key /\ Hits(r, s) /\ q = Updated(r, s)
  BY <1>2, <1>3
<1>6. \A q : Added(q) => q.id = now
  BY <1>3
<1>7. \A p, q : Added(p) /\ Added(q) /\ p.key = q.key => p = q
  BY <1>1, <1>3
<1> SUFFICES ASSUME NEW p \in Upsert(T, F, now), NEW q \in Upsert(T, F, now),
                    p.key = q.key, p.id = q.id, JoinOf[p.key] # Null
             PROVE  p = q
  BY DEF Identified
<1> HIDE DEF Kept, Changed, Added
<1>8. CASE Added(p)
  BY <1>4, <1>5, <1>6, <1>7, <1>8
<1>9. CASE Kept(p) \/ Changed(p)
  <2>1. PICK r \in T :
          /\ p.key = r.key /\ p.id = r.id
          /\ \/ p = r /\ \A s \in F : ~ Hits(r, s)
             \/ \E s \in F : s.key = r.key /\ Hits(r, s) /\ p = Updated(r, s)
    BY <1>5, <1>9
  <2>2. Kept(q) \/ Changed(q)
    BY <1>4, <1>6, <2>1
  <2>3. PICK t \in T :
          /\ q.key = t.key /\ q.id = t.id
          /\ \/ q = t /\ \A s \in F : ~ Hits(t, s)
             \/ \E s \in F : s.key = t.key /\ Hits(t, s) /\ q = Updated(t, s)
    BY <1>5, <2>2
  <2>4. r = t
    BY <2>1, <2>3 DEF Identified
  <2> QED
    BY <1>1, <2>1, <2>3, <2>4
<1> QED
  BY <1>4, <1>8, <1>9

LEMMA UpsertDeleteIdentified ==
  ASSUME KeysApart, NEW T \in SUBSET TRows, Identified(T), NEW F \in Feeds,
         NEW now, \A r \in T : r.id # now
  PROVE  Identified(UpsertDelete(T, F, now))
<1> DEFINE U == Spared(T, F)
           D == {Inserted(d, now) : d \in Strays(T, F)}
<1>1. U \in SUBSET TRows /\ Identified(U) /\ \A r \in U : r.id # now
  BY SparedRows DEF Identified
<1>2. \A q \in D : JoinOf[q.key] = Null
  BY SparedRows DEF Inserted
<1>3. UpsertDelete(T, F, now) = Upsert(U, F, now) \cup D
  BY UpsertDeleteForm
<1> HIDE DEF U, D
<1>4. Identified(Upsert(U, F, now))
  BY <1>1, UpsertIdentified
<1> QED
  BY <1>2, <1>3, <1>4 DEF Identified

LEMMA OverwriteIdentified ==
  ASSUME NEW T, Identified(T), NEW F \in Feeds, NEW R, NEW now, \A r \in T : r.id # now
  PROVE  Identified(Overwrite(F, now)) /\ Identified(OverwritePartition(T, F, R, now))
<1>1. \A s, t \in F : s.key = t.key => s = t
  BY DEF Feeds, DuplicateKeys
<1>2. \A s : Inserted(s, now).key = s.key /\ Inserted(s, now).id = now
  BY DEF Inserted
<1>3. Identified(Overwrite(F, now)) /\ \A q \in Overwrite(F, now) : q.id = now
  BY <1>1, <1>2 DEF Identified, Overwrite
<1> QED
  BY <1>3 DEF Identified, OverwritePartition

LEMMA IdentifiedInvariant ==
  ASSUME KeysApart
  PROVE  Spec => []Identified(tgt)
<1>1. Init => Identified(tgt)
  BY DEF Init, Identified
<1>2. TypeInv /\ Identified(tgt) /\ [Next]_vars => Identified(tgt)'
  <2> SUFFICES ASSUME TypeInv, Identified(tgt), [Next]_vars
               PROVE  Identified(tgt')
    BY DEF Identified
  <2>1. CASE tgt' = tgt
    BY <2>1
  <2>2. ASSUME NEW j \in Jobs, Merge(j), ~ Refused(j)
        PROVE  Identified(tgt')
    <3>1. Commits(j)
      BY <2>2 DEF Merge, Commit, Commits, TypeInv, TypeOK
    <3>2. /\ tgt' = Written(job[j].type, tgt, job[j].feed, job[j].region, Unused)
          /\ \A r \in tgt : r.id # Unused
      BY <3>1, CommitIsMerge
    <3>3. tgt \in SUBSET TRows /\ job[j].feed \in Feeds
      BY DEF TypeInv, TypeOK, TRows, Sources
    <3>4. /\ Identified(Upsert(tgt, job[j].feed, Unused))
          /\ Identified(UpsertDelete(tgt, job[j].feed, Unused))
      BY <3>2, <3>3, UpsertIdentified, UpsertDeleteIdentified
    <3>5. /\ Identified(Overwrite(job[j].feed, Unused))
          /\ Identified(OverwritePartition(tgt, job[j].feed, job[j].region, Unused))
      BY <3>2, <3>3, OverwriteIdentified
    <3> QED
      BY <3>2, <3>4, <3>5 DEF Written
  <2> QED
    BY <2>1, <2>2
       DEF Next, Step, vars, WriteSource, DeleteSource, Start, Filter, Merge,
           Validate, Abort
<1> QED
  BY <1>1, <1>2, TypeInvariant, PTL DEF Spec

\* merge_cond does not depend on the columns an update ignores.
CondOnUpdated ==
  \A u, v, w \in Vals : Overlay[<<u, w>>] \in Scope <=> Overlay[<<v, w>>] \in Scope

Twins(r, s) == r # s /\ r.key = s.key /\ (r.val \in Scope <=> s.val \in Scope)

\* An upsert leaves two rows with one key, if it is not refused.
LEMMA UpsertTwins ==
  ASSUME CondOnUpdated, NEW T \in SUBSET TRows, Identified(T), NEW F \in SUBSET Rows, NEW now,
         NEW r \in T, NEW s \in T, Twins(r, s)
  PROVE  Stuck(Upsert(T, F, now))
<1>1. CASE \A f \in F : ~ Hits(r, f)
  <2>1. \A f \in F : ~ Hits(s, f)
    BY <1>1 DEF Twins, Hits, Joins
  <2> QED
    BY <1>1, <2>1, UpsertMembers DEF Stuck, Twins
<1>2. ASSUME NEW f \in F, Hits(r, f)
      PROVE  Stuck(Upsert(T, F, now))
  <2>1. Hits(s, f)
    BY <1>2 DEF Twins, Hits, Joins
  <2>2. Updated(r, f) \in Upsert(T, F, now) /\ Updated(s, f) \in Upsert(T, F, now)
    BY <1>2, <2>1, UpsertMembers
  <2>3. /\ Updated(r, f).key = f.key /\ Updated(s, f).key = f.key
        /\ Updated(r, f).id = r.id /\ Updated(s, f).id = s.id
        /\ Updated(r, f).val = Overlay[<<r.val, f.val>>]
        /\ Updated(s, f).val = Overlay[<<s.val, f.val>>]
    BY DEF Updated, TRows
  <2>4. r.id # s.id
    BY <1>2 DEF Twins, Identified, Hits, Joins
  <2>5. Overlay[<<r.val, f.val>>] \in Scope <=> Overlay[<<s.val, f.val>>] \in Scope
    BY DEF CondOnUpdated, TRows, Rows
  <2> QED
    BY <2>2, <2>3, <2>4, <2>5 DEF Stuck
<1> QED
  BY <1>1, <1>2

LEMMA UpsertDeleteTwins ==
  ASSUME CondOnUpdated, NEW T \in SUBSET TRows, Identified(T), NEW F \in SUBSET Rows, NEW now,
         ~ Ambiguous(T, F \cup ToDelete(T, F)), NEW r \in T, NEW s \in T, Twins(r, s)
  PROVE  Stuck(UpsertDelete(T, F, now))
<1>1. r \in Spared(T, F) /\ s \in Spared(T, F)
  <2>1. CASE ~ Reached(r)
    BY <2>1, SparedRows DEF Twins, Reached
  <2>2. ASSUME NEW f \in F, Hits(r, f)
        PROVE  r \in Spared(T, F) /\ s \in Spared(T, F)
    <3>1. Hits(s, f)
      BY <2>2 DEF Twins, Hits, Joins
    <3> QED
      BY <2>2, <3>1, SparedRows
  <2>3. Reached(r) => \E f \in F : Hits(r, f)
    <3> SUFFICES ASSUME Reached(r), \A f \in F : ~ Hits(r, f)
                 PROVE  FALSE
      OBVIOUS
    <3>1. r \in ToDelete(T, F) /\ s \in ToDelete(T, F)
      BY DEF ToDelete, Twins, Reached, Hits, Joins
    <3>2. Hits(r, r) /\ Hits(r, s) /\ r # s
      BY DEF Hits, Joins, Reached, Twins
    <3> QED
      BY <3>1, <3>2 DEF Ambiguous
  <2> QED
    BY <2>1, <2>2, <2>3
<1>2. Spared(T, F) \in SUBSET TRows /\ Identified(Spared(T, F))
  BY SparedRows DEF Identified
<1>3. Stuck(Upsert(Spared(T, F), F, now))
  BY <1>1, <1>2, UpsertTwins
<1> QED
  BY <1>3, UpsertDeleteForm DEF Stuck

\* However the upserts of several jobs interleave, two rows with one key are never
\* merged away, and no call that looks at the whole table ends well any more.
THEOREM FailureStaysLatched ==
  ASSUME KeysApart, CondOnUpdated
  PROVE  Spec => LatchedFailure
<1>1. TypeInv /\ Identified(tgt) /\ [Next]_vars =>
        [Stuck(tgt) /\ (\A j \in Jobs : Commits(j) => job[j].type \in Upserts) =>
           /\ Stuck(tgt')
           /\ \A j \in Jobs : job'[j].pc = "ok" =>
                job[j].pc = "ok" \/ job[j].type = "overwrite-partition"]_vars
  <2> SUFFICES ASSUME TypeInv, Identified(tgt), [Next]_vars, Stuck(tgt),
                      \A j \in Jobs : Commits(j) => job[j].type \in Upserts
               PROVE  /\ Stuck(tgt')
                      /\ \A j \in Jobs : job'[j].pc = "ok" =>
                           job[j].pc = "ok" \/ job[j].type = "overwrite-partition"
    OBVIOUS
  <2>1. Stuck(tgt')
    <3>1. CASE tgt' = tgt
      BY <3>1
    <3>2. ASSUME NEW j \in Jobs, Commits(j)
          PROVE  Stuck(tgt')
      <4>1. /\ tgt' = Written(job[j].type, tgt, job[j].feed, job[j].region, Unused)
            /\ ~ Refused(j) /\ job[j].type \in Upserts
        BY <3>2, CommitIsMerge
      <4>2. PICK r \in tgt, s \in tgt : Twins(r, s)
        BY DEF Stuck, Twins
      <4>3. tgt \in SUBSET TRows /\ job[j].feed \in SUBSET Rows
        BY DEF TypeInv, TypeOK, TRows
      <4>4. CASE job[j].type = "scd1"
        BY <4>1, <4>2, <4>3, <4>4, UpsertTwins DEF Written
      <4>5. CASE job[j].type = "scd1_delete"
        <5>1. ~ Ambiguous(tgt, job[j].feed \cup ToDelete(tgt, job[j].feed))
          BY <4>1, <4>5 DEF Refused, StagedBy
        <5> QED
          BY <4>1, <4>2, <4>3, <4>5, <5>1, UpsertDeleteTwins DEF Written
      <4> QED
        BY <4>1, <4>4, <4>5 DEF Upserts
    <3>3. (\E j \in Jobs : Commits(j)) \/ tgt' = tgt
      <4>1. ASSUME NEW j \in Jobs, Merge(j), ~ Refused(j)
            PROVE  Commits(j)
        BY <4>1 DEF Merge, Commit, Commits, TypeInv, TypeOK
      <4> QED
        BY <4>1 DEF Next, Step, vars, WriteSource, DeleteSource, Start, Filter, Merge,
                    Validate, Abort
    <3> QED
      BY <3>1, <3>2, <3>3
  <2>2. ASSUME NEW j \in Jobs, job'[j].pc = "ok", job[j].pc # "ok"
        PROVE  job[j].type = "overwrite-partition"
    <3>1. PICK i \in Jobs : Step(i)
      BY <2>2 DEF Next, vars, WriteSource, DeleteSource
    <3>2. CASE Validate(i)
      <4>1. job'[i].pc = "duplicated" \/ ~ DuplicateKeys(Looked(i))
        BY <3>2 DEF Validate, Ended, TypeInv, TypeOK
      <4>2. i = j
        BY <2>2, <3>2 DEF Validate, TypeInv, TypeOK
      <4>3. DuplicateKeys(tgt)
        BY DEF Stuck, DuplicateKeys
      <4> QED
        BY <2>2, <4>1, <4>2, <4>3 DEF Looked
    <3>3. CASE Filter(i) \/ Merge(i) \/ Abort(i)
      BY <2>2, <3>3 DEF Filter, Merge, Commit, Abort, Ended, TypeInv, TypeOK
    <3>4. CASE Start(i)
      BY <2>2, <3>4 DEF Start, Call, TypeInv, TypeOK
    <3> QED
      BY <3>1, <3>2, <3>3, <3>4 DEF Step
  <2> QED
    BY <2>1, <2>2
<1>2. Spec => []Identified(tgt)
  BY IdentifiedInvariant
<1> QED
  BY <1>1, <1>2, TypeInvariant, PTL DEF Spec, LatchedFailure
=============================================================================
