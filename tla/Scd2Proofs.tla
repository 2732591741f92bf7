------------------------------ MODULE Scd2Proofs ------------------------------
(***************************************************************************)
(* Proofs about Scd2 for every value of its constants.                     *)
(***************************************************************************)
EXTENDS Scd2Columns, FiniteSetTheorems, TLAPS

(***************************************************************************)
(* Type correctness.                                                       *)
(***************************************************************************)
\* A job about to commit has taken an instant the clock has passed.
Stamped ==
  \A j \in Jobs : job[j].pc \in {"photo", "merge"} => job[j].cts \in 1 .. clock - 1

TypeInv == TypeOK /\ Stamped

\* A month number is no larger than the instant it is computed from.
LEMMA MonthType ==
  ASSUME NEW t \in NullTime .. Forever
  PROVE  MonthOf(t) \in NullTime .. Forever
  BY TimeAssumption, SMTT(30) DEF MonthOf, NullTime, Forever

LEMMA PartType ==
  ASSUME NEW s \in NullTime .. Forever, NEW e \in NullTime .. Forever
  PROVE  PartOf(s, e) \in NullTime .. Forever
<1>1. NullTime \in NullTime .. Forever
  BY TimeAssumption DEF NullTime, Forever
<1> QED
  BY <1>1, MonthType DEF PartOf

LEMMA FreshType ==
  ASSUME NEW s \in Rows, NEW now \in 0 .. MaxRuns, NEW leg \in {"new", "upd", "del"},
         NEW n \in Nat
  PROVE  Fresh(s, now, leg, n) \in TargetRows /\ Fresh(s, now, leg, n).cur = 1
<1>1. PartOf(now, Forever) \in NullTime .. Forever
  BY PartType, TimeAssumption DEF NullTime, Forever
<1>2. Forever \in 0 .. Forever /\ now \in NullTime .. MaxRuns /\ now \in Nat
  BY TimeAssumption DEF NullTime, Forever
<1> QED
  BY <1>1, <1>2 DEF Fresh, TargetRows, Rows

\* Every staged row is a row of the target's type.
LEMMA StagedType ==
  ASSUME NEW F \in SUBSET Rows, NEW T \in SUBSET TargetRows, NEW now \in 1 .. MaxRuns,
         NEW ignoreDelete \in BOOLEAN, NEW m \in Staged(F, T, now, ignoreDelete)
  PROVE  m.row \in TargetRows
<1> USE TimeAssumption
<1>0. now \in 0 .. MaxRuns /\ 1 \in Nat
  OBVIOUS
<1>1. CASE m \in NewLeg(F, now)
  <2>1. PICK s \in F : m = [row |-> Fresh(s, now, "new", 1), mk |-> s.key]
    BY <1>1 DEF NewLeg
  <2> QED
    BY <2>1, <1>0, FreshType
<1>2. CASE m \in UpdLeg(F, T, now)
  <2>0. PICK s \in F : \E n \in 1 .. Cardinality(Stale(s, T)) :
          m = [row |-> Fresh(s, now, "upd", n), mk |-> Unkeyed]
    BY <1>2 DEF UpdLeg
  <2>1. PICK n \in 1 .. Cardinality(Stale(s, T)) :
          m = [row |-> Fresh(s, now, "upd", n), mk |-> Unkeyed]
    BY <2>0
  <2>2. n \in Nat
    BY SMT
  <2> QED
    BY <2>1, <2>2, <1>0, FreshType
<1>3. CASE m \in DelLeg(F, T, now)
  <2> DEFINE Twins(r) == {x \in Absent(F, T) : x.key = r.key /\ x.val = r.val}
  <2>0. PICK r \in Absent(F, T) : \E n \in 1 .. Cardinality(Twins(r)) :
          m = [row |-> Tombstone(r, now, n), mk |-> r.key]
    BY <1>3 DEF DelLeg
  <2>1. PICK n \in 1 .. Cardinality(Twins(r)) :
          m = [row |-> Tombstone(r, now, n), mk |-> r.key]
    BY <2>0
  <2>2. n \in Nat
    BY SMT
  <2>3. r \in TargetRows
    BY DEF Absent, Current
  <2>4. PartOf(NullTime, now) \in NullTime .. Forever
    BY PartType DEF NullTime, Forever
  <2>5. /\ NullTime \in NullTime .. MaxRuns
        /\ now \in 0 .. Forever
        /\ now \in Nat
    BY DEF NullTime, Forever
  <2> QED
    BY <2>1, <2>2, <2>3, <2>4, <2>5 DEF Tombstone, TargetRows
<1> QED
  BY <1>1, <1>2, <1>3 DEF Staged

LEMMA MergeType ==
  ASSUME NEW F \in SUBSET Rows, NEW T \in SUBSET TargetRows, NEW now \in 1 .. MaxRuns,
         NEW ignoreDelete \in BOOLEAN
  PROVE  MergeInto(T, Staged(F, T, now, ignoreDelete), now) \subseteq TargetRows
<1> DEFINE M == Staged(F, T, now, ignoreDelete)
<1>1. ASSUME NEW r \in T
      PROVE  Closed(r, now) \in TargetRows
  <2>1. now - 1 \in 0 .. Forever /\ now - 1 \in NullTime .. Forever
    BY TimeAssumption DEF NullTime, Forever
  <2>2. MonthOf(now - 1) \in NullTime .. Forever
    BY <2>1, MonthType
  <2> QED
    BY <2>1, <2>2 DEF Closed, TargetRows
<1>2. ASSUME NEW m \in M
      PROVE  Inserted(m) \in TargetRows
  <2>1. Forever \in 0 .. Forever
    BY TimeAssumption DEF Forever
  <2>2. m.row \in TargetRows
    BY StagedType
  <2> QED
    BY <2>1, <2>2 DEF Inserted, TargetRows
<1> QED
  BY <1>1, <1>2 DEF MergeInto

LEMMA PhotoType ==
  ASSUME NEW F \in SUBSET Rows, NEW now \in 0 .. MaxRuns
  PROVE  Photo(F, now) \subseteq TargetRows
  BY FreshType DEF Photo

\* No job commits with an instant it has not taken.
LEMMA TypeInvariant == Spec => []TypeInv
<1> USE TimeAssumption
<1>1. Init => TypeInv
  <2> SUFFICES ASSUME Init PROVE TypeInv
    OBVIOUS
  <2>1. target \subseteq TargetRows
    <3>1. \A F \in Feeds : Photo(F, 0) \subseteq TargetRows
      BY PhotoType DEF Feeds
    <3> QED
      BY <3>1 DEF Init
  <2> QED
    BY <2>1 DEF Init, TypeInv, TypeOK, Stamped, Ended, Verdicts, InFlight
<1>2. TypeInv /\ [Next]_vars => TypeInv'
  <2> SUFFICES ASSUME TypeInv, [Next]_vars
               PROVE  TypeInv'
    OBVIOUS
  <2> USE DEF TypeInv, TypeOK, Stamped, Verdicts, InFlight
  <2>0. CASE UNCHANGED vars
    BY <2>0 DEF vars
  <2>1. CASE \E j \in Jobs : Start(j)
    BY <2>1 DEF Start
  <2>2. CASE \E j \in Jobs : CheckSource(j) \/ RejectSource(j) \/ Abort(j)
    BY <2>2 DEF CheckSource, RejectSource, Abort, Goto, End, Ended
  <2>3. CASE \E j \in Jobs : Inspect(j)
    BY <2>3 DEF Inspect
  <2>4. CASE \E j \in Jobs : WritePhoto(j)
    <3>1. PICK j \in Jobs : WritePhoto(j)
      BY <2>4
    <3>2. job[j].feed \in SUBSET Rows /\ job[j].cts \in 0 .. MaxRuns
      BY <3>1 DEF WritePhoto
    <3>3. target' \subseteq TargetRows
      BY <3>1, <3>2, PhotoType DEF WritePhoto
    <3> QED
      BY <3>1, <3>3 DEF WritePhoto, Goto
  <2>5. CASE \E j \in Jobs : Merge(j)
    <3>1. PICK j \in Jobs : Merge(j)
      BY <2>5
    <3>2. /\ job[j].feed \in SUBSET Rows
          /\ job[j].cts \in 1 .. MaxRuns
          /\ (job[j].type = "scd2_no_delete") \in BOOLEAN
      BY <3>1 DEF Merge
    <3>3. target' \subseteq TargetRows
      BY <3>1, <3>2, MergeType DEF Merge, StagedBy
    <3> QED
      BY <3>1, <3>3 DEF Merge, Goto
  <2>6. CASE \E j \in Jobs : MergeRefused(j)
    BY <2>6 DEF MergeRefused, End, Ended
  <2>7. CASE \E j \in Jobs : RowCount(j) \/ CheckCurrent(j) \/ CheckBounds(j)
    BY <2>7 DEF RowCount, CheckCurrent, CheckBounds, Goto, End, Ended
  <2> QED
    BY <2>0, <2>1, <2>2, <2>3, <2>4, <2>5, <2>6, <2>7 DEF Next, Step
<1> QED
  BY <1>1, <1>2, PTL DEF Spec

\* Every variable keeps its type, for any number of jobs, keys and payloads.
THEOREM TypeCorrect == Spec => []TypeOK
<1>1. TypeInv => TypeOK
  BY DEF TypeInv
<1> QED
  BY <1>1, TypeInvariant, PTL

(***************************************************************************)
(* Uniqueness of the current row of a key, for any number of jobs, when no *)
(* merge_cond is set: of every key without a NULL component, and so of all *)
(* keys when none has one.                                                 *)
(***************************************************************************)
\* The rows MERGE can compare with others.
Keyed(T) == {r \in T : r.key \notin NullKeys}

\* The jobs past the source check hold a feed with one row per key.
CleanFeeds ==
  \A j \in Jobs : job[j].pc \in InFlight \ {"check"} => ~ DuplicateKeys(job[j].feed)

KeyedInv  == ~ DuplicateKeys(Keyed(Current(target))) /\ CleanFeeds
UniqueInv == UniqueCurrent /\ CleanFeeds

LEMMA AllKeyed ==
  ASSUME NullKeys = {}, NEW T
  PROVE  Keyed(T) = T
  BY DEF Keyed

\* With one current row per key, a changed source row has one join partner.
LEMMA OneStale ==
  ASSUME NEW T, ~ DuplicateKeys(Keyed(Current(T))), NEW s, NEW n \in 1 .. Cardinality(Stale(s, T))
  PROVE  n = 1 /\ \E r \in Current(T) : SqlEq(r.key, s.key) /\ CsOf[s.val] # r.cs
<1>1. Stale(s, T) # {}
  <2>1. Cardinality({}) = 0
    BY FS_EmptySet
  <2> QED
    BY <2>1, SMT
<1>2. PICK r \in Stale(s, T) : TRUE
  BY <1>1
<1>3. Stale(s, T) = {r}
  BY <1>2 DEF Stale, SqlEq, DuplicateKeys, Keyed
<1>4. Cardinality(Stale(s, T)) = 1
  BY <1>3, FS_Singleton
<1> QED
  BY <1>2, <1>4 DEF Stale

\* What a staged row is: one of the three legs.
LEMMA Legs ==
  ASSUME NEW F, NEW T, ~ DuplicateKeys(Keyed(Current(T))), NEW now, NEW ignoreDelete \in BOOLEAN,
         NEW m \in Staged(F, T, now, ignoreDelete)
  PROVE  \/ \E s \in F : m = [row |-> Fresh(s, now, "new", 1), mk |-> s.key]
         \/ \E s \in F :
              /\ m = [row |-> Fresh(s, now, "upd", 1), mk |-> Unkeyed]
              /\ \E r \in Current(T) : SqlEq(r.key, s.key) /\ CsOf[s.val] # r.cs
         \/ \E r \in Absent(F, T), n \in Nat :
              m = [row |-> Tombstone(r, now, n), mk |-> r.key] /\ ~ ignoreDelete
<1>1. CASE m \in NewLeg(F, now)
  BY <1>1 DEF NewLeg
<1>2. CASE m \in UpdLeg(F, T, now)
  <2>1. PICK s \in F : \E n \in 1 .. Cardinality(Stale(s, T)) :
          m = [row |-> Fresh(s, now, "upd", n), mk |-> Unkeyed]
    BY <1>2 DEF UpdLeg
  <2>2. PICK n \in 1 .. Cardinality(Stale(s, T)) :
          m = [row |-> Fresh(s, now, "upd", n), mk |-> Unkeyed]
    BY <2>1
  <2> QED
    BY <2>2, OneStale
<1>3. CASE m \in DelLeg(F, T, now) /\ ~ ignoreDelete
  <2> DEFINE Twins(r) == {x \in Absent(F, T) : x.key = r.key /\ x.val = r.val}
  <2>1. PICK r \in Absent(F, T) : \E n \in 1 .. Cardinality(Twins(r)) :
          m = [row |-> Tombstone(r, now, n), mk |-> r.key]
    BY <1>3 DEF DelLeg
  <2>2. PICK n \in 1 .. Cardinality(Twins(r)) :
          m = [row |-> Tombstone(r, now, n), mk |-> r.key]
    BY <2>1
  <2>3. n \in Nat
    BY SMT
  <2> QED
    BY <1>3, <2>2, <2>3
<1> QED
  BY <1>1, <1>2, <1>3 DEF Staged

LEMMA InsertedKey ==
  ASSUME NEW F, NEW T \in SUBSET TargetRows, ~ DuplicateKeys(Keyed(Current(T))), NEW now,
         NEW ignoreDelete \in BOOLEAN, NEW m \in Staged(F, T, now, ignoreDelete)
  PROVE  Inserted(m).key = m.row.key
<1>1. \A s, leg, mk :
        Inserted([row |-> Fresh(s, now, leg, 1), mk |-> mk]).key = Fresh(s, now, leg, 1).key
  BY DEF Inserted, Fresh
<1>2. \A r \in T : \A n, mk :
        Inserted([row |-> Tombstone(r, now, n), mk |-> mk]).key = Tombstone(r, now, n).key
  BY DEF Inserted, Tombstone, TargetRows
<1>3. \A r \in Absent(F, T) : r \in T
  BY DEF Absent, Current
<1> QED
  BY <1>1, <1>2, <1>3, Legs

\* What MERGE inserts of the keys that compare when every row is in scope: the rows of
\* new keys and of changed keys, never a tombstone.
LEMMA InsertsKeyed ==
  ASSUME Scope = Vals,
         NEW F \in SUBSET Rows, NEW T \in SUBSET TargetRows, ~ DuplicateKeys(Keyed(Current(T))),
         NEW now, NEW ignoreDelete \in BOOLEAN,
         NEW m \in Staged(F, T, now, ignoreDelete), \A r \in T : ~ Matched(r, m),
         m.row.key \notin NullKeys
  PROVE  \E s \in F :
           \/ m.row = Fresh(s, now, "new", 1) /\ \A r \in Current(T) : r.key # s.key
           \/ /\ m.row = Fresh(s, now, "upd", 1)
              /\ \E r \in Current(T) : r.key = s.key /\ CsOf[s.val] # r.cs
<1>0. \A r \in Current(T) : r \in T /\ r.cur = 1 /\ r.val \in Scope
  BY DEF Current, TargetRows
<1>1. CASE \E s \in F : m = [row |-> Fresh(s, now, "new", 1), mk |-> s.key]
  <2>1. PICK s \in F : m = [row |-> Fresh(s, now, "new", 1), mk |-> s.key]
    BY <1>1
  <2>2. s.key \notin NullKeys
    BY <2>1 DEF Fresh
  <2>3. \A r \in Current(T) : r.key # s.key
    BY <1>0, <2>1, <2>2 DEF Matched, SqlEq
  <2> QED
    BY <2>1, <2>3
<1>2. CASE \E s \in F :
             /\ m = [row |-> Fresh(s, now, "upd", 1), mk |-> Unkeyed]
             /\ \E r \in Current(T) : SqlEq(r.key, s.key) /\ CsOf[s.val] # r.cs
  BY <1>2 DEF SqlEq
<1>3. CASE \E r \in Absent(F, T), n \in Nat : m = [row |-> Tombstone(r, now, n), mk |-> r.key]
  <2>1. PICK r \in Absent(F, T), n \in Nat : m = [row |-> Tombstone(r, now, n), mk |-> r.key]
    BY <1>3
  <2>2. r \in Current(T) /\ r \in T
    BY DEF Absent, Current
  <2>3. r.key \notin NullKeys
    BY <2>1, <2>2 DEF Tombstone, TargetRows
  <2> QED
    BY <1>0, <2>1, <2>2, <2>3 DEF Matched, SqlEq
<1> QED
  BY <1>1, <1>2, <1>3, Legs

\* So it is of all keys when none has a NULL.
LEMMA Inserts ==
  ASSUME NullKeys = {}, Scope = Vals,
         NEW F \in SUBSET Rows, NEW T \in SUBSET TargetRows, ~ DuplicateKeys(Current(T)),
         NEW now, NEW ignoreDelete \in BOOLEAN,
         NEW m \in Staged(F, T, now, ignoreDelete), \A r \in T : ~ Matched(r, m)
  PROVE  \E s \in F :
           \/ m.row = Fresh(s, now, "new", 1) /\ \A r \in Current(T) : r.key # s.key
           \/ /\ m.row = Fresh(s, now, "upd", 1)
              /\ \E r \in Current(T) : r.key = s.key /\ CsOf[s.val] # r.cs
<1>1. m.row.key \notin NullKeys /\ ~ DuplicateKeys(Keyed(Current(T)))
  BY AllKeyed
<1> QED
  BY <1>1, InsertsKeyed

\* A current row whose checksum the source changes is ended.
LEMMA ChangedIsClosed ==
  ASSUME Scope = Vals,
         NEW F, NEW T \in SUBSET TargetRows, NEW now, NEW ignoreDelete,
         NEW r \in Current(T), NEW s \in F, r.key = s.key, CsOf[s.val] # r.cs,
         r.key \notin NullKeys
  PROVE  \E m \in Staged(F, T, now, ignoreDelete) : Closes(r, m)
<1> DEFINE m == [row |-> Fresh(s, now, "new", 1), mk |-> s.key]
<1>1. m \in Staged(F, T, now, ignoreDelete)
  BY DEF Staged, NewLeg
<1>2. r.cur = 1 /\ r.val \in Scope
  BY DEF Current, TargetRows
<1>3. Closes(r, m)
  BY <1>2 DEF Closes, Matched, SqlEq, Fresh
<1> QED
  BY <1>1, <1>3

\* The current rows of a merged table: those kept and those inserted.
LEMMA CurrentOfMerge ==
  ASSUME NEW F, NEW T, NEW now, NEW ignoreDelete,
         NEW q \in Current(MergeInto(T, Staged(F, T, now, ignoreDelete), now))
  PROVE  \/ /\ q \in Current(T)
            /\ ~ \E m \in Staged(F, T, now, ignoreDelete) : Closes(q, m)
         \/ \E m \in Staged(F, T, now, ignoreDelete) :
              q = Inserted(m) /\ \A r \in T : ~ Matched(r, m)
<1> DEFINE M == Staged(F, T, now, ignoreDelete)
<1> HIDE DEF M
<1>1. q \in MergeInto(T, M, now) /\ q.cur = 1
  BY DEF Current, M
<1>2. CASE \E r \in T : q = IF \E m \in M : Closes(r, m) THEN Closed(r, now) ELSE r
  <2>1. PICK r \in T : q = IF \E m \in M : Closes(r, m) THEN Closed(r, now) ELSE r
    BY <1>2
  <2>2. ASSUME \E m \in M : Closes(r, m) PROVE FALSE
    <3>1. r.cur = 1 /\ q = Closed(r, now)
      BY <2>1, <2>2 DEF Closes, Matched
    <3> QED
      BY <1>1, <3>1 DEF Closed
  <2> QED
    BY <1>1, <2>1, <2>2 DEF M, Current
<1>3. CASE \E m \in M : q = Inserted(m) /\ \A r \in T : ~ Matched(r, m)
  BY <1>3 DEF M
<1> QED
  BY <1>1, <1>2, <1>3 DEF MergeInto

LEMMA MergeUniqueKeyed ==
  ASSUME Scope = Vals,
         NEW F \in SUBSET Rows, NEW T \in SUBSET TargetRows, NEW now,
         NEW ignoreDelete \in BOOLEAN,
         ~ DuplicateKeys(F), ~ DuplicateKeys(Keyed(Current(T)))
  PROVE  ~ DuplicateKeys(Keyed(Current(MergeInto(T, Staged(F, T, now, ignoreDelete), now))))
<1> DEFINE M == Staged(F, T, now, ignoreDelete)
           Q == Keyed(Current(MergeInto(T, M, now)))
           Kept(q) == q \in Current(T) /\ ~ \E m \in M : Closes(q, m)
           New(q, s) == /\ q = [Fresh(s, now, "new", 1) EXCEPT !.end = Forever]
                        /\ \A r \in Current(T) : r.key # s.key
           Upd(q, s) == /\ q = [Fresh(s, now, "upd", 1) EXCEPT !.end = Forever]
                        /\ \E r \in Current(T) : r.key = s.key /\ CsOf[s.val] # r.cs
<1>1. ASSUME NEW q \in Q
      PROVE  Kept(q) \/ \E s \in F : New(q, s) \/ Upd(q, s)
  <2> SUFFICES ASSUME NEW m \in M, q = Inserted(m), \A r \in T : ~ Matched(r, m)
               PROVE  \E s \in F : New(q, s) \/ Upd(q, s)
    BY CurrentOfMerge DEF Keyed
  <2>1. PICK s \in F :
          \/ m.row = Fresh(s, now, "new", 1) /\ \A r \in Current(T) : r.key # s.key
          \/ /\ m.row = Fresh(s, now, "upd", 1)
             /\ \E r \in Current(T) : r.key = s.key /\ CsOf[s.val] # r.cs
    <3>1. m.row.key \notin NullKeys
      BY InsertedKey DEF Keyed
    <3> QED
      BY <3>1, InsertsKeyed
  <2> QED
    BY <2>1, Zenon DEF Inserted
<1>2. \A q, s : New(q, s) \/ Upd(q, s) => q.key = s.key
  BY DEF Fresh
<1>3. ASSUME NEW q \in Q, NEW p \in Q, q.key = p.key
      PROVE  q = p
  <2>1. CASE Kept(q) /\ Kept(p)
    BY <1>3, <2>1 DEF DuplicateKeys, Keyed
  <2>2. ASSUME NEW x \in Q, Kept(x), NEW y, NEW s \in F, New(y, s) \/ Upd(y, s), x.key = y.key
        PROVE  FALSE
    <3>1. x \in Current(T) /\ x.key = s.key /\ x.key \notin NullKeys
      BY <1>2, <2>2 DEF Keyed
    <3>2. CASE New(y, s)
      BY <3>1, <3>2
    <3>3. CASE Upd(y, s)
      <4>1. PICK r \in Current(T) : r.key = s.key /\ CsOf[s.val] # r.cs
        BY <3>3
      <4>2. r = x
        BY <3>1, <4>1 DEF DuplicateKeys, Keyed
      <4> QED
        BY <3>1, <4>1, <4>2, <2>2, ChangedIsClosed
    <3> QED
      BY <2>2, <3>2, <3>3
  <2>3. CASE /\ \E s \in F : New(q, s) \/ Upd(q, s)
             /\ \E s \in F : New(p, s) \/ Upd(p, s)
    <3>1. PICK s \in F : New(q, s) \/ Upd(q, s)
      BY <2>3
    <3>2. PICK t \in F : New(p, t) \/ Upd(p, t)
      BY <2>3
    <3>3. s = t
      <4>1. q.key = s.key /\ p.key = t.key
        BY <1>2, <3>1, <3>2
      <4> QED
        BY <1>3, <4>1 DEF DuplicateKeys
    <3>4. ~ (New(q, s) /\ Upd(p, s)) /\ ~ (Upd(q, s) /\ New(p, s))
      OBVIOUS
    <3>5. New(q, s) /\ New(p, s) => q = p
      OBVIOUS
    <3>6. Upd(q, s) /\ Upd(p, s) => q = p
      OBVIOUS
    <3> QED
      BY <3>1, <3>2, <3>3, <3>4, <3>5, <3>6
  <2> QED
    BY <1>1, <1>3, <2>1, <2>2, <2>3
<1> QED
  BY <1>3 DEF DuplicateKeys

LEMMA MergeUnique ==
  ASSUME NullKeys = {}, Scope = Vals,
         NEW F \in SUBSET Rows, NEW T \in SUBSET TargetRows, NEW now,
         NEW ignoreDelete \in BOOLEAN,
         ~ DuplicateKeys(F), ~ DuplicateKeys(Current(T))
  PROVE  ~ DuplicateKeys(Current(MergeInto(T, Staged(F, T, now, ignoreDelete), now)))
<1> DEFINE U == MergeInto(T, Staged(F, T, now, ignoreDelete), now)
<1>1. ~ DuplicateKeys(Keyed(Current(T)))
  BY AllKeyed
<1>2. ~ DuplicateKeys(Keyed(Current(U)))
  BY <1>1, MergeUniqueKeyed
<1> HIDE DEF U
<1>3. ~ DuplicateKeys(Current(U))
  BY <1>2, AllKeyed
<1> QED
  BY <1>3 DEF U

LEMMA PhotoUnique ==
  ASSUME NEW F, NEW now, ~ DuplicateKeys(F)
  PROVE  ~ DuplicateKeys(Photo(F, now))
<1>1. \A s : Fresh(s, now, "new", 1).key = s.key
  BY DEF Fresh
<1> QED
  BY <1>1 DEF Photo, DuplicateKeys

LEMMA KeyedInvariant ==
  ASSUME Scope = Vals
  PROVE  Spec => []KeyedInv
<1>1. Init => KeyedInv
  <2> SUFFICES ASSUME Init PROVE KeyedInv
    OBVIOUS
  <2>1. ~ DuplicateKeys(target)
    BY PhotoUnique DEF Init, Feeds, DuplicateKeys
  <2> QED
    BY <2>1 DEF Init, KeyedInv, CleanFeeds, Keyed, Current, DuplicateKeys,
               InFlight, Ended
<1>2. TypeOK /\ KeyedInv /\ [Next]_vars => KeyedInv'
  <2> SUFFICES ASSUME TypeOK, KeyedInv, [Next]_vars
               PROVE  KeyedInv'
    OBVIOUS
  <2> DEFINE OneKeyed == ~ DuplicateKeys(Keyed(Current(target)))
  <2> USE DEF KeyedInv, CleanFeeds, InFlight
  <2>0. CASE UNCHANGED vars
    BY <2>0 DEF vars, Current, Keyed
  <2>1. CASE \E j \in Jobs : Start(j)
    BY <2>1 DEF Start, TypeOK, Current, Keyed
  <2>2. CASE \E j \in Jobs : CheckSource(j) \/ RejectSource(j) \/ Abort(j)
    <3>1. OneKeyed'
      BY <2>2 DEF CheckSource, RejectSource, Abort, Current, Keyed
    <3>2. ASSUME NEW j \in Jobs, CheckSource(j) PROVE CleanFeeds'
      BY <3>2 DEF CheckSource, Goto, TypeOK
    <3>3. ASSUME NEW j \in Jobs, RejectSource(j) \/ Abort(j) PROVE CleanFeeds'
      BY <3>3 DEF RejectSource, Abort, End, Ended, TypeOK
    <3> QED
      BY <2>2, <3>1, <3>2, <3>3
  <2>3. CASE \E j \in Jobs : Inspect(j)
    BY <2>3 DEF Inspect, TypeOK, Current, Keyed
  <2>4. CASE \E j \in Jobs : WritePhoto(j)
    <3>1. PICK j \in Jobs : WritePhoto(j)
      BY <2>4
    <3>2. ~ DuplicateKeys(Photo(job[j].feed, job[j].cts))
      BY <3>1, PhotoUnique DEF WritePhoto
    <3>3. OneKeyed'
      BY <3>1, <3>2 DEF WritePhoto, Current, Keyed, DuplicateKeys
    <3> QED
      BY <3>1, <3>3 DEF WritePhoto, Goto, TypeOK
  <2>5. CASE \E j \in Jobs : Merge(j)
    <3>1. PICK j \in Jobs : Merge(j)
      BY <2>5
    <3>2. /\ job[j].feed \in SUBSET Rows
          /\ target \in SUBSET TargetRows
          /\ (job[j].type = "scd2_no_delete") \in BOOLEAN
          /\ ~ DuplicateKeys(job[j].feed)
      BY <3>1 DEF Merge, TypeOK
    <3>3. OneKeyed'
      BY <3>1, <3>2, MergeUniqueKeyed DEF Merge, StagedBy
    <3> QED
      BY <3>1, <3>3 DEF Merge, Goto, TypeOK
  <2>6. CASE \E j \in Jobs : MergeRefused(j)
    BY <2>6 DEF MergeRefused, End, Ended, TypeOK, Current, Keyed
  <2>7. CASE \E j \in Jobs : RowCount(j) \/ CheckCurrent(j) \/ CheckBounds(j)
    <3>1. OneKeyed'
      BY <2>7 DEF RowCount, CheckCurrent, CheckBounds, Current, Keyed
    <3>2. ASSUME NEW j \in Jobs, RowCount(j) PROVE CleanFeeds'
      BY <3>2 DEF RowCount, Goto, End, Ended, TypeOK
    <3>3. ASSUME NEW j \in Jobs, CheckCurrent(j) PROVE CleanFeeds'
      BY <3>3 DEF CheckCurrent, Goto, End, Ended, TypeOK
    <3>4. ASSUME NEW j \in Jobs, CheckBounds(j) PROVE CleanFeeds'
      BY <3>4 DEF CheckBounds, End, Ended, TypeOK
    <3> QED
      BY <2>7, <3>1, <3>2, <3>3, <3>4
  <2> QED
    BY <2>0, <2>1, <2>2, <2>3, <2>4, <2>5, <2>6, <2>7 DEF Next, Step
<1> QED
  BY <1>1, <1>2, TypeCorrect, PTL DEF Spec

LEMMA UniqueInvariant ==
  ASSUME NullKeys = {}, Scope = Vals
  PROVE  Spec => []UniqueInv
<1>1. KeyedInv => UniqueInv
  BY AllKeyed DEF KeyedInv, UniqueInv, UniqueCurrent
<1>2. Spec => []KeyedInv
  BY KeyedInvariant
<1> QED
  BY <1>1, <1>2, PTL

\* No interleaving of any number of jobs gives a key two current rows.
THEOREM UniqueCurrentAlways ==
  ASSUME NullKeys = {}, Scope = Vals
  PROVE  Spec => []UniqueCurrent
<1>1. UniqueInv => UniqueCurrent
  BY DEF UniqueInv
<1> QED
  BY <1>1, UniqueInvariant, PTL

(***************************************************************************)
(* MERGE and the rows it finds.                                            *)
(***************************************************************************)
\* MERGE keeps each row or ends it, with its identity, payload and start.
LEMMA MergeKeepsRows ==
  ASSUME NEW T \in SUBSET TargetRows, NEW M, NEW now, NEW r \in T
  PROVE  \/ r \in MergeInto(T, M, now)
         \/ /\ r.cur = 1
            /\ \E q \in MergeInto(T, M, now) :
                 q.cur = 0 /\ q.id = r.id /\ q.key = r.key /\ q.val = r.val
                   /\ q.start = r.start
<1>1. CASE \E m \in M : Closes(r, m)
  <2>1. Closed(r, now) \in MergeInto(T, M, now)
    BY <1>1 DEF MergeInto
  <2>2. r.cur = 1
    BY <1>1 DEF Closes, Matched
  <2>3. /\ Closed(r, now).cur = 0 /\ Closed(r, now).id = r.id /\ Closed(r, now).key = r.key
        /\ Closed(r, now).val = r.val /\ Closed(r, now).start = r.start
    BY DEF Closed, TargetRows
  <2> QED
    BY <2>1, <2>2, <2>3
<1>2. CASE ~ \E m \in M : Closes(r, m)
  BY <1>2 DEF MergeInto
<1> QED
  BY <1>1, <1>2

(***************************************************************************)
(* (ids, end_dt) is a key of the table.  The instants of the calls that    *)
(* have yet to commit are distinct, and no version on file ends where one  *)
(* of them would end the versions it replaces.                             *)
(***************************************************************************)
Pending(j) == job[j].pc \in {"photo", "merge"}

EndsIn(T) ==
  /\ \A r \in T : r.cur = 1 => r.end = Forever
  /\ \A r \in T : r.cur # 1 => r.end + 1 < clock
PendingIn(T) ==
  /\ \A i, j \in Jobs : Pending(i) /\ Pending(j) /\ i # j => job[i].cts # job[j].cts
  /\ \A j \in Jobs : Pending(j) => \A r \in T : r.cur # 1 => r.end # job[j].cts - 1

EndsOK    == EndsIn(target)
PendingOK == PendingIn(target)

BoundsInv == UniqueBounds /\ EndsOK /\ PendingOK

\* The same of the rows whose keys compare.
KeyedBoundsInv ==
  /\ ~ DuplicateBounds(Keyed(target))
  /\ EndsIn(Keyed(target))
  /\ PendingIn(Keyed(target))

\* The rows of a merged table that are not current: those that were not, and
\* the current rows it ends.
LEMMA PastOfMerge ==
  ASSUME Scope = Vals,
         NEW F \in SUBSET Rows, NEW T \in SUBSET TargetRows, ~ DuplicateKeys(Keyed(Current(T))),
         NEW now, NEW ignoreDelete \in BOOLEAN,
         NEW q \in MergeInto(T, Staged(F, T, now, ignoreDelete), now), q.cur # 1,
         q.key \notin NullKeys
  PROVE  q \in T \/ \E r \in Current(T) : q = Closed(r, now)
<1> DEFINE M == Staged(F, T, now, ignoreDelete)
<1>1. ASSUME NEW m \in M, q = Inserted(m), \A r \in T : ~ Matched(r, m)
      PROVE  FALSE
  <2>1. \E s \in F :
         \/ m.row = Fresh(s, now, "new", 1) /\ \A r \in Current(T) : r.key # s.key
         \/ /\ m.row = Fresh(s, now, "upd", 1)
            /\ \E r \in Current(T) : r.key = s.key /\ CsOf[s.val] # r.cs
    <3>1. m.row.key \notin NullKeys
      BY <1>1, InsertedKey
    <3> QED
      BY <1>1, <3>1, InsertsKeyed
  <2> QED
    BY <1>1, <2>1 DEF Inserted, Fresh
<1>2. ASSUME NEW r \in T, NEW m \in M, Closes(r, m)
      PROVE  r \in Current(T)
  BY <1>2 DEF Closes, Matched, Current
<1> QED
  BY <1>1, <1>2 DEF MergeInto

LEMMA MergeBounds ==
  ASSUME Scope = Vals,
         NEW F \in SUBSET Rows, NEW T \in SUBSET TargetRows, NEW now \in 1 .. MaxRuns,
         NEW ignoreDelete \in BOOLEAN,
         ~ DuplicateKeys(F), ~ DuplicateKeys(Keyed(Current(T))), ~ DuplicateBounds(Keyed(T)),
         \A r \in Keyed(T) : r.cur = 1 => r.end = Forever,
         \A r \in Keyed(T) : r.cur # 1 => r.end < Forever /\ r.end # now - 1,
         NEW U, U = Keyed(MergeInto(T, Staged(F, T, now, ignoreDelete), now))
  PROVE  /\ \A q \in U : q.cur = 1 => q.end = Forever
         /\ \A q \in U : q.cur # 1 => q \in Keyed(T) \/ q.end = now - 1
         /\ ~ DuplicateBounds(U)
<1> DEFINE M == Staged(F, T, now, ignoreDelete)
           V == MergeInto(T, M, now)
<1>0. Keyed(Current(V)) = Current(U) /\ \A q \in U : q \in V /\ q.key \notin NullKeys
  BY DEF Keyed, Current
<1>1. ASSUME NEW q \in U, q.cur = 1
      PROVE  q.end = Forever
  <2>1. q \in Current(V)
    BY <1>0, <1>1 DEF Current
  <2>2. CASE q \in Current(T)
    BY <1>0, <2>2 DEF Current, Keyed
  <2>3. CASE \E m \in M : q = Inserted(m) /\ \A r \in T : ~ Matched(r, m)
    <3>1. PICK m \in M : q = Inserted(m) /\ \A r \in T : ~ Matched(r, m)
      BY <2>3
    <3>2. \E s \in F :
           \/ m.row = Fresh(s, now, "new", 1) /\ \A r \in Current(T) : r.key # s.key
           \/ /\ m.row = Fresh(s, now, "upd", 1)
              /\ \E r \in Current(T) : r.key = s.key /\ CsOf[s.val] # r.cs
      <4>1. m.row.key \notin NullKeys
        BY <1>0, <3>1, InsertedKey
      <4> QED
        BY <3>1, <4>1, InsertsKeyed
    <3> QED
      BY <3>1, <3>2 DEF Inserted, Fresh
  <2> QED
    BY <2>1, <2>2, <2>3, CurrentOfMerge
<1>2. ASSUME NEW r \in Current(T)
      PROVE  /\ r \in T /\ Closed(r, now).end = now - 1 /\ Closed(r, now).key = r.key
  BY DEF Closed, Current, TargetRows
<1>3. ASSUME NEW q \in U, q.cur # 1
      PROVE  \/ q \in Keyed(T)
             \/ \E r \in Keyed(Current(T)) :
                  q = Closed(r, now) /\ q.end = now - 1 /\ q.key = r.key
  <2>1. q \in T \/ \E r \in Current(T) : q = Closed(r, now)
    BY <1>0, <1>3, PastOfMerge
  <2> QED
    BY <1>0, <1>2, <2>1 DEF Keyed
<1>4. ASSUME NEW q \in U, q.cur # 1
      PROVE  q.end < Forever
  <2>1. now - 1 < Forever
    BY TimeAssumption DEF Forever
  <2> QED
    BY <1>3, <1>4, <2>1
<1>5. ASSUME NEW q \in U, NEW p \in U, q.key = p.key, q.end = p.end
      PROVE  q = p
  <2>1. CASE q.cur = 1 /\ p.cur = 1
    <3>1. q \in Current(U) /\ p \in Current(U)
      BY <2>1 DEF Current
    <3>2. ~ DuplicateKeys(Current(U))
      BY <1>0, MergeUniqueKeyed
    <3> QED
      BY <1>5, <3>1, <3>2 DEF DuplicateKeys
  <2>2. CASE q.cur = 1 /\ p.cur # 1
    BY <1>1, <1>4, <1>5, <2>2, TimeAssumption DEF Forever
  <2>3. CASE q.cur # 1 /\ p.cur = 1
    BY <1>1, <1>4, <1>5, <2>3, TimeAssumption DEF Forever
  <2>4. CASE q.cur # 1 /\ p.cur # 1
    <3>1. CASE q \in Keyed(T) /\ p \in Keyed(T)
      BY <1>5, <3>1 DEF DuplicateBounds
    <3>2. ASSUME NEW x \in Keyed(T), x.cur # 1, x.end = now - 1
          PROVE  FALSE
      BY <3>2
    <3>3. CASE /\ \E r \in Keyed(Current(T)) : q = Closed(r, now) /\ q.key = r.key
               /\ \E r \in Keyed(Current(T)) : p = Closed(r, now) /\ p.key = r.key
      BY <1>5, <3>3 DEF DuplicateKeys
    <3> QED
      BY <1>3, <1>5, <2>4, <3>1, <3>2, <3>3
  <2> QED
    BY <2>1, <2>2, <2>3, <2>4
<1> QED
  BY <1>1, <1>3, <1>5 DEF DuplicateBounds

LEMMA KeyedBoundsInvariant ==
  ASSUME Scope = Vals
  PROVE  Spec => []KeyedBoundsInv
<1> USE TimeAssumption
<1>1. Init => KeyedBoundsInv
  <2> SUFFICES ASSUME Init PROVE KeyedBoundsInv
    OBVIOUS
  <2>1. \A r \in target : r.cur = 1 /\ r.end = Forever
    BY DEF Init, Photo, Fresh
  <2>2. ~ DuplicateKeys(target)
    BY PhotoUnique DEF Init, Feeds, DuplicateKeys
  <2>3. \A j \in Jobs : ~ Pending(j)
    BY DEF Init, Pending, Ended
  <2> QED
    BY <2>1, <2>2, <2>3
       DEF KeyedBoundsInv, EndsIn, PendingIn, Keyed, DuplicateKeys, DuplicateBounds
<1>2. TypeInv /\ KeyedInv /\ KeyedBoundsInv /\ [Next]_vars => KeyedBoundsInv'
  <2> SUFFICES ASSUME TypeInv, KeyedInv, KeyedBoundsInv, [Next]_vars
               PROVE  KeyedBoundsInv'
    OBVIOUS
  <2> USE DEF KeyedBoundsInv
  <2>0. CASE UNCHANGED vars
    BY <2>0 DEF vars, EndsIn, PendingIn, Keyed, Pending
  <2>1. ASSUME NEW j \in Jobs, Inspect(j)
        PROVE  KeyedBoundsInv'
    <3>1. /\ target' = target
          /\ clock' = clock + 1
          /\ clock \in 1 .. MaxRuns
          /\ job'[j].cts = clock
          /\ \A i \in Jobs \ {j} : job'[i] = job[i]
      BY <2>1 DEF Inspect, TypeInv, TypeOK
    <3>2. EndsIn(Keyed(target))'
      <4>1. \A r \in target : r.end \in Int
        BY DEF TypeInv, TypeOK, TargetRows
      <4> QED
        BY <3>1, <4>1 DEF EndsIn, Keyed
    <3>3. \A i \in Jobs \ {j} : Pending(i)' => Pending(i) /\ job[i].cts \in 1 .. clock - 1
      BY <3>1 DEF Pending, TypeInv, Stamped
    <3>4. \A r \in Keyed(target) : r.cur # 1 => r.end # clock - 1
      <4>1. \A r \in target : r.end \in Int
        BY DEF TypeInv, TypeOK, TargetRows
      <4> QED
        BY <3>1, <4>1 DEF EndsIn, Keyed
    <3>5. PendingIn(Keyed(target))'
      BY <3>1, <3>3, <3>4 DEF PendingIn, Keyed
    <3> QED
      BY <3>1, <3>2, <3>5
  <2>2. ASSUME NEW j \in Jobs, WritePhoto(j)
        PROVE  KeyedBoundsInv'
    <3>1. /\ target' = Photo(job[j].feed, job[j].cts)
          /\ ~ DuplicateKeys(job[j].feed)
      BY <2>2 DEF WritePhoto, KeyedInv, CleanFeeds, InFlight
    <3>2. \A r \in target' : r.cur = 1 /\ r.end = Forever
      BY <3>1 DEF Photo, Fresh
    <3>3. ~ DuplicateKeys(target')
      BY <3>1, PhotoUnique
    <3>4. \A i \in Jobs : Pending(i)' => Pending(i) /\ job'[i].cts = job[i].cts
      BY <2>2 DEF WritePhoto, Goto, Pending, TypeInv, TypeOK
    <3> QED
      BY <3>2, <3>3, <3>4 DEF EndsIn, PendingIn, Keyed, DuplicateKeys, DuplicateBounds
  <2>3. ASSUME NEW j \in Jobs, Merge(j)
        PROVE  KeyedBoundsInv'
    <3> DEFINE now == job[j].cts
    <3>1. /\ target' = MergeInto(target, StagedBy(j), now)
          /\ clock' = clock
          /\ job[j].feed \in SUBSET Rows
          /\ target \in SUBSET TargetRows
          /\ (job[j].type = "scd2_no_delete") \in BOOLEAN
          /\ now \in 1 .. MaxRuns /\ now \in 1 .. clock - 1
          /\ clock \in 1 .. MaxRuns + 1
          /\ ~ DuplicateKeys(job[j].feed)
          /\ ~ DuplicateKeys(Keyed(Current(target)))
          /\ Pending(j)
      BY <2>3 DEF Merge, TypeInv, TypeOK, Stamped, KeyedInv, CleanFeeds,
                  InFlight, Pending
    <3>2. \A r \in target : r.end \in Int
      BY <3>1 DEF TargetRows
    <3>3. /\ \A r \in Keyed(target) : r.cur = 1 => r.end = Forever
          /\ \A r \in Keyed(target) : r.cur # 1 => r.end < Forever /\ r.end # now - 1
      BY <3>1, <3>2 DEF EndsIn, PendingIn, Keyed, Forever
    <3>4. /\ \A q \in Keyed(target') : q.cur = 1 => q.end = Forever
          /\ \A q \in Keyed(target') : q.cur # 1 => q \in Keyed(target) \/ q.end = now - 1
          /\ ~ DuplicateBounds(Keyed(target'))
      <4> DEFINE ignoreDelete == job[j].type = "scd2_no_delete"
      <4>1. ~ DuplicateBounds(Keyed(target))
        OBVIOUS
      <4>2. target' = MergeInto(target, Staged(job[j].feed, target, now, ignoreDelete), now)
        BY <3>1 DEF StagedBy
      <4>3. ignoreDelete \in BOOLEAN
        OBVIOUS
      <4> HIDE DEF now, ignoreDelete
      <4> QED
        BY <3>1, <3>3, <4>1, <4>2, <4>3, MergeBounds
    <3>5. \A i \in Jobs : Pending(i)' => Pending(i) /\ job'[i].cts = job[i].cts /\ i # j
      BY <2>3 DEF Merge, Goto, Pending, TypeInv, TypeOK
    <3>6. \A i \in Jobs : Pending(i) => job[i].cts \in Int
      BY DEF TypeInv, TypeOK
    <3>7. EndsIn(Keyed(target))'
      BY <3>1, <3>4 DEF EndsIn
    <3>8. PendingIn(Keyed(target))'
      BY <3>1, <3>4, <3>5, <3>6 DEF PendingIn
    <3> QED
      BY <3>4, <3>7, <3>8
  <2>4. ASSUME NEW j \in Jobs,
               \/ Start(j) \/ CheckSource(j) \/ RejectSource(j) \/ MergeRefused(j)
               \/ RowCount(j) \/ CheckCurrent(j) \/ CheckBounds(j) \/ Abort(j)
        PROVE  KeyedBoundsInv'
    <3>1. target' = target /\ clock' = clock
      BY <2>4 DEF Start, CheckSource, RejectSource, MergeRefused, RowCount, CheckCurrent,
                  CheckBounds, Abort
    <3>2. \A i \in Jobs : Pending(i)' => job'[i] = job[i]
      <4>1. CASE Start(j)
        BY <4>1 DEF Start, Pending, TypeInv, TypeOK
      <4>2. CASE CheckSource(j)
        BY <4>2 DEF CheckSource, Goto, Pending, TypeInv, TypeOK
      <4>3. CASE RowCount(j) \/ CheckCurrent(j)
        BY <4>3 DEF RowCount, CheckCurrent, Goto, End, Ended, Pending, TypeInv, TypeOK
      <4>4. CASE RejectSource(j) \/ MergeRefused(j) \/ CheckBounds(j) \/ Abort(j)
        BY <4>4 DEF RejectSource, MergeRefused, CheckBounds, Abort, End, Ended, Pending,
                    TypeInv, TypeOK
      <4> QED
        BY <2>4, <4>1, <4>2, <4>3, <4>4
    <3> QED
      BY <3>1, <3>2 DEF EndsIn, PendingIn, Keyed, Pending
  <2> QED
    BY <2>0, <2>1, <2>2, <2>3, <2>4 DEF Next, Step
<1> QED
  BY <1>1, <1>2, TypeInvariant, KeyedInvariant, PTL DEF Spec

LEMMA BoundsInvariant ==
  ASSUME NullKeys = {}, Scope = Vals
  PROVE  Spec => []BoundsInv
<1>1. KeyedBoundsInv => BoundsInv
  BY AllKeyed DEF KeyedBoundsInv, BoundsInv, UniqueBounds, EndsOK, PendingOK, PendingIn
<1>2. Spec => []KeyedBoundsInv
  BY KeyedBoundsInvariant
<1> QED
  BY <1>1, <1>2, PTL

\* No interleaving of any number of jobs gives a key two rows with one end,
\* whatever the order in which their instants are committed.
THEOREM UniqueBoundsAlways ==
  ASSUME NullKeys = {}, Scope = Vals
  PROVE  Spec => []UniqueBounds
<1>1. BoundsInv => UniqueBounds
  BY DEF BoundsInv
<1> QED
  BY <1>1, BoundsInvariant, PTL

\* With NULLs in some keys, the others keep one current row and distinct ends: what
\* MERGE cannot compare does not spoil what it can.
THEOREM ComparableAlwaysUnique ==
  ASSUME Scope = Vals
  PROVE  Spec => [](~ DuplicateKeys(Keyed(Current(target))) /\ ~ DuplicateBounds(Keyed(target)))
<1>1. KeyedInv /\ KeyedBoundsInv
        => ~ DuplicateKeys(Keyed(Current(target))) /\ ~ DuplicateBounds(Keyed(target))
  BY DEF KeyedInv, KeyedBoundsInv
<1>2. Spec => []KeyedInv
  BY KeyedInvariant
<1>3. Spec => []KeyedBoundsInv
  BY KeyedBoundsInvariant
<1> QED
  BY <1>1, <1>2, <1>3, PTL

\* With any number of jobs, the two checks of duplicates after the commit never report
\* one: of the guards of step 10, only the row count can fail a call that merged.
THEOREM DuplicatesNeverReported ==
  ASSUME NullKeys = {}, Scope = Vals
  PROVE  Spec => [](\A j \in Jobs : job[j].pc # "duplicated")
<1> DEFINE Unreported == \A j \in Jobs : job[j].pc # "duplicated"
<1>1. Init => Unreported
  BY DEF Init, Ended
<1>2. Unreported /\ TypeOK /\ UniqueCurrent /\ UniqueBounds /\ [Next]_vars => Unreported'
  <2> SUFFICES ASSUME Unreported, TypeOK, UniqueCurrent, UniqueBounds, [Next]_vars
               PROVE  Unreported'
    OBVIOUS
  <2>1. CASE UNCHANGED vars
    BY <2>1 DEF vars
  <2>2. ASSUME NEW j \in Jobs, Step(j)
        PROVE  job'[j].pc # "duplicated" /\ \A i \in Jobs \ {j} : job'[i] = job[i]
    <3>1. DOMAIN job = Jobs
      BY DEF TypeOK
    <3>2. ASSUME NEW pc, pc # "duplicated", Goto(j, pc) \/ End(j, pc)
          PROVE  job'[j].pc # "duplicated" /\ \A i \in Jobs \ {j} : job'[i] = job[i]
      <4>1. CASE Goto(j, pc)
        BY <3>1, <3>2, <4>1 DEF Goto
      <4>2. CASE End(j, pc)
        BY <3>1, <3>2, <4>2 DEF End, Ended
      <4> QED
        BY <3>2, <4>1, <4>2
    <3>3. CASE Start(j) \/ Inspect(j)
      BY <3>1, <3>3 DEF Start, Inspect
    <3>4. CASE CheckCurrent(j) \/ CheckBounds(j)
      BY <3>2, <3>4 DEF CheckCurrent, CheckBounds, UniqueCurrent, UniqueBounds
    <3>5. CASE \/ CheckSource(j) \/ RejectSource(j) \/ WritePhoto(j) \/ Merge(j)
               \/ MergeRefused(j) \/ RowCount(j) \/ Abort(j)
      <4>1. \E pc : pc # "duplicated" /\ (Goto(j, pc) \/ End(j, pc))
        BY <3>5, Zenon DEF CheckSource, RejectSource, WritePhoto, Merge, MergeRefused,
                           RowCount, Abort
      <4> QED
        BY <3>2, <4>1
    <3> QED
      BY <2>2, <3>2, <3>3, <3>4, <3>5 DEF Step
  <2>3. CASE Next
    BY <2>2, <2>3 DEF Next
  <2> QED
    BY <2>1, <2>3
<1> QED
  BY <1>1, <1>2, TypeCorrect, UniqueCurrentAlways, UniqueBoundsAlways, PTL DEF Spec

(***************************************************************************)
(* What a MERGE of scd2_batch amounts to, when every key compares and      *)
(* every row is in scope: legs, merge keys and sentinel leave nothing else.*)
(***************************************************************************)
\* The checksum of a row is that of its payload.
Honest(T) == \A r \in T : r.cs = CsOf[r.val]

\* Version r outlives a load of F.
Survives(r, F, ignoreDelete) ==
  \/ ignoreDelete /\ \A s \in F : s.key # r.key
  \/ \E s \in F : s.key = r.key /\ CsOf[s.val] = r.cs

\* Source row s begins a version: its key has no current one that outlives.
Opens(s, F, T, ignoreDelete) ==
  \A r \in Current(T) : r.key = s.key => ~ Survives(r, F, ignoreDelete)

LEMMA ClosesExactly ==
  ASSUME NullKeys = {}, Scope = Vals,
         NEW F \in SUBSET Rows, NEW T \in SUBSET TargetRows, NEW now,
         NEW ignoreDelete \in BOOLEAN,
         ~ DuplicateKeys(F), ~ DuplicateKeys(Current(T)), Honest(T), NEW r \in Current(T)
  PROVE  (\E m \in Staged(F, T, now, ignoreDelete) : Closes(r, m))
           <=> ~ Survives(r, F, ignoreDelete)
<1> DEFINE M == Staged(F, T, now, ignoreDelete)
<1>1. /\ r \in T /\ r.cur = 1 /\ r.key \in Keys /\ r.val \in Scope
      /\ r.cs # Deleted
  BY ValsAssumption DEF Current, TargetRows, Honest
<1>2. ASSUME NEW m \in M, Closes(r, m), Survives(r, F, ignoreDelete)
      PROVE  FALSE
  <2>1. m.mk = r.key /\ m.row.cs # r.cs
    BY <1>2 DEF Closes, Matched, SqlEq
  <2>2. ASSUME NEW s \in F, m = [row |-> Fresh(s, now, "new", 1), mk |-> s.key]
        PROVE  FALSE
    <3>1. s.key = r.key /\ CsOf[s.val] # r.cs
      BY <2>1, <2>2 DEF Fresh
    <3> QED
      BY <1>2, <3>1 DEF Survives, DuplicateKeys
  <2>3. ASSUME NEW s \in F, m = [row |-> Fresh(s, now, "upd", 1), mk |-> Unkeyed]
        PROVE  FALSE
    BY <1>1, <2>1, <2>3, KeysAssumption
  <2>4. ASSUME NEW x \in Absent(F, T), NEW n \in Nat,
               m = [row |-> Tombstone(x, now, n), mk |-> x.key], ~ ignoreDelete
        PROVE  FALSE
    <3>1. x \in Current(T) /\ x.key = r.key /\ \A s \in F : ~ SqlEq(x.key, s.key)
      BY <2>1, <2>4 DEF Absent
    <3> QED
      BY <1>2, <2>4, <3>1 DEF Survives, SqlEq
  <2>5. ~ DuplicateKeys(Keyed(Current(T)))
    BY AllKeyed
  <2> QED
    BY <2>2, <2>3, <2>4, <2>5, Legs
<1>3. ASSUME ~ Survives(r, F, ignoreDelete)
      PROVE  \E m \in M : Closes(r, m)
  <2>1. CASE \E s \in F : s.key = r.key
    BY <1>3, <2>1, ChangedIsClosed DEF Survives
  <2>2. CASE \A s \in F : s.key # r.key
    <3> DEFINE Twins == {x \in Absent(F, T) : x.key = r.key /\ x.val = r.val}
               m == [row |-> Tombstone(r, now, 1), mk |-> r.key]
    <3>1. r \in Absent(F, T) /\ ~ ignoreDelete
      BY <1>3, <2>2 DEF Absent, SqlEq, Survives
    <3>2. Twins = {r}
      BY <3>1 DEF Absent, DuplicateKeys
    <3>3. 1 \in 1 .. Cardinality(Twins)
      <4>1. Cardinality(Twins) = 1
        BY <3>2, FS_Singleton
      <4> HIDE DEF Twins
      <4> QED
        BY <4>1
    <3>4. m \in DelLeg(F, T, now)
      <4>1. m \in {[row |-> Tombstone(r, now, n), mk |-> r.key] : n \in 1 .. Cardinality(Twins)}
        BY <3>3
      <4> QED
        BY <3>1, <4>1 DEF DelLeg
    <3>5. m \in M
      BY <3>1, <3>4 DEF Staged
    <3>6. m.row.cs = Deleted
      BY <1>1 DEF Tombstone, TargetRows
    <3>7. Closes(r, m)
      BY <1>1, <3>6 DEF Closes, Matched, SqlEq
    <3> QED
      BY <3>5, <3>7
  <2> QED
    BY <2>1, <2>2
<1> QED
  BY <1>2, <1>3

LEMMA OpensExactly ==
  ASSUME NullKeys = {}, Scope = Vals,
         NEW F \in SUBSET Rows, NEW T \in SUBSET TargetRows, NEW now,
         NEW ignoreDelete \in BOOLEAN,
         ~ DuplicateKeys(F), ~ DuplicateKeys(Current(T)),
         NEW s \in F, Opens(s, F, T, ignoreDelete)
  PROVE  \E leg \in {"new", "upd"}, m \in Staged(F, T, now, ignoreDelete) :
           /\ \A r \in T : ~ Matched(r, m)
           /\ Inserted(m) = Fresh(s, now, leg, 1)
<1>1. ASSUME NEW leg, NEW k
      PROVE  Inserted([row |-> Fresh(s, now, leg, 1), mk |-> k]) = Fresh(s, now, leg, 1)
  BY DEF Inserted, Fresh
<1>2. CASE \A r \in Current(T) : r.key # s.key
  <2> DEFINE m == [row |-> Fresh(s, now, "new", 1), mk |-> s.key]
  <2>1. m \in Staged(F, T, now, ignoreDelete)
    BY DEF Staged, NewLeg
  <2>2. \A r \in T : ~ Matched(r, m)
    BY <1>2 DEF Matched, SqlEq, Current
  <2> QED
    BY <1>1, <2>1, <2>2
<1>3. ASSUME NEW r \in Current(T), r.key = s.key
      PROVE  \E leg \in {"new", "upd"}, m \in Staged(F, T, now, ignoreDelete) :
               /\ \A q \in T : ~ Matched(q, m)
               /\ Inserted(m) = Fresh(s, now, leg, 1)
  <2> DEFINE m == [row |-> Fresh(s, now, "upd", 1), mk |-> Unkeyed]
  <2>1. CsOf[s.val] # r.cs
    BY <1>3 DEF Opens, Survives
  <2>2. Stale(s, T) = {r}
    BY <1>3, <2>1 DEF Stale, SqlEq, DuplicateKeys
  <2>3. 1 \in 1 .. Cardinality(Stale(s, T))
    BY <2>2, FS_Singleton
  <2>4. m \in Staged(F, T, now, ignoreDelete)
    BY <2>3 DEF Staged, UpdLeg
  <2>5. \A q \in T : ~ Matched(q, m)
    BY KeysAssumption DEF Matched, SqlEq, TargetRows
  <2> QED
    BY <1>1, <2>4, <2>5
<1> QED
  BY <1>2, <1>3

\* The rows of the merged table are those not current, the current versions that
\* outlive the load and those it ends, and one new version for each source row that
\* begins one.
LEMMA MergeExact ==
  ASSUME NullKeys = {}, Scope = Vals,
         NEW F \in SUBSET Rows, NEW T \in SUBSET TargetRows, NEW now,
         NEW ignoreDelete \in BOOLEAN,
         ~ DuplicateKeys(F), ~ DuplicateKeys(Current(T)), Honest(T),
         NEW U, U = MergeInto(T, Staged(F, T, now, ignoreDelete), now)
  PROVE  /\ \A q \in U :
              \/ q \in T /\ (q.cur = 1 => Survives(q, F, ignoreDelete))
              \/ \E r \in Current(T) : ~ Survives(r, F, ignoreDelete) /\ q = Closed(r, now)
              \/ \E s \in F, leg \in {"new", "upd"} :
                   Opens(s, F, T, ignoreDelete) /\ q = Fresh(s, now, leg, 1)
         /\ \A r \in T : (r.cur = 1 /\ ~ Survives(r, F, ignoreDelete)) \/ r \in U
         /\ \A r \in Current(T) : Survives(r, F, ignoreDelete) \/ Closed(r, now) \in U
         /\ \A s \in F : Opens(s, F, T, ignoreDelete) =>
              \E leg \in {"new", "upd"} : Fresh(s, now, leg, 1) \in U
<1> DEFINE M == Staged(F, T, now, ignoreDelete)
<1>1. ASSUME NEW r \in T
      PROVE  (\E m \in M : Closes(r, m)) <=> r.cur = 1 /\ ~ Survives(r, F, ignoreDelete)
  <2>1. CASE r.cur = 1
    <3>1. r \in Current(T)
      BY <2>1 DEF Current
    <3> QED
      BY <2>1, <3>1, ClosesExactly
  <2>2. CASE r.cur # 1
    BY <2>2 DEF Closes, Matched
  <2> QED
    BY <2>1, <2>2
<1>2. ASSUME NEW q \in U
      PROVE  \/ q \in T /\ (q.cur = 1 => Survives(q, F, ignoreDelete))
             \/ \E r \in Current(T) : ~ Survives(r, F, ignoreDelete) /\ q = Closed(r, now)
             \/ \E s \in F, leg \in {"new", "upd"} :
                  Opens(s, F, T, ignoreDelete) /\ q = Fresh(s, now, leg, 1)
  <2>1. ASSUME NEW r \in T, q = IF \E m \in M : Closes(r, m) THEN Closed(r, now) ELSE r
        PROVE  \/ q \in T /\ (q.cur = 1 => Survives(q, F, ignoreDelete))
               \/ \E x \in Current(T) : ~ Survives(x, F, ignoreDelete) /\ q = Closed(x, now)
    BY <1>1, <2>1 DEF Current
  <2>2. ASSUME NEW m \in M, q = Inserted(m), \A r \in T : ~ Matched(r, m)
        PROVE  \E s \in F, leg \in {"new", "upd"} :
                 Opens(s, F, T, ignoreDelete) /\ q = Fresh(s, now, leg, 1)
    <3>1. PICK s \in F :
            \/ m.row = Fresh(s, now, "new", 1) /\ \A r \in Current(T) : r.key # s.key
            \/ /\ m.row = Fresh(s, now, "upd", 1)
               /\ \E r \in Current(T) : r.key = s.key /\ CsOf[s.val] # r.cs
      BY <2>2, Inserts
    <3>2. Opens(s, F, T, ignoreDelete)
      BY <3>1 DEF Opens, Survives, DuplicateKeys
    <3>3. \A leg : m.row = Fresh(s, now, leg, 1) => Inserted(m) = Fresh(s, now, leg, 1)
      BY DEF Inserted, Fresh
    <3> QED
      BY <2>2, <3>1, <3>2, <3>3
  <2> QED
    BY <2>1, <2>2 DEF MergeInto
<1>3. \A r \in T : (r.cur = 1 /\ ~ Survives(r, F, ignoreDelete)) \/ r \in U
  BY <1>1 DEF MergeInto
<1>4. \A r \in Current(T) : Survives(r, F, ignoreDelete) \/ Closed(r, now) \in U
  BY <1>1 DEF MergeInto, Current
<1>5. ASSUME NEW s \in F, Opens(s, F, T, ignoreDelete)
      PROVE  \E leg \in {"new", "upd"} : Fresh(s, now, leg, 1) \in U
  BY <1>5, OpensExactly DEF MergeInto
<1> QED
  BY <1>2, <1>3, <1>4, <1>5

(***************************************************************************)
(* What every row says of itself: its checksum is that of its payload, and *)
(* its partition that of its validity.                                     *)
(***************************************************************************)
RowInv == Honest(target) /\ PartitionAligned

LEMMA PhotoRows ==
  ASSUME NEW F, NEW now, NEW r \in Photo(F, now)
  PROVE  /\ r.cur = 1 /\ r.start = now /\ r.end = Forever
         /\ r.cs = CsOf[r.val] /\ r.part = PartOf(r.start, r.end)
         /\ \E s \in F : r.key = s.key /\ r.val = s.val
  BY DEF Photo, Fresh

LEMMA ClosedRow ==
  ASSUME NEW T \in SUBSET TargetRows, NEW r \in T, NEW now
  PROVE  /\ Closed(r, now).cur = 0 /\ Closed(r, now).end = now - 1
         /\ Closed(r, now).key = r.key /\ Closed(r, now).val = r.val
         /\ Closed(r, now).start = r.start /\ Closed(r, now).cs = r.cs
         /\ Closed(r, now).part = IF PartCol = "end_dt" THEN MonthOf(now - 1) ELSE r.part
  BY DEF Closed, TargetRows

LEMMA FreshRow ==
  ASSUME NEW s, NEW now, NEW leg
  PROVE  /\ Fresh(s, now, leg, 1).key = s.key /\ Fresh(s, now, leg, 1).val = s.val
         /\ Fresh(s, now, leg, 1).cs = CsOf[s.val] /\ Fresh(s, now, leg, 1).cur = 1
         /\ Fresh(s, now, leg, 1).start = now /\ Fresh(s, now, leg, 1).end = Forever
         /\ Fresh(s, now, leg, 1).part = PartOf(now, Forever)
  BY DEF Fresh

\* What the commit of a call makes of the target.
LEMMA MergeStep ==
  ASSUME NullKeys = {}, Scope = Vals,
         TypeInv, UniqueInv, Honest(target), NEW j \in Jobs, Merge(j),
         NEW F, F = job[j].feed, NEW now, now = job[j].cts,
         NEW ignoreDelete, ignoreDelete = (job[j].type = "scd2_no_delete")
  PROVE  /\ F \in SUBSET Rows /\ target \in SUBSET TargetRows
         /\ ~ DuplicateKeys(F) /\ ~ DuplicateKeys(Current(target))
         /\ now \in 1 .. clock - 1 /\ clock \in 1 .. MaxRuns + 1
         /\ \A q \in target' :
              \/ q \in target /\ (q.cur = 1 => Survives(q, F, ignoreDelete))
              \/ \E r \in Current(target) :
                   ~ Survives(r, F, ignoreDelete) /\ q = Closed(r, now)
              \/ \E s \in F, leg \in {"new", "upd"} :
                   Opens(s, F, target, ignoreDelete) /\ q = Fresh(s, now, leg, 1)
         /\ \A r \in target : (r.cur = 1 /\ ~ Survives(r, F, ignoreDelete)) \/ r \in target'
         /\ \A r \in Current(target) :
              Survives(r, F, ignoreDelete) \/ Closed(r, now) \in target'
         /\ \A s \in F : Opens(s, F, target, ignoreDelete) =>
              \E leg \in {"new", "upd"} : Fresh(s, now, leg, 1) \in target'
<1>1. /\ F \in SUBSET Rows /\ target \in SUBSET TargetRows
      /\ ignoreDelete \in BOOLEAN
      /\ ~ DuplicateKeys(F) /\ ~ DuplicateKeys(Current(target))
      /\ now \in 1 .. clock - 1 /\ clock \in 1 .. MaxRuns + 1
      /\ target' = MergeInto(target, Staged(F, target, now, ignoreDelete), now)
  BY DEF Merge, TypeInv, TypeOK, Stamped, UniqueInv, UniqueCurrent, CleanFeeds, InFlight,
         StagedBy
<1> QED
  BY ONLY NullKeys = {}, Scope = Vals, Honest(target), <1>1, MergeExact

LEMMA RowInvariant ==
  ASSUME NullKeys = {}, Scope = Vals
  PROVE  Spec => []RowInv
<1>1. Init => RowInv
  BY PhotoRows DEF Init, RowInv, Honest, PartitionAligned
<1>2. TypeInv /\ UniqueInv /\ RowInv /\ [Next]_vars => RowInv'
  <2> SUFFICES ASSUME TypeInv, UniqueInv, RowInv, [Next]_vars
               PROVE  RowInv'
    OBVIOUS
  <2>1. ASSUME NEW j \in Jobs, WritePhoto(j)
        PROVE  RowInv'
    BY <2>1, PhotoRows DEF WritePhoto, RowInv, Honest, PartitionAligned
  <2>2. ASSUME NEW j \in Jobs, Merge(j)
        PROVE  RowInv'
    <3> DEFINE F == job[j].feed
               now == job[j].cts
               ig == job[j].type = "scd2_no_delete"
    <3>1. /\ target \in SUBSET TargetRows
          /\ \A q \in target' :
               \/ q \in target
               \/ \E r \in Current(target) : q = Closed(r, now)
               \/ \E s \in F, leg \in {"new", "upd"} : q = Fresh(s, now, leg, 1)
      <4>1. Honest(target)
        BY DEF RowInv
      <4> QED
        BY <2>2, <4>1, MergeStep
    <3>2. ASSUME NEW r \in Current(target)
          PROVE  /\ Closed(r, now).cs = CsOf[Closed(r, now).val]
                 /\ Closed(r, now).part = PartOf(Closed(r, now).start, Closed(r, now).end)
      <4>1. r \in target /\ r.cs = CsOf[r.val] /\ r.part = PartOf(r.start, r.end)
        BY DEF Current, RowInv, Honest, PartitionAligned
      <4> QED
        BY <3>1, <4>1, ClosedRow DEF PartOf
    <3> QED
      BY <3>1, <3>2, FreshRow DEF RowInv, Honest, PartitionAligned
  <2>3. CASE UNCHANGED target
    BY <2>3 DEF RowInv, Honest, PartitionAligned
  <2> QED
    BY <2>1, <2>2, <2>3
       DEF Next, Step, vars, Start, CheckSource, RejectSource, Inspect, MergeRefused,
           RowCount, CheckCurrent, CheckBounds, Abort
<1> QED
  BY <1>1, <1>2, TypeInvariant, UniqueInvariant, PTL DEF Spec

\* Whatever interleaves, ending a version files it in the partition of its end.
THEOREM PartitionAlwaysAligned ==
  ASSUME NullKeys = {}, Scope = Vals
  PROVE  Spec => []PartitionAligned
<1>1. RowInv => PartitionAligned
  BY DEF RowInv
<1> QED
  BY <1>1, RowInvariant, PTL

(***************************************************************************)
(* What every row but a tombstone says of itself, whatever the keys, the   *)
(* merge_cond and the jobs.                                                *)
(***************************************************************************)
SaysTrue(r) == r.cs = CsOf[r.val] /\ r.part = PartOf(r.start, r.end)

LEMMA InsertedTrue ==
  ASSUME NEW F, NEW T \in SUBSET TargetRows, NEW now, NEW ignoreDelete \in BOOLEAN,
         NEW m \in Staged(F, T, now, ignoreDelete)
  PROVE  Inserted(m).cs # Deleted => SaysTrue(Inserted(m))
<1>1. \A s, leg, n, mk : SaysTrue(Inserted([row |-> Fresh(s, now, leg, n), mk |-> mk]))
  BY DEF SaysTrue, Inserted, Fresh
<1>2. \A r \in T : \A n, mk :
        Inserted([row |-> Tombstone(r, now, n), mk |-> mk]).cs = Deleted
  BY DEF Inserted, Tombstone, TargetRows
<1>3. CASE m \in NewLeg(F, now)
  BY <1>1, <1>3 DEF NewLeg
<1>4. CASE m \in UpdLeg(F, T, now)
  <2>1. PICK s \in F : \E n \in 1 .. Cardinality(Stale(s, T)) :
          m = [row |-> Fresh(s, now, "upd", n), mk |-> Unkeyed]
    BY <1>4 DEF UpdLeg
  <2> QED
    BY <1>1, <2>1
<1>5. CASE m \in DelLeg(F, T, now)
  <2> DEFINE Twins(r) == {x \in Absent(F, T) : x.key = r.key /\ x.val = r.val}
  <2>1. PICK r \in Absent(F, T) : \E n \in 1 .. Cardinality(Twins(r)) :
          m = [row |-> Tombstone(r, now, n), mk |-> r.key]
    BY <1>5 DEF DelLeg
  <2>2. r \in T
    BY DEF Absent, Current
  <2> QED
    BY <1>2, <2>1, <2>2
<1> QED
  BY <1>3, <1>4, <1>5 DEF Staged

\* Ending a version files it in the partition of its end and leaves its checksum that
\* of its payload, with any keys, any merge_cond and any number of jobs.  A tombstone
\* that MERGE inserts is in the partition of the call, though its end is Forever.
THEOREM VersionsAlwaysTrue ==
  Spec => [](\A r \in target : r.cs # Deleted => SaysTrue(r))
<1> DEFINE AllTrue == \A r \in target : r.cs # Deleted => SaysTrue(r)
<1>1. Init => AllTrue
  BY PhotoRows DEF Init, SaysTrue
<1>2. TypeOK /\ AllTrue /\ [Next]_vars => AllTrue'
  <2> SUFFICES ASSUME TypeOK, AllTrue, [Next]_vars
               PROVE  AllTrue'
    OBVIOUS
  <2>1. ASSUME NEW j \in Jobs, WritePhoto(j)
        PROVE  AllTrue'
    BY <2>1, PhotoRows DEF WritePhoto, SaysTrue
  <2>2. ASSUME NEW j \in Jobs, Merge(j)
        PROVE  AllTrue'
    <3> DEFINE now == job[j].cts
               ig == job[j].type = "scd2_no_delete"
               M == Staged(job[j].feed, target, now, ig)
    <3>1. target \in SUBSET TargetRows /\ target' = MergeInto(target, M, now) /\ ig \in BOOLEAN
      BY <2>2 DEF Merge, StagedBy, TypeOK
    <3>2. \A m \in M : Inserted(m).cs # Deleted => SaysTrue(Inserted(m))
      <4> HIDE DEF now, ig
      <4> QED
        BY <3>1, InsertedTrue
    <3> HIDE DEF M, now, ig
    <3>3. ASSUME NEW r \in target, r.cs # Deleted
          PROVE  SaysTrue(Closed(r, now))
      <4>1. r.cs = CsOf[r.val] /\ r.part = PartOf(r.start, r.end)
        BY <3>3 DEF SaysTrue
      <4> QED
        BY <3>1, <4>1, ClosedRow DEF SaysTrue, PartOf
    <3>4. \A r \in target : Closed(r, now).cs = r.cs
      BY <3>1, ClosedRow
    <3> QED
      BY <3>1, <3>2, <3>3, <3>4 DEF MergeInto
  <2>3. CASE UNCHANGED target
    BY <2>3
  <2> QED
    BY <2>1, <2>2, <2>3
       DEF Next, Step, vars, Start, CheckSource, RejectSource, Inspect, MergeRefused,
           RowCount, CheckCurrent, CheckBounds, Abort
<1> QED
  BY <1>1, <1>2, TypeCorrect, PTL DEF Spec

(***************************************************************************)
(* The initial load.  The call that found the target empty finds it so     *)
(* when it overwrites, if the table was loaded before or no other job is   *)
(* there to load it meanwhile.                                             *)
(***************************************************************************)
OneJob == \A i, j \in Jobs : i = j

PhotoInv ==
  /\ Seeded => target # {}
  /\ \A j \in Jobs : job[j].pc = "photo" => target = {}

LEMMA PhotoInvariant ==
  ASSUME Seeded \/ OneJob
  PROVE  Spec => []PhotoInv
<1>1. Init => PhotoInv
  <2>1. \A F : F # {} => Photo(F, 0) # {}
    BY DEF Photo
  <2> QED
    BY <2>1 DEF Init, PhotoInv, Ended
<1>2. TypeOK /\ PhotoInv /\ [Next]_vars => PhotoInv'
  <2> SUFFICES ASSUME TypeOK, PhotoInv, [Next]_vars
               PROVE  PhotoInv'
    OBVIOUS
  <2> USE DEF PhotoInv
  <2>0. CASE UNCHANGED vars
    BY <2>0 DEF vars
  <2>1. ASSUME NEW j \in Jobs, WritePhoto(j)
        PROVE  PhotoInv'
    <3>1. ~ Seeded /\ OneJob
      BY <2>1 DEF WritePhoto
    <3>2. job'[j].pc = "count"
      BY <2>1 DEF WritePhoto, Goto, TypeOK
    <3> QED
      BY <3>1, <3>2 DEF OneJob
  <2>2. ASSUME NEW j \in Jobs, Merge(j)
        PROVE  PhotoInv'
    <3>1. job'[j].pc = "count" /\ \A i \in Jobs \ {j} : job'[i] = job[i]
      BY <2>2 DEF Merge, Goto, TypeOK
    <3>2. target # {} => target' # {}
      BY <2>2, MergeKeepsRows DEF Merge, TypeOK
    <3> QED
      BY <3>1, <3>2 DEF OneJob
  <2>3. ASSUME NEW j \in Jobs, Inspect(j)
        PROVE  PhotoInv'
    BY <2>3 DEF Inspect, TypeOK
  <2>4. ASSUME NEW j \in Jobs, Start(j) \/ CheckSource(j) \/ RowCount(j) \/ CheckCurrent(j)
        PROVE  PhotoInv'
    BY <2>4 DEF Start, CheckSource, RowCount, CheckCurrent, Goto, End, Ended, TypeOK
  <2>5. ASSUME NEW j \in Jobs,
               RejectSource(j) \/ MergeRefused(j) \/ CheckBounds(j) \/ Abort(j)
        PROVE  PhotoInv'
    BY <2>5 DEF RejectSource, MergeRefused, CheckBounds, Abort, End, Ended, TypeOK
  <2> QED
    BY <2>0, <2>1, <2>2, <2>3, <2>4, <2>5 DEF Next, Step
<1> QED
  BY <1>1, <1>2, TypeCorrect, PTL DEF Spec

\* An initial load never overwrites a table with rows in it, unless two jobs
\* race to make it.
THEOREM InitialLoadAlwaysOnEmpty ==
  ASSUME Seeded \/ OneJob
  PROVE  Spec => InitialLoadOnlyOnEmpty
<1>1. PhotoInv => ((\E j \in Jobs : WritePhoto(j)) => target = {})
  BY DEF PhotoInv, WritePhoto
<1> QED
  BY <1>1, PhotoInvariant, PTL DEF InitialLoadOnlyOnEmpty

\* No job rewrites history: on a table loaded before, however many jobs interleave, and
\* on an empty one with one job, whose initial load has no history to overwrite.
THEOREM HistoryAlwaysKept ==
  ASSUME Seeded \/ OneJob
  PROVE  Spec => HistoryKept
<1> DEFINE Keeps ==
      \A r \in target :
        \/ r \in target'
        \/ /\ r.cur = 1
           /\ \E q \in target' : q.cur = 0 /\ q.id = r.id /\ q.key = r.key
                                  /\ q.val = r.val /\ q.start = r.start
<1>1. TypeOK /\ PhotoInv /\ [Next]_vars => [Keeps]_target
  <2> SUFFICES ASSUME TypeOK, PhotoInv, [Next]_vars
               PROVE  [Keeps]_target
    OBVIOUS
  <2>1. ASSUME NEW j \in Jobs, Merge(j)
        PROVE  Keeps
    <3>1. target' = MergeInto(target, StagedBy(j), job[j].cts)
      BY <2>1 DEF Merge
    <3> QED
      BY <3>1, MergeKeepsRows DEF TypeOK
  <2>2. ASSUME NEW j \in Jobs, WritePhoto(j)
        PROVE  Keeps
    BY <2>2 DEF WritePhoto, PhotoInv
  <2>3. CASE UNCHANGED target
    BY <2>3
  <2> QED
    BY <2>1, <2>2, <2>3
       DEF Next, Step, vars, Start, CheckSource, RejectSource, Inspect, MergeRefused,
           RowCount, CheckCurrent, CheckBounds, Abort
<1>2. Spec => []PhotoInv
  BY PhotoInvariant
<1> QED
  BY <1>1, <1>2, TypeCorrect, PTL DEF Spec, HistoryKept

(***************************************************************************)
(* The refinement of VersionedHistory.                                     *)
(***************************************************************************)
\* A call in flight has one of the job's types.
Named == \A j \in Jobs : job[j].pc \in InFlight => job[j].type \in Types

LEMMA NamedInvariant == Spec => []Named
<1>1. Init => Named
  BY DEF Init, Named, Ended, InFlight
<1>2. TypeOK /\ Named /\ [Next]_vars => Named'
  <2> SUFFICES ASSUME TypeOK, Named, [Next]_vars
               PROVE  Named'
    OBVIOUS
  <2> USE DEF Named, InFlight, TypeOK
  <2>0. CASE UNCHANGED vars
    BY <2>0 DEF vars
  <2>1. ASSUME NEW j \in Jobs, Start(j) \/ Inspect(j) \/ CheckSource(j) \/ WritePhoto(j) \/ Merge(j)
        PROVE  Named'
    BY <2>1 DEF Start, Inspect, CheckSource, WritePhoto, Merge, Goto
  <2>2. ASSUME NEW j \in Jobs, RowCount(j) \/ CheckCurrent(j)
        PROVE  Named'
    BY <2>2 DEF RowCount, CheckCurrent, Goto, End, Ended
  <2>3. ASSUME NEW j \in Jobs,
               RejectSource(j) \/ MergeRefused(j) \/ CheckBounds(j) \/ Abort(j)
        PROVE  Named'
    BY <2>3 DEF RejectSource, MergeRefused, CheckBounds, Abort, End, Ended
  <2> QED
    BY <2>0, <2>1, <2>2, <2>3 DEF Next, Step
<1> QED
  BY <1>1, <1>2, TypeCorrect, PTL DEF Spec

\* The load a call asks for.
LoadOf(j) == [feed |-> job[j].feed, full |-> job[j].type = "scd2", at |-> job[j].cts]

\* A row as a live version, and as a past one.
Version(r) == [key |-> r.key, val |-> r.val, from |-> r.start]
Bygone(r)  == [key |-> r.key, val |-> r.val, from |-> r.start, to |-> r.end]

\* A load keeps live version v.
Keeps(v, load) ==
  \/ ~ load.full /\ \A s \in load.feed : s.key # v.key
  \/ \E s \in load.feed : s.key = v.key /\ CsOf[s.val] = CsOf[v.val]

\* What a load done makes of live and past.
Loaded(load) ==
  LET kept  == {v \in live : Keeps(v, load)}
      fresh == {s \in load.feed : \A v \in kept : v.key # s.key}
  IN /\ live' = kept \cup {[key |-> s.key, val |-> s.val, from |-> load.at] : s \in fresh}
     /\ past' = past \cup {[key |-> v.key, val |-> v.val, from |-> v.from,
                            to |-> load.at - 1] : v \in live \ kept}

LEMMA PhotoLoads ==
  ASSUME NEW j \in Jobs, WritePhoto(j), target = {}
  PROVE  Loaded(LoadOf(j))
<1>1. live = {} /\ past = {}
  BY DEF live, past, Current
<1>2. target' = Photo(job[j].feed, job[j].cts)
  BY DEF WritePhoto
<1>3. \A q \in target' : q.cur = 1
  BY <1>2, PhotoRows
<1>4. past' = {}
  BY <1>3 DEF past, Current
<1>5. live' = {Version(q) : q \in target'}
  BY <1>3 DEF live, Current, Version
<1>6. live' = {[key |-> s.key, val |-> s.val, from |-> job[j].cts] : s \in job[j].feed}
  <2>1. \A s : Version(Fresh(s, job[j].cts, "new", 1))
                 = [key |-> s.key, val |-> s.val, from |-> job[j].cts]
    BY DEF Version, Fresh
  <2> QED
    BY <1>2, <1>5, <2>1 DEF Photo
<1> QED
  BY <1>1, <1>4, <1>6 DEF Loaded, LoadOf

LEMMA MergeLoads ==
  ASSUME NullKeys = {}, Scope = Vals,
         TypeInv, UniqueInv, RowInv, Named, NEW j \in Jobs, Merge(j)
  PROVE  Loaded(LoadOf(j))
<1> DEFINE F == job[j].feed
           now == job[j].cts
           ig == job[j].type = "scd2_no_delete"
           load == LoadOf(j)
           kept  == {v \in live : Keeps(v, load)}
           fresh == {s \in load.feed : \A v \in kept : v.key # s.key}
<1>1. load.feed = F /\ load.at = now /\ load.full = ~ ig
  <2>1. job[j].type \in {"scd2", "scd2_no_delete"}
    BY TypesAssumption DEF Merge, Named, InFlight
  <2> QED
    BY <2>1 DEF LoadOf
<1>2. /\ target \in SUBSET TargetRows
      /\ \A q \in target' :
           \/ q \in target /\ (q.cur = 1 => Survives(q, F, ig))
           \/ \E r \in Current(target) : ~ Survives(r, F, ig) /\ q = Closed(r, now)
           \/ \E s \in F, leg \in {"new", "upd"} :
                Opens(s, F, target, ig) /\ q = Fresh(s, now, leg, 1)
      /\ \A r \in target : (r.cur = 1 /\ ~ Survives(r, F, ig)) \/ r \in target'
      /\ \A r \in Current(target) : Survives(r, F, ig) \/ Closed(r, now) \in target'
      /\ \A s \in F : Opens(s, F, target, ig) =>
           \E leg \in {"new", "upd"} : Fresh(s, now, leg, 1) \in target'
  BY MergeStep DEF RowInv
<1>3. /\ live = {Version(r) : r \in Current(target)}
      /\ live' = {Version(r) : r \in Current(target')}
      /\ past = {Bygone(r) : r \in target \ Current(target)}
      /\ past' = {Bygone(r) : r \in target' \ Current(target')}
  BY DEF live, past, Version, Bygone, Current
<1>4. \A r \in Current(target) : Keeps(Version(r), load) <=> Survives(r, F, ig)
  <2>1. \A r \in Current(target) : r.cs = CsOf[r.val]
    BY DEF RowInv, Honest, Current
  <2> QED
    BY <1>1, <2>1 DEF Keeps, Survives, Version
<1> HIDE DEF F, now, ig, load
<1>5. \A s \in F : s \in fresh <=> Opens(s, F, target, ig)
  <2>1. kept = {Version(r) : r \in {x \in Current(target) : Survives(x, F, ig)}}
    BY <1>3, <1>4
  <2>2. \A r : Version(r).key = r.key
    BY DEF Version
  <2> HIDE DEF kept
  <2> QED
    BY <1>1, <2>1, <2>2 DEF Opens
<1>6. \A s, leg : /\ Version(Fresh(s, now, leg, 1)) = [key |-> s.key, val |-> s.val, from |-> now]
                  /\ Fresh(s, now, leg, 1).cur = 1
  BY DEF Version, Fresh
<1>7. \A r \in target : /\ Closed(r, now).cur = 0
                        /\ Bygone(Closed(r, now)) = [key |-> r.key, val |-> r.val,
                                                     from |-> r.start, to |-> now - 1]
  BY <1>2, ClosedRow DEF Bygone
<1>8. live' = kept \cup {[key |-> s.key, val |-> s.val, from |-> load.at] : s \in fresh}
  <2>1. ASSUME NEW q \in Current(target')
        PROVE  \/ Version(q) \in kept
               \/ \E s \in fresh : Version(q) = [key |-> s.key, val |-> s.val, from |-> now]
    <3>1. q \in target' /\ q.cur = 1
      BY DEF Current
    <3>2. CASE q \in target /\ Survives(q, F, ig)
      <4>1. q \in Current(target)
        BY <3>1, <3>2 DEF Current
      <4> QED
        BY <1>3, <1>4, <3>2, <4>1
    <3>3. CASE \E r \in Current(target) : q = Closed(r, now)
      BY <1>7, <3>1, <3>3 DEF Current
    <3>4. CASE \E s \in F, leg \in {"new", "upd"} :
                 Opens(s, F, target, ig) /\ q = Fresh(s, now, leg, 1)
      BY <1>5, <1>6, <3>4
    <3> QED
      BY <1>2, <3>1, <3>2, <3>3, <3>4
  <2>2. ASSUME NEW v \in kept
        PROVE  v \in live'
    <3>1. PICK r \in Current(target) : v = Version(r) /\ Survives(r, F, ig)
      BY <1>3, <1>4
    <3>2. r \in Current(target')
      BY <1>2, <3>1 DEF Current
    <3> QED
      BY <1>3, <3>1, <3>2
  <2>3. ASSUME NEW s \in fresh
        PROVE  [key |-> s.key, val |-> s.val, from |-> now] \in live'
    <3>1. s \in F
      BY <1>1
    <3>2. PICK leg : Fresh(s, now, leg, 1) \in target'
      BY <1>2, <1>5, <3>1
    <3>3. Fresh(s, now, leg, 1) \in Current(target')
      BY <1>6, <3>2 DEF Current
    <3> QED
      BY <1>3, <1>6, <3>3
  <2> HIDE DEF kept, fresh
  <2> QED
    BY <1>1, <1>3, <2>1, <2>2, <2>3
<1>9. past' = past \cup {[key |-> v.key, val |-> v.val, from |-> v.from,
                          to |-> load.at - 1] : v \in live \ kept}
  <2>1. ASSUME NEW q \in target' \ Current(target')
        PROVE  \/ Bygone(q) \in past
               \/ \E v \in live \ kept : Bygone(q) = [key |-> v.key, val |-> v.val,
                                                      from |-> v.from, to |-> now - 1]
    <3>1. q \in target' /\ q.cur # 1
      BY DEF Current
    <3>2. CASE q \in target
      BY <1>3, <3>1, <3>2 DEF Current
    <3>3. ASSUME NEW r \in Current(target), ~ Survives(r, F, ig), q = Closed(r, now)
          PROVE  \E v \in live \ kept : Bygone(q) = [key |-> v.key, val |-> v.val,
                                                     from |-> v.from, to |-> now - 1]
      <4>1. Version(r) \in live \ kept
        BY <1>3, <1>4, <3>3
      <4>2. r \in target
        BY DEF Current
      <4> QED
        BY <1>7, <3>3, <4>1, <4>2 DEF Version
    <3>4. CASE \E s \in F, leg \in {"new", "upd"} : q = Fresh(s, now, leg, 1)
      BY <1>6, <3>1, <3>4
    <3> QED
      BY <1>2, <3>1, <3>2, <3>3, <3>4
  <2>2. ASSUME NEW r \in target \ Current(target)
        PROVE  Bygone(r) \in past'
    BY <1>2, <1>3 DEF Current
  <2>3. ASSUME NEW v \in live \ kept
        PROVE  [key |-> v.key, val |-> v.val, from |-> v.from, to |-> now - 1] \in past'
    <3>1. PICK r \in Current(target) : v = Version(r) /\ ~ Survives(r, F, ig)
      BY <1>3, <1>4
    <3>2. r \in target
      BY DEF Current
    <3>3. Closed(r, now) \in target' \ Current(target')
      BY <1>2, <1>7, <3>1, <3>2 DEF Current
    <3>4. Bygone(Closed(r, now)) = [key |-> v.key, val |-> v.val, from |-> v.from, to |-> now - 1]
      BY <1>7, <3>1, <3>2 DEF Version
    <3> QED
      BY <1>3, <3>3, <3>4
  <2> HIDE DEF kept, fresh
  <2> QED
    BY <1>1, <1>3, <2>1, <2>2, <2>3
<1> QED
  BY <1>8, <1>9 DEF Loaded, load

\* What the refinement rests on.
LoadInv == TypeInv /\ UniqueInv /\ RowInv /\ BoundsInv /\ Named /\ PhotoInv

LEMMA LoadInvariant ==
  ASSUME NullKeys = {}, Scope = Vals, Seeded \/ OneJob
  PROVE  Spec => []LoadInv
<1>1. Spec => []RowInv
  BY RowInvariant
<1>2. Spec => []BoundsInv
  BY BoundsInvariant
<1>3. Spec => []UniqueInv
  BY UniqueInvariant
<1>4. Spec => []PhotoInv
  BY PhotoInvariant
<1> QED
  BY <1>1, <1>2, <1>3, <1>4, TypeInvariant, NamedInvariant, PTL DEF LoadInv

LEMMA AskedLoads == asked = {LoadOf(j) : j \in {i \in Jobs : Pending(i)}}
  BY DEF asked, LoadOf, Pending

\* A call that is done with its load asks for it no more, and no other call
\* asked for the same.
LEMMA LoadDone ==
  ASSUME PendingOK, NEW j \in Jobs, Pending(j), Pending(j)' = FALSE,
         \A i \in Jobs \ {j} : job'[i] = job[i]
  PROVE  LoadOf(j) \in asked /\ asked' = asked \ {LoadOf(j)}
<1>1. \A i \in Jobs \ {j} : Pending(i) => LoadOf(i) # LoadOf(j)
  BY DEF PendingOK, PendingIn, LoadOf
<1>2. \A i \in Jobs \ {j} : (Pending(i)' <=> Pending(i)) /\ LoadOf(i)' = LoadOf(i)
  BY DEF Pending, LoadOf
<1>3. asked' = {LoadOf(i)' : i \in {i \in Jobs : Pending(i)'}}
  BY DEF asked, LoadOf, Pending
<1>4. {i \in Jobs : Pending(i)'} = {i \in Jobs : Pending(i)} \ {j}
  BY <1>2
<1>5. asked' = {LoadOf(i) : i \in {i \in Jobs : Pending(i)} \ {j}}
  BY <1>2, <1>3, <1>4
<1> QED
  BY <1>1, <1>5, AskedLoads

LEMMA LoadType ==
  ASSUME TypeInv, UniqueInv, NEW j \in Jobs, Pending(j)
  PROVE  LoadOf(j) \in [feed : Feeds, full : BOOLEAN, at : 1 .. MaxRuns]
<1>1. job[j].feed \in Feeds
  BY DEF TypeInv, TypeOK, UniqueInv, CleanFeeds, Pending, InFlight, Feeds
<1>2. job[j].cts \in 1 .. MaxRuns
  BY DEF TypeInv, TypeOK, Stamped, Pending
<1> QED
  BY <1>1, <1>2 DEF LoadOf

\* Each step of the jobs asks for a load, does one asked for, drops one, or is
\* no step of the history.
LEMMA StepOfHistory ==
  ASSUME NullKeys = {}, Scope = Vals, LoadInv, [Next]_vars
  PROVE  \/ live' = live /\ past' = past /\ asked' = asked
         \/ \E load \in [feed : Feeds, full : BOOLEAN, at : 1 .. MaxRuns] :
              live' = live /\ past' = past /\ asked' = asked \cup {load}
         \/ \E load \in asked : Loaded(load) /\ asked' = asked \ {load}
         \/ \E load \in asked : live' = live /\ past' = past /\ asked' = asked \ {load}
<1> USE DEF LoadInv
<1>0. CASE UNCHANGED vars
  BY <1>0 DEF vars, live, past, asked, Current
<1>1. target' = target => live' = live /\ past' = past
  BY DEF live, past, Current
<1>2. ASSUME NEW j \in Jobs, WritePhoto(j)
      PROVE  \E load \in asked : Loaded(load) /\ asked' = asked \ {load}
  <2>1. /\ Pending(j) /\ Pending(j)' = FALSE
        /\ \A i \in Jobs \ {j} : job'[i] = job[i]
    BY <1>2 DEF WritePhoto, Goto, Pending, TypeInv, TypeOK
  <2>2. Loaded(LoadOf(j))
    BY <1>2, PhotoLoads DEF PhotoInv, WritePhoto
  <2> QED
    BY <2>1, <2>2, LoadDone DEF BoundsInv
<1>3. ASSUME NEW j \in Jobs, Merge(j)
      PROVE  \E load \in asked : Loaded(load) /\ asked' = asked \ {load}
  <2>1. /\ Pending(j) /\ Pending(j)' = FALSE
        /\ \A i \in Jobs \ {j} : job'[i] = job[i]
    BY <1>3 DEF Merge, Goto, Pending, TypeInv, TypeOK
  <2>2. Loaded(LoadOf(j))
    BY <1>3, MergeLoads
  <2> QED
    BY <2>1, <2>2, LoadDone DEF BoundsInv
<1>4. ASSUME NEW j \in Jobs, Inspect(j)
      PROVE  \E load \in [feed : Feeds, full : BOOLEAN, at : 1 .. MaxRuns] :
               live' = live /\ past' = past /\ asked' = asked \cup {load}
  <2>1. /\ ~ Pending(j) /\ Pending(j)'
        /\ \A i \in Jobs \ {j} : job'[i] = job[i]
        /\ target' = target
    BY <1>4 DEF Inspect, Pending, TypeInv, TypeOK
  <2>2. LoadOf(j)' \in [feed : Feeds, full : BOOLEAN, at : 1 .. MaxRuns]
    <3>1. job'[j].feed \in Feeds /\ job'[j].cts \in 1 .. MaxRuns
      BY <1>4, TimeAssumption
         DEF Inspect, TypeInv, TypeOK, UniqueInv, CleanFeeds, InFlight, Feeds
    <3> QED
      BY <3>1 DEF LoadOf
  <2>3. \A i \in Jobs \ {j} : (Pending(i)' <=> Pending(i)) /\ LoadOf(i)' = LoadOf(i)
    BY <2>1 DEF Pending, LoadOf
  <2>4. asked' = {LoadOf(i)' : i \in {i \in Jobs : Pending(i)'}}
    BY DEF asked, LoadOf, Pending
  <2>5. {i \in Jobs : Pending(i)'} = {i \in Jobs : Pending(i)} \cup {j}
    BY <2>1, <2>3
  <2>6. \A i \in {i \in Jobs : Pending(i)} : LoadOf(i)' = LoadOf(i)
    BY <2>1, <2>3
  <2>7. asked' = asked \cup {LoadOf(j)'}
    BY <2>4, <2>5, <2>6, AskedLoads
  <2> QED
    BY <1>1, <2>1, <2>2, <2>7
<1>5. ASSUME NEW j \in Jobs,
             \/ Start(j) \/ CheckSource(j) \/ RejectSource(j) \/ MergeRefused(j)
             \/ RowCount(j) \/ CheckCurrent(j) \/ CheckBounds(j) \/ Abort(j)
      PROVE  /\ live' = live /\ past' = past
             /\ asked' = asked \/ \E load \in asked : asked' = asked \ {load}
  <2>1. target' = target
    BY <1>5 DEF Start, CheckSource, RejectSource, MergeRefused, RowCount, CheckCurrent,
                CheckBounds, Abort
  <2>2. /\ Pending(j)' = FALSE
        /\ \A i \in Jobs \ {j} : job'[i] = job[i]
    <3>1. CASE Start(j)
      BY <3>1 DEF Start, Pending, TypeInv, TypeOK
    <3>2. CASE CheckSource(j)
      BY <3>2 DEF CheckSource, Goto, Pending, TypeInv, TypeOK
    <3>3. CASE RowCount(j) \/ CheckCurrent(j)
      BY <3>3 DEF RowCount, CheckCurrent, Goto, End, Ended, Pending, TypeInv, TypeOK
    <3>4. CASE RejectSource(j) \/ MergeRefused(j) \/ CheckBounds(j) \/ Abort(j)
      BY <3>4 DEF RejectSource, MergeRefused, CheckBounds, Abort, End, Ended, Pending,
                  TypeInv, TypeOK
    <3> QED
      BY <1>5, <3>1, <3>2, <3>3, <3>4
  <2>3. CASE Pending(j)
    BY <1>1, <2>1, <2>2, <2>3, LoadDone DEF BoundsInv
  <2>4. CASE ~ Pending(j)
    <3>1. \A i \in Jobs : Pending(i)' <=> Pending(i)
      BY <2>2, <2>4 DEF Pending
    <3>2. \A i \in {i \in Jobs : Pending(i)} : LoadOf(i)' = LoadOf(i)
      BY <2>2, <2>4 DEF LoadOf
    <3>3. asked' = {LoadOf(i)' : i \in {i \in Jobs : Pending(i)'}}
      BY DEF asked, LoadOf, Pending
    <3>4. asked' = asked
      BY <3>1, <3>2, <3>3, AskedLoads
    <3> QED
      BY <1>1, <2>1, <3>4
  <2> QED
    BY <2>3, <2>4
<1> QED
  BY <1>0, <1>2, <1>3, <1>4, <1>5 DEF Next, Step

LEMMA InitOfHistory ==
  ASSUME Init
  PROVE  /\ \E F \in Feeds : live = {[key |-> s.key, val |-> s.val, from |-> 0] : s \in F}
         /\ past = {}
         /\ asked = {}
<1>1. PICK F \in Feeds : target = Photo(F, 0)
  <2>1. {} \in Feeds /\ Photo({}, 0) = {}
    BY DEF Feeds, DuplicateKeys, Photo
  <2> QED
    BY <2>1 DEF Init
<1>2. \A q \in target : q.cur = 1
  BY <1>1, PhotoRows
<1>3. past = {}
  BY <1>2 DEF past, Current
<1>4. live = {Version(q) : q \in target}
  BY <1>2 DEF live, Current, Version
<1>5. live = {[key |-> s.key, val |-> s.val, from |-> 0] : s \in F}
  <2>1. \A s : Version(Fresh(s, 0, "new", 1)) = [key |-> s.key, val |-> s.val, from |-> 0]
    BY DEF Version, Fresh
  <2> QED
    BY <1>1, <1>4, <2>1 DEF Photo
<1>6. asked = {}
  BY DEF Init, asked, Ended
<1> QED
  BY <1>3, <1>5, <1>6

\* Whatever interleaves on a loaded table, the commits amount to the loads asked
\* for, each done at once or dropped.
THEOREM RefinesUnorderedHistoryAlways ==
  ASSUME NullKeys = {}, Scope = Vals, Seeded \/ OneJob
  PROVE  Spec => RefinesUnorderedHistory
<1>1. Init => UnorderedHistory!Init
  BY InitOfHistory DEF UnorderedHistory!Init
<1>2. LoadInv /\ [Next]_vars => [UnorderedHistory!Next]_(UnorderedHistory!vars)
  <2> SUFFICES ASSUME LoadInv, [Next]_vars
               PROVE  UnorderedHistory!Next \/ UNCHANGED UnorderedHistory!vars
    OBVIOUS
  <2>1. CASE live' = live /\ past' = past /\ asked' = asked
    BY <2>1 DEF UnorderedHistory!vars
  <2>2. ASSUME NEW load \in [feed : Feeds, full : BOOLEAN, at : 1 .. MaxRuns],
               live' = live /\ past' = past /\ asked' = asked \cup {load}
        PROVE  UnorderedHistory!Next
    BY <2>2 DEF UnorderedHistory!Next, UnorderedHistory!Ask
  <2>3. ASSUME NEW load \in asked, Loaded(load), asked' = asked \ {load}
        PROVE  UnorderedHistory!Load(load)
    BY <2>3 DEF UnorderedHistory!Load, UnorderedHistory!Kept, Loaded, Keeps
  <2>4. ASSUME NEW load \in asked,
               live' = live /\ past' = past /\ asked' = asked \ {load}
        PROVE  UnorderedHistory!Drop(load)
    BY <2>4 DEF UnorderedHistory!Drop
  <2> QED
    BY <2>1, <2>2, <2>3, <2>4, StepOfHistory DEF UnorderedHistory!Next
<1>3. Spec => []LoadInv
  BY LoadInvariant
<1> QED
  BY <1>1, <1>2, <1>3, PTL DEF Spec, RefinesUnorderedHistory, UnorderedHistory!Spec

(***************************************************************************)
(* One job.  Its instants come one after the other, so a version is ended  *)
(* before the next one of its key starts.                                  *)
(***************************************************************************)
Disjoint(T) ==
  \A r, s \in T : r # s /\ r.key = s.key => r.end < s.start \/ s.end < r.start

\* Everything on file is before the instant t.
Before(T, t) ==
  \A r \in T : r.start < t /\ (r.cur # 1 => r.start =< r.end /\ r.end + 1 < t)

SerialInv ==
  /\ Disjoint(target)
  /\ Before(target, clock)
  /\ \A j \in Jobs : Pending(j) => Before(target, job[j].cts)

LEMMA MergeDisjoint ==
  ASSUME NullKeys = {}, Scope = Vals, LoadInv, SerialInv, NEW j \in Jobs, Merge(j)
  PROVE  Disjoint(target') /\ Before(target', clock)
<1> DEFINE F == job[j].feed
           now == job[j].cts
           ig == job[j].type = "scd2_no_delete"
<1> USE TimeAssumption
<1>1. /\ target \in SUBSET TargetRows
      /\ ~ DuplicateKeys(F) /\ ~ DuplicateKeys(Current(target))
      /\ now \in 1 .. clock - 1 /\ clock \in 1 .. MaxRuns + 1
      /\ \A q \in target' :
           \/ q \in target /\ (q.cur = 1 => Survives(q, F, ig))
           \/ \E r \in Current(target) : ~ Survives(r, F, ig) /\ q = Closed(r, now)
           \/ \E s \in F, leg \in {"new", "upd"} :
                Opens(s, F, target, ig) /\ q = Fresh(s, now, leg, 1)
  BY MergeStep DEF LoadInv, RowInv
<1>2. Disjoint(target) /\ Before(target, now) /\ Before(target, clock)
  <2>1. Pending(j)
    BY DEF Merge, Pending
  <2> QED
    BY <2>1 DEF SerialInv
<1>3. \A r \in target : /\ r.start \in Int /\ r.end \in Int
                        /\ r.cur = 1 => r.end = Forever
  BY <1>1 DEF TargetRows, LoadInv, BoundsInv, EndsOK, EndsIn
<1>4. ~ DuplicateKeys(Current(target'))
  <2>1. target' = MergeInto(target, Staged(F, target, now, ig), now)
    BY DEF Merge, StagedBy
  <2>2. F \in SUBSET Rows /\ ig \in BOOLEAN
    BY DEF LoadInv, TypeInv, TypeOK
  <2> HIDE DEF F, now, ig
  <2> QED
    BY <1>1, <2>1, <2>2, MergeUnique
<1> DEFINE Kept(q)  == q \in target /\ (q.cur = 1 => Survives(q, F, ig))
           Ends(q, r) == r \in Current(target) /\ ~ Survives(r, F, ig) /\ q = Closed(r, now)
           Opened(q, s) == /\ s \in F /\ Opens(s, F, target, ig)
                           /\ \E leg \in {"new", "upd"} : q = Fresh(s, now, leg, 1)
<1>5. \A q \in target' : Kept(q) \/ (\E r : Ends(q, r)) \/ \E s : Opened(q, s)
  BY <1>1
<1>6. \A q, r : Ends(q, r) =>
        /\ r \in target /\ r.cur = 1 /\ q.key = r.key /\ q.cur = 0
        /\ q.start = r.start /\ q.end = now - 1
  BY <1>1, ClosedRow DEF Current
<1>7. \A q, s : Opened(q, s) =>
        q.key = s.key /\ q.cur = 1 /\ q.start = now /\ q.end = Forever
  BY FreshRow
<1>8. \A q, s : Opened(q, s) => s \in F /\ Opens(s, F, target, ig)
  OBVIOUS
<1>9. \A p, q, r : Kept(p) /\ Ends(q, r) => p # r
  BY DEF Current
<1>10. \A p, q, s : Kept(p) /\ Opened(q, s) /\ p.key = q.key => p.cur # 1
  BY <1>7 DEF Opens, Current
<1>11. \A p, q, r1, r2 : Ends(p, r1) /\ Ends(q, r2) /\ r1 = r2 => p = q
  OBVIOUS
<1>12. \A p : Kept(p) => p \in target
  OBVIOUS
<1> HIDE DEF Kept, Ends, Opened, F, now, ig
<1>13. Before(target', clock)
  <2>1. ASSUME NEW q \in target'
        PROVE  q.start < clock /\ (q.cur # 1 => q.start =< q.end /\ q.end + 1 < clock)
    <3>1. CASE Kept(q)
      BY <1>2, <1>12, <3>1 DEF Before
    <3>2. ASSUME NEW r, Ends(q, r)
          PROVE  q.start < clock /\ (q.cur # 1 => q.start =< q.end /\ q.end + 1 < clock)
      BY <1>1, <1>2, <1>3, <1>6, <3>2 DEF Before
    <3>3. ASSUME NEW s, Opened(q, s)
          PROVE  q.start < clock /\ (q.cur # 1 => q.start =< q.end /\ q.end + 1 < clock)
      BY <1>1, <1>7, <3>3
    <3> QED
      BY <1>5, <3>1, <3>2, <3>3
  <2> QED
    BY <2>1 DEF Before
<1>14. Disjoint(target')
  <2> SUFFICES ASSUME NEW p \in target', NEW q \in target', p # q, p.key = q.key
               PROVE  p.end < q.start \/ q.end < p.start
    BY DEF Disjoint
  <2>1. CASE Kept(p) /\ Kept(q)
    BY <1>2, <1>12, <2>1 DEF Disjoint
  <2>2. ASSUME NEW x, NEW y, NEW r, Kept(x), Ends(y, r), x.key = y.key
        PROVE  x.end < y.start
    <3>1. x # r /\ x.key = r.key /\ x \in target /\ r \in target /\ r.end = Forever
      BY <1>3, <1>6, <1>9, <1>12, <2>2
    <3>2. x.end < r.start \/ r.end < x.start
      BY <1>2, <3>1 DEF Disjoint
    <3>3. x.start < clock
      BY <1>2, <3>1 DEF Before
    <3>4. ~ Forever < x.start
      BY <1>1, <1>3, <3>1, <3>3 DEF Forever
    <3> QED
      BY <1>6, <2>2, <3>1, <3>2, <3>4
  <2>3. ASSUME NEW x, NEW y, NEW s, Kept(x), Opened(y, s), x.key = y.key
        PROVE  x.end < y.start
    <3>1. x \in target /\ x.cur # 1
      BY <1>10, <1>12, <2>3
    <3>2. x.end + 1 < now
      BY <1>2, <3>1 DEF Before
    <3> QED
      BY <1>1, <1>3, <1>7, <2>3, <3>1, <3>2
  <2>4. ASSUME NEW x, NEW y, NEW r, NEW s, Ends(x, r), Opened(y, s)
        PROVE  x.end < y.start
    BY <1>1, <1>6, <1>7, <2>4
  <2>5. ASSUME NEW r1, NEW r2, Ends(p, r1), Ends(q, r2)
        PROVE  FALSE
    <3>1. r1 \in Current(target) /\ r2 \in Current(target) /\ r1.key = r2.key
      BY <1>6, <2>5 DEF Current
    <3> QED
      BY <1>1, <1>11, <2>5, <3>1 DEF DuplicateKeys
  <2>6. ASSUME NEW s1, NEW s2, Opened(p, s1), Opened(q, s2)
        PROVE  FALSE
    <3>1. p \in Current(target') /\ q \in Current(target')
      BY <1>7, <2>6 DEF Current
    <3> QED
      BY <1>4, <3>1 DEF DuplicateKeys
  <2>7. Kept(p) \/ (\E r : Ends(p, r)) \/ \E s : Opened(p, s)
    BY <1>5
  <2>8. Kept(q) \/ (\E r : Ends(q, r)) \/ \E s : Opened(q, s)
    BY <1>5
  <2> QED
    BY <2>1, <2>2, <2>3, <2>4, <2>5, <2>6, <2>7, <2>8
<1> QED
  BY <1>13, <1>14

LEMMA PhotoDisjoint ==
  ASSUME NEW F \in SUBSET Rows, ~ DuplicateKeys(F), NEW now \in 0 .. MaxRuns
  PROVE  Disjoint(Photo(F, now)) /\ Before(Photo(F, now), now + 1)
<1>1. ~ DuplicateKeys(Photo(F, now))
  BY PhotoUnique
<1>2. \A r \in Photo(F, now) : r.cur = 1 /\ r.start = now
  BY PhotoRows
<1> QED
  BY <1>1, <1>2 DEF Disjoint, Before, DuplicateKeys

LEMMA BeforeLater ==
  ASSUME NEW T \in SUBSET TargetRows, NEW t \in Int, NEW u \in Int, t =< u, Before(T, t)
  PROVE  Before(T, u)
<1>1. \A r \in T : r.start \in Int /\ r.end \in Int
  BY DEF TargetRows
<1> QED
  BY <1>1 DEF Before

LEMMA SerialInvariant ==
  ASSUME NullKeys = {}, Scope = Vals, OneJob
  PROVE  Spec => []SerialInv
<1> USE TimeAssumption
<1>1. Init => SerialInv
  <2> SUFFICES ASSUME Init PROVE SerialInv
    OBVIOUS
  <2>1. PICK F \in Feeds : target = Photo(F, 0)
    <3>1. {} \in Feeds /\ Photo({}, 0) = {}
      BY DEF Feeds, DuplicateKeys, Photo
    <3> QED
      BY <3>1 DEF Init
  <2>2. Disjoint(target) /\ Before(target, 1)
    BY <2>1, PhotoDisjoint DEF Feeds
  <2> QED
    BY <2>2 DEF Init, SerialInv, Pending, Ended
<1>2. LoadInv /\ SerialInv /\ [Next]_vars => SerialInv'
  <2> SUFFICES ASSUME LoadInv, SerialInv, [Next]_vars
               PROVE  SerialInv'
    OBVIOUS
  <2>0. CASE UNCHANGED vars
    BY <2>0 DEF vars, SerialInv, Disjoint, Before, Pending
  <2>1. ASSUME NEW j \in Jobs, WritePhoto(j)
        PROVE  SerialInv'
    <3>1. /\ target' = Photo(job[j].feed, job[j].cts)
          /\ clock' = clock /\ clock \in Int
          /\ job[j].cts \in 0 .. MaxRuns /\ job[j].cts + 1 =< clock
          /\ job[j].feed \in SUBSET Rows /\ ~ DuplicateKeys(job[j].feed)
      BY <2>1 DEF WritePhoto, LoadInv, TypeInv, TypeOK, Stamped, UniqueInv, CleanFeeds, InFlight
    <3>2. target' \in SUBSET TargetRows
      BY <3>1, PhotoType
    <3>3. \A i \in Jobs : ~ Pending(i)'
      BY <2>1 DEF WritePhoto, Goto, Pending, LoadInv, TypeInv, TypeOK, OneJob
    <3>4. Disjoint(target') /\ Before(target', clock)
      BY <3>1, <3>2, PhotoDisjoint, BeforeLater
    <3> QED
      BY <3>1, <3>3, <3>4 DEF SerialInv, Disjoint, Before
  <2>2. ASSUME NEW j \in Jobs, Merge(j)
        PROVE  SerialInv'
    <3>1. clock' = clock /\ \A i \in Jobs : ~ Pending(i)'
      BY <2>2 DEF Merge, Goto, Pending, LoadInv, TypeInv, TypeOK, OneJob
    <3> QED
      BY <2>2, <3>1, MergeDisjoint DEF SerialInv, Disjoint, Before
  <2>3. ASSUME NEW j \in Jobs, Inspect(j)
        PROVE  SerialInv'
    <3>1. /\ target' = target /\ target \in SUBSET TargetRows
          /\ clock \in Int /\ clock' = clock + 1
          /\ \A i \in Jobs : Pending(i)' => job'[i].cts = clock
      BY <2>3 DEF Inspect, LoadInv, TypeInv, TypeOK, OneJob
    <3>2. Before(target, clock + 1)
      BY <3>1, BeforeLater DEF SerialInv
    <3> QED
      BY <3>1, <3>2 DEF SerialInv, Disjoint, Before
  <2>4. ASSUME NEW j \in Jobs,
               \/ Start(j) \/ CheckSource(j) \/ RejectSource(j) \/ MergeRefused(j)
               \/ RowCount(j) \/ CheckCurrent(j) \/ CheckBounds(j) \/ Abort(j)
        PROVE  SerialInv'
    <3>1. target' = target /\ clock' = clock
      BY <2>4 DEF Start, CheckSource, RejectSource, MergeRefused, RowCount, CheckCurrent,
                  CheckBounds, Abort
    <3>2. \A i \in Jobs : ~ Pending(i)'
      <4>1. CASE Start(j)
        BY <4>1 DEF Start, Pending, LoadInv, TypeInv, TypeOK, OneJob
      <4>2. CASE CheckSource(j)
        BY <4>2 DEF CheckSource, Goto, Pending, LoadInv, TypeInv, TypeOK, OneJob
      <4>3. CASE RowCount(j) \/ CheckCurrent(j)
        BY <4>3 DEF RowCount, CheckCurrent, Goto, End, Ended, Pending, LoadInv, TypeInv,
                    TypeOK, OneJob
      <4>4. CASE RejectSource(j) \/ MergeRefused(j) \/ CheckBounds(j) \/ Abort(j)
        BY <4>4 DEF RejectSource, MergeRefused, CheckBounds, Abort, End, Ended, Pending,
                    LoadInv, TypeInv, TypeOK, OneJob
      <4> QED
        BY <2>4, <4>1, <4>2, <4>3, <4>4
    <3> QED
      BY <3>1, <3>2 DEF SerialInv, Disjoint, Before
  <2> QED
    BY <2>0, <2>1, <2>2, <2>3, <2>4 DEF Next, Step
<1>3. Spec => []LoadInv
  BY LoadInvariant
<1> QED
  BY <1>1, <1>2, <1>3, PTL DEF Spec

\* With one job, the versions of a key are disjoint intervals of the clock.
THEOREM TimelineAlways ==
  ASSUME NullKeys = {}, Scope = Vals, OneJob
  PROVE  Spec => []Timeline
<1>1. LoadInv /\ SerialInv => Timeline
  <2> SUFFICES ASSUME LoadInv, SerialInv PROVE Timeline
    OBVIOUS
  <2>1. clock \in 1 .. MaxRuns + 1 /\ target \in SUBSET TargetRows
    BY DEF LoadInv, TypeInv, TypeOK
  <2>2. ASSUME NEW r \in target
        PROVE  r.start =< r.end /\ (r.cur = 1 <=> r.end = Forever)
    <3>1. r.start \in Int /\ r.end \in Int /\ r.start =< MaxRuns
      BY <2>1, TimeAssumption DEF TargetRows, NullTime
    <3>2. r.cur = 1 => r.end = Forever
      BY DEF LoadInv, BoundsInv, EndsOK, EndsIn
    <3>3. r.cur # 1 => r.start =< r.end /\ r.end + 1 < clock
      BY DEF SerialInv, Before
    <3> QED
      BY <2>1, <3>1, <3>2, <3>3, TimeAssumption DEF Forever
  <2> QED
    BY <2>2 DEF Timeline, SerialInv, Disjoint
<1>2. Spec => []LoadInv
  BY LoadInvariant
<1>3. Spec => []SerialInv
  BY SerialInvariant
<1> QED
  BY <1>1, <1>2, <1>3, PTL

\* With one job, each load done is later than every version it finds live.
THEOREM RefinesHistoryAlways ==
  ASSUME NullKeys = {}, Scope = Vals, OneJob
  PROVE  Spec => RefinesHistory
<1>1. Init => SerialHistory!Init
  BY InitOfHistory DEF SerialHistory!Init
<1>2. LoadInv /\ SerialInv /\ [Next]_vars => [SerialHistory!Next]_(SerialHistory!vars)
  <2> SUFFICES ASSUME LoadInv, SerialInv, [Next]_vars
               PROVE  SerialHistory!Next \/ UNCHANGED SerialHistory!vars
    OBVIOUS
  <2>1. CASE live' = live /\ past' = past /\ asked' = asked
    BY <2>1 DEF SerialHistory!vars
  <2>2. ASSUME NEW load \in [feed : Feeds, full : BOOLEAN, at : 1 .. MaxRuns],
               live' = live /\ past' = past /\ asked' = asked \cup {load}
        PROVE  SerialHistory!Next
    BY <2>2 DEF SerialHistory!Next, SerialHistory!Ask
  <2>3. ASSUME NEW load \in asked, Loaded(load), asked' = asked \ {load}
        PROVE  SerialHistory!Load(load)
    <3>1. PICK j \in Jobs : Pending(j) /\ load.at = job[j].cts
      BY AskedLoads DEF LoadOf
    <3>2. \A v \in live : v.from < load.at
      BY <3>1 DEF SerialInv, Before, live, Current
    <3> QED
      BY <2>3, <3>2 DEF SerialHistory!Load, SerialHistory!Kept, Loaded, Keeps
  <2>4. ASSUME NEW load \in asked,
               live' = live /\ past' = past /\ asked' = asked \ {load}
        PROVE  SerialHistory!Drop(load)
    BY <2>4 DEF SerialHistory!Drop
  <2> QED
    BY <2>1, <2>2, <2>3, <2>4, StepOfHistory DEF SerialHistory!Next
<1>3. Spec => []LoadInv
  BY LoadInvariant
<1>4. Spec => []SerialInv
  BY SerialInvariant
<1> QED
  BY <1>1, <1>2, <1>3, <1>4, PTL DEF Spec, RefinesHistory, SerialHistory!Spec

\* A job that has committed and not yet validated.
Committed(j) == job[j].pc \in {"count", "current", "bounds"}

LEMMA MergeDelivers ==
  ASSUME NullKeys = {}, Scope = Vals, LoadInv, NEW j \in Jobs, Merge(j)
  PROVE  /\ \A s \in job[j].feed :
              \E r \in Current(target') : r.key = s.key /\ r.cs = CsOf[s.val]
         /\ job[j].type = "scd2" =>
              \A r \in Current(target') : \E s \in job[j].feed : s.key = r.key
<1> DEFINE F == job[j].feed
           now == job[j].cts
           ig == job[j].type = "scd2_no_delete"
<1>1. /\ target \in SUBSET TargetRows /\ ~ DuplicateKeys(F)
      /\ \A q \in target' :
           \/ q \in target /\ (q.cur = 1 => Survives(q, F, ig))
           \/ \E r \in Current(target) : ~ Survives(r, F, ig) /\ q = Closed(r, now)
           \/ \E s \in F, leg \in {"new", "upd"} :
                Opens(s, F, target, ig) /\ q = Fresh(s, now, leg, 1)
      /\ \A r \in target : (r.cur = 1 /\ ~ Survives(r, F, ig)) \/ r \in target'
      /\ \A s \in F : Opens(s, F, target, ig) =>
           \E leg \in {"new", "upd"} : Fresh(s, now, leg, 1) \in target'
  BY MergeStep DEF LoadInv, RowInv
<1> HIDE DEF F, now
<1>2. ASSUME NEW s \in F
      PROVE  \E r \in Current(target') : r.key = s.key /\ r.cs = CsOf[s.val]
  <2>1. CASE Opens(s, F, target, ig)
    <3>1. PICK leg : Fresh(s, now, leg, 1) \in target'
      BY <1>1, <2>1
    <3> QED
      BY <3>1, FreshRow DEF Current
  <2>2. CASE ~ Opens(s, F, target, ig)
    <3>1. PICK r \in Current(target) : r.key = s.key /\ Survives(r, F, ig)
      BY <2>2 DEF Opens
    <3>2. r.cs = CsOf[s.val]
      BY <1>1, <3>1 DEF Survives, DuplicateKeys
    <3>3. r \in Current(target')
      BY <1>1, <3>1 DEF Current
    <3> QED
      BY <3>1, <3>2, <3>3
  <2> QED
    BY <2>1, <2>2
<1>3. ASSUME job[j].type = "scd2", NEW q \in Current(target')
      PROVE  \E s \in F : s.key = q.key
  <2>1. q \in target' /\ q.cur = 1 /\ ~ ig
    BY <1>3 DEF Current
  <2>2. CASE Survives(q, F, ig)
    BY <2>1, <2>2 DEF Survives
  <2>3. CASE \E r \in Current(target) : q = Closed(r, now)
    BY <1>1, <2>1, <2>3, ClosedRow DEF Current
  <2>4. CASE \E s \in F, leg \in {"new", "upd"} : q = Fresh(s, now, leg, 1)
    BY <2>4, FreshRow
  <2> QED
    BY <1>1, <2>1, <2>2, <2>3, <2>4
<1> QED
  BY <1>2, <1>3 DEF F

LEMMA PhotoDelivers ==
  ASSUME NEW F, NEW now
  PROVE  /\ \A s \in F :
              \E r \in Current(Photo(F, now)) : r.key = s.key /\ r.cs = CsOf[s.val]
         /\ \A r \in Current(Photo(F, now)) : \E s \in F : s.key = r.key
<1>1. ASSUME NEW s \in F
      PROVE  \E r \in Current(Photo(F, now)) : r.key = s.key /\ r.cs = CsOf[s.val]
  <2>1. Fresh(s, now, "new", 1) \in Current(Photo(F, now))
    BY FreshRow DEF Photo, Current
  <2> QED
    BY <2>1, FreshRow
<1>2. \A r \in Current(Photo(F, now)) : \E s \in F : s.key = r.key
  BY PhotoRows DEF Current
<1> QED
  BY <1>1, <1>2

\* A full snapshot delivered has as many rows as the table has current rows.
LEMMA CountsMatch ==
  ASSUME IsFiniteSet(Keys), NEW F \in SUBSET Rows, NEW C,
         ~ DuplicateKeys(F), ~ DuplicateKeys(C),
         \A s \in F : \E r \in C : r.key = s.key,
         \A r \in C : \E s \in F : s.key = r.key
  PROVE  Cardinality(F) = Cardinality(C)
<1> DEFINE K == {s.key : s \in F}
           f == [s \in F |-> s.key]
           g == [r \in C |-> r.key]
<1>1. K \subseteq Keys
  BY DEF Rows
<1>2. IsFiniteSet(K)
  BY <1>1, FS_Subset
<1>3. f \in Injection(F, K) /\ f \in Surjection(F, K)
  BY DEF Injection, Surjection, IsInjective, DuplicateKeys
<1>4. g \in Injection(C, K) /\ g \in Surjection(C, K)
  <2>1. \A r \in C : r.key \in K
    OBVIOUS
  <2>2. \A k \in K : \E r \in C : r.key = k
    OBVIOUS
  <2> HIDE DEF K
  <2> QED
    BY <2>1, <2>2 DEF Injection, Surjection, IsInjective, DuplicateKeys
<1> HIDE DEF K, f, g
<1>5. Cardinality(F) = Cardinality(K)
  BY <1>2, <1>3, FS_Injection
<1>6. Cardinality(C) = Cardinality(K)
  BY <1>2, <1>4, FS_Injection
<1> QED
  BY <1>5, <1>6

\* A call that has committed is delivered, and is never told otherwise, as far as
\* the rows of a table can be counted.
SilentInv == Delivered /\ (IsFiniteSet(Keys) => GuardsSilent)

LEMMA SilentInvariant ==
  ASSUME NullKeys = {}, Scope = Vals, OneJob
  PROVE  Spec => []SilentInv
<1>1. Init => SilentInv
  BY DEF Init, SilentInv, Delivered, GuardsSilent, Ended
<1>2. LoadInv /\ SilentInv /\ [Next]_vars => SilentInv'
  <2> SUFFICES ASSUME LoadInv, SilentInv, [Next]_vars
               PROVE  SilentInv'
    OBVIOUS
  <2>0. CASE UNCHANGED vars
    BY <2>0 DEF vars, SilentInv, Delivered, GuardsSilent, Current
  <2>1. ASSUME NEW j \in Jobs, WritePhoto(j)
        PROVE  SilentInv'
    <3>1. /\ target' = Photo(job[j].feed, job[j].cts)
          /\ \A i \in Jobs : i = j
          /\ job'[j].feed = job[j].feed /\ job'[j].pc = "count"
      BY <2>1 DEF WritePhoto, Goto, LoadInv, TypeInv, TypeOK, OneJob
    <3> QED
      BY <3>1, PhotoDelivers DEF SilentInv, Delivered, GuardsSilent, Current
  <2>2. ASSUME NEW j \in Jobs, Merge(j)
        PROVE  SilentInv'
    <3>1. /\ \A i \in Jobs : i = j
          /\ job'[j].feed = job[j].feed /\ job'[j].pc = "count" /\ job'[j].type = job[j].type
      BY <2>2 DEF Merge, Goto, LoadInv, TypeInv, TypeOK, OneJob
    <3> QED
      BY <2>2, <3>1, MergeDelivers DEF SilentInv, Delivered, GuardsSilent, Current
  <2>3. ASSUME NEW j \in Jobs, RowCount(j)
        PROVE  SilentInv'
    <3>1. IsFiniteSet(Keys) => Counted(j)
      <4> SUFFICES ASSUME IsFiniteSet(Keys) PROVE Counted(j)
        OBVIOUS
      <4>1. CASE job[j].type = "scd2"
        <5>1. /\ \A s \in job[j].feed : \E r \in Current(target) : r.key = s.key
              /\ \A r \in Current(target) : \E s \in job[j].feed : s.key = r.key
          BY <2>3, <4>1 DEF RowCount, SilentInv, Delivered
        <5>2. /\ job[j].feed \in SUBSET Rows /\ ~ DuplicateKeys(job[j].feed)
              /\ ~ DuplicateKeys(Current(target))
          BY <2>3 DEF RowCount, LoadInv, TypeInv, TypeOK, UniqueInv, UniqueCurrent,
                      CleanFeeds, InFlight
        <5>3. Cardinality(job[j].feed) = Cardinality(Current(target))
          BY <5>1, <5>2, CountsMatch
        <5> QED
          BY <5>3 DEF Counted
      <4> QED
        BY <4>1 DEF Counted
    <3>2. /\ target' = target /\ \A i \in Jobs : i = j
          /\ \/ job' = [job EXCEPT ![j].pc = "current"]
             \/ ~ IsFiniteSet(Keys) /\ job' = [job EXCEPT ![j] = Ended("miscounted")]
      BY <2>3, <3>1 DEF RowCount, Goto, End, OneJob
    <3> QED
      BY <2>3, <3>2
         DEF Ended, RowCount, LoadInv, TypeInv, TypeOK, SilentInv, Delivered, GuardsSilent, Current
  <2>4. ASSUME NEW j \in Jobs, CheckCurrent(j)
        PROVE  SilentInv'
    <3>1. /\ target' = target /\ \A i \in Jobs : i = j
          /\ job' = [job EXCEPT ![j].pc = "bounds"]
      BY <2>4 DEF CheckCurrent, Goto, OneJob, LoadInv, UniqueInv, UniqueCurrent
    <3> QED
      BY <2>4, <3>1
         DEF CheckCurrent, LoadInv, TypeInv, TypeOK, SilentInv, Delivered, GuardsSilent, Current
  <2>5. ASSUME NEW j \in Jobs, CheckBounds(j)
        PROVE  SilentInv'
    <3>1. /\ target' = target /\ \A i \in Jobs : i = j
          /\ job' = [job EXCEPT ![j] = Ended("ok")]
      BY <2>5 DEF CheckBounds, End, OneJob, LoadInv, BoundsInv, UniqueBounds
    <3> QED
      BY <3>1 DEF LoadInv, TypeInv, TypeOK, SilentInv, Delivered, GuardsSilent, Ended
  <2>6. ASSUME NEW j \in Jobs,
               \/ Start(j) \/ CheckSource(j) \/ RejectSource(j) \/ Inspect(j)
               \/ MergeRefused(j) \/ Abort(j)
        PROVE  SilentInv'
    <3>1. job'[j].pc \in {"check", "inspect", "rejected", "photo", "merge", "aborted"}
      <4>1. CASE Start(j)
        BY <4>1 DEF Start, LoadInv, TypeInv, TypeOK
      <4>2. CASE CheckSource(j)
        BY <4>2 DEF CheckSource, Goto, LoadInv, TypeInv, TypeOK
      <4>3. CASE Inspect(j)
        BY <4>3 DEF Inspect, LoadInv, TypeInv, TypeOK
      <4>4. CASE RejectSource(j) \/ MergeRefused(j) \/ Abort(j)
        BY <4>4 DEF RejectSource, MergeRefused, Abort, End, Ended, LoadInv, TypeInv, TypeOK
      <4> QED
        BY <2>6, <4>1, <4>2, <4>3, <4>4
    <3>2. \A i \in Jobs : i = j
      BY DEF OneJob
    <3> QED
      BY <3>1, <3>2 DEF SilentInv, Delivered, GuardsSilent
  <2> QED
    BY <2>0, <2>1, <2>2, <2>3, <2>4, <2>5, <2>6 DEF Next, Step
<1>3. Spec => []LoadInv
  BY LoadInvariant
<1> QED
  BY <1>1, <1>2, <1>3, PTL DEF Spec

\* With one job, the table a call has just committed is what its source says.
THEOREM DeliveredAlways ==
  ASSUME NullKeys = {}, Scope = Vals, OneJob
  PROVE  Spec => []Delivered
<1>1. SilentInv => Delivered
  BY DEF SilentInv
<1> QED
  BY <1>1, SilentInvariant, PTL

\* With one job, the validation after the commit has nothing to report: neither
\* the row count nor the duplicate checks ever fail a call whose MERGE went through.
THEOREM GuardsAlwaysSilent ==
  ASSUME NullKeys = {}, Scope = Vals, OneJob, IsFiniteSet(Keys)
  PROVE  Spec => []GuardsSilent
<1>1. SilentInv => GuardsSilent
  BY IsFiniteSet(Keys) DEF SilentInv
<1> QED
  BY <1>1, SilentInvariant, PTL

(***************************************************************************)
(* When versions begin.  A call stamps what it inserts with an instant no  *)
(* row on file has, whatever the order in which the calls commit.          *)
(***************************************************************************)
\* Of each key, one row at most begins at an instant.
UniqueStarts(T) == \A q, r \in T : q.key = r.key /\ q.start = r.start => q = r

\* A version that begins where another of its key has ended has another checksum.
SuccessorsDiffer(T) == \A q, r \in T : q.key = r.key /\ q.end + 1 = r.start => q.cs # r.cs

StartsOK ==
  /\ \A r \in target : r.start < clock
  /\ \A j \in Jobs : Pending(j) => \A r \in target : r.start # job[j].cts

StartsInv == StartsOK /\ UniqueStarts(target) /\ SuccessorsDiffer(target)

LEMMA MergeStarts ==
  ASSUME NullKeys = {}, Scope = Vals,
         TypeInv, UniqueInv, UniqueCurrent', RowInv, BoundsInv, StartsInv,
         NEW j \in Jobs, Merge(j)
  PROVE  /\ \A r \in target' : r.start = job[j].cts \/ \E q \in target : q.start = r.start
         /\ UniqueStarts(target') /\ SuccessorsDiffer(target')
<1> DEFINE F == job[j].feed
           now == job[j].cts
           ig == job[j].type = "scd2_no_delete"
           Old(q) == q \in target /\ (q.cur = 1 => Survives(q, F, ig))
           Past(q) == \E r \in Current(target) : ~ Survives(r, F, ig) /\ q = Closed(r, now)
           New(q) == \E s \in F, leg \in {"new", "upd"} :
                       Opens(s, F, target, ig) /\ q = Fresh(s, now, leg, 1)
<1>1. /\ target \in SUBSET TargetRows
      /\ now \in 1 .. clock - 1 /\ clock \in 1 .. MaxRuns + 1
      /\ \A q \in target' : Old(q) \/ Past(q) \/ New(q)
  BY MergeStep DEF RowInv
<1>2. Pending(j) /\ ~ DuplicateKeys(F)
  BY DEF Merge, Pending, UniqueInv, CleanFeeds, InFlight
<1>3. /\ \A r \in target : r.start < clock /\ r.start # now
      /\ \A r \in target : r.start \in Int /\ r.end \in Int
      /\ \A r \in target : r.cur = 1 => r.end = Forever
      /\ \A r \in target : r.cur # 1 => r.end # now - 1
  BY <1>1, <1>2 DEF StartsInv, StartsOK, BoundsInv, EndsOK, EndsIn, PendingOK, PendingIn, TargetRows,
                    Forever, NullTime
<1> HIDE DEF F, now, ig
<1>4. ASSUME NEW q, Past(q)
      PROVE  \E r \in target :
               /\ r.cur = 1 /\ ~ Survives(r, F, ig) /\ q = Closed(r, now)
               /\ q.key = r.key /\ q.start = r.start /\ q.cs = r.cs /\ q.end = now - 1
  BY <1>1, <1>4, ClosedRow DEF Current
<1>5. ASSUME NEW q, New(q)
      PROVE  /\ q.cur = 1 /\ q.start = now /\ q.end = Forever
             /\ \E s \in F : q.key = s.key /\ q.cs = CsOf[s.val]
  BY <1>5, FreshRow
<1> HIDE DEF Past, New
<1>6. ASSUME NEW q \in target', NEW r \in target', q.key = r.key, q.start = r.start
      PROVE  q = r
  <2>1. CASE New(q) /\ New(r)
    <3>1. q \in Current(target') /\ r \in Current(target')
      BY <1>5, <2>1 DEF Current
    <3> QED
      BY <1>6, <3>1 DEF UniqueCurrent, DuplicateKeys
  <2>2. ASSUME NEW x, NEW y, Old(x) \/ Past(x), New(y), x.start = y.start
        PROVE  FALSE
    BY <1>3, <1>4, <1>5, <2>2
  <2>3. CASE Old(q) /\ Old(r)
    BY <1>6, <2>3 DEF StartsInv, UniqueStarts
  <2>4. CASE Past(q) /\ Past(r)
    BY <1>4, <1>6, <2>4 DEF StartsInv, UniqueStarts
  <2>5. ASSUME NEW x, NEW y, Old(x), Past(y), x.key = y.key, x.start = y.start
        PROVE  FALSE
    <3>1. PICK z \in target : /\ z.cur = 1 /\ ~ Survives(z, F, ig)
                              /\ y.key = z.key /\ y.start = z.start
      BY <1>4, <2>5
    <3>2. x = z
      BY <2>5, <3>1 DEF StartsInv, UniqueStarts
    <3> QED
      BY <2>5, <3>1, <3>2
  <2> QED
    BY <1>1, <1>6, <2>1, <2>2, <2>3, <2>4, <2>5
<1>7. ASSUME NEW q \in target', NEW r \in target', q.key = r.key, q.end + 1 = r.start
      PROVE  q.cs # r.cs
  <2>1. \/ r.start = now
        \/ \E x \in target : r.key = x.key /\ r.start = x.start /\ r.cs = x.cs
    BY <1>1, <1>4, <1>5
  <2>2. r.start \in Int /\ r.start < clock
    BY <1>1, <1>3, <2>1
  <2>3. q.end # Forever
    BY <1>1, <1>7, <2>2, TimeAssumption DEF Forever
  <2>4. CASE Old(q)
    <3>1. r.start # now
      BY <1>1, <1>3, <1>7, <2>3, <2>4
    <3>2. PICK x \in target : r.key = x.key /\ r.start = x.start /\ r.cs = x.cs
      BY <2>1, <3>1
    <3> QED
      BY <1>7, <2>4, <3>2 DEF StartsInv, SuccessorsDiffer
  <2>5. CASE Past(q)
    <3>1. PICK z \in target :
            /\ z.cur = 1 /\ ~ Survives(z, F, ig)
            /\ q.key = z.key /\ q.cs = z.cs /\ q.end = now - 1
      BY <1>4, <2>5
    <3>2. r.start = now
      BY <1>1, <1>7, <3>1
    <3>3. New(r)
      BY <1>1, <1>3, <1>4, <3>2
    <3>4. PICK s \in F : r.key = s.key /\ r.cs = CsOf[s.val]
      BY <1>5, <3>3
    <3> QED
      BY <1>7, <3>1, <3>4 DEF Survives
  <2> QED
    BY <1>1, <1>5, <2>3, <2>4, <2>5
<1>8. \A r \in target' : r.start = now \/ \E q \in target : q.start = r.start
  BY <1>1, <1>4, <1>5
<1> QED
  BY <1>6, <1>7, <1>8 DEF UniqueStarts, SuccessorsDiffer, now

LEMMA PhotoStarts ==
  ASSUME NEW F, ~ DuplicateKeys(F), NEW now \in 0 .. MaxRuns
  PROVE  UniqueStarts(Photo(F, now)) /\ SuccessorsDiffer(Photo(F, now))
<1>1. UniqueStarts(Photo(F, now))
  BY PhotoUnique DEF UniqueStarts, DuplicateKeys
<1>2. \A r \in Photo(F, now) : r.end = Forever /\ r.start = now
  BY PhotoRows
<1>3. Forever + 1 # now
  BY TimeAssumption DEF Forever
<1> QED
  BY <1>1, <1>2, <1>3 DEF SuccessorsDiffer

LEMMA StartsInvariant ==
  ASSUME NullKeys = {}, Scope = Vals
  PROVE  Spec => []StartsInv
<1>1. Init => StartsInv
  <2> SUFFICES ASSUME Init PROVE StartsInv
    OBVIOUS
  <2>1. PICK F \in Feeds : target = Photo(F, 0)
    <3>1. {} \in Feeds /\ Photo({}, 0) = {}
      BY DEF Feeds, DuplicateKeys, Photo
    <3> QED
      BY <3>1 DEF Init
  <2>2. \A r \in target : r.start = 0
    BY <2>1, PhotoRows
  <2>3. 0 \in 0 .. MaxRuns
    BY TimeAssumption
  <2>4. UniqueStarts(target) /\ SuccessorsDiffer(target)
    BY <2>1, <2>3, PhotoStarts DEF Feeds
  <2> QED
    BY <2>2, <2>4 DEF Init, StartsInv, StartsOK, Pending, Ended
<1>2. TypeInv /\ UniqueInv /\ UniqueInv' /\ RowInv /\ BoundsInv /\ StartsInv /\ [Next]_vars
        => StartsInv'
  <2> SUFFICES ASSUME TypeInv, UniqueInv, UniqueInv', RowInv, BoundsInv, StartsInv, [Next]_vars
               PROVE  StartsInv'
    OBVIOUS
  <2>0. CASE UNCHANGED vars
    BY <2>0 DEF vars, StartsInv, StartsOK, UniqueStarts, SuccessorsDiffer, Pending
  <2>1. ASSUME NEW j \in Jobs, Inspect(j)
        PROVE  StartsInv'
    <3>1. /\ target' = target
          /\ clock' = clock + 1 /\ clock \in Int
          /\ job'[j].cts = clock
          /\ \A i \in Jobs \ {j} : job'[i] = job[i]
      BY <2>1, TimeAssumption DEF Inspect, TypeInv, TypeOK
    <3>2. \A r \in target : r.start \in Int /\ r.start < clock
      BY DEF StartsInv, StartsOK, TypeInv, TypeOK, TargetRows
    <3>3. StartsOK'
      BY <3>1, <3>2 DEF StartsInv, StartsOK, Pending
    <3> QED
      BY <3>1, <3>3 DEF StartsInv, UniqueStarts, SuccessorsDiffer
  <2>2. ASSUME NEW j \in Jobs, WritePhoto(j) \/ Merge(j)
        PROVE  StartsInv'
    <3>1. /\ clock' = clock /\ clock \in Int /\ Pending(j)
          /\ job[j].cts \in 1 .. clock - 1 /\ job[j].cts \in 0 .. MaxRuns
          /\ \A i \in Jobs : Pending(i)' => Pending(i) /\ i # j /\ job'[i] = job[i]
      BY <2>2, TimeAssumption
         DEF WritePhoto, Merge, Goto, Pending, TypeInv, TypeOK, Stamped
    <3>2. /\ \A r \in target' : r.start = job[j].cts \/ \E q \in target : q.start = r.start
          /\ UniqueStarts(target') /\ SuccessorsDiffer(target')
      <4>1. CASE Merge(j)
        <5>1. UniqueCurrent'
          BY DEF UniqueInv
        <5> QED
          BY <4>1, <5>1, MergeStarts
      <4>2. CASE WritePhoto(j)
        <5>1. target' = Photo(job[j].feed, job[j].cts) /\ ~ DuplicateKeys(job[j].feed)
          BY <4>2 DEF WritePhoto, UniqueInv, CleanFeeds, InFlight
        <5> QED
          BY <3>1, <5>1, PhotoRows, PhotoStarts
      <4> QED
        BY <2>2, <4>1, <4>2
    <3>3. \A i \in Jobs : Pending(i)' => job'[i].cts # job[j].cts
      BY <3>1 DEF BoundsInv, PendingOK, PendingIn
    <3>4. \A r \in target : r.start < clock
      BY DEF StartsInv, StartsOK
    <3>5. StartsOK'
      BY <3>1, <3>2, <3>3, <3>4 DEF StartsInv, StartsOK
    <3> QED
      BY <3>2, <3>5 DEF StartsInv
  <2>3. ASSUME NEW j \in Jobs,
               \/ Start(j) \/ CheckSource(j) \/ RejectSource(j) \/ MergeRefused(j)
               \/ RowCount(j) \/ CheckCurrent(j) \/ CheckBounds(j) \/ Abort(j)
        PROVE  StartsInv'
    <3>1. target' = target /\ clock' = clock
      BY <2>3 DEF Start, CheckSource, RejectSource, MergeRefused, RowCount, CheckCurrent,
                  CheckBounds, Abort
    <3>2. \A i \in Jobs : Pending(i)' => job'[i] = job[i]
      <4>1. CASE Start(j)
        BY <4>1 DEF Start, Pending, TypeInv, TypeOK
      <4>2. CASE CheckSource(j)
        BY <4>2 DEF CheckSource, Goto, Pending, TypeInv, TypeOK
      <4>3. CASE RowCount(j) \/ CheckCurrent(j)
        BY <4>3 DEF RowCount, CheckCurrent, Goto, End, Ended, Pending, TypeInv, TypeOK
      <4>4. CASE RejectSource(j) \/ MergeRefused(j) \/ CheckBounds(j) \/ Abort(j)
        BY <4>4 DEF RejectSource, MergeRefused, CheckBounds, Abort, End, Ended, Pending,
                    TypeInv, TypeOK
      <4> QED
        BY <2>3, <4>1, <4>2, <4>3, <4>4
    <3> QED
      BY <3>1, <3>2 DEF StartsInv, StartsOK, UniqueStarts, SuccessorsDiffer, Pending
  <2> QED
    BY <2>0, <2>1, <2>2, <2>3 DEF Next, Step
<1>3. Spec => []RowInv
  BY RowInvariant
<1>4. Spec => []BoundsInv
  BY BoundsInvariant
<1>5. Spec => []UniqueInv
  BY UniqueInvariant
<1> QED
  BY <1>1, <1>2, <1>3, <1>4, <1>5, TypeInvariant, PTL DEF Spec

(***************************************************************************)
(* Tables of known columns: what checksums and surrogate keys say of them, *)
(* when texts are joined apart.                                            *)
(***************************************************************************)
LEMMA SameToken ==
  ASSUME NEW x, NEW y
  PROVE  Token(x) = Token(y) <=> x = y \/ {x, y} \subseteq Missing
  BY DEF Token, Missing

\* The checksums of two payloads are equal when, and only when, they agree in every
\* hashed column up to what is missing.
LEMMA SameCheckSum ==
  ASSUME Columnar, ChecksumsApart, NEW v \in Vals, NEW w \in Vals
  PROVE  CsOf[v] = CsOf[w] <=> Same(v, w)
<1> DEFINE T(u) == Tokens(u, Hashed)
<1>1. \A u \in Vals : CsOf[u] = Joined(T(u))
  BY DEF Columnar, CheckSums, CheckSum
<1>2. CsOf[v] = CsOf[w] <=> T(v) = T(w)
  BY <1>1 DEF ChecksumsApart, JoinedApart
<1>3. ASSUME T(v) = T(w), NEW c \in Hashed
      PROVE  Token(v[c]) = Token(w[c])
  <2>1. PICK i \in DOMAIN ByName : ByName[i] = c
    BY DEF Columnar, Business, ToSet
  <2>2. T(v)[i] = Token(v[c]) /\ T(w)[i] = Token(w[c])
    BY <2>1 DEF Tokens
  <2> QED
    BY <1>3, <2>2
<1>4. ASSUME \A c \in Hashed : Token(v[c]) = Token(w[c])
      PROVE  T(v) = T(w)
  BY <1>4 DEF Tokens
<1>5. Same(v, w) <=> \A c \in Hashed : Token(v[c]) = Token(w[c])
  BY SameToken DEF Same
<1> QED
  BY <1>2, <1>3, <1>4, <1>5

\* Of keys with as many texts, the key, the checksum and the time can be told from
\* what is hashed.
LEMMA SameDimTokens ==
  ASSUME Columnar, NEW k \in Keys, NEW l \in Keys, NEW c, NEW d, NEW t, NEW u,
         DimTokens(k, c, t) = DimTokens(l, d, u)
  PROVE  k = l /\ c = d /\ t = u
<1> DEFINE n == Len(k)
           Ids(x) == [i \in DOMAIN x |-> IF x[i] = SqlNull THEN "*" ELSE x[i]]
<1>1. /\ k \in Seq(ToSet(k) \ {SqlNull}) /\ l \in Seq(ToSet(l) \ {SqlNull})
      /\ Len(l) = n /\ n \in Nat
  BY DEF Columnar
<1>2. Ids(k) = k /\ Ids(l) = l
  <2>1. \A i \in DOMAIN k : k[i] # SqlNull
    BY <1>1
  <2>2. \A i \in DOMAIN l : l[i] # SqlNull
    BY <1>1
  <2> QED
    BY <1>1, <2>1, <2>2
<1>3. k \o <<c, t>> = l \o <<d, u>>
  BY <1>2 DEF DimTokens
<1> DEFINE V == ToSet(k) \cup ToSet(l) \cup {c, d, t, u}
<1>4. k \in Seq(V) /\ l \in Seq(V) /\ <<c, t>> \in Seq(V) /\ <<d, u>> \in Seq(V)
  <2>1. <<c, t>> \in Seq(V) /\ <<d, u>> \in Seq(V)
    OBVIOUS
  <2>2. k \in Seq(V)
    BY <1>1
  <2>3. l \in Seq(V)
    BY <1>1
  <2> QED
    BY <2>1, <2>2, <2>3
<1> HIDE DEF V
<1>5. \A i \in 1 .. n : k[i] = l[i]
  BY <1>1, <1>3, <1>4
<1>6. k = l
  BY <1>1, <1>4, <1>5
<1>7. (k \o <<c, t>>)[n + 1] = c /\ (k \o <<c, t>>)[n + 2] = t
  BY <1>1, <1>4
<1>8. (l \o <<d, u>>)[n + 1] = d /\ (l \o <<d, u>>)[n + 2] = u
  BY <1>1, <1>4
<1> QED
  BY <1>3, <1>6, <1>7, <1>8

\* What a committed load brings is current in every hashed column, and a version
\* only follows one it differs from: the checksum shows every difference.
THEOREM ChangesAlwaysSeen ==
  ASSUME NullKeys = {}, Scope = Vals, OneJob, Columnar, ChecksumsApart
  PROVE  Spec => []ChangesSeen
<1>1. TypeOK /\ RowInv /\ StartsInv /\ Delivered => ChangesSeen
  <2> SUFFICES ASSUME TypeOK, RowInv, StartsInv, Delivered
               PROVE  ChangesSeen
    OBVIOUS
  <2>1. \A r \in target : r.val \in Vals /\ r.cs = CsOf[r.val]
    BY DEF TypeOK, TargetRows, RowInv, Honest
  <2>2. ASSUME NEW j \in Jobs, job[j].pc \in {"count", "current", "bounds"},
               NEW s \in job[j].feed
        PROVE  \E r \in Current(target) : r.key = s.key /\ Same(r.val, s.val)
    <3>1. PICK r \in Current(target) : r.key = s.key /\ r.cs = CsOf[s.val]
      BY <2>2 DEF Delivered
    <3>2. r \in target /\ s.val \in Vals
      BY DEF Current, TypeOK, Rows
    <3> QED
      BY <2>1, <3>1, <3>2, SameCheckSum
  <2>3. ASSUME NEW q \in target, NEW r \in target, q.key = r.key, q.end + 1 = r.start
        PROVE  ~ Same(q.val, r.val)
    <3>1. q.cs # r.cs
      BY <2>3 DEF StartsInv, SuccessorsDiffer
    <3> QED
      BY <2>1, <3>1, SameCheckSum
  <2> QED
    BY <2>2, <2>3 DEF ChangesSeen
<1>2. Spec => []RowInv
  BY RowInvariant
<1>3. Spec => []StartsInv
  BY StartsInvariant
<1>4. Spec => []Delivered
  BY DeliveredAlways
<1> QED
  BY <1>1, <1>2, <1>3, <1>4, TypeCorrect, PTL

\* No two versions get one surrogate key, however many jobs load the table: those of
\* a key begin at different instants, and instant and key can be read off the text.
THEOREM SurrogateAlwaysUnique ==
  ASSUME NullKeys = {}, Scope = Vals, Columnar, SurrogatesApart
  PROVE  Spec => []SurrogateUnique
<1>1. TypeOK /\ RowInv /\ StartsInv => SurrogateUnique
  <2> SUFFICES ASSUME TypeOK, RowInv, StartsInv,
                      NEW q \in target, NEW r \in target, SurrogateKey(q) = SurrogateKey(r)
               PROVE  q = r
    BY DEF SurrogateUnique
  <2> DEFINE D == {DimTokens(k, CsOf[v], ToString(t))
                     : k \in Keys, v \in Vals, t \in NullTime .. MaxRuns}
             Of(x) == DimTokens(x.key, x.cs, ToString(x.start))
  <2>1. \A x \in target : /\ x.key \in Keys /\ x.val \in Vals /\ x.cs = CsOf[x.val]
                          /\ x.start \in NullTime .. MaxRuns
    BY DEF TypeOK, TargetRows, RowInv, Honest
  <2>2. Of(q) \in D /\ Of(r) \in D
    BY <2>1
  <2>3. Joined(Of(q)) = Joined(Of(r))
    BY DEF SurrogateKey, DimSk
  <2>4. Of(q) = Of(r)
    BY <2>2, <2>3 DEF SurrogatesApart, JoinedApart
  <2>5. q.key = r.key /\ ToString(q.start) = ToString(r.start)
    BY <2>1, <2>4, SameDimTokens
  <2>6. q.start = r.start
    BY <2>1, <2>5 DEF SurrogatesApart
  <2> QED
    BY <2>5, <2>6 DEF StartsInv, UniqueStarts
<1>2. Spec => []RowInv
  BY RowInvariant
<1>3. Spec => []StartsInv
  BY StartsInvariant
<1> QED
  BY <1>1, <1>2, <1>3, TypeCorrect, PTL

(***************************************************************************)
(* The failure that stays, whatever the keys and merge_cond are.  MERGE    *)
(* inserts a tombstone only when it cannot reach the row it should end,    *)
(* and no later MERGE reaches that row either.                             *)
(***************************************************************************)
\* MERGE can never end row r.
Unreachable(r) == r.key \in NullKeys \/ r.val \notin Scope

PoisonInv ==
  /\ \A r \in target : r.cur = 1 => r.end = Forever
  /\ \A t \in target : t.cs = Deleted =>
       /\ t.cur = 0 /\ t.end = Forever
       /\ \E r \in target : r.cur = 1 /\ Unreachable(r) /\ r.key = t.key

\* An inserted row is current or is the tombstone of a row out of reach.
LEMMA InsertedPoison ==
  ASSUME NEW F \in SUBSET Rows, NEW T \in SUBSET TargetRows, NEW now,
         NEW ignoreDelete \in BOOLEAN, NEW m \in Staged(F, T, now, ignoreDelete),
         \A r \in T : ~ Matched(r, m)
  PROVE  /\ Inserted(m).end = Forever
         /\ Inserted(m).cs = Deleted =>
              /\ Inserted(m).cur = 0
              /\ \E r \in Current(T) : Unreachable(r) /\ Inserted(m).key = r.key
<1>1. CASE m \in NewLeg(F, now)
  <2>1. PICK s \in F : m = [row |-> Fresh(s, now, "new", 1), mk |-> s.key]
    BY <1>1 DEF NewLeg
  <2> QED
    BY <2>1, ValsAssumption DEF Inserted, Fresh, Rows
<1>2. CASE m \in UpdLeg(F, T, now)
  <2>1. PICK s \in F : \E n \in 1 .. Cardinality(Stale(s, T)) :
          m = [row |-> Fresh(s, now, "upd", n), mk |-> Unkeyed]
    BY <1>2 DEF UpdLeg
  <2>2. PICK n : m = [row |-> Fresh(s, now, "upd", n), mk |-> Unkeyed]
    BY <2>1
  <2> QED
    BY <2>2, ValsAssumption DEF Inserted, Fresh, Rows
<1>3. CASE m \in DelLeg(F, T, now)
  <2> DEFINE Twins(r) == {x \in Absent(F, T) : x.key = r.key /\ x.val = r.val}
  <2>1. PICK r \in Absent(F, T) : \E n \in 1 .. Cardinality(Twins(r)) :
          m = [row |-> Tombstone(r, now, n), mk |-> r.key]
    BY <1>3 DEF DelLeg
  <2>2. PICK n : m = [row |-> Tombstone(r, now, n), mk |-> r.key]
    BY <2>1
  <2>3. r \in Current(T) /\ r \in T /\ r.cur = 1
    BY DEF Absent, Current
  <2>4. /\ Inserted(m).end = Forever /\ Inserted(m).cur = 0
        /\ Inserted(m).key = r.key
    BY <2>2, <2>3 DEF Inserted, Tombstone, TargetRows
  <2>5. Unreachable(r)
    BY <2>2, <2>3 DEF Matched, SqlEq, Unreachable
  <2> QED
    BY <2>3, <2>4, <2>5
<1> QED
  BY <1>1, <1>2, <1>3 DEF Staged

LEMMA MergePoison ==
  ASSUME TypeOK, PoisonInv, NEW j \in Jobs, Merge(j)
  PROVE  PoisonInv'
<1> DEFINE F == job[j].feed
           now == job[j].cts
           ig == job[j].type = "scd2_no_delete"
           M == Staged(F, target, now, ig)
<1>1. /\ target \in SUBSET TargetRows /\ F \in SUBSET Rows /\ ig \in BOOLEAN
      /\ target' = MergeInto(target, M, now)
  BY DEF Merge, StagedBy, TypeOK
<1>2. \A m \in M : (\A r \in target : ~ Matched(r, m)) =>
        /\ Inserted(m).end = Forever
        /\ Inserted(m).cs = Deleted =>
             /\ Inserted(m).cur = 0
             /\ \E r \in Current(target) : Unreachable(r) /\ Inserted(m).key = r.key
  <2> HIDE DEF F, now, ig
  <2> QED
    BY <1>1, InsertedPoison
<1> HIDE DEF F, now, ig, M
<1>3. \A r \in target : /\ r \in target' \/ Closed(r, now) \in target'
                        /\ r.cur # 1 \/ Unreachable(r) => r \in target'
  BY <1>1 DEF MergeInto, Closes, Matched, SqlEq, Unreachable
<1>4. \A q \in target' :
        \/ q \in target
        \/ \E r \in target : r.cur = 1 /\ q = Closed(r, now)
        \/ \E m \in M : q = Inserted(m) /\ \A r \in target : ~ Matched(r, m)
  BY <1>1 DEF MergeInto, Closes, Matched
<1>5. ASSUME NEW q \in target'
      PROVE  /\ q.cur = 1 => q.end = Forever
             /\ q.cs = Deleted =>
                  /\ q.cur = 0 /\ q.end = Forever
                  /\ \E r \in target' : r.cur = 1 /\ Unreachable(r) /\ r.key = q.key
  <2>1. CASE q \in target
    BY <1>3, <2>1 DEF PoisonInv
  <2>2. ASSUME NEW r \in target, r.cur = 1, q = Closed(r, now)
        PROVE  q.cur = 0 /\ q.cs # Deleted
    BY <1>1, <2>2, ClosedRow DEF PoisonInv
  <2>3. ASSUME NEW m \in M, q = Inserted(m), \A r \in target : ~ Matched(r, m)
        PROVE  /\ q.end = Forever
               /\ q.cs = Deleted =>
                    /\ q.cur = 0
                    /\ \E r \in target' : r.cur = 1 /\ Unreachable(r) /\ r.key = q.key
    BY <1>2, <1>3, <2>3 DEF PoisonInv, Current
  <2> QED
    BY <1>4, <2>1, <2>2, <2>3
<1> QED
  BY <1>5 DEF PoisonInv

\* A tombstone on file fails every later call, on a table loaded before or used
\* by one job: the row it doubles is out of reach of every MERGE.
THEOREM FailureStaysLatched ==
  ASSUME Seeded \/ OneJob
  PROVE  Spec => LatchedFailure
<1>1. Init => PoisonInv
  <2>1. ASSUME NEW F \in SUBSET Rows, NEW now, NEW r \in Photo(F, now)
        PROVE  r.end = Forever /\ r.cs # Deleted
    BY PhotoRows, ValsAssumption DEF Rows
  <2> QED
    BY <2>1 DEF Init, PoisonInv, Feeds
<1>2. TypeOK /\ PhotoInv /\ PoisonInv /\ [Next]_vars => PoisonInv'
  <2> SUFFICES ASSUME TypeOK, PhotoInv, PoisonInv, [Next]_vars
               PROVE  PoisonInv'
    OBVIOUS
  <2>1. ASSUME NEW j \in Jobs, WritePhoto(j)
        PROVE  PoisonInv'
    <3>1. job[j].feed \in SUBSET Rows /\ target' = Photo(job[j].feed, job[j].cts)
      BY <2>1 DEF WritePhoto, TypeOK
    <3>2. \A r \in target' : r.end = Forever /\ r.cs # Deleted
      BY <3>1, PhotoRows, ValsAssumption DEF Rows
    <3> QED
      BY <3>2 DEF PoisonInv
  <2>2. ASSUME NEW j \in Jobs, Merge(j)
        PROVE  PoisonInv'
    BY <2>2, MergePoison
  <2>3. CASE UNCHANGED target
    BY <2>3 DEF PoisonInv, Unreachable
  <2> QED
    BY <2>1, <2>2, <2>3
       DEF Next, Step, vars, Start, CheckSource, RejectSource, Inspect, MergeRefused,
           RowCount, CheckCurrent, CheckBounds, Abort
<1>3. TypeOK /\ PoisonInv /\ [Next]_vars =>
        [(\E r \in target : r.cs = Deleted)
           => \A j \in Jobs : job'[j].pc = "ok" => job[j].pc = "ok"]_vars
  <2> SUFFICES ASSUME TypeOK, PoisonInv, Next, NEW t \in target, t.cs = Deleted,
                      NEW i \in Jobs, job'[i].pc = "ok"
               PROVE  job[i].pc = "ok"
    OBVIOUS
  <2>1. DuplicateBounds(target)
    BY DEF PoisonInv, DuplicateBounds
  <2>2. PICK j \in Jobs : Step(j)
    BY DEF Next
  <2>3. CASE Start(j) \/ Inspect(j)
    BY <2>3 DEF Start, Inspect, TypeOK
  <2>4. CASE CheckSource(j) \/ WritePhoto(j) \/ Merge(j)
    BY <2>4 DEF CheckSource, WritePhoto, Merge, Goto, TypeOK
  <2>5. CASE RowCount(j) \/ CheckCurrent(j)
    BY <2>5 DEF RowCount, CheckCurrent, Goto, End, Ended, TypeOK
  <2>6. CASE RejectSource(j) \/ MergeRefused(j) \/ Abort(j)
    BY <2>6 DEF RejectSource, MergeRefused, Abort, End, Ended, TypeOK
  <2>7. CASE CheckBounds(j)
    BY <2>1, <2>7 DEF CheckBounds, End, Ended, TypeOK
  <2> QED
    BY <2>2, <2>3, <2>4, <2>5, <2>6, <2>7 DEF Step
<1>4. Spec => []PhotoInv
  BY PhotoInvariant
<1> QED
  BY <1>1, <1>2, <1>3, <1>4, TypeCorrect, PTL DEF Spec, LatchedFailure
=============================================================================
