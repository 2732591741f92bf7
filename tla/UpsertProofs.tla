----------------------------- MODULE UpsertProofs -----------------------------
(***************************************************************************)
(* What the upsert does to a table whose keys MERGE can tell apart, for    *)
(* every table, source and set of keys.                                    *)
(***************************************************************************)
EXTENDS UpsertMerge, TLAPS

\* The MERGE compares the ids themselves, none of them is NULL, and no
\* merge_cond is set.
PlainKeys ==
  /\ \A k, l \in Keys : JoinOf[k] = JoinOf[l] => k = l
  /\ \A k \in Keys : JoinOf[k] # Null
  /\ Scope = Vals

\* Rows of the target.
Table(T) == \A r \in T : r.key \in Keys /\ r.val \in Vals

LEMMA HitIsKey ==
  ASSUME PlainKeys, NEW T, Table(T), NEW F, Table(F), NEW r \in T, NEW s \in F
  PROVE  Hits(r, s) <=> r.key = s.key
  BY DEF PlainKeys, Table, Hits, Joins

\* Where a row of the upserted table comes from.
LEMMA UpsertRow ==
  ASSUME PlainKeys, NEW T, Table(T), NEW F \in SUBSET Rows, NEW now,
         NEW q \in Upsert(T, F, now)
  PROVE  \/ q \in T /\ \A s \in F : s.key # q.key
         \/ \E r \in T, s \in F : r.key = s.key /\ q = Updated(r, s)
         \/ \E s \in F : q = Inserted(s, now) /\ \A r \in T : r.key # s.key
<1>0. Table(F)
  BY DEF Table, Rows
<1>1. \A r \in T : \A s \in F : Hits(r, s) <=> r.key = s.key
  BY <1>0, HitIsKey
<1>2. CASE q \in {r \in T : \A s \in F : ~ Hits(r, s)}
  BY <1>1, <1>2
<1>3. CASE q \in {Updated(x[1], x[2]) : x \in {y \in T \X F : Hits(y[1], y[2])}}
  <2>1. PICK x \in T \X F : Hits(x[1], x[2]) /\ q = Updated(x[1], x[2])
    BY <1>3
  <2>2. x[1] \in T /\ x[2] \in F
    OBVIOUS
  <2> QED
    BY <1>1, <2>1, <2>2
<1>4. CASE q \in {Inserted(s, now) : s \in {x \in F : \A r \in T : ~ Hits(r, x)}}
  BY <1>1, <1>4
<1> QED
  BY <1>2, <1>3, <1>4 DEF Upsert

\* An upsert keeps one row per key.
LEMMA UpsertUnique ==
  ASSUME PlainKeys,
         NEW I, NEW T, T \subseteq [key : Keys, val : Vals, id : I], ~ DuplicateKeys(T),
         NEW F \in Feeds, NEW now
  PROVE  ~ DuplicateKeys(Upsert(T, F, now))
<1>1. /\ Table(T)
      /\ F \in SUBSET Rows
      /\ ~ DuplicateKeys(F)
  BY DEF Table, Feeds
<1>2. \A r \in T, s \in F : r.key = s.key => Updated(r, s).key = s.key
  BY <1>1 DEF Updated, Rows
<1>3. \A s \in F : Inserted(s, now).key = s.key
  BY DEF Inserted
<1> SUFFICES ASSUME NEW p \in Upsert(T, F, now), NEW q \in Upsert(T, F, now), p.key = q.key
             PROVE  p = q
  BY DEF DuplicateKeys
<1>4. \/ p \in T /\ \A s \in F : s.key # p.key
      \/ \E r \in T, s \in F : r.key = s.key /\ p = Updated(r, s)
      \/ \E s \in F : p = Inserted(s, now) /\ \A r \in T : r.key # s.key
  BY <1>1, UpsertRow
<1>5. \/ q \in T /\ \A s \in F : s.key # q.key
      \/ \E r \in T, s \in F : r.key = s.key /\ q = Updated(r, s)
      \/ \E s \in F : q = Inserted(s, now) /\ \A r \in T : r.key # s.key
  BY <1>1, UpsertRow
<1>6. CASE p \in T /\ \A s \in F : s.key # p.key
  BY <1>1, <1>2, <1>3, <1>5, <1>6 DEF DuplicateKeys
<1>7. ASSUME NEW r \in T, NEW s \in F, r.key = s.key, p = Updated(r, s)
      PROVE  p = q
  BY <1>1, <1>2, <1>3, <1>5, <1>7 DEF DuplicateKeys
<1>8. ASSUME NEW s \in F, p = Inserted(s, now), \A r \in T : r.key # s.key
      PROVE  p = q
  BY <1>1, <1>2, <1>3, <1>5, <1>8 DEF DuplicateKeys
<1> QED
  BY <1>4, <1>6, <1>7, <1>8

\* With has_delete it does, and what is to be deleted always hits its own row.
LEMMA UpsertDeleteUnique ==
  ASSUME PlainKeys,
         NEW I, NEW T, T \subseteq [key : Keys, val : Vals, id : I], ~ DuplicateKeys(T),
         NEW F \in Feeds, NEW now
  PROVE  ~ DuplicateKeys(UpsertDelete(T, F, now))
<1> DEFINE U == {r \in T : \A d \in ToDelete(T, F) : ~ Hits(r, d)}
<1>1. U \subseteq [key : Keys, val : Vals, id : I] /\ ~ DuplicateKeys(U)
  BY DEF DuplicateKeys
<1>2. \A d \in ToDelete(T, F) : d \in T /\ Hits(d, d)
  BY DEF ToDelete, Hits, Joins, PlainKeys
<1>3. UpsertDelete(T, F, now) = Upsert(U, F, now)
  BY <1>2 DEF UpsertDelete
<1> HIDE DEF U
<1> QED
  BY <1>1, <1>3, UpsertUnique

(***************************************************************************)
(* With NULL keys and merge_cond: the same of the rows MERGE can match.    *)
(***************************************************************************)
\* The MERGE can tell keys apart, but for those with a NULL component.
KeysApart ==
  \A k, l \in Keys : JoinOf[k] = JoinOf[l] /\ JoinOf[k] # Null => k = l

UniqueReached(T) == ~ DuplicateKeys({r \in T : Reached(r)})

LEMMA HitIsReachedKey ==
  ASSUME KeysApart, NEW T, Table(T), NEW F, Table(F), NEW r \in T, NEW s \in F
  PROVE  Hits(r, s) <=> r.key = s.key /\ Reached(r)
  BY DEF KeysApart, Table, Hits, Joins, Reached

\* An upsert keeps one row per key among those.
LEMMA UpsertUniqueReached ==
  ASSUME KeysApart,
         NEW I, NEW T, T \subseteq [key : Keys, val : Vals, id : I], UniqueReached(T),
         NEW F \in Feeds, NEW now
  PROVE  UniqueReached(Upsert(T, F, now))
<1> DEFINE U == Upsert(T, F, now)
           Kept(q) == q \in T /\ (Reached(q) => \A s \in F : s.key # q.key)
           Changed(q, r, s) == r.key = s.key /\ Reached(r) /\ q = Updated(r, s)
           Added(q, s) == q = Inserted(s, now) /\ \A r \in T : r.key = s.key => ~ Reached(r)
<1>1. Table(T) /\ Table(F) /\ ~ DuplicateKeys(F)
  BY DEF Table, Feeds, Rows
<1>2. \A r \in T : \A s \in F : Hits(r, s) <=> r.key = s.key /\ Reached(r)
  BY <1>1, HitIsReachedKey
<1>3. /\ \A r \in T, s \in F : Updated(r, s).key = s.key
      /\ \A s \in F : Inserted(s, now).key = s.key
  BY DEF Updated, Inserted, Feeds, Rows
<1>4. ASSUME NEW q \in U
      PROVE  \/ Kept(q)
             \/ \E r \in T, s \in F : Changed(q, r, s)
             \/ \E s \in F : Added(q, s)
  <2>1. CASE q \in {r \in T : \A s \in F : ~ Hits(r, s)}
    BY <1>2, <2>1
  <2>2. CASE q \in {Updated(x[1], x[2]) : x \in {y \in T \X F : Hits(y[1], y[2])}}
    <3>1. PICK x \in T \X F : Hits(x[1], x[2]) /\ q = Updated(x[1], x[2])
      BY <2>2
    <3> QED
      BY <1>2, <3>1
  <2>3. CASE q \in {Inserted(s, now) : s \in {x \in F : \A r \in T : ~ Hits(r, x)}}
    BY <1>2, <2>3
  <2> QED
    BY <2>1, <2>2, <2>3 DEF Upsert
<1> SUFFICES ASSUME NEW p \in U, NEW q \in U, Reached(p), Reached(q), p.key = q.key
             PROVE  p = q
  BY DEF UniqueReached, DuplicateKeys
<1>5. /\ \A r, t \in T : Reached(r) /\ Reached(t) /\ r.key = t.key => r = t
      /\ \A s, t \in F : s.key = t.key => s = t
  BY <1>1 DEF UniqueReached, DuplicateKeys
<1>6. /\ Kept(p) \/ (\E r \in T, s \in F : Changed(p, r, s)) \/ \E s \in F : Added(p, s)
      /\ Kept(q) \/ (\E r \in T, s \in F : Changed(q, r, s)) \/ \E s \in F : Added(q, s)
  BY <1>4
<1>7. CASE Kept(p)
  BY <1>3, <1>5, <1>6, <1>7
<1>8. ASSUME NEW r \in T, NEW s \in F, Changed(p, r, s)
      PROVE  p = q
  BY <1>3, <1>5, <1>6, <1>8
<1>9. ASSUME NEW s \in F, Added(p, s)
      PROVE  p = q
  BY <1>3, <1>5, <1>6, <1>9
<1> QED
  BY <1>6, <1>7, <1>8, <1>9

\* So it does with has_delete: what it inserts of the rows to be deleted has NULLs
\* in its ids, and no MERGE will match it.
LEMMA UpsertDeleteUniqueReached ==
  ASSUME KeysApart,
         NEW I, NEW T, T \subseteq [key : Keys, val : Vals, id : I], UniqueReached(T),
         NEW F \in Feeds, NEW now
  PROVE  UniqueReached(UpsertDelete(T, F, now))
<1> DEFINE U == {r \in T : \A d \in ToDelete(T, F) : ~ Hits(r, d)}
           C == {d \in ToDelete(T, F) : \A r \in T : ~ Hits(r, d)}
           D == {Inserted(d, now) : d \in C}
<1>1. U \subseteq [key : Keys, val : Vals, id : I] /\ UniqueReached(U)
  BY DEF UniqueReached, DuplicateKeys
<1>2. \A d \in C : ~ Reached(d) /\ d.val \in Scope
  BY DEF ToDelete, Hits, Joins, Reached
<1>3. \A q \in D : ~ Reached(q)
  BY <1>2 DEF Inserted, Reached
<1>4. UpsertDelete(T, F, now) = Upsert(U, F, now) \cup D
  BY DEF UpsertDelete
<1>5. UniqueReached(Upsert(U, F, now))
  <2> HIDE DEF U
  <2> QED
    BY <1>1, UpsertUniqueReached
<1> HIDE DEF U, D
<1> QED
  BY <1>3, <1>4, <1>5 DEF UniqueReached, DuplicateKeys
=============================================================================
