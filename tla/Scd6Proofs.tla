----------------------------- MODULE Scd6Proofs -----------------------------
(***************************************************************************)
(* Proofs about Scd6 for every value of its constants.                     *)
(***************************************************************************)
EXTENDS Scd6, FiniteSetTheorems, TLAPS

(***************************************************************************)
(* Types.                                                                  *)
(***************************************************************************)
\* A call about to commit.
Pending(j) == job[j].pc \in {"photo", "merge"}

\* A job about to commit has taken an instant the clock has passed, and every
\* source has one row per key.
Stamped ==
  \A j \in Jobs : job[j].feed \in Feeds /\ (Pending(j) => job[j].cts \in 1 .. clock - 1)

TypeInv == TypeOK /\ Stamped

LEMMA MonthType ==
  ASSUME NEW t \in NullTime .. Forever
  PROVE  MonthOf(t) \in NullTime .. Forever
  BY RunsAssumption, SMTT(30) DEF MonthOf, NullTime, Forever

LEMMA PartType ==
  ASSUME NEW s \in NullTime .. Forever, NEW e \in NullTime .. Forever
  PROVE  PartOf(s, e) \in NullTime .. Forever
<1>1. NullTime \in NullTime .. Forever
  BY RunsAssumption DEF NullTime, Forever
<1> QED
  BY <1>1, MonthType DEF PartOf

LEMMA FreshType ==
  ASSUME NEW e \in Rows, NEW now \in 1 .. MaxRuns, NEW leg \in {"new", "upd"}, NEW n \in Nat
  PROVE  Fresh(e, now, leg, n) \in TargetRows
<1>1. PartOf(now, Forever) \in NullTime .. Forever
  BY PartType, RunsAssumption DEF NullTime, Forever
<1>2. Forever \in 0 .. Forever
  BY RunsAssumption DEF Forever
<1>3. ChecksumOf[e.val] \in {BizCs[b] : b \in Sources}
  BY DEF ChecksumOf, Rows, Payloads
<1> QED
  BY <1>1, <1>2, <1>3 DEF Fresh, TargetRows, Rows

LEMMA ClosedType ==
  ASSUME NEW r \in TargetRows, NEW now \in 1 .. MaxRuns
  PROVE  Closed(r, now) \in TargetRows
<1>1. now - 1 \in 0 .. Forever /\ now - 1 \in NullTime .. Forever
  BY RunsAssumption DEF NullTime, Forever
<1>2. MonthOf(now - 1) \in NullTime .. Forever
  BY <1>1, MonthType
<1> QED
  BY <1>1, <1>2 DEF Closed, TargetRows

\* The rows scd2_batch is given.
LEMMA GivenType ==
  ASSUME NEW F \in SUBSET SourceRows, NEW T \in SUBSET TargetRows
  PROVE  SeedRows(F) \in SUBSET Rows /\ Enriched(F, T) \in SUBSET Rows
<1>1. \A s \in F : \A p \in Previous : \A n \in Nat : Enrich(s, p, n) \in Rows
  BY DEF Enrich, Rows, Payloads, SourceRows
<1>2. \A s \in F : Enrich(s, NoPrev, 1) \in Rows
  BY <1>1 DEF Previous
<1>3. ASSUME NEW s \in F, NEW P, NEW Prev, NEW e \in Joined(s, P, Prev)
      PROVE  e \in Rows
  <2>1. PICK p \in Previous : \E n \in 1 .. Cardinality({r \in P : Prev[r] = p}) : e = Enrich(s, p, n)
    BY <1>3 DEF Joined
  <2>2. PICK n \in 1 .. Cardinality({r \in P : Prev[r] = p}) : e = Enrich(s, p, n)
    BY <2>1
  <2>3. n \in Nat
    OBVIOUS
  <2> QED
    BY <1>1, <2>2, <2>3
<1> DEFINE Prev == [r \in T |-> Tracked[r.val.biz]]
<1>4. Enriched(F, T) = UNION {IF Partners(s, T) = {} THEN {Enrich(s, NoPrev, 1)}
                              ELSE Joined(s, Partners(s, T), Prev) : s \in F}
  BY DEF Enriched
<1> HIDE DEF Prev
<1>5. Enriched(F, T) \subseteq Rows
  BY <1>2, <1>3, <1>4
<1> QED
  BY <1>2, <1>5 DEF SeedRows

\* A row's previous partition is one it may have.
LEMMA FiledType ==
  ASSUME NEW j, NEW T \in SUBSET TargetRows, NEW U \in SUBSET TargetRows
  PROVE  Filed(j, T, U) \in SUBSET TargetRows
<1>1. ASSUME NEW q \in U, Former(T, q) # {}
      PROVE  (CHOOSE r \in Former(T, q) : TRUE).part \in NullTime .. Forever
  <2>1. (CHOOSE r \in Former(T, q) : TRUE) \in Former(T, q)
    BY <1>1
  <2> QED
    BY <2>1 DEF Former, TargetRows
<1>2. NullTime \in NullTime .. Forever
  BY RunsAssumption DEF NullTime, Forever
<1>3. \A q \in U : \A p \in NullTime .. Forever : [q EXCEPT !.part = p] \in TargetRows
  BY DEF TargetRows
<1> QED
  BY <1>1, <1>2, <1>3 DEF Filed

(***************************************************************************)
(* What a MERGE of these rows does.                                        *)
(***************************************************************************)
\* One of the rows E ends version r.
Changed(r, E) ==
  r.cur = 1 /\ r.val \in Reachable /\ \E e \in E : SqlEq(r.key, e.key) /\ ChecksumOf[e.val] # r.cs

\* No row that the MERGE can match has the key of e.
Opens(e, T) == \A r \in Current(T) : r.val \in Reachable => ~ SqlEq(r.key, e.key)

\* The merged table: the rows kept, those ended, and those begun.
Merged(T, E, now) ==
  {r \in T : ~ Changed(r, E)}
    \cup {Closed(r, now) : r \in {x \in T : Changed(x, E)}}
    \cup {Fresh(e, now, "new", 1) : e \in {x \in E : Opens(x, T)}}
    \cup UNION {{Fresh(e, now, "upd", n) : n \in 1 .. Cardinality(Stale(e, T))} : e \in E}

LEMMA MergeExact ==
  ASSUME NEW T \in SUBSET TargetRows, NEW E \in SUBSET Rows, NEW now
  PROVE  MergeInto(T, Staged(E, T, now, TRUE), now) = Merged(T, E, now)
<1> DEFINE M == Staged(E, T, now, TRUE)
           New(e) == [row |-> Fresh(e, now, "new", 1), mk |-> e.key]
           Upd(e, n) == [row |-> Fresh(e, now, "upd", n), mk |-> Unkeyed]
           Times(e) == 1 .. Cardinality(Stale(e, T))
           Opened == {x \in M : \A r \in T : ~ Matched(r, x)}
<1>1. M = {New(e) : e \in E} \cup UNION {{Upd(e, n) : n \in Times(e)} : e \in E}
  BY DEF Staged, NewLeg, UpdLeg
<1>2. \A r \in T : r.key # Unkeyed
  BY KeyAssumption DEF TargetRows
<1>3. \A r \in T : \A e \in E :
        Closes(r, New(e)) <=> /\ r.cur = 1 /\ r.val \in Reachable
                              /\ SqlEq(r.key, e.key) /\ ChecksumOf[e.val] # r.cs
  BY DEF Closes, Matched, Fresh
<1>4. \A r \in T : \A e : \A n : ~ Matched(r, Upd(e, n)) /\ ~ Closes(r, Upd(e, n))
  BY <1>2 DEF Closes, Matched, SqlEq
<1>5. \A e \in E : (\A r \in T : ~ Matched(r, New(e))) <=> Opens(e, T)
  BY DEF Matched, Opens, Current
<1>6. \A e : /\ Inserted(New(e)) = Fresh(e, now, "new", 1)
             /\ \A n : Inserted(Upd(e, n)) = Fresh(e, now, "upd", n)
  BY DEF Inserted, Fresh
<1> HIDE DEF New, Upd, Times, M
<1>7. \A r \in T : (\E m \in M : Closes(r, m)) <=> Changed(r, E)
  BY <1>1, <1>3, <1>4 DEF Changed
<1>8. {IF \E m \in M : Closes(r, m) THEN Closed(r, now) ELSE r : r \in T} =
        {r \in T : ~ Changed(r, E)} \cup {Closed(r, now) : r \in {x \in T : Changed(x, E)}}
  BY <1>7
<1>9. Opened = {New(e) : e \in {x \in E : Opens(x, T)}}
                  \cup UNION {{Upd(e, n) : n \in Times(e)} : e \in E}
  BY <1>1, <1>4, <1>5
<1> HIDE DEF Opened
<1>10. {Inserted(m) : m \in Opened} =
         {Fresh(e, now, "new", 1) : e \in {x \in E : Opens(x, T)}}
           \cup UNION {{Fresh(e, now, "upd", n) : n \in Times(e)} : e \in E}
  BY <1>6, <1>9
<1> QED
  BY <1>8, <1>10 DEF MergeInto, Opened, Merged, M, Times

\* A key has an id for each of its rows with the same payload.
Known(T) == \A r, q \in T : r.key = q.key /\ r.val = q.val /\ r.id = q.id => r = q

\* The rows of the commit of job j: a version ended, and one begun.
Ending(j, r, now) ==
  IF job[j].empty THEN [Closed(r, now) EXCEPT !.part = r.part] ELSE Closed(r, now)
Beginning(j, e, now, leg, n) ==
  IF job[j].empty THEN [Fresh(e, now, leg, n) EXCEPT !.part = NullTime]
  ELSE Fresh(e, now, leg, n)

Committed(j, T, E, now) ==
  {r \in T : ~ Changed(r, E)}
    \cup {Ending(j, r, now) : r \in {x \in T : Changed(x, E)}}
    \cup {Beginning(j, e, now, "new", 1) : e \in {x \in E : Opens(x, T)}}
    \cup UNION {{Beginning(j, e, now, "upd", n) : n \in 1 .. Cardinality(Stale(e, T))} : e \in E}

LEMMA CommitExact ==
  ASSUME NEW j, NEW T \in SUBSET TargetRows, Known(T),
         NEW E \in SUBSET Rows, NEW now, \A r \in T : r.id[1] # now
  PROVE  Filed(j, T, MergeInto(T, Staged(E, T, now, TRUE), now)) = Committed(j, T, E, now)
<1> DEFINE U == MergeInto(T, Staged(E, T, now, TRUE), now)
           Kept == {r \in T : ~ Changed(r, E)}
           Out == {x \in T : Changed(x, E)}
           New == {x \in E : Opens(x, T)}
           Times(e) == 1 .. Cardinality(Stale(e, T))
<1>1. U = Kept \cup {Closed(r, now) : r \in Out}
          \cup {Fresh(e, now, "new", 1) : e \in New}
          \cup UNION {{Fresh(e, now, "upd", n) : n \in Times(e)} : e \in E}
  <2>1. U = Merged(T, E, now)
    BY MergeExact
  <2> HIDE DEF U
  <2> QED
    BY <2>1 DEF Merged
<1>2. CASE ~ job[j].empty
  <2>1. Filed(j, T, U) = U
    BY <1>2 DEF Filed
  <2>2. /\ \A r : Ending(j, r, now) = Closed(r, now)
        /\ \A e : \A leg : \A n : Beginning(j, e, now, leg, n) = Fresh(e, now, leg, n)
    BY <1>2 DEF Ending, Beginning
  <2>3. U = Committed(j, T, E, now)
    <3> HIDE DEF U
    <3> QED
      BY <1>1, <2>2 DEF Committed
  <2> QED
    BY <2>1, <2>3
<1>3. CASE job[j].empty
  <2> DEFINE G(q) == [q EXCEPT !.part = IF Former(T, q) = {} THEN NullTime
                                          ELSE (CHOOSE r \in Former(T, q) : TRUE).part]
  <2>1. Filed(j, T, U) = {G(q) : q \in U}
    BY <1>3 DEF Filed
  <2>2. ASSUME NEW r \in T, NEW q, q.key = r.key, q.val = r.val, q.id = r.id
        PROVE  G(q) = [q EXCEPT !.part = r.part]
    <3>1. Former(T, q) = {r}
      BY <2>2 DEF Former, Known
    <3> QED
      BY <3>1
  <2>3. ASSUME NEW r \in T
        PROVE  G(r) = r /\ G(Closed(r, now)) = Ending(j, r, now)
    <3>1. /\ Closed(r, now).key = r.key /\ Closed(r, now).val = r.val
          /\ Closed(r, now).id = r.id
      BY DEF Closed, TargetRows
    <3>2. G(r) = [r EXCEPT !.part = r.part]
      BY <2>2
    <3>3. [r EXCEPT !.part = r.part] = r
      BY DEF TargetRows
    <3>4. G(Closed(r, now)) = [Closed(r, now) EXCEPT !.part = r.part]
      BY <2>2, <3>1
    <3> QED
      BY <1>3, <3>2, <3>3, <3>4 DEF Ending
  <2>4. ASSUME NEW e, NEW leg, NEW n
        PROVE  G(Fresh(e, now, leg, n)) = Beginning(j, e, now, leg, n)
    <3>1. Fresh(e, now, leg, n).id[1] = now
      BY DEF Fresh
    <3>2. Former(T, Fresh(e, now, leg, n)) = {}
      BY <3>1 DEF Former
    <3> QED
      BY <1>3, <3>2 DEF Beginning
  <2> HIDE DEF G, U
  <2>5. \A r \in Kept : G(r) = r
    BY <2>3
  <2>6. \A r \in Out : G(Closed(r, now)) = Ending(j, r, now)
    BY <2>3
  <2> HIDE DEF Kept, Out, New, Times
  <2>7. {G(q) : q \in U} =
          Kept \cup {Ending(j, r, now) : r \in Out}
            \cup {Beginning(j, e, now, "new", 1) : e \in New}
            \cup UNION {{Beginning(j, e, now, "upd", n) : n \in Times(e)} : e \in E}
    BY <1>1, <2>4, <2>5, <2>6
  <2> QED
    BY <2>1, <2>7 DEF Kept, Out, New, Times, U, Committed
<1> QED
  BY <1>2, <1>3

LEMMA BeginningRow ==
  ASSUME NEW j, NEW e \in Rows, NEW now, NEW leg, NEW n, NEW q,
         q = Beginning(j, e, now, leg, n)
  PROVE  /\ q.key = e.key /\ q.val = e.val /\ q.cs = ChecksumOf[e.val] /\ q.cur = 1
         /\ q.start = now /\ q.end = Forever /\ q.id = <<now, leg, n>>
  BY DEF Beginning, Fresh

LEMMA EndingRow ==
  ASSUME NEW j, NEW r \in TargetRows, NEW now, NEW q, q = Ending(j, r, now)
  PROVE  /\ q.key = r.key /\ q.val = r.val /\ q.cs = r.cs /\ q.cur = 0
         /\ q.start = r.start /\ q.end = now - 1 /\ q.id = r.id
         /\ ~ job[j].empty /\ PartCol = "end_dt" => q.part = MonthOf(now - 1)
<1>1. CASE job[j].empty
  BY <1>1 DEF Ending, Closed, TargetRows
<1>2. CASE ~ job[j].empty
  BY <1>2 DEF Ending, Closed, TargetRows
<1> QED
  BY <1>1, <1>2

(***************************************************************************)
(* The keys none of whose rows was ever out of merge_cond have one current *)
(* row, if they can be compared.                                           *)
(***************************************************************************)
Within(T) == {r \in T : r.key \notin beyond}

OneCurrent(T) == \A r, q \in Current(T) : SqlEq(r.key, q.key) => r = q

\* A row starts its key, or a version of it.
Starts(e, T) == \A r \in Current(T) : ~ SqlEq(r.key, e.key)
Follows(e, T) == Stale(e, T) # {}

\* The rows of such a key that row e can meet.
LEMMA OnePartner ==
  ASSUME NEW T, OneCurrent(Within(T)), NEW k, k \notin beyond,
         NEW r \in Current(T), SqlEq(r.key, k)
  PROVE  \A q \in Current(T) : SqlEq(q.key, k) => q = r
  BY DEF OneCurrent, Within, Current, SqlEq

\* A changed source row has one join partner.
LEMMA StaleOne ==
  ASSUME NEW T, OneCurrent(Within(T)), NEW e, e.key \notin beyond
  PROVE  \A n : n \in 1 .. Cardinality(Stale(e, T)) <=> n = 1 /\ Follows(e, T)
<1>1. CASE Stale(e, T) = {}
  <2>1. Cardinality(Stale(e, T)) = 0
    BY <1>1, FS_EmptySet
  <2> QED
    BY <1>1, <2>1 DEF Follows
<1>2. ASSUME NEW r \in Stale(e, T)
      PROVE  \A n : n \in 1 .. Cardinality(Stale(e, T)) <=> n = 1 /\ Follows(e, T)
  <2>1. Stale(e, T) = {r}
    BY <1>2, OnePartner DEF Stale
  <2>2. Cardinality(Stale(e, T)) = 1
    BY <2>1, FS_Singleton
  <2> QED
    BY <1>2, <2>2 DEF Follows
<1> QED
  BY <1>1, <1>2

LEMMA JoinedOne ==
  ASSUME NEW s, NEW r, NEW Prev, Prev[r] \in Previous
  PROVE  Joined(s, {r}, Prev) = {Enrich(s, Prev[r], 1)}
<1> DEFINE Of(p) == {Enrich(s, p, n) : n \in 1 .. Cardinality({x \in {r} : Prev[x] = p})}
<1>1. ASSUME NEW p, p # Prev[r]
      PROVE  Of(p) = {}
  <2>1. {x \in {r} : Prev[x] = p} = {}
    BY <1>1
  <2>2. 1 .. Cardinality({x \in {r} : Prev[x] = p}) = {}
    BY <2>1, FS_EmptySet
  <2> QED
    BY <2>2
<1>2. Of(Prev[r]) = {Enrich(s, Prev[r], 1)}
  <2>1. {x \in {r} : Prev[x] = Prev[r]} = {r}
    OBVIOUS
  <2>2. Cardinality({x \in {r} : Prev[x] = Prev[r]}) = 1
    BY <2>1, FS_Singleton
  <2>3. 1 .. Cardinality({x \in {r} : Prev[x] = Prev[r]}) = {1}
    BY <2>2
  <2> QED
    BY <2>3
<1>3. Joined(s, {r}, Prev) = UNION {Of(p) : p \in Previous}
  BY DEF Joined
<1> HIDE DEF Of
<1> QED
  BY <1>1, <1>2, <1>3

(***************************************************************************)
(* What scd2_batch is given: the source's rows of such a key, one for one, *)
(* and with each the tracked columns of its current row.                   *)
(***************************************************************************)
LEMMA GivenRows ==
  ASSUME TypeInv, OneCurrent(Within(target)), NEW j \in Jobs
  PROVE  /\ Given(j) \in SUBSET Rows
         /\ \A e, f \in Given(j) : e.key = f.key /\ e.key \notin beyond => e = f
         /\ \A e \in Given(j) : \E s \in job[j].feed : e.key = s.key /\ e.val.biz = s.val
         /\ \A s \in job[j].feed : s.key \notin beyond =>
              \E e \in Given(j) : e.key = s.key /\ e.val.biz = s.val
         /\ ~ job[j].empty => \A e \in Given(j) : e.key \notin beyond =>
              /\ Starts(e, target) => e.val.prev = NoPrev
              /\ \A r \in Current(target) :
                   SqlEq(r.key, e.key) => e.val.prev = Tracked[r.val.biz]
<1>1. /\ target \in SUBSET TargetRows /\ job[j].feed \in SUBSET SourceRows
      /\ \A s, t \in job[j].feed : s.key = t.key => s = t
  BY DEF TypeInv, TypeOK, Stamped, Feeds, DuplicateKeys
<1>2. Given(j) \in SUBSET Rows
  BY <1>1, GivenType DEF Given
<1>3. \A s : \A p : \A n : /\ Enrich(s, p, n).key = s.key /\ Enrich(s, p, n).val.biz = s.val
                           /\ Enrich(s, p, n).val.prev = p
  BY DEF Enrich
<1>4. CASE job[j].empty
  <2>1. Given(j) = {Enrich(s, NoPrev, 1) : s \in job[j].feed}
    BY <1>4 DEF Given, SeedRows
  <2>2. \A e, f \in Given(j) : e.key = f.key => e = f
    BY <1>1, <1>3, <2>1
  <2> QED
    BY <1>2, <1>3, <1>4, <2>1, <2>2
<1>5. CASE ~ job[j].empty
  <2> DEFINE Prev == [r \in target |-> Tracked[r.val.biz]]
             Of(s) == IF Partners(s, target) = {} THEN {Enrich(s, NoPrev, 1)}
                      ELSE Joined(s, Partners(s, target), Prev)
  <2>1. Given(j) = UNION {Of(s) : s \in job[j].feed}
    BY <1>5 DEF Given, Enriched
  <2>2. ASSUME NEW s \in job[j].feed, s.key \notin beyond
        PROVE  \E p : /\ Of(s) = {Enrich(s, p, 1)}
                      /\ Partners(s, target) = {} => p = NoPrev
                      /\ \A r \in Partners(s, target) : p = Tracked[r.val.biz]
    <3>1. CASE Partners(s, target) = {}
      BY <3>1
    <3>2. ASSUME NEW r \in Partners(s, target)
          PROVE  /\ Of(s) = {Enrich(s, Tracked[r.val.biz], 1)}
                 /\ \A x \in Partners(s, target) : x = r
      <4>1. Partners(s, target) = {r}
        BY <2>2, <3>2, OnePartner DEF Partners
      <4>2. r \in target /\ Prev[r] = Tracked[r.val.biz] /\ Prev[r] \in Previous
        BY <1>1, <3>2 DEF Partners, Current, TargetRows, Payloads, Previous
      <4>3. Joined(s, {r}, Prev) = {Enrich(s, Prev[r], 1)}
        BY <4>2, JoinedOne
      <4> HIDE DEF Prev
      <4> QED
        BY <4>1, <4>2, <4>3
    <3> QED
      BY <3>1, <3>2
  <2>3. ASSUME NEW e \in Given(j)
        PROVE  \E s \in job[j].feed : e \in Of(s)
    BY <2>1
  <2>4. \A s \in job[j].feed : Of(s) \subseteq Given(j)
    BY <2>1
  <2>5. \A e : \A s : \A r \in Current(target) :
          e.key = s.key => (SqlEq(r.key, e.key) <=> r \in Partners(s, target))
    BY DEF Partners
  <2>6. ASSUME NEW s \in job[j].feed, NEW e \in Of(s)
        PROVE  e.key = s.key /\ e.val.biz = s.val
    <3> HIDE DEF Prev
    <3>1. CASE Partners(s, target) = {}
      BY <1>3, <2>6, <3>1
    <3>2. CASE Partners(s, target) # {}
      <4>1. e \in Joined(s, Partners(s, target), Prev)
        BY <2>6, <3>2
      <4>2. PICK p \in Previous : \E n \in 1 .. Cardinality({r \in Partners(s, target) : Prev[r] = p}) :
                                    e = Enrich(s, p, n)
        BY <4>1 DEF Joined
      <4> QED
        BY <1>3, <4>2
    <3> QED
      BY <3>1, <3>2
  <2> HIDE DEF Of
  <2>7. ASSUME NEW e \in Given(j), NEW s \in job[j].feed, e \in Of(s), e.key \notin beyond
        PROVE  /\ \A x \in Of(s) : x = e
               /\ Starts(e, target) => e.val.prev = NoPrev
               /\ \A r \in Current(target) :
                    SqlEq(r.key, e.key) => e.val.prev = Tracked[r.val.biz]
    <3>1. e.key = s.key
      BY <2>6, <2>7
    <3>2. PICK p : /\ Of(s) = {Enrich(s, p, 1)}
                   /\ Partners(s, target) = {} => p = NoPrev
                   /\ \A r \in Partners(s, target) : p = Tracked[r.val.biz]
      BY <2>2, <2>7, <3>1
    <3>3. e = Enrich(s, p, 1) /\ e.val.prev = p
      BY <1>3, <2>7, <3>2
    <3>4. Starts(e, target) => Partners(s, target) = {}
      BY <2>5, <3>1 DEF Starts, Partners
    <3> QED
      BY <2>5, <3>1, <3>2, <3>3, <3>4
  <2>8. ASSUME NEW e \in Given(j), NEW f \in Given(j), e.key = f.key, e.key \notin beyond
        PROVE  e = f
    <3>1. PICK s \in job[j].feed : e \in Of(s)
      BY <2>3
    <3>2. PICK t \in job[j].feed : f \in Of(t)
      BY <2>3
    <3>3. e.key = s.key /\ f.key = t.key
      BY <2>6, <3>1, <3>2
    <3>4. s = t
      BY <1>1, <2>8, <3>3
    <3> QED
      BY <2>7, <2>8, <3>1, <3>2, <3>4
  <2>9. \A s \in job[j].feed : s.key \notin beyond =>
          \E e \in Given(j) : e.key = s.key /\ e.val.biz = s.val
    BY <1>3, <2>2, <2>4
  <2>10. \A e \in Given(j) : \E s \in job[j].feed : e.key = s.key /\ e.val.biz = s.val
    BY <2>3, <2>6
  <2>11. \A e \in Given(j) : e.key \notin beyond =>
           /\ Starts(e, target) => e.val.prev = NoPrev
           /\ \A r \in Current(target) :
                SqlEq(r.key, e.key) => e.val.prev = Tracked[r.val.biz]
    BY <2>3, <2>7
  <2> QED
    BY <1>2, <2>8, <2>9, <2>10, <2>11
<1> QED
  BY <1>4, <1>5

(***************************************************************************)
(* The steps, by what they do to the table.                                *)
(***************************************************************************)
\* A step that commits nothing and takes no instant.
Quiet(j) ==
  /\ target' = target /\ clock' = clock /\ blind' = blind /\ beyond' = beyond
  /\ \A i \in Jobs \ {j} : job'[i] = job[i]
  /\ job' \in [Jobs -> [pc : Verdicts \cup InFlight, feed : SUBSET SourceRows,
                        cts : 0 .. MaxRuns, empty : BOOLEAN]]
  /\ job'[j].feed \in Feeds
  /\ job'[j].pc \notin {"photo", "merge"}

\* The commit of job j, of the rows E or of what a MERGE makes of the table.
Commits(j) ==
  /\ Pending(j)
  /\ \/ /\ job[j].pc = "photo"
        /\ target' = {Beginning(j, e, job[j].cts, "new", 1) : e \in Given(j)}
     \/ /\ job[j].pc = "merge"
        /\ target' = Filed(j, target, MergeInto(target, Staged(Given(j), target, job[j].cts, TRUE),
                                                job[j].cts))
  /\ Record
  /\ clock' = clock /\ blind' = blind
  /\ job' = [job EXCEPT ![j].pc = "validate"]

LEMMA EndIsQuiet ==
  ASSUME TypeInv, NEW j \in Jobs, NEW v \in Verdicts, End(j, v),
         target' = target, clock' = clock, blind' = blind, beyond' = beyond
  PROVE  Quiet(j)
<1>1. {} \in Feeds
  BY DEF Feeds, DuplicateKeys
<1>2. Ended(v) \in [pc : Verdicts \cup InFlight, feed : SUBSET SourceRows,
                    cts : 0 .. MaxRuns, empty : BOOLEAN]
  BY RunsAssumption DEF Ended
<1>3. Ended(v).feed = {} /\ Ended(v).pc \notin {"photo", "merge"}
  BY DEF Ended, Verdicts
<1>4. /\ job' = [job EXCEPT ![j] = Ended(v)]
      /\ job \in [Jobs -> [pc : Verdicts \cup InFlight, feed : SUBSET SourceRows,
                           cts : 0 .. MaxRuns, empty : BOOLEAN]]
  BY DEF End, TypeInv, TypeOK
<1>5. job'[j] = Ended(v) /\ \A i \in Jobs \ {j} : job'[i] = job[i]
  BY <1>4
<1>6. job' \in [Jobs -> [pc : Verdicts \cup InFlight, feed : SUBSET SourceRows,
                         cts : 0 .. MaxRuns, empty : BOOLEAN]]
  BY <1>2, <1>4
<1> QED
  BY <1>1, <1>3, <1>5, <1>6 DEF Quiet

LEMMA GotoIsQuiet ==
  ASSUME TypeInv, NEW j \in Jobs, NEW pc \in InFlight \ {"photo", "merge"}, Goto(j, pc),
         target' = target, clock' = clock, blind' = blind, beyond' = beyond
  PROVE  Quiet(j)
  BY DEF Goto, Quiet, TypeInv, TypeOK, Stamped

LEMMA PhotoCommits ==
  ASSUME NEW j \in Jobs, WritePhoto(j)
  PROVE  Commits(j)
<1>1. Filed(j, {}, Photo(Given(j), job[j].cts)) =
        {Beginning(j, e, job[j].cts, "new", 1) : e \in Given(j)}
  <2>1. \A q : Former({}, q) = {}
    BY DEF Former
  <2>2. CASE job[j].empty
    BY <2>1, <2>2 DEF Filed, Photo, Beginning
  <2>3. CASE ~ job[j].empty
    BY <2>3 DEF Filed, Photo, Beginning
  <2> QED
    BY <2>2, <2>3
<1> QED
  BY <1>1 DEF WritePhoto, Commits, Pending, Goto

\* Each step is quiet, takes an instant, or commits.
LEMMA Steps ==
  ASSUME TypeInv, NEW j \in Jobs,
         \/ Start(j) \/ Look(j) \/ CheckEnriched(j) \/ Inspect(j) \/ WritePhoto(j) \/ Merge(j)
         \/ ValidateCurrent(j) \/ CheckCurrent(j) \/ CheckBounds(j) \/ Abort(j)
  PROVE  Quiet(j) \/ Inspect(j) \/ Commits(j)
<1>1. CASE Start(j)
  BY <1>1, RunsAssumption DEF Start, Quiet, TypeInv, TypeOK, InFlight, Feeds
<1>2. CASE Look(j)
  <2>1. PICK pc \in {"inspect", "enrich"}, b \in BOOLEAN :
          job' = [job EXCEPT ![j].pc = pc, ![j].empty = b]
    BY <1>2 DEF Look
  <2>2. job'[j].pc = pc /\ job'[j].feed = job[j].feed /\ job'[j].cts = job[j].cts
        /\ job'[j].empty = b /\ \A i \in Jobs \ {j} : job'[i] = job[i]
    BY <2>1 DEF TypeInv, TypeOK
  <2>3. job' \in [Jobs -> [pc : Verdicts \cup InFlight, feed : SUBSET SourceRows,
                           cts : 0 .. MaxRuns, empty : BOOLEAN]]
    BY <2>1 DEF TypeInv, TypeOK, InFlight
  <2> QED
    BY <1>2, <2>2, <2>3 DEF Look, Quiet, TypeInv, Stamped
<1>3. CASE CheckEnriched(j)
  <2>1. End(j, "refused") \/ Goto(j, "inspect")
    BY <1>3 DEF CheckEnriched
  <2>2. "refused" \in Verdicts /\ "inspect" \in InFlight \ {"photo", "merge"}
    BY DEF Verdicts, InFlight
  <2> QED
    BY <1>3, <2>1, <2>2, EndIsQuiet, GotoIsQuiet DEF CheckEnriched
<1>4. CASE WritePhoto(j)
  BY <1>4, PhotoCommits
<1>5. CASE Merge(j)
  <2>1. \/ End(j, "aborted") /\ target' = target /\ beyond' = beyond
        \/ /\ target' = Filed(j, target, MergeInto(target, Staged(Given(j), target, job[j].cts, TRUE),
                                                   job[j].cts))
           /\ Record /\ Goto(j, "validate")
    BY <1>5 DEF Merge
  <2>2. "aborted" \in Verdicts
    BY DEF Verdicts
  <2>3. job[j].pc = "merge" /\ clock' = clock /\ blind' = blind
    BY <1>5 DEF Merge
  <2> QED
    BY <2>1, <2>2, <2>3, EndIsQuiet DEF Commits, Pending, Goto
<1>6. CASE ValidateCurrent(j) \/ CheckCurrent(j)
  <2>1. \/ End(j, "refused") \/ End(j, "duplicated")
        \/ Goto(j, "current") \/ Goto(j, "bounds")
    BY <1>6 DEF ValidateCurrent, CheckCurrent
  <2>2. /\ "refused" \in Verdicts /\ "duplicated" \in Verdicts
        /\ "current" \in InFlight \ {"photo", "merge"} /\ "bounds" \in InFlight \ {"photo", "merge"}
    BY DEF Verdicts, InFlight
  <2>3. target' = target /\ clock' = clock /\ blind' = blind /\ beyond' = beyond
    BY <1>6 DEF ValidateCurrent, CheckCurrent
  <2> QED
    BY <2>1, <2>2, <2>3, EndIsQuiet, GotoIsQuiet
<1>7. CASE CheckBounds(j) \/ Abort(j)
  <2>1. PICK v \in Verdicts : End(j, v)
    <3>1. CASE CheckBounds(j)
      BY <3>1, Zenon DEF CheckBounds, Verdicts
    <3>2. CASE Abort(j)
      BY <3>2, Zenon DEF Abort, Verdicts
    <3> QED
      BY <1>7, <3>1, <3>2
  <2>2. target' = target /\ clock' = clock /\ blind' = blind /\ beyond' = beyond
    BY <1>7 DEF CheckBounds, Abort
  <2> QED
    BY <2>1, <2>2, EndIsQuiet
<1> QED
  BY <1>1, <1>2, <1>3, <1>4, <1>5, <1>6, <1>7

(***************************************************************************)
(* The invariant.                                                          *)
(***************************************************************************)
\* An id is used once for a key.
Identified(T) == \A r, q \in T : r.key = q.key /\ r.id = q.id => r = q

\* What began or ended did so at an instant the clock has passed.  A key none of whose
\* rows was ever out of merge_cond has none on file, has one current row if it can be
\* compared, and uses no id twice.
RowsInv ==
  /\ Known(target)
  /\ \A r \in Within(target) : r.val \in Reachable
  /\ OneCurrent(Within(target)) /\ Identified(Within(target))
  /\ \A r \in target :
       /\ r.id[1] = r.start /\ r.start < clock
       /\ \/ r.cur = 1 /\ r.end = Forever
          \/ r.cur = 0 /\ r.end + 1 < clock

\* The instant of a call about to commit is its own: nothing began or ended then.
\* If the call saw an empty target, the instant is a blind one.
PendingInv ==
  /\ \A j \in Jobs : Pending(j) =>
       /\ \A r \in target : r.start # job[j].cts /\ (r.cur = 0 => r.end + 1 # job[j].cts)
       /\ job[j].empty \/ job[j].pc = "photo" => job[j].cts \in blind
  /\ \A i, j \in Jobs : Pending(i) /\ Pending(j) /\ i # j => job[i].cts # job[j].cts

Inv == TypeInv /\ RowsInv /\ PendingInv /\ PreviousIsBefore /\ EndedFiled

LEMMA QuietStep ==
  ASSUME Inv, NEW j \in Jobs, Quiet(j)
  PROVE  Inv'
<1> USE DEF Inv
<1>1. TypeOK'
  BY DEF Quiet, TypeInv, TypeOK
<1>2. /\ target' = target /\ clock' = clock /\ blind' = blind /\ beyond' = beyond
      /\ \A i \in Jobs : job'[i] = job[i] \/ (i = j /\ ~ Pending(i)' /\ job'[i].feed \in Feeds)
  BY DEF Quiet, Pending
<1>3. Stamped'
  BY <1>2 DEF Stamped, TypeInv, Pending
<1>4. RowsInv'
  BY <1>2 DEF RowsInv, Within
<1>5. PendingInv'
  BY <1>2 DEF PendingInv, Pending
<1>6. PreviousIsBefore' /\ EndedFiled'
  BY <1>2 DEF PreviousIsBefore, EndedFiled
<1> QED
  BY <1>1, <1>3, <1>4, <1>5, <1>6 DEF TypeInv

LEMMA InspectStep ==
  ASSUME Inv, NEW j \in Jobs, Inspect(j)
  PROVE  Inv'
<1> USE DEF Inv
<1>1. /\ target' = target /\ clock' = clock + 1 /\ clock \in 1 .. MaxRuns /\ beyond' = beyond
      /\ blind' = blind \cup {clock} \/ (blind' = blind /\ ~ job[j].empty /\ target # {})
  BY DEF Inspect, TypeInv, TypeOK
<1>2. PICK pc \in {"photo", "merge"} :
        /\ job' = [job EXCEPT ![j].pc = pc, ![j].cts = clock]
        /\ pc = "photo" => target = {}
  BY DEF Inspect
<1>3. /\ \A i \in Jobs \ {j} : job'[i] = job[i]
      /\ job'[j].pc = pc /\ job'[j].feed = job[j].feed /\ job'[j].cts = clock
      /\ job'[j].empty = job[j].empty
  BY <1>2 DEF TypeInv, TypeOK
<1>4. \A i \in Jobs \ {j} : Pending(i)' <=> Pending(i)
  BY <1>3 DEF Pending
<1>5. TypeOK'
  <2>1. clock \in 0 .. MaxRuns /\ pc \in InFlight
    BY <1>1 DEF InFlight
  <2>2. job' \in [Jobs -> [pc : Verdicts \cup InFlight, feed : SUBSET SourceRows,
                           cts : 0 .. MaxRuns, empty : BOOLEAN]]
    BY <1>2, <2>1 DEF TypeInv, TypeOK
  <2>3. target' \subseteq TargetRows
    BY <1>1 DEF TypeInv, TypeOK
  <2>4. clock' \in 1 .. MaxRuns + 1
    BY <1>1, RunsAssumption
  <2>5. blind' \subseteq 1 .. MaxRuns
    <3>1. blind \subseteq 1 .. MaxRuns
      BY DEF TypeInv, TypeOK
    <3> QED
      BY <1>1, <3>1, Zenon
  <2>6. beyond' \subseteq Keys
    BY <1>1 DEF TypeInv, TypeOK
  <2> QED
    BY <2>2, <2>3, <2>4, <2>5, <2>6 DEF TypeOK
<1>6. Stamped'
  <2>1. \A i \in Jobs \ {j} : job'[i].feed \in Feeds /\ (Pending(i)' => job'[i].cts \in 1 .. clock' - 1)
    BY <1>1, <1>3, <1>4 DEF Stamped, TypeInv
  <2>2. job'[j].feed \in Feeds /\ job'[j].cts \in 1 .. clock' - 1
    BY <1>1, <1>3 DEF Stamped, TypeInv
  <2> QED
    BY <2>1, <2>2 DEF Stamped
<1>7. RowsInv'
  <2>1. \A r \in target : r.start < clock + 1 /\ (r.cur = 0 => r.end + 1 < clock + 1)
    BY <1>1 DEF RowsInv, TypeInv, TypeOK, TargetRows, Forever
  <2> QED
    BY <1>1, <2>1 DEF RowsInv, Within
<1>8. PendingInv'
  <2>1. \A r \in target : r.start # clock /\ (r.cur = 0 => r.end + 1 # clock)
    BY <1>1 DEF RowsInv, TypeInv, TypeOK, TargetRows
  <2>2. job[j].empty \/ pc = "photo" => clock \in blind'
    BY <1>1, <1>2
  <2>3. \A i \in Jobs : Pending(i) => job[i].cts # clock
    BY <1>1 DEF TypeInv, Stamped
  <2>4. blind \subseteq blind'
    BY <1>1
  <2>5. \A i \in Jobs \ {j} : Pending(i)' =>
          /\ \A r \in target' : r.start # job'[i].cts /\ (r.cur = 0 => r.end + 1 # job'[i].cts)
          /\ job'[i].empty \/ job'[i].pc = "photo" => job'[i].cts \in blind'
          /\ job'[i].cts # clock
    BY <1>1, <1>3, <1>4, <2>3, <2>4 DEF PendingInv
  <2>6. \A i, k \in Jobs \ {j} : Pending(i)' /\ Pending(k)' /\ i # k => job'[i].cts # job'[k].cts
    BY <1>3, <1>4 DEF PendingInv
  <2> QED
    BY <1>1, <1>3, <2>1, <2>2, <2>5, <2>6 DEF PendingInv
<1>9. PreviousIsBefore' /\ EndedFiled'
  BY <1>1 DEF PreviousIsBefore, EndedFiled
<1> QED
  BY <1>5, <1>6, <1>7, <1>8, <1>9 DEF TypeInv

\* The commit of job j merges what it is given into T: the table, or nothing if
\* the job writes the initial load.
CommitsTo(j, T) ==
  /\ Commits(j)
  /\ T = target \/ (T = {} /\ job[j].cts \in blind)
  /\ target' = Committed(j, T, Given(j), job[j].cts)

LEMMA PhotoForm ==
  ASSUME Inv, NEW j \in Jobs, Commits(j), job[j].pc = "photo"
  PROVE  CommitsTo(j, {})
<1> DEFINE New(e) == Beginning(j, e, job[j].cts, "new", 1)
           Upd(e) == {Beginning(j, e, job[j].cts, "upd", n) : n \in 1 .. Cardinality(Stale(e, {}))}
<1>1. target' = {New(e) : e \in Given(j)} /\ job[j].cts \in blind
  BY DEF Commits, Inv, PendingInv
<1>2. \A e : Opens(e, {}) /\ Upd(e) = {}
  <2>1. \A e : Opens(e, {}) /\ Stale(e, {}) = {}
    BY DEF Opens, Stale, Current
  <2>2. 1 .. Cardinality({}) = {}
    BY FS_EmptySet
  <2> QED
    BY <2>1, <2>2
<1>3. Committed(j, {}, Given(j), job[j].cts) = {New(e) : e \in Given(j)}
  <2>1. Committed(j, {}, Given(j), job[j].cts) =
          {New(e) : e \in {x \in Given(j) : Opens(x, {})}} \cup UNION {Upd(e) : e \in Given(j)}
    BY DEF Committed
  <2> HIDE DEF New, Upd
  <2> QED
    BY <1>2, <2>1
<1> QED
  BY <1>1, <1>3 DEF CommitsTo

LEMMA MergeForm ==
  ASSUME Inv, NEW j \in Jobs, Commits(j), job[j].pc = "merge"
  PROVE  CommitsTo(j, target)
<1>1. target \in SUBSET TargetRows /\ Known(target) /\ Given(j) \in SUBSET Rows
  BY GivenRows DEF Inv, RowsInv, TypeInv, TypeOK
<1>2. \A r \in target : r.id[1] # job[j].cts
  BY DEF Commits, Inv, RowsInv, PendingInv
<1>3. target' = Filed(j, target, MergeInto(target, Staged(Given(j), target, job[j].cts, TRUE),
                                           job[j].cts))
  BY DEF Commits
<1>4. Filed(j, target, MergeInto(target, Staged(Given(j), target, job[j].cts, TRUE), job[j].cts))
        = Committed(j, target, Given(j), job[j].cts)
  BY <1>1, <1>2, CommitExact
<1> QED
  BY <1>3, <1>4 DEF CommitsTo

\* The rest of a commit: what changes but the table.
LEMMA CommitRest ==
  ASSUME Inv, NEW j \in Jobs, Commits(j), target' \in SUBSET TargetRows
  PROVE  TypeInv' /\ ~ Pending(j)' /\ \A i \in Jobs \ {j} : job'[i] = job[i]
<1>1. /\ job' = [job EXCEPT ![j].pc = "validate"] /\ clock' = clock /\ blind' = blind
      /\ job \in [Jobs -> [pc : Verdicts \cup InFlight, feed : SUBSET SourceRows,
                           cts : 0 .. MaxRuns, empty : BOOLEAN]]
      /\ "validate" \in InFlight
  BY DEF Commits, Inv, TypeInv, TypeOK, InFlight
<1>2. /\ job' \in [Jobs -> [pc : Verdicts \cup InFlight, feed : SUBSET SourceRows,
                            cts : 0 .. MaxRuns, empty : BOOLEAN]]
      /\ job'[j].pc = "validate" /\ job'[j].feed = job[j].feed
      /\ \A i \in Jobs \ {j} : job'[i] = job[i]
  BY <1>1
<1>3. beyond' \subseteq Keys
  BY DEF Commits, Record, Inv, TypeInv, TypeOK, TargetRows
<1> QED
  BY <1>1, <1>2, <1>3 DEF Inv, TypeInv, TypeOK, Stamped, Pending

\* What the commit starts from.
LEMMA CommitBase ==
  ASSUME Inv, NEW j \in Jobs, NEW T, CommitsTo(j, T)
  PROVE  /\ T \in SUBSET TargetRows /\ OneCurrent(Within(T)) /\ Identified(Within(T)) /\ Known(T)
         /\ job[j].cts \in 1 .. MaxRuns /\ job[j].cts < clock /\ clock' = clock /\ blind' = blind
         /\ beyond \subseteq beyond' /\ \A r \in target' : r.val \notin Reachable => r.key \in beyond'
         /\ \A r \in T : r.key \notin beyond => r.val \in Reachable
         /\ \A r \in T : r \in target /\ r.id[1] = r.start /\ r.start # job[j].cts
         /\ \A r \in T : (r.cur = 1 /\ r.end = Forever) \/ (r.cur = 0 /\ r.end + 1 # job[j].cts)
         /\ Given(j) \in SUBSET Rows
         /\ \A e, f \in Given(j) : e.key = f.key /\ e.key \notin beyond => e = f
         /\ job[j].cts \in blind \/ (T = target /\ ~ job[j].empty)
<1>1. Pending(j) /\ clock' = clock /\ blind' = blind /\ T \subseteq target
      /\ (T = target \/ job[j].cts \in blind)
  BY DEF CommitsTo, Commits
<1>2. /\ target \subseteq TargetRows /\ OneCurrent(Within(target))
      /\ Identified(Within(target)) /\ Known(target)
  BY DEF Inv, TypeInv, TypeOK, RowsInv
<1>3. T \in SUBSET TargetRows /\ OneCurrent(Within(T)) /\ Identified(Within(T)) /\ Known(T)
  BY <1>1, <1>2 DEF OneCurrent, Identified, Known, Within, Current
<1>4. job[j].cts \in 1 .. MaxRuns /\ job[j].cts < clock
  BY <1>1 DEF Inv, TypeInv, TypeOK, Stamped
<1>5. \A r \in T : r \in target /\ r.id[1] = r.start /\ r.start # job[j].cts
  BY <1>1 DEF Inv, RowsInv, PendingInv
<1>6. \A r \in T : (r.cur = 1 /\ r.end = Forever) \/ (r.cur = 0 /\ r.end + 1 # job[j].cts)
  BY <1>1 DEF Inv, RowsInv, PendingInv
<1>7. /\ Given(j) \in SUBSET Rows
      /\ \A e, f \in Given(j) : e.key = f.key /\ e.key \notin beyond => e = f
  BY <1>2, GivenRows DEF Inv
<1>8. job[j].cts \in blind \/ (T = target /\ ~ job[j].empty)
  BY <1>1 DEF Inv, PendingInv
<1>9. beyond \subseteq beyond' /\ \A r \in target' : r.val \notin Reachable => r.key \in beyond'
  BY DEF CommitsTo, Commits, Record
<1>10. \A r \in T : r.key \notin beyond => r.val \in Reachable
  BY <1>1 DEF Inv, RowsInv, Within
<1> QED
  BY <1>1, <1>3, <1>4, <1>5, <1>6, <1>7, <1>8, <1>9, <1>10

\* A row of the table after the commit was kept, or ended, or begun.
Keeps(j, T, q) == q \in T /\ ~ Changed(q, Given(j))
Ends(j, T, r, q) ==
  /\ r \in T /\ Changed(r, Given(j))
  /\ q.key = r.key /\ q.val = r.val /\ q.cs = r.cs /\ q.cur = 0
  /\ q.start = r.start /\ q.end = job[j].cts - 1 /\ q.id = r.id
  /\ ~ job[j].empty /\ PartCol = "end_dt" => q.part = MonthOf(job[j].cts - 1)
Begins(j, T, e, leg, n, q) ==
  /\ e \in Given(j)
  /\ \/ leg = "new" /\ n = 1 /\ Opens(e, T)
     \/ leg = "upd" /\ n \in 1 .. Cardinality(Stale(e, T))
  /\ q.key = e.key /\ q.val = e.val /\ q.cs = ChecksumOf[e.val] /\ q.cur = 1
  /\ q.start = job[j].cts /\ q.end = Forever /\ q.id = <<job[j].cts, leg, n>>

LEMMA CommitRows ==
  ASSUME Inv, NEW j \in Jobs, NEW T, CommitsTo(j, T), NEW q \in target'
  PROVE  /\ q \in TargetRows
         /\ \/ Keeps(j, T, q)
            \/ \E r \in T : q = Ending(j, r, job[j].cts) /\ Ends(j, T, r, q)
            \/ \E e \in Given(j), leg \in {"new", "upd"}, n \in Nat :
                 q = Beginning(j, e, job[j].cts, leg, n) /\ Begins(j, T, e, leg, n, q)
<1>1. T \in SUBSET TargetRows /\ Given(j) \in SUBSET Rows /\ job[j].cts \in 1 .. MaxRuns
  BY CommitBase
<1>2. \/ Keeps(j, T, q)
      \/ \E r \in T : Changed(r, Given(j)) /\ q = Ending(j, r, job[j].cts)
      \/ \E e \in Given(j) : Opens(e, T) /\ q = Beginning(j, e, job[j].cts, "new", 1)
      \/ \E e \in Given(j) : \E n \in 1 .. Cardinality(Stale(e, T)) :
           q = Beginning(j, e, job[j].cts, "upd", n)
  BY DEF CommitsTo, Committed, Keeps
<1>3. CASE Keeps(j, T, q)
  BY <1>1, <1>3 DEF Keeps
<1>4. ASSUME NEW r \in T, Changed(r, Given(j)), q = Ending(j, r, job[j].cts)
      PROVE  q \in TargetRows /\ Ends(j, T, r, q)
  <2>1. Ends(j, T, r, q)
    BY <1>1, <1>4, EndingRow DEF Ends
  <2>2. Closed(r, job[j].cts) \in TargetRows
    BY <1>1, ClosedType
  <2>3. [Closed(r, job[j].cts) EXCEPT !.part = r.part] \in TargetRows
    BY <1>1, <2>2 DEF TargetRows
  <2> QED
    BY <1>4, <2>1, <2>2, <2>3 DEF Ending
<1>5. ASSUME NEW e \in Given(j), NEW leg \in {"new", "upd"}, NEW n \in Nat,
             \/ leg = "new" /\ n = 1 /\ Opens(e, T)
             \/ leg = "upd" /\ n \in 1 .. Cardinality(Stale(e, T)),
             q = Beginning(j, e, job[j].cts, leg, n)
      PROVE  q \in TargetRows /\ Begins(j, T, e, leg, n, q)
  <2>1. Begins(j, T, e, leg, n, q)
    BY <1>1, <1>5, BeginningRow DEF Begins
  <2>2. Fresh(e, job[j].cts, leg, n) \in TargetRows
    BY <1>1, FreshType
  <2>3. NullTime \in NullTime .. Forever
    BY RunsAssumption DEF NullTime, Forever
  <2>4. [Fresh(e, job[j].cts, leg, n) EXCEPT !.part = NullTime] \in TargetRows
    BY <2>2, <2>3 DEF TargetRows
  <2> QED
    BY <1>5, <2>1, <2>2, <2>4 DEF Beginning
<1>6. ASSUME NEW e \in Given(j), NEW n \in 1 .. Cardinality(Stale(e, T)),
             q = Beginning(j, e, job[j].cts, "upd", n)
      PROVE  n \in Nat /\ q \in TargetRows /\ Begins(j, T, e, "upd", n, q)
  BY <1>5, <1>6
<1> QED
  BY <1>2, <1>3, <1>4, <1>5, <1>6

\* And all of these are rows of it.
LEMMA RowsOfCommit ==
  ASSUME NEW j \in Jobs, NEW T, CommitsTo(j, T)
  PROVE  /\ \A r \in T : ~ Changed(r, Given(j)) => r \in target'
         /\ \A r \in T : Changed(r, Given(j)) => Ending(j, r, job[j].cts) \in target'
  BY DEF CommitsTo, Committed

\* The row that starts such a key, or a version of it, does so once.
LEMMA BeginsOnce ==
  ASSUME Inv, NEW j \in Jobs, NEW T, CommitsTo(j, T), NEW e, e.key \notin beyond,
         NEW leg, NEW n, NEW q, Begins(j, T, e, leg, n, q)
  PROVE  n = 1 /\ ((leg = "new" /\ Starts(e, T)) \/ (leg = "upd" /\ Follows(e, T)))
<1>1. OneCurrent(Within(T)) /\ \A r \in T : r.key \notin beyond => r.val \in Reachable
  BY CommitBase
<1>2. Opens(e, T) => Starts(e, T)
  BY <1>1 DEF Opens, Starts, Current, SqlEq
<1>3. n \in 1 .. Cardinality(Stale(e, T)) <=> n = 1 /\ Follows(e, T)
  BY <1>1, StaleOne
<1>4. (leg = "new" /\ n = 1 /\ Opens(e, T)) \/ (leg = "upd" /\ n \in 1 .. Cardinality(Stale(e, T)))
  BY DEF Begins
<1> QED
  BY <1>2, <1>3, <1>4

\* The row a new version ends is the only current one of its key.
LEMMA FollowsOne ==
  ASSUME Inv, NEW j \in Jobs, NEW T, CommitsTo(j, T), NEW e \in Given(j), e.key \notin beyond,
         Follows(e, T)
  PROVE  \E y \in Current(T) :
           /\ SqlEq(y.key, e.key) /\ Changed(y, Given(j))
           /\ \A x \in Current(T) : SqlEq(x.key, e.key) => x = y
<1>1. PICK y \in Stale(e, T) : TRUE
  BY DEF Follows
<1>2. y \in Current(T) /\ SqlEq(y.key, e.key) /\ ChecksumOf[e.val] # y.cs
  BY <1>1 DEF Stale
<1>3. Changed(y, Given(j))
  BY <1>2, CommitBase DEF Changed, Current, SqlEq
<1>4. OneCurrent(Within(T))
  BY CommitBase
<1> QED
  BY <1>2, <1>3, <1>4, OnePartner

\* A row that was kept or ended is a row of T, as the commit leaves it.
Comes(j, T, r, x) ==
  /\ r \in T /\ x.key = r.key /\ x.val = r.val /\ x.id = r.id
  /\ x = IF Changed(r, Given(j)) THEN Ending(j, r, job[j].cts) ELSE r

LEMMA CommitUnique ==
  ASSUME Inv, NEW j \in Jobs, NEW T, CommitsTo(j, T)
  PROVE  Known(target') /\ OneCurrent(Within(target))' /\ Identified(Within(target))'
<1> DEFINE Begun(q) == \E e \in Given(j), leg \in {"new", "upd"}, n \in Nat :
                         q = Beginning(j, e, job[j].cts, leg, n) /\ Begins(j, T, e, leg, n, q)
           Came(q) == \E r \in T : Comes(j, T, r, q)
           Ended1(q) == \E r \in T : q = Ending(j, r, job[j].cts) /\ Ends(j, T, r, q)
<1>1. \A q \in target' : Keeps(j, T, q) \/ Ended1(q) \/ Begun(q)
  BY CommitRows
<1>2. \A x : Begun(x) => x.id[1] = job[j].cts
  BY DEF Begins
<1>3. \A x : Keeps(j, T, x) \/ Ended1(x) => Came(x)
  BY DEF Keeps, Ends, Comes
<1>4. \A x : Came(x) => x.id[1] # job[j].cts
  BY CommitBase DEF Comes
<1>5. ASSUME NEW x, NEW y, Begun(x), Begun(y), x.key = y.key, x.val = y.val, x.id = y.id
      PROVE  x = y
  <2>1. PICK e \in Given(j), l \in {"new", "upd"}, m \in Nat :
          x = Beginning(j, e, job[j].cts, l, m) /\ Begins(j, T, e, l, m, x)
    BY <1>5
  <2>2. PICK f \in Given(j), k \in {"new", "upd"}, n \in Nat :
          y = Beginning(j, f, job[j].cts, k, n) /\ Begins(j, T, f, k, n, y)
    BY <1>5
  <2>3. l = k /\ m = n
    BY <1>5, <2>1, <2>2 DEF Begins
  <2>4. e = f
    <3>1. e.key = f.key /\ e.val = f.val
      BY <1>5, <2>1, <2>2 DEF Begins
    <3>2. e \in Rows /\ f \in Rows
      BY CommitBase
    <3> QED
      BY <3>1, <3>2 DEF Rows
  <2> QED
    BY <2>1, <2>2, <2>3, <2>4
<1>6. ASSUME NEW x, NEW y, Begun(x), Begun(y), x.key = y.key, x.key \notin beyond
      PROVE  x = y
  <2>1. PICK e \in Given(j), l \in {"new", "upd"}, m \in Nat :
          x = Beginning(j, e, job[j].cts, l, m) /\ Begins(j, T, e, l, m, x)
    BY <1>6
  <2>2. PICK f \in Given(j), k \in {"new", "upd"}, n \in Nat :
          y = Beginning(j, f, job[j].cts, k, n) /\ Begins(j, T, f, k, n, y)
    BY <1>6
  <2>3. e.key = x.key /\ f.key = y.key
    BY <2>1, <2>2 DEF Begins
  <2>4. e = f
    BY <1>6, <2>3, CommitBase
  <2>5. /\ m = 1 /\ ((l = "new" /\ Starts(e, T)) \/ (l = "upd" /\ Follows(e, T)))
        /\ n = 1 /\ ((k = "new" /\ Starts(e, T)) \/ (k = "upd" /\ Follows(e, T)))
    BY <1>6, <2>1, <2>2, <2>3, <2>4, BeginsOnce
  <2>6. ~ (Starts(e, T) /\ Follows(e, T))
    BY DEF Starts, Follows, Stale
  <2> QED
    BY <2>1, <2>2, <2>4, <2>5, <2>6
<1>7. ASSUME NEW x, NEW y, Keeps(j, T, x), x.cur = 1, Begun(y), y.key \notin beyond
      PROVE  ~ SqlEq(x.key, y.key)
  <2>1. PICK e \in Given(j), l \in {"new", "upd"}, n \in Nat : Begins(j, T, e, l, n, y)
    BY <1>7
  <2>2. y.key = e.key /\ x \in Current(T) /\ ~ Changed(x, Given(j))
    BY <1>7, <2>1 DEF Begins, Keeps, Current
  <2>3. Starts(e, T) \/ Follows(e, T)
    BY <1>7, <2>1, <2>2, BeginsOnce
  <2>4. CASE Starts(e, T)
    BY <2>2, <2>4 DEF Starts
  <2>5. CASE Follows(e, T)
    BY <1>7, <2>2, <2>5, FollowsOne
  <2> QED
    BY <2>3, <2>4, <2>5
<1>8. \A x : Ended1(x) => x.cur = 0
  BY DEF Ends
<1>9. \A x : x.key \notin beyond' => x.key \notin beyond
  BY CommitBase
<1> HIDE DEF Begun, Ended1
<1>10. OneCurrent(Within(target))'
  <2> SUFFICES ASSUME NEW x \in target', NEW y \in target', x.cur = 1, y.cur = 1,
                      x.key \notin beyond', y.key \notin beyond', SqlEq(x.key, y.key)
               PROVE  x = y
    BY DEF OneCurrent, Current, Within
  <2>1. (Keeps(j, T, x) \/ Begun(x)) /\ (Keeps(j, T, y) \/ Begun(y))
    BY <1>1, <1>8
  <2>2. CASE Keeps(j, T, x) /\ Keeps(j, T, y)
    BY <1>9, <2>2, CommitBase DEF Keeps, OneCurrent, Current, Within
  <2>3. CASE Begun(x) /\ Begun(y)
    BY <1>6, <1>9, <2>3 DEF SqlEq
  <2>4. SqlEq(y.key, x.key)
    BY DEF SqlEq
  <2> QED
    BY <1>7, <1>9, <2>1, <2>2, <2>3, <2>4
<1>11. ASSUME NEW x \in target', NEW y \in target', x.id = y.id
       PROVE  (Begun(x) /\ Begun(y)) \/ (Came(x) /\ Came(y))
  <2> HIDE DEF Came
  <2> QED
    BY <1>1, <1>2, <1>3, <1>4, <1>11
<1>12. Known(target')
  <2> SUFFICES ASSUME NEW x \in target', NEW y \in target', x.key = y.key, x.val = y.val, x.id = y.id
               PROVE  x = y
    BY DEF Known
  <2>1. CASE Begun(x) /\ Begun(y)
    BY <1>5, <2>1
  <2>2. CASE Came(x) /\ Came(y)
    <3>1. PICK r \in T, q \in T : Comes(j, T, r, x) /\ Comes(j, T, q, y)
      BY <2>2
    <3>2. r.key = q.key /\ r.val = q.val /\ r.id = q.id
      BY <3>1 DEF Comes
    <3>3. r = q
      BY <3>2, CommitBase DEF Known
    <3> QED
      BY <3>1, <3>3 DEF Comes
  <2> QED
    BY <1>11, <2>1, <2>2
<1>13. Identified(Within(target))'
  <2> SUFFICES ASSUME NEW x \in target', NEW y \in target', x.key \notin beyond',
                      x.key = y.key, x.id = y.id
               PROVE  x = y
    BY DEF Identified, Within
  <2>1. CASE Begun(x) /\ Begun(y)
    BY <1>6, <1>9, <2>1
  <2>2. CASE Came(x) /\ Came(y)
    <3>1. PICK r \in T, q \in T : Comes(j, T, r, x) /\ Comes(j, T, q, y)
      BY <2>2
    <3>2. r.key = q.key /\ r.id = q.id /\ r.key \notin beyond
      BY <1>9, <3>1 DEF Comes
    <3>3. r = q
      <4>1. r \in Within(T) /\ q \in Within(T) /\ Identified(Within(T))
        BY <3>2, CommitBase DEF Within
      <4> QED
        BY <3>2, <4>1 DEF Identified
    <3> QED
      BY <3>1, <3>3 DEF Comes
  <2> QED
    BY <1>11, <2>1, <2>2
<1> QED
  BY <1>10, <1>12, <1>13

LEMMA CommitTimes ==
  ASSUME Inv, NEW j \in Jobs, NEW T, CommitsTo(j, T), NEW q \in target'
  PROVE  /\ q.id[1] = q.start /\ q.start < clock
         /\ \/ q.cur = 1 /\ q.end = Forever
            \/ q.cur = 0 /\ q.end + 1 < clock
         /\ \A i \in Jobs \ {j} : Pending(i) =>
              q.start # job[i].cts /\ (q.cur = 0 => q.end + 1 # job[i].cts)
<1>1. job[j].cts \in 1 .. MaxRuns /\ job[j].cts < clock /\ T \subseteq target
  BY CommitBase
<1>2. \A i \in Jobs \ {j} : Pending(i) => job[i].cts # job[j].cts
  BY DEF CommitsTo, Commits, Inv, PendingInv
<1>3. \A r \in T :
        /\ r.id[1] = r.start /\ r.start < clock
        /\ \/ r.cur = 1 /\ r.end = Forever
           \/ r.cur = 0 /\ r.end + 1 < clock
        /\ \A i \in Jobs \ {j} : Pending(i) =>
             r.start # job[i].cts /\ (r.cur = 0 => r.end + 1 # job[i].cts)
  BY <1>1 DEF Inv, RowsInv, PendingInv
<1>4. CASE Keeps(j, T, q)
  BY <1>3, <1>4 DEF Keeps
<1>5. ASSUME NEW r \in T, Ends(j, T, r, q)
      PROVE  q.cur = 0 /\ q.end + 1 = job[j].cts /\ q.start = r.start /\ q.id = r.id
  BY <1>1, <1>5 DEF Ends
<1>6. ASSUME NEW e \in Given(j), NEW leg, NEW n, Begins(j, T, e, leg, n, q)
      PROVE  q.cur = 1 /\ q.end = Forever /\ q.start = job[j].cts /\ q.id[1] = q.start
  BY <1>6 DEF Begins
<1> QED
  BY <1>1, <1>2, <1>3, <1>4, <1>5, <1>6, CommitRows

\* What ended just before a version began is kept by a commit, and nothing joins it.
LEMMA CommitPrevious ==
  ASSUME Inv, NEW j \in Jobs, NEW T, CommitsTo(j, T)
  PROVE  PreviousIsBefore'
<1> SUFFICES ASSUME NEW q \in target', q.start \notin blind, q.key \notin beyond
             PROVE  LET before == {x \in target' : x.key = q.key /\ x.end = q.start - 1}
                    IN {q.val.prev} = IF before = {} THEN {NoPrev}
                                      ELSE {Tracked[x.val.biz] : x \in before}
  BY CommitBase DEF PreviousIsBefore
<1>1. /\ job[j].cts \in 1 .. MaxRuns /\ q.start \in 1 .. MaxRuns
      /\ Forever = MaxRuns + 1 /\ MaxRuns \in Nat
  BY CommitBase, CommitRows, RunsAssumption DEF TargetRows, Forever
<1>2. \A x : \A e \in Given(j) : \A leg : \A n : Begins(j, T, e, leg, n, x) => x.end # q.start - 1
  BY <1>1 DEF Begins
<1>3. ASSUME NEW r \in T, r.start = q.start, r.key = q.key, r.val = q.val
      PROVE  {q.val.prev} = IF {x \in target' : x.key = q.key /\ x.end = q.start - 1} = {}
                              THEN {NoPrev}
                              ELSE {Tracked[x.val.biz] :
                                      x \in {x \in target' : x.key = q.key /\ x.end = q.start - 1}}
  <2>1. T = target /\ r.start # job[j].cts
    BY CommitBase DEF CommitsTo
  <2>2. ASSUME NEW x \in target', x.end = q.start - 1
        PROVE  x \in T
    <3>1. \A y \in T : ~ Ends(j, T, y, x)
      BY <1>1, <1>3, <2>1, <2>2 DEF Ends
    <3> QED
      BY <1>2, <2>2, <3>1, CommitRows DEF Keeps
  <2>3. ASSUME NEW x \in T, x.end = q.start - 1
        PROVE  x \in target'
    <3>1. ~ Changed(x, Given(j))
      BY <1>1, <2>3, CommitBase DEF Changed
    <3> QED
      BY <3>1, RowsOfCommit
  <2>4. {x \in target' : x.key = q.key /\ x.end = q.start - 1} =
          {x \in target : x.key = r.key /\ x.end = r.start - 1}
    BY <1>3, <2>1, <2>2, <2>3
  <2>5. LET before == {x \in target : x.key = r.key /\ x.end = r.start - 1}
        IN {r.val.prev} = IF before = {} THEN {NoPrev} ELSE {Tracked[x.val.biz] : x \in before}
    BY <1>3, <2>1 DEF Inv, PreviousIsBefore
  <2> QED
    BY <1>3, <2>4, <2>5
<1>4. ASSUME NEW e \in Given(j), NEW leg, NEW n, Begins(j, T, e, leg, n, q)
      PROVE  {q.val.prev} = IF {x \in target' : x.key = q.key /\ x.end = q.start - 1} = {}
                              THEN {NoPrev}
                              ELSE {Tracked[x.val.biz] :
                                      x \in {x \in target' : x.key = q.key /\ x.end = q.start - 1}}
  <2>1. q.start = job[j].cts /\ q.key = e.key /\ q.val = e.val
    BY <1>4 DEF Begins
  <2>2. T = target /\ ~ job[j].empty
    BY <2>1, CommitBase
  <2>3. /\ Starts(e, target) => e.val.prev = NoPrev
        /\ \A r \in Current(target) : SqlEq(r.key, e.key) => e.val.prev = Tracked[r.val.biz]
    BY <2>1, <2>2, GivenRows DEF Inv, RowsInv
  <2>4. ASSUME NEW x \in target', x.key = q.key, x.end = q.start - 1
        PROVE  \E r \in Current(T) : SqlEq(r.key, e.key) /\ x = Ending(j, r, job[j].cts)
    <3>1. ~ Keeps(j, T, x)
      BY <1>1, <2>1, <2>4, CommitBase DEF Keeps, TargetRows
    <3>2. PICK r \in T : x = Ending(j, r, job[j].cts) /\ Ends(j, T, r, x)
      BY <1>2, <2>4, <3>1, CommitRows
    <3>3. r.key = e.key /\ Changed(r, Given(j))
      BY <2>1, <2>4, <3>2 DEF Ends
    <3> QED
      BY <3>2, <3>3 DEF Changed, Current, SqlEq
  <2>5. CASE Starts(e, T)
    <3>1. {x \in target' : x.key = q.key /\ x.end = q.start - 1} = {}
      BY <2>4, <2>5 DEF Starts
    <3> QED
      BY <2>1, <2>2, <2>3, <2>5, <3>1
  <2>6. CASE Follows(e, T)
    <3>1. PICK y \in Current(T) : /\ SqlEq(y.key, e.key) /\ Changed(y, Given(j))
                                  /\ \A x \in Current(T) : SqlEq(x.key, e.key) => x = y
      BY <2>1, <2>6, FollowsOne
    <3>2. y \in T /\ y \in TargetRows
      BY <3>1, CommitBase DEF Current
    <3> DEFINE z == Ending(j, y, job[j].cts)
    <3>3. z \in target'
      BY <3>1, <3>2, RowsOfCommit
    <3>4. z.key = y.key /\ z.val = y.val /\ z.end = job[j].cts - 1
      BY <3>2, EndingRow
    <3> HIDE DEF z
    <3>5. z.key = q.key /\ z.end = q.start - 1
      BY <2>1, <3>1, <3>4 DEF SqlEq
    <3>6. \A x \in target' : x.key = q.key /\ x.end = q.start - 1 => x = z
      BY <2>4, <3>1 DEF z
    <3>7. {x \in target' : x.key = q.key /\ x.end = q.start - 1} = {z}
      BY <3>3, <3>5, <3>6
    <3>8. q.val.prev = Tracked[z.val.biz]
      BY <2>1, <2>2, <2>3, <3>1, <3>4
    <3> QED
      BY <3>7, <3>8
  <2>7. Starts(e, T) \/ Follows(e, T)
    BY <1>4, <2>1, BeginsOnce
  <2> QED
    BY <2>5, <2>6, <2>7
<1>5. \/ \E r \in T : r.start = q.start /\ r.key = q.key /\ r.val = q.val
      \/ \E e \in Given(j), leg \in {"new", "upd"}, n \in Nat : Begins(j, T, e, leg, n, q)
  BY CommitRows DEF Keeps, Ends
<1> QED
  BY <1>3, <1>4, <1>5

LEMMA CommitFiled ==
  ASSUME Inv, NEW j \in Jobs, NEW T, CommitsTo(j, T)
  PROVE  EndedFiled'
<1> SUFFICES ASSUME PartCol = "end_dt", NEW q \in target', q.cur = 0, q.end + 1 \notin blind
             PROVE  q.part = MonthOf(q.end)
  BY CommitBase DEF EndedFiled
<1>1. CASE Keeps(j, T, q)
  BY <1>1, CommitBase DEF Keeps, Inv, EndedFiled
<1>2. ASSUME NEW r \in T, Ends(j, T, r, q)
      PROVE  q.part = MonthOf(q.end)
  <2>1. q.end = job[j].cts - 1 /\ job[j].cts \in 1 .. MaxRuns
    BY <1>2, CommitBase DEF Ends
  <2>2. ~ job[j].empty
    BY <2>1, CommitBase
  <2> QED
    BY <1>2, <2>1, <2>2 DEF Ends
<1>3. \A e \in Given(j) : \A leg : \A n : ~ Begins(j, T, e, leg, n, q)
  BY DEF Begins
<1> QED
  BY <1>1, <1>2, <1>3, CommitRows

LEMMA CommitStep ==
  ASSUME Inv, NEW j \in Jobs, Commits(j)
  PROVE  Inv'
<1>1. PICK T : CommitsTo(j, T)
  BY PhotoForm, MergeForm DEF Commits
<1>2. target' \in SUBSET TargetRows
  BY <1>1, CommitRows
<1>3. TypeInv' /\ ~ Pending(j)' /\ \A i \in Jobs \ {j} : job'[i] = job[i]
  BY <1>2, CommitRest
<1>4. clock' = clock /\ blind' = blind
  BY DEF Commits
<1>5. RowsInv'
  <2>1. \A r \in Within(target)' : r.val \in Reachable
    BY <1>1, CommitBase DEF Within
  <2> QED
    BY <1>1, <1>4, <2>1, CommitUnique, CommitTimes DEF RowsInv
<1>6. PendingInv'
  <2>1. \A i \in Jobs : Pending(i)' => i \in Jobs \ {j} /\ Pending(i) /\ job'[i] = job[i]
    BY <1>3 DEF Pending
  <2>2. \A i \in Jobs \ {j} : Pending(i) =>
          /\ \A q \in target' : q.start # job[i].cts /\ (q.cur = 0 => q.end + 1 # job[i].cts)
          /\ job[i].empty \/ job[i].pc = "photo" => job[i].cts \in blind
    BY <1>1, CommitTimes DEF Inv, PendingInv
  <2>3. \A i, k \in Jobs : Pending(i) /\ Pending(k) /\ i # k => job[i].cts # job[k].cts
    BY DEF Inv, PendingInv
  <2> QED
    BY <1>4, <2>1, <2>2, <2>3 DEF PendingInv
<1>7. PreviousIsBefore' /\ EndedFiled'
  BY <1>1, CommitPrevious, CommitFiled
<1> QED
  BY <1>3, <1>5, <1>6, <1>7 DEF Inv

LEMMA Invariant == Spec => []Inv
<1>1. Init => Inv
  <2> SUFFICES ASSUME Init PROVE Inv
    OBVIOUS
  <2>1. \A v \in Verdicts :
          Ended(v) \in [pc : Verdicts \cup InFlight, feed : SUBSET SourceRows,
                        cts : 0 .. MaxRuns, empty : BOOLEAN]
    BY RunsAssumption DEF Ended
  <2>2. job = [i \in Jobs |-> Ended("idle")] /\ "idle" \in Verdicts
    BY DEF Init, Verdicts
  <2>3. TypeOK
    BY <2>1, <2>2, RunsAssumption DEF Init, TypeOK
  <2>4. \A i \in Jobs : job[i].feed = {} /\ ~ Pending(i)
    BY <2>2 DEF Ended, Pending
  <2>5. {} \in Feeds
    BY DEF Feeds, DuplicateKeys
  <2>6. TypeInv
    BY <2>3, <2>4, <2>5 DEF TypeInv, Stamped
  <2>7. RowsInv /\ PendingInv /\ PreviousIsBefore /\ EndedFiled
    BY <2>4 DEF Init, RowsInv, Known, Within, OneCurrent, Identified, Current, PendingInv,
                PreviousIsBefore, EndedFiled
  <2> QED
    BY <2>6, <2>7 DEF Inv
<1>2. Inv /\ [Next]_vars => Inv'
  <2> SUFFICES ASSUME Inv, [Next]_vars PROVE Inv'
    OBVIOUS
  <2>1. CASE UNCHANGED vars
    BY <2>1 DEF vars, Inv, TypeInv, TypeOK, Stamped, Pending, RowsInv, Within, PendingInv,
                PreviousIsBefore, EndedFiled
  <2>2. CASE Next
    <3>1. PICK j \in Jobs : \/ Start(j) \/ Look(j) \/ CheckEnriched(j) \/ Inspect(j)
                            \/ WritePhoto(j) \/ Merge(j) \/ ValidateCurrent(j)
                            \/ CheckCurrent(j) \/ CheckBounds(j) \/ Abort(j)
      BY <2>2 DEF Next
    <3>2. TypeInv
      BY DEF Inv
    <3>3. Quiet(j) \/ Inspect(j) \/ Commits(j)
      BY <3>1, <3>2, Steps
    <3> QED
      BY <3>3, QuietStep, InspectStep, CommitStep
  <2> QED
    BY <2>1, <2>2
<1> QED
  BY <1>1, <1>2, PTL DEF Spec

\* Every variable has its type.
THEOREM TypeCorrect == Spec => []TypeOK
<1>1. Inv => TypeOK
  BY DEF Inv, TypeInv
<1> QED
  BY <1>1, Invariant, PTL

\* Whatever commits between the looks of a call and its MERGE, a version shows the
\* tracked columns of the version that ended when it began: for any merge_cond and any
\* keys, but for the versions of a call that saw an empty target and those of a key that
\* had a row out of merge_cond.
THEOREM PreviousAlwaysBefore == Spec => []PreviousIsBefore
<1>1. Inv => PreviousIsBefore
  BY DEF Inv
<1> QED
  BY <1>1, Invariant, PTL

\* A call that saw rows files a version it ends under the month of its end.
THEOREM EndedAlwaysFiled == Spec => []EndedFiled
<1>1. Inv => EndedFiled
  BY DEF Inv
<1> QED
  BY <1>1, Invariant, PTL

(***************************************************************************)
(* On a table without NULL keys, and without the keys that had a row out   *)
(* of merge_cond, no check finds a duplicate.                              *)
(***************************************************************************)
\* Each key ends one version at an instant.
EndsOnce(T) ==
  \A q, r \in T : q.cur = 0 /\ r.cur = 0 /\ q.key = r.key /\ q.end = r.end => q = r

\* A commit ends the versions of different keys, at an instant at which none has ended.
LEMMA CommitEnds ==
  ASSUME Inv, EndsOnce(Within(target)), NEW j \in Jobs, NEW T, CommitsTo(j, T)
  PROVE  EndsOnce(Within(target))'
<1> DEFINE Past(x) == x \in T /\ x.cur = 0
           Now(x)  == \E r \in T : x = Ending(j, r, job[j].cts) /\ Ends(j, T, r, x)
<1>1. ASSUME NEW x \in target', x.cur = 0
      PROVE  Past(x) \/ Now(x)
  BY <1>1, CommitRows DEF Keeps, Begins
<1>2. \A x : Past(x) => x \in target /\ x.end + 1 # job[j].cts
  BY CommitBase
<1>3. ASSUME NEW x, Now(x)
      PROVE  x.end + 1 = job[j].cts
  BY <1>3, CommitBase DEF Ends
<1>4. ASSUME NEW x, NEW y, Now(x), Now(y), x.key = y.key, x.key \notin beyond
      PROVE  x = y
  <2>1. PICK q \in T : x = Ending(j, q, job[j].cts) /\ Ends(j, T, q, x)
    BY <1>4
  <2>2. PICK r \in T : y = Ending(j, r, job[j].cts) /\ Ends(j, T, r, y)
    BY <1>4
  <2>3. q \in Current(T) /\ r \in Current(T) /\ SqlEq(q.key, r.key)
    BY <1>4, <2>1, <2>2 DEF Ends, Changed, Current, SqlEq
  <2>4. q.key \notin beyond
    BY <1>4, <2>1 DEF Ends
  <2>5. OneCurrent(Within(T))
    BY CommitBase
  <2>6. q = r
    BY <2>3, <2>4, <2>5, OnePartner DEF SqlEq
  <2> QED
    BY <2>1, <2>2, <2>6
<1>5. beyond \subseteq beyond'
  BY CommitBase
<1>6. SUFFICES ASSUME NEW x \in target', NEW y \in target', x.cur = 0, y.cur = 0,
                      x.key = y.key, x.end = y.end, x.key \notin beyond
               PROVE  x = y
  BY <1>5 DEF EndsOnce, Within
<1>7. CASE Past(x) /\ Past(y)
  BY <1>2, <1>6, <1>7 DEF EndsOnce, Within
<1>8. CASE Now(x) /\ Now(y)
  BY <1>4, <1>6, <1>8
<1> HIDE DEF Past, Now
<1> QED
  BY <1>1, <1>2, <1>3, <1>6, <1>7, <1>8

LEMMA EndsInvariant == Spec => []EndsOnce(Within(target))
<1>1. Init => EndsOnce(Within(target))
  BY DEF Init, EndsOnce, Within
<1>2. Inv /\ EndsOnce(Within(target)) /\ [Next]_vars => EndsOnce(Within(target))'
  <2> SUFFICES ASSUME Inv, EndsOnce(Within(target)), [Next]_vars PROVE EndsOnce(Within(target))'
    OBVIOUS
  <2>1. CASE UNCHANGED vars
    BY <2>1 DEF vars, EndsOnce, Within
  <2>2. CASE Next
    <3>1. PICK j \in Jobs : \/ Start(j) \/ Look(j) \/ CheckEnriched(j) \/ Inspect(j)
                            \/ WritePhoto(j) \/ Merge(j) \/ ValidateCurrent(j)
                            \/ CheckCurrent(j) \/ CheckBounds(j) \/ Abort(j)
      BY <2>2 DEF Next
    <3>2. TypeInv
      BY DEF Inv
    <3>3. CASE Quiet(j) \/ Inspect(j)
      BY <3>3 DEF Quiet, Inspect, EndsOnce, Within
    <3>4. CASE Commits(j)
      <4>1. CommitsTo(j, {}) \/ CommitsTo(j, target)
        BY <3>4, PhotoForm, MergeForm DEF Commits
      <4> QED
        BY <4>1, CommitEnds
    <3> QED
      BY <3>1, <3>2, <3>3, <3>4, Steps
  <2> QED
    BY <2>1, <2>2
<1> QED
  BY <1>1, <1>2, Invariant, PTL DEF Spec

\* Such a table has nothing to report.
LEMMA NothingToReport ==
  ASSUME Inv, EndsOnce(Within(target)), \A r \in target : r.key \notin NullKeys \cup beyond
  PROVE  /\ ~ DuplicateKeys(Current(target)) /\ ~ DuplicateBounds(target)
         /\ \A s \in SourceRows : ~ Cardinality(Partners(s, target)) > 1
<1>1. /\ target \in SUBSET TargetRows /\ Within(target) = target /\ OneCurrent(Within(target))
      /\ \A r \in target : (r.cur = 1 /\ r.end = Forever) \/ (r.cur = 0 /\ r.end + 1 < clock)
      /\ clock =< Forever
  BY RunsAssumption DEF Inv, TypeInv, TypeOK, RowsInv, Forever, Within
<1>2. \A q, r \in Current(target) : q.key = r.key => q = r
  BY <1>1 DEF OneCurrent, SqlEq, Current
<1>3. ~ DuplicateKeys(Current(target))
  BY <1>2 DEF DuplicateKeys
<1>4. ASSUME NEW q \in target, NEW r \in target, q.key = r.key, q.end = r.end
      PROVE  q = r
  <2>1. q.end \in Int /\ r.end \in Int /\ clock \in Int /\ Forever \in Int
    BY <1>1, RunsAssumption DEF TargetRows, Forever, Inv, TypeInv, TypeOK
  <2>2. q.cur = r.cur /\ q.cur \in {0, 1}
    BY <1>1, <1>4, <2>1
  <2> QED
    BY <1>1, <1>2, <1>4, <2>2 DEF EndsOnce, Current
<1>5. ASSUME NEW s \in SourceRows
      PROVE  ~ Cardinality(Partners(s, target)) > 1
  <2>1. \A q, r \in Partners(s, target) : q = r
    BY <1>2 DEF Partners, SqlEq
  <2>2. CASE Partners(s, target) = {}
    BY <2>2, FS_EmptySet
  <2>3. CASE Partners(s, target) # {}
    <3>1. PICK q : Partners(s, target) = {q}
      BY <2>1, <2>3
    <3>2. Cardinality({q}) = 1
      BY FS_Singleton
    <3> QED
      BY <3>1, <3>2
  <2> QED
    BY <2>2, <2>3
<1> QED
  BY <1>3, <1>4, <1>5 DEF DuplicateBounds

LEMMA SilentStep ==
  ASSUME Inv, EndsOnce(Within(target)), \A r \in target : r.key \notin NullKeys \cup beyond,
         NEW j \in Jobs,
         \/ Start(j) \/ Look(j) \/ CheckEnriched(j) \/ Inspect(j) \/ WritePhoto(j) \/ Merge(j)
         \/ ValidateCurrent(j) \/ CheckCurrent(j) \/ CheckBounds(j) \/ Abort(j)
  PROVE  job'[j].pc \notin {"refused", "duplicated"} /\ \A i \in Jobs \ {j} : job'[i] = job[i]
<1> DEFINE Silent(pc) == pc \notin {"refused", "duplicated"}
           Goal == Silent(job'[j].pc) /\ \A i \in Jobs \ {j} : job'[i] = job[i]
<1>1. job \in [Jobs -> [pc : Verdicts \cup InFlight, feed : SUBSET SourceRows,
                        cts : 0 .. MaxRuns, empty : BOOLEAN]]
  BY DEF Inv, TypeInv, TypeOK
<1>2. ASSUME NEW pc, Silent(pc), Goto(j, pc)
      PROVE  Goal
  BY <1>1, <1>2 DEF Goto
<1>3. ASSUME NEW v, Silent(v), End(j, v)
      PROVE  Goal
  BY <1>1, <1>3 DEF End, Ended
<1>4. CASE Start(j) \/ Look(j) \/ Inspect(j)
  BY <1>1, <1>4 DEF Start, Look, Inspect
<1>5. CASE CheckEnriched(j)
  <2>1. job[j].feed \subseteq SourceRows
    BY <1>1
  <2>2. Goto(j, "inspect")
    BY <1>5, <2>1, NothingToReport DEF CheckEnriched
  <2> QED
    BY <1>2, <2>2
<1>6. CASE WritePhoto(j)
  BY <1>2, <1>6 DEF WritePhoto
<1>7. CASE Merge(j)
  BY <1>2, <1>3, <1>7 DEF Merge
<1>8. CASE ValidateCurrent(j) \/ CheckCurrent(j)
  <2>1. Goto(j, "current") \/ Goto(j, "bounds")
    BY <1>8, NothingToReport DEF ValidateCurrent, CheckCurrent
  <2> QED
    BY <1>2, <2>1
<1>9. CASE CheckBounds(j) \/ Abort(j)
  <2>1. End(j, "ok") \/ End(j, "aborted")
    BY <1>9, NothingToReport DEF CheckBounds, Abort
  <2> QED
    BY <1>3, <2>1
<1> QED
  BY <1>4, <1>5, <1>6, <1>7, <1>8, <1>9

\* Of any number of interleaving jobs, a call is refused for its join or reported for the
\* table it left only on a table with a NULL key, or a key that had a row out of merge_cond.
THEOREM ChecksAlwaysSilent == Spec => ChecksSilent
<1> DEFINE Silence == \A j \in Jobs : ~ Alarmed(j) /\ Alarmed(j)' =>
                        \E r \in target : r.key \in NullKeys \cup beyond
<1>1. Inv /\ EndsOnce(Within(target)) /\ [Next]_vars => [Silence]_vars
  <2> SUFFICES ASSUME Inv, EndsOnce(Within(target)), Next,
                      NEW i \in Jobs, ~ Alarmed(i), Alarmed(i)',
                      \A r \in target : r.key \notin NullKeys \cup beyond
               PROVE  FALSE
    OBVIOUS
  <2>1. PICK j \in Jobs : \/ Start(j) \/ Look(j) \/ CheckEnriched(j) \/ Inspect(j)
                          \/ WritePhoto(j) \/ Merge(j) \/ ValidateCurrent(j)
                          \/ CheckCurrent(j) \/ CheckBounds(j) \/ Abort(j)
    BY DEF Next
  <2>2. job'[j].pc \notin {"refused", "duplicated"} /\ \A x \in Jobs \ {j} : job'[x] = job[x]
    BY <2>1, SilentStep
  <2> QED
    BY <2>2 DEF Alarmed
<1> QED
  BY <1>1, Invariant, EndsInvariant, PTL DEF Spec, ChecksSilent

(***************************************************************************)
(* The refinement: the table without previous columns and partition, and   *)
(* the calls as scd2_no_delete makes them.                                 *)
(***************************************************************************)
Bare(r) == [r EXCEPT !.val = r.val.biz, !.part = NullTime]
BareTable(T) == {Bare(r) : r \in T}

LEMMA BareRow ==
  ASSUME NEW r \in TargetRows
  PROVE  /\ Bare(r).key = r.key /\ Bare(r).val = r.val.biz /\ Bare(r).cs = r.cs
         /\ Bare(r).cur = r.cur /\ Bare(r).start = r.start /\ Bare(r).end = r.end
         /\ Bare(r).id = r.id
  BY DEF Bare, TargetRows

LEMMA BareLiteral ==
  ASSUME NEW r \in TargetRows
  PROVE  Bare(r) = [key |-> r.key, val |-> r.val.biz, cs |-> r.cs, cur |-> r.cur,
                    start |-> r.start, end |-> r.end, part |-> NullTime, id |-> r.id]
<1> DEFINE R == [key : {r.key}, val : {r.val.biz}, cs : {r.cs}, cur : {r.cur},
                 start : {r.start}, end : {r.end}, part : {NullTime}, id : {r.id}]
<1>1. Bare(r) \in R
  BY DEF Bare, TargetRows
<1>2. \A x, y \in R : x = y
  OBVIOUS
<1>3. [key |-> r.key, val |-> r.val.biz, cs |-> r.cs, cur |-> r.cur, start |-> r.start,
       end |-> r.end, part |-> NullTime, id |-> r.id] \in R
  OBVIOUS
<1> HIDE DEF R
<1> QED
  BY <1>1, <1>2, <1>3

LEMMA BareEnding ==
  ASSUME NEW j, NEW r \in TargetRows, NEW now
  PROVE  Bare(Ending(j, r, now)) = AsScd2!Closed(Bare(r), now)
<1>1. CASE job[j].empty
  BY <1>1 DEF Bare, Ending, Closed, AsScd2!Closed, TargetRows
<1>2. CASE ~ job[j].empty
  BY <1>2 DEF Bare, Ending, Closed, AsScd2!Closed, TargetRows
<1> QED
  BY <1>1, <1>2

\* Row e carries source row s.
Carries(e, s) == e.key = s.key /\ e.val.biz = s.val

LEMMA BareBeginning ==
  ASSUME NEW j, NEW e \in Rows, NEW s, Carries(e, s), NEW now \in 1 .. MaxRuns,
         NEW leg \in {"new", "upd"}
  PROVE  Bare(Beginning(j, e, now, leg, 1)) = AsScd2!Fresh(s, now, leg, 1)
<1> DEFINE q == Beginning(j, e, now, leg, 1)
<1>1. Fresh(e, now, leg, 1) \in TargetRows
  BY FreshType
<1>2. q \in TargetRows
  <2>1. NullTime \in NullTime .. Forever
    BY RunsAssumption DEF NullTime, Forever
  <2>2. [Fresh(e, now, leg, 1) EXCEPT !.part = NullTime] \in TargetRows
    BY <1>1, <2>1 DEF TargetRows
  <2> QED
    BY <1>1, <2>2 DEF Beginning
<1>3. /\ q.key = e.key /\ q.val = e.val /\ q.cs = ChecksumOf[e.val] /\ q.cur = 1
      /\ q.start = now /\ q.end = Forever /\ q.id = <<now, leg, 1>>
  BY BeginningRow
<1> HIDE DEF q
<1>4. ChecksumOf[e.val] = BizCs[s.val]
  BY DEF Carries, ChecksumOf, Rows
<1>5. AsScd2!PartOf(now, AsScd2!Forever) = NullTime /\ AsScd2!Forever = Forever
  BY DEF AsScd2!PartOf, AsScd2!NullTime, NullTime, AsScd2!Forever, Forever
<1>6. AsScd2!Fresh(s, now, leg, 1) =
        [key |-> q.key, val |-> q.val.biz, cs |-> q.cs, cur |-> q.cur, start |-> q.start,
         end |-> q.end, part |-> NullTime, id |-> q.id]
  BY <1>3, <1>4, <1>5 DEF AsScd2!Fresh, Carries
<1> QED
  BY <1>2, <1>6, BareLiteral DEF q

\* What source F does to the bare table.
BareChanged(r, F) == r.cur = 1 /\ \E s \in F : SqlEq(r.key, s.key) /\ BizCs[s.val] # r.cs
BareFollows(s, T) == \E r \in Current(T) : SqlEq(r.key, s.key) /\ BizCs[s.val] # r.cs

LEMMA BareStale ==
  ASSUME NEW T \in SUBSET TargetRows, NEW s
  PROVE  AsScd2!Stale(s, BareTable(T)) =
           {Bare(r) : r \in {x \in Current(T) : SqlEq(x.key, s.key) /\ BizCs[s.val] # x.cs}}
  BY BareRow DEF AsScd2!Stale, AsScd2!Current, AsScd2!SqlEq, BareTable, Current, SqlEq

LEMMA BareUpdLeg ==
  ASSUME NEW T \in SUBSET TargetRows, OneCurrent(T), NEW F, NEW now
  PROVE  AsScd2!UpdLeg(F, BareTable(T), now) =
           {[row |-> AsScd2!Fresh(s, now, "upd", 1), mk |-> Unkeyed] :
              s \in {x \in F : BareFollows(x, T)}}
<1> DEFINE Card(s) == Cardinality(AsScd2!Stale(s, BareTable(T)))
           Leg(s) == {[row |-> AsScd2!Fresh(s, now, "upd", n), mk |-> Unkeyed] : n \in 1 .. Card(s)}
<1>1. ASSUME NEW s
      PROVE  Card(s) = IF BareFollows(s, T) THEN 1 ELSE 0
  <2>1. CASE ~ BareFollows(s, T)
    <3>1. AsScd2!Stale(s, BareTable(T)) = {}
      BY <2>1, BareStale DEF BareFollows
    <3> QED
      BY <2>1, <3>1, FS_EmptySet
  <2>2. ASSUME NEW r \in Current(T), SqlEq(r.key, s.key), BizCs[s.val] # r.cs
        PROVE  Card(s) = 1
    <3>1. \A x \in Current(T) : SqlEq(x.key, s.key) => x = r
      BY <2>2 DEF OneCurrent, SqlEq
    <3>2. {x \in Current(T) : SqlEq(x.key, s.key) /\ BizCs[s.val] # x.cs} = {r}
      BY <2>2, <3>1
    <3>3. AsScd2!Stale(s, BareTable(T)) = {Bare(r)}
      BY <3>2, BareStale
    <3> QED
      BY <3>3, FS_Singleton
  <2> QED
    BY <2>1, <2>2 DEF BareFollows
<1>2. AsScd2!UpdLeg(F, BareTable(T), now) = UNION {Leg(s) : s \in F}
  <2>1. \A S : AsScd2!Cardinality(S) = Cardinality(S)
    BY DEF AsScd2!Cardinality, Cardinality
  <2> QED
    BY <2>1 DEF AsScd2!UpdLeg
<1> HIDE DEF Card
<1>3. ASSUME NEW s, BareFollows(s, T)
      PROVE  Leg(s) = {[row |-> AsScd2!Fresh(s, now, "upd", 1), mk |-> Unkeyed]}
  <2>1. 1 .. Card(s) = {1}
    BY <1>1, <1>3
  <2> QED
    BY <2>1
<1>4. ASSUME NEW s, ~ BareFollows(s, T)
      PROVE  Leg(s) = {}
  <2>1. 1 .. Card(s) = {}
    BY <1>1, <1>4
  <2> QED
    BY <2>1
<1> HIDE DEF Leg
<1> DEFINE One(s) == [row |-> AsScd2!Fresh(s, now, "upd", 1), mk |-> Unkeyed]
<1>5. \A s : Leg(s) = IF BareFollows(s, T) THEN {One(s)} ELSE {}
  BY <1>3, <1>4
<1> HIDE DEF One
<1>6. UNION {Leg(s) : s \in F} = {One(s) : s \in {x \in F : BareFollows(x, T)}}
  BY <1>5
<1> QED
  BY <1>2, <1>6 DEF One

BareMerged(T, F, now) ==
  {Bare(r) : r \in {x \in T : ~ BareChanged(x, F)}}
    \cup {AsScd2!Closed(Bare(r), now) : r \in {x \in T : BareChanged(x, F)}}
    \cup {AsScd2!Fresh(s, now, "new", 1) : s \in {x \in F : Starts(x, T)}}
    \cup {AsScd2!Fresh(s, now, "upd", 1) : s \in {x \in F : BareFollows(x, T)}}

LEMMA BareStaged ==
  ASSUME NEW T \in SUBSET TargetRows, OneCurrent(T), NEW F, NEW now
  PROVE  AsScd2!Staged(F, BareTable(T), now, TRUE) =
           {[row |-> AsScd2!Fresh(s, now, "new", 1), mk |-> s.key] : s \in F}
             \cup {[row |-> AsScd2!Fresh(s, now, "upd", 1), mk |-> Unkeyed] :
                     s \in {x \in F : BareFollows(x, T)}}
  BY BareUpdLeg DEF AsScd2!Staged, AsScd2!NewLeg

LEMMA BareMerge ==
  ASSUME NEW T \in SUBSET TargetRows, OneCurrent(T), NEW F \in SUBSET SourceRows, NEW now
  PROVE  AsScd2!MergeInto(BareTable(T), AsScd2!Staged(F, BareTable(T), now, TRUE), now)
           = BareMerged(T, F, now)
<1> DEFINE New(s) == [row |-> AsScd2!Fresh(s, now, "new", 1), mk |-> s.key]
           Upd(s) == [row |-> AsScd2!Fresh(s, now, "upd", 1), mk |-> Unkeyed]
           M == AsScd2!Staged(F, BareTable(T), now, TRUE)
<1>1. M = {New(s) : s \in F} \cup {Upd(s) : s \in {x \in F : BareFollows(x, T)}}
  BY BareStaged
<1>2. \A r \in T : r.key # Unkeyed /\ Bare(r).key = r.key /\ Bare(r).cs = r.cs
                   /\ Bare(r).cur = r.cur /\ Bare(r).val \in Sources
  BY BareRow, KeyAssumption DEF TargetRows, Payloads
<1>3. \A s : \A leg : AsScd2!Fresh(s, now, leg, 1).cs = BizCs[s.val]
  BY DEF AsScd2!Fresh
<1>4. \A r \in T : \A s \in F :
        /\ AsScd2!Matched(Bare(r), New(s)) <=> r.cur = 1 /\ SqlEq(r.key, s.key)
        /\ ~ AsScd2!Matched(Bare(r), Upd(s))
  BY <1>2 DEF AsScd2!Matched, AsScd2!SqlEq, SqlEq
<1>5. \A r \in T : \A s \in F :
        /\ AsScd2!Closes(Bare(r), New(s)) <=>
             r.cur = 1 /\ SqlEq(r.key, s.key) /\ BizCs[s.val] # r.cs
        /\ ~ AsScd2!Closes(Bare(r), Upd(s))
  BY <1>2, <1>3, <1>4 DEF AsScd2!Closes
<1>6. \A s : AsScd2!Inserted(New(s)) = AsScd2!Fresh(s, now, "new", 1)
             /\ AsScd2!Inserted(Upd(s)) = AsScd2!Fresh(s, now, "upd", 1)
  BY DEF AsScd2!Inserted, AsScd2!Fresh
<1> HIDE DEF New, Upd, M
<1>7. \A r \in T : (\E m \in M : AsScd2!Closes(Bare(r), m)) <=> BareChanged(r, F)
  BY <1>1, <1>5 DEF BareChanged
<1> DEFINE Kept == {IF \E m \in M : AsScd2!Closes(r, m) THEN AsScd2!Closed(r, now) ELSE r
                      : r \in BareTable(T)}
           Opened == {x \in M : \A r \in BareTable(T) : ~ AsScd2!Matched(r, x)}
<1>8. Kept = {Bare(r) : r \in {x \in T : ~ BareChanged(x, F)}}
               \cup {AsScd2!Closed(Bare(r), now) : r \in {x \in T : BareChanged(x, F)}}
  BY <1>7 DEF BareTable
<1>9. \A s \in F : (\A r \in BareTable(T) : ~ AsScd2!Matched(r, New(s))) <=> Starts(s, T)
  BY <1>4 DEF BareTable, Starts, Current
<1>10. \A s \in F : \A r \in BareTable(T) : ~ AsScd2!Matched(r, Upd(s))
  BY <1>4 DEF BareTable
<1>11. Opened = {New(s) : s \in {x \in F : Starts(x, T)}}
                  \cup {Upd(s) : s \in {x \in F : BareFollows(x, T)}}
  BY <1>1, <1>9, <1>10
<1>12. AsScd2!MergeInto(BareTable(T), M, now) = Kept \cup {AsScd2!Inserted(m) : m \in Opened}
  BY DEF AsScd2!MergeInto
<1> HIDE DEF Kept, Opened
<1>13. {AsScd2!Inserted(m) : m \in Opened} =
         {AsScd2!Fresh(s, now, "new", 1) : s \in {x \in F : Starts(x, T)}}
           \cup {AsScd2!Fresh(s, now, "upd", 1) : s \in {x \in F : BareFollows(x, T)}}
  BY <1>6, <1>11
<1> QED
  BY <1>8, <1>12, <1>13 DEF BareMerged, M

\* A row is ended by the row of its own key only, so the MERGE is never refused.
LEMMA BareUnambiguous ==
  ASSUME NEW T \in SUBSET TargetRows, OneCurrent(T),
         NEW F \in SUBSET SourceRows, ~ DuplicateKeys(F), NEW now
  PROVE  ~ AsScd2!Ambiguous(BareTable(T), AsScd2!Staged(F, BareTable(T), now, TRUE))
<1> DEFINE New(s) == [row |-> AsScd2!Fresh(s, now, "new", 1), mk |-> s.key]
           Upd(s) == [row |-> AsScd2!Fresh(s, now, "upd", 1), mk |-> Unkeyed]
           M == AsScd2!Staged(F, BareTable(T), now, TRUE)
<1>1. M = {New(s) : s \in F} \cup {Upd(s) : s \in {x \in F : BareFollows(x, T)}}
  BY BareStaged
<1>2. \A r \in T : r.key # Unkeyed /\ Bare(r).key = r.key
  BY BareRow, KeyAssumption DEF TargetRows
<1>3. \A r \in T : \A s \in F :
        /\ AsScd2!Closes(Bare(r), New(s)) => r.key = s.key
        /\ ~ AsScd2!Closes(Bare(r), Upd(s))
  BY <1>2 DEF AsScd2!Closes, AsScd2!Matched, AsScd2!SqlEq
<1> HIDE DEF New, Upd, M
<1>4. ASSUME NEW r \in T, NEW m \in M, NEW n \in M,
             AsScd2!Closes(Bare(r), m), AsScd2!Closes(Bare(r), n)
      PROVE  m = n
  <2>1. PICK s \in F : m = New(s) /\ r.key = s.key
    BY <1>1, <1>3, <1>4
  <2>2. PICK t \in F : n = New(t) /\ r.key = t.key
    BY <1>1, <1>3, <1>4
  <2>3. s = t
    BY <2>1, <2>2 DEF DuplicateKeys
  <2> QED
    BY <2>1, <2>2, <2>3
<1> QED
  BY <1>4 DEF AsScd2!Ambiguous, BareTable, M

\* The rows of a commit while merge_cond held of all that was on file.
LEMMA BareForm ==
  ASSUME Inv, beyond = {}, NEW j \in Jobs, NEW T, CommitsTo(j, T)
  PROVE  /\ OneCurrent(T) /\ \A r \in T : r.val \in Reachable
         /\ target' = {r \in T : ~ Changed(r, Given(j))}
              \cup {Ending(j, r, job[j].cts) : r \in {x \in T : Changed(x, Given(j))}}
              \cup {Beginning(j, e, job[j].cts, "new", 1) : e \in {x \in Given(j) : Starts(x, T)}}
              \cup {Beginning(j, e, job[j].cts, "upd", 1) : e \in {x \in Given(j) : Follows(x, T)}}
<1> DEFINE Upd(e, n) == Beginning(j, e, job[j].cts, "upd", n)
           Times(e) == 1 .. Cardinality(Stale(e, T))
<1>1. Within(T) = T /\ OneCurrent(Within(T)) /\ \A r \in T : r.val \in Reachable
  BY CommitBase DEF Within
<1>2. \A e : Opens(e, T) <=> Starts(e, T)
  BY <1>1 DEF Opens, Starts, Current
<1>3. \A e : {Upd(e, n) : n \in Times(e)} = IF Follows(e, T) THEN {Upd(e, 1)} ELSE {}
  <2>1. \A e : \A n : n \in Times(e) <=> n = 1 /\ Follows(e, T)
    BY <1>1, StaleOne
  <2> HIDE DEF Upd, Times
  <2> QED
    BY <2>1
<1>4. target' = {r \in T : ~ Changed(r, Given(j))}
        \cup {Ending(j, r, job[j].cts) : r \in {x \in T : Changed(x, Given(j))}}
        \cup {Beginning(j, e, job[j].cts, "new", 1) : e \in {x \in Given(j) : Opens(x, T)}}
        \cup UNION {{Upd(e, n) : n \in Times(e)} : e \in Given(j)}
  BY DEF CommitsTo, Committed
<1> HIDE DEF Times
<1>5. UNION {{Upd(e, n) : n \in Times(e)} : e \in Given(j)} =
        {Upd(e, 1) : e \in {x \in Given(j) : Follows(x, T)}}
  <2> HIDE DEF Upd
  <2> QED
    BY <1>3
<1> QED
  BY <1>1, <1>2, <1>4, <1>5

\* The bare rows of a commit are those scd2_no_delete would have committed.
LEMMA BareCommit ==
  ASSUME Inv, beyond = {}, NEW j \in Jobs, NEW T, CommitsTo(j, T)
  PROVE  BareTable(target') = BareMerged(T, job[j].feed, job[j].cts)
<1> DEFINE E == Given(j)
           F == job[j].feed
           now == job[j].cts
           New(e) == Beginning(j, e, now, "new", 1)
           Upd(e) == Beginning(j, e, now, "upd", 1)
           End1(r) == Ending(j, r, now)
<1>1. /\ T \in SUBSET TargetRows /\ E \in SUBSET Rows /\ now \in 1 .. MaxRuns
      /\ \A e \in E : \E s \in F : Carries(e, s)
      /\ \A s \in F : \E e \in E : Carries(e, s)
  BY CommitBase, GivenRows DEF Inv, RowsInv, Carries
<1>2. target' = {r \in T : ~ Changed(r, E)} \cup {End1(r) : r \in {x \in T : Changed(x, E)}}
                  \cup {New(e) : e \in {x \in E : Starts(x, T)}}
                  \cup {Upd(e) : e \in {x \in E : Follows(x, T)}}
  BY BareForm
<1>3. ASSUME NEW e \in E, NEW s, Carries(e, s)
      PROVE  /\ e.key = s.key /\ ChecksumOf[e.val] = BizCs[s.val]
             /\ Bare(New(e)) = AsScd2!Fresh(s, now, "new", 1)
             /\ Bare(Upd(e)) = AsScd2!Fresh(s, now, "upd", 1)
  <2> HIDE DEF E, now
  <2>1. e.key = s.key /\ ChecksumOf[e.val] = BizCs[s.val]
    BY <1>1, <1>3 DEF Carries, ChecksumOf, Rows
  <2>2. e \in Rows
    BY <1>1
  <2>3. Bare(New(e)) = AsScd2!Fresh(s, now, "new", 1)
    BY <1>1, <1>3, <2>2, BareBeginning
  <2>4. Bare(Upd(e)) = AsScd2!Fresh(s, now, "upd", 1)
    BY <1>1, <1>3, <2>2, BareBeginning
  <2> QED
    BY <2>1, <2>3, <2>4
<1>4. \A e \in E : \A s : Carries(e, s) =>
        /\ Starts(e, T) <=> Starts(s, T)
        /\ Follows(e, T) <=> BareFollows(s, T)
  BY <1>3 DEF Starts, Follows, Stale, BareFollows
<1>5. \A r \in T : Changed(r, E) <=> BareChanged(r, F)
  BY <1>1, <1>3, BareForm DEF Changed, BareChanged
<1>6. \A r \in T : Bare(End1(r)) = AsScd2!Closed(Bare(r), now)
  BY <1>1, BareEnding
<1> HIDE DEF E, F, now, New, Upd, End1
<1>7. {Bare(x) : x \in {New(e) : e \in {x \in E : Starts(x, T)}}}
        = {AsScd2!Fresh(s, now, "new", 1) : s \in {x \in F : Starts(x, T)}}
  BY <1>1, <1>3, <1>4
<1>8. {Bare(x) : x \in {Upd(e) : e \in {x \in E : Follows(x, T)}}}
        = {AsScd2!Fresh(s, now, "upd", 1) : s \in {x \in F : BareFollows(x, T)}}
  BY <1>1, <1>3, <1>4
<1>9. {Bare(x) : x \in {End1(r) : r \in {x \in T : Changed(x, E)}}}
        = {AsScd2!Closed(Bare(r), now) : r \in {x \in T : BareChanged(x, F)}}
  BY <1>5, <1>6
<1>10. {Bare(x) : x \in {r \in T : ~ Changed(r, E)}}
         = {Bare(r) : r \in {x \in T : ~ BareChanged(x, F)}}
  BY <1>5
<1> DEFINE A == {r \in T : ~ Changed(r, E)}
           B == {End1(r) : r \in {x \in T : Changed(x, E)}}
           C == {New(e) : e \in {x \in E : Starts(x, T)}}
           D == {Upd(e) : e \in {x \in E : Follows(x, T)}}
<1>11. target' = A \cup B \cup C \cup D
  BY <1>2
<1>12. /\ {Bare(x) : x \in A} = {Bare(r) : r \in {x \in T : ~ BareChanged(x, F)}}
       /\ {Bare(x) : x \in B} = {AsScd2!Closed(Bare(r), now) : r \in {x \in T : BareChanged(x, F)}}
       /\ {Bare(x) : x \in C} = {AsScd2!Fresh(s, now, "new", 1) : s \in {x \in F : Starts(x, T)}}
       /\ {Bare(x) : x \in D} = {AsScd2!Fresh(s, now, "upd", 1) : s \in {x \in F : BareFollows(x, T)}}
  BY <1>7, <1>8, <1>9, <1>10
<1> HIDE DEF A, B, C, D
<1>13. BareTable(target') = {Bare(x) : x \in A} \cup {Bare(x) : x \in B}
                              \cup {Bare(x) : x \in C} \cup {Bare(x) : x \in D}
  BY <1>11 DEF BareTable
<1>14. BareTable(target') = BareMerged(T, F, now)
  BY <1>12, <1>13 DEF BareMerged
<1> QED
  BY <1>14 DEF F, now

\* A call as one of scd2_no_delete.
CallOf(x) ==
  [pc |-> PcOf(x.pc), feed |-> x.feed, cts |-> x.cts,
   type |-> IF x.pc \in Verdicts THEN "none" ELSE "scd2_no_delete"]

LEMMA PcOfEach ==
  /\ PcOf("idle") = "idle" /\ PcOf("aborted") = "aborted" /\ PcOf("refused") = "aborted"
  /\ PcOf("duplicated") = "duplicated" /\ PcOf("ok") = "ok"
  /\ PcOf("look") = "check" /\ PcOf("enrich") = "inspect" /\ PcOf("inspect") = "inspect"
  /\ PcOf("photo") = "photo" /\ PcOf("merge") = "merge" /\ PcOf("validate") = "count"
  /\ PcOf("current") = "current" /\ PcOf("bounds") = "bounds"
  BY DEF PcOf

\* How the bare calls change when that of job j does.
LEMMA BareGoto ==
  ASSUME NEW j \in Jobs, NEW pc, \A i \in Jobs \ {j} : job'[i] = job[i],
         CallOf(job'[j]) = [CallOf(job[j]) EXCEPT !.pc = pc]
  PROVE  AsScd2!Goto(j, pc)
<1> DEFINE Was == [i \in Jobs |-> CallOf(job[i])]
           Is == [i \in Jobs |-> CallOf(job'[i])]
<1>1. AsScd2!Goto(j, pc) <=> Is = [Was EXCEPT ![j].pc = pc]
  BY DEF AsScd2!Goto, CallOf
<1>2. Is = [Was EXCEPT ![j].pc = pc]
  OBVIOUS
<1> QED
  BY <1>1, <1>2

LEMMA BareEnd ==
  ASSUME NEW j \in Jobs, NEW v, \A i \in Jobs \ {j} : job'[i] = job[i],
         CallOf(job'[j]) = AsScd2!Ended(v)
  PROVE  AsScd2!End(j, v)
<1> DEFINE Was == [i \in Jobs |-> CallOf(job[i])]
           Is == [i \in Jobs |-> CallOf(job'[i])]
<1>1. AsScd2!End(j, v) <=> Is = [Was EXCEPT ![j] = AsScd2!Ended(v)]
  BY DEF AsScd2!End, CallOf
<1>2. Is = [Was EXCEPT ![j] = AsScd2!Ended(v)]
  OBVIOUS
<1> QED
  BY <1>1, <1>2

LEMMA GotoBare ==
  ASSUME TypeInv, NEW j \in Jobs, job[j].pc \in InFlight, NEW pc \in InFlight, Goto(j, pc)
  PROVE  AsScd2!Goto(j, PcOf(pc))
<1>1. /\ \A i \in Jobs \ {j} : job'[i] = job[i]
      /\ job'[j].pc = pc /\ job'[j].feed = job[j].feed /\ job'[j].cts = job[j].cts
  BY DEF Goto, TypeInv, TypeOK
<1>2. job[j].pc \notin Verdicts /\ pc \notin Verdicts
  BY DEF InFlight, Verdicts
<1>3. CallOf(job'[j]) = [CallOf(job[j]) EXCEPT !.pc = PcOf(pc)]
  BY <1>1, <1>2 DEF CallOf
<1> QED
  BY <1>1, <1>3, BareGoto

LEMMA EndBare ==
  ASSUME TypeInv, NEW j \in Jobs, NEW v \in Verdicts, End(j, v)
  PROVE  AsScd2!End(j, PcOf(v))
<1>1. job'[j] = Ended(v) /\ \A i \in Jobs \ {j} : job'[i] = job[i]
  BY DEF End, TypeInv, TypeOK
<1>2. CallOf(Ended(v)) = AsScd2!Ended(PcOf(v))
  BY DEF CallOf, Ended, AsScd2!Ended
<1> QED
  BY <1>1, <1>2, BareEnd

LEMMA AbortBare ==
  ASSUME TypeInv, NEW j \in Jobs, job[j].pc \in InFlight, NEW v \in {"aborted", "refused"},
         End(j, v), target' = target, clock' = clock
  PROVE  AsScd2!Abort(j)
<1>1. v \in Verdicts /\ PcOf(v) = "aborted"
  BY PcOfEach DEF Verdicts
<1>2. AsScd2!End(j, "aborted")
  BY <1>1, EndBare
<1>3. PcOf(job[j].pc) \in AsScd2!InFlight
  BY PcOfEach DEF InFlight, AsScd2!InFlight
<1> QED
  BY <1>2, <1>3 DEF AsScd2!Abort

LEMMA StartBare ==
  ASSUME TypeInv, NEW j \in Jobs, Start(j)
  PROVE  AsScd2!Start(j)
<1>1. PICK F \in Feeds :
        job' = [job EXCEPT ![j] = [pc |-> "look", feed |-> F, cts |-> 0, empty |-> FALSE]]
  BY DEF Start
<1>2. /\ job'[j] = [pc |-> "look", feed |-> F, cts |-> 0, empty |-> FALSE]
      /\ \A i \in Jobs \ {j} : job'[i] = job[i]
  BY <1>1 DEF TypeInv, TypeOK
<1>3. CallOf(job'[j]) = [pc |-> "check", type |-> "scd2_no_delete", feed |-> F, cts |-> 0]
  BY <1>2, PcOfEach DEF CallOf, Verdicts
<1>4. PcOf(job[j].pc) \in AsScd2!Verdicts
  BY PcOfEach DEF Start, Verdicts, AsScd2!Verdicts
<1>5. F \in SUBSET AsScd2!Rows
  BY DEF Feeds, SourceRows, AsScd2!Rows
<1> DEFINE Was == [i \in Jobs |-> CallOf(job[i])]
           Is == [i \in Jobs |-> CallOf(job'[i])]
<1>6. Is = [Was EXCEPT ![j] = [pc |-> "check", type |-> "scd2_no_delete", feed |-> F, cts |-> 0]]
  BY <1>2, <1>3
<1>7. target' = target /\ clock' = clock
  BY DEF Start
<1>8. \E type \in {"scd2_no_delete"}, G \in SUBSET AsScd2!Rows :
        Is = [Was EXCEPT ![j] = [pc |-> "check", type |-> type, feed |-> G, cts |-> 0]]
  BY <1>5, <1>6
<1> QED
  BY <1>4, <1>7, <1>8 DEF AsScd2!Start, CallOf

LEMMA LookBare ==
  ASSUME TypeInv, NEW j \in Jobs, Look(j)
  PROVE  AsScd2!CheckSource(j)
<1>1. PICK pc \in {"inspect", "enrich"}, b \in BOOLEAN :
        job' = [job EXCEPT ![j].pc = pc, ![j].empty = b]
  BY DEF Look
<1>2. /\ job'[j].pc = pc /\ job'[j].feed = job[j].feed /\ job'[j].cts = job[j].cts
      /\ \A i \in Jobs \ {j} : job'[i] = job[i]
  BY <1>1 DEF TypeInv, TypeOK
<1>3. CallOf(job'[j]) = [CallOf(job[j]) EXCEPT !.pc = "inspect"]
  BY <1>2, PcOfEach DEF CallOf, Look, Verdicts
<1>4. AsScd2!Goto(j, "inspect")
  BY <1>2, <1>3, BareGoto
<1>5. job[j].pc = "look" /\ PcOf(job[j].pc) = "check" /\ target' = target /\ clock' = clock
  BY PcOfEach DEF Look
<1>6. ~ AsScd2!DuplicateKeys(job[j].feed)
  BY DEF TypeInv, Stamped, Feeds, DuplicateKeys, AsScd2!DuplicateKeys
<1> QED
  BY <1>4, <1>5, <1>6 DEF AsScd2!CheckSource

LEMMA InspectBare ==
  ASSUME TypeInv, NEW j \in Jobs, Inspect(j)
  PROVE  AsScd2!Inspect(j)
<1> DEFINE pc == IF target = {} THEN "photo" ELSE "merge"
<1>1. /\ job'[j].pc = pc /\ job'[j].feed = job[j].feed /\ job'[j].cts = clock
      /\ \A i \in Jobs \ {j} : job'[i] = job[i]
  BY DEF Inspect, TypeInv, TypeOK
<1>2. job[j].pc = "inspect" /\ PcOf(pc) = pc /\ pc \in {"photo", "merge"}
  BY PcOfEach DEF Inspect
<1> HIDE DEF pc
<1>3. CallOf(job'[j]) = [pc |-> pc, type |-> CallOf(job[j]).type, feed |-> job[j].feed,
                         cts |-> clock]
  BY <1>1, <1>2 DEF CallOf, Verdicts
<1> DEFINE Was == [i \in Jobs |-> CallOf(job[i])]
           Is == [i \in Jobs |-> CallOf(job'[i])]
<1>4. Is = [Was EXCEPT ![j] = [pc |-> pc, type |-> @.type, feed |-> @.feed, cts |-> clock]]
  BY <1>1, <1>3 DEF CallOf
<1>5. (BareTable(target) = {}) <=> (target = {})
  BY DEF BareTable
<1>6. Is = [Was EXCEPT ![j] = [pc |-> IF BareTable(target) = {} THEN "photo" ELSE "merge",
                               type |-> @.type, feed |-> @.feed, cts |-> clock]]
  BY <1>4, <1>5 DEF pc
<1>7. clock =< MaxRuns /\ clock' = clock + 1 /\ target' = target /\ PcOf(job[j].pc) = "inspect"
  BY <1>2, PcOfEach DEF Inspect
<1> QED
  BY <1>6, <1>7 DEF AsScd2!Inspect, CallOf, BareTable, Bare

\* A commit goes on to "validate", which is the count that scd2_no_delete skips.
LEMMA CommitBare ==
  ASSUME Inv, beyond = {}, NEW j \in Jobs, Commits(j)
  PROVE  AsScd2!WritePhoto(j) \/ AsScd2!Merge(j)
<1> DEFINE F == job[j].feed
           now == job[j].cts
<1>1. Goto(j, "validate") /\ job[j].pc \in {"photo", "merge"} /\ clock' = clock /\ Inv
  BY DEF Commits, Goto, Pending
<1>2. AsScd2!Goto(j, "count")
  BY <1>1, GotoBare, PcOfEach DEF Inv, InFlight
<1>3. CASE job[j].pc = "photo"
  <2>1. CommitsTo(j, {})
    BY <1>3, PhotoForm
  <2>2. BareTable(target') = BareMerged({}, F, now)
    BY <2>1, BareCommit
  <2>3. BareMerged({}, F, now) = AsScd2!Photo(F, now)
    <3>1. {x \in F : Starts(x, {})} = F /\ {x \in F : BareFollows(x, {})} = {}
      BY DEF Starts, BareFollows, Current
    <3> QED
      BY <3>1 DEF BareMerged, AsScd2!Photo
  <2>4. BareTable(target') = AsScd2!Photo(F, now) /\ PcOf(job[j].pc) = "photo"
    BY <1>3, <2>2, <2>3, PcOfEach
  <2>5. AsScd2!WritePhoto(j)
    BY <1>1, <1>2, <2>4 DEF AsScd2!WritePhoto, BareTable, Bare
  <2> QED
    BY <2>5
<1>4. CASE job[j].pc = "merge"
  <2>1. CommitsTo(j, target)
    BY <1>4, MergeForm
  <2>2. BareTable(target') = BareMerged(target, F, now)
    BY <2>1, BareCommit
  <2>3. /\ target \in SUBSET TargetRows /\ OneCurrent(target)
        /\ F \in SUBSET SourceRows /\ ~ DuplicateKeys(F)
    BY <2>1, BareForm DEF Inv, TypeInv, TypeOK, Stamped, Feeds
  <2> DEFINE M == AsScd2!Staged(F, BareTable(target), now, TRUE)
  <2>4. BareTable(target') = AsScd2!MergeInto(BareTable(target), M, now)
    BY <2>2, <2>3, BareMerge
  <2>5. ~ AsScd2!Ambiguous(BareTable(target), M)
    BY <2>3, BareUnambiguous
  <2>6. AsScd2!StagedBy(j) = M
    <3>1. /\ ~ (job[j].pc \in Verdicts)
      BY <1>4 DEF Verdicts
    <3> QED
      BY <3>1 DEF AsScd2!StagedBy, AsScd2!Staged, BareTable, Bare
  <2> HIDE DEF M
  <2>7. PcOf(job[j].pc) = "merge"
    BY <1>4, PcOfEach
  <2>8. AsScd2!Merge(j)
    BY <1>1, <1>2, <2>4, <2>5, <2>6, <2>7 DEF AsScd2!Merge, BareTable, Bare
  <2> QED
    BY <2>8
<1> QED
  BY <1>1, <1>3, <1>4

\* The bare table has a duplicate where the table has one.
LEMMA BareDuplicates ==
  ASSUME Inv, beyond = {}
  PROVE  /\ AsScd2!DuplicateKeys(AsScd2!Current(BareTable(target)))
              <=> DuplicateKeys(Current(target))
         /\ AsScd2!DuplicateBounds(BareTable(target)) <=> DuplicateBounds(target)
<1>1. /\ \A r \in target : /\ Bare(r).key = r.key /\ Bare(r).cur = r.cur
                           /\ Bare(r).end = r.end /\ Bare(r).id = r.id
      /\ Identified(target)
  BY BareRow DEF Inv, TypeInv, TypeOK, RowsInv, Within
<1>2. \A r, q \in target : r.key = q.key => (r = q <=> Bare(r) = Bare(q))
  BY <1>1 DEF Identified
<1>3. AsScd2!DuplicateKeys(AsScd2!Current(BareTable(target)))
        <=> \E r, q \in Current(target) : Bare(r) # Bare(q) /\ r.key = q.key
  BY <1>1 DEF AsScd2!DuplicateKeys, AsScd2!Current, Current, BareTable
<1>4. AsScd2!DuplicateBounds(BareTable(target))
        <=> \E r, q \in target : Bare(r) # Bare(q) /\ r.key = q.key /\ r.end = q.end
  BY <1>1 DEF AsScd2!DuplicateBounds, BareTable
<1> QED
  BY <1>2, <1>3, <1>4 DEF DuplicateKeys, DuplicateBounds, Current

\* Every step is then a step of scd2_no_delete, or none.
LEMMA StepBare ==
  ASSUME Inv, beyond = {}, NEW j \in Jobs,
         \/ Start(j) \/ Look(j) \/ CheckEnriched(j) \/ Inspect(j) \/ WritePhoto(j) \/ Merge(j)
         \/ ValidateCurrent(j) \/ CheckCurrent(j) \/ CheckBounds(j) \/ Abort(j)
  PROVE  AsScd2!Step(j) \/ UNCHANGED AsScd2!vars
<1> USE DEF Inv
<1>1. CASE Start(j)
  BY <1>1, StartBare DEF AsScd2!Step
<1>2. CASE Look(j)
  BY <1>2, LookBare DEF AsScd2!Step
<1>3. CASE CheckEnriched(j)
  <2>1. job[j].pc = "enrich" /\ target' = target /\ clock' = clock
        /\ (End(j, "refused") \/ Goto(j, "inspect"))
    BY <1>3 DEF CheckEnriched
  <2>2. CASE End(j, "refused")
    BY <2>1, <2>2, AbortBare DEF InFlight, AsScd2!Step
  <2>3. CASE Goto(j, "inspect")
    <3>1. /\ job'[j].pc = "inspect" /\ job'[j].feed = job[j].feed /\ job'[j].cts = job[j].cts
          /\ \A i \in Jobs \ {j} : job'[i] = job[i]
      BY <2>3 DEF Goto, TypeInv, TypeOK
    <3>2. CallOf(job'[j]) = CallOf(job[j])
      BY <2>1, <3>1, PcOfEach DEF CallOf, Verdicts
    <3>3. [i \in Jobs |-> CallOf(job'[i])] = [i \in Jobs |-> CallOf(job[i])]
      BY <3>1, <3>2
    <3> QED
      BY <2>1, <3>3 DEF AsScd2!vars, CallOf
  <2> QED
    BY <2>1, <2>2, <2>3
<1>4. CASE Inspect(j)
  BY <1>4, InspectBare DEF AsScd2!Step
<1>5. CASE WritePhoto(j)
  BY <1>5, PhotoCommits, CommitBare DEF AsScd2!Step
<1>6. CASE Merge(j)
  <2>1. \/ End(j, "aborted") /\ target' = target
        \/ /\ target' = Filed(j, target, MergeInto(target, Staged(Given(j), target, job[j].cts, TRUE),
                                                   job[j].cts))
           /\ Record /\ Goto(j, "validate")
    BY <1>6 DEF Merge
  <2>2. job[j].pc = "merge" /\ clock' = clock /\ blind' = blind
    BY <1>6 DEF Merge
  <2>3. CASE End(j, "aborted") /\ target' = target
    BY <2>2, <2>3, AbortBare DEF InFlight, AsScd2!Step
  <2>4. CASE target' = Filed(j, target, MergeInto(target,
                               Staged(Given(j), target, job[j].cts, TRUE), job[j].cts))
             /\ Record /\ Goto(j, "validate")
    <3>1. Commits(j)
      BY <2>2, <2>4 DEF Commits, Pending, Goto
    <3> QED
      BY <3>1, CommitBare DEF AsScd2!Step
  <2> QED
    BY <2>1, <2>3, <2>4
<1>7. CASE ValidateCurrent(j)
  <2>1. job[j].pc = "validate" /\ target' = target /\ clock' = clock
        /\ (End(j, "refused") \/ Goto(j, "current"))
    BY <1>7 DEF ValidateCurrent
  <2>2. CASE End(j, "refused")
    BY <2>1, <2>2, AbortBare DEF InFlight, AsScd2!Step
  <2>3. CASE Goto(j, "current")
    <3>1. AsScd2!Goto(j, "current") /\ PcOf(job[j].pc) = "count" /\ job[j].pc \notin Verdicts
      BY <2>1, <2>3, GotoBare, PcOfEach DEF InFlight, Verdicts
    <3>2. AsScd2!Counted(j)
      BY <3>1 DEF AsScd2!Counted
    <3> QED
      BY <2>1, <3>1, <3>2 DEF AsScd2!RowCount, AsScd2!Step
  <2> QED
    BY <2>1, <2>2, <2>3
<1>8. CASE CheckCurrent(j)
  <2>1. job[j].pc = "current" /\ target' = target /\ clock' = clock /\ PcOf(job[j].pc) = "current"
    BY <1>8, PcOfEach DEF CheckCurrent
  <2>2. IF DuplicateKeys(Current(target)) THEN End(j, "duplicated") ELSE Goto(j, "bounds")
    BY <1>8 DEF CheckCurrent
  <2>3. IF DuplicateKeys(Current(target)) THEN AsScd2!End(j, "duplicated")
        ELSE AsScd2!Goto(j, "bounds")
    BY <2>1, <2>2, EndBare, GotoBare, PcOfEach DEF Verdicts, InFlight
  <2>4. IF AsScd2!DuplicateKeys(AsScd2!Current(BareTable(target)))
          THEN AsScd2!End(j, "duplicated") ELSE AsScd2!Goto(j, "bounds")
    BY <2>3, BareDuplicates
  <2>5. AsScd2!CheckCurrent(j)
    BY <2>1, <2>4 DEF AsScd2!CheckCurrent, BareTable, Bare
  <2> QED
    BY <2>5 DEF AsScd2!Step
<1>9. CASE CheckBounds(j)
  <2>1. job[j].pc = "bounds" /\ target' = target /\ clock' = clock /\ PcOf(job[j].pc) = "bounds"
    BY <1>9, PcOfEach DEF CheckBounds
  <2>2. PICK v \in {"duplicated", "ok"} :
          End(j, v) /\ v = (IF DuplicateBounds(target) THEN "duplicated" ELSE "ok")
    BY <1>9 DEF CheckBounds
  <2>3. AsScd2!End(j, v)
    BY <2>2, EndBare, PcOfEach DEF Verdicts
  <2>4. v = IF AsScd2!DuplicateBounds(BareTable(target)) THEN "duplicated" ELSE "ok"
    BY <2>2, BareDuplicates
  <2>5. AsScd2!CheckBounds(j)
    BY <2>1, <2>3, <2>4 DEF AsScd2!CheckBounds, AsScd2!End, BareTable, Bare
  <2> QED
    BY <2>5 DEF AsScd2!Step
<1>10. CASE Abort(j)
  BY <1>10, AbortBare DEF Abort, AsScd2!Step
<1> QED
  BY <1>1, <1>2, <1>3, <1>4, <1>5, <1>6, <1>7, <1>8, <1>9, <1>10

\* But for the previous columns and the partition, scd6 is scd2_no_delete while merge_cond
\* held of every row ever on file: whatever other jobs commit, the join neither loses nor
\* doubles a source row, and the previous columns do not count as a change.
THEOREM RefinesScd2Always == Spec => RefinesScd2
<1>1. Init => AsScd2!Init
  <2> SUFFICES ASSUME Init PROVE AsScd2!Init
    OBVIOUS
  <2>1. BareTable(target) = {} /\ clock = 1
    BY DEF Init, BareTable
  <2>2. CallOf(Ended("idle")) = AsScd2!Ended("idle")
    BY PcOfEach DEF CallOf, Ended, AsScd2!Ended, Verdicts
  <2>3. [i \in Jobs |-> CallOf(job[i])] = [i \in Jobs |-> AsScd2!Ended("idle")]
    BY <2>2 DEF Init
  <2> QED
    BY <2>1, <2>3 DEF AsScd2!Init, CallOf, BareTable, Bare
<1>2. Inv /\ [Next]_vars => [beyond = {} => AsScd2!Next]_(AsScd2!vars)
  <2> SUFFICES ASSUME Inv, [Next]_vars, beyond = {}
               PROVE  AsScd2!Next \/ UNCHANGED AsScd2!vars
    OBVIOUS
  <2>1. CASE UNCHANGED vars
    BY <2>1 DEF vars, AsScd2!vars
  <2>2. CASE Next
    BY <2>2, StepBare DEF Next, AsScd2!Next
  <2> QED
    BY <2>1, <2>2
<1> QED
  BY <1>1, <1>2, Invariant, PTL DEF Spec, RefinesScd2
=============================================================================
