------------------------------ MODULE Scd3Proofs ------------------------------
(***************************************************************************)
(* Proofs about Scd3 for every value of its constants.  They take from the *)
(* source that all rows have the same columns, Cols, and that a column may *)
(* hold any of Values.                                                     *)
(***************************************************************************)
EXTENDS Scd3, UpsertProofs

Tabular(Cols, Values) == Vals = [Cols -> Values] /\ Vals # {}

\* The rows of job j's source have one key each.
Clean == \A j \in Jobs : job[j].feed \in Feeds

TypeInv == TypeOK /\ Clean

(***************************************************************************)
(* Rows.                                                                   *)
(***************************************************************************)
LEMMA TrackedColumns ==
  ASSUME NEW Cols, NEW Values, Tabular(Cols, Values)
  PROVE  Tracked \subseteq Cols
<1>1. PICK v \in Vals : TRUE
  BY DEF Tabular
<1>2. DOMAIN v = Cols
  BY <1>1 DEF Tabular
<1> QED
  BY <1>1, <1>2, TrackedAssumption

\* What row r shows in the tracked columns, and what its update by s shows.
Previous(r) == [c \in Tracked |-> r.val[c]]
Shown(Cols, r, s, ign) == [c \in Cols |-> IF c \in ign THEN r.val[c] ELSE s.val[c]]

LEMMA ShiftedRow ==
  ASSUME NEW Cols, NEW Values, Tabular(Cols, Values),
         NEW r \in TargetRows, NEW s \in Rows, NEW ign
  PROVE  /\ Shifted(r, s, ign) \in TargetRows
         /\ Shifted(r, s, ign).key = r.key /\ Shifted(r, s, ign).id = r.id
         /\ Shifted(r, s, ign).prev = Previous(r)
         /\ Shifted(r, s, ign).val = Shown(Cols, r, s, ign)
<1> DEFINE q == Shifted(r, s, ign)
<1>1. r.val \in [Cols -> Values] /\ s.val \in [Cols -> Values]
  BY DEF TargetRows, Rows, Tabular
<1>2. DOMAIN r.val = Cols
  BY <1>1
<1> DEFINE val == Shown(Cols, r, s, ign)
           prev == Previous(r)
<1>3. q = [r EXCEPT !.val = val, !.prev = prev]
  BY <1>2 DEF Shifted, Shown, Previous
<1>4. val \in Vals
  <2>1. val \in [Cols -> Values]
    BY <1>1 DEF Shown
  <2> QED
    BY <2>1 DEF Tabular
<1>5. prev \in [Tracked -> {NoValue} \cup UNION {{v[c] : c \in Tracked} : v \in Vals}]
  <2>1. \A c \in Tracked : r.val[c] \in UNION {{v[d] : d \in Tracked} : v \in Vals}
    BY DEF TargetRows
  <2> QED
    BY <2>1 DEF Previous
<1> HIDE DEF q, val, prev
<1>6. q \in TargetRows /\ q.key = r.key /\ q.id = r.id /\ q.prev = prev /\ q.val = val
  BY <1>3, <1>4, <1>5 DEF TargetRows
<1> QED
  BY <1>6 DEF q, val, prev

LEMMA BornRow ==
  ASSUME NEW s \in Rows, NEW n \in 1 .. MaxRuns
  PROVE  Born(s, n) \in TargetRows /\ Born(s, n).key = s.key /\ Born(s, n).val = s.val
<1> DEFINE prev == [c \in Tracked |-> NoValue]
<1>1. prev \in [Tracked -> {NoValue} \cup UNION {{v[c] : c \in Tracked} : v \in Vals}]
  OBVIOUS
<1> HIDE DEF prev
<1> QED
  BY <1>1 DEF Born, TargetRows, Rows, prev

\* Where a row of the merged table comes from.
LEMMA MergedRow ==
  ASSUME NEW T, NEW F, NEW ign, NEW n, NEW q \in Merged(T, F, ign, n)
  PROVE  \/ q \in T /\ \A s \in F : Hits(q, s) => ~ Changed(q, s)
         \/ \E r \in T, s \in F : Hits(r, s) /\ Changed(r, s) /\ q = Shifted(r, s, ign)
         \/ \E s \in F : q = Born(s, n)
<1>1. CASE q \in T \ {y[1] : y \in Updates(T, F)}
  <2>1. ASSUME NEW s \in F, Hits(q, s), Changed(q, s)
        PROVE  FALSE
    <3>1. <<q, s>> \in Updates(T, F)
      BY <1>1, <2>1 DEF Updates
    <3> QED
      BY <1>1, <3>1
  <2> QED
    BY <1>1, <2>1
<1>2. CASE q \in {Shifted(y[1], y[2], ign) : y \in Updates(T, F)}
  <2>1. PICK y \in T \X F : Hits(y[1], y[2]) /\ Changed(y[1], y[2])
                              /\ q = Shifted(y[1], y[2], ign)
    BY <1>2 DEF Updates
  <2>2. y[1] \in T /\ y[2] \in F
    OBVIOUS
  <2> QED
    BY <2>1, <2>2
<1>3. CASE q \in {Born(s, n) : s \in {x \in F : \A r \in T : ~ Hits(r, x)}}
  BY <1>3
<1> QED
  BY <1>1, <1>2, <1>3 DEF Merged

\* And where a row of the table, or of the source, goes to.
LEMMA MergedFrom ==
  ASSUME NEW T, NEW F, NEW ign, NEW n
  PROVE  /\ \A r \in T :
              \/ r \in Merged(T, F, ign, n)
              \/ \E s \in F : Hits(r, s) /\ Changed(r, s)
         /\ \A r \in T, s \in F :
              Hits(r, s) /\ Changed(r, s) => Shifted(r, s, ign) \in Merged(T, F, ign, n)
         /\ \A s \in F :
              (\A r \in T : ~ Hits(r, s)) => Born(s, n) \in Merged(T, F, ign, n)
<1>1. ASSUME NEW r \in T, \A s \in F : ~ (Hits(r, s) /\ Changed(r, s))
      PROVE  r \in Merged(T, F, ign, n)
  BY <1>1 DEF Merged, Updates
<1>2. ASSUME NEW r \in T, NEW s \in F, Hits(r, s), Changed(r, s)
      PROVE  Shifted(r, s, ign) \in Merged(T, F, ign, n)
  <2>1. <<r, s>> \in Updates(T, F)
    BY <1>2 DEF Updates
  <2> QED
    BY <2>1 DEF Merged
<1>3. ASSUME NEW s \in F, \A r \in T : ~ Hits(r, s)
      PROVE  Born(s, n) \in Merged(T, F, ign, n)
  BY <1>3 DEF Merged
<1> QED
  BY <1>1, <1>2, <1>3

(***************************************************************************)
(* Types.                                                                  *)
(***************************************************************************)
LEMMA TypeInvariant ==
  ASSUME NEW Cols, NEW Values, Tabular(Cols, Values)
  PROVE  Spec => []TypeInv
<1> USE RunsAssumption
<1>0. {} \in Feeds
  BY DEF Feeds, DuplicateKeys
<1>1. Init => TypeInv
  BY <1>0 DEF Init, TypeInv, TypeOK, Clean, Ended, Verdicts
<1>2. TypeInv /\ [Next]_vars => TypeInv'
  <2> SUFFICES ASSUME TypeInv, [Next]_vars
               PROVE  TypeInv'
    OBVIOUS
  <2> USE DEF TypeInv, TypeOK, Clean, Verdicts, InFlight
  <2>0. CASE UNCHANGED vars
    BY <2>0 DEF vars
  <2>1. ASSUME NEW j \in Jobs, Start(j)
        PROVE  TypeInv'
    BY <2>1 DEF Start, Feeds
  <2>2. ASSUME NEW j \in Jobs, Merge(j), ~ Refused(tgt, job[j].feed)
        PROVE  TypeInv'
    <3>1. /\ clock \in 1 .. MaxRuns /\ clock' = clock + 1
          /\ job' = [job EXCEPT ![j].pc = "validate"]
          /\ tgt' = Merged(tgt, job[j].feed, job[j].ignored, clock)
      BY <2>2 DEF Merge
    <3>2. ASSUME NEW q \in tgt'
          PROVE  q \in TargetRows
      <4>1. job[j].feed \in SUBSET Rows /\ tgt \in SUBSET TargetRows
        OBVIOUS
      <4>2. \/ q \in tgt
            \/ \E r \in tgt, s \in job[j].feed : q = Shifted(r, s, job[j].ignored)
            \/ \E s \in job[j].feed : q = Born(s, clock)
        BY <3>1, MergedRow
      <4>3. \A r \in tgt, s \in job[j].feed : Shifted(r, s, job[j].ignored) \in TargetRows
        BY <4>1, ShiftedRow
      <4>4. \A s \in job[j].feed : Born(s, clock) \in TargetRows
        BY <3>1, <4>1, BornRow
      <4> QED
        BY <4>1, <4>2, <4>3, <4>4
    <3>3. tgt' \subseteq TargetRows
      BY <3>2
    <3> QED
      BY <3>1, <3>3
  <2>3. ASSUME NEW j \in Jobs,
               (Merge(j) /\ Refused(tgt, job[j].feed)) \/ Validate(j) \/ Abort(j)
        PROVE  TypeInv'
    <3>1. PICK v \in Verdicts : job' = [job EXCEPT ![j] = Ended(v)]
      BY <2>3 DEF Merge, Validate, Abort
    <3>2. tgt' = tgt /\ clock' = clock
      BY <2>3 DEF Merge, Validate, Abort
    <3> QED
      BY <1>0, <3>1, <3>2 DEF Ended
  <2> QED
    BY <2>0, <2>1, <2>2, <2>3 DEF Next
<1> QED
  BY <1>1, <1>2, PTL DEF Spec

\* Every variable keeps its type, for any number of jobs, keys and columns.
THEOREM TypeCorrect ==
  ASSUME NEW Cols, NEW Values, Tabular(Cols, Values)
  PROVE  Spec => []TypeOK
<1>1. TypeInv => TypeOK
  BY DEF TypeInv
<1>2. Spec => []TypeInv
  BY TypeInvariant
<1> QED
  BY <1>1, <1>2, PTL

(***************************************************************************)
(* What a commit does.                                                     *)
(***************************************************************************)
LEMMA CommitStep ==
  ASSUME TypeInv, Next, NEW j \in Jobs, Committed(j)
  PROVE  /\ tgt' = Merged(tgt, job[j].feed, job[j].ignored, clock)
         /\ tgt \in SUBSET TargetRows /\ job[j].feed \in SUBSET Rows
         /\ ~ DuplicateKeys(job[j].feed)
         /\ clock \in 1 .. MaxRuns
<1>1. PICK i \in Jobs : Start(i) \/ Merge(i) \/ Validate(i) \/ Abort(i)
  BY DEF Next
<1>2. Merge(i) /\ i = j /\ ~ Refused(tgt, job[j].feed)
  BY <1>1 DEF Committed, Start, Merge, Validate, Abort, Ended, TypeInv, TypeOK
<1> QED
  BY <1>2 DEF Merge, TypeInv, TypeOK, Clean, Feeds

\* Shifting shows what the row showed, and something has changed.
THEOREM ShiftsOnceAlways ==
  ASSUME NEW Cols, NEW Values, Tabular(Cols, Values)
  PROVE  Spec => ShiftsOnce
<1> DEFINE Shifts ==
      \A r \in tgt :
        \/ r \in tgt'
        \/ \E q \in tgt' :
             /\ q.id = r.id /\ q.key = r.key
             /\ q.prev = [c \in Tracked |-> r.val[c]]
             /\ q.val # r.val \/ \E j \in Jobs : Committed(j) /\ job[j].ignored # {}
<1>1. TypeInv /\ [Next]_vars => [Shifts]_tgt
  <2> SUFFICES ASSUME TypeInv, Next, tgt' # tgt
               PROVE  Shifts
    BY DEF vars
  <2>1. PICK j \in Jobs : Merge(j) /\ ~ Refused(tgt, job[j].feed)
    BY DEF Next, Start, Merge, Validate, Abort
  <2>2. /\ tgt' = Merged(tgt, job[j].feed, job[j].ignored, clock)
        /\ tgt \in SUBSET TargetRows /\ job[j].feed \in SUBSET Rows
        /\ Committed(j)
    BY <2>1 DEF Merge, Committed, TypeInv, TypeOK
  <2> SUFFICES ASSUME NEW r \in tgt, r \notin tgt'
               PROVE  \E q \in tgt' :
                        /\ q.id = r.id /\ q.key = r.key
                        /\ q.prev = [c \in Tracked |-> r.val[c]]
                        /\ q.val # r.val \/ \E i \in Jobs : Committed(i) /\ job[i].ignored # {}
    OBVIOUS
  <2>3. PICK s \in job[j].feed : Hits(r, s) /\ Changed(r, s)
    BY <2>2, MergedFrom
  <2> DEFINE q == Shifted(r, s, job[j].ignored)
  <2>4. q \in tgt'
    BY <2>2, <2>3, MergedFrom
  <2>5. /\ q.id = r.id /\ q.key = r.key /\ q.prev = Previous(r)
        /\ q.val = Shown(Cols, r, s, job[j].ignored)
    <3> HIDE DEF q
    <3>1. r \in TargetRows /\ s \in Rows /\ q = Shifted(r, s, job[j].ignored)
      BY <2>2 DEF q
    <3> QED
      BY <3>1, ShiftedRow
  <2>6. job[j].ignored = {} => q.val = s.val
    <3>1. s.val \in [Cols -> Values]
      BY <2>2 DEF Rows, Tabular
    <3> HIDE DEF q
    <3> QED
      BY <2>5, <3>1 DEF Shown
  <2> QED
    BY <2>2, <2>3, <2>4, <2>5, <2>6 DEF Changed, Previous
<1>2. Spec => []TypeInv
  BY TypeInvariant
<1> QED
  BY <1>1, <1>2, PTL DEF Spec, ShiftsOnce

LEMMA MergeLands ==
  ASSUME NEW Cols, NEW Values, Tabular(Cols, Values), PlainKeys,
         NEW T \in SUBSET TargetRows, NEW F \in SUBSET Rows, ~ DuplicateKeys(F),
         NEW ign, NEW n \in 1 .. MaxRuns, NEW U, U = Merged(T, F, ign, n)
  PROVE  /\ \A s \in F : \E r \in U :
              r.key = s.key /\ \A c \in DOMAIN s.val \ ign : r.val[c] = s.val[c]
         /\ \A r \in T : r \in U \/ \E s \in F : s.key = r.key
<1>1. \A r \in T : \A s \in F : Hits(r, s) <=> r.key = s.key
  <2>1. Table(T) /\ Table(F)
    BY DEF Table, TargetRows, Rows
  <2> QED
    BY <2>1, HitIsKey
<1>2. ASSUME NEW s \in F
      PROVE  \E r \in U :
               r.key = s.key /\ \A c \in DOMAIN s.val \ ign : r.val[c] = s.val[c]
  <2>1. CASE \A r \in T : r.key # s.key
    <3>1. Born(s, n) \in U
      BY <1>1, <2>1, MergedFrom
    <3> QED
      BY <3>1, BornRow
  <2>2. ASSUME NEW r \in T, r.key = s.key, r.val = s.val
        PROVE  r \in U
    <3>1. \A t \in F : Hits(r, t) => t = s
      BY <1>1, <2>2 DEF DuplicateKeys
    <3> QED
      BY <2>2, <3>1, MergedFrom DEF Changed
  <2>3. ASSUME NEW r \in T, r.key = s.key, r.val # s.val
        PROVE  \E q \in U :
                 q.key = s.key /\ \A c \in DOMAIN s.val \ ign : q.val[c] = s.val[c]
    <3> DEFINE q == Shifted(r, s, ign)
    <3>1. q \in U
      BY <1>1, <2>3, MergedFrom DEF Changed
    <3>2. DOMAIN s.val = Cols
      BY DEF Rows, Tabular
    <3>3. /\ q.key = r.key
          /\ q.val = Shown(Cols, r, s, ign)
      <4> HIDE DEF q
      <4>1. r \in TargetRows /\ s \in Rows /\ q = Shifted(r, s, ign)
        BY DEF q
      <4> QED
        BY ONLY Tabular(Cols, Values), <4>1, ShiftedRow
    <3> HIDE DEF q
    <3> QED
      BY <2>3, <3>1, <3>2, <3>3 DEF Shown
  <2> QED
    BY <2>1, <2>2, <2>3
<1>3. ASSUME NEW r \in T, r \notin U
      PROVE  \E s \in F : s.key = r.key
  BY <1>1, <1>3, MergedFrom
<1> QED
  BY <1>2, <1>3

\* What a call commits is what its source says, whatever other calls do, where the
\* MERGE tells keys apart.
THEOREM LandsFeedAlways ==
  ASSUME NEW Cols, NEW Values, Tabular(Cols, Values), PlainKeys
  PROVE  Spec => LandsFeed
<1> DEFINE Lands ==
      \A j \in Jobs : Committed(j) =>
        /\ \A s \in job[j].feed : \E r \in tgt' :
             r.key = s.key /\ \A c \in DOMAIN s.val \ job[j].ignored : r.val[c] = s.val[c]
        /\ \A r \in tgt : r \in tgt' \/ \E s \in job[j].feed : s.key = r.key
<1>1. TypeInv /\ [Next]_vars => [Lands]_vars
  <2> SUFFICES ASSUME TypeInv, Next, NEW j \in Jobs, Committed(j)
               PROVE  /\ \A s \in job[j].feed : \E r \in tgt' :
                           r.key = s.key
                             /\ \A c \in DOMAIN s.val \ job[j].ignored : r.val[c] = s.val[c]
                      /\ \A r \in tgt : r \in tgt' \/ \E s \in job[j].feed : s.key = r.key
    OBVIOUS
  <2>1. /\ tgt' = Merged(tgt, job[j].feed, job[j].ignored, clock)
        /\ tgt \in SUBSET TargetRows /\ job[j].feed \in SUBSET Rows
        /\ ~ DuplicateKeys(job[j].feed)
        /\ clock \in 1 .. MaxRuns
    BY CommitStep
  <2> QED
    BY <2>1, MergeLands
<1>2. Spec => []TypeInv
  BY TypeInvariant
<1> QED
  BY <1>1, <1>2, PTL DEF Spec, LandsFeed

\* Table U agrees with F in the columns ign.
Agrees(U, F, ign) ==
  \A s \in F, r \in U : r.key = s.key => \A c \in ign : r.val[c] = s.val[c]

\* A merged table shows each source row it matches but for the columns ignored,
\* so the same source changes nothing in it.
LEMMA MergeSettles ==
  ASSUME NEW Cols, NEW Values, Tabular(Cols, Values), PlainKeys,
         NEW T \in SUBSET TargetRows, NEW F \in SUBSET Rows, ~ DuplicateKeys(F),
         NEW ign, NEW n \in 1 .. MaxRuns, NEW U, U = Merged(T, F, ign, n),
         Agrees(U, F, ign)
  PROVE  Merged(U, F, ign, n) = U
<1>0. \A r \in TargetRows, s \in Rows :
        /\ Shifted(r, s, ign) \in TargetRows
        /\ Shifted(r, s, ign).key = r.key
        /\ Shifted(r, s, ign).val = Shown(Cols, r, s, ign)
  BY ShiftedRow
<1>1. U \in SUBSET TargetRows
  <2>1. \A q \in U :
          \/ q \in T
          \/ \E r \in T, s \in F : q = Shifted(r, s, ign)
          \/ \E s \in F : q = Born(s, n)
    BY MergedRow
  <2>2. \A r \in T, s \in F : Shifted(r, s, ign) \in TargetRows
    BY <1>0
  <2>3. \A s \in F : Born(s, n) \in TargetRows
    BY BornRow
  <2> QED
    BY <2>1, <2>2, <2>3
<1>2. \A r \in T \cup U : \A s \in F : Hits(r, s) <=> r.key = s.key
  <2>1. Table(T \cup U) /\ Table(F)
    BY <1>1 DEF Table, TargetRows, Rows
  <2> QED
    BY <2>1, HitIsKey
<1>3. \A s \in F : \E r \in U : Hits(r, s)
  BY <1>2, MergeLands
<1>4. ASSUME NEW q \in U, NEW s \in F, Hits(q, s)
      PROVE  q.val = s.val
  <2>0. q.key = s.key
    BY <1>2, <1>4
  <2>1. CASE q \in T /\ \A t \in F : Hits(q, t) => ~ Changed(q, t)
    BY <1>4, <2>1 DEF Changed
  <2>2. ASSUME NEW r \in T, NEW t \in F, Hits(r, t), q = Shifted(r, t, ign)
        PROVE  q.val = s.val
    <3>1. /\ q.key = r.key
          /\ q.val = Shown(Cols, r, t, ign)
      BY <1>0, <2>2
    <3>2. t = s
      BY <1>2, <2>0, <2>2, <3>1 DEF DuplicateKeys
    <3>3. s.val = [c \in Cols |-> s.val[c]]
      BY DEF Rows, Tabular
    <3>4. \A c \in Cols : q.val[c] = s.val[c]
      BY <2>0, <3>1, <3>2 DEF Shown, Agrees
    <3> QED
      BY <3>1, <3>3, <3>4 DEF Shown
  <2>3. ASSUME NEW t \in F, q = Born(t, n)
        PROVE  q.val = s.val
    BY <2>0, <2>3, BornRow DEF DuplicateKeys
  <2> QED
    BY <2>1, <2>2, <2>3, MergedRow
<1>5. Updates(U, F) = {}
  BY <1>4 DEF Updates, Changed
<1> QED
  BY <1>3, <1>5 DEF Merged

\* A call made again changes nothing, where the MERGE tells keys apart and its
\* source agrees with the target in the columns it ignores.
THEOREM RerunAlwaysSettles ==
  ASSUME NEW Cols, NEW Values, Tabular(Cols, Values), PlainKeys
  PROVE  Spec => RerunSettles
<1> DEFINE Settles ==
      \A j \in Jobs :
        /\ Committed(j)
        /\ \A s \in job[j].feed, r \in tgt' :
             r.key = s.key => \A c \in job[j].ignored : r.val[c] = s.val[c]
        => Merged(tgt', job[j].feed, job[j].ignored, clock) = tgt'
<1>1. TypeInv /\ [Next]_vars => [Settles]_vars
  <2> SUFFICES ASSUME TypeInv, Next, NEW j \in Jobs, Committed(j),
                      \A s \in job[j].feed, r \in tgt' :
                        r.key = s.key => \A c \in job[j].ignored : r.val[c] = s.val[c]
               PROVE  Merged(tgt', job[j].feed, job[j].ignored, clock) = tgt'
    OBVIOUS
  <2>1. /\ tgt' = Merged(tgt, job[j].feed, job[j].ignored, clock)
        /\ tgt \in SUBSET TargetRows /\ job[j].feed \in SUBSET Rows
        /\ ~ DuplicateKeys(job[j].feed)
        /\ clock \in 1 .. MaxRuns
    BY CommitStep
  <2>2. Agrees(tgt', job[j].feed, job[j].ignored)
    BY DEF Agrees
  <2> QED
    BY <2>1, <2>2, MergeSettles
<1>2. Spec => []TypeInv
  BY TypeInvariant
<1> QED
  BY <1>1, <1>2, PTL DEF Spec, RerunSettles
=============================================================================
