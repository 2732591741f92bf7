--------------------------------- MODULE Scd3 ---------------------------------
(***************************************************************************)
(* merge_delta_table with an SCDConfig of scd_type "scd3": scd3_merge      *)
(* (gandalf/scd/strategies.py) updates the rows its source changes and     *)
(* shifts the values of the tracked columns into the previous columns, in  *)
(* one MERGE.                                                              *)
(*                                                                         *)
(* A payload is a function of the column names, and a target row has a     *)
(* field prev, the previous columns as a function of the tracked ones.     *)
(***************************************************************************)
EXTENDS UpsertMerge

CONSTANTS
  Jobs,       \* the callers of merge_delta_table
  Tracked,    \* the keys of previous_columns
  NoValue,    \* NULL in a column
  Ignores,    \* the values of ignore_update_cols the calls use
  MaxRuns     \* bound on the commits

ASSUME RunsAssumption == MaxRuns \in Nat \ {0}
ASSUME TrackedAssumption == \A v \in Vals : Tracked \subseteq DOMAIN v

VARIABLES
  tgt,    \* the rows of the target; an id is the commit that inserted the row
  clock,  \* the number of the next commit
  job     \* per job: [pc, feed, ignored]

vars == <<tgt, clock, job>>

Verdicts == {"idle", "aborted", "duplicated", "ok"}
InFlight == {"merge", "validate"}

Ended(v) == [pc |-> v, feed |-> {}, ignored |-> {}]

Init ==
  /\ tgt = {}
  /\ clock = 1
  /\ job = [j \in Jobs |-> Ended("idle")]

Start(j) ==
  /\ job[j].pc \in Verdicts
  /\ \E F \in Feeds, ign \in Ignores :
       job' = [job EXCEPT ![j] = [pc |-> "merge", feed |-> F, ignored |-> ign]]
  /\ UNCHANGED <<tgt, clock>>

\* Mutants: a change of the tracked columns only, and no condition at all.
ChangedTracked(r, s) == \E c \in Tracked : r.val[c] # s.val[c]
ChangedAlways(r, s)  == TRUE

\* The condition of the update: some column differs, ignored or not, a NULL
\* being equal to a NULL.
Changed(r, s) == r.val # s.val

\* Mutant: the previous columns take the source's values.
ShiftedNew(r, s, ign) ==
  [r EXCEPT !.val  = [c \in DOMAIN r.val |-> IF c \in ign THEN r.val[c] ELSE s.val[c]],
            !.prev = [c \in Tracked |-> s.val[c]]]

\* schema_to_update: the source's columns but the ignored ones, and all previous
\* columns.
Shifted(r, s, ign) ==
  [r EXCEPT !.val  = [c \in DOMAIN r.val |-> IF c \in ign THEN r.val[c] ELSE s.val[c]],
            !.prev = [c \in Tracked |-> r.val[c]]]

\* Mutant: the previous columns are left out.
BornBare(s, n) == [key |-> s.key, val |-> s.val, prev |-> <<>>, id |-> n]

\* insert_values: the previous columns are NULL.
Born(s, n) == [key |-> s.key, val |-> s.val, prev |-> [c \in Tracked |-> NoValue], id |-> n]

Updates(T, F) == {y \in T \X F : Hits(y[1], y[2]) /\ Changed(y[1], y[2])}

\* The MERGE of source F into T.
Merged(T, F, ign, n) ==
  (T \ {y[1] : y \in Updates(T, F)})
    \cup {Shifted(y[1], y[2], ign) : y \in Updates(T, F)}
    \cup {Born(s, n) : s \in {x \in F : \A r \in T : ~ Hits(r, x)}}

\* Delta refuses a MERGE in which two source rows update one target row.
Refused(T, F) == \E x, y \in Updates(T, F) : x # y /\ x[1] = y[1]

Merge(j) ==
  /\ job[j].pc = "merge"
  /\ clock =< MaxRuns
  /\ IF Refused(tgt, job[j].feed)
       THEN /\ job' = [job EXCEPT ![j] = Ended("aborted")]
            /\ UNCHANGED <<tgt, clock>>
       ELSE /\ tgt' = Merged(tgt, job[j].feed, job[j].ignored, clock)
            /\ clock' = clock + 1
            /\ job' = [job EXCEPT ![j].pc = "validate"]

\* Step 10: check_duplicates(target, ids).
Validate(j) ==
  /\ job[j].pc = "validate"
  /\ job' = [job EXCEPT ![j] = Ended(IF DuplicateKeys(tgt) THEN "duplicated" ELSE "ok")]
  /\ UNCHANGED <<tgt, clock>>

\* Any step may raise instead: a missing column, a Spark failure, a Delta conflict.
Abort(j) ==
  /\ job[j].pc \in InFlight
  /\ job' = [job EXCEPT ![j] = Ended("aborted")]
  /\ UNCHANGED <<tgt, clock>>

Next == \E j \in Jobs : Start(j) \/ Merge(j) \/ Validate(j) \/ Abort(j)

Spec == Init /\ [][Next]_vars

(***************************************************************************)
(* Properties.                                                             *)
(***************************************************************************)
TargetRows ==
  [key : Keys, val : Vals, prev : [Tracked -> {NoValue} \cup
                                     UNION {{v[c] : c \in Tracked} : v \in Vals}],
   id : 1 .. MaxRuns]

\* Every variable has its type.
TypeOK ==
  /\ tgt \subseteq TargetRows
  /\ clock \in 1 .. MaxRuns + 1
  /\ job \in [Jobs -> [pc : Verdicts \cup InFlight, feed : SUBSET Rows,
                       ignored : Ignores \cup {{}}]]

Committed(j) == job[j].pc = "merge" /\ job'[j].pc = "validate"

\* "Update current values and shift configured columns into previous columns":
\* a step leaves a row as it is, or its previous columns show what it showed, and
\* then some column has changed, unless the call was to ignore one that differs.
ShiftsOnce ==
  [][\A r \in tgt :
       \/ r \in tgt'
       \/ \E q \in tgt' :
            /\ q.id = r.id /\ q.key = r.key
            /\ q.prev = [c \in Tracked |-> r.val[c]]
            /\ q.val # r.val \/ \E j \in Jobs : Committed(j) /\ job[j].ignored # {}]_tgt

\* "If only a non-tracked column changes, the row must still be updated with the
\* new value": a committed source is what the target shows, but for the columns
\* the call ignores, and the other keys are as before.
LandsFeed ==
  [][\A j \in Jobs : Committed(j) =>
       /\ \A s \in job[j].feed : \E r \in tgt' :
            r.key = s.key /\ \A c \in DOMAIN s.val \ job[j].ignored : r.val[c] = s.val[c]
       /\ \A r \in tgt : r \in tgt' \/ \E s \in job[j].feed : s.key = r.key]_vars

\* README.md: "reruns remain idempotent".  A call made again when it has committed
\* changes nothing, and so does not push the value before the last change out of
\* the previous columns, unless its source differs in a column it ignores: then
\* every rerun shifts.
RerunSettles ==
  [][\A j \in Jobs :
       /\ Committed(j)
       /\ \A s \in job[j].feed, r \in tgt' :
            r.key = s.key => \A c \in job[j].ignored : r.val[c] = s.val[c]
       => Merged(tgt', job[j].feed, job[j].ignored, clock) = tgt']_vars
=============================================================================
