-------------------------------- MODULE MCScd1 --------------------------------
(* Instances of Scd1 for TLC. *)
EXTENDS Scd1, DfUtils

CONSTANTS k1, k2, kn, j1, j2

\* Keys are compared as they are.
PlainJoin == [k \in Keys |-> k]

\* The keys of a fact table, compared by their surrogate key.
FactKeys == {<<"a", "b">>, <<"b", "a">>}
SkJoin   == [k \in Keys |-> FactSk(k)]

\* kn has a NULL component, so that it equals nothing.
NullJoin == [k \in Keys |-> IF k = kn THEN Null ELSE k]

\* A key has a partition of its own.
PartByKey == [x \in Keys \X Vals |-> x[1]]

\* One job upserts, the other upserts or overwrites.
Mixed == (j1 :> Upserts) @@ (j2 :> Types \ {"scd1_delete"})
PlainUpserts == [j \in Jobs |-> {"scd1"}]
Deleting == [j \in Jobs |-> {"scd1_delete"}]

\* All columns are updated.
Replace == [p \in Vals \X Vals |-> p[2]]
=============================================================================
