-------------------------------- MODULE MCScd3 --------------------------------
(* Instances of Scd3 for TLC. *)
EXTENDS Scd3, TLC

CONSTANTS k1, k2, j1, j2, v

\* Keys are compared as they are.
PlainJoin == [k \in Keys |-> k]

\* Two columns, each NULL or not; p is tracked.
TwoColumns == [{"p", "x"} -> {v, NoValue}]

\* The ignored columns are those of the call, in job.
Replace == [p \in Vals \X Vals |-> p[2]]

\* No action distinguishes keys or jobs.
Symmetry == Permutations({k1, k2}) \cup Permutations({j1, j2})
=============================================================================
