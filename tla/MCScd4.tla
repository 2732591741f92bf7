-------------------------------- MODULE MCScd4 --------------------------------
(* Instances of Scd4 for TLC. *)
EXTENDS Scd4, TLC

CONSTANTS k1, k2, j1, j2

\* Keys are compared as they are.
PlainJoin == [k \in Keys |-> k]

\* Column u is updated, column x is ignored, and the checksum covers both.
Payload(u, x) == [u |-> u, x |-> x, cs |-> <<u, x>>]
TwoVals == {Payload(0, 0), Payload(1, 1)}

\* The rows of the current table mix what several sources gave.
MixedVals == {[u |-> v.u, x |-> w.x, cs |-> v.cs] : v, w \in TwoVals}
KeepX == [p \in MixedVals \X MixedVals |-> [u |-> p[2].u, x |-> p[1].x, cs |-> p[2].cs]]

OneRow == {[key |-> k1, val |-> Payload(0, 0)]}

\* No action distinguishes jobs.
Symmetry == Permutations({j1, j2})
=============================================================================
