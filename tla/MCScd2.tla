-------------------------------- MODULE MCScd2 --------------------------------
(* Instances of Scd2 for TLC. *)
EXTENDS Scd2

CONSTANTS k1, k2, kn, v1, v2

\* Every payload has its own checksum.
CsDistinct == [v \in Vals |-> v]
=============================================================================
