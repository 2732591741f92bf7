-------------------------------- MODULE MCScd6 --------------------------------
(* Instances of Scd6 for TLC. *)
EXTENDS Scd6, TLC

CONSTANTS k1, kn, a, b, c, d, j1, j2

\* Every payload has its own checksum.
CsDistinct == [v \in Sources |-> v]

\* b, c and d differ in columns that are not tracked.
TrackedOf == [v \in Sources |-> IF v = a THEN "a" ELSE "rest"]

\* merge_cond does not hold of the rows of payload d.
NotOfD == {x \in [biz : Sources, prev : Previous] : x.biz # d}

\* No action distinguishes jobs.
Symmetry == Permutations({j1, j2})
=============================================================================
