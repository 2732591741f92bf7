-------------------------------- MODULE MCScd0 --------------------------------
(* Instances of Scd0 for TLC. *)
EXTENDS Scd0, TLC

CONSTANTS k1, k2, j1, j2

\* Keys are compared as they are.
PlainJoin == [k \in Keys |-> k]

\* p and q are protected, x is not.
TwoColumns == <<"p", "q">>
Payload(p, q, x) == [c \in {"p", "q", "x"} |-> IF c = "p" THEN p ELSE IF c = "q" THEN q ELSE x]
FourVals == {Payload(0, 0, 0), Payload(0, 0, 1), Payload(1, 0, 0), Payload(0, 1, 0)}

\* All columns are updated.
Replace == [p \in FourVals \X FourVals |-> p[2]]

\* No action distinguishes keys or jobs.
Symmetry == Permutations({k1, k2}) \cup Permutations({j1, j2})
=============================================================================
