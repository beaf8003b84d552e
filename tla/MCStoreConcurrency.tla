--------------------------- MODULE MCStoreConcurrency ---------------------------
(* Workflows and their writers for model checking StoreConcurrency. *)
EXTENDS StoreConcurrency, TLC

CONSTANTS a, b, c, g, w1, w2

\* a, then the gate g.
TwoSteps == [s \in Steps |-> IF s = g THEN {a} ELSE {}]

\* a and b; then c after a, and the gate g after b.
FourSteps == [s \in Steps |-> IF s = c THEN {a} ELSE IF s = g THEN {b} ELSE {}]

\* Writers differ in nothing.
Alike == Permutations(Writers)
=============================================================================
