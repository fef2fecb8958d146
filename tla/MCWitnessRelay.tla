--------------------------- MODULE MCWitnessRelay ---------------------------
(* Model checking of WitnessRelay: of its tasks, a2 was signed with the id   *)
(* of a1, and both a2 and c1 with the nonce of b.                            *)
EXTENDS WitnessRelay

CONSTANTS a1, a2, b, c1, ida, idb, idc, na, nb

MCIdOf == [t \in Task |-> IF t \in {a1, a2} THEN ida ELSE IF t = b THEN idb ELSE idc]
MCNonceOf == [t \in Task |-> IF t = a1 THEN na ELSE nb]
=============================================================================
