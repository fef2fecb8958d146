--------------------------- MODULE MCLiveEvidence ---------------------------
(* Model checking of LiveEvidence: an event i1 that a source may send with   *)
(* either of two contents, and i2 with the first of them.                    *)
EXTENDS LiveEvidence

CONSTANTS i1, i2, c1, c2, gateway, cli

Event(i, c, typed) == [id |-> i, content |-> c, typed |-> typed]

MCTyped == {Event(i1, c1, TRUE), Event(i1, c2, TRUE), Event(i2, c1, TRUE)}

MCUntyped == {Event(i1, c1, FALSE)}
=============================================================================
