------------------------------ MODULE Accrual ------------------------------
(***************************************************************************)
(* What StreamingEngine promises: a balance that grows by the rate every   *)
(* second. A new rate counts from the second it is set, and moves nothing  *)
(* that has accrued.                                                       *)
(***************************************************************************)
EXTENDS Naturals

CONSTANT InitialRate

VARIABLES
    time,        \* the seconds that have passed
    rate,        \* what every second adds
    accrued      \* the balance

vars == <<time, rate, accrued>>

Init ==
    /\ time \in Nat
    /\ rate = InitialRate
    /\ accrued = 0

Pass(seconds) ==
    /\ time' = time + seconds
    /\ accrued' = accrued + seconds * rate
    /\ UNCHANGED rate

SetRate(r) ==
    /\ rate' = r
    /\ UNCHANGED <<time, accrued>>

\* One transaction sets one rate; the seconds between two blocks pass at once.
Next ==
    \/ time' > time /\ Pass(time' - time)
    \/ SetRate(rate')

Spec == Init /\ [][Next]_vars
=============================================================================
