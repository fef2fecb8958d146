---------------------------- MODULE TaskReceipts ----------------------------
(***************************************************************************)
(* What the Relay and a node promise about the receipts of signed tasks,   *)
(* whatever connections, processes and databases do in between: a node     *)
(* signs one receipt for a task, the Relay publishes none the node has not *)
(* signed and confirms none it has not published. A restored Relay may     *)
(* forget what it knew and learn it again, the node forgets nothing.       *)
(***************************************************************************)
CONSTANT Receipt    \* every receipt has a field id, the task it is for

VARIABLES
    signed,      \* the receipts the node signed and keeps
    published,   \* the receipts the Relay holds
    confirmed    \* those among them the node acknowledged

vars == <<signed, published, confirmed>>

Init ==
    /\ signed = {}
    /\ published = {}
    /\ confirmed = {}

Sign(r) ==
    /\ \A s \in signed : s.id # r.id
    /\ signed' = signed \cup {r}
    /\ UNCHANGED <<published, confirmed>>

Publish(r) ==
    /\ r \in signed
    /\ published' = published \cup {r}
    /\ UNCHANGED <<signed, confirmed>>

Confirm(r) ==
    /\ r \in published
    /\ confirmed' = confirmed \cup {r}
    /\ UNCHANGED <<signed, published>>

\* The Relay's database is replaced by an older or a newer copy of it.
Restore ==
    /\ published' \subseteq signed
    /\ confirmed' \subseteq published'
    /\ UNCHANGED signed

Next ==
    \/ \E r \in Receipt : Sign(r) \/ Publish(r) \/ Confirm(r)
    \/ Restore

Spec == Init /\ [][Next]_vars
=============================================================================
