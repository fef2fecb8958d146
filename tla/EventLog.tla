------------------------------ MODULE EventLog ------------------------------
(***************************************************************************)
(* What live evidence promises: a log that only grows, until it is closed  *)
(* for ever; a bundle that seals the whole of it; and observers who see it *)
(* in order and report what was sealed.                                    *)
(***************************************************************************)
EXTENDS Naturals, Sequences

CONSTANTS Observer, Entry

VARIABLES
    log,        \* the entries, in order
    closed,     \* whether the log has ended
    sealed,     \* the logs that have been sealed
    seen,       \* how far each observer is
    reported    \* the logs each observer has reported

vars == <<log, closed, sealed, seen, reported>>

Init ==
    /\ log = <<>>
    /\ closed = FALSE
    /\ sealed = {}
    /\ seen = [o \in Observer |-> 0]
    /\ reported = [o \in Observer |-> {}]

Add(entry) ==
    /\ ~closed
    /\ \A i \in DOMAIN log : log[i].id # entry.id
    /\ log' = Append(log, entry)
    /\ UNCHANGED <<closed, sealed, seen, reported>>

Close ==
    /\ closed' = TRUE
    /\ UNCHANGED <<log, sealed, seen, reported>>

Seal ==
    /\ closed
    /\ sealed' = sealed \cup {log}
    /\ UNCHANGED <<log, closed, seen, reported>>

See(o) ==
    /\ seen[o] < Len(log)
    /\ seen' = [seen EXCEPT ![o] = @ + 1]
    /\ UNCHANGED <<log, closed, sealed, reported>>

Report(o) ==
    /\ log \in sealed
    /\ seen[o] = Len(log)
    /\ reported' = [reported EXCEPT ![o] = @ \cup {log}]
    /\ UNCHANGED <<log, closed, sealed, seen>>

Next ==
    \/ \E entry \in Entry : Add(entry)
    \/ Close
    \/ Seal
    \/ \E o \in Observer : See(o) \/ Report(o)

Spec == Init /\ [][Next]_vars
=============================================================================
