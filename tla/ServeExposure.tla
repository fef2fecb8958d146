---------------------------- MODULE ServeExposure ----------------------------
(***************************************************************************)
(* The participant listener on the tailnet: serve_pilot_surfaces starts    *)
(* the listeners, exposes one of them through a foreground process of      *)
(* Tailscale Serve for a bounded time, and restores what was there. Others *)
(* use the same host: they change Serve, Funnel and the login meanwhile.   *)
(*                                                                         *)
(* The configuration is that of the Tailscale daemon, which the process    *)
(* asks for its mapping; the mapping of a process that is gone may stay.   *)
(***************************************************************************)
EXTENDS Naturals

CONSTANTS
    MaxChanges,    \* bound: what others change on the host
    MaxFaults      \* bound: commands that fail, and an exit of the process

VARIABLES
    host,          \* whether we are logged in; what Serve and Funnel expose
    process,       \* the foreground process
    manager,       \* TailscaleServeManager and what it remembers
    surfaces,      \* PilotSurfaceServer
    report,        \* how the run ended
    changes, faults

vars == <<host, process, manager, surfaces, report, changes, faults>>

None == [identity |-> FALSE, serve |-> {}, funnel |-> FALSE]

Manager == [step |-> "down", initial |-> None, active |-> None, began |-> FALSE,
            failed |-> FALSE, again |-> FALSE]

Fault == faults < MaxFaults /\ faults' = faults + 1

Step(step) == manager.step = step

To(step) == manager' = [manager EXCEPT !.step = step]

\* An error in start or in the run: stop follows.
Fails(step) == manager' = [manager EXCEPT !.step = step, !.failed = TRUE]

\* preflight: nothing is exposed.
Safe(snapshot) == snapshot.identity /\ snapshot.serve = {} /\ ~snapshot.funnel

\* _owns_mapping: ours is the only exposure.
OwnsMapping(snapshot) ==
    snapshot.identity /\ snapshot.serve = {"own"} /\ ~snapshot.funnel

-----------------------------------------------------------------------------
(* TailscaleServeManager.start                                             *)

Begin ==
    /\ Step("down")
    /\ report = "none"
    /\ surfaces' = "up"
    /\ To("initial")
    /\ UNCHANGED <<host, process, report, changes, faults>>

\* A command of Tailscale fails, before or after the process was started.
CommandFails ==
    /\ Step("initial") \/ Step("preflight") \/ Step("compare") \/ Step("await")
    /\ Fault
    /\ manager' = [manager EXCEPT !.step = "stop", !.failed = TRUE, !.again = Step("await")]
    /\ UNCHANGED <<host, process, surfaces, report, changes>>

TakeInitial ==
    /\ Step("initial")
    /\ manager' = [manager EXCEPT !.step = "preflight", !.initial = host, !.began = TRUE]
    /\ UNCHANGED <<host, process, surfaces, report, changes, faults>>

Preflight ==
    /\ Step("preflight")
    /\ IF Safe(host) THEN To("compare") ELSE Fails("stop")
    /\ UNCHANGED <<host, process, surfaces, report, changes, faults>>

\* Nothing changed since the preflight: the process is started.
StartProcess ==
    /\ Step("compare")
    /\ IF host = manager.initial
       THEN To("await") /\ process' = "running"
       ELSE Fails("stop") /\ UNCHANGED process
    /\ UNCHANGED <<host, surfaces, report, changes, faults>>

NeverLate == FALSE

\* The readiness timeout.
MayBeLate == TRUE

\* _await_configured looks until the mapping is there, and is the only one.
AwaitConfigured ==
    /\ Step("await")
    /\ \/ /\ process = "running"
          /\ OwnsMapping(host)
          /\ manager' = [manager EXCEPT !.step = "exposed", !.active = host]
       \/ /\ \/ process # "running"
             \/ ~host.identity \/ host.funnel
             \/ host.serve \notin {{}, {"own"}}
             \/ host.serve = {} /\ MayBeLate
          /\ manager' = [manager EXCEPT !.step = "stop", !.failed = TRUE, !.again = TRUE]
    /\ UNCHANGED <<host, process, surfaces, report, changes, faults>>

-----------------------------------------------------------------------------
(* The run, and TailscaleServeManager.stop                                 *)

\* The time is over, or the process has exited.
RunOver ==
    /\ Step("exposed")
    /\ IF process = "running" THEN To("stop") ELSE Fails("stop")
    /\ UNCHANGED <<host, process, surfaces, report, changes, faults>>

\* _stop_process. Without an initial snapshot there is nothing to restore.
StopProcess ==
    /\ Step("stop")
    /\ process' = IF process = "running" THEN "exited" ELSE process
    /\ IF manager.began THEN To("look") ELSE To("close")
    /\ UNCHANGED <<host, surfaces, report, changes, faults>>

\* The mapping stayed, and it is the one that was seen while it was active; or
\* the run never got that far, and nothing was exposed before. The second stop
\* of a start that failed does not know that there was a process.
MayTurnOff(started) ==
    /\ OwnsMapping(host)
    /\ \/ manager.active # None /\ host.serve = manager.active.serve
       \/ manager.active = None /\ started /\ Safe(manager.initial)

Unchecked == TRUE

\* _same_initial_state
Restored == host = manager.initial

\* stop raises what it could not restore. After a start that failed it is called
\* again, by serve_pilot_surfaces.
Finish(failed) ==
    manager' = [manager EXCEPT !.failed = @ \/ failed,
                               !.step = IF manager.again THEN "stop" ELSE "close",
                               !.again = FALSE]

Look ==
    /\ Step("look")
    /\ IF ~Restored /\ MayTurnOff(manager.again) THEN To("off") ELSE Finish(~Restored)
    /\ UNCHANGED <<host, process, surfaces, report, changes, faults>>

\* serve --https=443 off takes the mapping away.
TurnOff ==
    /\ Step("off")
    /\ host' = [host EXCEPT !.serve = @ \ {"own"}]
    /\ To("final")
    /\ UNCHANGED <<process, surfaces, report, changes, faults>>

LookAgain ==
    /\ Step("final")
    /\ Finish(~Restored)
    /\ UNCHANGED <<host, process, surfaces, report, changes, faults>>

StopFails ==
    /\ Step("look") \/ Step("off") \/ Step("final")
    /\ Fault
    /\ Finish(TRUE)
    /\ UNCHANGED <<host, process, surfaces, report, changes>>

\* The listeners are closed whatever stop did.
Close ==
    /\ Step("close")
    /\ surfaces' = "down"
    /\ report' = IF manager.failed THEN "error" ELSE "stopped"
    /\ To("down")
    /\ UNCHANGED <<host, process, changes, faults>>

-----------------------------------------------------------------------------
(* The host                                                                *)

Configure ==
    /\ process = "running"
    /\ "own" \notin host.serve
    /\ host' = [host EXCEPT !.serve = @ \cup {"own"}]
    /\ UNCHANGED <<process, manager, surfaces, report, changes, faults>>

\* The session of a process that is gone, sooner or later or never.
SessionEnds ==
    /\ process = "exited"
    /\ "own" \in host.serve
    /\ host' = [host EXCEPT !.serve = @ \ {"own"}]
    /\ UNCHANGED <<process, manager, surfaces, report, changes, faults>>

ProcessExits ==
    /\ Fault
    /\ process = "running"
    /\ process' = "exited"
    /\ UNCHANGED <<host, manager, surfaces, report, changes>>

\* Others log in and out, and use Serve and Funnel.
Change ==
    /\ changes < MaxChanges
    /\ changes' = changes + 1
    /\ \/ host' = [host EXCEPT !.identity = ~@]
       \/ host' = [host EXCEPT !.funnel = ~@]
       \/ host' = [host EXCEPT !.serve = IF "other" \in @ THEN @ \ {"other"}
                                                          ELSE @ \cup {"other"}]
    /\ UNCHANGED <<process, manager, surfaces, report, faults>>

-----------------------------------------------------------------------------
Init ==
    /\ host \in [identity : BOOLEAN, serve : SUBSET {"other"}, funnel : BOOLEAN]
    /\ process = "none"
    /\ manager = Manager
    /\ surfaces = "down"
    /\ report = "none"
    /\ changes = 0
    /\ faults = 0

ManagerStep ==
    \/ Begin \/ TakeInitial \/ Preflight \/ StartProcess
    \/ AwaitConfigured \/ RunOver \/ StopProcess \/ Look \/ TurnOff \/ LookAgain
    \/ Close

Next ==
    \/ ManagerStep \/ CommandFails \/ StopFails
    \/ Configure \/ SessionEnds \/ ProcessExits \/ Change

Spec == Init /\ [][Next]_vars

\* Its loops sleep for bounded times, and every command has a timeout.
FairSpec == Spec /\ WF_vars(ManagerStep)

-----------------------------------------------------------------------------
(* Properties                                                              *)

TypeOK ==
    /\ host \in [identity : BOOLEAN, serve : SUBSET {"own", "other"}, funnel : BOOLEAN]
    /\ process \in {"none", "running", "exited"}
    /\ manager.step \in {"down", "initial", "preflight", "compare", "await", "exposed",
                         "stop", "look", "off", "final", "close"}
    /\ surfaces \in {"up", "down"} /\ report \in {"none", "stopped", "error"}
    /\ changes \in 0..MaxChanges /\ faults \in 0..MaxFaults

\* A run that says it stopped left nothing exposed: the mapping is gone, with the
\* process that held it and the listeners behind it, whoever changed the host
\* meanwhile and whether or not the daemon dropped the mapping by itself.
StoppedIsRestored ==
    report = "stopped" => "own" \notin host.serve /\ process # "running" /\ surfaces = "down"

Exposed == surfaces = "up"

Closed == surfaces = "down" /\ process # "running"

\* The listeners do not stay up, nor does the process: the readiness timeout and
\* the time box end a run, also one whose mapping never comes or whose Tailscale
\* commands fail.
ExposureEnds == Exposed ~> Closed
=============================================================================
