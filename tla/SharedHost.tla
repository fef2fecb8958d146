----------------------------- MODULE SharedHost -----------------------------
(***************************************************************************)
(* The launches of a shared host: tools/start_shared_quickstart.py and     *)
(* tools/start_shared_core.py with the gate of remote_host_preflight.py.   *)
(*                                                                         *)
(* A launcher takes an advisory lock, checks the host, spawns a supervisor *)
(* that inherits the lock and hands it a one-shot lease over a pipe.  The  *)
(* supervisor starts a guardian in a session of its own, which inherits    *)
(* the lock as well, and only then does or starts the work of its process  *)
(* group.  The guardian ends the group when its leader is lost or its time *)
(* is over, and records how.                                               *)
(*                                                                         *)
(* The lock is a flock on an inherited open file: it is held as long as    *)
(* one process that inherited it lives.                                    *)
(***************************************************************************)
EXTENDS Naturals, FiniteSets

CONSTANTS
  Launch,     \* launches, each in a workspace of its own
  Core,       \* those that run the core experiment; the others run Quickstart
  Reused,     \* those whose workspace may hold the record of an earlier launch
  MaxFaults   \* bound on failures of system calls and processes killed

ASSUME CoreAssumption == Core \subseteq Launch
ASSUME ReusedAssumption == Reused \subseteq Launch
ASSUME FaultsAssumption == MaxFaults \in Nat

VARIABLES
  launcher,    \* launcher[l]: the step start_core or start_quickstart is at
  supervisor,  \* supervisor[l]: the step of the leader of the group
  child,       \* child[l]: the rest of the group; "stuck" does not die of a signal
  guardian,    \* guardian[l]: the watchdog
  doubt,       \* doubt[l]: what keeps the guardian from acting at its deadline
  lease,       \* lease[l]: what the supervisor finds in the pipe
  record,      \* record[l]: the ready file
  result,      \* result[l]: the guardian's terminal status
  report,      \* report[l]: the report of the core experiment
  faults

hostVars == <<launcher, supervisor, child, guardian, doubt, lease, record,
              result, report, faults>>

Launching == {"begun", "locked", "checked", "spawned", "waiting"}
Supervising == {"started", "parented", "leased", "guarded", "served", "running"}
Working == {"live", "stuck"}
Guarding == {"watching", "stopping", "terming", "killing"}
\* A terminal status that says the group is gone.
Safe == {"target_exited_before_deadline", "terminated", "killed", "target_absent"}
GaveUp == {"target_identity_mismatch", "process_group_inspection_unavailable",
           "termination_timeout"}

TypeOK ==
  /\ launcher \in [Launch -> Launching \cup {"idle", "ready", "blocked", "failed"}]
  /\ supervisor \in [Launch -> Supervising \cup {"none", "gone"}]
  /\ child \in [Launch -> Working \cup {"none", "gone"}]
  /\ guardian \in [Launch -> Guarding \cup {"none", "gone"}]
  /\ doubt \in [Launch -> {"none", "mismatch", "unavailable"}]
  /\ lease \in [Launch -> {"none", "written", "empty"}]
  /\ record \in [Launch -> {"none", "stale", "written"}]
  /\ result \in [Launch -> Safe \cup GaveUp \cup {"none"}]
  /\ report \in [Launch -> {"none", "blocked", "passed", "failed"}]
  /\ faults \in 0..MaxFaults

GroupAlive(l) == supervisor[l] \in Supervising \/ child[l] \in Working

\* fork without pass_fds: the guardian starts without the lock.
HoldsUninherited(l) ==
  \/ launcher[l] \in {"locked", "checked", "spawned"}
  \/ supervisor[l] \in Supervising

\* The launcher closes its descriptor once the lease is written.
Holds(l) ==
  \/ launcher[l] \in {"locked", "checked", "spawned"}
  \/ supervisor[l] \in Supervising
  \/ guardian[l] \in Guarding

Fault == faults < MaxFaults /\ faults' = faults + 1

Init ==
  /\ launcher = [l \in Launch |-> "idle"]
  /\ supervisor = [l \in Launch |-> "none"]
  /\ child = [l \in Launch |-> "none"]
  /\ guardian = [l \in Launch |-> "none"]
  /\ doubt = [l \in Launch |-> "none"]
  /\ lease = [l \in Launch |-> "none"]
  /\ record \in [Launch -> {"none", "stale"}]
  /\ \A l \in Launch : record[l] = "stale" => l \in Reused
  /\ result = [l \in Launch |-> "none"]
  /\ report = [l \in Launch |-> "none"]
  /\ faults = 0

-----------------------------------------------------------------------------
(* The launcher *)

Begin(l) ==
  /\ launcher[l] = "idle"
  /\ launcher' = [launcher EXCEPT ![l] = "begun"]
  /\ UNCHANGED <<supervisor, child, guardian, doubt, lease, record, result,
                 report, faults>>

\* A launcher that is turned away; only the core's leaves a report.
Block(l) ==
  /\ launcher' = [launcher EXCEPT ![l] = "blocked"]
  /\ report' = [report EXCEPT ![l] = IF l \in Core THEN "blocked" ELSE @]
  /\ UNCHANGED <<supervisor, child, guardian, doubt, lease, record, result, faults>>

Acquire(l) ==
  /\ launcher[l] = "begun"
  /\ IF \E k \in Launch : Holds(k)
       THEN Block(l)
       ELSE /\ launcher' = [launcher EXCEPT ![l] = "locked"]
            /\ UNCHANGED <<supervisor, child, guardian, doubt, lease, record,
                           result, report, faults>>

\* A snapshot without the watchdogs.
VisibleLeaders(l) ==
  \/ launcher[l] \in Launching
  \/ supervisor[l] \in Supervising
  \/ l \notin Core /\ child[l] \in Working

\* The processes of a launch that a snapshot of the host shows: a step of the
\* core experiment, "uv sync" for one, has none of the names it looks for.
Visible(l) ==
  \/ launcher[l] \in Launching
  \/ supervisor[l] \in Supervising
  \/ guardian[l] \in Guarding
  \/ l \notin Core /\ child[l] \in Working

Relevant(l) == \E k \in Launch \ {l} : Visible(k)

\* The host may also be too busy, or its processes unreadable.
Check(l) ==
  /\ launcher[l] = "locked"
  /\ \/ /\ ~Relevant(l)
        /\ launcher' = [launcher EXCEPT ![l] = "checked"]
        /\ UNCHANGED <<supervisor, child, guardian, doubt, lease, record,
                       result, report, faults>>
     \/ Block(l)

\* An exception closes the descriptors of the launcher and leaves the rest.
LaunchFails(l) ==
  /\ launcher' = [launcher EXCEPT ![l] = "failed"]
  /\ lease' = [lease EXCEPT ![l] = IF @ = "none" THEN "empty" ELSE @]
  /\ UNCHANGED <<supervisor, child, guardian, doubt, record, result, report>>

Spawn(l) ==
  /\ launcher[l] = "checked"
  /\ \/ /\ record[l] = "none"
        /\ launcher' = [launcher EXCEPT ![l] = "spawned"]
        /\ supervisor' = [supervisor EXCEPT ![l] = "started"]
        /\ UNCHANGED <<child, guardian, doubt, lease, record, result, report, faults>>
     \/ record[l] # "none" /\ LaunchFails(l) /\ UNCHANGED faults
     \/ Fault /\ LaunchFails(l)

WriteLease(l) ==
  /\ launcher[l] = "spawned"
  /\ \/ /\ launcher' = [launcher EXCEPT ![l] = "waiting"]
        /\ lease' = [lease EXCEPT ![l] = "written"]
        /\ UNCHANGED <<supervisor, child, guardian, doubt, record, result, report, faults>>
     \/ Fault /\ LaunchFails(l)

\* SIGTERM, and SIGKILL after five seconds, to the group of a supervisor whose
\* identity is confirmed; the launcher waits for the supervisor only.
StopFailedStart(l) ==
  /\ launcher' = [launcher EXCEPT ![l] = "failed"]
  /\ IF supervisor[l] \in Supervising
       THEN \/ /\ supervisor' = [supervisor EXCEPT ![l] = "gone"]
               /\ \/ UNCHANGED child
                  \/ child[l] = "live" /\ child' = [child EXCEPT ![l] = "gone"]
               /\ UNCHANGED faults
            \/ Fault /\ UNCHANGED <<supervisor, child>>
       ELSE UNCHANGED <<supervisor, child, faults>>
  /\ UNCHANGED <<guardian, doubt, lease, record, result, report>>

AwaitRecord(l) ==
  /\ launcher[l] = "waiting"
  /\ \/ /\ record[l] = "written"
        /\ launcher' = [launcher EXCEPT ![l] = "ready"]
        /\ UNCHANGED <<supervisor, child, guardian, doubt, lease, record,
                       result, report, faults>>
     \/ record[l] # "written" /\ StopFailedStart(l)

StartQuickstart(l) ==
  /\ l \notin Core
  /\ Acquire(l) \/ Check(l) \/ Spawn(l) \/ WriteLease(l) \/ AwaitRecord(l)

StartCore(l) ==
  /\ l \in Core
  /\ Acquire(l) \/ Check(l) \/ Spawn(l) \/ WriteLease(l) \/ AwaitRecord(l)

-----------------------------------------------------------------------------
(* The supervisor *)

SupervisorGoes(l) ==
  /\ supervisor' = [supervisor EXCEPT ![l] = "gone"]
  /\ UNCHANGED <<launcher, child, guardian, doubt, lease, record, result, report>>

\* Its parent must be the launcher, still alive.
SeesLauncher(l) ==
  /\ supervisor[l] = "started"
  /\ IF launcher[l] \in Launching
       THEN /\ supervisor' = [supervisor EXCEPT ![l] = "parented"]
            /\ UNCHANGED <<launcher, child, guardian, doubt, lease, record,
                           result, report, faults>>
       ELSE SupervisorGoes(l) /\ UNCHANGED faults

\* The lease may have expired, or the limits not apply.
ConsumeLease(l) ==
  /\ supervisor[l] = "parented"
  /\ lease[l] # "none"
  /\ \/ /\ lease[l] = "written"
        /\ supervisor' = [supervisor EXCEPT ![l] = "leased"]
        /\ UNCHANGED <<launcher, child, guardian, doubt, lease, record,
                       result, report, faults>>
     \/ lease[l] = "empty" /\ SupervisorGoes(l) /\ UNCHANGED faults
     \/ Fault /\ SupervisorGoes(l)

\* When its start ticks cannot be read, the guardian that was started is left.
StartGuardian(l) ==
  /\ supervisor[l] = "leased"
  /\ \/ /\ supervisor' = [supervisor EXCEPT ![l] = "guarded"]
        /\ guardian' = [guardian EXCEPT ![l] = "watching"]
        /\ UNCHANGED <<launcher, child, doubt, lease, record, result, report, faults>>
     \/ /\ Fault
        /\ supervisor' = [supervisor EXCEPT ![l] = "gone"]
        /\ guardian' \in {guardian, [guardian EXCEPT ![l] = "watching"]}
        /\ UNCHANGED <<launcher, child, doubt, lease, record, result, report>>

\* A child that cannot be started: the guardian is stopped as well.
StartChild(l) ==
  /\ supervisor[l] = "guarded"
  /\ \/ /\ supervisor' = [supervisor EXCEPT ![l] = "served"]
        /\ child' = [child EXCEPT ![l] = "live"]
        /\ UNCHANGED <<launcher, guardian, doubt, lease, record, result, report, faults>>
     \/ /\ Fault
        /\ supervisor' = [supervisor EXCEPT ![l] = "gone"]
        /\ guardian' = [guardian EXCEPT ![l] = "gone"]
        /\ UNCHANGED <<launcher, child, doubt, lease, record, result, report>>

\* os.replace writes the ready file at once, or the supervisor fails.
Publish(l) ==
  \/ /\ supervisor' = [supervisor EXCEPT ![l] = "running"]
     /\ record' = [record EXCEPT ![l] = "written"]
     /\ UNCHANGED <<launcher, child, guardian, doubt, lease, result, report, faults>>
  \/ Fault /\ SupervisorGoes(l)

SuperviseQuickstart(l) ==
  /\ l \notin Core
  /\ \/ SeesLauncher(l)
     \/ ConsumeLease(l)
     \/ StartGuardian(l)
     \/ StartChild(l)
     \/ supervisor[l] = "served" /\ Publish(l)
     \/ /\ supervisor[l] = "running"
        /\ child[l] = "gone"
        /\ SupervisorGoes(l) /\ UNCHANGED faults

\* Each step of the experiment is a process that the core waits for; one that
\* fails, or what goes wrong before the first, makes the report a failed one.
RunCoreExperiment(l) ==
  /\ l \in Core
  /\ supervisor[l] = "running"
  /\ child[l] \in {"none", "gone"}
  /\ \/ /\ child' = [child EXCEPT ![l] = "live"]
        /\ UNCHANGED <<supervisor, report>>
     \/ /\ supervisor' = [supervisor EXCEPT ![l] = "gone"]
        /\ \/ report' = [report EXCEPT ![l] = "failed"]
           \/ child[l] = "gone" /\ report' = [report EXCEPT ![l] = "passed"]
        /\ UNCHANGED child
  /\ UNCHANGED <<launcher, guardian, doubt, lease, record, result, faults>>

SuperviseCore(l) ==
  /\ l \in Core
  /\ \/ SeesLauncher(l)
     \/ ConsumeLease(l)
     \/ StartGuardian(l)
     \/ supervisor[l] = "guarded" /\ Publish(l)
     \/ RunCoreExperiment(l)

-----------------------------------------------------------------------------
(* The guardian *)

\* It writes its result, unless the write fails, and exits.
GuardianEnds(l, status) ==
  /\ guardian' = [guardian EXCEPT ![l] = "gone"]
  /\ \/ result' = [result EXCEPT ![l] = status] /\ UNCHANGED faults
     \/ Fault /\ UNCHANGED result
  /\ UNCHANGED <<launcher, supervisor, child, doubt, lease, record, report>>

\* It ends, its uncertainty unconfirmed: the same, with a status that says so.
GuardianDoubts(l, status) ==
  /\ Fault
  /\ guardian' = [guardian EXCEPT ![l] = "gone"]
  /\ result' = [result EXCEPT ![l] = status]
  /\ UNCHANGED <<launcher, supervisor, child, doubt, lease, record, report>>

Signal(l) ==
  /\ supervisor' = [supervisor EXCEPT ![l] = IF @ = "none" THEN @ ELSE "gone"]
  /\ child' \in {child, [child EXCEPT ![l] = IF @ = "live" THEN "gone" ELSE @]}

SigKill(l) ==
  /\ supervisor' = [supervisor EXCEPT ![l] = IF @ = "none" THEN @ ELSE "gone"]
  /\ child' = [child EXCEPT ![l] = IF @ = "live" THEN "gone" ELSE @]

StopOwnedGroup(l) ==
  \/ /\ guardian[l] = "stopping"
     /\ \/ ~GroupAlive(l) /\ GuardianEnds(l, "target_absent")
        \/ GuardianDoubts(l, "target_identity_mismatch")
        \/ GuardianDoubts(l, "process_group_inspection_unavailable")
        \/ /\ GroupAlive(l)
           /\ guardian' = [guardian EXCEPT ![l] = "terming"]
           /\ Signal(l)
           /\ UNCHANGED <<launcher, doubt, lease, record, result, report, faults>>
  \/ /\ guardian[l] = "terming"
     /\ \/ ~GroupAlive(l) /\ GuardianEnds(l, "terminated")
        \/ GuardianDoubts(l, "process_group_inspection_unavailable")
        \/ /\ GroupAlive(l)
           /\ guardian' = [guardian EXCEPT ![l] = "killing"]
           /\ SigKill(l)
           /\ UNCHANGED <<launcher, doubt, lease, record, result, report, faults>>
  \/ /\ guardian[l] = "killing"
     /\ \/ ~GroupAlive(l) /\ GuardianEnds(l, "killed")
        \/ GuardianDoubts(l, "process_group_inspection_unavailable")
        \/ GroupAlive(l) /\ GuardianEnds(l, "termination_timeout")

Suspect(l, why) ==
  /\ Fault
  /\ doubt' = [doubt EXCEPT ![l] = why]
  /\ UNCHANGED <<launcher, supervisor, child, guardian, lease, record, result, report>>

ToStop(l) ==
  /\ guardian' = [guardian EXCEPT ![l] = "stopping"]
  /\ UNCHANGED <<launcher, supervisor, child, doubt, lease, record, result,
                 report, faults>>

\* The leader is gone and the guardian ends, whoever else is in the group.
PollsLeaderOnly(l) ==
  /\ guardian[l] = "watching"
  /\ supervisor[l] = "gone"
  /\ GuardianEnds(l, "target_exited_before_deadline")

\* A poll: a mismatch is final, an unreadable /proc is tried again.
GuardianPolls(l) ==
  /\ guardian[l] = "watching"
  /\ doubt[l] # "mismatch"
  /\ \/ Suspect(l, "mismatch")
     \/ /\ supervisor[l] = "gone"
        /\ \/ doubt[l] = "none" /\ Suspect(l, "unavailable")
           \/ GroupAlive(l) /\ ToStop(l)
           \/ ~GroupAlive(l) /\ GuardianEnds(l, "target_exited_before_deadline")

\* A doubt is waited out for as long as it takes.
DeadlineWithoutDoubt(l) ==
  /\ guardian[l] = "watching"
  /\ doubt[l] = "none"
  /\ ToStop(l)

\* The time is over; a doubt that was not settled decides.
Deadline(l) ==
  /\ guardian[l] = "watching"
  /\ \/ doubt[l] = "mismatch" /\ GuardianEnds(l, "target_identity_mismatch")
     \/ /\ doubt[l] = "unavailable"
        /\ GuardianEnds(l, "process_group_inspection_unavailable")
     \/ doubt[l] = "none" /\ ToStop(l)

WatchOwnedGroup(l) == GuardianPolls(l) \/ Deadline(l) \/ StopOwnedGroup(l)

-----------------------------------------------------------------------------
(* The host *)

ChildEnds(l) ==
  /\ child[l] \in Working
  /\ child' = [child EXCEPT ![l] = "gone"]
  /\ UNCHANGED <<launcher, supervisor, guardian, doubt, lease, record, result,
                 report, faults>>

ChildSticks(l) ==
  /\ child[l] = "live"
  /\ Fault
  /\ child' = [child EXCEPT ![l] = "stuck"]
  /\ UNCHANGED <<launcher, supervisor, guardian, doubt, lease, record, result, report>>

\* A process is killed: the kernel closes its descriptors.
ProcessKilled(l) ==
  /\ Fault
  /\ \/ launcher[l] \in Launching /\ LaunchFails(l)
     \/ supervisor[l] \in Supervising /\ SupervisorGoes(l)
     \/ /\ guardian[l] \in Guarding
        /\ guardian' = [guardian EXCEPT ![l] = "gone"]
        /\ UNCHANGED <<launcher, supervisor, child, doubt, lease, record, result, report>>

\* What goes on without anyone's request.
HostStep(l) ==
  \/ StartQuickstart(l) \/ StartCore(l)
  \/ SuperviseQuickstart(l) \/ SuperviseCore(l)
  \/ WatchOwnedGroup(l)
  \/ ChildEnds(l) \/ ChildSticks(l) \/ ProcessKilled(l)

\* Another shell sends SIGTERM, and SIGKILL to what is left.
GroupSignalled(l) ==
  /\ GroupAlive(l)
  /\ Signal(l) \/ SigKill(l)
  /\ UNCHANGED <<launcher, guardian, doubt, lease, record, result, report, faults>>

\* Off the host; the bound counts it with the faults of the host.
FaultElsewhere ==
  /\ Fault
  /\ UNCHANGED <<launcher, supervisor, child, guardian, doubt, lease, record, result, report>>

Next ==
  \/ \E l \in Launch : Begin(l) \/ HostStep(l) \/ GroupSignalled(l)
  \/ FaultElsewhere

HostSpec == Init /\ [][Next]_hostVars

\* Processes run as long as they live, and the deadline comes; the work of a
\* group need not end, and nobody need start or stop one.
HostFairness ==
  \A l \in Launch :
    /\ WF_hostVars(StartQuickstart(l) \/ StartCore(l))
    /\ WF_hostVars(SuperviseQuickstart(l) \/ SuperviseCore(l))
    /\ WF_hostVars(WatchOwnedGroup(l))

-----------------------------------------------------------------------------
(* Properties *)

\* Killed, unable to write, or without a result that says the group is gone.
Unguarded(l) == guardian[l] = "gone" /\ result[l] \notin Safe

\* _watch_owned_group, "without releasing its lock on uncertainty": while a
\* process of the group lives, one that inherited the lock does, unless the
\* guardian was killed or gave up.
LockCoversGroup ==
  \A l \in Launch : GroupAlive(l) => Holds(l) \/ Unguarded(l)

\* acquire_shared_host_lock, "the one shared-host lab lock": two launches hold
\* it at no time, whichever of their processes do.
OneHolder == \A k, l \in Launch : Holds(k) /\ Holds(l) => k = l

\* One lab at a time: the lock lasts as long as the group, one launch holds it, and
\* none is beside the live group of another unless the guardian of one of them
\* was lost or gave up.
OneLab ==
  /\ LockCoversGroup
  /\ OneHolder
  /\ \A k, l \in Launch :
       GroupAlive(k) /\ GroupAlive(l) /\ k # l => Unguarded(k) \/ Unguarded(l)

\* supervise_quickstart, "start the guardian and Quickstart child": there is
\* no child, and no record that a launcher answers with, before a guardian.
GuardedFirst ==
  \A l \in Launch :
    child[l] # "none" \/ record[l] = "written" => guardian[l] # "none"

\* A status that says the group is gone is never wrong, then or later.
SafeResultsHold == \A l \in Launch : result[l] \in Safe => ~GroupAlive(l)

\* watch_owned_quickstart, "Bound a Quickstart lifetime even if the SSH
\* orchestrator disappears": in the end no guarded group lives.
GroupsEnd == <>[](\A l \in Launch : GroupAlive(l) => Unguarded(l))
=============================================================================
