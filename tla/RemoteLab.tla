----------------------------- MODULE RemoteLab ------------------------------
(***************************************************************************)
(* One run of tools/run_remote_lab.py against a shared host.               *)
(*                                                                         *)
(* From a workstation, over SSH: deploy a commit, start the core           *)
(* experiment, wait for it and check what it left, then start Quickstart,  *)
(* reach it through a tunnel with three nodes of the workstation, tear     *)
(* everything down, and report.  Each connection may fail, and whoever     *)
(* works on the host starts launches of his own.                           *)
(*                                                                         *)
(* A command whose connection is lost has started on the host by then or   *)
(* never does.                                                             *)
(***************************************************************************)
EXTENDS SharedHost

CONSTANTS CoreLab, TunnelLab   \* the two launches of the run

ASSUME LabAssumption ==
  /\ CoreLab \in Core /\ TunnelLab \in Launch \ Core
  /\ CoreLab \notin Reused /\ TunnelLab \notin Reused

VARIABLES
  at,          \* the step of the run
  own,         \* the launch it is concerned with
  failure,     \* the exception on its way up
  evidence,    \* what the teardown of this launch has verified
  seen,        \* seen[l]: the terminal status downloaded for l
  local,       \* local[p]: the processes of the workstation
  postflight,  \* postflight_cleanup_verified
  status       \* the status of the report

labVars == <<at, own, failure, evidence, seen, local, postflight, status>>

Local == {"tunnel", "nodes"}
Own == {CoreLab, TunnelLab}
Steps == {"idle", "prepare", "start", "starting", "recover", "check", "await",
          "open", "submit", "receive", "reap", "stop", "kill", "absent",
          "guard", "collect", "verdict", "tunnel", "postflight", "done", "dead"}

LabTypeOK ==
  /\ TypeOK
  /\ at \in Steps
  /\ own \in Own
  /\ failure \in {"none", "error", "blocked"}
  /\ evidence \subseteq {"group", "guardian"} \cup Local
  /\ seen \in [Own -> Safe \cup GaveUp \cup {"none"}]
  /\ local \in [Local -> {"none", "live", "exited", "gone", "stuck"}]
  /\ postflight \in {"none", "verified", "unverified"}
  /\ status \in {"none", "passed", "failed", "blocked"}

LabInit ==
  /\ Init
  /\ at = "idle"
  /\ own = CoreLab
  /\ failure = "none"
  /\ evidence = {}
  /\ seen = [l \in Own |-> "none"]
  /\ local = [p \in Local |-> "none"]
  /\ postflight = "none"
  /\ status = "none"

-----------------------------------------------------------------------------
(* What the commands of the run find on the host *)

\* The processes that a preflight lists, whoever started them.
LabQuiet == \A l \in Launch : ~Visible(l)

\* The watchdog with its identity, its arguments and the lock it holds.
WatchdogLive(l) == guardian[l] \in Guarding

Goto(step) == at' = step

\* A command that fails, or answers what the run cannot accept.
Breaks(step) ==
  /\ failure' = "error"
  /\ Goto(step)

HostStays == UNCHANGED hostVars

\* A connection, or another call of the workstation, fails.
Loss == FaultElsewhere

Lost(step) == Loss /\ Breaks(step)

\* A snapshot that finds nothing, and a host that is not too busy.
Gate(step) ==
  /\ HostStays
  /\ \/ LabQuiet /\ Goto(step) /\ UNCHANGED failure
     \/ Goto("postflight") /\ failure' = "blocked"

-----------------------------------------------------------------------------
(* The run *)

\* Only this gate reports without a postflight.
Preflight ==
  /\ at = "idle"
  /\ HostStays
  /\ \/ LabQuiet /\ Goto("prepare") /\ UNCHANGED status
     \/ Goto("done") /\ status' = "blocked"
  /\ UNCHANGED <<own, failure, evidence, seen, local, postflight>>

\* A clean worktree, a new directory on either side, the archive and the
\* dependencies: the workspaces of the two launches are new.
Deploy ==
  /\ at = "prepare"
  /\ \/ HostStays /\ Goto("start") /\ UNCHANGED failure
     \/ Lost("postflight")
  /\ UNCHANGED <<own, evidence, seen, local, postflight, status>>

StartOwned ==
  /\ at = "start"
  /\ \/ Begin(own) /\ Goto("starting") /\ UNCHANGED failure
     \/ Lost("recover")
  /\ UNCHANGED <<own, evidence, seen, local, postflight, status>>

\* Exit code 0 with a record, 4 for a launch that was turned away.
Answer ==
  /\ at = "starting"
  /\ \/ /\ launcher[own] = "ready" /\ HostStays
        /\ Goto("check") /\ UNCHANGED failure
     \/ /\ launcher[own] = "blocked" /\ HostStays
        /\ Goto("postflight") /\ failure' = "blocked"
     \/ launcher[own] = "failed" /\ HostStays /\ Breaks("recover")
     \/ Lost("recover")
  /\ UNCHANGED <<own, evidence, seen, local, postflight, status>>

\* Without the record of the launch there is nothing it may touch.
RecoverStart ==
  /\ at = "recover"
  /\ HostStays
  /\ \/ record[own] = "written" /\ Goto("stop")
     \/ Goto("postflight")
  /\ UNCHANGED <<own, failure, evidence, seen, local, postflight, status>>

\* Quickstart must have its two ports open as well.
CheckOwned ==
  /\ at = "check"
  /\ \/ /\ WatchdogLive(own) /\ own = CoreLab /\ HostStays
        /\ Goto("await") /\ UNCHANGED failure
     \/ /\ WatchdogLive(own) /\ own = TunnelLab /\ child[own] \in Working
        /\ HostStays /\ Goto("open") /\ UNCHANGED failure
     \/ /\ ~WatchdogLive(own) \/ (own = TunnelLab /\ child[own] \notin Working)
        /\ HostStays /\ Breaks("stop")
     \/ Lost("stop")
  /\ UNCHANGED <<own, evidence, seen, local, postflight, status>>

\* A wait without an end of its own.
AwaitForever ==
  /\ at = "await"
  /\ \/ ~GroupAlive(own) /\ HostStays /\ Goto("stop") /\ UNCHANGED failure
     \/ Lost("stop")
  /\ UNCHANGED <<own, evidence, seen, local, postflight, status>>

\* The wait is as long as the watchdog's time and may end just before it.
AwaitCore ==
  /\ at = "await"
  /\ \/ ~GroupAlive(own) /\ HostStays /\ Goto("stop") /\ UNCHANGED failure
     \/ GroupAlive(own) /\ HostStays /\ Breaks("stop")
     \/ Lost("stop")
  /\ UNCHANGED <<own, evidence, seen, local, postflight, status>>

-----------------------------------------------------------------------------
(* The tunnel *)

TunnelGate ==
  /\ at = "tunnel"
  /\ own' = TunnelLab
  /\ evidence' = {}
  /\ Gate("start") \/ Lost("postflight")
  /\ UNCHANGED <<seen, local, postflight, status>>

OpenTunnel ==
  /\ at = "open"
  /\ \/ /\ local' = [p \in Local |-> "live"]
        /\ HostStays /\ Goto("submit") /\ UNCHANGED failure
     \/ local' = [local EXCEPT !["tunnel"] = "live"] /\ Lost("reap")
  /\ UNCHANGED <<own, evidence, seen, postflight, status>>

\* Three nodes are connected and the watchdog lives: a task for each.
SubmitTasks ==
  /\ at = "submit"
  /\ \/ /\ WatchdogLive(own) /\ child[own] \in Working
        /\ HostStays /\ Goto("receive") /\ UNCHANGED failure
     \/ /\ ~WatchdogLive(own) \/ child[own] \notin Working
        /\ HostStays /\ Breaks("reap")
     \/ Lost("reap")
  /\ UNCHANGED <<own, evidence, seen, local, postflight, status>>

\* A node exits with its one receipt, and communicate() waits for it.
ReceiveReceipts ==
  /\ at = "receive"
  /\ \/ /\ child[own] \in Working
        /\ local' = [local EXCEPT !["nodes"] = "exited"]
        /\ HostStays /\ Goto("reap") /\ UNCHANGED failure
     \/ child[own] \notin Working /\ UNCHANGED local /\ HostStays /\ Breaks("reap")
     \/ UNCHANGED local /\ Lost("reap")
  /\ UNCHANGED <<own, evidence, seen, postflight, status>>

\* psutil no longer finds a process that was waited for, and what it may have
\* left is unknown: verified is false, unless its pid is another's by then.
ReapExited(p) ==
  /\ local[p] = "exited"
  /\ local' = [local EXCEPT ![p] = "gone"]
  /\ HostStays
  /\ evidence' \in {evidence, evidence \cup {p}}

\* terminate, and kill after five seconds, with its descendants.
ReapLive(p) ==
  /\ local[p] = "live"
  /\ \/ /\ local' = [local EXCEPT ![p] = "gone"]
        /\ evidence' = evidence \cup {p}
        /\ HostStays
     \/ /\ local' = [local EXCEPT ![p] = "stuck"]
        /\ UNCHANGED evidence
        /\ Loss

\* The nodes before the tunnel they use.
ReapLocal ==
  /\ at = "reap"
  /\ \/ /\ ReapExited("nodes") \/ ReapLive("nodes")
        /\ UNCHANGED at
     \/ /\ local["nodes"] \notin {"exited", "live"}
        /\ ReapLive("tunnel")
        /\ Goto("stop")
  /\ UNCHANGED <<own, failure, seen, postflight, status>>

-----------------------------------------------------------------------------
(* The teardown of a launch *)

\* The leader alone identifies the group: without it, nobody is signalled.
StopGroup ==
  /\ at = "stop"
  /\ \/ /\ supervisor[own] \in Supervising
        /\ Signal(own)
        /\ UNCHANGED <<launcher, guardian, doubt, lease, record, result, report, faults>>
        /\ Goto("kill")
     \/ supervisor[own] \notin Supervising /\ HostStays /\ Goto("absent")
     \/ Loss /\ Goto("guard")
  /\ UNCHANGED <<own, failure, evidence, seen, local, postflight, status>>

KillGroup ==
  /\ at = "kill"
  /\ SigKill(own)
  /\ UNCHANGED <<launcher, guardian, doubt, lease, record, result, report, faults>>
  /\ Goto("absent")
  /\ UNCHANGED <<own, failure, evidence, seen, local, postflight, status>>

ConfirmAbsent ==
  /\ at = "absent"
  /\ \/ ~GroupAlive(own) /\ evidence' = evidence \cup {"group"} /\ HostStays
     \/ GroupAlive(own) /\ UNCHANGED evidence /\ HostStays
     \/ UNCHANGED evidence /\ Loss
  /\ Goto("guard")
  /\ UNCHANGED <<own, failure, seen, local, postflight, status>>

\* Ten seconds; a guardian that exits while its arguments or its lock are
\* being read is not verified either.
AwaitGuardian ==
  /\ at = "guard"
  /\ HostStays
  /\ \/ ~WatchdogLive(own) /\ evidence' = evidence \cup {"guardian"}
     \/ UNCHANGED evidence
  /\ Goto("collect")
  /\ UNCHANGED <<own, failure, seen, local, postflight, status>>

\* What cannot be downloaded is missing.
Collect ==
  /\ at = "collect"
  /\ \/ seen' = [seen EXCEPT ![own] = result[own]] /\ HostStays
     \/ UNCHANGED seen /\ Loss
  /\ Goto("verdict")
  /\ UNCHANGED <<own, failure, evidence, local, postflight, status>>

\* No look at how the experiment ended.
StoppedSafely ==
  /\ {"group", "guardian"} \subseteq evidence
  /\ seen[CoreLab] \in Safe

\* An experiment ends by itself, and passed.
CoreAccepted ==
  /\ {"group", "guardian"} \subseteq evidence
  /\ seen[CoreLab] = "target_exited_before_deadline"
  /\ report[CoreLab] = "passed"

\* Quickstart is ended: any status that says its group is gone will do.
TunnelAccepted ==
  /\ {"group", "guardian"} \cup Local \subseteq evidence
  /\ seen[TunnelLab] \in Safe

Verdict ==
  /\ at = "verdict"
  /\ \/ /\ failure = "none" /\ own = CoreLab /\ CoreAccepted
        /\ HostStays /\ Goto("tunnel") /\ UNCHANGED failure
     \/ /\ failure = "none" /\ own = TunnelLab /\ TunnelAccepted
        /\ HostStays /\ Goto("postflight") /\ UNCHANGED failure
     \/ /\ failure # "none" \/ ~(IF own = CoreLab THEN CoreAccepted ELSE TunnelAccepted)
        /\ HostStays /\ Breaks("postflight")
     \/ Lost("postflight")
  /\ UNCHANGED <<own, evidence, seen, local, postflight, status>>

\* The last snapshot: a run that passed so far still needs it; one that did not
\* reports it. The worktree must also be what was deployed.
Postflight ==
  /\ at = "postflight"
  /\ \/ /\ HostStays
        /\ postflight' = IF LabQuiet THEN "verified" ELSE "unverified"
     \/ Loss /\ postflight' = "unverified"
  /\ status' = CASE failure = "blocked" -> "blocked"
                 [] failure = "error" -> "failed"
                 [] OTHER -> IF postflight' = "verified" THEN "passed" ELSE "failed"
  /\ Goto("done")
  /\ UNCHANGED <<own, failure, evidence, seen, local>>

\* The workstation dies: nothing is torn down from there.
WorkstationDies ==
  /\ at \notin {"idle", "done", "dead"}
  /\ Loss
  /\ Goto("dead")
  /\ UNCHANGED <<own, failure, evidence, seen, local, postflight, status>>

-----------------------------------------------------------------------------

Run ==
  \/ Preflight \/ Deploy \/ StartOwned \/ Answer \/ RecoverStart
  \/ CheckOwned \/ AwaitCore
  \/ TunnelGate \/ OpenTunnel \/ SubmitTasks \/ ReceiveReceipts \/ ReapLocal
  \/ StopGroup \/ KillGroup \/ ConfirmAbsent \/ AwaitGuardian \/ Collect
  \/ Verdict \/ Postflight

\* Everyone else on the host: its processes, and other people's launches.
Others ==
  /\ \E l \in Launch :
       \/ l \notin Own /\ Begin(l)
       \/ HostStep(l)
       \/ l \notin Own /\ GroupSignalled(l)
  /\ UNCHANGED labVars

LabNext == Run \/ WorkstationDies \/ Others

vars == <<hostVars, labVars>>

LabSpec == LabInit /\ [][LabNext]_vars

\* Every command of the run has a timeout; on the host the processes run, and
\* the deadline of a guardian comes.
Fairness == HostFairness /\ WF_vars(Run)

FairSpec == LabSpec /\ Fairness

-----------------------------------------------------------------------------
(* Properties *)

\* _validated_watchdog_terminal_result: the core of a run that passed ended by
\* itself with a report that it passed, and its guardian saw that.
PassedRanNormally ==
  status = "passed" =>
    /\ report[CoreLab] = "passed"
    /\ result[CoreLab] = "target_exited_before_deadline"
    /\ result[TunnelLab] \in Safe

\* run, postflight_cleanup_verified: from then on nothing that the run started
\* works on the host, unless it lost its guardian.
PostflightHolds ==
  postflight = "verified" =>
    \A l \in Own :
      /\ launcher[l] \notin Launching
      /\ supervisor[l] \notin Supervising
      /\ GroupAlive(l) => Unguarded(l)

\* run, its reports: whatever fails, a run ends with one, unless its workstation
\* dies.
RunEnds == at # "idle" ~> at \in {"done", "dead"}

\* docs/development/runbooks/remote-lab-flow.zh-CN.md, acceptance: when the
\* receipts are in and nothing failed, each local process is verified.
NodesVerified ==
  at = "stop" /\ own = TunnelLab /\ failure = "none" /\ faults = 0 =>
    Local \subseteq evidence
=============================================================================
