------------------------ MODULE EngineeringAcceptance ------------------------
(***************************************************************************)
(* The acceptance of a commit, run_engineering_acceptance.py: the release  *)
(* gate, one soak in the background whose tree of processes is sampled     *)
(* while it is polled, the checks of its evidence and of the worktree, and *)
(* the clean-up of what is left after a failure.                           *)
(*                                                                         *)
(* The soak is one worker with children; a child whose worker is gone is   *)
(* nobody's child any more and is not found again. A process identifier    *)
(* stands for one process. The worktree may be edited, or be moved to      *)
(* another commit, which every command of loveengine refuses to run on.    *)
(***************************************************************************)
EXTENDS Naturals

CONSTANTS
    Child,         \* the processes that the worker may start
    SoakWorker,    \* the worker itself
    MaxTroubles    \* bound: processes killed, commands that fail, changes of the worktree

VARIABLES
    gate,          \* what the acceptance is doing, and what its report will say
    written,       \* the status in the report file
    soak,          \* the worker, its outcome, and the commit it was started from
    tree,          \* the processes of the soak that live, and those not started yet
    observed,      \* observed_processes
    worktree,
    late, troubles

vars == <<gate, written, soak, tree, observed, worktree, late, troubles>>

Step(step) == gate.step = step

To(step) == gate' = [gate EXCEPT !.step = step]

\* An exception in run: the processes that are ours are cleaned up.
Fail ==
    gate' = [gate EXCEPT !.step = IF gate.owned THEN "list" ELSE "write",
                         !.status = "failed"]

Trouble == troubles < MaxTroubles /\ troubles' = troubles + 1

Lives(p) == p \in tree.live

\* What a command of loveengine requires of the worktree.
SameCommit == worktree # "moved"

-----------------------------------------------------------------------------
(* run                                                                     *)

\* _require_clean_commit refuses before there is a report.
Begin ==
    /\ Step("idle")
    /\ IF worktree = "clean"
       THEN To("release") /\ written' = "running"
       ELSE To("over") /\ UNCHANGED written
    /\ UNCHANGED <<soak, tree, observed, worktree, late, troubles>>

\* run_release_checks.ps1
ReleaseGate ==
    /\ Step("release")
    /\ To("launch")
    /\ UNCHANGED <<written, soak, tree, observed, worktree, late, troubles>>

\* pilot soak --background returns when its worker runs.
Launch ==
    /\ Step("launch")
    /\ IF SameCommit
       THEN /\ gate' = [gate EXCEPT !.step = "first", !.owned = TRUE]
            /\ soak' = [soak EXCEPT !.commit = worktree]
            /\ tree' = [tree EXCEPT !.live = {SoakWorker}]
       ELSE Fail /\ UNCHANGED <<soak, tree>>
    /\ UNCHANGED <<written, observed, worktree, late, troubles>>

\* _sample_owned_process_tree finds the worker and its children; without the
\* worker it finds nobody.
Sampled == IF Lives(SoakWorker) THEN observed \cup tree.live ELSE observed

\* soak_completion_timeout.
PastDeadline == Step("await") /\ late

Sample ==
    /\ Step("first") \/ (Step("await") /\ ~PastDeadline)
    /\ observed' = Sampled
    /\ To(IF Step("first") THEN "await" ELSE "poll")
    /\ UNCHANGED <<written, soak, tree, worktree, late, troubles>>

TimesOut ==
    /\ PastDeadline
    /\ Fail
    /\ UNCHANGED <<written, soak, tree, observed, worktree, late, troubles>>

\* pilot soak-status: running as long as the worker lives, then what its report
\* says.
Poll ==
    /\ Step("poll")
    /\ CASE ~SameCommit   -> Fail
         [] SameCommit /\ Lives(SoakWorker) -> To("await")
         [] OTHER         -> gate' = [gate EXCEPT !.step = "tree", !.soak = soak.outcome]
    /\ UNCHANGED <<written, soak, tree, observed, worktree, late, troubles>>

\* _matching_live_processes: a process that was sampled still lives.
Remains == observed \cap tree.live

CheckTree ==
    /\ Step("tree")
    /\ IF Remains = {} THEN To("evidence") ELSE Fail
    /\ UNCHANGED <<written, soak, tree, observed, worktree, late, troubles>>

\* _soak_transcript_path, _validate_terminal_evidence, and the verification of the
\* transcript in a process of its own.
EvidenceHolds == gate.soak = "passed" /\ SameCommit

CheckEvidence ==
    /\ Step("evidence")
    /\ IF EvidenceHolds THEN To("tamper") ELSE Fail
    /\ UNCHANGED <<written, soak, tree, observed, worktree, late, troubles>>

\* A copy with another run ID must not verify; on another commit nothing does.
CheckTampered ==
    /\ Step("tamper")
    /\ To("final")
    /\ UNCHANGED <<written, soak, tree, observed, worktree, late, troubles>>

CheckWorktree ==
    /\ Step("final")
    /\ IF worktree = "clean"
       THEN gate' = [gate EXCEPT !.step = "write", !.status = "passed"]
       ELSE Fail
    /\ UNCHANGED <<written, soak, tree, observed, worktree, late, troubles>>

\* A command, a poll or a look at the processes fails, or writes to stderr.
StepFails ==
    /\ \E step \in {"release", "launch", "first", "await", "poll", "tree", "evidence",
                    "tamper", "final"} : Step(step)
    /\ Trouble
    /\ Fail
    /\ UNCHANGED <<written, soak, tree, observed, worktree, late>>

-----------------------------------------------------------------------------
(* The clean-up                                                            *)

\* _cleanup_owned_soak looks for the worker and its children ...
ListOwned ==
    /\ Step("list")
    /\ IF Lives(SoakWorker)
       THEN gate' = [gate EXCEPT !.step = "stop", !.listed = tree.live]
       ELSE gate' = [gate EXCEPT !.step = "descendants", !.stopped = TRUE]
    /\ UNCHANGED <<written, soak, tree, observed, worktree, late, troubles>>

\* ... and ends those it found.
StopOwned ==
    /\ Step("stop")
    /\ tree' = [tree EXCEPT !.live = @ \ gate.listed]
    /\ soak' = [soak EXCEPT !.outcome = IF Lives(SoakWorker) THEN "failed" ELSE @]
    /\ gate' = [gate EXCEPT !.step = "descendants", !.stopped = TRUE]
    /\ UNCHANGED <<written, observed, worktree, late, troubles>>

\* The state file names another process, or a process cannot be ended.
CleanupFails ==
    /\ Step("list") \/ Step("stop")
    /\ Trouble
    /\ To("descendants")
    /\ UNCHANGED <<written, soak, tree, observed, worktree, late>>

WorkerOnly == Remains \cap {SoakWorker}

\* _cleanup_observed_processes ends what was sampled, children of a worker that is
\* gone included.
Targets == Remains

CleanObserved ==
    /\ Step("descendants")
    /\ tree' = [tree EXCEPT !.live = @ \ Targets]
    /\ soak' = [soak EXCEPT !.outcome = IF SoakWorker \in Targets THEN "failed" ELSE @]
    /\ gate' = [gate EXCEPT !.step = "write", !.cleaned = TRUE]
    /\ UNCHANGED <<written, observed, worktree, late, troubles>>

CleanObservedFails ==
    /\ Step("descendants")
    /\ Trouble
    /\ To("write")
    /\ UNCHANGED <<written, soak, tree, observed, worktree, late>>

WriteReport ==
    /\ Step("write")
    /\ written' = gate.status
    /\ To("over")
    /\ UNCHANGED <<soak, tree, observed, worktree, late, troubles>>

-----------------------------------------------------------------------------
(* The environment                                                         *)

\* The worker starts its nodes, the chain and the server, and ends them.
StartChild(c) ==
    /\ Lives(SoakWorker)
    /\ c \notin tree.started
    /\ tree' = [live |-> tree.live \cup {c}, started |-> tree.started \cup {c}]
    /\ UNCHANGED <<gate, written, soak, observed, worktree, late, troubles>>

ChildEnds(c) ==
    /\ Lives(c)
    /\ tree' = [tree EXCEPT !.live = @ \ {c}]
    /\ UNCHANGED <<gate, written, soak, observed, worktree, late, troubles>>

\* A soak that comes to its end has ended its processes.
WorkerEnds ==
    /\ tree.live = {SoakWorker}
    /\ tree' = [tree EXCEPT !.live = {}]
    /\ \E outcome \in {"passed", "failed"} : soak' = [soak EXCEPT !.outcome = outcome]
    /\ UNCHANGED <<gate, written, observed, worktree, late, troubles>>

KillWorker ==
    /\ Lives(SoakWorker)
    /\ Trouble
    /\ tree' = [tree EXCEPT !.live = @ \ {SoakWorker}]
    /\ soak' = [soak EXCEPT !.outcome = "failed"]
    /\ UNCHANGED <<gate, written, observed, worktree, late>>

KillGate ==
    /\ ~Step("idle") /\ ~Step("over")
    /\ Trouble
    /\ To("over")
    /\ UNCHANGED <<written, soak, tree, observed, worktree, late>>

ChangeWorktree ==
    /\ ~Step("over")
    /\ Trouble
    /\ worktree' \in {"clean", "dirty", "moved"} \ {worktree}
    /\ UNCHANGED <<gate, written, soak, tree, observed, late>>

\* DURATION_SECONDS + COMPLETION_GRACE_SECONDS have passed.
TimePasses ==
    /\ gate.owned /\ ~late
    /\ late' = TRUE
    /\ UNCHANGED <<gate, written, soak, tree, observed, worktree, troubles>>

-----------------------------------------------------------------------------
Init ==
    /\ gate = [step |-> "idle", status |-> "running", owned |-> FALSE, soak |-> "none",
               listed |-> {}, stopped |-> FALSE, cleaned |-> FALSE]
    /\ written = "none"
    /\ soak = [outcome |-> "none", commit |-> "clean"]
    /\ tree = [live |-> {}, started |-> {}]
    /\ observed = {}
    /\ worktree = "clean"
    /\ late = FALSE
    /\ troubles = 0

GateStep ==
    \/ Begin \/ ReleaseGate \/ Launch \/ Sample \/ TimesOut \/ Poll \/ CheckTree
    \/ CheckEvidence \/ CheckTampered \/ CheckWorktree
    \/ ListOwned \/ StopOwned \/ CleanObserved \/ WriteReport

Next ==
    \/ GateStep
    \/ StepFails \/ CleanupFails \/ CleanObservedFails
    \/ \E c \in Child : StartChild(c) \/ ChildEnds(c)
    \/ WorkerEnds \/ KillWorker \/ KillGate \/ ChangeWorktree \/ TimePasses

Spec == Init /\ [][Next]_vars

\* The commands return, and the clock goes on; the soak need not end.
FairSpec == Spec /\ WF_vars(GateStep) /\ WF_vars(TimePasses)

-----------------------------------------------------------------------------
(* Properties                                                              *)

TypeOK ==
    /\ gate.status \in {"running", "passed", "failed"}
    /\ written \in {"none", "running", "passed", "failed"}
    /\ tree.live \subseteq tree.started \cup {SoakWorker}
    /\ observed \subseteq Child \cup {SoakWorker}
    /\ soak.outcome \in {"none", "passed", "failed"}

\* An accepted commit had a soak that passed and ran on that commit, and nothing of
\* it is left running.
PassedIsDone ==
    written = "passed" =>
        soak.outcome = "passed" /\ soak.commit # "moved" /\ tree.live = {}

\* A report that calls the clean-up complete is right about the worker and about
\* every process that was ever sampled, also one whose parent had gone.
CleanedIsGone ==
    written = "failed" /\ gate.owned /\ gate.stopped /\ gate.cleaned =>
        SoakWorker \notin tree.live /\ Remains = {}

\* The report of an acceptance says what is true of the processes it started.
AcceptanceHolds == PassedIsDone /\ CleanedIsGone

Begun == ~Step("idle")

\* With a soak that never ends the acceptance does.
AcceptanceEnds == Begun ~> Step("over")
=============================================================================
