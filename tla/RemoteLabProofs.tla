--------------------------- MODULE RemoteLabProofs ---------------------------
(***************************************************************************)
(* Proofs about SharedHost and RemoteLab for any launches and any bound on *)
(* the faults: one lab at a time works on the host, a status that says the *)
(* group is gone is right, and what a run of the remote lab verifies and   *)
(* reports holds.                                                          *)
(***************************************************************************)
EXTENDS RemoteLab, TLAPS

USE CoreAssumption, ReusedAssumption, FaultsAssumption, LabAssumption

-----------------------------------------------------------------------------
(* The host                                                                *)

\* What the processes of one launch are to each other. A supervisor comes from a
\* launcher that is checked and is not replaced; it has a guardian before it has
\* a child or a record; a guardian that runs has written nothing; and the status
\* it leaves is safe only when the group is gone.
LaunchInv(l) ==
  /\ launcher[l] \in {"idle", "begun", "locked", "checked"} => supervisor[l] = "none"
  /\ supervisor[l] \in {"none", "started", "parented", "leased"} => guardian[l] = "none"
  /\ guardian[l] = "none" =>
       /\ child[l] = "none" /\ record[l] # "written"
       /\ supervisor[l] \in {"none", "started", "parented", "leased", "gone"}
  /\ guardian[l] # "gone" => result[l] = "none"
  /\ result[l] \in Safe => ~GroupAlive(l)
  /\ report[l] = "passed" => supervisor[l] = "gone"

\* The inductive invariant of the host.
HostInv ==
  /\ TypeOK
  /\ \A l \in Launch : LaunchInv(l)
  /\ OneHolder

\* A step after which no launch holds the lock that did not hold it before.
NoNewHolder == \A l \in Launch : Holds(l)' => Holds(l)

\* What is final of a launch, as long as its launcher is not begun.
Final(l) ==
  /\ launcher[l] \notin Launching => launcher'[l] = launcher[l]
  /\ launcher[l] \notin Launching /\ supervisor[l] \notin Supervising =>
       supervisor'[l] \notin Supervising /\ (GroupAlive(l)' => GroupAlive(l))
  /\ guardian[l] = "gone" => guardian'[l] = "gone" /\ result'[l] = result[l]
  /\ result[l] # "none" => result'[l] = result[l]
  /\ report[l] = "passed" => report'[l] = "passed"

\* The other launches are left alone.
Frame(l) ==
  \A k \in Launch \ {l} :
    /\ launcher'[k] = launcher[k] /\ supervisor'[k] = supervisor[k] /\ child'[k] = child[k]
    /\ guardian'[k] = guardian[k] /\ doubt'[k] = doubt[k] /\ lease'[k] = lease[k]
    /\ record'[k] = record[k] /\ result'[k] = result[k] /\ report'[k] = report[k]

\* What a step of the processes of a launch keeps: it takes the lock only when
\* nobody holds it.
Kept(l) ==
  /\ TypeOK'
  /\ Frame(l)
  /\ LaunchInv(l)'
  /\ Holds(l)' => Holds(l) \/ ~(\E k \in Launch : Holds(k))

\* A launch is begun.
LEMMA BeginKeeps ==
  ASSUME TypeOK, NEW l \in Launch, LaunchInv(l),
         Begin(l)
  PROVE  Kept(l)
<1> USE DEF LaunchInv, Kept, Frame, Final, GroupAlive, Holds, Launching, Supervising, Working,
            Guarding, Safe, GaveUp, Fault, TypeOK
<1> QED
  BY DEF Begin


\* The launcher takes the lock, checks the host, spawns the supervisor and waits for
\* its record.
LEMMA LauncherKeeps ==
  ASSUME TypeOK, NEW l \in Launch, LaunchInv(l),
         Acquire(l) \/ Check(l) \/ Spawn(l) \/ WriteLease(l) \/ AwaitRecord(l)
  PROVE  Kept(l) /\ Final(l)
<1> USE DEF LaunchInv, Kept, Frame, Final, GroupAlive, Holds, Launching, Supervising, Working,
            Guarding, Safe, GaveUp, Fault, TypeOK
<1>1. CASE Acquire(l)
  BY <1>1 DEF Acquire, Block
<1>2. CASE Check(l)
  BY <1>2 DEF Check, Block
<1>3. CASE Spawn(l)
  BY <1>3 DEF Spawn, LaunchFails
<1>4. CASE WriteLease(l)
  BY <1>4 DEF WriteLease, LaunchFails
<1>5. CASE AwaitRecord(l)
  BY <1>5 DEF AwaitRecord, StopFailedStart
<1> QED
  BY <1>1, <1>2, <1>3, <1>4, <1>5


\* The supervisor starts its guardian before anything else of its group.
LEMMA SupervisorKeeps ==
  ASSUME TypeOK, NEW l \in Launch, LaunchInv(l),
         SeesLauncher(l) \/ ConsumeLease(l) \/ StartGuardian(l) \/ SuperviseQuickstart(l) \/ SuperviseCore(l)
  PROVE  Kept(l) /\ Final(l)
<1> USE DEF LaunchInv, Kept, Frame, Final, GroupAlive, Holds, Launching, Supervising, Working,
            Guarding, Safe, GaveUp, Fault, TypeOK
<1>1. CASE SeesLauncher(l)
  BY <1>1 DEF SeesLauncher, SupervisorGoes
<1>2. CASE ConsumeLease(l)
  BY <1>2 DEF ConsumeLease, SupervisorGoes
<1>3. CASE StartGuardian(l)
  BY <1>3 DEF StartGuardian
<1>4. CASE SuperviseQuickstart(l)
  BY <1>4 DEF SuperviseQuickstart, SeesLauncher, ConsumeLease, StartGuardian, StartChild, Publish, SupervisorGoes
<1>5. CASE SuperviseCore(l)
  BY <1>5 DEF SuperviseCore, SeesLauncher, ConsumeLease, StartGuardian, Publish, RunCoreExperiment, SupervisorGoes
<1> QED
  BY <1>1, <1>2, <1>3, <1>4, <1>5


\* The guardian ends the group, and says so when it is gone.
LEMMA GuardianKeeps ==
  ASSUME TypeOK, NEW l \in Launch, LaunchInv(l),
         GuardianPolls(l) \/ Deadline(l) \/ StopOwnedGroup(l)
  PROVE  Kept(l) /\ Final(l)
<1> USE DEF LaunchInv, Kept, Frame, Final, GroupAlive, Holds, Launching, Supervising, Working,
            Guarding, Safe, GaveUp, Fault, TypeOK
<1>1. CASE GuardianPolls(l)
  BY <1>1 DEF GuardianPolls, Suspect, ToStop, GuardianEnds
<1>2. CASE Deadline(l)
  BY <1>2 DEF Deadline, ToStop, GuardianEnds
<1>3. CASE StopOwnedGroup(l)
  BY <1>3 DEF StopOwnedGroup, GuardianEnds, GuardianDoubts, Signal, SigKill
<1> QED
  BY <1>1, <1>2, <1>3


\* A process ends, hangs, or is killed or signalled.
LEMMA ProcessKeeps ==
  ASSUME TypeOK, NEW l \in Launch, LaunchInv(l),
         ChildEnds(l) \/ ChildSticks(l) \/ ProcessKilled(l) \/ GroupSignalled(l)
  PROVE  Kept(l) /\ Final(l)
<1> USE DEF LaunchInv, Kept, Frame, Final, GroupAlive, Holds, Launching, Supervising, Working,
            Guarding, Safe, GaveUp, Fault, TypeOK
<1>1. CASE ChildEnds(l)
  BY <1>1 DEF ChildEnds
<1>2. CASE ChildSticks(l)
  BY <1>2 DEF ChildSticks
<1>3. CASE ProcessKilled(l)
  BY <1>3 DEF ProcessKilled, LaunchFails, SupervisorGoes
<1>4. CASE GroupSignalled(l)
  BY <1>4 DEF GroupSignalled, Signal, SigKill
<1> QED
  BY <1>1, <1>2, <1>3, <1>4

\* Every step of the processes of a launch is one of these.
LEMMA HostStepKeeps ==
  ASSUME TypeOK, NEW l \in Launch, LaunchInv(l), HostStep(l) \/ GroupSignalled(l)
  PROVE  Kept(l) /\ Final(l)
<1>1. CASE StartQuickstart(l) \/ StartCore(l)
  BY <1>1, LauncherKeeps DEF StartQuickstart, StartCore
<1>2. CASE SuperviseQuickstart(l) \/ SuperviseCore(l)
  BY <1>2, SupervisorKeeps
<1>3. CASE WatchOwnedGroup(l)
  BY <1>3, GuardianKeeps DEF WatchOwnedGroup
<1>4. CASE ChildEnds(l) \/ ChildSticks(l) \/ ProcessKilled(l) \/ GroupSignalled(l)
  BY <1>4, ProcessKeeps
<1> QED
  BY <1>1, <1>2, <1>3, <1>4 DEF HostStep

\* A step of one launch keeps the invariant of the host.
LEMMA KeptIsEnough ==
  ASSUME HostInv, NEW l \in Launch, Kept(l)
  PROVE  HostInv'
<1>1. TypeOK' /\ LaunchInv(l)'
  BY DEF Kept
<1>2. ASSUME NEW k \in Launch, k # l
      PROVE  LaunchInv(k)' /\ Holds(k)' = Holds(k)
  BY <1>2 DEF HostInv, Kept, Frame, LaunchInv, Holds, GroupAlive
<1>3. OneHolder'
  <2> SUFFICES ASSUME NEW j \in Launch, NEW k \in Launch, Holds(j)', Holds(k)'
               PROVE  j = k
    BY DEF OneHolder
  <2>1. CASE j # l /\ k # l
    BY <1>2, <2>1 DEF HostInv, OneHolder
  <2>2. CASE j = l /\ k # l
    BY <1>2, <2>2 DEF HostInv, OneHolder, Kept
  <2>3. CASE j # l /\ k = l
    BY <1>2, <2>3 DEF HostInv, OneHolder, Kept
  <2> QED
    BY <2>1, <2>2, <2>3
<1> QED
  BY <1>1, <1>2, <1>3 DEF HostInv

\* The host as it is at first.
LEMMA HostInitInv == Init => HostInv
  BY DEF Init, HostInv, TypeOK, LaunchInv, OneHolder, Holds, GroupAlive, Launching, Supervising,
         Working, Guarding, Safe, GaveUp

\* A step of the host keeps the invariant.
LEMMA HostNextKeeps == HostInv /\ [Next]_hostVars => HostInv'
<1> SUFFICES ASSUME HostInv, [Next]_hostVars PROVE HostInv'
  OBVIOUS
<1>1. CASE \E l \in Launch : Begin(l) \/ HostStep(l) \/ GroupSignalled(l)
  <2>1. PICK l \in Launch : Begin(l) \/ HostStep(l) \/ GroupSignalled(l)
    BY <1>1
  <2>2. Kept(l)
    BY <2>1, BeginKeeps, HostStepKeeps DEF HostInv
  <2> QED
    BY <2>2, KeptIsEnough
<1>2. CASE FaultElsewhere
  BY <1>2 DEF FaultElsewhere, Fault, HostInv, TypeOK, LaunchInv, OneHolder, Holds, GroupAlive
<1>3. CASE UNCHANGED hostVars
  BY <1>3 DEF hostVars, HostInv, TypeOK, LaunchInv, OneHolder, Holds, GroupAlive
<1> QED
  BY <1>1, <1>2, <1>3 DEF Next

\* The invariant says that one lab at a time works on the host.
LEMMA HostInvMeans ==
  ASSUME HostInv
  PROVE  OneLab /\ GuardedFirst /\ SafeResultsHold
<1>1. LockCoversGroup
  <2> SUFFICES ASSUME NEW l \in Launch, GroupAlive(l), ~Holds(l) PROVE Unguarded(l)
    BY DEF LockCoversGroup
  <2> QED
    BY DEF HostInv, TypeOK, LaunchInv, GroupAlive, Holds, Unguarded, Supervising, Working,
           Guarding
<1>2. OneLab
  BY <1>1 DEF HostInv, OneHolder, OneLab, LockCoversGroup
<1>3. GuardedFirst /\ SafeResultsHold
  BY DEF HostInv, LaunchInv, GuardedFirst, SafeResultsHold
<1> QED
  BY <1>2, <1>3

\* In every state of the host the invariant holds.
THEOREM HostInvariant == HostSpec => []HostInv
  BY HostInitInv, HostNextKeeps, PTL DEF HostSpec

\* The steps of start_shared_quickstart.py, start_shared_core.py and their
\* guardians keep the types of the host.
THEOREM HostTyping == HostSpec => []TypeOK
<1>1. HostInv => TypeOK
  BY DEF HostInv
<1> QED
  BY <1>1, HostInvariant, PTL

\* acquire_shared_host_lock and the descriptors that the supervisor and the
\* guardian inherit: one launch holds the lock at a time, and as long as a
\* process of its group lives, unless its guardian was killed or gave up.
THEOREM OneLabAtATime == HostSpec => []OneLab
<1>1. HostInv => OneLab
  BY HostInvMeans
<1> QED
  BY <1>1, HostInvariant, PTL

\* supervise_quickstart and run_core start the guardian before the child and
\* before the ready file that a launcher answers with.
THEOREM GuardianComesFirst == HostSpec => []GuardedFirst
<1>1. HostInv => GuardedFirst
  BY HostInvMeans
<1> QED
  BY <1>1, HostInvariant, PTL

\* _watch_owned_group writes a status that says the group is gone only when it
\* is, and nothing of that group ever lives again.
THEOREM SafeResultsStay == HostSpec => []SafeResultsHold
<1>1. HostInv => SafeResultsHold
  BY HostInvMeans
<1> QED
  BY <1>1, HostInvariant, PTL

-----------------------------------------------------------------------------
(* The run of the lab                                                      *)

\* What is known of a launch that was gone through: its launcher and its
\* supervisor are, and what is left of its group has lost its guardian.
Abandoned(l) ==
  /\ launcher[l] \notin Launching
  /\ supervisor[l] \notin Supervising
  /\ GroupAlive(l) => Unguarded(l)

\* What is known of a launch of which a safe status was downloaded.
Reported(l) == seen[l] # "none" => seen[l] = result[l]

\* The experiment was accepted.
CorePassed ==
  /\ report[CoreLab] = "passed"
  /\ result[CoreLab] = "target_exited_before_deadline"

\* The inductive invariant of a run: it begins with the experiment, goes on to
\* Quickstart when that passed, and ends.
LabInv ==
  /\ LabTypeOK
  /\ HostInv
  /\ \A l \in Own : Reported(l)
  /\ at \in {"recover"} => failure = "error"
  /\ at \in {"idle", "prepare"} => own = CoreLab
  /\ at = "tunnel" \/ own = TunnelLab => CorePassed
  /\ (at = "postflight" /\ failure = "none") \/ status = "passed" =>
       CorePassed /\ result[TunnelLab] \in Safe
  /\ postflight # "none" \/ status # "none" => at = "done"
  /\ postflight = "verified" => \A l \in Own : Abandoned(l)

\* What is final of the launches of the run.
LabHostFinal == \A l \in Own : Final(l)

\* A step of the host is final for the launches of the run, unless it begins one.
LEMMA HostStepFinal ==
  ASSUME HostInv,
         \/ \E l \in Launch : \/ l \notin Own /\ Begin(l)
                              \/ HostStep(l)
                              \/ GroupSignalled(l)
         \/ FaultElsewhere
         \/ UNCHANGED hostVars
  PROVE  LabHostFinal
<1>1. CASE \E l \in Launch : \/ l \notin Own /\ Begin(l)
                             \/ HostStep(l)
                             \/ GroupSignalled(l)
  <2>1. PICK l \in Launch : \/ l \notin Own /\ Begin(l)
                            \/ HostStep(l)
                            \/ GroupSignalled(l)
    BY <1>1
  <2>2. Frame(l) /\ (l \in Own => Final(l))
    BY <2>1, BeginKeeps, HostStepKeeps DEF HostInv, Kept
  <2> QED
    BY <2>2 DEF LabHostFinal, Own, Frame, Final, GroupAlive
<1>2. CASE FaultElsewhere
  BY <1>2 DEF FaultElsewhere, LabHostFinal, Own, Final, GroupAlive
<1>3. CASE UNCHANGED hostVars
  BY <1>3 DEF hostVars, LabHostFinal, Own, Final, GroupAlive
<1> QED
  BY <1>1, <1>2, <1>3

\* What the run does on the host is what any shell there may do.
LEMMA RunIsHostStep ==
  ASSUME LabInv, Run
  PROVE  \/ StartOwned /\ Begin(own)
         \/ GroupSignalled(own)
         \/ FaultElsewhere
         \/ UNCHANGED hostVars
<1>1. CASE StopGroup
  BY <1>1 DEF StopGroup, HostStays, Loss, GroupSignalled, GroupAlive
<1>2. CASE KillGroup
  <2>1. /\ SigKill(own)
        /\ UNCHANGED <<launcher, guardian, doubt, lease, record, result, report, faults>>
    BY <1>2 DEF KillGroup
  <2>2. CASE GroupAlive(own)
    BY <2>1, <2>2 DEF GroupSignalled
  <2>3. CASE ~GroupAlive(own)
    <3>1. /\ supervisor \in [Launch -> Supervising \cup {"none", "gone"}]
          /\ child \in [Launch -> Working \cup {"none", "gone"}]
          /\ own \in Launch
      BY DEF LabInv, LabTypeOK, TypeOK, Own
    <3>2. supervisor[own] \in {"none", "gone"} /\ child[own] \in {"none", "gone"}
      BY <2>3, <3>1 DEF GroupAlive
    <3>3. supervisor' = supervisor /\ child' = child
      BY <2>1, <3>1, <3>2 DEF SigKill
    <3> QED
      BY <2>1, <3>3 DEF hostVars
  <2> QED
    BY <2>2, <2>3
<1>3. CASE StartOwned
  BY <1>3 DEF StartOwned, Lost, Loss
<1>4. CASE \/ Preflight \/ Deploy \/ Answer \/ RecoverStart \/ CheckOwned \/ AwaitCore
           \/ TunnelGate \/ OpenTunnel \/ SubmitTasks \/ ReceiveReceipts
  BY <1>4 DEF Preflight, Deploy, Answer, RecoverStart, CheckOwned, AwaitCore, TunnelGate, Gate,
              OpenTunnel, SubmitTasks, ReceiveReceipts, Lost, Loss, HostStays
<1>5. CASE \/ ReapLocal \/ ConfirmAbsent \/ AwaitGuardian \/ Collect \/ Verdict \/ Postflight
  BY <1>5 DEF ReapLocal, ReapExited, ReapLive, ConfirmAbsent, AwaitGuardian, Collect, Verdict,
              Postflight, Lost, Loss, HostStays
<1> QED
  BY <1>1, <1>2, <1>3, <1>4, <1>5 DEF Run

\* Every step of the run and of the others is a step of the host.
LEMMA LabStepIsHostStep == LabInv /\ [LabNext]_vars => [Next]_hostVars
<1> SUFFICES ASSUME LabInv, [LabNext]_vars PROVE Next \/ UNCHANGED hostVars
  OBVIOUS
<1>1. own \in Launch
  BY DEF LabInv, LabTypeOK, Own
<1>2. CASE Run
  BY <1>1, <1>2, RunIsHostStep DEF Next
<1>3. CASE WorkstationDies
  BY <1>3 DEF WorkstationDies, Loss, Next
<1>4. CASE Others
  BY <1>4 DEF Others, Next
<1>5. CASE UNCHANGED vars
  BY <1>5 DEF vars
<1> QED
  BY <1>2, <1>3, <1>4, <1>5 DEF LabNext

\* What was found of the two launches stays so.
LEMMA FoundStays ==
  ASSUME LabHostFinal
  PROVE  /\ CorePassed => CorePassed'
         /\ result[TunnelLab] \in Safe => result'[TunnelLab] \in Safe
         /\ \A l \in Own : seen'[l] = seen[l] /\ Reported(l) => Reported(l)'
         /\ \A l \in Own : Abandoned(l) => Abandoned(l)'
  BY DEF LabHostFinal, Own, Final, CorePassed, Safe, Reported, Abandoned, Unguarded

\* The run begins the launch it is concerned with; nothing was verified then.
LEMMA StartKeeps ==
  ASSUME LabInv, HostInv', StartOwned, Begin(own)
  PROVE  LabInv'
<1>0. ~Lost("recover")
  <2>1. faults \in Nat /\ faults' = faults
    BY DEF LabInv, LabTypeOK, TypeOK, Begin
  <2> QED
    BY <2>1 DEF Lost, Loss, FaultElsewhere, Fault
<1>1. /\ at = "start" /\ at' = "starting"
      /\ UNCHANGED <<own, evidence, seen, local, postflight, status, result, report>>
  BY <1>0 DEF StartOwned, Begin, Goto
<1>2. failure' = failure
  BY <1>0 DEF StartOwned
<1>3. LabTypeOK'
  BY <1>1, <1>2 DEF LabInv, LabTypeOK, HostInv, Steps
<1> QED
  BY <1>1, <1>3 DEF LabInv, Reported, CorePassed, Abandoned

\* The other steps of the run find what they found before.
LEMMA RunKeeps ==
  ASSUME LabInv, HostInv', LabHostFinal, Run
  PROVE  LabInv'
<1>1. /\ CorePassed => CorePassed'
      /\ result[TunnelLab] \in Safe => result'[TunnelLab] \in Safe
      /\ \A l \in Own : seen'[l] = seen[l] /\ Reported(l) => Reported(l)'
      /\ \A l \in Own : Abandoned(l) => Abandoned(l)'
  BY FoundStays
<1>2. /\ LabTypeOK /\ TypeOK' /\ \A l \in Own : Reported(l)
      /\ at \in {"recover"} => failure = "error"
      /\ at \in {"idle", "prepare"} => own = CoreLab
      /\ at = "tunnel" \/ own = TunnelLab => CorePassed
      /\ (at = "postflight" /\ failure = "none") \/ status = "passed" =>
           CorePassed /\ result[TunnelLab] \in Safe
      /\ postflight # "none" \/ status # "none" => at = "done"
      /\ postflight = "verified" => \A l \in Own : Abandoned(l)
  BY DEF LabInv, HostInv
<1> USE DEF LabTypeOK, Steps, Local, Own, Goto, Breaks, Lost
<1>3. CASE \/ Preflight \/ Deploy \/ StartOwned \/ Answer \/ RecoverStart \/ CheckOwned
           \/ AwaitCore \/ TunnelGate \/ OpenTunnel \/ SubmitTasks \/ ReceiveReceipts
           \/ ReapLocal
  <2>1. LabTypeOK'
    BY <1>2, <1>3
       DEF Preflight, Deploy, StartOwned, Answer, RecoverStart, CheckOwned, AwaitCore, TunnelGate,
           Gate, OpenTunnel, SubmitTasks, ReceiveReceipts, ReapLocal, ReapExited, ReapLive
  <2> QED
    BY <1>1, <1>2, <1>3, <2>1
       DEF LabInv, Preflight, Deploy, StartOwned, Answer, RecoverStart, CheckOwned, AwaitCore,
           TunnelGate, Gate, OpenTunnel, SubmitTasks, ReceiveReceipts, ReapLocal
<1>4. CASE \/ StopGroup \/ KillGroup \/ ConfirmAbsent \/ AwaitGuardian
  <2>1. LabTypeOK'
    BY <1>2, <1>4 DEF StopGroup, KillGroup, ConfirmAbsent, AwaitGuardian
  <2> QED
    BY <1>1, <1>2, <1>4, <2>1 DEF LabInv, StopGroup, KillGroup, ConfirmAbsent, AwaitGuardian
<1>5. CASE Collect
  <2>1. LabTypeOK'
    BY <1>2, <1>5 DEF Collect, TypeOK
  <2>2. \A l \in Own : Reported(l)'
    BY <1>1, <1>2, <1>5 DEF Collect, HostStays, hostVars, Reported
  <2> QED
    BY <1>1, <1>2, <1>5, <2>1, <2>2 DEF LabInv, Collect
<1>6. CASE Verdict
  <2>1. LabTypeOK'
    BY <1>2, <1>6 DEF Verdict
  <2>2. own = CoreLab /\ CoreAccepted => CorePassed
    BY <1>2 DEF CoreAccepted, CorePassed, Reported
  <2>3. own = TunnelLab /\ TunnelAccepted => result[TunnelLab] \in Safe
    BY <1>2 DEF TunnelAccepted, Reported, Safe
  <2> QED
    BY <1>1, <1>2, <1>6, <2>1, <2>2, <2>3 DEF LabInv, Verdict
<1>7. CASE Postflight
  <2>1. LabTypeOK'
    BY <1>2, <1>7 DEF Postflight
  <2>2. postflight' = "verified" => LabQuiet
    BY <1>7 DEF Postflight
  <2>3. LabQuiet => \A l \in Own : Abandoned(l)
    <3>1. LockCoversGroup
      BY HostInvMeans DEF LabInv, OneLab
    <3> QED
      BY <3>1 DEF LabQuiet, Visible, Abandoned, LockCoversGroup, Holds, Launching
  <2>4. status' = "passed" => failure = "none"
    BY <1>2, <1>7 DEF Postflight
  <2> QED
    BY <1>1, <1>2, <1>7, <2>1, <2>2, <2>3, <2>4 DEF LabInv, Postflight
<1> QED
  BY <1>3, <1>4, <1>5, <1>6, <1>7 DEF Run

\* The run as it is at first.
LEMMA LabInitInv == LabInit => LabInv
<1> SUFFICES ASSUME LabInit PROVE LabInv
  OBVIOUS
<1>1. HostInv
  BY HostInitInv DEF LabInit
<1> QED
  BY <1>1 DEF LabInit, LabInv, LabTypeOK, HostInv, Steps, Own, Local, Reported

\* A step of the run, of the others and the death of the workstation keep it.
LEMMA LabNextKeeps == LabInv /\ [LabNext]_vars => LabInv'
<1> SUFFICES ASSUME LabInv, [LabNext]_vars PROVE LabInv'
  OBVIOUS
<1>1. HostInv /\ HostInv'
  BY LabStepIsHostStep, HostNextKeeps DEF LabInv
<1>2. CASE Run
  <2>1. CASE StartOwned /\ Begin(own)
    BY <1>1, <2>1, StartKeeps
  <2>2. CASE GroupSignalled(own) \/ FaultElsewhere \/ UNCHANGED hostVars
    <3>1. LabHostFinal
      BY <1>1, <2>2, HostStepFinal DEF LabInv, LabTypeOK, Own
    <3> QED
      BY <1>1, <1>2, <3>1, RunKeeps
  <2> QED
    BY <1>2, <2>1, <2>2, RunIsHostStep
<1>3. CASE WorkstationDies \/ Others \/ UNCHANGED vars
  <2>1. LabHostFinal
    BY <1>1, <1>3, HostStepFinal DEF WorkstationDies, Loss, Others, vars
  <2>2. CASE WorkstationDies
    BY <1>1, <2>1, <2>2, FoundStays
       DEF WorkstationDies, Goto, LabInv, LabTypeOK, HostInv, Steps
  <2>3. CASE UNCHANGED labVars
    BY <1>1, <2>1, <2>3, FoundStays DEF labVars, LabInv, LabTypeOK, HostInv
  <2> QED
    BY <1>3, <2>2, <2>3 DEF Others, vars
<1> QED
  BY <1>2, <1>3 DEF LabNext

\* In every state of a run the invariant holds.
THEOREM LabInvariant == LabSpec => []LabInv
  BY LabInitInv, LabNextKeeps, PTL DEF LabSpec

\* run_remote_lab.py starts and tears down launches of a shared host, and does
\* nothing on it that its launchers, its guardians and a shell do not do: a run
\* is a behaviour of the host.
THEOREM LabImplementsHost == LabSpec => HostSpec
<1>1. LabInit => Init
  BY DEF LabInit
<1> QED
  BY <1>1, LabInvariant, LabStepIsHostStep, PTL DEF LabSpec, HostSpec

\* Beside a run of the remote lab, too, one lab works at a time.
THEOREM LabHasOneLab == LabSpec => []OneLab
  BY LabImplementsHost, OneLabAtATime

\* Beside a run of the remote lab, too, a status that says the group is gone is
\* right.
THEOREM LabResultsStay == LabSpec => []SafeResultsHold
  BY LabImplementsHost, SafeResultsStay

\* run, postflight_cleanup_verified: from the last snapshot on, what the run
\* started has no launcher and no supervisor, and a group that still lives has
\* lost its guardian.
THEOREM PostflightIsRight == LabSpec => []PostflightHolds
<1>1. LabInv => PostflightHolds
  BY DEF LabInv, PostflightHolds, Abandoned
<1> QED
  BY <1>1, LabInvariant, PTL

\* _validated_watchdog_terminal_result: a run that reports "passed" had a core
\* experiment that ended by itself and passed, and a Quickstart whose group is
\* gone.
THEOREM PassedIsNormal == LabSpec => []PassedRanNormally
<1>1. LabInv => PassedRanNormally
  BY DEF LabInv, PassedRanNormally, CorePassed
<1> QED
  BY <1>1, LabInvariant, PTL

=============================================================================
