------------------------------- MODULE SoakRun -------------------------------
(***************************************************************************)
(* The soak in the background: the launchers (start_background_soak) that  *)
(* compete for one output directory, the workers they start, the status    *)
(* queries that settle the outcome, and the file pilot-soak-run.json     *)
(* they all write. A soak in the foreground (run_pilot_soak without a      *)
(* launcher) writes its report into the same directory without asking; it  *)
(* runs from the beginning, and may never come to an end.                  *)
(*                                                                         *)
(* The state file is replaced as a whole; the report is not. A process     *)
(* identifier stands for one process, and run is the run ID of a worker.   *)
(***************************************************************************)
EXTENDS Naturals, FiniteSets

CONSTANTS
    Launcher,      \* each launches one worker at most, and names it
    Reader,        \* processes that ask for the status
    Foreground,    \* the soak in the foreground
    Nobody,
    Lease,         \* LAUNCH_REGISTRATION_GRACE_SECONDS
    Duration,      \* --duration-seconds
    MaxTime,       \* bound: the clock
    MaxFaults      \* bound: processes killed and steps that fail

Worker == Launcher \cup {Foreground}

VARIABLES
    state,         \* pilot-soak-run.json
    report,        \* pilot-soak-report.json
    transcript,    \* the run whose transcript is in the output
    launcher,      \* what each launcher is doing
    query,         \* the state that each status query under way has read
    worker,        \* what each worker is doing, since when, and whether all its
                   \* checks hold
    now, faults

vars == <<state, report, transcript, launcher, query, worker, now, faults>>

NoState == [status |-> "none", pid |-> Nobody, run |-> Nobody, lease |-> 0,
            planned |-> 0, reason |-> "none", finished |-> FALSE]

NoReport == [is |-> "absent", run |-> Nobody, passed |-> FALSE]


Running(w) == worker[w].step \in {"running", "writing"}

Fault ==
    /\ faults < MaxFaults
    /\ faults' = faults + 1

-----------------------------------------------------------------------------
(* background_soak_status                                                  *)

Process == Launcher \cup Reader

Asking(p) == query[p] # NoState

\* An operator asks, or a launcher that is about to return.
Ask(p) ==
    /\ ~Asking(p)
    /\ state.status # "none"
    /\ p \in Launcher => launcher[p] = "asking"
    /\ query' = [query EXCEPT ![p] = state]
    /\ UNCHANGED <<state, report, transcript, launcher, worker, now, faults>>

\* Reserved, but no launcher has registered a worker.
Unregistered(read) == read.status = "starting" /\ read.pid = Nobody

NoLease(read) == FALSE

LeaseRanOut(read) == Unregistered(read) /\ now >= read.lease

\* _verified_report_transcript
TranscriptVerifies == transcript = report.run

NotLooked(read) == FALSE

\* _process_alive
Alive(read) == read.pid # Nobody /\ Running(read.pid)

AnyRun(read) == report.passed

\* _passed_report_issue: the report is that of this run, and all the time that
\* was asked for has passed.
ReportPasses(read) ==
    /\ report.passed
    /\ report.run = read.run
    /\ now >= read.planned
    /\ TranscriptVerifies

\* A failure found earlier stays: of a worker that was never started.
Settled(read) ==
    /\ read.status = "failed"
    /\ read.finished
    /\ read.reason \in {"launch_registration_timeout", "launch_failed"}

\* The report is read only when the worker is gone.
Verdict(read) ==
    IF Settled(read) THEN <<"failed", read.reason>>
    ELSE IF LeaseRanOut(read) THEN <<"failed", "launch_registration_timeout">>
    ELSE IF Unregistered(read) THEN <<"starting", "none">>
    ELSE IF Alive(read) THEN <<"running", "none">>
    ELSE IF report.is = "whole" /\ ReportPasses(read) THEN <<"passed", "none">>
    ELSE IF report.is # "absent" THEN <<"failed", "soak_report_failed">>
    ELSE IF read.reason = "launch_error" THEN <<"failed", "launch_failed">>
    ELSE <<"failed", "process_exited_without_report">>

\* _persist_terminal_state writes the state as it was read. The query of a
\* launcher is its last step.
Answer(p) ==
    /\ Asking(p)
    /\ LET read    == query[p]
           verdict == Verdict(read)
           kept    == \/ verdict[1] \notin {"passed", "failed"}
                      \/ read.status = verdict[1] /\ read.finished
       IN  state' = IF kept THEN state
                    ELSE [read EXCEPT !.status = verdict[1], !.reason = verdict[2],
                                      !.finished = TRUE]
    /\ query' = [query EXCEPT ![p] = NoState]
    /\ launcher' = IF p \in Launcher THEN [launcher EXCEPT ![p] = "ended"] ELSE launcher
    /\ UNCHANGED <<report, transcript, worker, now, faults>>

-----------------------------------------------------------------------------
(* start_background_soak                                                   *)

Launching(l, step) == launcher[l] = step

\* No state and no report may be there; the status of a run that is there is
\* asked for, and the launch refused.
CheckOutput(l) ==
    /\ Launching(l, "idle")
    /\ launcher' = [launcher EXCEPT ![l] =
                       IF state.status # "none" THEN "asking"
                       ELSE IF report.is # "absent" THEN "ended" ELSE "reserve"]
    /\ UNCHANGED <<state, report, transcript, query, worker, now, faults>>

\* os.link does not replace a file.
Linkable == state.status = "none"

\* _reserve_initial_soak_state: one launcher makes the state, the others find it.
Reserve(l) ==
    /\ Launching(l, "reserve")
    /\ IF Linkable
       THEN /\ state' = [NoState EXCEPT !.status = "starting", !.run = l,
                                        !.lease = now + Lease,
                                        !.planned = now + Duration]
            /\ launcher' = [launcher EXCEPT ![l] = "reserved"]
       ELSE /\ launcher' = [launcher EXCEPT ![l] = "asking"]
            /\ UNCHANGED state
    /\ UNCHANGED <<report, transcript, query, worker, now, faults>>

Spawn(l) ==
    /\ Launching(l, "reserved")
    /\ worker' = [worker EXCEPT ![l].step = "running", ![l].since = now]
    /\ launcher' = [launcher EXCEPT ![l] = "spawned"]
    /\ UNCHANGED <<state, report, transcript, query, now, faults>>

\* What the launcher reserved; it never reads the state again.
ReservedBy(l, read) ==
    [NoState EXCEPT !.run = l, !.lease = read.lease, !.planned = read.planned]

SpawnFails(l) ==
    /\ Launching(l, "reserved")
    /\ Fault
    /\ state' = [ReservedBy(l, state) EXCEPT !.status = "failed", !.reason = "launch_error"]
    /\ launcher' = [launcher EXCEPT ![l] = "ended"]
    /\ UNCHANGED <<report, transcript, query, worker, now>>

\* The worker is recorded; then the launcher asks for its status.
Register(l) ==
    /\ Launching(l, "spawned")
    /\ state' = [ReservedBy(l, state) EXCEPT !.status = "running", !.pid = l]
    /\ launcher' = [launcher EXCEPT ![l] = "asking"]
    /\ UNCHANGED <<report, transcript, query, worker, now, faults>>

\* The state cannot be written: _terminate_launched_process, which may not
\* succeed either.
RegisterFails(l) ==
    /\ Launching(l, "spawned")
    /\ Fault
    /\ launcher' = [launcher EXCEPT ![l] = "ended"]
    /\ \/ worker' = [worker EXCEPT ![l].step = "gone"]
       \/ UNCHANGED worker
    /\ UNCHANGED <<state, report, transcript, query, now>>

-----------------------------------------------------------------------------
(* run_pilot_soak                                                          *)

\* The run is over, and all checks hold or not; or it raised. Its report is being
\* written, a second time after a failure when the diagnostics are there.
EndRun(w) ==
    /\ worker[w].step = "running"
    /\ \E passed \in BOOLEAN :
         /\ passed => now >= worker[w].since + Duration
         /\ worker' = [worker EXCEPT ![w].step = "writing", ![w].passed = passed]
         /\ transcript' \in IF passed THEN {w} ELSE {w, transcript}
    /\ report' = [is |-> "torn", run |-> w, passed |-> FALSE]
    /\ UNCHANGED <<state, launcher, query, now, faults>>

WriteReport(w) ==
    /\ worker[w].step = "writing"
    /\ report' = [is |-> "whole", run |-> w, passed |-> worker[w].passed]
    /\ worker' = [worker EXCEPT ![w].step = "gone"]
    /\ UNCHANGED <<state, transcript, launcher, query, now, faults>>

-----------------------------------------------------------------------------
(* Processes are killed; time passes                                       *)

KillWorker(w) ==
    /\ Fault
    /\ Running(w)
    /\ worker' = [worker EXCEPT ![w].step = "gone", ![w].passed = FALSE]
    /\ UNCHANGED <<state, report, transcript, launcher, query, now>>

KillLauncher(l) ==
    /\ Fault
    /\ launcher[l] \notin {"idle", "ended"}
    /\ launcher' = [launcher EXCEPT ![l] = "ended"]
    /\ query' = [query EXCEPT ![l] = NoState]
    /\ UNCHANGED <<state, report, transcript, worker, now>>

\* The clock starts with the reservation. A query that found the lease running
\* is over before it runs out.
Tick ==
    /\ state.status # "none"
    /\ now < MaxTime
    /\ \A p \in Process : Unregistered(query[p]) => now + 1 # query[p].lease
    /\ now' = now + 1
    /\ UNCHANGED <<state, report, transcript, launcher, query, worker, faults>>

-----------------------------------------------------------------------------
Init ==
    /\ state = NoState
    /\ report = NoReport
    /\ transcript = Nobody
    /\ launcher = [l \in Launcher |-> "idle"]
    /\ query = [p \in Process |-> NoState]
    /\ worker = [w \in Worker |-> [step |-> IF w = Foreground THEN "running" ELSE "none",
                                since |-> 0, passed |-> FALSE]]
    /\ now = 0
    /\ faults = 0

WorkerStep(w) == EndRun(w) \/ WriteReport(w)

Next ==
    \/ \E l \in Launcher :
         \/ CheckOutput(l) \/ Reserve(l)
         \/ Spawn(l) \/ SpawnFails(l) \/ Register(l) \/ RegisterFails(l)
         \/ KillLauncher(l)
    \/ \E p \in Process : Ask(p) \/ Answer(p)
    \/ \E w \in Worker : WorkerStep(w) \/ KillWorker(w)
    \/ Tick

Spec == Init /\ [][Next]_vars

\* Time passes, a worker ends, a query is answered, and the operator goes on
\* asking.
Fairness ==
    /\ SF_vars(Tick)
    /\ \A l \in Launcher : WF_vars(WorkerStep(l))
    /\ \A r \in Reader : WF_vars(Ask(r))
    /\ \A p \in Process : WF_vars(Answer(p))

FairSpec == Spec /\ Fairness

-----------------------------------------------------------------------------
(* Properties                                                              *)

TypeOK ==
    /\ state.status \in {"none", "starting", "running", "passed", "failed"}
    /\ {state.pid, state.run} \subseteq Launcher \cup {Nobody}
    /\ {report.run, transcript} \subseteq Worker \cup {Nobody}
    /\ \A w \in Worker : worker[w].step \in {"none", "running", "writing", "gone"}
    /\ now \in 0 .. MaxTime
    /\ faults \in 0 .. MaxFaults

Reserved == state.status # "none"

Terminal == state.status \in {"passed", "failed"} /\ state.finished

\* However many launchers start at once, one of them has a worker.
OneWorker == Cardinality({l \in Launcher : worker[l].step # "none"}) <= 1

\* A soak is recorded as passed only when its own worker has run as long as it
\* was asked to, and left a report that passes: not
\* that of another run, and not one that is being written.
PassedIsReal ==
    state.status = "passed" =>
        /\ worker[state.run].step = "gone"
        /\ worker[state.run].passed
        /\ now >= worker[state.run].since + Duration

\* A query that read the reservation of a launcher that did not register its
\* worker in time, and will say so.
Outdated == \E p \in Process : LeaseRanOut(query[p])

\* Another run has written into the output.
Replaced == {report.run, transcript} # {state.run}

\* An outcome that is recorded stays, whichever query or launcher writes the
\* state later: unless the worker was registered when its lease had run out; and
\* a success is lost when another run replaces the report or the transcript.
OutcomeStays ==
    [][Terminal /\ state.reason # "launch_registration_timeout" /\ ~Outdated =>
         \/ state'.status = state.status
         \/ state.status = "passed" /\ Replaced]_vars

\* No reservation stays open: whatever became of its launcher and its worker,
\* an operator that goes on asking gets an outcome.
ReservationEnds == Reserved ~> Terminal
=============================================================================
