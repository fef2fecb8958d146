-------------------------- MODULE OperationsProofs --------------------------
(***************************************************************************)
(* Proofs about the commands of MCOperations, each of its own              *)
(* specification and for every value of its constants: what a status query *)
(* of a soak records, what a verified preparation of the contracts was     *)
(* built from, what a stopped exposure leaves, and what the report of an   *)
(* acceptance says.                                                        *)
(***************************************************************************)
EXTENDS MCOperations, TLAPS

USE OperationsAssumption

-----------------------------------------------------------------------------
(* The soak in the background                                              *)

SoakRecord ==
    [status : {"none", "starting", "running", "passed", "failed"},
     pid : Launcher \cup {nobody}, run : Launcher \cup {nobody},
     lease : Nat, planned : Nat,
     reason : {"none", "launch_error", "launch_failed", "soak_report_failed",
               "launch_registration_timeout", "process_exited_without_report"},
     finished : BOOLEAN]

SoakTypes ==
    /\ state \in SoakRecord
    /\ query \in [Soak!Process -> SoakRecord]
    /\ soakReport \in [is : {"absent", "torn", "whole"},
                       run : Soak!Worker \cup {nobody}, passed : BOOLEAN]
    /\ transcript \in Soak!Worker \cup {nobody}
    /\ launcher \in [Launcher -> {"idle", "reserve", "reserved", "spawned", "asking",
                                  "ended"}]
    /\ worker \in [Soak!Worker -> [step : {"none", "running", "writing", "gone"},
                                   since : Nat, passed : BOOLEAN]]
    /\ now \in Nat

\* The worker w is gone, all its checks held, and it ran as long as it was asked.
Real(w) ==
    /\ w \in Soak!Worker
    /\ worker[w].step = "gone"
    /\ worker[w].passed
    /\ now >= worker[w].since + Duration

\* A launcher starts its worker once, and a worker reports once: a report that
\* passes is the last thing a real run leaves.
SoakWorkers ==
    /\ \A l \in Launcher :
         /\ launcher[l] \in {"idle", "reserve", "reserved"} => worker[l].step = "none"
         /\ launcher[l] = "spawned" => worker[l].step # "none"
    /\ \A w \in Soak!Worker :
         /\ worker[w].step = "writing" /\ worker[w].passed
              => now >= worker[w].since + Duration
         /\ soakReport.run = w => worker[w].step \in {"writing", "gone"}
    /\ soakReport.passed => soakReport.is = "whole" /\ Real(soakReport.run)
    /\ soakReport.is = "absent" <=> soakReport.run = nobody

\* A launcher has reserved, and no worker is registered.
Waiting(s) ==
    /\ s.pid = nobody
    /\ \/ s.status = "starting" /\ s.reason = "none" /\ ~s.finished
       \/ s.status = "failed" /\ s.reason = "launch_registration_timeout" /\ s.finished

\* The worker could not be started, and will not be.
NeverSpawned(s) ==
    /\ s.pid = nobody
    /\ s.status = "failed"
    /\ \/ s.reason = "launch_error" /\ ~s.finished
       \/ s.reason \in {"launch_failed", "soak_report_failed"} /\ s.finished
    /\ worker[s.run].step = "none"
    /\ launcher[s.run] = "ended"

\* The worker is registered: its status is what a query found.
Registered(s) ==
    /\ s.pid = s.run
    /\ s.status \in {"running", "passed", "failed"}
    /\ s.reason # "launch_registration_timeout"
    /\ s.finished <=> s.status # "running"
    /\ worker[s.run].step # "none"
    /\ launcher[s.run] \in {"asking", "ended"}
    /\ s.finished => worker[s.run].step = "gone"

\* No query will find that the run of s passed: its worker is over, and what it
\* left has been replaced.
NeverPasses(s) ==
    ~(soakReport.passed /\ soakReport.run = s.run /\ transcript = s.run)

SoakRecordHolds(s) ==
    /\ s.run \in Launcher
    /\ s.run = state.run /\ s.planned = state.planned /\ s.lease = state.lease
    /\ Waiting(s) \/ NeverSpawned(s) \/ Registered(s)
    /\ launcher[s.run] \in {"reserved", "spawned"} => Waiting(s)
    /\ launcher[s.run] \notin {"idle", "reserve"}
    /\ s.status = "failed" /\ Registered(s) => NeverPasses(s)
    /\ s.status = "passed" => /\ Real(s.run)
                              /\ soakReport.run = s.run => soakReport.passed
    /\ worker[s.run].step = "none" => s.planned <= now + Duration
    /\ worker[s.run].step # "none" => s.planned <= worker[s.run].since + Duration

\* One launcher has reserved, and all records are of its run: no query finds an
\* outcome that another one would contradict.
SoakRecords ==
    /\ state.status = "none" => state = Soak!NoState
    /\ state.status # "none" => SoakRecordHolds(state)
    /\ \A p \in Soak!Process :
         query[p] # Soak!NoState => state.status # "none" /\ SoakRecordHolds(query[p])
    /\ \A l \in Launcher :
         /\ launcher[l] \in {"reserved", "spawned"} => state.status # "none" /\ state.run = l
         /\ query[l] # Soak!NoState => launcher[l] = "asking"
    /\ \A w \in Soak!Worker :
         transcript = w => worker[w].step \in {"writing", "gone"}

\* The inductive invariant of the soak.
SoakInv == SoakTypes /\ SoakWorkers /\ SoakRecords

\* A step keeps the types of the soak.
LEMMA SoakTyped ==
  ASSUME SoakTypes, Soak!Next
  PROVE  SoakTypes'
<1> USE DEF SoakTypes, Soak!Worker, Soak!Process
<1>n. Soak!NoState \in SoakRecord
  BY DEF Soak!NoState, SoakRecord
<1>1. ASSUME NEW l \in Launcher, Soak!CheckOutput(l) PROVE SoakTypes'
  BY <1>1 DEF Soak!CheckOutput
<1>2. ASSUME NEW l \in Launcher, Soak!Reserve(l) PROVE SoakTypes'
  <2>1. now + Lease \in Nat /\ now + Duration \in Nat
    OBVIOUS
  <2>2. state' \in {state, [status |-> "starting", pid |-> nobody, run |-> l,
                            lease |-> now + Lease, planned |-> now + Duration,
                            reason |-> "none", finished |-> FALSE]}
    BY <1>2 DEF Soak!Reserve, Soak!NoState
  <2>3. state' \in SoakRecord
    <3>1. \A a, b \in Nat :
             [status |-> "starting", pid |-> nobody, run |-> l, lease |-> a, planned |-> b,
              reason |-> "none", finished |-> FALSE] \in SoakRecord
      BY DEF SoakRecord
    <3>2. state \in SoakRecord
      OBVIOUS
    <3> QED
      BY <2>1, <2>2, <3>1, <3>2
  <2>4. launcher' \in [Launcher -> {"idle", "reserve", "reserved", "spawned", "asking",
                                    "ended"}]
    BY <1>2 DEF Soak!Reserve
  <2>5. UNCHANGED <<soakReport, transcript, query, worker, now>>
    BY <1>2 DEF Soak!Reserve
  <2> QED
    BY <2>3, <2>4, <2>5
<1>3. ASSUME NEW l \in Launcher, Soak!Spawn(l) PROVE SoakTypes'
  BY <1>3 DEF Soak!Spawn
<1>4. ASSUME NEW l \in Launcher PROVE Soak!ReservedBy(l, state) \in SoakRecord
  BY DEF Soak!ReservedBy, Soak!NoState, SoakRecord
<1>5. ASSUME NEW l \in Launcher, Soak!SpawnFails(l) PROVE SoakTypes'
  <2>1. state' \in SoakRecord
    BY <1>4, <1>5 DEF Soak!SpawnFails, SoakRecord
  <2> QED
    BY <1>5, <2>1 DEF Soak!SpawnFails
<1>6. ASSUME NEW l \in Launcher, Soak!Register(l) PROVE SoakTypes'
  <2>1. state' \in SoakRecord
    BY <1>4, <1>6 DEF Soak!Register, SoakRecord
  <2> QED
    BY <1>6, <2>1 DEF Soak!Register
<1>7. ASSUME NEW l \in Launcher, Soak!RegisterFails(l) PROVE SoakTypes'
  BY <1>7 DEF Soak!RegisterFails
<1>8. ASSUME NEW l \in Launcher, Soak!KillLauncher(l) PROVE SoakTypes'
  BY <1>n, <1>8 DEF Soak!KillLauncher
<1>9. ASSUME NEW p \in Soak!Process, Soak!Ask(p) PROVE SoakTypes'
  BY <1>9 DEF Soak!Ask
<1>10. ASSUME NEW p \in Soak!Process, Soak!Answer(p) PROVE SoakTypes'
  <2>1. query[p] \in SoakRecord
    OBVIOUS
  <2>2. Soak!Verdict(query[p])[1] \in {"starting", "running", "passed", "failed"}
        /\ Soak!Verdict(query[p])[2] \in {"none", query[p].reason, "launch_failed",
              "soak_report_failed", "launch_registration_timeout",
              "process_exited_without_report"}
    BY <2>1 DEF Soak!Verdict
  <2>3. state' \in SoakRecord
    BY ZenonT(40), <1>10, <2>1, <2>2 DEF Soak!Answer, SoakRecord
  <2> QED
    BY <1>10, <1>n, <2>3 DEF Soak!Answer
<1>11. ASSUME NEW w \in Soak!Worker, Soak!EndRun(w) PROVE SoakTypes'
  BY <1>11 DEF Soak!EndRun
<1>12. ASSUME NEW w \in Soak!Worker, Soak!WriteReport(w) PROVE SoakTypes'
  BY <1>12 DEF Soak!WriteReport
<1>13. ASSUME NEW w \in Soak!Worker, Soak!KillWorker(w) PROVE SoakTypes'
  BY <1>13 DEF Soak!KillWorker
<1>14. CASE Soak!Tick
  BY <1>14 DEF Soak!Tick
<1> QED
  BY <1>1, <1>2, <1>3, <1>5, <1>6, <1>7, <1>8, <1>9, <1>10, <1>11, <1>12, <1>13,
     <1>14 DEF Soak!Next, Soak!WorkerStep

\* A step keeps what is known of the workers and their reports.
LEMMA SoakWorkersStay ==
  ASSUME SoakTypes, SoakWorkers, Soak!Next
  PROVE  SoakWorkers'
<1> USE DEF SoakTypes, SoakWorkers, Soak!Worker, Soak!Process, Real
<1>1. ASSUME NEW l \in Launcher,
             \/ Soak!CheckOutput(l) \/ Soak!Reserve(l) \/ Soak!KillLauncher(l)
             \/ Soak!SpawnFails(l) \/ Soak!Register(l)
      PROVE  SoakWorkers'
  <2>1. UNCHANGED <<soakReport, worker, now>>
    BY <1>1 DEF Soak!CheckOutput, Soak!Reserve, Soak!KillLauncher, Soak!SpawnFails,
                Soak!Register
  <2>2. /\ launcher' = [launcher EXCEPT ![l] = launcher'[l]]
        /\ launcher'[l] \in {"idle", "reserve", "reserved"}
             => launcher[l] \in {"idle", "reserve", "reserved"}
        /\ launcher'[l] # "spawned"
    BY <1>1 DEF Soak!CheckOutput, Soak!Reserve, Soak!KillLauncher, Soak!SpawnFails,
                Soak!Register, Soak!Launching
  <2> QED
    BY <2>1, <2>2
<1>2. ASSUME NEW l \in Launcher, Soak!Spawn(l) PROVE SoakWorkers'
  BY <1>2 DEF Soak!Spawn, Soak!Launching
<1>3. ASSUME NEW l \in Launcher, Soak!RegisterFails(l) PROVE SoakWorkers'
  BY SMTT(30), <1>3 DEF Soak!RegisterFails, Soak!Launching
<1>4. ASSUME NEW p \in Soak!Process, Soak!Ask(p) \/ Soak!Answer(p) PROVE SoakWorkers'
  <2>1. UNCHANGED <<soakReport, worker, now>>
    BY <1>4 DEF Soak!Ask, Soak!Answer
  <2>2. \A l \in Launcher : launcher'[l] \in {launcher[l], "ended"}
    BY <1>4 DEF Soak!Ask, Soak!Answer
  <2> QED
    BY <2>1, <2>2
<1>5. ASSUME NEW w \in Soak!Worker, Soak!EndRun(w) PROVE SoakWorkers'
  BY <1>5 DEF Soak!EndRun
<1>6. ASSUME NEW w \in Soak!Worker, Soak!WriteReport(w) PROVE SoakWorkers'
  BY <1>6 DEF Soak!WriteReport
<1>7. ASSUME NEW w \in Soak!Worker, Soak!KillWorker(w) PROVE SoakWorkers'
  BY <1>7 DEF Soak!KillWorker, Soak!Running
<1>8. CASE Soak!Tick
  BY <1>8 DEF Soak!Tick
<1> QED
  BY <1>1, <1>2, <1>3, <1>4, <1>5, <1>6, <1>7, <1>8 DEF Soak!Next, Soak!WorkerStep

\* Records stay true while the reservation stays what it is, and the launchers,
\* workers and reports change as a run does.
LEMMA SoakRecordStays ==
  ASSUME SoakTypes, SoakTypes', NEW s \in SoakRecord, SoakRecordHolds(s),
         state'.run = state.run, state'.planned = state.planned,
         state'.lease = state.lease, now' >= now,
         \/ UNCHANGED launcher[s.run]
         \/ Waiting(s)
         \/ launcher[s.run] = "asking" /\ launcher'[s.run] = "ended",
         launcher'[s.run] \notin {"idle", "reserve"},
         worker'[s.run].step = "none" <=> worker[s.run].step = "none",
         worker'[s.run].since = worker[s.run].since,
         worker[s.run].step = "gone"
           => /\ worker'[s.run] = worker[s.run]
              /\ soakReport'.run = s.run
                   => soakReport'.run = soakReport.run
                      /\ soakReport'.passed = soakReport.passed
              /\ transcript' = s.run => transcript = s.run
  PROVE  SoakRecordHolds(s)'
<1> USE DEF SoakTypes, SoakRecord, Soak!Worker
<1>1. s.run \in Launcher /\ s.run \in Soak!Worker
  BY DEF SoakRecordHolds
<1>2. Real(s.run) => Real(s.run)'
  BY <1>1 DEF Real
<1>3. Waiting(s) <=> Waiting(s)'
  BY DEF Waiting
<1>4. NeverSpawned(s) => NeverSpawned(s)'
  BY <1>1 DEF NeverSpawned, Waiting
<1>5. Registered(s) => Registered(s)'
  BY <1>1 DEF Registered, Waiting
<1>6. Registered(s)' /\ ~Waiting(s) => Registered(s)
  BY <1>1 DEF SoakRecordHolds, NeverSpawned, Registered
<1>7. s.status = "failed" /\ Registered(s)' => NeverPasses(s)'
  <2>1. Registered(s)' => ~Waiting(s)
    BY <1>1 DEF Registered, Waiting
  <2>2. s.status = "failed" /\ Registered(s)' => worker[s.run].step = "gone" /\ NeverPasses(s)
    BY <1>6, <2>1 DEF SoakRecordHolds, Registered
  <2> QED
    BY <2>2 DEF NeverPasses
<1>8. s.status = "passed" => /\ Real(s.run)'
                             /\ soakReport'.run = s.run => soakReport'.passed
  BY <1>2 DEF SoakRecordHolds, Real
<1>9. launcher'[s.run] \in {"reserved", "spawned"} => Waiting(s)'
  BY <1>3 DEF SoakRecordHolds
<1> QED
  BY <1>1, <1>3, <1>4, <1>5, <1>7, <1>8, <1>9 DEF SoakRecordHolds

\* What a query finds, case by case.
LEMMA SoakVerdicts ==
  ASSUME NEW r
  PROVE  LET Is(status, reason) == Soak!Verdict(r)[1] = status /\ Soak!Verdict(r)[2] = reason
             Past == ~Soak!Settled(r) /\ ~Soak!Unregistered(r) /\ ~Soak!LeaseRanOut(r)
                     /\ ~Soak!Alive(r)
         IN  /\ Soak!Settled(r) => Is("failed", r.reason)
             /\ ~Soak!Settled(r) /\ Soak!LeaseRanOut(r)
                  => Is("failed", "launch_registration_timeout")
             /\ ~Soak!Settled(r) /\ ~Soak!LeaseRanOut(r) /\ Soak!Unregistered(r)
                  => Is("starting", "none")
             /\ ~Soak!Settled(r) /\ ~Soak!Unregistered(r) /\ ~Soak!LeaseRanOut(r)
                /\ Soak!Alive(r) => Is("running", "none")
             /\ Past /\ soakReport.is = "whole" /\ Soak!ReportPasses(r)
                  => Is("passed", "none")
             /\ Past /\ ~(soakReport.is = "whole" /\ Soak!ReportPasses(r))
                  => \/ Is("failed", "soak_report_failed")
                     \/ Is("failed", "launch_failed") /\ r.reason = "launch_error"
                     \/ /\ Is("failed", "process_exited_without_report")
                        /\ r.reason # "launch_error"
BY DEF Soak!Verdict

\* The record that a query writes of a run that it finds over: the worker is gone
\* or was never there, and what it left is as the record says.
LEMMA SoakAnswered ==
  ASSUME SoakTypes, SoakWorkers, SoakRecords, NEW p \in Soak!Process,
         Soak!Answer(p), NEW r \in SoakRecord, r = query[p], state' # state
  PROVE  /\ state'.run = r.run /\ state'.planned = r.planned /\ state'.lease = r.lease
         /\ state'.finished
         /\ \/ Soak!LeaseRanOut(r) /\ Waiting(state') /\ state'.status = "failed"
            \/ /\ NeverSpawned(r)
               /\ state'.pid = nobody /\ state'.status = "failed"
               /\ state'.reason \in {"launch_failed", "soak_report_failed"}
            \/ /\ Registered(r)
               /\ worker[r.run].step = "gone"
               /\ state'.pid = r.pid /\ state'.status \in {"passed", "failed"}
               /\ state'.reason # "launch_registration_timeout"
               /\ state'.status = "failed" => NeverPasses(r)
               /\ state'.status = "passed"
                    => soakReport.passed /\ soakReport.run = r.run /\ transcript = r.run
<1> USE DEF SoakTypes, SoakRecord, Soak!Worker
<1> DEFINE verdict == Soak!Verdict(r)
<1>1. /\ state' = [r EXCEPT !.status = verdict[1], !.reason = verdict[2], !.finished = TRUE]
      /\ verdict[1] \in {"passed", "failed"}
      /\ ~(r.status = verdict[1] /\ r.finished)
  BY DEF Soak!Answer
<1>2. /\ SoakRecordHolds(r)
      /\ r.run \in Launcher
  BY DEF SoakRecords, Soak!Answer, Soak!Asking, SoakRecordHolds
<1>3. /\ state'.run = r.run /\ state'.planned = r.planned /\ state'.lease = r.lease
      /\ state'.finished /\ state'.pid = r.pid
      /\ state'.status = verdict[1] /\ state'.reason = verdict[2]
  <2> HIDE DEF verdict
  <2> QED
    BY <1>1
<1>4. CASE Waiting(r)
  <2>1. Soak!LeaseRanOut(r) /\ ~Soak!Settled(r)
    BY <1>1, <1>4 DEF Waiting, Soak!Verdict, Soak!Settled, Soak!Unregistered
  <2>2. verdict = <<"failed", "launch_registration_timeout">>
    BY <2>1 DEF Soak!Verdict
  <2> QED
    BY <1>3, <1>4, <2>1, <2>2 DEF Waiting
<1>5. CASE NeverSpawned(r)
  <2>1. soakReport.run # r.run
    BY <1>2, <1>5 DEF NeverSpawned, SoakWorkers
  <2>2. /\ ~Soak!Unregistered(r) /\ ~Soak!LeaseRanOut(r) /\ ~Soak!Alive(r)
        /\ ~Soak!ReportPasses(r)
    BY <1>5, <2>1 DEF NeverSpawned, Soak!Unregistered, Soak!LeaseRanOut, Soak!Alive,
                      Soak!ReportPasses
  <2>3. r.reason = "launch_error" /\ ~r.finished
    BY <1>1, <1>5, <2>2 DEF NeverSpawned, Soak!Verdict, Soak!Settled
  <2>4. verdict \in {<<"failed", "soak_report_failed">>, <<"failed", "launch_failed">>}
    BY <2>2, <2>3 DEF Soak!Verdict, Soak!Settled
  <2> QED
    BY <1>3, <1>5, <2>4 DEF NeverSpawned
<1>6. CASE Registered(r)
  <2>1. /\ ~Soak!Unregistered(r) /\ ~Soak!LeaseRanOut(r)
        /\ ~(Soak!Settled(r) /\ verdict = <<"failed", r.reason>>)
    BY <1>1, <1>2, <1>6 DEF Registered, Soak!Unregistered, Soak!LeaseRanOut, Soak!Settled
  <2>2. ~Soak!Settled(r)
    BY <2>1 DEF Soak!Verdict
  <2>3. ~Soak!Alive(r)
    BY <1>1, <2>1, <2>2 DEF Soak!Verdict
  <2>4. worker[r.run].step = "gone"
    BY <1>2, <1>6, <2>3 DEF Registered, Soak!Alive, Soak!Running
  <2>5. CASE soakReport.is = "whole" /\ Soak!ReportPasses(r)
    <3>1. verdict = <<"passed", "none">>
      BY <2>1, <2>2, <2>3, <2>5 DEF Soak!Verdict
    <3> QED
      BY <1>3, <1>6, <2>4, <2>5, <3>1 DEF Soak!ReportPasses, Soak!TranscriptVerifies
  <2>6. CASE ~(soakReport.is = "whole" /\ Soak!ReportPasses(r))
    <3>1. verdict[1] = "failed" /\ verdict[2] # "launch_registration_timeout"
      BY <2>1, <2>2, <2>3, <2>6 DEF Soak!Verdict
    <3>2. NeverPasses(r)
      <4> SUFFICES ASSUME soakReport.passed, soakReport.run = r.run, transcript = r.run
                   PROVE  FALSE
        BY DEF NeverPasses
      <4>1. soakReport.is = "whole" /\ now >= worker[r.run].since + Duration
        BY DEF SoakWorkers, Real
      <4>2. now >= r.planned
        BY <1>2, <2>4, <4>1 DEF SoakRecordHolds
      <4> QED
        BY <2>6, <4>1, <4>2 DEF Soak!ReportPasses, Soak!TranscriptVerifies
    <3> QED
      BY <1>3, <1>6, <2>4, <3>1, <3>2
  <2> QED
    BY <2>5, <2>6
<1> QED
  BY <1>2, <1>4, <1>5, <1>6 DEF SoakRecordHolds

\* The same for the steps of launchers and queries.
LEMMA SoakKeeps ==
  ASSUME SoakTypes, SoakTypes',
         state'.run = state.run, state'.planned = state.planned,
         state'.lease = state.lease, now' >= now,
         UNCHANGED <<soakReport, transcript, worker>>,
         \A l \in Launcher :
            \/ launcher'[l] = launcher[l]
            \/ launcher[l] \in {"idle", "reserve"}
            \/ launcher[l] \in {"reserved", "spawned"} /\ launcher'[l] \notin {"idle", "reserve"}
            \/ launcher[l] = "asking" /\ launcher'[l] = "ended"
  PROVE  \A s \in SoakRecord : SoakRecordHolds(s) => SoakRecordHolds(s)'
<1> SUFFICES ASSUME NEW s \in SoakRecord, SoakRecordHolds(s) PROVE SoakRecordHolds(s)'
  OBVIOUS
<1>1. /\ s.run \in Launcher /\ launcher[s.run] \notin {"idle", "reserve"}
      /\ launcher[s.run] \in {"reserved", "spawned"} => Waiting(s)
  BY DEF SoakRecordHolds
<1>2. /\ \/ UNCHANGED launcher[s.run]
         \/ Waiting(s)
         \/ launcher[s.run] = "asking" /\ launcher'[s.run] = "ended"
      /\ launcher'[s.run] \notin {"idle", "reserve"}
  BY <1>1
<1> QED
  BY <1>2, SoakRecordStays

\* The same for the steps of a worker.
LEMMA SoakWorkerKeeps ==
  ASSUME SoakTypes, SoakTypes', NEW w \in Soak!Worker,
         UNCHANGED <<state, launcher, now>>,
         worker[w].step \in {"running", "writing"},
         worker' = [worker EXCEPT ![w] = worker'[w]],
         worker'[w].step # "none", worker'[w].since = worker[w].since,
         soakReport'.run = w \/ soakReport' = soakReport,
         transcript' \in {w, transcript}
  PROVE  \A s \in SoakRecord : SoakRecordHolds(s) => SoakRecordHolds(s)'
<1> SUFFICES ASSUME NEW s \in SoakRecord, SoakRecordHolds(s) PROVE SoakRecordHolds(s)'
  OBVIOUS
<1>1. /\ s.run \in Launcher /\ launcher[s.run] \notin {"idle", "reserve"}
      /\ s.run \in Soak!Worker
  BY DEF SoakRecordHolds, Soak!Worker
<1>2. now \in Nat
  BY DEF SoakTypes
<1>3. worker \in [Soak!Worker -> [step : {"none", "running", "writing", "gone"},
                                   since : Nat, passed : BOOLEAN]]
  BY DEF SoakTypes
<1>4. /\ worker'[s.run].step = "none" <=> worker[s.run].step = "none"
      /\ worker'[s.run].since = worker[s.run].since
      /\ worker[s.run].step = "gone" => s.run # w /\ worker'[s.run] = worker[s.run]
  BY <1>1, <1>3
<1> QED
  BY <1>1, <1>2, <1>4, SoakRecordStays

\* A step keeps the records true.
LEMMA SoakRecordsStay ==
  ASSUME SoakTypes, SoakTypes', SoakWorkers, SoakWorkers', SoakRecords, Soak!Next
  PROVE  SoakRecords'
<1> USE DEF Soak!Worker, Soak!Process
<1> DEFINE Keeps == \A s \in SoakRecord : SoakRecordHolds(s) => SoakRecordHolds(s)'
           Known(s) == s \in SoakRecord /\ SoakRecordHolds(s)
<1>k. /\ state.status # "none" => Known(state)
      /\ \A p \in Soak!Process : query[p] # Soak!NoState => Known(query[p])
  BY DEF SoakRecords, SoakTypes
<1>l. launcher \in [Launcher -> {"idle", "reserve", "reserved", "spawned", "asking", "ended"}]
  BY DEF SoakTypes
<1>q. state \in SoakRecord /\ query \in [Soak!Process -> SoakRecord]
  BY DEF SoakTypes
<1>w. worker \in [Soak!Worker -> [step : {"none", "running", "writing", "gone"},
                                   since : Nat, passed : BOOLEAN]]
  BY DEF SoakTypes
<1>n. now \in Nat
  BY DEF SoakTypes
<1>1. ASSUME NEW l \in Launcher, Soak!CheckOutput(l) PROVE SoakRecords'
  <2>1. /\ launcher[l] = "idle"
        /\ launcher' = [launcher EXCEPT ![l] = launcher'[l]]
        /\ launcher'[l] \in {"asking", "ended", "reserve"}
        /\ UNCHANGED <<state, soakReport, transcript, query, worker, now>>
    BY <1>1, <1>l DEF Soak!CheckOutput, Soak!Launching
  <2>2. Keeps
    BY <1>l, <1>n, <2>1, SoakKeeps
  <2> QED
    BY <1>k, <1>l, <1>q, <2>1, <2>2 DEF SoakRecords
<1>2. ASSUME NEW l \in Launcher, Soak!Reserve(l), ~Soak!Linkable PROVE SoakRecords'
  <2>1. /\ launcher[l] = "reserve"
        /\ launcher' = [launcher EXCEPT ![l] = "asking"]
        /\ UNCHANGED <<state, soakReport, transcript, query, worker, now>>
    BY <1>2 DEF Soak!Reserve, Soak!Launching
  <2>2. Keeps
    BY <1>l, <1>n, <2>1, SoakKeeps
  <2> QED
    BY <1>k, <1>l, <1>q, <2>1, <2>2 DEF SoakRecords
<1>3. ASSUME NEW l \in Launcher, Soak!Reserve(l), Soak!Linkable PROVE SoakRecords'
  <2>1. /\ launcher[l] = "reserve"
        /\ launcher' = [launcher EXCEPT ![l] = "reserved"]
        /\ UNCHANGED <<soakReport, transcript, query, worker, now>>
        /\ state.status = "none"
    BY <1>3 DEF Soak!Reserve, Soak!Launching, Soak!Linkable
  <2>2. /\ state'.status = "starting" /\ state'.pid = nobody /\ state'.run = l
        /\ state'.reason = "none" /\ ~state'.finished
        /\ state'.planned = now + Duration
    BY <1>3 DEF Soak!Reserve, Soak!NoState
  <2>3. worker[l].step = "none"
    BY <2>1 DEF SoakWorkers
  <2>4. SoakRecordHolds(state)'
    BY <1>l, <1>n, <2>1, <2>2, <2>3 DEF SoakRecordHolds, Waiting, Registered
  <2> QED
    BY <2>1, <2>2, <2>4 DEF SoakRecords
<1>4. ASSUME NEW l \in Launcher, Soak!Spawn(l) PROVE SoakRecords'
  <2>1. /\ launcher[l] = "reserved"
        /\ launcher' = [launcher EXCEPT ![l] = "spawned"]
        /\ worker[l].step = "none"
        /\ worker' = [worker EXCEPT ![l].step = "running", ![l].since = now]
        /\ UNCHANGED <<state, soakReport, transcript, query, now>>
    BY <1>4 DEF Soak!Spawn, Soak!Launching, SoakWorkers
  <2>2. ASSUME NEW s \in SoakRecord, SoakRecordHolds(s) PROVE SoakRecordHolds(s)'
    <3>1. CASE s.run = l
      <4>1. Waiting(s) /\ s.planned <= now + Duration
        BY <2>1, <2>2, <3>1 DEF SoakRecordHolds
      <4> QED
        BY <1>l, <1>w, <1>n, <2>1, <2>2, <3>1, <4>1 DEF SoakRecordHolds, Waiting, Registered
    <3>2. CASE s.run # l
      <4>1. s.run \in Launcher /\ launcher[s.run] \notin {"idle", "reserve"}
        BY <2>2 DEF SoakRecordHolds
      <4> QED
        BY <1>l, <1>w, <1>n, <2>1, <2>2, <3>2, <4>1, SoakRecordStays
    <3> QED
      BY <3>1, <3>2
  <2> QED
    BY <1>k, <1>l, <1>q, <1>w, <2>1, <2>2 DEF SoakRecords
<1>5. ASSUME NEW l \in Launcher, Soak!SpawnFails(l) PROVE SoakRecords'
  <2>1. /\ launcher[l] = "reserved"
        /\ launcher' = [launcher EXCEPT ![l] = "ended"]
        /\ worker[l].step = "none"
        /\ state.status # "none" /\ state.run = l
        /\ UNCHANGED <<soakReport, transcript, query, worker, now>>
    BY <1>5 DEF Soak!SpawnFails, Soak!Launching, SoakWorkers, SoakRecords
  <2>2. /\ state'.status = "failed" /\ state'.pid = nobody /\ state'.run = l
        /\ state'.reason = "launch_error" /\ ~state'.finished
        /\ state'.planned = state.planned /\ state'.lease = state.lease
    BY <1>5 DEF Soak!SpawnFails, Soak!ReservedBy, Soak!NoState
  <2>3. Keeps
    BY <1>l, <1>n, <2>1, <2>2, SoakKeeps
  <2>4. SoakRecordHolds(state)'
    BY <1>k, <1>l, <1>q, <2>1, <2>2 DEF SoakRecordHolds, NeverSpawned, Registered
  <2> QED
    BY <1>k, <1>l, <1>q, <2>1, <2>2, <2>3, <2>4 DEF SoakRecords
<1>6. ASSUME NEW l \in Launcher, Soak!Register(l) PROVE SoakRecords'
  <2>1. /\ launcher[l] = "spawned"
        /\ launcher' = [launcher EXCEPT ![l] = "asking"]
        /\ worker[l].step # "none"
        /\ state.status # "none" /\ state.run = l
        /\ UNCHANGED <<soakReport, transcript, query, worker, now>>
    BY <1>6 DEF Soak!Register, Soak!Launching, SoakWorkers, SoakRecords
  <2>2. /\ state'.status = "running" /\ state'.pid = l /\ state'.run = l
        /\ state'.reason = "none" /\ ~state'.finished
        /\ state'.planned = state.planned /\ state'.lease = state.lease
    BY <1>6 DEF Soak!Register, Soak!ReservedBy, Soak!NoState
  <2>3. Keeps
    BY <1>l, <1>n, <2>1, <2>2, SoakKeeps
  <2>4. SoakRecordHolds(state)'
    BY <1>k, <1>l, <1>q, <2>1, <2>2 DEF SoakRecordHolds, Registered
  <2> QED
    BY <1>k, <1>l, <1>q, <2>1, <2>2, <2>3, <2>4 DEF SoakRecords
<1>7. ASSUME NEW l \in Launcher, Soak!RegisterFails(l) PROVE SoakRecords'
  <2>1. /\ launcher[l] = "spawned" /\ worker[l].step # "none"
        /\ launcher' = [launcher EXCEPT ![l] = "ended"]
        /\ worker' = [worker EXCEPT ![l].step = "gone"] \/ worker' = worker
        /\ UNCHANGED <<state, soakReport, transcript, query, now>>
    BY <1>7 DEF Soak!RegisterFails, Soak!Launching, SoakWorkers
  <2>2. Keeps
    <3> SUFFICES ASSUME NEW s \in SoakRecord, SoakRecordHolds(s) PROVE SoakRecordHolds(s)'
      OBVIOUS
    <3>1. /\ s.run \in Launcher /\ launcher[s.run] \notin {"idle", "reserve"}
          /\ s.run = l => Waiting(s)
      BY <2>1 DEF SoakRecordHolds
    <3>2. /\ worker'[s.run].step = "none" <=> worker[s.run].step = "none"
          /\ worker'[s.run].since = worker[s.run].since
          /\ worker[s.run].step = "gone" => worker'[s.run] = worker[s.run]
      BY <1>w, <2>1, <3>1
    <3>3. /\ UNCHANGED launcher[s.run] \/ Waiting(s)
          /\ launcher'[s.run] \notin {"idle", "reserve"}
      BY <1>l, <2>1, <3>1
    <3> QED
      BY <1>n, <2>1, <3>2, <3>3, SoakRecordStays
  <2> QED
    BY <1>k, <1>l, <1>q, <1>w, <2>1, <2>2 DEF SoakRecords
<1>8. ASSUME NEW l \in Launcher, Soak!KillLauncher(l) PROVE SoakRecords'
  <2>1. /\ launcher[l] \notin {"idle", "ended"}
        /\ launcher' = [launcher EXCEPT ![l] = "ended"]
        /\ query' = [query EXCEPT ![l] = Soak!NoState]
        /\ UNCHANGED <<state, soakReport, transcript, worker, now>>
    BY <1>8 DEF Soak!KillLauncher
  <2>2. Keeps
    BY <1>l, <1>n, <2>1, SoakKeeps
  <2> QED
    BY <1>k, <1>l, <1>q, <2>1, <2>2 DEF SoakRecords
<1>9. ASSUME NEW p \in Soak!Process, Soak!Ask(p) PROVE SoakRecords'
  <2>1. /\ state.status # "none" /\ query' = [query EXCEPT ![p] = state]
        /\ p \in Launcher => launcher[p] = "asking"
        /\ UNCHANGED <<state, soakReport, transcript, launcher, worker, now>>
    BY <1>9 DEF Soak!Ask
  <2>2. Keeps
    BY <1>l, <1>n, <2>1, SoakKeeps
  <2> QED
    BY <1>k, <1>l, <1>q, <2>1, <2>2 DEF SoakRecords
<1>10. ASSUME NEW p \in Soak!Process, Soak!Answer(p) PROVE SoakRecords'
  <2>1. /\ query[p] # Soak!NoState /\ query' = [query EXCEPT ![p] = Soak!NoState]
        /\ launcher' = IF p \in Launcher THEN [launcher EXCEPT ![p] = "ended"] ELSE launcher
        /\ UNCHANGED <<soakReport, transcript, worker, now>>
    BY <1>10 DEF Soak!Answer, Soak!Asking
  <2>2. p \in Launcher => launcher[p] = "asking"
    BY <2>1 DEF SoakRecords
  <2>3. PICK r \in SoakRecord : r = query[p]
    BY <1>q
  <2>4. state.status # "none" /\ SoakRecordHolds(r)
    BY <2>1, <2>3 DEF SoakRecords
  <2>5. CASE state' = state
    <3>1. Keeps
      BY <1>l, <1>n, <2>1, <2>2, <2>5, SoakKeeps
    <3> QED
      BY <1>k, <1>l, <1>q, <2>1, <2>4, <2>5, <3>1 DEF SoakRecords
  <2>6. CASE state' # state
    <3> DEFINE t == state'
    <3>1. /\ t.run = r.run /\ t.planned = r.planned /\ t.lease = r.lease /\ t.finished
          /\ \/ Waiting(t) /\ t.status = "failed" /\ Waiting(r)
             \/ /\ NeverSpawned(r) /\ t.pid = nobody /\ t.status = "failed"
                /\ t.reason \in {"launch_failed", "soak_report_failed"}
             \/ /\ Registered(r) /\ worker[r.run].step = "gone"
                /\ t.pid = r.pid /\ t.status \in {"passed", "failed"}
                /\ t.reason # "launch_registration_timeout"
                /\ t.status = "failed" => NeverPasses(r)
                /\ t.status = "passed" => soakReport.passed /\ soakReport.run = r.run
      <4>1. Soak!LeaseRanOut(r) => Waiting(r)
        BY <2>4 DEF Soak!LeaseRanOut, Soak!Unregistered, SoakRecordHolds, NeverSpawned,
                    Registered
      <4> QED
        BY <1>10, <2>3, <2>6, <4>1, SoakAnswered
    <3>2. /\ r.run \in Launcher /\ r.run = state.run
          /\ r.planned = state.planned /\ r.lease = state.lease
      BY <2>4 DEF SoakRecordHolds
    <3>3. Keeps
      BY <1>l, <1>n, <2>1, <2>2, <3>1, <3>2, SoakKeeps
    <3>4. SoakRecordHolds(r)'
      BY <2>4, <3>3
    <3>5. /\ t \in SoakRecord /\ t.status # "none"
          /\ t.run \in Launcher /\ launcher'[t.run] \notin {"idle", "reserve"}
          /\ worker'[t.run].step = "none" => t.planned <= now' + Duration
          /\ worker'[t.run].step # "none" => t.planned <= worker'[t.run].since + Duration
      BY <3>1, <3>4 DEF SoakTypes, SoakRecordHolds, Waiting
    <3>6. ASSUME Waiting(t), t.status = "failed" PROVE SoakRecordHolds(state)'
      BY <3>5, <3>6 DEF SoakRecordHolds, Waiting, Registered
    <3>7. ASSUME NeverSpawned(r), t.pid = nobody, t.status = "failed",
                 t.reason \in {"launch_failed", "soak_report_failed"}
          PROVE  SoakRecordHolds(state)'
      <4>1. worker'[t.run].step = "none" /\ launcher'[t.run] = "ended"
        BY <1>l, <2>1, <2>2, <3>1, <3>2, <3>7 DEF NeverSpawned
      <4>2. NeverSpawned(state)'
        BY <3>1, <3>7, <4>1 DEF NeverSpawned
      <4> QED
        BY <3>5, <3>7, <4>1, <4>2 DEF SoakRecordHolds, Registered
    <3>8. ASSUME Registered(r), worker[r.run].step = "gone",
                 t.pid = r.pid, t.status \in {"passed", "failed"},
                 t.reason # "launch_registration_timeout",
                 t.status = "failed" => NeverPasses(r),
                 t.status = "passed" => soakReport.passed /\ soakReport.run = r.run
          PROVE  SoakRecordHolds(state)'
      <4>1. /\ worker'[t.run].step = "gone"
            /\ launcher'[t.run] \in {"asking", "ended"}
        BY <1>l, <2>1, <3>1, <3>2, <3>8 DEF Registered
      <4>2. Registered(state)'
        BY <3>1, <3>8, <4>1 DEF Registered
      <4>3. t.status = "failed" => NeverPasses(state)'
        BY <2>1, <3>1, <3>8 DEF NeverPasses
      <4>4. t.status = "passed" => Real(state.run)' /\ soakReport'.passed
        BY <2>1, <3>1, <3>8 DEF SoakWorkers, Real
      <4> QED
        BY <3>5, <4>1, <4>2, <4>3, <4>4 DEF SoakRecordHolds
    <3>9. SoakRecordHolds(state)'
      BY <3>1, <3>6, <3>7, <3>8
    <3> QED
      BY <1>k, <1>l, <1>q, <2>1, <2>2, <3>1, <3>2, <3>3, <3>5, <3>9 DEF SoakRecords
  <2> QED
    BY <2>5, <2>6
<1>11. ASSUME NEW w \in Soak!Worker, Soak!EndRun(w) PROVE SoakRecords'
  <2>1. /\ worker[w].step = "running" /\ worker' = [worker EXCEPT ![w] = worker'[w]]
        /\ worker'[w].step = "writing" /\ worker'[w].since = worker[w].since
        /\ soakReport'.run = w /\ transcript' \in {w, transcript}
        /\ UNCHANGED <<state, launcher, query, now>>
    <3>1. PICK passed \in BOOLEAN :
            /\ worker' = [worker EXCEPT ![w].step = "writing", ![w].passed = passed]
            /\ transcript' \in IF passed THEN {w} ELSE {w, transcript}
      BY <1>11 DEF Soak!EndRun
    <3>2. soakReport'.run = w /\ worker[w].step = "running"
          /\ UNCHANGED <<state, launcher, query, now>>
      BY <1>11 DEF Soak!EndRun
    <3> QED
      BY <1>w, <3>1, <3>2
  <2>2. Keeps
    BY <2>1, SoakWorkerKeeps
  <2> QED
    BY <1>k, <1>l, <1>q, <1>w, <2>1, <2>2 DEF SoakRecords
<1>12. ASSUME NEW w \in Soak!Worker, Soak!WriteReport(w) \/ Soak!KillWorker(w)
       PROVE  SoakRecords'
  <2>1. /\ worker[w].step \in {"running", "writing"}
        /\ worker' = [worker EXCEPT ![w] = worker'[w]]
        /\ worker'[w].step = "gone" /\ worker'[w].since = worker[w].since
        /\ soakReport'.run = w \/ soakReport' = soakReport
        /\ UNCHANGED <<state, launcher, query, now, transcript>>
    BY <1>12, <1>w DEF Soak!WriteReport, Soak!KillWorker, Soak!Running
  <2>2. Keeps
    BY <2>1, SoakWorkerKeeps
  <2> QED
    BY <1>k, <1>l, <1>q, <1>w, <2>1, <2>2 DEF SoakRecords
<1>13. CASE Soak!Tick
  <2>1. /\ now' = now + 1
        /\ UNCHANGED <<state, soakReport, transcript, launcher, query, worker>>
    BY <1>13 DEF Soak!Tick
  <2>2. Keeps
    BY <1>l, <1>n, <2>1, SoakKeeps
  <2> QED
    BY <1>k, <1>l, <1>q, <2>1, <2>2 DEF SoakRecords
<1> QED
  BY <1>1, <1>2, <1>3, <1>4, <1>5, <1>6, <1>7, <1>8, <1>9, <1>10, <1>11, <1>12, <1>13
     DEF Soak!Next, Soak!WorkerStep

\* The inductive invariant of the soak holds.
THEOREM SoakInvariant == Soak!Spec => []SoakInv
<1>1. Soak!Init => SoakInv
  <2> SUFFICES ASSUME Soak!Init PROVE SoakInv
    OBVIOUS
  <2>1. /\ state = Soak!NoState /\ soakReport = Soak!NoReport /\ transcript = nobody
        /\ launcher = [l \in Launcher |-> "idle"]
        /\ query = [p \in Soak!Process |-> Soak!NoState]
        /\ worker = [w \in Soak!Worker |->
                       [step |-> IF w = foreground THEN "running" ELSE "none",
                        since |-> 0, passed |-> FALSE]]
        /\ now = 0
    BY DEF Soak!Init
  <2>2. Soak!NoState \in SoakRecord /\ Soak!NoState.status = "none"
    BY DEF Soak!NoState, SoakRecord
  <2>3. soakReport = [is |-> "absent", run |-> nobody, passed |-> FALSE]
    BY <2>1 DEF Soak!NoReport
  <2>4. SoakTypes
    BY <2>1, <2>2, <2>3 DEF SoakTypes
  <2>5. SoakWorkers
    BY <2>1, <2>3 DEF SoakWorkers, Soak!Worker
  <2>6. SoakRecords
    BY <2>1, <2>2 DEF SoakRecords, Soak!Worker, Soak!Process
  <2> QED
    BY <2>4, <2>5, <2>6 DEF SoakInv
<1>2. SoakInv /\ [Soak!Next]_(Soak!vars) => SoakInv'
  <2> SUFFICES ASSUME SoakInv, [Soak!Next]_(Soak!vars) PROVE SoakInv'
    OBVIOUS
  <2>1. CASE Soak!Next
    BY <2>1, SoakTyped, SoakWorkersStay, SoakRecordsStay DEF SoakInv
  <2>2. CASE UNCHANGED Soak!vars
    BY <2>2 DEF Soak!vars, SoakInv, SoakTypes, SoakWorkers, SoakRecords, SoakRecordHolds,
                Real, Waiting, NeverSpawned, Registered, NeverPasses
  <2> QED
    BY <2>1, <2>2
<1> QED
  BY <1>1, <1>2, PTL DEF Soak!Spec

\* background_soak_status: however launchers, workers and queries interleave, a
\* soak is recorded as passed only when its own worker ran as long as it was asked
\* and all its checks held.
THEOREM SoakPassesAreReal == Soak!Spec => []PassedIsReal
<1>1. SoakInv => PassedIsReal
  BY DEF SoakInv, SoakRecords, SoakRecordHolds, Real, PassedIsReal, Soak!PassedIsReal
<1> QED
  BY <1>1, SoakInvariant, PTL

\* _persist_terminal_state: a query that read the state before an outcome was
\* recorded does not replace it with another, unless its lease ran out, or what
\* the passed run left has been replaced.
THEOREM SoakOutcomesStay == Soak!Spec => OutcomeStays
<1>1. ASSUME SoakInv, SoakInv', [Soak!Next]_(Soak!vars), Soak!Terminal,
             state.reason # "launch_registration_timeout", ~Soak!Outdated
      PROVE  \/ state'.status = state.status
             \/ state.status = "passed" /\ Soak!Replaced
  <2> USE DEF Soak!Process
  <2> SUFFICES ASSUME state' # state
               PROVE  \/ state'.status = state.status
                      \/ state.status = "passed" /\ Soak!Replaced
    OBVIOUS
  <2>1. /\ SoakTypes /\ SoakWorkers /\ SoakRecords
        /\ state \in SoakRecord /\ SoakRecordHolds(state)
        /\ state.status \in {"passed", "failed"} /\ state.finished
    BY <1>1 DEF SoakInv, SoakRecords, SoakTypes, Soak!Terminal
  <2>2. ~Waiting(state) /\ (NeverSpawned(state) \/ Registered(state))
    BY <1>1, <2>1 DEF SoakRecordHolds, Waiting
  <2>3. ASSUME NEW l \in Launcher, Soak!Reserve(l) PROVE FALSE
    BY <2>1, <2>3 DEF Soak!Reserve, Soak!Linkable
  <2>4. ASSUME NEW l \in Launcher, Soak!SpawnFails(l) \/ Soak!Register(l) PROVE FALSE
    <3>1. launcher[l] \in {"reserved", "spawned"}
      BY <2>4 DEF Soak!SpawnFails, Soak!Register, Soak!Launching
    <3> QED
      BY <2>1, <2>2, <3>1 DEF SoakRecords, SoakRecordHolds
  <2>5. ASSUME NEW p \in Soak!Process, Soak!Answer(p)
        PROVE  \/ state'.status = state.status
               \/ state.status = "passed" /\ Soak!Replaced
    <3>1. PICK r \in SoakRecord : r = query[p]
      BY <2>1 DEF SoakTypes
    <3>2. ~Soak!LeaseRanOut(r) /\ SoakRecordHolds(r)
      BY <1>1, <2>1, <2>5, <3>1 DEF Soak!Outdated, SoakRecords, Soak!Answer, Soak!Asking
    <3>3. /\ r.run = state.run
          /\ \/ NeverSpawned(r) /\ state'.status = "failed"
             \/ /\ Registered(r) /\ worker[r.run].step = "gone"
                /\ state'.status \in {"passed", "failed"}
                /\ state'.status = "failed" => NeverPasses(r)
                /\ state'.status = "passed"
                     => soakReport.passed /\ soakReport.run = r.run /\ transcript = r.run
      BY <2>1, <2>5, <3>1, <3>2, SoakAnswered DEF SoakRecordHolds
    <3>4. CASE NeverSpawned(r) /\ state'.status = "failed"
      BY <2>1, <2>2, <3>3, <3>4 DEF NeverSpawned, Registered, SoakRecordHolds, Real
    <3>5. CASE Registered(r) /\ state.status = "failed" /\ state'.status = "passed"
      BY <2>1, <2>2, <3>3, <3>5 DEF NeverSpawned, Registered, SoakRecordHolds, NeverPasses
    <3>6. CASE state.status = "passed" /\ state'.status = "failed" /\ NeverPasses(r)
      <4>1. soakReport.run # state.run \/ transcript # state.run
        BY <2>1, <3>3, <3>6 DEF SoakRecordHolds, NeverPasses
      <4> QED
        BY <3>6, <4>1 DEF Soak!Replaced
    <3> QED
      BY <2>1, <3>3, <3>4, <3>5, <3>6
  <2>6. /\ \A l \in Launcher : ~Soak!CheckOutput(l) /\ ~Soak!Spawn(l)
                             /\ ~Soak!RegisterFails(l) /\ ~Soak!KillLauncher(l)
        /\ \A p \in Soak!Process : ~Soak!Ask(p)
        /\ \A w \in Soak!Worker : ~Soak!EndRun(w) /\ ~Soak!WriteReport(w)
                                /\ ~Soak!KillWorker(w)
        /\ ~Soak!Tick /\ ~UNCHANGED Soak!vars
    BY DEF Soak!CheckOutput, Soak!Spawn, Soak!RegisterFails, Soak!KillLauncher, Soak!Ask,
           Soak!EndRun, Soak!WriteReport, Soak!KillWorker, Soak!Tick, Soak!vars
  <2> QED
    BY <1>1, <2>3, <2>4, <2>5, <2>6 DEF Soak!Next, Soak!WorkerStep
<1>2. SoakInv /\ SoakInv' /\ [Soak!Next]_(Soak!vars)
        => [Soak!Terminal /\ state.reason # "launch_registration_timeout" /\ ~Soak!Outdated
              => \/ state'.status = state.status
                 \/ state.status = "passed" /\ Soak!Replaced]_(Soak!vars)
  BY <1>1
<1> QED
  BY <1>2, SoakInvariant, PTL DEF Soak!Spec, OutcomeStays, Soak!OutcomeStays

-----------------------------------------------------------------------------
(* The preparation of the contracts                                        *)

Tree == Contracts!Tree

Inputs == [source : {0, 1}, lib : [Dep -> Tree]]

Preparing ==
    [step : {"idle", "recover", "dependencies", "checkout", "staging", "moving", "build",
             "building", "cleaning", "attest"},
     refresh : BOOLEAN, todo : SUBSET Dep, dep : Dep \cup {NoDep}, moved : SUBSET Dep,
     read : Inputs, edited : BOOLEAN]

ContractTypes ==
    /\ lib \in [Dep -> Tree]
    /\ backup \in [Dep -> Tree]
    /\ source \in {0, 1}
    /\ built \in Inputs
    /\ attested \in [source : {0, 1}, lib : [Dep -> Tree], built : Inputs]
    /\ preparation \in Preparing
    /\ edited \in BOOLEAN
    /\ edits \in Nat

\* What is there for Forge to read.
Current == [source |-> source, lib |-> lib]

\* Until something is edited, what Forge read and built is what is there; and what
\* was attested then was built from it.
BuildsAreCurrent ==
    /\ Contracts!Step("building") /\ ~preparation.edited => preparation.read = Current
    /\ Contracts!Step("cleaning") \/ Contracts!Step("attest")
         => preparation.edited \/ built = Current
    /\ attested.built # Contracts!Nothing /\ ~edited
         => attested.built = [source |-> attested.source, lib |-> attested.lib]

\* A refresh is of a dependency that has no backup, and Git fills a directory
\* that was empty.
RefreshesAreOwn ==
    /\ preparation.todo \cap preparation.moved = {}
    /\ preparation.step \in {"idle", "recover"} => preparation.moved = {}
    /\ preparation.step \notin {"idle", "recover"} =>
         \A d \in Dep : backup[d] # "absent" =>
            \/ d \in preparation.moved
            \/ Contracts!Step("moving") /\ d = preparation.dep
    /\ preparation.step \in {"checkout", "staging", "moving"} =>
         preparation.dep \in preparation.todo
    /\ Contracts!Step("checkout") => lib[preparation.dep] = "partial"

\* The inductive invariant of the preparation.
ContractInv == ContractTypes /\ BuildsAreCurrent /\ RefreshesAreOwn

\* What a step makes of the record of a preparation.
LEMMA PreparationKept ==
  ASSUME preparation \in Preparing
  PROVE  /\ Contracts!Idle \in Preparing
         /\ \A st \in {"dependencies", "moving", "cleaning", "attest"} :
              [preparation EXCEPT !.step = st] \in Preparing
         /\ \A st \in {"recover", "dependencies"}, td \in SUBSET Dep :
              [preparation EXCEPT !.step = st, !.todo = td] \in Preparing
         /\ \A td \in SUBSET Dep : [preparation EXCEPT !.todo = td] \in Preparing
         /\ \A td, mv \in SUBSET Dep :
              [preparation EXCEPT !.step = "dependencies", !.todo = td, !.moved = mv]
                \in Preparing
         /\ \A e \in BOOLEAN : [preparation EXCEPT !.edited = e] \in Preparing
<1>1. Contracts!Idle \in Preparing
  BY DEF Contracts!Idle, Contracts!Nothing, Inputs, Tree, Contracts!Tree, Preparing
<1> QED
  BY <1>1 DEF Preparing

\* A step of a preparation, of a bundle or of the operator keeps the invariant.
LEMMA ContractStep ==
  ASSUME ContractInv, Contracts!Next
  PROVE  ContractInv'
<1> USE DEF ContractInv, Contracts!Step, Contracts!To, Contracts!Ends, Tree, Contracts!Tree
<1>0. /\ Contracts!Nothing \in Inputs
      /\ \A l \in [Dep -> Tree] : [source |-> source, lib |-> l] \in Inputs
  BY DEF Contracts!Nothing, Inputs, ContractTypes
<1>i. Contracts!Idle = [step |-> "idle", refresh |-> FALSE, todo |-> {}, dep |-> NoDep,
                        moved |-> {}, read |-> Contracts!Nothing, edited |-> FALSE]
  BY DEF Contracts!Idle
<1>p. /\ preparation \in Preparing
      /\ preparation.todo \in SUBSET Dep /\ preparation.moved \in SUBSET Dep
      /\ preparation.dep \in Dep \cup {NoDep}
  BY DEF ContractTypes, Preparing
<1>1. ASSUME NEW refresh \in BOOLEAN, Contracts!Start(refresh) PROVE ContractInv'
  <2>1. ContractTypes'
    <3>1. preparation' \in Preparing
      BY <1>0, <1>1, <1>i DEF Contracts!Start, Contracts!fileVars, ContractTypes, Preparing
    <3>2. lib' \in [Dep -> Tree] /\ backup' \in [Dep -> Tree]
      BY <1>0, <1>1, <1>i DEF Contracts!Start, Contracts!fileVars, ContractTypes, Preparing
    <3> QED
      BY <1>0, <1>1, <1>i, <3>1, <3>2 DEF Contracts!Start, Contracts!fileVars, ContractTypes, Preparing
  <2>2. BuildsAreCurrent'
    BY <1>0, <1>1, <1>i DEF Contracts!Start, Contracts!fileVars, ContractTypes, Preparing, BuildsAreCurrent, Current
  <2>3. RefreshesAreOwn'
    BY <1>0, <1>1, <1>i DEF Contracts!Start, Contracts!fileVars, ContractTypes, Preparing, RefreshesAreOwn
  <2> QED
    BY <2>1, <2>2, <2>3
<1>2. CASE Contracts!Recover
  <2>1. ContractTypes'
    <3>1. preparation' \in Preparing
      BY ZenonT(40), <1>p, <1>2, PreparationKept DEF Contracts!Recover, Contracts!Recovered, Contracts!Blocked
    <3>2. lib' \in [Dep -> Tree] /\ backup' \in [Dep -> Tree]
      BY <1>0, <1>2, <1>i DEF Contracts!Recover, Contracts!Recovered, Contracts!Blocked, ContractTypes, Preparing
    <3> QED
      BY <1>0, <1>2, <1>i, <3>1, <3>2 DEF Contracts!Recover, Contracts!Recovered, Contracts!Blocked, ContractTypes, Preparing
  <2>2. BuildsAreCurrent'
    BY <1>0, <1>2, <1>i DEF Contracts!Recover, Contracts!Recovered, Contracts!Blocked, ContractTypes, Preparing, BuildsAreCurrent, Current
  <2>3. RefreshesAreOwn'
    BY <1>0, <1>2, <1>i DEF Contracts!Recover, Contracts!Recovered, Contracts!Blocked, ContractTypes, Preparing, RefreshesAreOwn
  <2> QED
    BY <2>1, <2>2, <2>3
<1>3. CASE Contracts!Preflight
  <2>1. /\ preparation.step = "recover"
        /\ UNCHANGED <<lib, backup, source, built, attested, edited, edits>>
        /\ \/ /\ \A d \in Dep : backup[d] = "absent"
              /\ preparation' = [preparation EXCEPT !.step = "dependencies", !.todo = Dep]
           \/ preparation' = Contracts!Idle
    BY <1>3 DEF Contracts!Preflight, Contracts!OnlyBackups, Contracts!fileVars
  <2>2. preparation' \in Preparing
    <3>1. CASE preparation' = [preparation EXCEPT !.step = "dependencies", !.todo = Dep]
      BY <1>p, <3>1 DEF Preparing
    <3> QED
      BY <1>p, <2>1, <3>1, PreparationKept
  <2>3. /\ preparation'.step = "idle" \/ \A d \in Dep : backup[d] = "absent"
        /\ preparation'.step \in {"idle", "dependencies"}
        /\ preparation'.moved = {}
    <3>1. CASE preparation' = Contracts!Idle
      BY <1>i, <3>1
    <3>2. CASE /\ \A d \in Dep : backup[d] = "absent"
               /\ preparation' = [preparation EXCEPT !.step = "dependencies", !.todo = Dep]
      BY <1>p, <2>1, <3>2 DEF Preparing, RefreshesAreOwn
    <3> QED
      BY <2>1, <3>1, <3>2
  <2>4. ContractTypes'
    BY <2>1, <2>2 DEF ContractTypes
  <2>5. BuildsAreCurrent'
    BY <2>1, <2>3 DEF BuildsAreCurrent, Contracts!Nothing
  <2>6. RefreshesAreOwn'
    BY <2>1, <2>3 DEF RefreshesAreOwn
  <2> QED
    BY <2>4, <2>5, <2>6
<1>4. ASSUME NEW d \in Dep, Contracts!Keep(d) PROVE ContractInv'
  <2>1. ContractTypes'
    <3>1. preparation' \in Preparing
      BY <1>0, <1>4, <1>i DEF Contracts!Keep, Contracts!fileVars, ContractTypes, Preparing
    <3>2. lib' \in [Dep -> Tree] /\ backup' \in [Dep -> Tree]
      BY <1>0, <1>4, <1>i DEF Contracts!Keep, Contracts!fileVars, ContractTypes, Preparing
    <3> QED
      BY <1>0, <1>4, <1>i, <3>1, <3>2 DEF Contracts!Keep, Contracts!fileVars, ContractTypes, Preparing
  <2>2. BuildsAreCurrent'
    BY <1>0, <1>4, <1>i DEF Contracts!Keep, Contracts!fileVars, ContractTypes, Preparing, BuildsAreCurrent, Current
  <2>3. RefreshesAreOwn'
    BY <1>0, <1>4, <1>i DEF Contracts!Keep, Contracts!fileVars, ContractTypes, Preparing, RefreshesAreOwn
  <2> QED
    BY <2>1, <2>2, <2>3
<1>5. ASSUME NEW d \in Dep, Contracts!Checkout(d) PROVE ContractInv'
  <2>1. ContractTypes'
    <3>1. preparation' \in Preparing
      BY <1>5 DEF Contracts!Checkout, ContractTypes, Preparing
    <3>2. lib' \in [Dep -> Tree] /\ backup' \in [Dep -> Tree]
      BY <1>5 DEF Contracts!Checkout, ContractTypes, Preparing
    <3> QED
      BY <1>5, <3>1, <3>2 DEF Contracts!Checkout, ContractTypes, Preparing
  <2>2. BuildsAreCurrent'
    BY <1>5 DEF Contracts!Checkout, ContractTypes, Preparing, BuildsAreCurrent, Current
  <2>3. RefreshesAreOwn'
    BY <1>5 DEF Contracts!Checkout, ContractTypes, Preparing, RefreshesAreOwn
  <2> QED
    BY <2>1, <2>2, <2>3
<1>6. CASE Contracts!CheckoutEnds
  <2> DEFINE d == preparation.dep
             todo == preparation.todo \ {preparation.dep}
  <2>1. /\ preparation.step = "checkout" /\ d \in Dep
        /\ UNCHANGED <<backup, source, built, attested, edited, edits>>
    BY <1>6, <1>p DEF Contracts!CheckoutEnds, RefreshesAreOwn
  <2>2. \/ /\ lib' = [lib EXCEPT ![d] = "locked"]
           /\ preparation' = [preparation EXCEPT !.step = "dependencies", !.todo = todo]
        \/ /\ lib' = [lib EXCEPT ![d] = "absent"]
           /\ preparation' = Contracts!Idle
    BY <1>6 DEF Contracts!CheckoutEnds
  <2>3. preparation' \in Preparing
    <3>1. todo \in SUBSET Dep
      BY <1>p
    <3> QED
      BY <1>p, <2>2, <3>1, PreparationKept
  <2>4. lib' \in [Dep -> Tree]
    BY <2>1, <2>2 DEF ContractTypes
  <2>5. \/ /\ preparation'.step = "idle"
           /\ preparation'.moved = {} /\ preparation'.todo = {}
        \/ /\ preparation'.step = "dependencies"
           /\ preparation'.moved = preparation.moved /\ preparation'.todo = todo
    <3> HIDE DEF todo
    <3>1. CASE preparation' = Contracts!Idle
      BY <1>i, <3>1
    <3>2. CASE preparation' = [preparation EXCEPT !.step = "dependencies", !.todo = todo]
      BY <1>p, <3>2 DEF Preparing
    <3> QED
      BY <2>2, <3>1, <3>2
  <2>6. ContractTypes'
    BY <2>1, <2>3, <2>4 DEF ContractTypes
  <2>7. BuildsAreCurrent'
    BY <2>1, <2>5 DEF BuildsAreCurrent, Contracts!Nothing
  <2>8. RefreshesAreOwn'
    BY <2>1, <2>5 DEF RefreshesAreOwn
  <2> QED
    BY <2>6, <2>7, <2>8
<1>7. CASE Contracts!Stage
  <2>1. ContractTypes'
    <3>1. preparation' \in Preparing
      BY <1>p, <1>7, PreparationKept DEF Contracts!Stage, Contracts!MovedAside
    <3>2. lib' \in [Dep -> Tree] /\ backup' \in [Dep -> Tree]
      BY <1>0, <1>7, <1>i DEF Contracts!Stage, Contracts!MovedAside, ContractTypes, Preparing
    <3> QED
      BY <1>0, <1>7, <1>i, <3>1, <3>2 DEF Contracts!Stage, Contracts!MovedAside, ContractTypes, Preparing
  <2>2. BuildsAreCurrent'
    BY <1>0, <1>7, <1>i DEF Contracts!Stage, Contracts!MovedAside, ContractTypes, Preparing, BuildsAreCurrent, Current
  <2>3. RefreshesAreOwn'
    BY <1>0, <1>7, <1>i DEF Contracts!Stage, Contracts!MovedAside, ContractTypes, Preparing, RefreshesAreOwn
  <2> QED
    BY <2>1, <2>2, <2>3
<1>8. CASE Contracts!Replace
  <2> DEFINE d == preparation.dep
             todo == preparation.todo \ {preparation.dep}
             moved == preparation.moved \cup {d}
  <2>1. /\ preparation.step = "moving" /\ d \in Dep
        /\ UNCHANGED <<source, built, attested, edited, edits>>
    BY <1>8, <1>p DEF Contracts!Replace, RefreshesAreOwn
  <2>2. \/ /\ lib' = [lib EXCEPT ![d] = "locked"]
           /\ preparation' = [preparation EXCEPT !.step = "dependencies", !.todo = todo,
                                                 !.moved = moved]
           /\ UNCHANGED backup
        \/ /\ lib' = [lib EXCEPT ![d] = backup[d]]
           /\ backup' = [backup EXCEPT ![d] = "absent"]
           /\ preparation' = Contracts!Idle
        \/ UNCHANGED <<lib, backup>> /\ preparation' = Contracts!Idle
    BY <1>8 DEF Contracts!Replace
  <2>3. preparation' \in Preparing
    <3>1. todo \in SUBSET Dep /\ moved \in SUBSET Dep
      BY <1>p, <2>1
    <3> HIDE DEF todo, moved
    <3>2. CASE preparation' = [preparation EXCEPT !.step = "dependencies", !.todo = todo,
                                                  !.moved = moved]
      BY <1>p, <3>1, <3>2 DEF Preparing
    <3> QED
      BY <1>p, <2>2, <3>2, PreparationKept
  <2>4. lib' \in [Dep -> Tree] /\ backup' \in [Dep -> Tree]
    BY <2>1, <2>2 DEF ContractTypes
  <2>5. \/ /\ preparation'.step = "idle"
           /\ preparation'.moved = {} /\ preparation'.todo = {}
        \/ /\ preparation'.step = "dependencies"
           /\ preparation'.moved = moved /\ preparation'.todo = todo
           /\ UNCHANGED backup
    <3> HIDE DEF todo, moved
    <3>1. CASE preparation' = Contracts!Idle
      BY <1>i, <3>1
    <3>2. CASE /\ preparation' = [preparation EXCEPT !.step = "dependencies", !.todo = todo,
                                                     !.moved = moved]
               /\ UNCHANGED backup
      BY <1>p, <3>2 DEF Preparing
    <3> QED
      BY <2>2, <3>1, <3>2
  <2>6. ContractTypes'
    BY <2>1, <2>3, <2>4 DEF ContractTypes
  <2>7. BuildsAreCurrent'
    BY <2>1, <2>5 DEF BuildsAreCurrent, Contracts!Nothing
  <2>8. RefreshesAreOwn'
    BY <2>1, <2>5 DEF RefreshesAreOwn
  <2> QED
    BY <2>6, <2>7, <2>8
<1>9. CASE Contracts!Normalise
  <2>1. ContractTypes'
    <3>1. preparation' \in Preparing
      BY <1>0, <1>9, <1>i DEF Contracts!Normalise, ContractTypes, Preparing
    <3>2. lib' \in [Dep -> Tree] /\ backup' \in [Dep -> Tree]
      BY <1>0, <1>9, <1>i DEF Contracts!Normalise, ContractTypes, Preparing
    <3> QED
      BY <1>0, <1>9, <1>i, <3>1, <3>2 DEF Contracts!Normalise, ContractTypes, Preparing
  <2>2. BuildsAreCurrent'
    BY <1>0, <1>9, <1>i DEF Contracts!Normalise, ContractTypes, Preparing, BuildsAreCurrent, Current
  <2>3. RefreshesAreOwn'
    BY <1>0, <1>9, <1>i DEF Contracts!Normalise, ContractTypes, Preparing, RefreshesAreOwn
  <2> QED
    BY <2>1, <2>2, <2>3
<1>10. CASE Contracts!Build
  <2>1. ContractTypes'
    <3>1. preparation' \in Preparing
      BY <1>0, <1>10 DEF Contracts!Build, Contracts!fileVars, ContractTypes, Preparing
    <3>2. lib' \in [Dep -> Tree] /\ backup' \in [Dep -> Tree]
      BY <1>0, <1>10 DEF Contracts!Build, Contracts!fileVars, ContractTypes, Preparing
    <3> QED
      BY <1>0, <1>10, <3>1, <3>2 DEF Contracts!Build, Contracts!fileVars, ContractTypes, Preparing
  <2>2. BuildsAreCurrent'
    BY <1>0, <1>10 DEF Contracts!Build, Contracts!fileVars, ContractTypes, Preparing, BuildsAreCurrent, Current
  <2>3. RefreshesAreOwn'
    BY <1>0, <1>10 DEF Contracts!Build, Contracts!fileVars, ContractTypes, Preparing, RefreshesAreOwn
  <2> QED
    BY <2>1, <2>2, <2>3
<1>11. CASE Contracts!BuildEnds
  <2>1. ContractTypes'
    <3>1. preparation' \in Preparing
      BY <1>p, <1>11, PreparationKept DEF Contracts!BuildEnds
    <3>2. lib' \in [Dep -> Tree] /\ backup' \in [Dep -> Tree]
      BY <1>0, <1>11, <1>i DEF Contracts!BuildEnds, ContractTypes, Preparing
    <3> QED
      BY <1>0, <1>11, <1>i, <3>1, <3>2 DEF Contracts!BuildEnds, ContractTypes, Preparing
  <2>2. BuildsAreCurrent'
    BY <1>0, <1>11, <1>i DEF Contracts!BuildEnds, ContractTypes, Preparing, BuildsAreCurrent, Current
  <2>3. RefreshesAreOwn'
    BY <1>0, <1>11, <1>i DEF Contracts!BuildEnds, ContractTypes, Preparing, RefreshesAreOwn
  <2> QED
    BY <2>1, <2>2, <2>3
<1>12. CASE Contracts!Clean
  <2>1. ContractTypes'
    <3>1. preparation' \in Preparing
      BY <1>p, <1>12, PreparationKept DEF Contracts!Clean
    <3>2. lib' \in [Dep -> Tree] /\ backup' \in [Dep -> Tree]
      BY <1>0, <1>12, <1>i DEF Contracts!Clean, ContractTypes, Preparing
    <3> QED
      BY <1>0, <1>12, <1>i, <3>1, <3>2 DEF Contracts!Clean, ContractTypes, Preparing
  <2>2. BuildsAreCurrent'
    BY <1>0, <1>12, <1>i DEF Contracts!Clean, ContractTypes, Preparing, BuildsAreCurrent, Current
  <2>3. RefreshesAreOwn'
    BY <1>0, <1>12, <1>i DEF Contracts!Clean, ContractTypes, Preparing, RefreshesAreOwn
  <2> QED
    BY <2>1, <2>2, <2>3
<1>13. CASE Contracts!Attest
  <2>1. ContractTypes'
    <3>1. preparation' \in Preparing
      BY <1>0, <1>13, <1>i DEF Contracts!Attest, Contracts!Present, ContractTypes, Preparing
    <3>2. lib' \in [Dep -> Tree] /\ backup' \in [Dep -> Tree]
      BY <1>0, <1>13, <1>i DEF Contracts!Attest, Contracts!Present, ContractTypes, Preparing
    <3> QED
      BY <1>0, <1>13, <1>i, <3>1, <3>2 DEF Contracts!Attest, Contracts!Present, ContractTypes, Preparing
  <2>2. BuildsAreCurrent'
    BY <1>0, <1>13, <1>i DEF Contracts!Attest, Contracts!Present, ContractTypes, Preparing, BuildsAreCurrent, Current
  <2>3. RefreshesAreOwn'
    BY <1>0, <1>13, <1>i DEF Contracts!Attest, Contracts!Present, ContractTypes, Preparing, RefreshesAreOwn
  <2> QED
    BY <2>1, <2>2, <2>3
<1>14. CASE Contracts!Kill
  <2>1. ContractTypes'
    <3>1. preparation' \in Preparing
      BY <1>0, <1>14, <1>i DEF Contracts!Kill, ContractTypes, Preparing
    <3>2. lib' \in [Dep -> Tree] /\ backup' \in [Dep -> Tree]
      BY <1>0, <1>14, <1>i DEF Contracts!Kill, ContractTypes, Preparing
    <3> QED
      BY <1>0, <1>14, <1>i, <3>1, <3>2 DEF Contracts!Kill, ContractTypes, Preparing
  <2>2. BuildsAreCurrent'
    BY <1>0, <1>14, <1>i DEF Contracts!Kill, ContractTypes, Preparing, BuildsAreCurrent, Current
  <2>3. RefreshesAreOwn'
    BY <1>0, <1>14, <1>i DEF Contracts!Kill, ContractTypes, Preparing, RefreshesAreOwn
  <2> QED
    BY <2>1, <2>2, <2>3
<1>15. CASE Contracts!StageBundle
  <2>1. ContractTypes'
    <3>1. preparation' \in Preparing
      BY <1>15 DEF Contracts!StageBundle, Contracts!fileVars, ContractTypes, Preparing
    <3>2. lib' \in [Dep -> Tree] /\ backup' \in [Dep -> Tree]
      BY <1>15 DEF Contracts!StageBundle, Contracts!fileVars, ContractTypes, Preparing
    <3> QED
      BY <1>15, <3>1, <3>2 DEF Contracts!StageBundle, Contracts!fileVars, ContractTypes, Preparing
  <2>2. BuildsAreCurrent'
    BY <1>15 DEF Contracts!StageBundle, Contracts!fileVars, ContractTypes, Preparing, BuildsAreCurrent, Current
  <2>3. RefreshesAreOwn'
    BY <1>15 DEF Contracts!StageBundle, Contracts!fileVars, ContractTypes, Preparing, RefreshesAreOwn
  <2> QED
    BY <2>1, <2>2, <2>3
<1>16. CASE Contracts!PlaceBundle
  <2>1. ContractTypes'
    <3>1. preparation' \in Preparing
      BY <1>p, <1>16, PreparationKept DEF Contracts!PlaceBundle, Contracts!LibEmpty, Contracts!Changed
    <3>2. lib' \in [Dep -> Tree] /\ backup' \in [Dep -> Tree]
      BY <1>16 DEF Contracts!PlaceBundle, Contracts!LibEmpty, Contracts!Changed, ContractTypes, Preparing
    <3> QED
      BY <1>16, <3>1, <3>2 DEF Contracts!PlaceBundle, Contracts!LibEmpty, Contracts!Changed, ContractTypes, Preparing
  <2>2. BuildsAreCurrent'
    BY <1>16 DEF Contracts!PlaceBundle, Contracts!LibEmpty, Contracts!Changed, ContractTypes, Preparing, BuildsAreCurrent, Current
  <2>3. RefreshesAreOwn'
    BY <1>16 DEF Contracts!PlaceBundle, Contracts!LibEmpty, Contracts!Changed, ContractTypes, Preparing, RefreshesAreOwn
  <2> QED
    BY <2>1, <2>2, <2>3
<1>17. CASE Contracts!EditSource
  <2>1. ContractTypes'
    <3>1. preparation' \in Preparing
      BY <1>17 DEF Contracts!EditSource, Contracts!Edit, Contracts!Changed, ContractTypes, Preparing
    <3>2. lib' \in [Dep -> Tree] /\ backup' \in [Dep -> Tree]
      BY <1>17 DEF Contracts!EditSource, Contracts!Edit, Contracts!Changed, ContractTypes, Preparing
    <3> QED
      BY <1>17, <3>1, <3>2 DEF Contracts!EditSource, Contracts!Edit, Contracts!Changed, ContractTypes, Preparing
  <2>2. BuildsAreCurrent'
    BY <1>17 DEF Contracts!EditSource, Contracts!Edit, Contracts!Changed, ContractTypes, Preparing, BuildsAreCurrent, Current
  <2>3. RefreshesAreOwn'
    BY <1>17 DEF Contracts!EditSource, Contracts!Edit, Contracts!Changed, ContractTypes, Preparing, RefreshesAreOwn
  <2> QED
    BY <2>1, <2>2, <2>3
<1>18. ASSUME NEW d \in Dep, Contracts!EditTree(d) PROVE ContractInv'
  <2>1. ContractTypes'
    <3>1. preparation' \in Preparing
      BY <1>18 DEF Contracts!EditTree, Contracts!Edit, Contracts!Changed, ContractTypes, Preparing
    <3>2. lib' \in [Dep -> Tree] /\ backup' \in [Dep -> Tree]
      BY <1>18 DEF Contracts!EditTree, Contracts!Edit, Contracts!Changed, ContractTypes, Preparing
    <3> QED
      BY <1>18, <3>1, <3>2 DEF Contracts!EditTree, Contracts!Edit, Contracts!Changed, ContractTypes, Preparing
  <2>2. BuildsAreCurrent'
    BY <1>18 DEF Contracts!EditTree, Contracts!Edit, Contracts!Changed, ContractTypes, Preparing, BuildsAreCurrent, Current
  <2>3. RefreshesAreOwn'
    BY <1>18 DEF Contracts!EditTree, Contracts!Edit, Contracts!Changed, ContractTypes, Preparing, RefreshesAreOwn
  <2> QED
    BY <2>1, <2>2, <2>3
<1> QED
  BY <1>1, <1>2, <1>3, <1>4, <1>5, <1>6, <1>7, <1>8, <1>9, <1>10, <1>11, <1>12, <1>13,
     <1>14, <1>15, <1>16, <1>17, <1>18 DEF Contracts!Next, Contracts!PrepareStep

\* The inductive invariant of the preparation holds.
THEOREM ContractInvariant == Contracts!Spec => []ContractInv
<1>1. Contracts!Init => ContractInv
  <2> SUFFICES ASSUME Contracts!Init PROVE ContractInv
    OBVIOUS
  <2>1. /\ lib \in [Dep -> Tree] /\ backup = [d \in Dep |-> "absent"]
        /\ source = 0 /\ built = Contracts!Nothing /\ attested = Contracts!Unattested
        /\ preparation = Contracts!Idle /\ edited = FALSE /\ edits = 0
    BY DEF Contracts!Init, Tree, Contracts!Tree
  <2>2. Contracts!Nothing \in Inputs
    BY DEF Contracts!Nothing, Inputs, Tree, Contracts!Tree
  <2>3. preparation \in Preparing
    BY <2>1, <2>2 DEF Contracts!Idle, Preparing
  <2>4. ContractTypes
    BY <2>1, <2>2, <2>3 DEF ContractTypes, Contracts!Unattested, Tree, Contracts!Tree
  <2>5. BuildsAreCurrent
    BY <2>1 DEF BuildsAreCurrent, Contracts!Idle, Contracts!Unattested, Contracts!Step
  <2>6. RefreshesAreOwn
    BY <2>1 DEF RefreshesAreOwn, Contracts!Idle, Contracts!Step
  <2> QED
    BY <2>4, <2>5, <2>6 DEF ContractInv
<1>2. ContractInv /\ [Contracts!Next]_(Contracts!vars) => ContractInv'
  <2> SUFFICES ASSUME ContractInv, UNCHANGED Contracts!vars PROVE ContractInv'
    BY ContractStep
  <2> QED
    BY DEF ContractInv, ContractTypes, BuildsAreCurrent, RefreshesAreOwn, Current,
           Contracts!Step, Contracts!vars, Contracts!fileVars
<1> QED
  BY <1>1, <1>2, PTL DEF Contracts!Spec

\* verify_prepared_contract_artifacts: what verifies before a deployment was built
\* from the sources and the locked dependencies that are there, however often the
\* preparation was killed and whatever was edited, refreshed or restored before.
THEOREM VerifiedContractsAreBuilt == Contracts!Spec => []VerifiedIsBuilt
<1>1. ContractInv => VerifiedIsBuilt
  BY DEF ContractInv, BuildsAreCurrent, VerifiedIsBuilt, Contracts!VerifiedIsBuilt,
         Contracts!Verified, Contracts!Present
<1> QED
  BY <1>1, ContractInvariant, PTL

\* _refresh_dependency and its recovery: whatever fails or is killed, a tree that
\* the operator had put there stays in the lib or in the backup until the locked one
\* is in its place.
THEOREM TreesSurvive == Contracts!Spec => TreeSurvives
<1> DEFINE Lost(d) == "wrong" \in Contracts!Owned(d)
                      /\ "wrong" \notin {lib'[d], backup'[d]}
           Survives(d) == Lost(d) => Contracts!Matches(lib'[d]) \/ d \in preparation.moved
<1>1. ASSUME ContractInv, [Contracts!Next]_(Contracts!vars), edits' = edits, NEW d \in Dep
      PROVE  Survives(d)
  <2> USE <1>1 DEF Contracts!Owned, Contracts!Step, Contracts!Matches
  <2>0. /\ lib \in [Dep -> Tree] /\ backup \in [Dep -> Tree]
        /\ preparation.step \in {"checkout", "staging", "moving"} => preparation.dep \in Dep
    BY DEF ContractInv, ContractTypes, RefreshesAreOwn, Preparing
  <2>1. ASSUME UNCHANGED <<lib, backup>> PROVE Survives(d)
    BY <2>1
  <2>2. CASE Contracts!Recover
    <3>1. \/ UNCHANGED <<lib, backup>>
          \/ \E c \in Dep : /\ lib[c] = "absent"
                            /\ lib' = [lib EXCEPT ![c] = backup[c]]
                            /\ backup' = [backup EXCEPT ![c] = "absent"]
          \/ \E c \in Dep : /\ Contracts!Matches(lib[c]) /\ UNCHANGED lib
                            /\ backup' = [backup EXCEPT ![c] = "absent"]
      BY <2>2 DEF Contracts!Recover, Contracts!Recovered, ContractInv, ContractTypes,
                  Preparing
    <3> QED
      BY <2>0, <2>1, <3>1
  <2>3. ASSUME NEW c \in Dep, Contracts!Checkout(c) PROVE Survives(d)
    BY <2>0, <2>3 DEF Contracts!Checkout
  <2>4. CASE Contracts!CheckoutEnds
    <3>1. lib[preparation.dep] = "partial" /\ preparation.dep \in Dep
      BY <2>0, <2>4 DEF Contracts!CheckoutEnds, ContractInv, RefreshesAreOwn
    <3> QED
      BY <2>0, <2>4, <3>1 DEF Contracts!CheckoutEnds
  <2>5. CASE Contracts!Stage
    <3>1. preparation.dep \in Dep /\ backup[preparation.dep] = "absent"
      BY <2>0, <2>5 DEF Contracts!Stage, ContractInv, RefreshesAreOwn
    <3> QED
      BY <2>0, <2>5, <3>1 DEF Contracts!Stage, Contracts!MovedAside
  <2>6. CASE Contracts!Replace
    <3>1. preparation.dep \in Dep
      BY <2>0, <2>6 DEF Contracts!Replace
    <3>2. \/ lib' = [lib EXCEPT ![preparation.dep] = "locked"] /\ UNCHANGED backup
          \/ /\ lib[preparation.dep] = "absent"
             /\ lib' = [lib EXCEPT ![preparation.dep] = backup[preparation.dep]]
             /\ backup' = [backup EXCEPT ![preparation.dep] = "absent"]
          \/ UNCHANGED <<lib, backup>>
      BY <2>6 DEF Contracts!Replace
    <3> QED
      BY <2>0, <3>1, <3>2
  <2>7. CASE Contracts!Normalise
    BY <2>0, <2>7 DEF Contracts!Normalise
  <2>8. CASE Contracts!Clean
    BY <2>0, <2>8 DEF Contracts!Clean, ContractInv, ContractTypes, Preparing
  <2>9. CASE Contracts!PlaceBundle
    BY <2>0, <2>9 DEF Contracts!PlaceBundle, Contracts!LibEmpty
  <2>10. ASSUME NEW refresh \in BOOLEAN, Contracts!Start(refresh) PROVE Survives(d)
    BY <2>1, <2>10 DEF Contracts!Start, Contracts!fileVars
  <2>11. ASSUME NEW c \in Dep, Contracts!Keep(c) PROVE Survives(d)
    BY <2>1, <2>11 DEF Contracts!Keep, Contracts!fileVars
  <2>12. CASE \/ Contracts!Preflight \/ Contracts!Build \/ Contracts!BuildEnds
              \/ Contracts!Attest \/ Contracts!Kill \/ Contracts!StageBundle
    <3>1. UNCHANGED <<lib, backup>>
      BY <2>12 DEF Contracts!Preflight, Contracts!Build, Contracts!BuildEnds,
                   Contracts!Attest, Contracts!Kill, Contracts!StageBundle,
                   Contracts!fileVars
    <3> QED
      BY <2>1, <3>1
  <2>13. ~Contracts!EditSource /\ \A c \in Dep : ~Contracts!EditTree(c)
    <3>1. edits' # edits + 1
      BY DEF ContractInv, ContractTypes
    <3> QED
      BY <3>1 DEF Contracts!EditSource, Contracts!EditTree, Contracts!Edit
  <2>14. CASE UNCHANGED Contracts!vars
    BY <2>1, <2>14 DEF Contracts!vars, Contracts!fileVars
  <2> HIDE DEF Survives
  <2> QED
    BY <1>1, <2>2, <2>3, <2>4, <2>5, <2>6, <2>7, <2>8, <2>9, <2>10, <2>11, <2>12, <2>13,
       <2>14 DEF Contracts!Next, Contracts!PrepareStep
<1>2. ContractInv /\ [Contracts!Next]_(Contracts!vars)
        => [edits' = edits => \A d \in Dep : Survives(d)]_(Contracts!vars)
  BY <1>1
<1> QED
  BY <1>2, ContractInvariant, PTL DEF Contracts!Spec, TreeSurvives, Contracts!TreeSurvives

-----------------------------------------------------------------------------
(* The exposure of the participant listener                                *)

Configuration == [identity : BOOLEAN, serve : SUBSET {"own", "other"}, funnel : BOOLEAN]

ExposureTypes ==
    /\ host \in Configuration
    /\ process \in {"none", "running", "exited"}
    /\ manager \in [step : {"down", "initial", "preflight", "compare", "await", "exposed",
                            "stop", "look", "off", "final", "close"},
                    initial : Configuration, active : Configuration,
                    began : BOOLEAN, failed : BOOLEAN, again : BOOLEAN]
    /\ surfaces \in {"up", "down"} /\ exposure \in {"none", "stopped", "error"}

\* A manager runs once: until it starts its process there is none, and from the
\* first stop on none runs.
ManagerRunsOnce ==
    /\ Exposure!Step("down") <=> surfaces = "down"
    /\ exposure # "none" => Exposure!Step("down")
    /\ process # "none" =>
         \/ exposure # "none"
         \/ manager.step \in {"await", "exposed", "stop", "look", "off", "final", "close"}
    /\ process = "running" => manager.step \in {"await", "exposed", "stop"}

\* Without a process nothing of ours is exposed; so nothing was when the manager
\* began, and nothing is when it found again what was there then.
FoundAgain ==
    /\ process = "none" => "own" \notin host.serve
    /\ manager.began => "own" \notin manager.initial.serve
    /\ manager.step \notin {"down", "initial"} => manager.began \/ manager.failed
    /\ Exposure!Step("close") /\ ~manager.failed => "own" \notin host.serve
    /\ exposure = "stopped" => "own" \notin host.serve

\* The inductive invariant of the exposure.
ExposureInv == ExposureTypes /\ ManagerRunsOnce /\ FoundAgain

\* A step of the manager, of its process or of others keeps the invariant.
LEMMA ExposureStep ==
  ASSUME ExposureInv, Exposure!Next
  PROVE  ExposureInv'
<1> USE DEF ExposureInv, ExposureTypes, Configuration, ManagerRunsOnce, FoundAgain,
            Exposure!Step, Exposure!To, Exposure!Fails, Exposure!Finish, Exposure!Restored
<1>1. CASE Exposure!Begin
  BY <1>1 DEF Exposure!Begin
<1>2. CASE Exposure!TakeInitial
  BY <1>2 DEF Exposure!TakeInitial
<1>3. CASE Exposure!Preflight
  <2>1. /\ manager.step = "preflight" /\ UNCHANGED <<host, process, surfaces, exposure>>
        /\ \/ manager' = [manager EXCEPT !.step = "compare"]
           \/ manager' = [manager EXCEPT !.step = "stop", !.failed = TRUE]
    BY <1>3 DEF Exposure!Preflight
  <2>2. CASE manager' = [manager EXCEPT !.step = "compare"]
    BY <2>1, <2>2
  <2>3. CASE manager' = [manager EXCEPT !.step = "stop", !.failed = TRUE]
    BY <2>1, <2>3
  <2> QED
    BY <2>1, <2>2, <2>3
<1>4. CASE Exposure!StartProcess
  <2>1. /\ manager.step = "compare" /\ UNCHANGED <<host, surfaces, exposure>>
        /\ \/ manager' = [manager EXCEPT !.step = "await"] /\ process' = "running"
           \/ manager' = [manager EXCEPT !.step = "stop", !.failed = TRUE] /\ UNCHANGED process
    BY <1>4 DEF Exposure!StartProcess
  <2>2. CASE manager' = [manager EXCEPT !.step = "await"] /\ process' = "running"
    BY <2>1, <2>2
  <2>3. CASE manager' = [manager EXCEPT !.step = "stop", !.failed = TRUE] /\ UNCHANGED process
    BY <2>1, <2>3
  <2> QED
    BY <2>1, <2>2, <2>3
<1>5. CASE Exposure!AwaitConfigured
  <2>1. /\ manager.step = "await" /\ UNCHANGED <<host, process, surfaces, exposure>>
        /\ \/ manager' = [manager EXCEPT !.step = "exposed", !.active = host]
           \/ manager' = [manager EXCEPT !.step = "stop", !.failed = TRUE, !.again = TRUE]
    BY <1>5 DEF Exposure!AwaitConfigured
  <2>2. CASE manager' = [manager EXCEPT !.step = "exposed", !.active = host]
    BY <2>1, <2>2
  <2>3. CASE manager' = [manager EXCEPT !.step = "stop", !.failed = TRUE, !.again = TRUE]
    BY <2>1, <2>3
  <2> QED
    BY <2>1, <2>2, <2>3
<1>6. CASE Exposure!RunOver
  <2>1. /\ manager.step = "exposed" /\ UNCHANGED <<host, process, surfaces, exposure>>
        /\ \/ manager' = [manager EXCEPT !.step = "stop"]
           \/ manager' = [manager EXCEPT !.step = "stop", !.failed = TRUE]
    BY <1>6 DEF Exposure!RunOver
  <2>2. CASE manager' = [manager EXCEPT !.step = "stop"]
    BY <2>1, <2>2
  <2>3. CASE manager' = [manager EXCEPT !.step = "stop", !.failed = TRUE]
    BY <2>1, <2>3
  <2> QED
    BY <2>1, <2>2, <2>3
<1>7. CASE Exposure!StopProcess
  BY <1>7 DEF Exposure!StopProcess
<1>8. CASE Exposure!Look
  <2>1. manager.step = "look" /\ UNCHANGED <<host, process, surfaces, exposure>>
    BY <1>8 DEF Exposure!Look
  <2>2. CASE manager' = [manager EXCEPT !.step = "off"]
    BY <2>1, <2>2
  <2>3. CASE Exposure!Finish(host # manager.initial)
    BY <2>1, <2>3
  <2> QED
    BY <1>8, <2>2, <2>3 DEF Exposure!Look
<1>9. CASE Exposure!TurnOff
  BY <1>9 DEF Exposure!TurnOff
<1>10. CASE Exposure!LookAgain
  BY <1>10 DEF Exposure!LookAgain
<1>11. CASE Exposure!Close
  BY <1>11 DEF Exposure!Close
<1>12. CASE Exposure!CommandFails
  BY <1>12 DEF Exposure!CommandFails
<1>13. CASE Exposure!StopFails
  BY <1>13 DEF Exposure!StopFails
<1>14. CASE Exposure!Configure
  BY <1>14 DEF Exposure!Configure
<1>15. CASE Exposure!SessionEnds
  BY <1>15 DEF Exposure!SessionEnds
<1>16. CASE Exposure!ProcessExits
  BY <1>16 DEF Exposure!ProcessExits
<1>17. CASE Exposure!Change
  <2>1. /\ UNCHANGED <<process, manager, surfaces, exposure>>
        /\ host' \in Configuration /\ ("own" \in host'.serve <=> "own" \in host.serve)
    <3>1. PICK serve : /\ serve \in {host.serve \ {"other"}, host.serve \cup {"other"}}
                       /\ \/ host' = [host EXCEPT !.identity = ~host.identity]
                          \/ host' = [host EXCEPT !.funnel = ~host.funnel]
                          \/ host' = [host EXCEPT !.serve = serve]
      BY <1>17 DEF Exposure!Change
    <3>2. UNCHANGED <<process, manager, surfaces, exposure>>
      BY <1>17 DEF Exposure!Change
    <3>3. CASE host' = [host EXCEPT !.identity = ~host.identity]
      BY <3>2, <3>3
    <3>4. CASE host' = [host EXCEPT !.funnel = ~host.funnel]
      BY <3>2, <3>4
    <3>5. CASE host' = [host EXCEPT !.serve = serve]
      BY <3>1, <3>2, <3>5
    <3> QED
      BY <3>1, <3>3, <3>4, <3>5
  <2> QED
    BY <2>1
<1> QED
  BY <1>1, <1>2, <1>3, <1>4, <1>5, <1>6, <1>7, <1>8, <1>9, <1>10, <1>11, <1>12, <1>13,
     <1>14, <1>15, <1>16, <1>17 DEF Exposure!Next, Exposure!ManagerStep

\* The inductive invariant of the exposure holds.
THEOREM ExposureInvariant == Exposure!Spec => []ExposureInv
<1>1. Exposure!Init => ExposureInv
  BY DEF Exposure!Init, Exposure!Manager, Exposure!None, ExposureInv, ExposureTypes,
         Configuration, ManagerRunsOnce, FoundAgain, Exposure!Step
<1>2. ExposureInv /\ [Exposure!Next]_(Exposure!vars) => ExposureInv'
  <2> SUFFICES ASSUME ExposureInv, UNCHANGED Exposure!vars PROVE ExposureInv'
    BY ExposureStep
  <2> QED
    BY DEF ExposureInv, ExposureTypes, ManagerRunsOnce, FoundAgain, Exposure!Step,
           Exposure!vars
<1> QED
  BY <1>1, <1>2, PTL DEF Exposure!Spec

\* TailscaleServeManager.stop: a run that says it stopped left nothing of ours
\* exposed, whatever others changed on the host and whichever command failed.
THEOREM StoppedExposuresAreRestored == Exposure!Spec => []StoppedIsRestored
<1>1. ExposureInv => StoppedIsRestored
  BY DEF ExposureInv, ManagerRunsOnce, FoundAgain, Exposure!Step, StoppedIsRestored,
         Exposure!StoppedIsRestored
<1> QED
  BY <1>1, ExposureInvariant, PTL

-----------------------------------------------------------------------------
(* The acceptance of a commit                                              *)

Process == Child \cup {SoakWorker}

AcceptanceTypes ==
    /\ gate \in [step : {"idle", "release", "launch", "first", "await", "poll", "tree",
                         "evidence", "tamper", "final", "list", "stop", "descendants",
                         "write", "over"},
                 status : {"running", "passed", "failed"}, owned : BOOLEAN,
                 soak : {"none", "passed", "failed"}, listed : SUBSET Process,
                 stopped : BOOLEAN, cleaned : BOOLEAN]
    /\ written \in {"none", "running", "passed", "failed"}
    /\ soak \in [outcome : {"none", "passed", "failed"}, commit : {"clean", "dirty"}]
    /\ tree \in [live : SUBSET Process, started : SUBSET Child]
    /\ observed \subseteq Process
    /\ worktree \in {"clean", "dirty", "moved"}

\* The worker is started once; a soak that came to its end has ended its processes;
\* and what is sampled was started.
WorkerRunsOnce ==
    /\ gate.step \in {"idle", "release", "launch"} => ~gate.owned
    /\ gate.step \in {"list", "stop", "descendants"} => gate.owned
    /\ ~gate.owned => /\ soak.outcome = "none" /\ tree.live = {} /\ observed = {}
                      /\ ~gate.stopped /\ ~gate.cleaned
    /\ soak.outcome = "passed" => tree.live = {}
    /\ tree.live \cup observed \subseteq tree.started \cup {SoakWorker}

\* What the gate believes of the soak is so, and it does not forget it.
GateKnows ==
    /\ gate.soak = "passed" => soak.outcome = "passed" /\ gate.owned
    /\ gate.step \in {"tamper", "final"} \/ "passed" \in {gate.status, written}
         => gate.soak = "passed"

\* Processes that were ended do not come back.
CleanUpLasts ==
    /\ Acceptance!Step("stop") => SoakWorker \in gate.listed
    /\ gate.stopped => SoakWorker \notin tree.live
    /\ gate.cleaned => Acceptance!Remains = {} /\ gate.step \in {"write", "over"}

\* The inductive invariant of the acceptance.
AcceptanceInv == AcceptanceTypes /\ WorkerRunsOnce /\ GateKnows /\ CleanUpLasts

\* A step of the gate, of the soak or of the environment keeps the invariant.
LEMMA AcceptanceStep ==
  ASSUME AcceptanceInv, Acceptance!Next
  PROVE  AcceptanceInv'
<1> USE DEF AcceptanceInv, AcceptanceTypes, Process, WorkerRunsOnce, GateKnows,
            CleanUpLasts, Acceptance!Remains, Acceptance!Step, Acceptance!To,
            Acceptance!Fail
<1>f. ASSUME Acceptance!Fail, UNCHANGED <<written, soak, tree, observed, worktree>>,
             gate.step \in {"release", "launch", "first", "await", "poll", "tree",
                           "evidence", "tamper", "final"}
      PROVE  AcceptanceInv'
  <2>1. \/ gate.owned /\ gate' = [gate EXCEPT !.step = "list", !.status = "failed"]
        \/ ~gate.owned /\ gate' = [gate EXCEPT !.step = "write", !.status = "failed"]
    BY <1>f
  <2>2. CASE gate' = [gate EXCEPT !.step = "list", !.status = "failed"] /\ gate.owned
    <3>1. AcceptanceTypes'
      BY ZenonT(40), <1>f, <2>2
    <3>2. WorkerRunsOnce' /\ GateKnows'
      BY <1>f, <2>2
    <3>3. CleanUpLasts'
      BY <1>f, <2>2
    <3> QED
      BY <3>1, <3>2, <3>3
  <2>3. CASE gate' = [gate EXCEPT !.step = "write", !.status = "failed"]
    BY ZenonT(40), <1>f, <2>3
  <2> QED
    BY <2>1, <2>2, <2>3
<1>1. CASE Acceptance!Begin
  BY <1>1 DEF Acceptance!Begin
<1>2. CASE Acceptance!ReleaseGate
  BY <1>2 DEF Acceptance!ReleaseGate
<1>3. CASE Acceptance!Launch
  <2>1. gate.step = "launch" /\ UNCHANGED <<written, observed, worktree>>
    BY <1>3 DEF Acceptance!Launch
  <2>2. CASE Acceptance!Fail /\ UNCHANGED <<soak, tree>>
    BY <1>f, <2>1, <2>2
  <2>3. CASE /\ worktree # "moved"
             /\ gate' = [gate EXCEPT !.step = "first", !.owned = TRUE]
             /\ soak' = [soak EXCEPT !.commit = worktree]
             /\ tree' = [tree EXCEPT !.live = {SoakWorker}]
    BY <2>1, <2>3
  <2> QED
    <3> HIDE DEF Acceptance!Fail, AcceptanceInv
    <3> QED
      BY <1>3, <2>2, <2>3 DEF Acceptance!Launch, Acceptance!SameCommit
<1>4. CASE Acceptance!Sample
  BY <1>4 DEF Acceptance!Sample, Acceptance!Sampled, Acceptance!Lives
<1>5. CASE Acceptance!TimesOut
  BY ZenonT(40), <1>5 DEF Acceptance!TimesOut, Acceptance!PastDeadline
<1>6. CASE Acceptance!Poll
  <2>1. gate.step = "poll" /\ UNCHANGED <<written, soak, tree, observed, worktree>>
    BY <1>6 DEF Acceptance!Poll
  <2>2. CASE Acceptance!Fail
    BY <1>f, <2>1, <2>2
  <2>3. CASE gate' = [gate EXCEPT !.step = "await"]
    BY <2>1, <2>3
  <2>4. CASE gate' = [gate EXCEPT !.step = "tree", !.soak = soak.outcome]
    BY <2>1, <2>4
  <2> QED
    <3> HIDE DEF Acceptance!Fail, AcceptanceInv
    <3> QED
      BY <1>6, <2>2, <2>3, <2>4 DEF Acceptance!Poll
<1>7. CASE Acceptance!CheckTree
  <2>1. gate.step = "tree" /\ UNCHANGED <<written, soak, tree, observed, worktree>>
    BY <1>7 DEF Acceptance!CheckTree
  <2>2. CASE Acceptance!Fail
    BY <1>f, <2>1, <2>2
  <2>3. CASE /\ observed \cap tree.live = {}
             /\ gate' = [gate EXCEPT !.step = "evidence"]
    BY <2>1, <2>3
  <2> QED
    <3> HIDE DEF Acceptance!Fail, AcceptanceInv
    <3> QED
      BY <1>7, <2>2, <2>3 DEF Acceptance!CheckTree
<1>8. CASE Acceptance!CheckEvidence
  <2>1. gate.step = "evidence" /\ UNCHANGED <<written, soak, tree, observed, worktree>>
    BY <1>8 DEF Acceptance!CheckEvidence
  <2>2. CASE Acceptance!Fail
    BY <1>f, <2>1, <2>2
  <2>3. CASE /\ gate.soak = "passed"
             /\ gate' = [gate EXCEPT !.step = "tamper"]
    BY <2>1, <2>3
  <2> QED
    <3> HIDE DEF Acceptance!Fail, AcceptanceInv
    <3> QED
      BY <1>8, <2>2, <2>3 DEF Acceptance!CheckEvidence, Acceptance!EvidenceHolds
<1>9. CASE Acceptance!CheckTampered
  BY <1>9 DEF Acceptance!CheckTampered
<1>10. CASE Acceptance!CheckWorktree
  <2>1. gate.step = "final" /\ UNCHANGED <<written, soak, tree, observed, worktree>>
    BY <1>10 DEF Acceptance!CheckWorktree
  <2>2. CASE Acceptance!Fail
    BY <1>f, <2>1, <2>2
  <2>3. CASE /\ worktree = "clean"
             /\ gate' = [gate EXCEPT !.step = "write", !.status = "passed"]
    BY <2>1, <2>3
  <2> QED
    <3> HIDE DEF Acceptance!Fail, AcceptanceInv
    <3> QED
      BY <1>10, <2>2, <2>3 DEF Acceptance!CheckWorktree
<1>11. CASE Acceptance!ListOwned
  <2>1. gate.step = "list" /\ UNCHANGED <<written, soak, tree, observed, worktree>>
    BY <1>11 DEF Acceptance!ListOwned
  <2>2. CASE /\ SoakWorker \in tree.live
             /\ gate' = [gate EXCEPT !.step = "stop", !.listed = tree.live]
    BY <2>1, <2>2
  <2>3. CASE /\ SoakWorker \notin tree.live
             /\ gate' = [gate EXCEPT !.step = "descendants", !.stopped = TRUE]
    <3>1. AcceptanceTypes'
      BY <2>1, <2>3
    <3>2. WorkerRunsOnce' /\ GateKnows'
      BY <2>1, <2>3
    <3>3. CleanUpLasts'
      BY <2>1, <2>3
    <3> QED
      BY <3>1, <3>2, <3>3
  <2> QED
    BY <1>11, <2>2, <2>3 DEF Acceptance!ListOwned, Acceptance!Lives
<1>12. CASE Acceptance!StopOwned
  <2>1. /\ gate.step = "stop" /\ UNCHANGED <<written, observed, worktree>>
        /\ tree' = [tree EXCEPT !.live = tree.live \ gate.listed]
        /\ gate' = [gate EXCEPT !.step = "descendants", !.stopped = TRUE]
    BY <1>12 DEF Acceptance!StopOwned
  <2>2. CASE SoakWorker \in tree.live /\ soak' = [soak EXCEPT !.outcome = "failed"]
    BY <2>1, <2>2
  <2>3. CASE soak' = soak
    <3>1. AcceptanceTypes'
      BY <2>1, <2>3
    <3>2. WorkerRunsOnce' /\ GateKnows'
      BY <2>1, <2>3
    <3>3. CleanUpLasts'
      BY <2>1, <2>3
    <3> QED
      BY <3>1, <3>2, <3>3
  <2> QED
    <3>1. \/ soak' = soak
          \/ soak' = [soak EXCEPT !.outcome = "failed"] /\ SoakWorker \in tree.live
      BY <1>12 DEF Acceptance!StopOwned, Acceptance!Lives
    <3> QED
      BY <2>2, <2>3, <3>1
<1>13. CASE Acceptance!CleanObserved
  <2>1. /\ gate.step = "descendants" /\ UNCHANGED <<written, observed, worktree>>
        /\ tree' = [tree EXCEPT !.live = tree.live \ (observed \cap tree.live)]
        /\ gate' = [gate EXCEPT !.step = "write", !.cleaned = TRUE]
    BY <1>13 DEF Acceptance!CleanObserved, Acceptance!Targets
  <2>2. CASE SoakWorker \in tree.live /\ soak' = [soak EXCEPT !.outcome = "failed"]
    BY <2>1, <2>2
  <2>3. CASE soak' = soak
    <3>1. AcceptanceTypes'
      BY <2>1, <2>3
    <3>2. WorkerRunsOnce' /\ GateKnows'
      BY <2>1, <2>3
    <3>3. CleanUpLasts'
      BY <2>1, <2>3
    <3> QED
      BY <3>1, <3>2, <3>3
  <2> QED
    <3>1. \/ soak' = soak
          \/ soak' = [soak EXCEPT !.outcome = "failed"] /\ SoakWorker \in tree.live
      BY <1>13 DEF Acceptance!CleanObserved, Acceptance!Targets
    <3> QED
      BY <2>2, <2>3, <3>1
<1>14. CASE Acceptance!WriteReport
  BY <1>14 DEF Acceptance!WriteReport
<1>15. CASE Acceptance!StepFails
  BY <1>f, <1>15 DEF Acceptance!StepFails
<1>16. CASE Acceptance!CleanupFails
  BY <1>16 DEF Acceptance!CleanupFails
<1>17. CASE Acceptance!CleanObservedFails
  BY <1>17 DEF Acceptance!CleanObservedFails
<1>18. CASE Acceptance!WorkerEnds
  BY <1>18 DEF Acceptance!WorkerEnds
<1>19. CASE Acceptance!KillWorker
  BY <1>19 DEF Acceptance!KillWorker, Acceptance!Lives
<1>20. CASE Acceptance!KillGate
  BY <1>20 DEF Acceptance!KillGate
<1>21. CASE Acceptance!ChangeWorktree
  BY <1>21 DEF Acceptance!ChangeWorktree
<1>22. CASE Acceptance!TimePasses
  BY <1>22 DEF Acceptance!TimePasses
<1>23. ASSUME NEW c \in Child, Acceptance!StartChild(c) PROVE AcceptanceInv'
  BY <1>23 DEF Acceptance!StartChild, Acceptance!Lives
<1>24. ASSUME NEW c \in Child, Acceptance!ChildEnds(c) PROVE AcceptanceInv'
  BY <1>24 DEF Acceptance!ChildEnds, Acceptance!Lives
<1> QED
  BY <1>1, <1>2, <1>3, <1>4, <1>5, <1>6, <1>7, <1>8, <1>9, <1>10, <1>11, <1>12,
     <1>13, <1>14, <1>15, <1>16, <1>17, <1>18, <1>19, <1>20, <1>21, <1>22, <1>23,
     <1>24 DEF Acceptance!Next, Acceptance!GateStep

\* The inductive invariant of the acceptance holds.
THEOREM AcceptanceInvariant == Acceptance!Spec => []AcceptanceInv
<1>1. Acceptance!Init => AcceptanceInv
  BY DEF Acceptance!Init, AcceptanceInv, AcceptanceTypes, Process, WorkerRunsOnce,
         GateKnows, CleanUpLasts, Acceptance!Remains, Acceptance!Step
<1>2. AcceptanceInv /\ [Acceptance!Next]_(Acceptance!vars) => AcceptanceInv'
  <2> SUFFICES ASSUME AcceptanceInv, UNCHANGED Acceptance!vars PROVE AcceptanceInv'
    BY AcceptanceStep
  <2> QED
    BY DEF AcceptanceInv, AcceptanceTypes, WorkerRunsOnce, GateKnows, CleanUpLasts,
           Acceptance!Remains, Acceptance!Step, Acceptance!vars
<1> QED
  BY <1>1, <1>2, PTL DEF Acceptance!Spec

\* run and its clean-up: an accepted commit had a soak that passed on that commit,
\* with nothing of it left running; and a clean-up that is reported complete has
\* ended the worker and every process that was ever sampled.
THEOREM AcceptanceIsRight == Acceptance!Spec => []AcceptanceHolds
<1>1. AcceptanceInv => AcceptanceHolds
  BY DEF AcceptanceInv, AcceptanceTypes, WorkerRunsOnce, GateKnows, CleanUpLasts,
         AcceptanceHolds, Acceptance!AcceptanceHolds, Acceptance!PassedIsDone,
         Acceptance!CleanedIsGone
<1> QED
  BY <1>1, AcceptanceInvariant, PTL

=============================================================================
