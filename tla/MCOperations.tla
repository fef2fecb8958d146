---------------------------- MODULE MCOperations ----------------------------
(* Model checking of the commands an operator runs: a pilot, a soak in the  *)
(* background, the preparation of the contracts, the exposure of the        *)
(* participant listener, and the acceptance of a commit. They share         *)
(* nothing: a behaviour is one, the part.                                   *)
EXTENDS PilotRun

CONSTANTS
    Launcher, Reader, foreground, nobody, Lease, Duration, MaxTime, MaxSoakFaults,
    Dep, NoDep, MaxEdits, MaxKills,
    MaxChanges, MaxExposureFaults,
    Child, SoakWorker, MaxTroubles

ASSUME OperationsAssumption ==
    /\ {Lease, Duration, MaxTime, MaxSoakFaults, MaxEdits, MaxKills, MaxChanges,
         MaxExposureFaults, MaxTroubles} \subseteq Nat
    /\ foreground \notin Launcher
    /\ nobody \notin Launcher \cup {foreground}
    /\ SoakWorker \notin Child

VARIABLES
    part,
    state, soakReport, transcript, launcher, query, worker, now, soakFaults,
    lib, backup, source, built, attested, preparation, bundle, edited, edits, kills,
    host, process, manager, surfaces, exposure, changes, exposureFaults,
    gate, written, soak, tree, observed, worktree, late, troubles

pilotVars    == <<run, conf, hub, serves, stale, node, data, observer, chain, disk, report,
                  failures, cut, unacknowledged>>
soakVars     == <<state, soakReport, transcript, launcher, query, worker, now, soakFaults>>
contractVars == <<lib, backup, source, built, attested, preparation, bundle, edited, edits,
                  kills>>
exposureVars == <<host, process, manager, surfaces, exposure, changes, exposureFaults>>
gateVars     == <<gate, written, soak, tree, observed, worktree, late, troubles>>

Soak == INSTANCE SoakRun
          WITH report <- soakReport, faults <- soakFaults, Foreground <- foreground,
               Nobody <- nobody, MaxFaults <- MaxSoakFaults

Contracts == INSTANCE ContractPreparation
               WITH run <- preparation, stale <- edited, faults <- kills,
                    MaxFaults <- MaxKills

Exposure == INSTANCE ServeExposure
              WITH report <- exposure, faults <- exposureFaults,
                   MaxFaults <- MaxExposureFaults

Acceptance == INSTANCE EngineeringAcceptance

MCInit ==
    /\ part \in {"pilot", "soak", "contracts", "exposure", "acceptance"}
    /\ Init /\ Soak!Init /\ Contracts!Init /\ Exposure!Init /\ Acceptance!Init
    /\ part # "pilot" => ~conf.faults /\ conf.stage = "core"
    /\ part # "contracts" => \A d \in Dep : lib[d] = "absent"
    /\ part # "exposure" => host = Exposure!None

MCNext ==
    /\ UNCHANGED part
    /\ \/ /\ part = "pilot" /\ Next
          /\ UNCHANGED <<soakVars, contractVars, exposureVars, gateVars>>
       \/ /\ part = "soak" /\ Soak!Next
          /\ UNCHANGED <<pilotVars, contractVars, exposureVars, gateVars>>
       \/ /\ part = "contracts" /\ Contracts!Next
          /\ UNCHANGED <<pilotVars, soakVars, exposureVars, gateVars>>
       \/ /\ part = "exposure" /\ Exposure!Next
          /\ UNCHANGED <<pilotVars, soakVars, contractVars, gateVars>>
       \/ /\ part = "acceptance" /\ Acceptance!Next
          /\ UNCHANGED <<pilotVars, soakVars, contractVars, exposureVars>>

MCSpec ==
    MCInit /\ [][MCNext]_<<part, pilotVars, soakVars, contractVars, exposureVars, gateVars>>

\* The fairness of each specification, for the part that runs.
Fair(which, A) == part = which /\ A

MCFairness ==
    /\ WF_pilotVars(Fair("pilot", RunStep))
    /\ \A n \in Node : /\ WF_pilotVars(Fair("pilot", NodeStep(n)))
                       /\ WF_pilotVars(Fair("pilot", HandlerEnds(n)))
    /\ \A o \in Observer : WF_pilotVars(Fair("pilot", ObserverStep(o)))
    /\ SF_soakVars(Fair("soak", Soak!Tick))
    /\ \A l \in Launcher : WF_soakVars(Fair("soak", Soak!WorkerStep(l)))
    /\ \A r \in Reader : WF_soakVars(Fair("soak", Soak!Ask(r)))
    /\ \A p \in Soak!Process : WF_soakVars(Fair("soak", Soak!Answer(p)))
    /\ WF_contractVars(Fair("contracts", Contracts!PrepareStep))
    /\ SF_contractVars(Fair("contracts", Contracts!Start(TRUE)))
    /\ WF_exposureVars(Fair("exposure", Exposure!ManagerStep))
    /\ WF_gateVars(Fair("acceptance", Acceptance!GateStep))
    /\ WF_gateVars(Fair("acceptance", Acceptance!TimePasses))

MCFairSpec == MCSpec /\ MCFairness

-----------------------------------------------------------------------------
(* Properties                                                              *)

\* The soak: a recorded success is one, and a recorded outcome stays.
PassedIsReal == Soak!PassedIsReal
OutcomeStays == Soak!OutcomeStays

\* The contracts: what verifies was built from what is there, and a refresh loses
\* no tree.
VerifiedIsBuilt == Contracts!VerifiedIsBuilt
TreeSurvives    == Contracts!TreeSurvives

\* The listener: a run that says it stopped left nothing exposed.
StoppedIsRestored == Exposure!StoppedIsRestored

\* The acceptance: its report is right about the processes it started.
AcceptanceHolds == Acceptance!AcceptanceHolds

Ordered ==
    \/ part \in {"pilot", "contracts"}
    \/ part = "soak" /\ Soak!Reserved
    \/ part = "exposure" /\ Exposure!Exposed
    \/ part = "acceptance" /\ Acceptance!Begun

Ended ==
    \/ part = "pilot" /\ Over
    \/ part = "soak" /\ Soak!Terminal
    \/ part = "contracts" /\ Contracts!Prepared
    \/ part = "exposure" /\ Exposure!Closed
    \/ part = "acceptance" /\ Acceptance!Step("over")

\* Whatever an operator starts comes to an end: RunEnds, ReservationEnds,
\* PreparedAgain, ExposureEnds and AcceptanceEnds of the five specifications.
OperationsEnd == Ordered ~> Ended
=============================================================================
