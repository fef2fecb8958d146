--------------------------- MODULE SystemSnapshot ---------------------------
(***************************************************************************)
(* Snapshots of the pilot service: create_system_snapshot,                 *)
(* restore_system_snapshot and prune_snapshots, beside the service that    *)
(* writes what they copy, and its hash-linked AuditLog.                    *)
(*                                                                         *)
(* The operator runs one command at a time: create at any moment, restore  *)
(* while the service is stopped, as pilot_phases.py does. Retention and    *)
(* the service go on beside it. Commands and the service may be killed and *)
(* their steps may fail. Nobody edits a snapshot, so what its checksums    *)
(* tell is whether it was finished.                                        *)
(***************************************************************************)
EXTENDS Naturals, Sequences

CONSTANTS
    Artifact,
    Retention,      \* older_than_days
    MaxTime,        \* bound: the clock; a snapshot is named for its time
    MaxRecords,     \* bound: audit records
    MaxTasks,       \* bound: tasks in relay.sqlite
    MaxBlock,       \* bound: blocks of the chain
    MaxFaults       \* bound: processes killed and steps that fail

ASSUME SnapshotAssumption ==
    /\ {Retention, MaxTime, MaxRecords, MaxTasks, MaxBlock, MaxFaults} \subseteq Nat
    /\ MaxTime > 0
    /\ Artifact # {}

Name == 1 .. MaxTime

\* The items in the order restore_system_snapshot replaces them.
Restored == <<"pilot", "relay", "audit", "deployment", "state", "artifacts">>

ArtifactsFirst == <<"artifacts", "pilot", "relay", "audit", "deployment", "state">>

\* The items in the order create_system_snapshot copies them. An artifact is
\* written before the row that names it, so the rows are copied before it.
Copied == <<"pilot", "relay", "artifacts", "audit", "deployment", "state">>

Item == {Restored[i] : i \in DOMAIN Restored}

\* A file or directory; one that is torn is what an unfinished write left.
File(value) == [is : {"whole", "torn", "absent"}, value : value]

\* The rows of pilot.sqlite by the artifact they name, the audit log by the
\* hash of its last record and whether each record follows the one before, and
\* versions of the others.
Data == [pilot      : File(SUBSET Artifact),
         relay      : File(Nat),
         audit      : File([head : Nat, linked : BOOLEAN]),
         deployment : File(Nat),
         state      : File(Nat),
         artifacts  : File([Artifact -> {"none", "torn", "whole"}])]

VARIABLES
    live,           \* the files of the service
    service,        \* its process: what it is doing, the artifact of the
                    \* request, and the hash its next record will follow
    snapshots,      \* the directories below the output
    job,            \* the command of the operator
    now, records, faults,
    \* history: a record was lost since the service was started; live is what
    \* an interrupted restore left, or was restored from a copy of that
    lost, mixed

vars == <<live, service, snapshots, job, now, records, faults, lost, mixed>>

Whole(value) == [is |-> "whole", value |-> value]

Fresh == [pilot      |-> Whole({}),
          relay      |-> Whole(0),
          audit      |-> Whole([head |-> 0, linked |-> TRUE]),
          deployment |-> Whole(0),
          state      |-> Whole(0),
          artifacts  |-> Whole([a \in Artifact |-> "none"])]

Blank == [item \in Item |-> [Fresh[item] EXCEPT !.is = "absent"]]

NoSnapshot == [state |-> "none", data |-> Blank, mixed |-> FALSE]

\* before and target are what a restore found, in live and in the snapshot.
NoJob == [step |-> "idle", item |-> 0, name |-> 0, staged |-> Blank, backup |-> Blank,
          before |-> [data |-> Blank, mixed |-> FALSE],
          target |-> [data |-> Blank, mixed |-> FALSE], stuck |-> FALSE]

\* A process is killed or a step fails.
Fault ==
    /\ faults < MaxFaults
    /\ faults' = faults + 1

-----------------------------------------------------------------------------
(* The service                                                             *)

Serving(step) == service.step = step

\* The operator starts the service when no restore is under way.
Restoring == job.step \in {"stage", "apply", "rollback", "restored", "failed",
                           "rollback_failed"}

HeadOfNewLog == 0

\* AuditLog.__init__: the next record follows the last one of the file.
HeadOfFile == live.audit.value.head

\* The service starts on whole databases and a log that verifies.
StartService ==
    /\ Serving("down")
    /\ ~Restoring
    /\ \A item \in {"pilot", "relay", "audit"} : live[item].is = "whole"
    /\ live.audit.value.linked
    /\ service' = [service EXCEPT !.step = "ready", !.head = HeadOfFile]
    /\ live' = [live EXCEPT !.artifacts.is = "whole"]
    /\ lost' = FALSE
    /\ UNCHANGED <<snapshots, job, now, records, faults, mixed>>

StopService ==
    /\ Serving("ready")
    /\ service' = [service EXCEPT !.step = "down", !.head = 0]
    /\ UNCHANGED <<live, snapshots, job, now, records, faults, lost, mixed>>

KillService ==
    /\ ~Serving("down")
    /\ Fault
    /\ service' = [service EXCEPT !.step = "down", !.head = 0]
    /\ UNCHANGED <<live, snapshots, job, now, records, lost, mixed>>

Request == Serving("ready") /\ records < MaxRecords

NeverInTheWay(file) == FALSE

\* A file with other bytes, such as half of them, is a conflict.
InTheWay(file) == file = "torn"

\* LocalArtifactStore.put for an event.
PutArtifact(a) ==
    /\ Request
    /\ LET file == live.artifacts.value[a] IN
         /\ service' = [service EXCEPT
                          !.artifact = a,
                          !.step = CASE file = "none"  -> "write"
                                     [] InTheWay(file) -> "audit"
                                     [] OTHER          -> "insert"]
         /\ live' = IF file = "none"
                    THEN [live EXCEPT !.artifacts.value[a] = "torn"]
                    ELSE live
    /\ UNCHANGED <<snapshots, job, now, records, faults, lost, mixed>>

WriteArtifact ==
    /\ Serving("write")
    /\ live' = [live EXCEPT !.artifacts.value[service.artifact] = "whole"]
    /\ service' = [service EXCEPT !.step = "insert"]
    /\ UNCHANGED <<snapshots, job, now, records, faults, lost, mixed>>

\* The transaction of append_event.
InsertRow ==
    /\ Serving("insert")
    /\ live' = [live EXCEPT !.pilot.value = @ \cup {service.artifact}]
    /\ service' = [service EXCEPT !.step = "audit"]
    /\ UNCHANGED <<snapshots, job, now, records, faults, lost, mixed>>

\* A task enters relay.sqlite. A request that changes nothing is as that of an
\* event that is stored already.
EnqueueTask ==
    /\ Request
    /\ live.relay.value < MaxTasks
    /\ live' = [live EXCEPT !.relay.value = @ + 1]
    /\ service' = [service EXCEPT !.step = "audit"]
    /\ UNCHANGED <<snapshots, job, now, records, faults, lost, mixed>>

\* AuditLog.write, at the end of the request: the hash of the new record is
\* remembered, and then the record written.
WriteRecord ==
    /\ Serving("audit")
    /\ records' = records + 1
    /\ service' = [service EXCEPT !.step = "ready", !.head = records']
    /\ \/ /\ live' = [live EXCEPT !.audit.value =
                        [head   |-> records',
                         linked |-> @.linked /\ @.head = service.head]]
          /\ UNCHANGED <<faults, lost>>
       \/ /\ Fault
          /\ lost' = TRUE
          /\ UNCHANGED live
    /\ UNCHANGED <<snapshots, job, now, mixed>>

-----------------------------------------------------------------------------
(* The operator: create, and the state of the chain it copies              *)

Doing(step) == job.step = step

\* snapshot_chain overwrites state.json with the state of the running chain.
SnapshotChain ==
    /\ Doing("idle")
    /\ live' = [live EXCEPT !.state.is = "torn"]
    /\ job' = [job EXCEPT !.step = "chain"]
    /\ UNCHANGED <<service, snapshots, now, records, faults, lost, mixed>>

WriteState ==
    /\ Doing("chain")
    /\ \E block \in live.state.value .. MaxBlock :
         live' = [live EXCEPT !.state = Whole(block)]
    /\ job' = NoJob
    /\ UNCHANGED <<service, snapshots, now, records, faults, lost, mixed>>

CleanedAlways(name, created) == [snapshots EXCEPT ![name] = NoSnapshot]

\* After a failure the directory is removed, if this command made it.
Cleaned(name, created) ==
    IF created THEN [snapshots EXCEPT ![name] = NoSnapshot] ELSE snapshots

\* The directory is made, or is that of another snapshot of the same second.
CreateBegins ==
    /\ Doing("idle")
    /\ IF snapshots[now].state = "none"
       THEN /\ snapshots' = [snapshots EXCEPT ![now].state = "partial",
                                              ![now].mixed = mixed]
            /\ job' = [job EXCEPT !.step = "copy", !.item = 1, !.name = now]
       ELSE /\ snapshots' = Cleaned(now, FALSE)
            /\ UNCHANGED job
    /\ UNCHANGED <<live, service, now, records, faults, lost, mixed>>

CreateFails ==
    /\ snapshots' = Cleaned(job.name, TRUE)
    /\ job' = NoJob

\* An item that exists and can be read; the artifacts may be missing.
Copyable(item) ==
    \/ item = "artifacts"
    \/ /\ live[item].is = "whole"
       /\ item = "audit" => live.audit.value.linked

CreateCopies ==
    /\ Doing("copy")
    /\ LET item == Copied[job.item] IN
         IF Copyable(item)
         THEN /\ snapshots' = [snapshots EXCEPT ![job.name].data[item] =
                                 Whole(live[item].value)]
              /\ job' = IF job.item < Len(Copied)
                        THEN [job EXCEPT !.item = @ + 1]
                        ELSE [job EXCEPT !.step = "manifest"]
         ELSE CreateFails
    /\ UNCHANGED <<live, service, now, records, faults, lost, mixed>>

WriteManifest ==
    /\ Doing("manifest")
    /\ snapshots' = [snapshots EXCEPT ![job.name].state = "manifest"]
    /\ job' = [job EXCEPT !.step = "checksums"]
    /\ UNCHANGED <<live, service, now, records, faults, lost, mixed>>

WriteChecksums ==
    /\ Doing("checksums")
    /\ snapshots' = [snapshots EXCEPT ![job.name].state = "sealed"]
    /\ job' = [job EXCEPT !.step = "verify"]
    /\ UNCHANGED <<live, service, now, records, faults, lost, mixed>>

\* verify_system_snapshot: every file is there, listed and as it was sealed.
Verifies(name) == snapshots[name].state \in {"sealed", "complete"}

\* The snapshot is verified and the command returns it.
CreateReturns ==
    /\ Doing("verify")
    /\ IF Verifies(job.name)
       THEN /\ snapshots' = [snapshots EXCEPT ![job.name].state = "complete"]
            /\ job' = NoJob
       ELSE CreateFails
    /\ UNCHANGED <<live, service, now, records, faults, lost, mixed>>

CreateError ==
    /\ job.step \in {"copy", "manifest", "checksums", "verify"}
    /\ Fault
    /\ CreateFails
    /\ UNCHANGED <<live, service, now, records, lost, mixed>>

-----------------------------------------------------------------------------
(* Retention                                                               *)

\* prune_snapshots: one that is old and verifies is removed. One that is old,
\* has its manifest and does not verify stops every run.
Prune(name) ==
    /\ name + Retention < now
    /\ Verifies(name)
    /\ snapshots' = [snapshots EXCEPT ![name].state = "removing"]
    /\ UNCHANGED <<live, service, job, now, records, faults, lost, mixed>>

\* shutil.rmtree removes one file after the other.
RemoveTree(name) ==
    /\ snapshots[name].state = "removing"
    /\ \/ \E a \in Artifact :
            /\ snapshots[name].data.artifacts.value[a] # "none"
            /\ snapshots' = [snapshots EXCEPT
                               ![name].data.artifacts.value[a] = "none"]
       \/ snapshots' = [snapshots EXCEPT ![name] = NoSnapshot]
    /\ UNCHANGED <<live, service, job, now, records, faults, lost, mixed>>

-----------------------------------------------------------------------------
(* The operator: restore                                                   *)

RestoreBegins(name) ==
    /\ Doing("idle")
    /\ Serving("down")
    /\ Verifies(name)
    /\ job' = [NoJob EXCEPT
                 !.step = "stage", !.item = 1, !.name = name,
                 !.before = [data |-> live, mixed |-> mixed],
                 !.target = [data |-> snapshots[name].data,
                             mixed |-> snapshots[name].mixed]]
    /\ UNCHANGED <<live, service, snapshots, now, records, faults, lost, mixed>>

\* Before live is touched, every item is copied from the snapshot and backed
\* up, and the copies are verified.
RestoreStages ==
    /\ Doing("stage")
    /\ LET item == Restored[job.item]
           last == job.item = Len(Restored)
       IN  IF snapshots[job.name].state = "none"
           THEN /\ job' = [job EXCEPT !.step = "failed"]
                /\ UNCHANGED mixed
           ELSE /\ job' = [job EXCEPT
                             !.staged[item] = snapshots[job.name].data[item],
                             !.backup[item] = live[item],
                             !.step = IF last THEN "apply" ELSE "stage",
                             !.item = IF last THEN 1 ELSE @ + 1]
                /\ mixed' = (mixed \/ last)
    /\ UNCHANGED <<live, service, snapshots, now, records, faults, lost>>

StageError ==
    /\ Doing("stage")
    /\ Fault
    /\ job' = [job EXCEPT !.step = "failed"]
    /\ UNCHANGED <<live, service, snapshots, now, records, lost, mixed>>

\* _apply_restore_item. The last one makes live the snapshot, unless the
\* artifacts staged are those of a snapshot being removed.
RestoreApplies ==
    /\ Doing("apply")
    /\ LET item == Restored[job.item]
           last == job.item = Len(Restored)
       IN  /\ live' = [live EXCEPT ![item] = job.staged[item]]
           /\ job' = IF last THEN [job EXCEPT !.step = "restored"]
                             ELSE [job EXCEPT !.item = @ + 1]
           /\ mixed' = IF last THEN \/ job.target.mixed
                                    \/ job.staged.artifacts # job.target.data.artifacts
                               ELSE mixed
    /\ UNCHANGED <<service, snapshots, now, records, faults, lost>>

\* live with an item left torn or absent.
Broken(item, is) ==
    [live EXCEPT ![item] = IF is = "absent" THEN Blank[item] ELSE [@ EXCEPT !.is = is]]

\* A database is written over, a directory removed before it is replaced, and
\* another file replaced at once.
HalfApplied(item) ==
    CASE item \in {"pilot", "relay"} -> {"torn"}
      [] item = "artifacts"          -> {"absent"}
      [] OTHER                       -> {}

\* Rolled back, a file is removed and written anew.
HalfRolledBack(item) ==
    IF HalfApplied(item) = {} THEN {"torn", "absent"} ELSE HalfApplied(item)

CommittedAfter(item) == job.item - 1

\* The items to roll back: those replaced, and the one that failed unless it is
\* replaced at once.
Committed(item) ==
    IF item \in {"pilot", "relay", "artifacts"} THEN job.item ELSE job.item - 1

ApplyError ==
    /\ Doing("apply")
    /\ Fault
    /\ LET item == Restored[job.item] IN
         /\ live' \in {live} \cup {Broken(item, is) : is \in HalfApplied(item)}
         /\ job' = [job EXCEPT !.step = "rollback", !.item = Committed(item)]
    /\ UNCHANGED <<service, snapshots, now, records, lost, mixed>>

\* _rollback_restore_item, in reverse order. An item that cannot be rolled back
\* does not keep the others from it.
RollBack ==
    /\ Doing("rollback")
    /\ job.item > 0
    /\ LET item == Restored[job.item] IN
         \/ /\ live' = [live EXCEPT ![item] = job.backup[item]]
            /\ job' = [job EXCEPT !.item = @ - 1]
            /\ UNCHANGED faults
         \/ /\ Fault
            /\ live' \in {live} \cup {Broken(item, is) : is \in HalfRolledBack(item)}
            /\ job' = [job EXCEPT !.item = @ - 1, !.stuck = TRUE]
    /\ UNCHANGED <<service, snapshots, now, records, lost, mixed>>

RolledBack ==
    /\ Doing("rollback")
    /\ job.item = 0
    /\ job' = [job EXCEPT !.step = IF job.stuck THEN "rollback_failed" ELSE "failed"]
    /\ mixed' = IF job.stuck THEN TRUE ELSE job.before.mixed
    /\ UNCHANGED <<live, service, snapshots, now, records, faults, lost>>

\* The staged copies and the backups are removed and the command ends.
RestoreReturns ==
    /\ job.step \in {"restored", "failed", "rollback_failed"}
    /\ job' = NoJob
    /\ UNCHANGED <<live, service, snapshots, now, records, faults, lost, mixed>>

KillCommand ==
    /\ ~Doing("idle")
    /\ Fault
    /\ job' = NoJob
    /\ UNCHANGED <<live, service, snapshots, now, records, lost, mixed>>

-----------------------------------------------------------------------------
Tick ==
    /\ now < MaxTime
    /\ now' = now + 1
    /\ UNCHANGED <<live, service, snapshots, job, records, faults, lost, mixed>>

Init ==
    /\ live = Fresh
    /\ service = [step |-> "down", artifact |-> CHOOSE a \in Artifact : TRUE, head |-> 0]
    /\ snapshots = [name \in Name |-> NoSnapshot]
    /\ job = NoJob
    /\ now = 1
    /\ records = 0
    /\ faults = 0
    /\ lost = FALSE
    /\ mixed = FALSE

Next ==
    \/ StartService \/ StopService \/ KillService
    \/ \E a \in Artifact : PutArtifact(a)
    \/ WriteArtifact \/ InsertRow \/ EnqueueTask \/ WriteRecord
    \/ SnapshotChain \/ WriteState
    \/ CreateBegins \/ CreateCopies \/ WriteManifest \/ WriteChecksums
    \/ CreateReturns \/ CreateError
    \/ \E name \in Name : Prune(name) \/ RemoveTree(name) \/ RestoreBegins(name)
    \/ RestoreStages \/ StageError \/ RestoreApplies \/ ApplyError
    \/ RollBack \/ RolledBack \/ RestoreReturns \/ KillCommand
    \/ Tick

Spec == Init /\ [][Next]_vars

-----------------------------------------------------------------------------
(* Properties                                                              *)

\* The directory of a snapshot that is being made is as far as its command.
DirectoryOf(step) ==
    CASE step \in {"copy", "manifest"} -> {"partial"}
      [] step = "checksums"            -> {"manifest"}
      [] OTHER                         -> {"sealed", "removing", "none"}

\* The type invariant.
TypeOK ==
    /\ live \in Data
    /\ service \in [step : {"down", "ready", "write", "insert", "audit"},
                    artifact : Artifact, head : Nat]
    /\ snapshots \in [Name -> [state : {"none", "partial", "manifest", "sealed",
                                        "complete", "removing"},
                               data : Data, mixed : BOOLEAN]]
    /\ job \in [step : {"idle", "chain", "copy", "manifest", "checksums", "verify",
                        "stage", "apply", "rollback", "restored", "failed",
                        "rollback_failed"},
                item : 0 .. Len(Restored), name : Name \cup {0},
                staged : Data, backup : Data,
                before : [data : Data, mixed : BOOLEAN],
                target : [data : Data, mixed : BOOLEAN], stuck : BOOLEAN]
    /\ job.step \in {"copy", "manifest", "checksums", "verify"} =>
         snapshots[job.name].state \in DirectoryOf(job.step)
    /\ now \in 1 .. MaxTime
    /\ records \in 0 .. MaxRecords
    /\ faults \in 0 .. MaxFaults
    /\ lost \in BOOLEAN
    /\ mixed \in BOOLEAN

RowsIn(data) == IF data.pilot.is = "whole" THEN data.pilot.value ELSE {}

SelfContained(data) ==
    \A a \in RowsIn(data) :
        data.artifacts.is = "whole" /\ data.artifacts.value[a] = "whole"

\* A snapshot that verifies has the artifact of every row it has, though the
\* service went on writing both while they were copied.
SnapshotSelfContained ==
    \A name \in Name :
        Verifies(name) /\ ~snapshots[name].mixed => SelfContained(snapshots[name].data)

\* The service never loses the artifact of a row it keeps: not by being
\* killed, not by a restore, and not by one that fails and is rolled back.
RowsHaveArtifacts == ~mixed => SelfContained(live)

\* A restore that reports success has replaced every item by that of the
\* snapshot as it was verified, but for artifacts that retention removed in
\* between; one that fails has changed nothing.
RestoreAllOrNothing ==
    /\ Doing("failed") => live = job.before.data
    /\ Doing("restored") =>
         \A item \in Item :
            \/ live[item] = job.target.data[item]
            \/ item = "artifacts" /\ ~Verifies(job.name)

\* A snapshot that create returned stays as it was until it is old enough.
CompleteKept ==
    [][\A name \in Name :
         snapshots[name].state = "complete" /\ name + Retention >= now =>
           snapshots'[name] = snapshots[name]]_vars

\* The log verifies as long as no record was lost: the record after a restart
\* or a restore follows the last one of the file, whichever file it now is.
AuditVerifies == ~lost => live.audit.value.linked
=============================================================================
