------------------------ MODULE SystemSnapshotProofs ------------------------
(***************************************************************************)
(* Proofs about the stored data, for every value of the constants. Of      *)
(* SystemSnapshot: its types, that a snapshot fits together, that the      *)
(* service never loses an artifact, that a restore is all or nothing, that *)
(* a complete snapshot is kept, and that the audit log verifies as long as *)
(* no record was lost. Of DisputeReview: what a plan rests on. Of          *)
(* LiveEvidence as MCStoredData runs it: its chain.                        *)
(***************************************************************************)
EXTENDS MCStoredData, FiniteSetTheorems, TLAPS

\* The bounds are natural numbers, and there is a time and an artifact.
LEMMA Bounds ==
  /\ Retention \in Nat /\ MaxTime \in Nat \ {0}
  /\ MaxRecords \in Nat /\ MaxTasks \in Nat /\ MaxBlock \in Nat /\ MaxFaults \in Nat
  /\ Artifact # {}
  BY SnapshotAssumption

USE Bounds

-----------------------------------------------------------------------------
(* The inductive invariant                                                 *)

\* A command that makes or reads a directory has its name, and one that does not
\* restore has nothing staged. A request that is served has a record to write.
JobInv ==
    /\ ~(Doing("idle") \/ Doing("chain")) => job.name \in Name
    /\ Doing("copy") => job.item \in 1 .. 6
    /\ Doing("stage") \/ Doing("apply") => job.item \in 1 .. 6
    /\ ~Restoring => job.staged = Blank /\ job.backup = Blank
    /\ service.step \in {"write", "insert", "audit"} => records < MaxRecords

\* No service runs while a restore is under way; one that runs has a directory
\* of artifacts, and in it the artifact whose row it is about to insert.
ServiceInv ==
    /\ Restoring => Serving("down")
    /\ ~Serving("down") => live.artifacts.is = "whole"
    /\ Serving("insert") => live.artifacts.value[service.artifact] = "whole"

Linked(data) == data.audit.value.linked

\* The hash that the service remembers is that of the last record, and every
\* copy of the log verifies.
AuditInv ==
    /\ AuditVerifies
    /\ ~Serving("down") /\ ~lost => service.head = live.audit.value.head
    /\ \A name \in Name : Linked(snapshots[name].data)
    /\ Linked(job.staged)
    /\ lost \/ Linked(job.backup)

ArtifactsCopied ==
    \/ Doing("copy") /\ job.item > 3
    \/ Doing("manifest")
    \/ Doing("checksums")

\* The rows that were copied have their artifact in live, and, once the
\* artifacts were copied, in the directory.
CreateInv ==
    /\ job.step \in {"copy", "manifest", "checksums"} =>
         snapshots[job.name].mixed = mixed
    /\ Doing("copy") /\ job.item \in {2, 3} /\ ~mixed =>
         \A a \in RowsIn(snapshots[job.name].data) :
            live.artifacts.is = "whole" /\ live.artifacts.value[a] = "whole"
    /\ ArtifactsCopied /\ ~mixed => SelfContained(snapshots[job.name].data)

\* From the directory a restore reads, retention may take the artifacts away,
\* or the whole of it.
SourceInv ==
    /\ job.step \in {"stage", "apply", "restored"} =>
         /\ snapshots[job.name].state \in {"none", "sealed", "complete", "removing"}
         /\ Verifies(job.name) => snapshots[job.name].data = job.target.data
    /\ Doing("stage") /\ snapshots[job.name].state = "removing" =>
         \A item \in Item \ {"artifacts"} :
            snapshots[job.name].data[item] = job.target.data[item]
    /\ job.step \in {"stage", "apply"} /\ ~job.target.mixed =>
         SelfContained(job.target.data)
    /\ job.step \in {"stage", "apply", "rollback"} /\ ~job.before.mixed =>
         SelfContained(job.before.data)

\* Of the staged copies, those of the items before the i-th are the snapshot's;
\* of the backups, live's.
StagedTo(i) ==
    /\ \A j \in 1 .. i - 1 : j # 6 => job.staged[Restored[j]] = job.target.data[Restored[j]]
    /\ i = 7 /\ Verifies(job.name) => job.staged.artifacts = job.target.data.artifacts
    /\ \A j \in 1 .. i - 1 : job.backup[Restored[j]] = job.before.data[Restored[j]]

\* How far a restore is: live is what it was, then item by item what was
\* staged, or, item by item from the end, what it was again.
RestoreInv ==
    /\ Doing("stage") =>
         /\ live = job.before.data
         /\ mixed = job.before.mixed
         /\ StagedTo(job.item)
    /\ Doing("apply") =>
         /\ mixed
         /\ StagedTo(7)
         /\ \A j \in 1 .. 6 : live[Restored[j]] = IF j < job.item
                                                  THEN job.staged[Restored[j]]
                                                  ELSE job.before.data[Restored[j]]
    /\ Doing("rollback") =>
         /\ mixed
         /\ job.backup = job.before.data
         /\ ~job.stuck => \A j \in 1 .. 6 : j > job.item =>
                             live[Restored[j]] = job.before.data[Restored[j]]
    /\ RestoreAllOrNothing

\* The inductive invariant.
IInv ==
    /\ TypeOK
    /\ JobInv
    /\ ServiceInv
    /\ AuditInv
    /\ CreateInv
    /\ SourceInv
    /\ RestoreInv
    /\ SnapshotSelfContained
    /\ RowsHaveArtifacts

-----------------------------------------------------------------------------
(* Files                                                                   *)

\* restore_system_snapshot and create_system_snapshot take the same six items.
LEMMA ItemsAre ==
  /\ Item = {"pilot", "relay", "audit", "deployment", "state", "artifacts"}
  /\ Len(Restored) = 6
  /\ \A i \in 1 .. 6 : Restored[i] \in Item /\ Copied[i] \in Item
  /\ Len(Copied) = 6
  BY DEF Item, Restored, Copied

\* The data of a new service and those of an empty directory.
LEMMA FreshTypes == Fresh \in Data /\ Blank \in Data
<1>1. Fresh \in Data
  BY DEF Data, Fresh, Whole, File
<1>2. Blank \in Data
  BY <1>1, ItemsAre DEF Data, Fresh, Whole, File, Blank
<1> QED
  BY <1>1, <1>2

\* An item taken from other data.
LEMMA ItemTypes ==
  ASSUME NEW d \in Data, NEW e \in Data, NEW item \in Item
  PROVE  /\ [d EXCEPT ![item] = e[item]] \in Data
         /\ [d EXCEPT ![item] = Whole(e[item].value)] \in Data
         /\ \A is \in {"torn", "absent"} : [d EXCEPT ![item] = [@ EXCEPT !.is = is]] \in Data
  BY ItemsAre DEF Data, File, Whole

\* Two sets of files that have the same items are the same.
LEMMA SameData ==
  ASSUME NEW d \in Data, NEW e \in Data, \A item \in Item : d[item] = e[item]
  PROVE  d = e
  BY ItemsAre DEF Data

-----------------------------------------------------------------------------
(* Types                                                                   *)

ServiceSet == [step : {"down", "ready", "write", "insert", "audit"},
               artifact : Artifact, head : Nat]

SnapshotSet == [state : {"none", "partial", "manifest", "sealed", "complete",
                         "removing"},
                data : Data, mixed : BOOLEAN]

JobSet == [step : {"idle", "chain", "copy", "manifest", "checksums", "verify",
                   "stage", "apply", "rollback", "restored", "failed",
                   "rollback_failed"},
           item : 0 .. Len(Restored), name : Name \cup {0},
           staged : Data, backup : Data,
           before : [data : Data, mixed : BOOLEAN],
           target : [data : Data, mixed : BOOLEAN], stuck : BOOLEAN]

\* TypeOK, with names for its sets.
Types ==
    /\ live \in Data
    /\ service \in ServiceSet
    /\ snapshots \in [Name -> SnapshotSet]
    /\ job \in JobSet
    /\ now \in Name
    /\ records \in 0 .. MaxRecords
    /\ faults \in 0 .. MaxFaults
    /\ lost \in BOOLEAN
    /\ mixed \in BOOLEAN

Making == job.step \in {"copy", "manifest", "checksums", "verify"}

InStep == Making => snapshots[job.name].state \in DirectoryOf(job.step)

\* The type invariant, part by part.
LEMMA TypesAre == TypeOK <=> Types /\ InStep
  BY DEF TypeOK, Types, InStep, Making, ServiceSet, SnapshotSet, JobSet, Name

\* The same after a step.
LEMMA TypesArePrimed == TypeOK' <=> Types' /\ InStep'
  BY DEF TypeOK, Types, InStep, Making, ServiceSet, SnapshotSet, JobSet, Name

\* The state of the initial predicate has the declared types.
LEMMA InitTypes == Init => TypeOK /\ JobInv
<1> SUFFICES ASSUME Init PROVE TypeOK /\ JobInv
  OBVIOUS
<1>1. NoSnapshot \in SnapshotSet /\ NoJob \in JobSet
  BY FreshTypes, ItemsAre DEF SnapshotSet, JobSet, NoSnapshot, NoJob
<1>2. service \in ServiceSet /\ service.step = "down"
  BY DEF Init, ServiceSet
<1>3. NoJob.step = "idle" /\ NoJob.staged = Blank /\ NoJob.backup = Blank
  BY DEF NoJob
<1>4. Types
  <2>0. /\ now = 1 /\ records = 0 /\ faults = 0
        /\ lost \in BOOLEAN /\ mixed \in BOOLEAN
    BY DEF Init
  <2>1. now \in Name /\ records \in 0 .. MaxRecords /\ faults \in 0 .. MaxFaults
    BY <2>0 DEF Name
  <2>2. live \in Data /\ snapshots \in [Name -> SnapshotSet] /\ job \in JobSet
    BY <1>1, FreshTypes DEF Init
  <2> QED
    BY <1>2, <2>0, <2>1, <2>2 DEF Types
<1>5. InStep
  BY <1>3 DEF Init, InStep, Making
<1> QED
  BY <1>2, <1>3, <1>4, <1>5, TypesAre DEF Init, JobInv, Doing

\* What the service and snapshot_chain do to the files.
LEMMA EditTypes ==
  ASSUME NEW d \in Data, NEW a \in Artifact, NEW n \in Nat
  PROVE  /\ d.audit.value \in [head : Nat, linked : BOOLEAN]
         /\ d.state.value \in Nat
         /\ [d EXCEPT !.artifacts.is = "whole"] \in Data
         /\ \A file \in {"none", "torn", "whole"} :
              [d EXCEPT !.artifacts.value[a] = file] \in Data
         /\ [d EXCEPT !.pilot.value = @ \cup {a}] \in Data
         /\ [d EXCEPT !.state.is = "torn"] \in Data
         /\ [d EXCEPT !.state = Whole(n)] \in Data
  BY DEF Data, File, Whole

\* The steps of the service and of the clock keep the types.
LEMMA ServiceTypes ==
  ASSUME TypeOK, JobInv,
         \/ StartService \/ StopService \/ KillService
         \/ \E a \in Artifact : PutArtifact(a)
         \/ WriteArtifact \/ InsertRow \/ EnqueueTask \/ WriteRecord \/ Tick
  PROVE  TypeOK' /\ JobInv'
<1> USE DEF JobInv, Doing, Restoring, Serving, Fault, Types, InStep, Making
<1>0. Types /\ InStep
  BY TypesAre
<1>1. CASE StartService
  <2>1. live' \in Data /\ HeadOfFile \in Nat
    BY <1>0, <1>1, EditTypes DEF StartService, HeadOfFile
  <2>2. service' \in ServiceSet
    BY <1>0, <1>1, <2>1 DEF StartService, ServiceSet
  <2>3. Types'
    BY <1>0, <1>1, <2>1, <2>2 DEF StartService
  <2>4. InStep' /\ JobInv'
    BY <1>0, <1>1, <2>2 DEF StartService
  <2> QED
    BY <2>3, <2>4, TypesArePrimed
<1>2. CASE StopService
  BY <1>0, <1>2, TypesArePrimed DEF StopService, ServiceSet
<1>3. CASE KillService
  <2>1. faults' \in 0 .. MaxFaults
    BY <1>0, <1>3 DEF KillService
  <2>2. service' \in ServiceSet
    BY <1>0, <1>3 DEF KillService, ServiceSet
  <2>3. Types'
    BY <1>0, <1>3, <2>1, <2>2 DEF KillService
  <2>4. InStep' /\ JobInv'
    BY <1>0, <1>3, <2>2 DEF KillService
  <2> QED
    BY <2>3, <2>4, TypesArePrimed
<1>4. CASE \E a \in Artifact : PutArtifact(a)
  <2>1. PICK a \in Artifact : PutArtifact(a)
    BY <1>4
  <2>2. live' \in Data
    BY <1>0, <2>1, EditTypes DEF PutArtifact
  <2>3. service' \in ServiceSet
    BY <1>0, <2>1 DEF PutArtifact, ServiceSet
  <2> QED
    BY <1>0, <2>1, <2>2, <2>3, TypesArePrimed DEF PutArtifact, Request
<1>5. CASE WriteArtifact
  BY <1>0, <1>5, EditTypes, TypesArePrimed DEF WriteArtifact, ServiceSet
<1>6. CASE InsertRow
  BY <1>0, <1>6, EditTypes, TypesArePrimed DEF InsertRow, ServiceSet
<1>7. CASE EnqueueTask
  <2>1. live' \in Data
    BY <1>0, <1>7 DEF EnqueueTask, Data, File
  <2>2. service' \in ServiceSet
    BY <1>0, <1>7 DEF EnqueueTask, ServiceSet
  <2>3. Types'
    BY <1>0, <1>7, <2>1, <2>2 DEF EnqueueTask
  <2>4. InStep' /\ JobInv'
    BY <1>0, <1>7, <2>2 DEF EnqueueTask, Request
  <2> QED
    BY <2>3, <2>4, TypesArePrimed
<1>8. CASE WriteRecord
  <2>1. records \in Nat /\ records' \in 0 .. MaxRecords /\ faults' \in 0 .. MaxFaults
    BY <1>0, <1>8 DEF WriteRecord
  <2>2. live' \in Data
    <3>1. records' \in Nat /\ live.audit \in File([head : Nat, linked : BOOLEAN])
      BY <1>0, <2>1 DEF Data
    <3>2. (live.audit.value.linked /\ live.audit.value.head = service.head) \in BOOLEAN
      OBVIOUS
    <3>3. \A b \in BOOLEAN : [live EXCEPT !.audit.value =
                                  [head |-> records', linked |-> b]] \in Data
      BY <1>0, <3>1 DEF Data, File
    <3> QED
      BY <1>0, <1>8, <3>2, <3>3 DEF WriteRecord
  <2>3. service' \in ServiceSet
    <3>1. records' \in Nat
      BY <2>1
    <3> QED
      BY <1>0, <1>8, <3>1 DEF WriteRecord, ServiceSet
  <2>4. lost' \in BOOLEAN
    BY <1>0, <1>8 DEF WriteRecord
  <2>5. Types'
    BY <1>0, <1>8, <2>1, <2>2, <2>3, <2>4 DEF WriteRecord
  <2>6. InStep' /\ JobInv'
    BY <1>0, <1>8 DEF WriteRecord, ServiceSet
  <2> QED
    BY <2>5, <2>6, TypesArePrimed
<1>9. CASE Tick
  BY <1>0, <1>9, TypesArePrimed DEF Tick, Name
<1> QED
  BY <1>1, <1>2, <1>3, <1>4, <1>5, <1>6, <1>7, <1>8, <1>9

\* What the commands and retention do to a directory.
LEMMA DirectoryTypes ==
  ASSUME snapshots \in [Name -> SnapshotSet], NEW name \in Name
  PROVE  /\ NoSnapshot \in SnapshotSet
         /\ [snapshots EXCEPT ![name] = NoSnapshot] \in [Name -> SnapshotSet]
         /\ \A state \in {"none", "partial", "manifest", "sealed", "complete", "removing"} :
              [snapshots EXCEPT ![name].state = state] \in [Name -> SnapshotSet]
         /\ \A item \in Item, d \in Data :
              [snapshots EXCEPT ![name].data[item] = Whole(d[item].value)]
                \in [Name -> SnapshotSet]
         /\ \A a \in Artifact :
              [snapshots EXCEPT ![name].data.artifacts.value[a] = "none"]
                \in [Name -> SnapshotSet]
<1>1. NoSnapshot \in SnapshotSet
  BY FreshTypes DEF SnapshotSet, NoSnapshot
<1>2. \A item \in Item, d \in Data :
        [snapshots EXCEPT ![name].data[item] = Whole(d[item].value)] \in [Name -> SnapshotSet]
  <2> SUFFICES ASSUME NEW item \in Item, NEW d \in Data
               PROVE  [snapshots EXCEPT ![name].data[item] = Whole(d[item].value)]
                        \in [Name -> SnapshotSet]
    OBVIOUS
  <2>1. snapshots[name].data \in Data
    BY DEF SnapshotSet
  <2>2. [snapshots[name].data EXCEPT ![item] = Whole(d[item].value)] \in Data
    BY <2>1, ItemTypes
  <2> QED
    BY <2>2 DEF SnapshotSet
<1>3. \A a \in Artifact :
        [snapshots EXCEPT ![name].data.artifacts.value[a] = "none"] \in [Name -> SnapshotSet]
  <2> SUFFICES ASSUME NEW a \in Artifact
               PROVE  [snapshots EXCEPT ![name].data.artifacts.value[a] = "none"]
                        \in [Name -> SnapshotSet]
    OBVIOUS
  <2>1. snapshots[name].data \in Data
    BY DEF SnapshotSet
  <2>2. [snapshots[name].data EXCEPT !.artifacts.value[a] = "none"] \in Data
    BY <2>1, EditTypes
  <2> QED
    BY <2>2 DEF SnapshotSet
<1> QED
  BY <1>1, <1>2, <1>3 DEF SnapshotSet

\* The steps of a create and of retention keep the types.
LEMMA CreateTypes ==
  ASSUME TypeOK, JobInv,
         \/ SnapshotChain \/ WriteState \/ CreateBegins \/ CreateCopies
         \/ WriteManifest \/ WriteChecksums \/ CreateReturns \/ CreateError
         \/ \E name \in Name : Prune(name) \/ RemoveTree(name)
  PROVE  TypeOK' /\ JobInv'
<1> USE DEF JobInv, Doing, Restoring, InStep, Making
<1>0. Types /\ InStep
  BY TypesAre
<1>n. /\ NoJob \in JobSet /\ NoJob.step = "idle" /\ NoJob.staged = Blank
      /\ NoJob.backup = Blank
  BY FreshTypes, ItemsAre DEF JobSet, NoJob
<1>1. CASE SnapshotChain
  <2>1. live' \in Data
    BY <1>0, <1>1, EditTypes DEF SnapshotChain, Types
  <2>2. job' \in JobSet
    BY <1>0, <1>1 DEF SnapshotChain, Types, JobSet
  <2>3. Types'
    BY <1>0, <1>1, <2>1, <2>2 DEF SnapshotChain, Types
  <2>4. InStep' /\ JobInv'
    BY <1>0, <1>1, <2>2 DEF SnapshotChain, Types, JobSet
  <2> QED
    BY <2>3, <2>4, TypesArePrimed
<1>2. CASE WriteState
  <2>1. live' \in Data
    <3>1. live.state.value \in Nat
      BY <1>0 DEF Types, Data, File
    <3>2. PICK block \in live.state.value .. MaxBlock :
            live' = [live EXCEPT !.state = Whole(block)]
      BY <1>2 DEF WriteState
    <3>3. block \in Nat
      BY <3>1
    <3> QED
      BY <1>0, <3>2, <3>3, EditTypes DEF Types
  <2>2. Types'
    BY <1>0, <1>2, <1>n, <2>1 DEF WriteState, Types
  <2>3. InStep' /\ JobInv'
    BY <1>0, <1>2, <1>n DEF WriteState
  <2> QED
    BY <2>2, <2>3, TypesArePrimed
<1>3. CASE CreateBegins
  <2>1. snapshots' \in [Name -> SnapshotSet]
    BY <1>0, <1>3 DEF CreateBegins, Cleaned, Types, SnapshotSet
  <2>2. CASE snapshots[now].state = "none"
    <3>1. /\ now \in Name
          /\ job' = [job EXCEPT !.step = "copy", !.item = 1, !.name = now]
          /\ snapshots'[now].state = "partial"
      BY <1>0, <1>3, <2>2 DEF CreateBegins, Types, SnapshotSet
    <3>2. 1 \in 0 .. Len(Restored)
      BY ItemsAre
    <3>3. job' \in JobSet
      BY <1>0, <3>1, <3>2 DEF Types, JobSet
    <3>4. /\ job'.step = "copy" /\ job'.item = 1 /\ job'.name = now
          /\ job'.staged = job.staged /\ job'.backup = job.backup
      BY <1>0, <3>1 DEF Types, JobSet
    <3>5. Types'
      BY <1>0, <1>3, <2>1, <3>3 DEF CreateBegins, Types
    <3>6. InStep'
      BY <3>1, <3>4 DEF DirectoryOf
    <3>7. JobInv'
      BY <1>3, <3>1, <3>4 DEF CreateBegins
    <3> QED
      BY <3>5, <3>6, <3>7, TypesArePrimed
  <2>3. CASE snapshots[now].state # "none"
    <3>1. snapshots' = snapshots /\ job' = job
      BY <1>3, <2>3 DEF CreateBegins, Cleaned
    <3> QED
      BY <1>3, <3>1 DEF CreateBegins, TypeOK
  <2> QED
    BY <2>2, <2>3
<1>f. ASSUME CreateFails, Making, UNCHANGED <<live, service, now, records, lost, mixed>>,
             faults' \in 0 .. MaxFaults
      PROVE  TypeOK' /\ JobInv'
  <2>1. job.name \in Name
    BY <1>f
  <2>2. snapshots' \in [Name -> SnapshotSet]
    BY <1>0, <1>f, <2>1, DirectoryTypes DEF CreateFails, Cleaned, Types
  <2>3. Types'
    BY <1>0, <1>n, <1>f, <2>2 DEF CreateFails, Types
  <2>4. InStep' /\ JobInv'
    BY <1>n, <1>f DEF CreateFails
  <2> QED
    BY <2>3, <2>4, TypesArePrimed
<1>4. CASE CreateCopies
  <2>1. CASE CreateFails
    BY <1>0, <1>4, <1>f, <2>1 DEF CreateCopies, Types
  <2>2. CASE ~CreateFails
    <3>1. /\ snapshots' = [snapshots EXCEPT ![job.name].data[Copied[job.item]] =
                              Whole(live[Copied[job.item]].value)]
          /\ job' = IF job.item < Len(Copied) THEN [job EXCEPT !.item = @ + 1]
                                              ELSE [job EXCEPT !.step = "manifest"]
      BY <1>4, <2>2 DEF CreateCopies
    <3>2. job.name \in Name /\ job.item \in 1 .. 6 /\ Copied[job.item] \in Item
      BY <1>4, ItemsAre DEF CreateCopies
    <3>3. snapshots' \in [Name -> SnapshotSet]
      BY <1>0, <3>1, <3>2, DirectoryTypes DEF Types
    <3>4. job' \in JobSet /\ JobInv'
      BY <1>0, <1>4, <3>1, <3>2, ItemsAre DEF CreateCopies, Types, JobSet
    <3>5. Types'
      BY <1>0, <1>4, <3>3, <3>4 DEF CreateCopies, Types
    <3>6. InStep'
      BY <1>0, <1>4, <3>1, <3>2 DEF CreateCopies, Types, SnapshotSet, JobSet, DirectoryOf
    <3> QED
      BY <3>4, <3>5, <3>6, TypesArePrimed
  <2> QED
    BY <2>1, <2>2
<1>5. CASE WriteManifest
  <2>1. snapshots' \in [Name -> SnapshotSet]
    BY <1>0, <1>5, DirectoryTypes DEF WriteManifest, Types
  <2>2. job' \in JobSet /\ JobInv'
    BY <1>0, <1>5 DEF WriteManifest, Types, JobSet
  <2>3. Types'
    BY <1>0, <1>5, <2>1, <2>2 DEF WriteManifest, Types
  <2>4. InStep'
    BY <1>0, <1>5 DEF WriteManifest, Types, SnapshotSet, JobSet, DirectoryOf
  <2> QED
    BY <2>2, <2>3, <2>4, TypesArePrimed
<1>6. CASE WriteChecksums
  <2>1. snapshots' \in [Name -> SnapshotSet]
    BY <1>0, <1>6, DirectoryTypes DEF WriteChecksums, Types
  <2>2. job' \in JobSet /\ JobInv'
    BY <1>0, <1>6 DEF WriteChecksums, Types, JobSet
  <2>3. Types'
    BY <1>0, <1>6, <2>1, <2>2 DEF WriteChecksums, Types
  <2>4. InStep'
    BY <1>0, <1>6 DEF WriteChecksums, Types, SnapshotSet, JobSet, DirectoryOf
  <2> QED
    BY <2>2, <2>3, <2>4, TypesArePrimed
<1>7. CASE CreateReturns
  <2>1. CASE CreateFails
    BY <1>0, <1>7, <1>f, <2>1 DEF CreateReturns, Types
  <2>2. CASE ~CreateFails
    <3>0. /\ job.name \in Name /\ job' = NoJob
          /\ snapshots' = [snapshots EXCEPT ![job.name].state = "complete"]
      BY <1>7, <2>2 DEF CreateReturns
    <3>1. snapshots' \in [Name -> SnapshotSet]
      BY <1>0, <3>0, DirectoryTypes DEF Types
    <3>2. Types'
      BY <1>0, <1>7, <1>n, <2>2, <3>1 DEF CreateReturns, Types
    <3>3. InStep' /\ JobInv'
      BY <1>7, <1>n, <2>2 DEF CreateReturns
    <3> QED
      BY <3>2, <3>3, TypesArePrimed
  <2> QED
    BY <2>1, <2>2
<1>8. CASE CreateError
  <2>1. faults' \in 0 .. MaxFaults
    BY <1>0, <1>8 DEF CreateError, Fault, Types
  <2> QED
    BY <1>8, <1>f, <2>1 DEF CreateError
<1>9. ASSUME NEW name \in Name, Prune(name)
      PROVE  TypeOK' /\ JobInv'
  <2>1. snapshots' \in [Name -> SnapshotSet]
    BY <1>0, <1>9, DirectoryTypes DEF Prune, Types
  <2>2. Types' /\ JobInv'
    BY <1>0, <1>9, <2>1 DEF Prune, Types
  <2>3. InStep'
    BY <1>0, <1>9 DEF Prune, Verifies, Types, SnapshotSet, DirectoryOf
  <2> QED
    BY <2>2, <2>3, TypesArePrimed
<1>10. ASSUME NEW name \in Name, RemoveTree(name)
       PROVE  TypeOK' /\ JobInv'
  <2>1. snapshots' \in [Name -> SnapshotSet]
    <3>1. CASE snapshots' = [snapshots EXCEPT ![name] = NoSnapshot]
      BY <1>0, <3>1, DirectoryTypes DEF Types
    <3>2. CASE snapshots' # [snapshots EXCEPT ![name] = NoSnapshot]
      <4>1. PICK a \in Artifact :
              snapshots' = [snapshots EXCEPT ![name].data.artifacts.value[a] = "none"]
        BY <1>10, <3>2 DEF RemoveTree
      <4> QED
        BY <1>0, <4>1, DirectoryTypes DEF Types
    <3> QED
      BY <3>1, <3>2
  <2>2. Types' /\ JobInv'
    BY <1>0, <1>10, <2>1 DEF RemoveTree, Types
  <2>3. \A n \in Name : \/ snapshots'[n].state = snapshots[n].state
                        \/ snapshots[n].state = "removing" /\ snapshots'[n].state = "none"
    <3>1. CASE snapshots' = [snapshots EXCEPT ![name] = NoSnapshot]
      <4>1. NoSnapshot.state = "none" /\ snapshots[name].state = "removing"
        BY <1>10 DEF NoSnapshot, RemoveTree
      <4>2. \A n \in Name : snapshots'[n] = IF n = name THEN NoSnapshot ELSE snapshots[n]
        BY <1>0, <3>1 DEF Types
      <4> QED
        BY <4>1, <4>2
    <3>2. CASE snapshots' # [snapshots EXCEPT ![name] = NoSnapshot]
      <4>1. PICK a \in Artifact :
              snapshots' = [snapshots EXCEPT ![name].data.artifacts.value[a] = "none"]
        BY <1>10, <3>2 DEF RemoveTree
      <4>2. /\ \A n \in Name : n # name => snapshots'[n] = snapshots[n]
            /\ snapshots'[name] = [snapshots[name] EXCEPT !.data.artifacts.value[a] = "none"]
        BY <1>0, <4>1 DEF Types
      <4>3. snapshots'[name].state = snapshots[name].state
        BY <1>0, <4>2 DEF Types, SnapshotSet
      <4> QED
        BY <4>2, <4>3
    <3> QED
      BY <3>1, <3>2
  <2>4. InStep'
    BY <1>0, <1>10, <2>3 DEF RemoveTree, DirectoryOf
  <2> QED
    BY <2>2, <2>4, TypesArePrimed
<1> QED
  BY <1>1, <1>2, <1>3, <1>4, <1>5, <1>6, <1>7, <1>8, <1>9, <1>10

\* The steps of a restore keep the types.
LEMMA RestoreTypes ==
  ASSUME TypeOK, JobInv, ServiceInv,
         \/ \E name \in Name : RestoreBegins(name)
         \/ RestoreStages \/ StageError \/ RestoreApplies \/ ApplyError
         \/ RollBack \/ RolledBack \/ RestoreReturns \/ KillCommand
  PROVE  TypeOK' /\ JobInv'
<1> USE DEF JobInv, Doing, Restoring
<1>0. Types /\ InStep
  BY TypesAre
<1>n. /\ NoJob \in JobSet /\ NoJob.step = "idle" /\ NoJob.staged = Blank
      /\ NoJob.backup = Blank
  BY FreshTypes, ItemsAre DEF JobSet, NoJob
<1>s. ASSUME NEW S \in SUBSET {"torn", "absent"}, NEW item \in Item,
             live' \in {live} \cup {Broken(item, is) : is \in S}
      PROVE  live' \in Data
  <2>1. \A is \in {"torn", "absent"} : Broken(item, is) \in Data
    BY <1>0, FreshTypes, ItemTypes DEF Broken, Types
  <2> QED
    BY <1>0, <1>s, <2>1 DEF Types
<1>q. ASSUME live' \in Data, job' \in JobSet, faults' \in 0 .. MaxFaults, mixed' \in BOOLEAN,
             UNCHANGED <<service, snapshots, now, records, lost>>,
             job'.step \notin {"copy", "manifest", "checksums", "verify"}
      PROVE  TypeOK'
  BY <1>0, <1>q, TypesArePrimed DEF Types, InStep, Making
<1>1. ASSUME NEW name \in Name, RestoreBegins(name)
      PROVE  TypeOK' /\ JobInv'
  <2>1. snapshots[name] \in SnapshotSet
    BY <1>0 DEF Types
  <2>2. /\ job' \in JobSet
        /\ job'.step = "stage" /\ job'.item = 1 /\ job'.name = name
    <3> DEFINE before == [data |-> live, mixed |-> mixed]
               target == [data |-> snapshots[name].data, mixed |-> snapshots[name].mixed]
    <3>1. /\ before \in [data : Data, mixed : BOOLEAN]
          /\ target \in [data : Data, mixed : BOOLEAN]
      BY <1>0, <2>1 DEF Types, SnapshotSet
    <3>2. job' = [NoJob EXCEPT !.step = "stage", !.item = 1, !.name = name,
                               !.before = before, !.target = target]
      BY <1>1 DEF RestoreBegins
    <3>3. 1 \in 0 .. Len(Restored)
      BY ItemsAre
    <3> HIDE DEF before, target
    <3> QED
      BY <1>n, <3>1, <3>2, <3>3 DEF JobSet
  <2>3. /\ UNCHANGED <<live, service, snapshots, now, records, faults, lost, mixed>>
        /\ job'.step = "stage"
    BY <1>1, <2>2 DEF RestoreBegins
  <2>4. TypeOK'
    BY <1>0, <1>q, <2>2, <2>3 DEF Types
  <2>5. JobInv'
    BY <2>2, <2>3
  <2> QED
    BY <2>4, <2>5
<1>2. CASE RestoreStages
  <2>1. job.item \in 1 .. 6 /\ job.name \in Name /\ Restored[job.item] \in Item
    BY <1>2, ItemsAre DEF RestoreStages
  <2>2. CASE snapshots[job.name].state = "none"
    <3>1. job' = [job EXCEPT !.step = "failed"] /\ mixed' = mixed
      BY <1>2, <2>2 DEF RestoreStages
    <3>2. job' \in JobSet /\ job'.step = "failed" /\ job'.name = job.name
      BY <1>0, <3>1 DEF Types, JobSet
    <3> QED
      BY <1>0, <1>2, <1>q, <2>1, <3>1, <3>2 DEF RestoreStages, Types
  <2>3. CASE snapshots[job.name].state # "none"
    <3> DEFINE item == Restored[job.item]
               last == job.item = Len(Restored)
               staged == [job.staged EXCEPT ![item] = snapshots[job.name].data[item]]
               backup == [job.backup EXCEPT ![item] = live[item]]
    <3>1. /\ job' = [job EXCEPT !.staged = staged, !.backup = backup,
                                !.step = IF last THEN "apply" ELSE "stage",
                                !.item = IF last THEN 1 ELSE @ + 1]
          /\ mixed' \in BOOLEAN
      BY <1>0, <1>2, <2>3 DEF RestoreStages, Types, JobSet
    <3>2. staged \in Data /\ backup \in Data
      BY <1>0, <2>1, ItemTypes DEF Types, JobSet, SnapshotSet
    <3>3. /\ (IF last THEN 1 ELSE job.item + 1) \in 1 .. 6
          /\ (IF last THEN 1 ELSE job.item + 1) \in 0 .. Len(Restored)
      BY <2>1, ItemsAre
    <3> HIDE DEF staged, backup, last
    <3>4. /\ job' \in JobSet /\ job'.step \in {"stage", "apply"}
          /\ job'.item \in 1 .. 6 /\ job'.name = job.name
      BY <1>0, <3>1, <3>2, <3>3 DEF Types, JobSet
    <3> QED
      BY <1>0, <1>2, <1>q, <2>1, <3>1, <3>4 DEF RestoreStages, Types
  <2> QED
    BY <2>2, <2>3
<1>3. CASE StageError
  <2>1. job' \in JobSet /\ job'.step = "failed" /\ job'.name = job.name
    BY <1>0, <1>3 DEF StageError, Types, JobSet
  <2>2. faults' \in 0 .. MaxFaults
    BY <1>0, <1>3 DEF StageError, Fault, Types
  <2> QED
    BY <1>0, <1>3, <1>q, <2>1, <2>2 DEF StageError, Types
<1>4. CASE RestoreApplies
  <2>1. job.item \in 1 .. 6 /\ job.name \in Name /\ Restored[job.item] \in Item
    BY <1>4, ItemsAre DEF RestoreApplies
  <2>2. live' \in Data
    BY <1>0, <1>4, <2>1, ItemTypes DEF RestoreApplies, Types, JobSet
  <2>3. mixed' \in BOOLEAN
    BY <1>0, <1>4 DEF RestoreApplies, Types, JobSet
  <2>4. /\ job' \in JobSet /\ job'.name = job.name
        /\ \/ job'.step = "restored"
           \/ job'.step = "apply" /\ job'.item \in 1 .. 6
    <3>1. CASE job.item = Len(Restored)
      BY <1>0, <1>4, <3>1 DEF RestoreApplies, Types, JobSet
    <3>2. CASE job.item # Len(Restored)
      <4>1. job.item + 1 \in 0 .. Len(Restored) /\ job.item + 1 \in 1 .. 6
        BY <2>1, <3>2, ItemsAre
      <4> QED
        BY <1>0, <1>4, <3>2, <4>1 DEF RestoreApplies, Types, JobSet
    <3> QED
      BY <3>1, <3>2
  <2> QED
    BY <1>0, <1>4, <1>q, <2>1, <2>2, <2>3, <2>4 DEF RestoreApplies, Types
<1>5. CASE ApplyError
  <2>1. job.item \in 1 .. 6 /\ job.name \in Name /\ Restored[job.item] \in Item
    BY <1>5, ItemsAre DEF ApplyError
  <2>2. live' \in Data
    <3>1. HalfApplied(Restored[job.item]) \in SUBSET {"torn", "absent"}
      BY DEF HalfApplied
    <3> QED
      BY <1>5, <1>s, <2>1, <3>1 DEF ApplyError
  <2>3. job' \in JobSet /\ job'.step = "rollback" /\ job'.name = job.name
    <3>1. Committed(Restored[job.item]) \in 0 .. Len(Restored)
      BY <2>1, ItemsAre DEF Committed
    <3> QED
      BY <1>0, <1>5, <3>1 DEF ApplyError, Types, JobSet
  <2>4. faults' \in 0 .. MaxFaults
    BY <1>0, <1>5 DEF ApplyError, Fault, Types
  <2> QED
    BY <1>0, <1>5, <1>q, <2>1, <2>2, <2>3, <2>4 DEF ApplyError, Types
<1>6. CASE RollBack
  <2>1. job.item \in 1 .. 6 /\ job.name \in Name /\ Restored[job.item] \in Item
    BY <1>0, <1>6, ItemsAre DEF RollBack, Types, JobSet
  <2>2. live' \in Data
    <3>1. HalfRolledBack(Restored[job.item]) \in SUBSET {"torn", "absent"}
      BY DEF HalfRolledBack, HalfApplied
    <3>2. CASE live' = [live EXCEPT ![Restored[job.item]] = job.backup[Restored[job.item]]]
      BY <1>0, <2>1, <3>2, ItemTypes DEF Types, JobSet
    <3> QED
      BY <1>6, <1>s, <2>1, <3>1, <3>2 DEF RollBack
  <2>3. job' \in JobSet /\ job'.step = "rollback" /\ job'.name = job.name
    <3>1. job.item - 1 \in 0 .. Len(Restored)
      BY <2>1, ItemsAre
    <3> QED
      BY <1>0, <1>6, <3>1 DEF RollBack, Types, JobSet
  <2>4. faults' \in 0 .. MaxFaults
    BY <1>0, <1>6 DEF RollBack, Fault, Types
  <2> QED
    BY <1>0, <1>6, <1>q, <2>1, <2>2, <2>3, <2>4 DEF RollBack, Types
<1>7. CASE RolledBack
  <2>1. /\ job' \in JobSet /\ job'.name = job.name
        /\ job'.step \in {"rollback_failed", "failed"}
    BY <1>0, <1>7 DEF RolledBack, Types, JobSet
  <2>2. mixed' \in BOOLEAN
    BY <1>0, <1>7 DEF RolledBack, Types, JobSet
  <2> QED
    BY <1>0, <1>7, <1>q, <2>1, <2>2 DEF RolledBack, Types
<1>8. CASE RestoreReturns
  BY <1>0, <1>8, <1>n, <1>q DEF RestoreReturns, Types
<1>9. CASE KillCommand
  <2>1. faults' \in 0 .. MaxFaults
    BY <1>0, <1>9 DEF KillCommand, Fault, Types
  <2> QED
    BY <1>0, <1>9, <1>n, <1>q, <2>1 DEF KillCommand, Types
<1> QED
  BY <1>1, <1>2, <1>3, <1>4, <1>5, <1>6, <1>7, <1>8, <1>9

-----------------------------------------------------------------------------
(* The invariant                                                           *)

\* The invariant holds at first.
LEMMA InitInv == Init => IInv
<1> SUFFICES ASSUME Init PROVE IInv
  OBVIOUS
<1>1. TypeOK /\ JobInv
  BY InitTypes
<1>2. /\ job.step = "idle" /\ job.staged = Blank /\ job.backup = Blank
      /\ service.step = "down" /\ live = Fresh /\ ~lost
      /\ \A name \in Name : snapshots[name].state = "none" /\ snapshots[name].data = Blank
  BY DEF Init, NoJob, NoSnapshot
<1>3. /\ Fresh.audit.value.linked /\ RowsIn(Fresh) = {} /\ Blank.audit.value.linked
  BY ItemsAre DEF Fresh, Blank, Whole, RowsIn
<1>4. ServiceInv
  BY <1>2 DEF ServiceInv, Serving, Restoring
<1>5. AuditInv
  BY <1>2, <1>3 DEF AuditInv, AuditVerifies, Linked, Serving
<1>6. CreateInv /\ SourceInv /\ RestoreInv
  BY <1>2 DEF CreateInv, ArtifactsCopied, SourceInv, RestoreInv, RestoreAllOrNothing, Doing
<1>7. SnapshotSelfContained /\ RowsHaveArtifacts
  BY <1>2, <1>3 DEF SnapshotSelfContained, RowsHaveArtifacts, SelfContained, Verifies
<1> QED
  BY <1>1, <1>4, <1>5, <1>6, <1>7 DEF IInv

\* What the service may do to live: an artifact that is whole stays so, and a
\* row is inserted after its artifact.
Grows ==
    /\ live.artifacts.is = "whole" => live'.artifacts.is = "whole"
    /\ \A a \in Artifact :
         live.artifacts.value[a] = "whole" => live'.artifacts.value[a] = "whole"
    /\ SelfContained(live) => SelfContained(live')

\* The rows are of artifacts.
LEMMA RowsAre == \A d \in Data : RowsIn(d) \subseteq Artifact
  BY DEF Data, File, RowsIn

\* No step of the service takes an artifact away, or comes in the way of a restore.
LEMMA ServiceGrows ==
  ASSUME TypeOK, ServiceInv,
         \/ StartService \/ StopService \/ KillService
         \/ \E a \in Artifact : PutArtifact(a)
         \/ WriteArtifact \/ InsertRow \/ EnqueueTask \/ WriteRecord \/ Tick
  PROVE  Grows /\ ServiceInv'
<1>0. live \in Data /\ service \in ServiceSet
  BY DEF TypeOK, ServiceSet
<1>t. /\ live.artifacts \in File([Artifact -> {"none", "torn", "whole"}])
      /\ live.pilot \in File(SUBSET Artifact)
      /\ RowsIn(live) \subseteq Artifact
  BY <1>0, RowsAre DEF Data
<1>u. live' = live => Grows
  BY DEF Grows
<1> USE DEF ServiceInv, Serving, Restoring
<1>1. CASE StartService
  <2>1. /\ live'.artifacts = [live.artifacts EXCEPT !.is = "whole"]
        /\ live'.pilot = live.pilot
    BY <1>0, <1>1 DEF StartService, Data
  <2>2. /\ live'.artifacts.is = "whole"
        /\ live'.artifacts.value = live.artifacts.value
    BY <1>t, <2>1 DEF File
  <2>3. Grows
    BY <2>1, <2>2 DEF Grows, SelfContained, RowsIn
  <2>4. ServiceInv'
    BY <1>0, <1>1, <2>2 DEF StartService, ServiceSet
  <2> QED
    BY <2>3, <2>4
<1>2. CASE StopService
  BY <1>0, <1>u, <1>2 DEF StopService, ServiceSet
<1>3. CASE KillService
  BY <1>0, <1>u, <1>3 DEF KillService, ServiceSet
<1>4. ASSUME NEW a \in Artifact, PutArtifact(a)
      PROVE  Grows /\ ServiceInv'
  <2>1. CASE live.artifacts.value[a] = "none"
    <3>1. /\ live'.artifacts = [live.artifacts EXCEPT !.value[a] = "torn"]
          /\ live'.pilot = live.pilot
      BY <1>0, <1>4, <2>1 DEF PutArtifact, Data
    <3>2. /\ live'.artifacts.is = live.artifacts.is
          /\ live'.artifacts.value = [live.artifacts.value EXCEPT ![a] = "torn"]
      BY <1>t, <3>1 DEF File
    <3>3. \A b \in Artifact : live.artifacts.value[b] = "whole" =>
                               live'.artifacts.value[b] = "whole"
      BY <1>t, <2>1, <3>2 DEF File
    <3>4. Grows
      BY <1>t, <3>1, <3>2, <3>3 DEF Grows, SelfContained, RowsIn
    <3>5. ServiceInv'
      BY <1>0, <1>4, <2>1, <3>2 DEF PutArtifact, Request, ServiceSet
    <3> QED
      BY <3>4, <3>5
  <2>2. CASE live.artifacts.value[a] # "none"
    <3>1. live' = live
      BY <1>4, <2>2 DEF PutArtifact
    <3>2. live.artifacts.value[a] \in {"none", "torn", "whole"}
      BY <1>t DEF File
    <3>3. ServiceInv'
      BY <1>0, <1>4, <2>2, <3>1, <3>2 DEF PutArtifact, Request, ServiceSet, InTheWay
    <3> QED
      BY <1>u, <3>1, <3>3
  <2> QED
    BY <2>1, <2>2
<1>5. CASE WriteArtifact
  <2>1. /\ live'.artifacts = [live.artifacts EXCEPT !.value[service.artifact] = "whole"]
        /\ live'.pilot = live.pilot
        /\ service.artifact \in Artifact
    BY <1>0, <1>5 DEF WriteArtifact, Data, ServiceSet
  <2>2. /\ live'.artifacts.is = live.artifacts.is
        /\ live'.artifacts.value = [live.artifacts.value EXCEPT ![service.artifact] = "whole"]
    BY <1>t, <2>1 DEF File
  <2>3. /\ \A b \in Artifact : live.artifacts.value[b] = "whole" =>
                                live'.artifacts.value[b] = "whole"
        /\ live'.artifacts.value[service.artifact] = "whole"
    BY <1>t, <2>1, <2>2 DEF File
  <2>4. Grows
    BY <1>t, <2>1, <2>2, <2>3 DEF Grows, SelfContained, RowsIn
  <2>5. ServiceInv'
    BY <1>0, <1>5, <2>2, <2>3 DEF WriteArtifact, ServiceSet
  <2> QED
    BY <2>4, <2>5
<1>6. CASE InsertRow
  <2>1. /\ live'.artifacts = live.artifacts
        /\ live'.pilot = [live.pilot EXCEPT !.value = @ \cup {service.artifact}]
    BY <1>0, <1>6 DEF InsertRow, Data
  <2>2. RowsIn(live') \subseteq RowsIn(live) \cup {service.artifact}
    BY <1>t, <2>1 DEF File, RowsIn
  <2>3. live.artifacts.is = "whole" /\ live.artifacts.value[service.artifact] = "whole"
    BY <1>6 DEF InsertRow
  <2>4. Grows
    BY <2>1, <2>2, <2>3 DEF Grows, SelfContained
  <2>5. ServiceInv'
    BY <1>0, <1>6, <2>1 DEF InsertRow, ServiceSet
  <2> QED
    BY <2>4, <2>5
<1>7. CASE EnqueueTask
  <2>1. live'.artifacts = live.artifacts /\ live'.pilot = live.pilot
    BY <1>0, <1>7 DEF EnqueueTask, Data
  <2>2. Grows
    BY <2>1 DEF Grows, SelfContained, RowsIn
  <2>3. ServiceInv'
    BY <1>0, <1>7, <2>1 DEF EnqueueTask, Request, ServiceSet
  <2> QED
    BY <2>2, <2>3
<1>8. CASE WriteRecord
  <2>1. live'.artifacts = live.artifacts /\ live'.pilot = live.pilot
    BY <1>0, <1>8 DEF WriteRecord, Data
  <2>2. Grows
    BY <2>1 DEF Grows, SelfContained, RowsIn
  <2>3. ServiceInv'
    BY <1>0, <1>8, <2>1 DEF WriteRecord, ServiceSet
  <2> QED
    BY <2>2, <2>3
<1>9. CASE Tick
  BY <1>u, <1>9 DEF Tick
<1> QED
  BY <1>1, <1>2, <1>3, <1>4, <1>5, <1>6, <1>7, <1>8, <1>9

\* The steps of the service keep the log and what is known of it.
LEMMA ServiceAudit ==
  ASSUME TypeOK, JobInv, AuditInv,
         \/ StartService \/ StopService \/ KillService
         \/ \E a \in Artifact : PutArtifact(a)
         \/ WriteArtifact \/ InsertRow \/ EnqueueTask \/ WriteRecord \/ Tick
  PROVE  AuditInv'
<1>0. live \in Data /\ service \in ServiceSet
  BY DEF TypeOK, ServiceSet
<1>b. Linked(Blank)
  BY ItemsAre DEF Linked, Blank, Fresh, Whole
<1> USE DEF AuditInv, AuditVerifies, Linked, Serving
<1>1. CASE StartService
  <2>1. live'.audit = live.audit
    BY <1>0, <1>1 DEF StartService, Data
  <2>2. service'.head = live.audit.value.head
    BY <1>0, <1>1 DEF StartService, HeadOfFile, ServiceSet
  <2>3. job.backup = Blank
    BY <1>1 DEF StartService, JobInv
  <2> QED
    BY <1>1, <1>b, <2>1, <2>2, <2>3 DEF StartService
<1>2. CASE StopService
  BY <1>0, <1>2 DEF StopService, ServiceSet
<1>3. CASE KillService
  BY <1>0, <1>3 DEF KillService, ServiceSet
<1>4. ASSUME NEW a \in Artifact, PutArtifact(a)
      PROVE  AuditInv'
  <2>1. live'.audit = live.audit
    BY <1>0, <1>4 DEF PutArtifact, Data
  <2>2. service'.head = service.head /\ service.step = "ready"
    BY <1>0, <1>4 DEF PutArtifact, Request, ServiceSet
  <2> QED
    BY <1>4, <2>1, <2>2 DEF PutArtifact
<1>5. CASE WriteArtifact
  BY <1>0, <1>5 DEF WriteArtifact, Data, ServiceSet
<1>6. CASE InsertRow
  BY <1>0, <1>6 DEF InsertRow, Data, ServiceSet
<1>7. CASE EnqueueTask
  BY <1>0, <1>7 DEF EnqueueTask, Request, Data, ServiceSet
<1>8. CASE WriteRecord
  <2>1. UNCHANGED <<snapshots, job>> /\ service'.head = records' /\ service.step = "audit"
    BY <1>0, <1>8 DEF WriteRecord, ServiceSet
  <2>2. CASE lost'
    BY <2>1, <2>2, <1>8 DEF WriteRecord
  <2>3. CASE ~lost'
    <3>1. /\ ~lost
          /\ live' = [live EXCEPT !.audit.value =
                         [head   |-> records',
                          linked |-> @.linked /\ @.head = service.head]]
      BY <1>8, <2>3 DEF WriteRecord
    <3>2. live.audit \in File([head : Nat, linked : BOOLEAN])
      BY <1>0 DEF Data
    <3>3. /\ live'.audit.value.head = records'
          /\ live'.audit.value.linked <=> live.audit.value.linked
                                         /\ live.audit.value.head = service.head
      BY <1>0, <3>1, <3>2 DEF Data, File
    <3> QED
      BY <2>1, <3>1, <3>3
  <2> QED
    BY <2>2, <2>3
<1>9. CASE Tick
  BY <1>9 DEF Tick
<1> QED
  BY <1>1, <1>2, <1>3, <1>4, <1>5, <1>6, <1>7, <1>8, <1>9

\* The steps of the service and of the clock keep the invariant.
LEMMA ServiceKeeps ==
  ASSUME IInv,
         \/ StartService \/ StopService \/ KillService
         \/ \E a \in Artifact : PutArtifact(a)
         \/ WriteArtifact \/ InsertRow \/ EnqueueTask \/ WriteRecord \/ Tick
  PROVE  IInv'
<1>1. TypeOK' /\ JobInv' /\ ServiceInv' /\ AuditInv' /\ Grows
  BY ServiceTypes, ServiceGrows, ServiceAudit DEF IInv
<1>2. UNCHANGED <<snapshots, job, mixed>>
  BY DEF StartService, StopService, KillService, PutArtifact, WriteArtifact, InsertRow,
         EnqueueTask, WriteRecord, Tick
<1>3. Restoring => live' = live
  BY DEF IInv, ServiceInv, Serving, Request, StartService, StopService, KillService,
         PutArtifact, WriteArtifact, InsertRow, EnqueueTask, WriteRecord, Tick
<1>4. \A name \in Name : RowsIn(snapshots[name].data) \subseteq Artifact
  BY RowsAre DEF IInv, TypeOK
<1>5. CreateInv'
  <2>1. job.step = "copy" => job.name \in Name
    BY DEF IInv, JobInv, Doing
  <2> QED
    BY <1>1, <1>2, <1>4, <2>1
       DEF IInv, CreateInv, ArtifactsCopied, Grows, Doing, SelfContained, RowsIn
<1>6. SourceInv'
  BY <1>2 DEF IInv, SourceInv, Verifies, Doing, SelfContained, RowsIn
<1>7. RestoreInv'
  BY <1>2, <1>3 DEF IInv, RestoreInv, RestoreAllOrNothing, StagedTo, Doing, Restoring,
                    Verifies
<1>8. SnapshotSelfContained' /\ RowsHaveArtifacts'
  BY <1>1, <1>2 DEF IInv, SnapshotSelfContained, RowsHaveArtifacts, SelfContained, RowsIn,
                    Verifies, Grows
<1> QED
  BY <1>1, <1>5, <1>6, <1>7, <1>8 DEF IInv

\* Where no restore is under way, nothing is to be shown of one.
LEMMA NoRestore ==
  ASSUME job'.step \in {"idle", "chain", "copy", "manifest", "checksums", "verify"}
  PROVE  SourceInv' /\ RestoreInv'
  BY DEF SourceInv, RestoreInv, RestoreAllOrNothing, Doing

\* The files keep their rows, their artifacts and their log.
LEMMA SameParts ==
  ASSUME NEW d \in Data, NEW e \in Data,
         e.pilot = d.pilot, e.artifacts = d.artifacts, e.audit = d.audit
  PROVE  /\ SelfContained(e) <=> SelfContained(d)
         /\ Linked(e) <=> Linked(d)
  BY DEF SelfContained, RowsIn, Linked

\* The state of the chain is copied.
LEMMA ChainKeeps ==
  ASSUME IInv, SnapshotChain \/ WriteState
  PROVE  IInv'
<1>1. TypeOK' /\ JobInv'
  BY CreateTypes DEF IInv
<1>2. /\ live \in Data /\ live' \in Data
      /\ live'.pilot = live.pilot /\ live'.artifacts = live.artifacts
      /\ live'.audit = live.audit
  BY <1>1 DEF IInv, TypeOK, SnapshotChain, WriteState, Data
<1>3. /\ job'.step \in {"idle", "chain"} /\ ~Restoring
      /\ job'.staged = Blank /\ job'.backup = Blank
      /\ UNCHANGED <<service, snapshots, lost, mixed>>
  BY DEF IInv, TypeOK, SnapshotChain, WriteState, NoJob, Doing, Restoring, JobInv
<1>4. ServiceInv'
  BY <1>2, <1>3 DEF IInv, ServiceInv, Serving, Restoring
<1>5. AuditInv'
  BY <1>2, <1>3 DEF IInv, AuditInv, AuditVerifies, Linked, Serving, JobInv
<1>6. CreateInv'
  BY <1>3 DEF CreateInv, ArtifactsCopied, Doing
<1>7. SnapshotSelfContained'
  BY <1>3 DEF IInv, SnapshotSelfContained, SelfContained, RowsIn, Verifies
<1>8. RowsHaveArtifacts'
  BY <1>2, <1>3, SameParts DEF IInv, RowsHaveArtifacts
<1> QED
  BY <1>1, <1>3, <1>4, <1>5, <1>6, <1>7, <1>8, NoRestore DEF IInv

\* A step of a create leaves to be shown what becomes of its directory.
LEMMA CreateFrame ==
  ASSUME IInv, TypeOK', JobInv', UNCHANGED <<live, service, lost, mixed>>,
         ~Restoring,
         job'.step \in {"idle", "copy", "manifest", "checksums", "verify"},
         NEW name \in Name,
         \A n \in Name : n # name => snapshots'[n] = snapshots[n],
         Linked(snapshots'[name].data),
         CreateInv',
         snapshots'[name].state \in {"sealed", "complete"} /\ ~snapshots'[name].mixed =>
           SelfContained(snapshots'[name].data)
  PROVE  IInv'
<1>1. job'.staged = Blank /\ job'.backup = Blank /\ job.staged = Blank
  BY DEF IInv, JobInv, Restoring
<1>2. ServiceInv'
  BY DEF IInv, ServiceInv, Serving, Restoring
<1>3. AuditInv'
  BY <1>1 DEF IInv, AuditInv, AuditVerifies, Linked, Serving
<1>4. SnapshotSelfContained'
  BY DEF IInv, SnapshotSelfContained, SelfContained, RowsIn, Verifies
<1>5. RowsHaveArtifacts'
  BY DEF IInv, RowsHaveArtifacts, SelfContained, RowsIn
<1> QED
  BY <1>2, <1>3, <1>4, <1>5, NoRestore DEF IInv

\* An empty directory has an empty log.
LEMMA BlankLinked == Linked(Blank) /\ NoSnapshot.data = Blank /\ NoSnapshot.state = "none"
  BY ItemsAre DEF Linked, Blank, Fresh, Whole, NoSnapshot

\* A directory is begun.
LEMMA BeginsKeeps ==
  ASSUME IInv, CreateBegins
  PROVE  IInv'
<1>1. TypeOK' /\ JobInv'
  BY CreateTypes DEF IInv
<1>2. CASE snapshots[now].state # "none"
  <2>1. UNCHANGED vars
    BY <1>2 DEF CreateBegins, Cleaned, vars
  <2> QED
    BY SMTT(30), <2>1
       DEF vars, IInv, TypeOK, JobInv, ServiceInv, AuditInv, CreateInv, SourceInv, RestoreInv,
           SnapshotSelfContained, RowsHaveArtifacts, Doing, Restoring, Serving,
           AuditVerifies, Linked, ArtifactsCopied, Verifies, StagedTo, RestoreAllOrNothing,
           SelfContained, RowsIn
<1>3. CASE snapshots[now].state = "none"
  <2>1. /\ now \in Name
        /\ snapshots \in [Name -> SnapshotSet] /\ job \in JobSet
    BY DEF IInv, TypeOK, Name, SnapshotSet, JobSet
  <2>2. /\ job'.step = "copy" /\ job'.item = 1 /\ job'.name = now
        /\ ~Restoring
    BY <1>3, <2>1 DEF CreateBegins, JobSet, Restoring, Doing
  <2>3. /\ \A n \in Name : n # now => snapshots'[n] = snapshots[n]
        /\ snapshots'[now].data = snapshots[now].data
        /\ snapshots'[now].state = "partial"
        /\ snapshots'[now].mixed = mixed
    BY <1>3, <2>1 DEF CreateBegins, SnapshotSet
  <2>4. UNCHANGED <<live, service, lost, mixed>>
    BY DEF CreateBegins
  <2>5. CreateInv'
    BY <2>2, <2>3, <2>4 DEF CreateInv, ArtifactsCopied, Doing
  <2>6. Linked(snapshots'[now].data)
    BY <2>1, <2>3 DEF IInv, AuditInv, Linked
  <2> QED
    BY <1>1, <2>1, <2>2, <2>3, <2>4, <2>5, <2>6, CreateFrame
<1> QED
  BY <1>2, <1>3

\* A create fails and removes its directory.
LEMMA FailsKeeps ==
  ASSUME IInv, TypeOK', JobInv', CreateFails, Making,
         UNCHANGED <<live, service, lost, mixed>>
  PROVE  IInv'
<1>1. job.name \in Name /\ ~Restoring
  BY DEF IInv, JobInv, Making, Doing, Restoring
<1>2. /\ \A n \in Name : n # job.name => snapshots'[n] = snapshots[n]
      /\ snapshots'[job.name] = NoSnapshot
  BY <1>1 DEF IInv, TypeOK, CreateFails, Cleaned
<1>3. job'.step = "idle"
  BY DEF CreateFails, NoJob
<1>4. CreateInv'
  BY <1>3 DEF CreateInv, ArtifactsCopied, Doing
<1>5. snapshots'[job.name].state = "none" /\ Linked(snapshots'[job.name].data)
  BY <1>2, BlankLinked
<1> QED
  BY <1>1, <1>2, <1>3, <1>4, <1>5, CreateFrame

\* An item is copied: the rows before the artifacts, so that the artifacts of
\* the rows that were copied are there when the artifacts are.
LEMMA CopiesKeeps ==
  ASSUME IInv, CreateCopies
  PROVE  IInv'
<1>1. TypeOK' /\ JobInv'
  BY CreateTypes DEF IInv
<1>2. UNCHANGED <<live, service, lost, mixed>> /\ Doing("copy")
  BY DEF CreateCopies
<1>3. CASE CreateFails
  BY <1>1, <1>2, <1>3, FailsKeeps DEF Making, Doing
<1>4. CASE ~CreateFails
  <2> DEFINE item == Copied[job.item]
             data == snapshots[job.name].data
             copy == snapshots'[job.name].data
  <2>1. /\ Copyable(item)
        /\ snapshots' = [snapshots EXCEPT ![job.name].data[item] = Whole(live[item].value)]
        /\ job' = IF job.item < 6 THEN [job EXCEPT !.item = @ + 1]
                                 ELSE [job EXCEPT !.step = "manifest"]
    BY <1>4, ItemsAre DEF CreateCopies
  <2>2. /\ job.name \in Name /\ job.item \in 1 .. 6 /\ item \in Item /\ ~Restoring
        /\ snapshots \in [Name -> SnapshotSet] /\ job \in JobSet /\ live \in Data
        /\ snapshots[job.name].state = "partial"
        /\ snapshots[job.name].mixed = mixed
    BY <1>2, ItemsAre
       DEF IInv, TypeOK, SnapshotSet, JobSet, JobInv, CreateInv, Doing, Restoring, DirectoryOf
  <2>3. /\ data \in Data
        /\ copy = [data EXCEPT ![item] = Whole(live[item].value)]
        /\ snapshots'[job.name].state = "partial"
        /\ snapshots'[job.name].mixed = mixed
        /\ \A n \in Name : n # job.name => snapshots'[n] = snapshots[n]
    BY <2>1, <2>2 DEF SnapshotSet
  <2>4. /\ job'.name = job.name
        /\ job.item < 6 => job'.step = "copy" /\ job'.item = job.item + 1
        /\ ~(job.item < 6) => job'.step = "manifest"
    BY <1>2, <2>1, <2>2 DEF JobSet, Doing
  <2>5. \A other \in Item : other # item => copy[other] = data[other]
    BY <2>2, <2>3, ItemsAre DEF Data
  <2>6. copy[item] = Whole(live[item].value)
    BY <2>2, <2>3, ItemsAre DEF Data
  <2>7. item = CASE job.item = 1 -> "pilot" [] job.item = 2 -> "relay"
                 [] job.item = 3 -> "artifacts" [] job.item = 4 -> "audit"
                 [] job.item = 5 -> "deployment" [] job.item = 6 -> "state"
    BY <2>2 DEF Copied
  <2>8. Linked(copy)
    <3>1. CASE item = "audit"
      BY <2>1, <2>6, <3>1 DEF Linked, Copyable, Whole
    <3>2. CASE item # "audit"
      BY <2>2, <2>5, <3>2, ItemsAre DEF IInv, AuditInv, Linked
    <3> QED
      BY <3>1, <3>2
  <2>9. CreateInv'
    <3> SUFFICES ASSUME ~mixed,
                        \/ job.item + 1 \in {2, 3} /\ job.item < 6
                        \/ job.item + 1 > 3
                 PROVE  /\ job.item + 1 \in {2, 3} =>
                             \A a \in RowsIn(copy) : /\ live.artifacts.is = "whole"
                                                     /\ live.artifacts.value[a] = "whole"
                        /\ job.item + 1 > 3 => SelfContained(copy)
      BY <1>2, <2>2, <2>3, <2>4 DEF CreateInv, ArtifactsCopied, Doing
    <3>1. CASE job.item = 1
      <4>1. live.pilot.is = "whole" /\ copy.pilot = Whole(live.pilot.value)
        BY <2>1, <2>6, <2>7, <3>1 DEF Copyable
      <4>2. RowsIn(copy) = RowsIn(live)
        BY <4>1 DEF RowsIn, Whole
      <4> QED
        BY <3>1, <4>2 DEF IInv, RowsHaveArtifacts, SelfContained
    <3>2. CASE job.item = 2
      <4>1. copy.pilot = data.pilot
        BY <2>5, <2>7, <3>2, ItemsAre
      <4> QED
        BY <1>2, <3>2, <4>1 DEF IInv, CreateInv, RowsIn
    <3>3. CASE job.item = 3
      <4>1. copy.pilot = data.pilot /\ copy.artifacts = Whole(live.artifacts.value)
        BY <2>5, <2>6, <2>7, <3>3, ItemsAre
      <4>2. copy.artifacts.is = "whole" /\ copy.artifacts.value = live.artifacts.value
        BY <4>1 DEF Whole
      <4> QED
        BY <1>2, <3>3, <4>1, <4>2 DEF IInv, CreateInv, RowsIn, SelfContained
    <3>4. CASE job.item \in 4 .. 6
      <4>1. copy.pilot = data.pilot /\ copy.artifacts = data.artifacts
        BY <2>5, <2>7, <3>4, ItemsAre
      <4>2. SelfContained(data)
        BY <1>2, <3>4 DEF IInv, CreateInv, ArtifactsCopied
      <4> QED
        BY <3>4, <4>1, <4>2 DEF RowsIn, SelfContained
    <3> QED
      BY <2>2, <3>1, <3>2, <3>3, <3>4
  <2>10. job'.step \in {"copy", "manifest"}
    BY <2>2, <2>4
  <2> QED
    BY <1>1, <1>2, <2>2, <2>3, <2>8, <2>9, <2>10, CreateFrame
<1> QED
  BY <1>3, <1>4

\* The manifest and the checksums are written: the directory verifies.
LEMMA SealKeeps ==
  ASSUME IInv, WriteManifest \/ WriteChecksums
  PROVE  IInv'
<1>1. TypeOK' /\ JobInv'
  BY CreateTypes DEF IInv
<1>2. /\ UNCHANGED <<live, service, lost, mixed>> /\ ~Restoring
      /\ job.name \in Name /\ job'.name = job.name
      /\ snapshots \in [Name -> SnapshotSet]
      /\ \/ Doing("manifest") /\ job'.step = "checksums"
         \/ Doing("checksums") /\ job'.step = "verify"
    BY DEF IInv, TypeOK, SnapshotSet, JobInv, Doing, Restoring, WriteManifest, WriteChecksums
<1>3. /\ \A n \in Name : n # job.name => snapshots'[n] = snapshots[n]
      /\ snapshots'[job.name].data = snapshots[job.name].data
      /\ snapshots'[job.name].mixed = snapshots[job.name].mixed
    BY <1>2 DEF WriteManifest, WriteChecksums, SnapshotSet
<1>4. Linked(snapshots'[job.name].data)
  BY <1>2, <1>3 DEF IInv, AuditInv, Linked
<1>5. /\ snapshots[job.name].mixed = mixed
      /\ ~mixed => SelfContained(snapshots[job.name].data)
  BY <1>2 DEF IInv, CreateInv, ArtifactsCopied, Doing
<1>6. ~mixed => SelfContained(snapshots'[job.name].data)
  BY <1>3, <1>5 DEF SelfContained, RowsIn
<1>7. CreateInv'
  BY <1>2, <1>3, <1>5, <1>6 DEF CreateInv, ArtifactsCopied, Doing
<1> QED
  BY <1>1, <1>2, <1>3, <1>4, <1>5, <1>6, <1>7, CreateFrame

\* The command returns the snapshot it has verified.
LEMMA ReturnsKeeps ==
  ASSUME IInv, CreateReturns
  PROVE  IInv'
<1>1. TypeOK' /\ JobInv'
  BY CreateTypes DEF IInv
<1>2. /\ UNCHANGED <<live, service, lost, mixed>> /\ Doing("verify") /\ ~Restoring
      /\ job.name \in Name /\ snapshots \in [Name -> SnapshotSet]
  BY DEF IInv, TypeOK, SnapshotSet, JobInv, Doing, Restoring, CreateReturns
<1>3. CASE CreateFails
  BY <1>1, <1>2, <1>3, FailsKeeps DEF Making, Doing
<1>4. CASE ~CreateFails
  <2>1. /\ Verifies(job.name) /\ job'.step = "idle"
        /\ snapshots' = [snapshots EXCEPT ![job.name].state = "complete"]
    BY <1>4 DEF CreateReturns, NoJob
  <2>2. /\ \A n \in Name : n # job.name => snapshots'[n] = snapshots[n]
        /\ snapshots'[job.name].data = snapshots[job.name].data
        /\ snapshots'[job.name].mixed = snapshots[job.name].mixed
    BY <1>2, <2>1 DEF SnapshotSet
  <2>3. Linked(snapshots'[job.name].data)
    BY <1>2, <2>2 DEF IInv, AuditInv, Linked
  <2>4. ~snapshots'[job.name].mixed => SelfContained(snapshots'[job.name].data)
    BY <1>2, <2>1, <2>2 DEF IInv, SnapshotSelfContained, SelfContained, RowsIn
  <2>5. CreateInv'
    BY <2>1 DEF CreateInv, ArtifactsCopied, Doing
  <2> QED
    BY <1>1, <1>2, <2>1, <2>2, <2>3, <2>4, <2>5, CreateFrame
<1> QED
  BY <1>3, <1>4

\* The steps of a create keep the invariant.
LEMMA CreateKeeps ==
  ASSUME IInv,
         \/ SnapshotChain \/ WriteState \/ CreateBegins \/ CreateCopies
         \/ WriteManifest \/ WriteChecksums \/ CreateReturns \/ CreateError
  PROVE  IInv'
<1>1. CASE CreateError
  <2>1. TypeOK' /\ JobInv'
    BY <1>1, CreateTypes DEF IInv
  <2> QED
    BY <1>1, <2>1, FailsKeeps DEF CreateError, Making
<1> QED
  BY <1>1, ChainKeeps, BeginsKeeps, CopiesKeeps, SealKeeps, ReturnsKeeps

\* Retention takes no directory that is being made, and from the one that is
\* being restored nothing but artifacts.
LEMMA RetentionKeeps ==
  ASSUME IInv, NEW name \in Name, Prune(name) \/ RemoveTree(name)
  PROVE  IInv'
<1>1. TypeOK' /\ JobInv'
  BY CreateTypes DEF IInv
<1>2. /\ UNCHANGED <<live, service, job, lost, mixed>>
      /\ snapshots \in [Name -> SnapshotSet] /\ snapshots[name].data \in Data
      /\ job.step # "idle" /\ job.step # "chain" => job.name \in Name
  BY DEF IInv, TypeOK, SnapshotSet, JobInv, Doing, Prune, RemoveTree
<1> DEFINE Reduced ==
             /\ snapshots[name].state \in {"sealed", "complete", "removing"}
             /\ \A n \in Name : n # name => snapshots'[n] = snapshots[n]
             /\ \/ /\ snapshots'[name].state = "removing"
                   /\ \A item \in Item : item # "artifacts" =>
                        snapshots'[name].data[item] = snapshots[name].data[item]
                \/ snapshots'[name] = NoSnapshot
<1>3. Reduced
  <2>1. CASE Prune(name)
    BY <1>2, <2>1 DEF Prune, Verifies, SnapshotSet
  <2>2. CASE snapshots' = [snapshots EXCEPT ![name] = NoSnapshot] /\ RemoveTree(name)
    BY <1>2, <2>2 DEF RemoveTree
  <2>3. ASSUME NEW a \in Artifact, snapshots[name].state = "removing",
               snapshots' = [snapshots EXCEPT ![name].data.artifacts.value[a] = "none"]
        PROVE  Reduced
    <3>1. /\ snapshots'[name].state = "removing"
          /\ snapshots'[name].data = [snapshots[name].data EXCEPT !.artifacts.value[a] = "none"]
          /\ \A n \in Name : n # name => snapshots'[n] = snapshots[n]
      BY <1>2, <2>3 DEF SnapshotSet
    <3>2. \A item \in Item : item # "artifacts" =>
             snapshots'[name].data[item] = snapshots[name].data[item]
      BY <1>2, <3>1, ItemsAre DEF Data
    <3> QED
      BY <2>3, <3>1, <3>2
  <2> QED
    BY <2>1, <2>2, <2>3 DEF RemoveTree
<1>4. Linked(snapshots'[name].data)
  BY <1>2, <1>3, ItemsAre, BlankLinked DEF IInv, AuditInv, Linked
<1>5. snapshots'[name].state \in {"removing", "none"}
  BY <1>3, BlankLinked
<1>6. ServiceInv' /\ RowsHaveArtifacts'
  BY <1>2 DEF IInv, ServiceInv, RowsHaveArtifacts, Serving, Restoring, SelfContained, RowsIn
<1>7. AuditInv'
  BY <1>2, <1>3, <1>4 DEF IInv, AuditInv, AuditVerifies, Linked, Serving
<1>8. SnapshotSelfContained'
  BY <1>3, <1>5 DEF IInv, SnapshotSelfContained, SelfContained, RowsIn, Verifies
<1>9. CreateInv'
  <2>1. job.step \in {"copy", "manifest", "checksums"} => job.name # name
    BY <1>3 DEF IInv, TypeOK, DirectoryOf
  <2> QED
    BY <1>2, <1>3, <2>1
       DEF IInv, CreateInv, ArtifactsCopied, Doing, SelfContained, RowsIn
<1>10. SourceInv'
  <2>1. CASE job.name = name
    BY <1>2, <1>3, <1>5, <2>1, BlankLinked, ItemsAre
       DEF IInv, SourceInv, Verifies, Doing, SelfContained, RowsIn
  <2>2. CASE job.name # name
    BY <1>2, <1>3, <2>2 DEF IInv, SourceInv, Verifies, Doing, SelfContained, RowsIn
  <2> QED
    BY <2>1, <2>2
<1>11. RestoreInv'
  <2>1. CASE job.name = name
    BY <1>2, <1>5, <2>1
       DEF IInv, RestoreInv, RestoreAllOrNothing, StagedTo, Verifies, Doing
  <2>2. CASE job.name # name
    BY <1>2, <1>3, <2>2 DEF IInv, RestoreInv, RestoreAllOrNothing, StagedTo, Verifies, Doing
  <2> QED
    BY <2>1, <2>2
<1> QED
  BY <1>1, <1>6, <1>7, <1>8, <1>9, <1>10, <1>11 DEF IInv

\* A restore leaves the directories alone, and while it runs the service is down.
LEMMA RestoreFrame ==
  ASSUME IInv, UNCHANGED <<service, snapshots, lost>>,
         Serving("down"), job'.step \notin {"copy", "manifest", "checksums"}
  PROVE  ServiceInv' /\ CreateInv' /\ SnapshotSelfContained'
<1>1. ServiceInv'
  BY DEF ServiceInv, Serving, Restoring
<1>2. CreateInv'
  BY DEF CreateInv, ArtifactsCopied, Doing
<1>3. SnapshotSelfContained'
  BY DEF IInv, SnapshotSelfContained, SelfContained, RowsIn, Verifies
<1> QED
  BY <1>1, <1>2, <1>3

\* The command finds live and the snapshot.
LEMMA RestoreBeginsKeeps ==
  ASSUME IInv, NEW name \in Name, RestoreBegins(name)
  PROVE  IInv'
<1>1. TypeOK' /\ JobInv'
  BY RestoreTypes DEF IInv
<1>2. /\ job'.step = "stage" /\ job'.item = 1 /\ job'.name = name
      /\ job'.before = [data |-> live, mixed |-> mixed]
      /\ job'.target = [data |-> snapshots[name].data, mixed |-> snapshots[name].mixed]
      /\ job'.staged = Blank /\ job'.backup = Blank
  BY DEF RestoreBegins, NoJob
<1>3. UNCHANGED <<live, service, snapshots, lost, mixed>> /\ Serving("down") /\ Verifies(name)
  BY DEF RestoreBegins
<1>4. ServiceInv' /\ CreateInv' /\ SnapshotSelfContained'
  BY <1>2, <1>3, RestoreFrame
<1>5. AuditInv'
  BY <1>2, <1>3, BlankLinked DEF IInv, AuditInv, AuditVerifies, Linked, Serving
<1>6. SourceInv'
  BY <1>2, <1>3
     DEF IInv, SourceInv, Verifies, Doing, SelfContained, RowsIn, SnapshotSelfContained,
         RowsHaveArtifacts
<1>7. RestoreInv'
  BY <1>2, <1>3 DEF RestoreInv, RestoreAllOrNothing, StagedTo, Doing
<1>8. RowsHaveArtifacts'
  BY <1>3 DEF IInv, RowsHaveArtifacts, SelfContained, RowsIn
<1> QED
  BY <1>1, <1>4, <1>5, <1>6, <1>7, <1>8 DEF IInv

\* Live and the backups agree where a restore has reached.
LEMMA ItemAt ==
  /\ \A item \in Item : \E j \in 1 .. 6 : item = Restored[j]
  /\ \A i, j \in 1 .. 6 : Restored[i] = Restored[j] => i = j
  /\ \A j \in 1 .. 6 : Restored[j] = "artifacts" <=> j = 6
  BY ItemsAre DEF Restored

\* An item is staged and backed up.
LEMMA RestoreStagesKeeps ==
  ASSUME IInv, RestoreStages
  PROVE  IInv'
<1>1. TypeOK' /\ JobInv'
  BY RestoreTypes DEF IInv
<1>2. /\ UNCHANGED <<live, service, snapshots, lost>> /\ Doing("stage") /\ Serving("down")
      /\ job.name \in Name /\ job.item \in 1 .. 6 /\ Restored[job.item] \in Item
      /\ job \in JobSet /\ live \in Data /\ snapshots[job.name] \in SnapshotSet
  BY ItemsAre
     DEF IInv, TypeOK, SnapshotSet, JobSet, JobInv, ServiceInv, Doing, Restoring, RestoreStages
<1>3. /\ live = job.before.data /\ mixed = job.before.mixed /\ StagedTo(job.item)
  BY <1>2 DEF IInv, RestoreInv
<1>4. CASE snapshots[job.name].state = "none"
  <2>1. /\ job' = [job EXCEPT !.step = "failed"] /\ mixed' = mixed
    BY <1>4 DEF RestoreStages
  <2>2. /\ job'.step = "failed" /\ job'.before = job.before /\ job'.name = job.name
        /\ job'.staged = job.staged /\ job'.backup = job.backup
    BY <1>2, <2>1 DEF JobSet
  <2>3. ServiceInv' /\ CreateInv' /\ SnapshotSelfContained'
    BY <1>2, <2>2, RestoreFrame
  <2>4. AuditInv'
    BY <1>2, <2>2 DEF IInv, AuditInv, AuditVerifies, Linked, Serving
  <2>5. SourceInv' /\ RestoreInv'
    BY <1>2, <1>3, <2>2 DEF SourceInv, RestoreInv, RestoreAllOrNothing, Doing
  <2>6. RowsHaveArtifacts'
    BY <1>2, <2>1 DEF IInv, RowsHaveArtifacts, SelfContained, RowsIn
  <2> QED
    BY <1>1, <2>3, <2>4, <2>5, <2>6 DEF IInv
<1>5. CASE snapshots[job.name].state # "none"
  <2> DEFINE item == Restored[job.item]
             last == job.item = 6
             data == snapshots[job.name].data
  <2>1. /\ job' = [job EXCEPT !.staged[item] = data[item], !.backup[item] = live[item],
                              !.step = IF last THEN "apply" ELSE "stage",
                              !.item = IF last THEN 1 ELSE @ + 1]
        /\ mixed' = (mixed \/ last)
    BY <1>5, ItemsAre DEF RestoreStages
  <2>2. /\ job'.staged = [job.staged EXCEPT ![item] = data[item]]
        /\ job'.backup = [job.backup EXCEPT ![item] = live[item]]
        /\ job'.before = job.before /\ job'.target = job.target /\ job'.name = job.name
        /\ job'.step = (IF last THEN "apply" ELSE "stage")
        /\ job'.item = (IF last THEN 1 ELSE job.item + 1)
    BY <1>2, <2>1 DEF JobSet
  <2>3. /\ job'.staged[item] = data[item] /\ job'.backup[item] = live[item]
        /\ \A other \in Item : other # item => /\ job'.staged[other] = job.staged[other]
                                               /\ job'.backup[other] = job.backup[other]
    BY <1>2, <2>2, ItemsAre DEF JobSet, Data
  <2>4. ServiceInv' /\ CreateInv' /\ SnapshotSelfContained'
    BY <1>2, <2>2, RestoreFrame
  <2>5. AuditInv'
    <3>1. Linked(job'.staged)
      BY <1>2, <2>3, ItemsAre DEF IInv, AuditInv, Linked
    <3>2. lost \/ Linked(job'.backup)
      BY <1>2, <2>3, ItemsAre DEF IInv, AuditInv, AuditVerifies, Linked
    <3> QED
      BY <1>2, <3>1, <3>2 DEF IInv, AuditInv, AuditVerifies, Linked, Serving
  <2>6. SourceInv'
    BY <1>2, <2>2 DEF IInv, SourceInv, Verifies, Doing, SelfContained, RowsIn
  <2>7. job.item # 6 => data[item] = job.target.data[item]
    BY <1>2, <1>5, ItemAt DEF IInv, SourceInv, Verifies, Doing
  <2>8. /\ \A j \in 1 .. job.item :
             j # 6 => job'.staged[Restored[j]] = job'.target.data[Restored[j]]
        /\ \A j \in 1 .. job.item : job'.backup[Restored[j]] = job'.before.data[Restored[j]]
    <3> SUFFICES ASSUME NEW j \in 1 .. job.item
                 PROVE  /\ j # 6 => job'.staged[Restored[j]] = job'.target.data[Restored[j]]
                        /\ job'.backup[Restored[j]] = job'.before.data[Restored[j]]
      OBVIOUS
    <3>1. CASE j = job.item
      BY <1>3, <2>2, <2>3, <2>7, <3>1
    <3>2. CASE j # job.item
      <4>1. /\ j \in 1 .. job.item - 1 /\ j \in 1 .. 6
            /\ Restored[j] \in Item /\ Restored[j] # item
        BY <1>2, <3>2, ItemsAre, ItemAt
      <4> QED
        BY <1>3, <2>2, <2>3, <4>1 DEF StagedTo
    <3> QED
      BY <3>1, <3>2
  <2>9. last /\ Verifies(job.name) => job'.staged.artifacts = job'.target.data.artifacts
    <3> SUFFICES ASSUME last, Verifies(job.name)
                 PROVE  job'.staged.artifacts = job'.target.data.artifacts
      OBVIOUS
    <3>1. item = "artifacts" /\ data = job.target.data
      BY <1>2, ItemAt DEF IInv, SourceInv, Doing
    <3> QED
      BY <2>2, <2>3, <3>1
  <2>10. RestoreInv'
    <3>1. CASE last
      <4>1. Verifies(job.name)' => Verifies(job.name)
        BY <1>2, <2>2 DEF Verifies
      <4>2. StagedTo(7)'
        BY <1>2, <2>8, <2>9, <3>1, <4>1 DEF StagedTo
      <4>3. job'.step = "apply" /\ job'.item = 1 /\ mixed'
        BY <2>1, <2>2, <3>1
      <4>4. \A j \in 1 .. 6 : live'[Restored[j]] = IF j < job'.item
                                                   THEN job'.staged[Restored[j]]
                                                   ELSE job'.before.data[Restored[j]]
        BY <1>2, <1>3, <2>2, <4>3
      <4> QED
        BY <4>2, <4>3, <4>4 DEF RestoreInv, RestoreAllOrNothing, Doing
    <3>2. CASE ~last
      <4>1. job'.step = "stage" /\ job'.item = job.item + 1 /\ mixed' = mixed
        BY <1>3, <2>1, <2>2, <3>2 DEF IInv, TypeOK
      <4>2. job'.item - 1 = job.item /\ job'.item # 7
        BY <1>2, <3>2, <4>1
      <4>3. StagedTo(job.item)'
        BY <2>8, <4>2 DEF StagedTo
      <4> QED
        BY <1>2, <1>3, <2>2, <4>1, <4>3 DEF RestoreInv, RestoreAllOrNothing, Doing
    <3> QED
      BY <3>1, <3>2
  <2>11. RowsHaveArtifacts'
    BY <1>2, <2>1 DEF IInv, RowsHaveArtifacts, SelfContained, RowsIn
  <2> QED
    BY <1>1, <2>4, <2>5, <2>6, <2>10, <2>11 DEF IInv
<1> QED
  BY <1>4, <1>5

\* A restore that ends, in whichever way, leaves nothing staged.
LEMMA EndsKeeps ==
  ASSUME IInv, TypeOK', JobInv', job' = NoJob, ~Doing("idle"),
         UNCHANGED <<live, service, snapshots, lost, mixed>>
  PROVE  IInv'
<1>1. job'.step = "idle" /\ job'.staged = Blank /\ job'.backup = Blank
  BY DEF NoJob
<1>2. ServiceInv' /\ CreateInv' /\ SnapshotSelfContained' /\ RowsHaveArtifacts'
  BY <1>1 DEF IInv, ServiceInv, Serving, Restoring, CreateInv, ArtifactsCopied, Doing,
              SnapshotSelfContained, SelfContained, RowsIn, Verifies, RowsHaveArtifacts
<1>3. AuditInv'
  BY <1>1, BlankLinked DEF IInv, AuditInv, AuditVerifies, Linked, Serving
<1> QED
  BY <1>1, <1>2, <1>3, NoRestore DEF IInv

\* An error while the items are staged leaves live as it was.
LEMMA StageErrorKeeps ==
  ASSUME IInv, StageError
  PROVE  IInv'
<1>1. TypeOK' /\ JobInv'
  BY RestoreTypes DEF IInv
<1>2. /\ UNCHANGED <<live, service, snapshots, lost, mixed>> /\ Doing("stage")
      /\ Serving("down") /\ job'.step = "failed"
      /\ job'.before = job.before /\ job'.staged = job.staged /\ job'.backup = job.backup
  BY DEF IInv, TypeOK, ServiceInv, Doing, Restoring, StageError
<1>3. ServiceInv' /\ CreateInv' /\ SnapshotSelfContained'
  BY <1>2, RestoreFrame
<1>4. AuditInv' /\ RowsHaveArtifacts'
  BY <1>2 DEF IInv, AuditInv, AuditVerifies, Linked, Serving, RowsHaveArtifacts, SelfContained,
              RowsIn
<1>5. SourceInv' /\ RestoreInv'
  BY <1>2 DEF IInv, SourceInv, RestoreInv, RestoreAllOrNothing, Doing
<1> QED
  BY <1>1, <1>3, <1>4, <1>5 DEF IInv

\* An item is replaced. After the last one live is the snapshot.
LEMMA AppliesKeeps ==
  ASSUME IInv, RestoreApplies
  PROVE  IInv'
<1> DEFINE item == Restored[job.item]
           last == job.item = 6
<1>1. TypeOK' /\ JobInv'
  BY RestoreTypes DEF IInv
<1>2. /\ UNCHANGED <<service, snapshots, lost>> /\ Doing("apply") /\ Serving("down")
      /\ job.item \in 1 .. 6 /\ item \in Item /\ mixed
      /\ job \in JobSet /\ live \in Data
  BY ItemsAre
     DEF IInv, TypeOK, JobSet, JobInv, ServiceInv, RestoreInv, Doing, Restoring, RestoreApplies
<1>3. /\ live' = [live EXCEPT ![item] = job.staged[item]]
      /\ job' = IF last THEN [job EXCEPT !.step = "restored"] ELSE [job EXCEPT !.item = @ + 1]
      /\ mixed' = IF last THEN \/ job.target.mixed
                              \/ job.staged.artifacts # job.target.data.artifacts
                          ELSE mixed
  BY ItemsAre DEF RestoreApplies
<1>4. /\ job'.before = job.before /\ job'.target = job.target /\ job'.name = job.name
      /\ job'.staged = job.staged /\ job'.backup = job.backup
      /\ job'.step = (IF last THEN "restored" ELSE "apply")
      /\ ~last => job'.item = job.item + 1
  BY <1>2, <1>3 DEF JobSet, Doing
<1>5. /\ live'[item] = job.staged[item]
      /\ \A other \in Item : other # item => live'[other] = live[other]
  BY <1>2, <1>3, ItemsAre DEF Data
<1>6. /\ StagedTo(7)
      /\ \A j \in 1 .. 6 : live[Restored[j]] = IF j < job.item
                                               THEN job.staged[Restored[j]]
                                               ELSE job.before.data[Restored[j]]
  BY <1>2 DEF IInv, RestoreInv
<1>7. \A j \in 1 .. 6 : live'[Restored[j]] = IF j <= job.item
                                             THEN job.staged[Restored[j]]
                                             ELSE job.before.data[Restored[j]]
  <2> SUFFICES ASSUME NEW j \in 1 .. 6
               PROVE  live'[Restored[j]] = IF j <= job.item
                                           THEN job.staged[Restored[j]]
                                           ELSE job.before.data[Restored[j]]
    OBVIOUS
  <2>1. CASE j = job.item
    BY <1>2, <1>5, <2>1
  <2>2. CASE j # job.item
    <3>1. Restored[j] \in Item /\ Restored[j] # item
      BY <1>2, <2>2, ItemsAre, ItemAt
    <3> QED
      BY <1>2, <1>5, <1>6, <2>2, <3>1
  <2> QED
    BY <2>1, <2>2
<1>8. ServiceInv' /\ CreateInv' /\ SnapshotSelfContained'
  BY <1>2, <1>4, RestoreFrame
<1>9. AuditInv'
  <2>1. ~lost => Linked(live')
    BY <1>2, <1>5, ItemsAre DEF IInv, AuditInv, AuditVerifies, Linked
  <2> QED
    BY <1>2, <1>4, <2>1 DEF IInv, AuditInv, AuditVerifies, Linked, Serving
<1>10. SourceInv'
  BY <1>2, <1>4 DEF IInv, SourceInv, Verifies, Doing, SelfContained, RowsIn
<1>11. CASE ~last
  <2>1. \A j \in 1 .. 6 : live'[Restored[j]] = IF j < job'.item
                                               THEN job'.staged[Restored[j]]
                                               ELSE job'.before.data[Restored[j]]
    BY <1>2, <1>4, <1>7, <1>11
  <2>2. StagedTo(7)'
    BY <1>2, <1>4, <1>6 DEF StagedTo, Verifies
  <2>3. mixed' /\ job'.step = "apply"
    BY <1>2, <1>3, <1>4, <1>11
  <2>4. RestoreInv'
    BY <2>1, <2>2, <2>3 DEF RestoreInv, RestoreAllOrNothing, Doing
  <2>5. RowsHaveArtifacts'
    BY <2>3 DEF RowsHaveArtifacts
  <2> QED
    BY <1>1, <1>8, <1>9, <1>10, <2>4, <2>5 DEF IInv
<1>12. CASE last
  <2>1. \A j \in 1 .. 6 : live'[Restored[j]] = job.staged[Restored[j]]
    BY <1>7, <1>12
  <2>2. \A i \in Item : i # "artifacts" => live'[i] = job.target.data[i]
    <3> SUFFICES ASSUME NEW i \in Item, i # "artifacts"
                 PROVE  live'[i] = job.target.data[i]
      OBVIOUS
    <3>1. PICK j \in 1 .. 6 : i = Restored[j] /\ j # 6
      BY ItemAt
    <3> QED
      BY <1>6, <2>1, <3>1 DEF StagedTo
  <2>3. live'.artifacts = job.staged.artifacts
    BY <2>1, ItemAt
  <2>4. Verifies(job.name) => job.staged.artifacts = job.target.data.artifacts
    BY <1>6 DEF StagedTo
  <2>5. RestoreInv'
    <3>1. Verifies(job.name)' => Verifies(job.name)
      BY <1>2, <1>4 DEF Verifies
    <3>2. job'.step = "restored"
      BY <1>4, <1>12
    <3>3. RestoreAllOrNothing'
      BY <1>4, <2>2, <2>3, <2>4, <3>1, <3>2, ItemsAre DEF RestoreAllOrNothing, Doing
    <3> QED
      BY <3>2, <3>3 DEF RestoreInv, Doing
  <2>6. RowsHaveArtifacts'
    <3> SUFFICES ASSUME ~mixed' PROVE SelfContained(live')
      BY DEF RowsHaveArtifacts, SelfContained, RowsIn
    <3>1. ~job.target.mixed /\ live'.artifacts = job.target.data.artifacts
      BY <1>3, <1>12, <2>3
    <3>2. SelfContained(job.target.data)
      BY <1>2, <3>1 DEF IInv, SourceInv, Doing
    <3>3. live'.pilot = job.target.data.pilot
      BY <2>2, ItemsAre
    <3> QED
      BY <3>1, <3>2, <3>3 DEF SelfContained, RowsIn
  <2> QED
    BY <1>1, <1>8, <1>9, <1>10, <2>5, <2>6 DEF IInv
<1> QED
  BY <1>11, <1>12

\* An item that a step leaves torn or absent: the others stay, and a log that is
\* broken still has no record that does not follow the one before.
LEMMA BrokenIs ==
  ASSUME live \in Data, NEW item \in Item, NEW is \in {"torn", "absent"}
  PROVE  /\ \A other \in Item : other # item => Broken(item, is)[other] = live[other]
         /\ Linked(live) => Linked(Broken(item, is))
<1>1. \A other \in Item : other # item => Broken(item, is)[other] = live[other]
  BY ItemsAre DEF Data, Broken
<1>2. item # "audit" => Broken(item, is).audit = live.audit
  BY <1>1, ItemsAre
<1>3. item = "audit" => \/ Broken(item, is).audit = Blank.audit
                        \/ Broken(item, is).audit.value = live.audit.value
  BY ItemsAre DEF Data, File, Broken
<1>4. Linked(live) => Linked(Broken(item, is))
  BY <1>2, <1>3, BlankLinked DEF Linked
<1> QED
  BY <1>1, <1>4

\* The backups are complete when live is first touched.
LEMMA BackupIsBefore ==
  ASSUME job \in JobSet, StagedTo(7)
  PROVE  job.backup = job.before.data
<1>1. job.backup \in Data /\ job.before.data \in Data
  BY DEF JobSet
<1>2. \A j \in 1 .. 6 : job.backup[Restored[j]] = job.before.data[Restored[j]]
  BY DEF StagedTo
<1>3. \A item \in Item : job.backup[item] = job.before.data[item]
  BY <1>2, ItemAt
<1> QED
  BY <1>1, <1>3, SameData

\* The steps of a rollback leave everything but live and the command alone.
LEMMA RollbackFrame ==
  ASSUME IInv, TypeOK', JobInv', UNCHANGED <<service, snapshots, lost>>,
         Serving("down"), job'.step \in {"rollback", "failed", "rollback_failed"},
         job'.staged = job.staged, job'.backup = job.backup, job'.before = job.before,
         ~job'.before.mixed => SelfContained(job'.before.data),
         ~lost /\ Linked(live) => Linked(live'),
         RestoreInv', RowsHaveArtifacts'
  PROVE  IInv'
<1>1. ServiceInv' /\ CreateInv' /\ SnapshotSelfContained'
  BY RestoreFrame
<1>2. AuditInv'
  BY DEF IInv, AuditInv, AuditVerifies, Linked, Serving
<1>3. SourceInv'
  BY DEF SourceInv, Doing, SelfContained, RowsIn
<1> QED
  BY <1>1, <1>2, <1>3 DEF IInv

\* The item that fails is rolled back with those before it, unless it was not
\* touched.
LEMMA ApplyErrorKeeps ==
  ASSUME IInv, ApplyError
  PROVE  IInv'
<1> DEFINE item == Restored[job.item]
<1>1. TypeOK' /\ JobInv'
  BY RestoreTypes DEF IInv
<1>2. /\ UNCHANGED <<service, snapshots, lost, mixed>> /\ Doing("apply") /\ Serving("down")
      /\ job.item \in 1 .. 6 /\ item \in Item /\ mixed
      /\ job \in JobSet /\ live \in Data
  BY ItemsAre
     DEF IInv, TypeOK, JobSet, JobInv, ServiceInv, RestoreInv, Doing, Restoring, ApplyError
<1>3. /\ live' = live \/ \E is \in HalfApplied(item) : live' = Broken(item, is)
      /\ job' = [job EXCEPT !.step = "rollback", !.item = Committed(item)]
  BY DEF ApplyError
<1>4. /\ job'.before = job.before /\ job'.staged = job.staged /\ job'.backup = job.backup
      /\ job'.step = "rollback" /\ job'.item = Committed(item)
  BY <1>2, <1>3 DEF JobSet
<1>5. /\ StagedTo(7)
      /\ \A j \in 1 .. 6 : j >= job.item => live[Restored[j]] = job.before.data[Restored[j]]
  BY <1>2 DEF IInv, RestoreInv
<1>6. /\ HalfApplied(item) \subseteq {"torn", "absent"}
      /\ Committed(item) = job.item \/ (Committed(item) = job.item - 1 /\ HalfApplied(item) = {})
  BY <1>2, ItemsAre DEF HalfApplied, Committed
<1>7. /\ \A other \in Item : other # item => live'[other] = live[other]
      /\ Linked(live) => Linked(live')
  BY <1>2, <1>3, <1>6, BrokenIs
<1>8. \A j \in 1 .. 6 : j > job'.item => live'[Restored[j]] = job'.before.data[Restored[j]]
  <2> SUFFICES ASSUME NEW j \in 1 .. 6, j > job'.item
               PROVE  live'[Restored[j]] = job.before.data[Restored[j]]
    BY <1>4
  <2>1. CASE j = job.item
    <3>1. live' = live
      BY <1>2, <1>3, <1>4, <1>6, <2>1
    <3> QED
      BY <1>2, <1>5, <2>1, <3>1
  <2>2. CASE j # job.item
    <3>1. Restored[j] \in Item /\ Restored[j] # item /\ j >= job.item
      BY <1>2, <1>4, <1>6, <2>2, ItemsAre, ItemAt
    <3> QED
      BY <1>5, <1>7, <3>1
  <2> QED
    BY <2>1, <2>2
<1>9. job'.backup = job'.before.data
  BY <1>2, <1>4, <1>5, BackupIsBefore
<1>10. RestoreInv' /\ RowsHaveArtifacts'
  BY <1>2, <1>4, <1>8, <1>9 DEF RestoreInv, RestoreAllOrNothing, RowsHaveArtifacts, Doing
<1>11. ~job'.before.mixed => SelfContained(job'.before.data)
  BY <1>2, <1>4 DEF IInv, SourceInv, Doing
<1> QED
  BY <1>1, <1>2, <1>4, <1>7, <1>10, <1>11, RollbackFrame

\* An item is rolled back, or cannot be.
LEMMA RollBackKeeps ==
  ASSUME IInv, RollBack
  PROVE  IInv'
<1> DEFINE item == Restored[job.item]
<1>1. TypeOK' /\ JobInv'
  BY RestoreTypes DEF IInv
<1>2. /\ UNCHANGED <<service, snapshots, lost, mixed>> /\ Doing("rollback") /\ Serving("down")
      /\ job \in JobSet /\ live \in Data
  BY DEF IInv, TypeOK, JobSet, JobInv, ServiceInv, Doing, Restoring, RollBack
<1>3. job.item \in 1 .. 6 /\ item \in Item
  BY <1>2, ItemsAre DEF JobSet, RollBack
<1>4. /\ mixed /\ job.backup = job.before.data
      /\ ~job.stuck => \A j \in 1 .. 6 : j > job.item =>
                          live[Restored[j]] = job.before.data[Restored[j]]
  BY <1>2 DEF IInv, RestoreInv
<1>5. /\ job'.before = job.before /\ job'.staged = job.staged /\ job'.backup = job.backup
      /\ job'.step = "rollback" /\ job'.item = job.item - 1
  BY <1>2, <1>3 DEF JobSet, RollBack, Doing
<1>6. ~job'.before.mixed => SelfContained(job'.before.data)
  BY <1>2, <1>5 DEF IInv, SourceInv, Doing
<1>7. RowsHaveArtifacts'
  BY <1>2, <1>4 DEF RowsHaveArtifacts
<1>8. CASE live' = [live EXCEPT ![item] = job.backup[item]] /\ job' = [job EXCEPT !.item = @ - 1]
  <2>1. /\ live'[item] = job.backup[item] /\ job'.stuck = job.stuck
        /\ \A other \in Item : other # item => live'[other] = live[other]
    BY <1>2, <1>3, <1>8, ItemsAre DEF Data, JobSet
  <2>2. ASSUME ~job'.stuck, NEW j \in 1 .. 6, j > job'.item
        PROVE  live'[Restored[j]] = job.before.data[Restored[j]]
    <3>1. CASE j = job.item
      BY <1>4, <2>1, <3>1
    <3>2. CASE j # job.item
      <4>1. Restored[j] \in Item /\ Restored[j] # item /\ j > job.item
        BY <1>3, <1>5, <2>2, <3>2, ItemsAre, ItemAt
      <4> QED
        BY <1>4, <2>1, <2>2, <4>1
    <3> QED
      BY <3>1, <3>2
  <2>3. RestoreInv'
    BY <1>2, <1>4, <1>5, <2>2 DEF RestoreInv, RestoreAllOrNothing, Doing
  <2>4. ~lost /\ Linked(live) => Linked(live')
    BY <1>3, <2>1, ItemsAre DEF IInv, AuditInv, Linked
  <2> QED
    BY <1>1, <1>2, <1>5, <1>6, <1>7, <2>3, <2>4, RollbackFrame
<1>9. CASE /\ live' \in {live} \cup {Broken(item, is) : is \in HalfRolledBack(item)}
           /\ job' = [job EXCEPT !.item = @ - 1, !.stuck = TRUE]
  <2>1. job'.stuck
    BY <1>2, <1>9 DEF JobSet
  <2>2. HalfRolledBack(item) \subseteq {"torn", "absent"}
    BY <1>3, ItemsAre DEF HalfRolledBack, HalfApplied
  <2>3. Linked(live) => Linked(live')
    BY <1>2, <1>3, <1>9, <2>2, BrokenIs
  <2>4. RestoreInv'
    BY <1>2, <1>4, <1>5, <2>1 DEF RestoreInv, RestoreAllOrNothing, Doing
  <2> QED
    BY <1>1, <1>2, <1>5, <1>6, <1>7, <2>3, <2>4, RollbackFrame
<1> QED
  BY <1>8, <1>9 DEF RollBack

\* Everything was rolled back: live is what it was, unless an item could not be.
LEMMA RolledBackKeeps ==
  ASSUME IInv, RolledBack
  PROVE  IInv'
<1>1. TypeOK' /\ JobInv'
  BY RestoreTypes DEF IInv
<1>2. /\ UNCHANGED <<live, service, snapshots, lost>> /\ Doing("rollback") /\ Serving("down")
      /\ job \in JobSet /\ live \in Data /\ job.before.data \in Data
  BY DEF IInv, TypeOK, JobSet, JobInv, ServiceInv, Doing, Restoring, RolledBack
<1>3. /\ job.item = 0
      /\ ~job.stuck => \A j \in 1 .. 6 : j > job.item =>
                          live[Restored[j]] = job.before.data[Restored[j]]
  BY <1>2 DEF IInv, RestoreInv, RolledBack
<1>4. ~job.stuck => live = job.before.data
  <2> SUFFICES ASSUME ~job.stuck PROVE live = job.before.data
    OBVIOUS
  <2>1. \A j \in 1 .. 6 : live[Restored[j]] = job.before.data[Restored[j]]
    BY <1>3
  <2>2. \A item \in Item : live[item] = job.before.data[item]
    BY <2>1, ItemAt
  <2> QED
    BY <1>2, <2>2, SameData
<1>5. /\ job'.before = job.before /\ job'.staged = job.staged /\ job'.backup = job.backup
      /\ job'.step = (IF job.stuck THEN "rollback_failed" ELSE "failed")
      /\ mixed' = IF job.stuck THEN TRUE ELSE job.before.mixed
  BY <1>2 DEF JobSet, RolledBack
<1>6. ~job'.before.mixed => SelfContained(job'.before.data)
  BY <1>2, <1>5 DEF IInv, SourceInv, Doing
<1>7. RestoreInv'
  BY <1>2, <1>4, <1>5 DEF RestoreInv, RestoreAllOrNothing, Doing
<1>8. RowsHaveArtifacts'
  BY <1>2, <1>4, <1>5, <1>6 DEF RowsHaveArtifacts, SelfContained, RowsIn
<1> QED
  BY <1>1, <1>2, <1>5, <1>6, <1>7, <1>8, RollbackFrame

\* A restore, its end and its rollback keep the invariant.
LEMMA RestoreKeeps ==
  ASSUME IInv,
         \/ \E name \in Name : RestoreBegins(name)
         \/ RestoreStages \/ StageError \/ RestoreApplies \/ ApplyError
         \/ RollBack \/ RolledBack \/ RestoreReturns \/ KillCommand
  PROVE  IInv'
<1>1. CASE RestoreReturns \/ KillCommand
  <2>1. TypeOK' /\ JobInv'
    BY <1>1, RestoreTypes DEF IInv
  <2>2. /\ job' = NoJob /\ ~Doing("idle")
        /\ UNCHANGED <<live, service, snapshots, lost, mixed>>
    BY <1>1 DEF RestoreReturns, KillCommand, Doing
  <2> QED
    BY <2>1, <2>2, EndsKeeps
<1> QED
  BY <1>1, RestoreBeginsKeeps, RestoreStagesKeeps, StageErrorKeeps, AppliesKeeps,
     ApplyErrorKeeps, RollBackKeeps, RolledBackKeeps

-----------------------------------------------------------------------------
(* Theorems                                                                *)

\* Every step of the service, of the commands and of retention keeps the
\* invariant.
LEMMA NextKeeps == IInv /\ [Next]_vars => IInv'
<1> SUFFICES ASSUME IInv, [Next]_vars PROVE IInv'
  OBVIOUS
<1>1. CASE UNCHANGED vars
  BY SMTT(30), <1>1
     DEF vars, IInv, TypeOK, JobInv, ServiceInv, AuditInv, CreateInv, SourceInv, RestoreInv,
         SnapshotSelfContained, RowsHaveArtifacts, Doing, Restoring, Serving,
         AuditVerifies, Linked, ArtifactsCopied, Verifies, StagedTo, RestoreAllOrNothing,
         SelfContained, RowsIn
<1>2. CASE Next
  BY <1>2, ServiceKeeps, CreateKeeps, RetentionKeeps, RestoreKeeps DEF Next
<1> QED
  BY <1>1, <1>2

\* In every state that a run reaches, the invariant holds.
THEOREM SnapshotInvariant == Spec => []IInv
  BY InitInv, NextKeeps, PTL DEF Spec

\* The files of the service, its process, the directories and the command are
\* what they are declared to be, and a directory that create_system_snapshot is
\* making is as far as the command, or was removed by prune_snapshots.
THEOREM Typing == Spec => []TypeOK
<1>1. IInv => TypeOK
  BY DEF IInv
<1> QED
  BY <1>1, SnapshotInvariant, PTL

\* A snapshot that verify_system_snapshot accepts has the artifact of every row
\* in it, in whichever order the service wrote both while
\* create_system_snapshot copied them.
THEOREM SelfContainedSnapshots == Spec => []SnapshotSelfContained
<1>1. IInv => SnapshotSelfContained
  BY DEF IInv
<1> QED
  BY <1>1, SnapshotInvariant, PTL

\* The service keeps the artifact of every row that append_event wrote: across
\* its own death, across restore_system_snapshot and across
\* _rollback_restore_item.
THEOREM RowsKeepArtifacts == Spec => []RowsHaveArtifacts
<1>1. IInv => RowsHaveArtifacts
  BY DEF IInv
<1> QED
  BY <1>1, SnapshotInvariant, PTL

\* A restore_system_snapshot that fails and is rolled back leaves every item as
\* it was; one that succeeds leaves every item as the snapshot has it.
THEOREM RestoresWhole == Spec => []RestoreAllOrNothing
<1>1. IInv => RestoreAllOrNothing
  BY DEF IInv, RestoreInv
<1> QED
  BY <1>1, SnapshotInvariant, PTL

\* AuditLog.verify accepts the log after any restarts of the service and any
\* restores, as long as every AuditLog.write wrote the record it remembers.
THEOREM AuditHolds == Spec => []AuditVerifies
<1>1. IInv => AuditVerifies
  BY DEF IInv, AuditInv
<1> QED
  BY <1>1, SnapshotInvariant, PTL

\* The directories are left alone by the service and by restore_system_snapshot.
LEMMA LeavesSnapshots ==
  ASSUME \/ StartService \/ StopService \/ KillService
         \/ \E a \in Artifact : PutArtifact(a)
         \/ WriteArtifact \/ InsertRow \/ EnqueueTask \/ WriteRecord \/ Tick
         \/ SnapshotChain \/ WriteState
         \/ \E n \in Name : RestoreBegins(n)
         \/ RestoreStages \/ StageError \/ RestoreApplies \/ ApplyError
         \/ RollBack \/ RolledBack \/ RestoreReturns \/ KillCommand
  PROVE  snapshots' = snapshots
<1>1. CASE \/ StartService \/ StopService \/ KillService
           \/ \E a \in Artifact : PutArtifact(a)
           \/ WriteArtifact \/ InsertRow \/ EnqueueTask \/ WriteRecord \/ Tick
  BY <1>1, Zenon DEF StartService, StopService, KillService, PutArtifact, WriteArtifact,
                     InsertRow, EnqueueTask, WriteRecord, Tick
<1>2. CASE \/ SnapshotChain \/ WriteState
           \/ \E n \in Name : RestoreBegins(n)
           \/ RestoreStages \/ StageError \/ RestoreApplies \/ ApplyError
           \/ RollBack \/ RolledBack \/ RestoreReturns \/ KillCommand
  BY <1>2, Zenon DEF SnapshotChain, WriteState, RestoreBegins, RestoreStages, StageError,
                     RestoreApplies, ApplyError, RollBack, RolledBack, RestoreReturns,
                     KillCommand
<1> QED
  BY <1>1, <1>2

\* Nothing but prune_snapshots, once the retention is over, touches a snapshot
\* that create_system_snapshot returned.
THEOREM CompletesAreKept == Spec => CompleteKept
<1>1. ASSUME IInv, [Next]_vars, NEW name \in Name,
             snapshots[name].state = "complete", name + Retention >= now
      PROVE  snapshots'[name] = snapshots[name]
  <2>1. /\ snapshots \in [Name -> SnapshotSet] /\ name \in Nat /\ now \in Nat
    BY <1>1 DEF IInv, TypeOK, SnapshotSet, Name
  <2>2. Making => job.name \in Name /\ job.name # name
    BY <1>1 DEF IInv, TypeOK, JobInv, Making, DirectoryOf, Doing
  <2>3. CASE UNCHANGED snapshots
    BY <2>3
  <2>4. CASE CreateBegins
    BY <1>1, <2>1, <2>4 DEF CreateBegins, Cleaned
  <2>5. CASE \/ CreateCopies \/ WriteManifest \/ WriteChecksums
             \/ CreateReturns \/ CreateError
    <3>1. Making
      BY <2>5 DEF Making, CreateCopies, WriteManifest, WriteChecksums, CreateReturns,
                  CreateError, Doing
    <3> QED
      BY <2>1, <2>2, <2>5, <3>1
         DEF CreateCopies, WriteManifest, WriteChecksums, CreateReturns, CreateError,
             CreateFails, Cleaned
  <2>6. CASE \E n \in Name : Prune(n) \/ RemoveTree(n)
    <3>1. PICK n \in Name : Prune(n) \/ RemoveTree(n)
      BY <2>6
    <3>2. n # name
      BY <1>1, <2>1, <3>1 DEF Prune, RemoveTree
    <3> QED
      BY <2>1, <3>1, <3>2 DEF Prune, RemoveTree
  <2>7. CASE \/ StartService \/ StopService \/ KillService
             \/ \E a \in Artifact : PutArtifact(a)
             \/ WriteArtifact \/ InsertRow \/ EnqueueTask \/ WriteRecord \/ Tick
    BY <2>7, LeavesSnapshots
  <2>8. CASE \/ SnapshotChain \/ WriteState
             \/ \E n \in Name : RestoreBegins(n)
             \/ RestoreStages \/ StageError \/ RestoreApplies \/ ApplyError
             \/ RollBack \/ RolledBack \/ RestoreReturns \/ KillCommand
    BY <2>8, LeavesSnapshots
  <2>9. CASE UNCHANGED vars
    BY <2>9 DEF vars
  <2> QED
    BY <1>1, <2>4, <2>5, <2>6, <2>7, <2>8, <2>9 DEF Next
<1>2. IInv /\ [Next]_vars =>
        [\A name \in Name :
           snapshots[name].state = "complete" /\ name + Retention >= now =>
             snapshots'[name] = snapshots[name]]_vars
  <2> SUFFICES ASSUME IInv, [Next]_vars
               PROVE  \A name \in Name :
                        snapshots[name].state = "complete" /\ name + Retention >= now =>
                          snapshots'[name] = snapshots[name]
    OBVIOUS
  <2> QED
    BY <1>1
<1> QED
  BY <1>2, SnapshotInvariant, PTL DEF Spec, CompleteKept

-----------------------------------------------------------------------------
(* The review of a disputed bundle (DisputeReview)                         *)

FileState == {"open", "unresolved", "upheld", "dismissed"}

Verdict == {"dismiss", "uphold", "unable"}

ReviewState == [step : {"none", "queued", "bundle", "verified", "rejected"} \cup Verdict,
                revision : Nat, events : Nat]

\* What a reviewer has read is of the bundle its dispute is about.
ReadsTheBundle(d, v) ==
    /\ v.step # "none" => opened[d] > 0
    /\ v.step \in {"bundle", "verified"} \cup Verdict => v.revision = opened[d]
    /\ v.step \in {"verified"} \cup Verdict => v.events = sealed[opened[d]]

\* Three reviewers have signed, and two of them dismiss the dispute.
Dismissed(d) ==
    /\ Cardinality(Reviewer) = 3
    /\ \A r \in Reviewer : review[d][r].step \in Verdict
    /\ Review!Count(d, Reviewer, "dismiss") >= 2

ReviewTypes ==
    /\ reviewed \in [closed : BOOLEAN, events : 1 .. MaxEvents]
    /\ sealed \in Seq(1 .. MaxEvents)
    /\ view \in [revision : 0 .. Len(sealed), closed : BOOLEAN]
    /\ opened \in [Dispute -> 0 .. Len(sealed)]
    /\ review \in [Dispute -> [Reviewer -> ReviewState]]
    /\ resolved \in [Dispute -> SUBSET FileState]
    /\ plan \in [revision : Nat, disputes : SUBSET Dispute]

\* The inductive invariant. A file that says dismissed is of reviews that are all
\* signed, so none of them changes any more, however old the file is; and a plan
\* has only disputes that were opened, so no later one starts with an empty file.
ReviewInv ==
    /\ ReviewTypes
    /\ view.closed => view.revision > 0
    /\ \A d \in Dispute :
         /\ \A r \in Reviewer : ReadsTheBundle(d, review[d][r])
         /\ "dismissed" \in resolved[d] => Dismissed(d)
         /\ d \in plan.disputes => /\ opened[d] > 0 /\ opened[d] = plan.revision
                                   /\ d \in Critical => "dismissed" \in resolved[d]

\* The Cardinality that the instance brings is the one of FiniteSets.
LEMMA SameCardinality == \A S : Review!Cardinality(S) = Cardinality(S)
  BY DEF Review!Cardinality, Cardinality

LEMMA ReviewBegins == Review!Init => ReviewInv
<1> SUFFICES ASSUME Review!Init PROVE ReviewInv
  OBVIOUS
<1>1. MaxEvents \in Nat \ {0}
  BY StoredDataAssumption
<1> USE <1>1 DEF Review!Init, Review!NoReview, Review!NoPlan
<1>2. ReviewTypes
  BY DEF ReviewTypes, ReviewState
<1>3. ASSUME NEW d \in Dispute, NEW r \in Reviewer
      PROVE  ReadsTheBundle(d, review[d][r])
  BY DEF ReadsTheBundle, Verdict
<1> QED
  BY <1>2, <1>3 DEF ReviewInv

\* Bundles are only added: what was sealed stays.
LEMMA SealedStays ==
  ASSUME ReviewInv, NEW d \in Dispute, NEW v,
         NEW n \in 1 .. MaxEvents, sealed' = Append(sealed, n), opened' = opened,
         ReadsTheBundle(d, v)
  PROVE  ReadsTheBundle(d, v)'
<1>1. /\ sealed \in Seq(1 .. MaxEvents) /\ opened[d] \in 0 .. Len(sealed)
      /\ Len(sealed) \in Nat
  BY DEF ReviewInv, ReviewTypes
<1>2. opened[d] > 0 => sealed'[opened[d]] = sealed[opened[d]]
  BY <1>1
<1> QED
  BY <1>2 DEF ReadsTheBundle, Verdict

\* A review that goes on was not signed, so its dispute was not dismissed.
LEMMA ReviewGoesOn ==
  ASSUME ReviewInv, NEW d \in Dispute, NEW r \in Reviewer, NEW v \in ReviewState,
         review[d][r].step \notin Verdict,
         review' = [review EXCEPT ![d][r] = v], ReadsTheBundle(d, v),
         UNCHANGED <<reviewed, sealed, view, opened, resolved, plan>>
  PROVE  ReviewInv'
<1>1. ReviewTypes'
  BY DEF ReviewInv, ReviewTypes
<1>2. /\ review'[d][r] = v
      /\ \A q \in Reviewer \ {r} : review'[d][q] = review[d][q]
      /\ \A other \in Dispute \ {d} : review'[other] = review[other]
  BY DEF ReviewInv, ReviewTypes
<1>3. "dismissed" \notin resolved[d]
  BY DEF ReviewInv, Dismissed
<1>4. \A other \in Dispute \ {d} : Dismissed(other) => Dismissed(other)'
  BY <1>2 DEF Dismissed, Review!Count
<1>5. \A other \in Dispute, q \in Reviewer : ReadsTheBundle(other, review[other][q])'
  BY <1>2 DEF ReviewInv, ReadsTheBundle
<1> QED
  BY <1>1, <1>3, <1>4, <1>5 DEF ReviewInv

LEMMA ReviewStepKeeps ==
  ASSUME ReviewInv, NEW d \in Dispute, NEW r \in Reviewer,
         \/ Review!FetchBundle(d, r) \/ Review!FetchEvents(d, r) \/ Review!Sign(d, r)
         \/ Review!ReviewFails(d, r) \/ Review!Crash(d, r)
  PROVE  ReviewInv'
<1>1. /\ UNCHANGED <<reviewed, sealed, view, opened, resolved, plan>>
      /\ review[d][r] \in ReviewState /\ ReadsTheBundle(d, review[d][r])
      /\ opened[d] \in Nat /\ Len(sealed) \in Nat /\ reviewed.events \in Nat
  BY StoredDataAssumption
     DEF Review!FetchBundle, Review!FetchEvents, Review!Sign, Review!ReviewFails, Review!Crash,
         ReviewInv, ReviewTypes
<1>2. PICK v : /\ review' = [review EXCEPT ![d][r] = v]
               /\ review[d][r].step \notin Verdict
               /\ v \in ReviewState /\ ReadsTheBundle(d, v)
  <2> DEFINE old == review[d][r]
  <2>1. CASE review' = [review EXCEPT ![d][r] = [old EXCEPT !.step = "rejected"]]
             /\ old.step \in {"queued", "bundle", "verified"}
    <3>1. [old EXCEPT !.step = "rejected"] \in ReviewState
          /\ ReadsTheBundle(d, [old EXCEPT !.step = "rejected"])
      BY <1>1, <2>1 DEF ReviewState, ReadsTheBundle, Verdict
    <3> QED
      BY <2>1, <3>1 DEF Verdict
  <2>2. CASE Review!FetchBundle(d, r)
    <3> DEFINE v == [step |-> "bundle", revision |-> Len(sealed), events |-> 0]
    <3>1. CASE Review!Matches(d)
      <4>1. review' = [review EXCEPT ![d][r] = v] /\ old.step = "queued"
        BY <2>2, <3>1 DEF Review!FetchBundle, Review!With, Review!Latest
      <4>2. v \in ReviewState /\ ReadsTheBundle(d, v)
        BY <1>1, <3>1, <4>1 DEF ReviewState, ReadsTheBundle, Review!Matches, Review!Latest, Verdict
      <4> QED
        BY <4>1, <4>2 DEF Verdict
    <3>2. CASE ~Review!Matches(d)
      BY <2>1, <2>2, <3>2 DEF Review!FetchBundle, Review!With, Review!Rejected
    <3> QED
      BY <3>1, <3>2
  <2>3. CASE Review!FetchEvents(d, r)
    <3> DEFINE v == [old EXCEPT !.step = "verified", !.events = reviewed.events]
    <3>1. CASE reviewed.events = sealed[opened[d]]
      <4>1. review' = [review EXCEPT ![d][r] = v] /\ old.step = "bundle"
        BY <2>3, <3>1 DEF Review!FetchEvents, Review!With
      <4>2. v \in ReviewState /\ ReadsTheBundle(d, v)
        BY <1>1, <3>1, <4>1 DEF ReviewState, ReadsTheBundle, Verdict
      <4> QED
        BY <4>1, <4>2 DEF Verdict
    <3>2. CASE reviewed.events # sealed[opened[d]]
      BY <2>1, <2>3, <3>2 DEF Review!FetchEvents, Review!With, Review!Rejected
    <3> QED
      BY <3>1, <3>2
  <2>4. CASE Review!Sign(d, r)
    <3>1. PICK verdict \in Verdict :
            review' = [review EXCEPT ![d][r] = [old EXCEPT !.step = verdict]]
      BY <2>4 DEF Review!Sign, Review!With, Verdict
    <3>2. old.step = "verified"
      BY <2>4 DEF Review!Sign
    <3>3. [old EXCEPT !.step = verdict] \in ReviewState
          /\ ReadsTheBundle(d, [old EXCEPT !.step = verdict])
      BY <1>1, <3>2 DEF ReviewState, ReadsTheBundle, Verdict
    <3> QED
      BY <3>1, <3>2, <3>3 DEF Verdict
  <2>5. CASE Review!ReviewFails(d, r)
    BY <2>1, <2>5 DEF Review!ReviewFails, Review!Rejected, Review!With
  <2>6. CASE Review!Crash(d, r)
    <3> DEFINE v == [step |-> "queued", revision |-> 0, events |-> 0]
    <3>0. [Review!NoReview EXCEPT !.step = "queued"] = v
      BY DEF Review!NoReview
    <3>1. review' = [review EXCEPT ![d][r] = v] /\ old.step \in {"bundle", "verified"}
      BY <2>6, <3>0 DEF Review!Crash, Review!With
    <3>2. v \in ReviewState /\ ReadsTheBundle(d, v)
      BY <1>1, <3>1 DEF ReviewState, ReadsTheBundle, Verdict
    <3> QED
      BY <3>1, <3>2 DEF Verdict
  <2> QED
    BY <2>2, <2>3, <2>4, <2>5, <2>6
<1> QED
  BY <1>1, <1>2, ReviewGoesOn

\* Tasks go out once, before anybody has reviewed.
LEMMA DispatchKeeps ==
  ASSUME ReviewInv, NEW d \in Dispute, Review!Dispatch(d)
  PROVE  ReviewInv'
<1> DEFINE v == [step |-> "queued", revision |-> 0, events |-> 0]
<1>0. /\ [Review!NoReview EXCEPT !.step = "queued"] = v
      /\ Review!NoReview.step = "none"
  BY DEF Review!NoReview
<1>1. /\ review' = [review EXCEPT ![d] = [r \in Reviewer |-> v]]
      /\ opened[d] > 0
      /\ \A r \in Reviewer : review[d][r].step = "none"
      /\ UNCHANGED <<reviewed, sealed, view, opened, resolved, plan>>
  BY <1>0 DEF Review!Dispatch
<1>2. v \in ReviewState
  BY DEF ReviewState
<1>3. ReviewTypes'
  BY <1>1, <1>2 DEF ReviewInv, ReviewTypes
<1>4. "dismissed" \notin resolved[d]
  <2>1. Cardinality(Reviewer) = 3 => Reviewer # {}
    BY FS_EmptySet
  <2> QED
    BY <1>1, <2>1 DEF ReviewInv, Dismissed, Verdict
<1>5. /\ \A r \in Reviewer : review'[d][r] = v
      /\ \A other \in Dispute \ {d} : review'[other] = review[other]
  BY <1>1 DEF ReviewInv, ReviewTypes
<1>6. \A other \in Dispute \ {d} : Dismissed(other) => Dismissed(other)'
  BY <1>5 DEF Dismissed, Review!Count
<1>7. \A other \in Dispute, q \in Reviewer : ReadsTheBundle(other, review[other][q])'
  BY <1>1, <1>5 DEF ReviewInv, ReadsTheBundle, Verdict
<1> QED
  BY <1>1, <1>3, <1>4, <1>6, <1>7 DEF ReviewInv

LEMMA OpenKeeps ==
  ASSUME ReviewInv, NEW d \in Dispute, Review!OpenDispute(d)
  PROVE  ReviewInv'
<1>1. /\ opened[d] = 0 /\ view.revision > 0
      /\ opened' = [opened EXCEPT ![d] = view.revision]
      /\ resolved' = [resolved EXCEPT ![d] = {"open"}]
      /\ UNCHANGED <<reviewed, sealed, view, review, plan>>
  BY DEF Review!OpenDispute
<1>0. {"open"} \in SUBSET FileState
  BY DEF FileState
<1>2. ReviewTypes'
  BY <1>0, <1>1 DEF ReviewInv, ReviewTypes
<1>3. /\ \A other \in Dispute \ {d} : /\ opened'[other] = opened[other]
                                      /\ resolved'[other] = resolved[other]
      /\ opened'[d] = view.revision /\ resolved'[d] = {"open"}
  BY <1>1 DEF ReviewInv, ReviewTypes
<1>4. d \notin plan.disputes /\ \A r \in Reviewer : review[d][r].step = "none"
  BY <1>1 DEF ReviewInv, ReadsTheBundle
<1>5. \A other \in Dispute, q \in Reviewer : ReadsTheBundle(other, review[other][q])'
  BY <1>1, <1>3, <1>4 DEF ReviewInv, ReadsTheBundle, Verdict
<1>6. \A other \in Dispute : Dismissed(other)' = Dismissed(other)
  BY <1>1 DEF Dismissed, Review!Count
<1> QED
  BY <1>1, <1>2, <1>3, <1>4, <1>5, <1>6 DEF ReviewInv

\* A file that says dismissed comes of three signed reviews.
LEMMA AggregateKeeps ==
  ASSUME ReviewInv, NEW d \in Dispute, Review!Aggregate(d)
  PROVE  ReviewInv'
<1>1. PICK reviewers \in SUBSET Review!Signed(d) :
        resolved' = [resolved EXCEPT ![d] = @ \cup {Review!Status(d, reviewers)}]
  BY DEF Review!Aggregate
<1> DEFINE status == Review!Status(d, reviewers)
<1>2. status \in FileState
  BY DEF Review!Status, FileState
<1>3. ASSUME status = "dismissed" PROVE Dismissed(d)
  <2>1. Review!Complete(reviewers) /\ Review!Count(d, reviewers, "dismiss") >= 2
    BY <1>3 DEF Review!Status
  <2>2. reviewers = Reviewer /\ Cardinality(Reviewer) = 3
    BY <2>1, SameCardinality DEF Review!Complete
  <2>3. \A r \in Reviewer : review[d][r].step \in Verdict
    BY <2>2 DEF Review!Signed, Verdict
  <2> QED
    BY <2>1, <2>2, <2>3 DEF Dismissed
<1> HIDE DEF status
<1>4. UNCHANGED <<reviewed, sealed, view, opened, review, plan>>
  BY DEF Review!Aggregate
<1>5. /\ resolved'[d] = resolved[d] \cup {status}
      /\ \A other \in Dispute \ {d} : resolved'[other] = resolved[other]
  BY <1>1 DEF ReviewInv, ReviewTypes, status
<1>6. ReviewTypes'
  <2>1. resolved[d] \cup {status} \in SUBSET FileState
    BY <1>2 DEF ReviewInv, ReviewTypes
  <2> QED
    BY <1>1, <1>4, <2>1 DEF ReviewInv, ReviewTypes, status
<1>7. \A other \in Dispute : Dismissed(other)' = Dismissed(other)
  BY <1>4 DEF Dismissed, Review!Count
<1>8. \A other \in Dispute, q \in Reviewer : ReadsTheBundle(other, review[other][q])'
  BY <1>4 DEF ReviewInv, ReadsTheBundle
<1> QED
  BY <1>3, <1>4, <1>5, <1>6, <1>7, <1>8 DEF ReviewInv

\* The gate is passed by the disputes of its bundle whose file does not block.
LEMMA PlanKeeps ==
  ASSUME ReviewInv, Review!BuildPlan
  PROVE  ReviewInv'
<1>1. /\ view.closed /\ view.revision > 0
      /\ plan' = [revision |-> view.revision, disputes |-> Review!Given]
      /\ UNCHANGED <<reviewed, sealed, view, opened, review, resolved>>
      /\ \A d \in Review!Given : \E status \in resolved[d] : ~Review!Blocked(d, status)
  BY DEF Review!BuildPlan, ReviewInv
<1>2. /\ plan'.revision = view.revision
      /\ plan'.disputes = {d \in Dispute : opened[d] = view.revision}
  BY <1>1 DEF Review!Given
<1>3. \A d \in plan'.disputes : d \in Critical => "dismissed" \in resolved[d]
  BY <1>1, <1>2 DEF Review!Blocked, Review!Given
<1>4. ReviewTypes'
  BY <1>1, <1>2 DEF ReviewInv, ReviewTypes
<1>5. \A d \in Dispute : Dismissed(d)' = Dismissed(d)
  BY <1>1 DEF Dismissed, Review!Count
<1>6. \A d \in Dispute, q \in Reviewer : ReadsTheBundle(d, review[d][q])'
  BY <1>1 DEF ReviewInv, ReadsTheBundle
<1> QED
  BY <1>1, <1>2, <1>3, <1>4, <1>5, <1>6 DEF ReviewInv

\* The operator's reads, and the store, which goes on meanwhile.
LEMMA StoreKeeps ==
  ASSUME ReviewInv,
         \/ Review!ReadBundle \/ Review!ReadSession
         \/ Review!Reopen \/ Review!Close \/ Review!Finalize
  PROVE  ReviewInv'
<1>0. MaxEvents \in Nat /\ Len(sealed) \in Nat /\ reviewed.events \in 1 .. MaxEvents
  BY StoredDataAssumption DEF ReviewInv, ReviewTypes
<1>1. UNCHANGED <<opened, review, resolved, plan>>
  BY DEF Review!ReadBundle, Review!ReadSession, Review!Reopen, Review!Close, Review!Finalize
<1>2. sealed' = sealed \/ sealed' = Append(sealed, reviewed.events)
  BY DEF Review!ReadBundle, Review!ReadSession, Review!Reopen, Review!Close, Review!Finalize
<1>3. /\ sealed' \in Seq(1 .. MaxEvents) /\ Len(sealed') \in Nat
      /\ Len(sealed) <= Len(sealed')
  <2>1. sealed \in Seq(1 .. MaxEvents)
    BY DEF ReviewInv, ReviewTypes
  <2>2. CASE sealed' = Append(sealed, reviewed.events)
    BY <1>0, <2>1, <2>2
  <2> QED
    BY <1>0, <1>2, <2>1, <2>2
<1>4. /\ reviewed' \in [closed : BOOLEAN, events : 1 .. MaxEvents]
      /\ view' \in [revision : 0 .. Len(sealed'), closed : BOOLEAN]
      /\ view'.closed => view'.revision > 0
  <2>1. /\ reviewed \in [closed : BOOLEAN, events : 1 .. MaxEvents]
        /\ view \in [revision : 0 .. Len(sealed), closed : BOOLEAN]
        /\ view.closed => view.revision > 0
    BY DEF ReviewInv, ReviewTypes
  <2>2. CASE Review!ReadBundle
    BY <1>0, <1>3, <2>1, <2>2 DEF Review!ReadBundle, Review!Latest
  <2>3. CASE Review!ReadSession
    BY <1>0, <1>3, <2>1, <2>3 DEF Review!ReadSession
  <2>4. CASE Review!Reopen
    <3>1. /\ reviewed' = [closed |-> FALSE, events |-> reviewed.events + 1]
          /\ reviewed.events + 1 \in 1 .. MaxEvents
          /\ view' = view /\ sealed' = sealed
      BY <1>0, <2>4 DEF Review!Reopen
    <3> QED
      BY <2>1, <3>1
  <2>6. CASE Review!Close
    <3>1. /\ reviewed' = [reviewed EXCEPT !.closed = TRUE]
          /\ view' = view /\ sealed' = sealed
      BY <2>6 DEF Review!Close
    <3> QED
      BY <2>1, <3>1
  <2>5. CASE Review!Finalize
    BY <1>0, <1>3, <2>1, <2>5 DEF Review!Finalize
  <2> QED
    BY <2>2, <2>3, <2>4, <2>5, <2>6
<1>5. ReviewTypes'
  BY <1>0, <1>1, <1>3, <1>4 DEF ReviewInv, ReviewTypes
<1>6. \A d \in Dispute : Dismissed(d)' = Dismissed(d)
  BY <1>1 DEF Dismissed, Review!Count
<1>7. ASSUME NEW d \in Dispute, NEW q \in Reviewer
      PROVE  ReadsTheBundle(d, review[d][q])'
  <2>1. ReadsTheBundle(d, review[d][q])
    BY DEF ReviewInv
  <2>2. CASE sealed' = sealed
    BY <1>1, <2>1, <2>2 DEF ReadsTheBundle
  <2>3. CASE sealed' = Append(sealed, reviewed.events)
    BY <1>0, <1>1, <2>1, <2>3, SealedStays DEF ReadsTheBundle
  <2> QED
    BY <1>2, <2>2, <2>3
<1> QED
  BY <1>1, <1>4, <1>5, <1>6, <1>7 DEF ReviewInv

LEMMA ReviewNext == ReviewInv /\ [Review!Next]_(Review!vars) => ReviewInv'
<1> SUFFICES ASSUME ReviewInv, [Review!Next]_(Review!vars) PROVE ReviewInv'
  OBVIOUS
<1>1. CASE UNCHANGED Review!vars
  BY <1>1 DEF Review!vars, ReviewInv, ReviewTypes, ReadsTheBundle, Dismissed, Review!Count
<1>2. CASE Review!Next
  BY <1>2, StoreKeeps, PlanKeeps, OpenKeeps, DispatchKeeps, AggregateKeeps, ReviewStepKeeps
     DEF Review!Next
<1> QED
  BY <1>1, <1>2

\* The inductive invariant of the review holds.
THEOREM ReviewInvariant == Review!Spec => []ReviewInv
<1> QED
  BY ReviewBegins, ReviewNext, PTL DEF Review!Spec

\* A plan for a bundle disputed as critical rests on three verdicts of reviewers
\* who had read that bundle and every event it sealed, two of which dismiss the
\* dispute, however old the files it was built from are and whatever was appended
\* or sealed meanwhile.
THEOREM PlansAreReviewed == Review!Spec => []PlanIsReviewed
<1>1. ReviewInv => PlanIsReviewed
  <2> SUFFICES ASSUME ReviewInv PROVE Review!PlanIsReviewed
    BY DEF PlanIsReviewed
  <2>1. Review!VerdictsAreInformed
    BY DEF Review!VerdictsAreInformed, Review!Signed, ReviewInv, ReadsTheBundle, Verdict
  <2>2. ASSUME NEW d \in plan.disputes \cap Critical
        PROVE  /\ opened[d] = plan.revision
               /\ Cardinality(Review!Signed(d)) = 3
               /\ Review!Count(d, Reviewer, "dismiss") >= 2
    <3>1. d \in Dispute /\ opened[d] = plan.revision /\ Dismissed(d)
      BY DEF ReviewInv, ReviewTypes
    <3>2. Review!Signed(d) = Reviewer
      BY <3>1 DEF Dismissed, Review!Signed, Verdict
    <3> QED
      BY <3>1, <3>2 DEF Dismissed
  <2> QED
    BY <2>1, <2>2, SameCardinality DEF Review!PlanIsReviewed
<1> QED
  BY <1>1, ReviewInvariant, PTL

-----------------------------------------------------------------------------
(* The writers of a live session (LiveEvidence)                            *)

LiveProofs == INSTANCE LiveEvidenceProofs WITH job <- liveJob

\* The instance whose theorems are used has the same steps.
LEMMA SameInit == Live!Init => LiveProofs!Init
  BY DEF Live!NoSession, LiveProofs!NoSession, Live!NoBundle, LiveProofs!NoBundle,
         Live!Idle, LiveProofs!Idle, Live!Init, LiveProofs!Init

LEMMA SameNext == [Live!Next]_(Live!vars) => [LiveProofs!Next]_(LiveProofs!vars)
  BY DEF Live!Hash, LiveProofs!Hash, Live!store, LiveProofs!store, Live!writers,
         LiveProofs!writers, Live!observers, LiveProofs!observers, Live!vars,
         LiveProofs!vars, Live!NoSession, LiveProofs!NoSession, Live!Idle,
         LiveProofs!Idle, Live!StoredAs, LiveProofs!StoredAs, Live!Log,
         LiveProofs!Log, Live!At, LiveProofs!At, Live!Go, LiveProofs!Go,
         Live!Answer, LiveProofs!Answer, Live!Request, LiveProofs!Request,
         Live!Steps, LiveProofs!Steps, Live!CreateSession, LiveProofs!CreateSession,
         Live!AppendEvent, LiveProofs!AppendEvent, Live!SameFile,
         LiveProofs!SameFile, Live!NextAfterPut, LiveProofs!NextAfterPut,
         Live!PutArtifact, LiveProofs!PutArtifact, Live!LookAgain,
         LiveProofs!LookAgain, Live!CreateArtifact, LiveProofs!CreateArtifact,
         Live!WriteArtifact, LiveProofs!WriteArtifact, Live!Known, LiveProofs!Known,
         Live!LookUp, LiveProofs!LookUp, Live!BuildEvent, LiveProofs!BuildEvent,
         Live!Ended, LiveProofs!Ended, Live!AppendReads, LiveProofs!AppendReads,
         Live!AppendChecks, LiveProofs!AppendChecks, Live!FreeRow,
         LiveProofs!FreeRow, Live!MovedOn, LiveProofs!MovedOn, Live!AppendInserts,
         LiveProofs!AppendInserts, Live!CloseReads, LiveProofs!CloseReads,
         Live!CloseWrites, LiveProofs!CloseWrites, Live!Finalizable,
         LiveProofs!Finalizable, Live!FinalizeReads, LiveProofs!FinalizeReads,
         Live!Intact, LiveProofs!Intact, Live!FinalizeLists,
         LiveProofs!FinalizeLists, Live!FinalizeSaves, LiveProofs!FinalizeSaves,
         Live!CrashWriter, LiveProofs!CrashWriter, Live!GoOn, LiveProofs!GoOn,
         Live!ReadStream, LiveProofs!ReadStream, Live!Follows, LiveProofs!Follows,
         Live!VerifyEvent, LiveProofs!VerifyEvent, Live!Behind, LiveProofs!Behind,
         Live!ReadState, LiveProofs!ReadState, Live!ReadEvidence,
         LiveProofs!ReadEvidence, Live!RequestFails, LiveProofs!RequestFails,
         Live!ObservationTimeout,
         LiveProofs!ObservationTimeout, Live!ObserveAgain, LiveProofs!ObserveAgain,
         Live!WriterStep, LiveProofs!WriterStep, Live!ObserverStep,
         LiveProofs!ObserverStep, Live!Next, LiveProofs!Next

\* The store of a session beside the other data: whoever writes it, its events form
\* one chain (ChainIsIntact of LiveEvidenceProofs).
THEOREM ChainsAreIntact == Live!Spec => []ChainIntact
<1>1. LiveProofs!Spec => []LiveProofs!ChainIntact
  <2>1. NoEvent \notin LiveProofs!EventRow
    BY NoEventAssumption DEF Live!EventRow, LiveProofs!EventRow, Live!Entry, LiveProofs!Entry
  <2>2. /\ Ingest \subseteq Writer
        /\ Raw \subseteq [id : EventId, content : Content, typed : BOOLEAN]
        /\ {MaxRequests, MaxCrashes} \subseteq Nat
    BY StoredDataAssumption
  <2> QED
    BY <2>1, <2>2, LiveProofs!ChainIsIntact
<1>2. LiveProofs!ChainIntact => ChainIntact
  BY DEF LiveProofs!ChainIntact, ChainIntact, Live!ChainIntact, LiveProofs!Hash, Live!Hash
<1> QED
  BY <1>1, <1>2, SameInit, SameNext, PTL DEF Live!Spec, LiveProofs!Spec
=============================================================================
