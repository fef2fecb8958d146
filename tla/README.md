# Verification of the LoveEngine witness network

TLA+ models of the LoveEngine witness skill (`src/src/loveengine_witness`,
`src/contracts/src`, `src/tools`), the TLC runs that check them and the proofs
that TLAPS checks. `PROJECT.json` maps every definition to the lines it stands
for and every hazard to the properties that watch it.

## The system

| Component | State it keeps | Operations | Talks to |
| --- | --- | --- | --- |
| Relay queue (`relay.py`, `relay_server.py`) | `relay.sqlite`: a row per task with `accepted`, `receipt`/`acked`, `receipt_confirmed`; in memory the set of connected nodes | submit, deliver, accept, receipt, receipt_ack, connect, disconnect | nodes over WebSocket, the ingress by call |
| Observation node (`agent_session.py`) | `cursor.sqlite`: the journal of tasks and signed receipts; in memory the receipts of this process | authenticate, claim, execute, save, send, confirm, retry | Relay, signer, executor |
| Ingress (`pilot_task_ingress.py`, `network_protocol.py`) | none of its own | verify and enqueue a signed task | Relay store |
| Snapshots (`pilot_snapshot.py`, `pilot_audit.py`) | a directory per snapshot with copies of six items; `audit.jsonl` | create, verify, restore with rollback, prune; append a record | every database of the service |
| Live evidence (`live_store.py`, `live_gateway.py`, `live_evidence.py`) | `live.sqlite`: session row, event log, bundles; content-addressed artifact files | create, append, close, stream, finalize | HTTP clients, the CLI, which opens the same database |
| Observer (`observation.py`) | cursor per session, saved after each event | observe, resume, compare with the bundle | gateway |
| Reviews (`dispute.py`, `review_evidence.py`, `live_review_node.py`) | disputes and reviews of `live.sqlite` | open, review, resolve, gate | bundles, nodes |
| Event bridge and votes (`event_bridge.py`, `witness_vote.py`) | the events seen, in memory | turn chain events into tasks, sign votes | chain, Relay |
| Governance contracts (`WitnessDAO`, `CorporateSink`, `StreamingEngine`, `PublicSink`) | witnesses, proposals, votes, credits; schedule and ledger; checkpoint and rate | register, propose, vote in batches, finalize, refund; schedule, upload, record; update rate | each other by call |
| Skill registry (`SkillRegistry`, `registry*.py`) | releases and their status, the recommended version | publish, recommend, deprecate, revoke; build, sign, submit and verify a transaction | chain, signer |
| Operator service (`pilot_*.py`) | configuration, audit log, run state | start, readiness, authenticated writes | all of the above |
| Pilot phases (`pilot_phases.py`, `pilot_demo.py`, `pilot_chain.py`) | a run: chain, server, node processes, observers, and the proofs it collects | prepare, publish, observe with faults, restart, restore, review, decide, accept, clean up | all of the above as processes |
| Soak (`pilot_soak.py`, `pilot_soak_process.py`) | `pilot-soak-run.json`, the report, the transcript; a worker process | reserve, spawn, register, ask, settle | launchers and readers share one directory |
| Invited operators (`invited_*.py`, `tailscale_serve.py`, `pilot_surfaces.py`) | the Serve configuration of the host, the foreground process | expose, watch, stop, restore | Tailscale, other users of the host |
| Keys and trust (`signer_client.py`, `trust_policy.py`, `secrets.py`) | policies | sign through a separate service | signer |
| Packaging and toolchain (`package.py`, `toolchain.py`, `contract_dependency_bundle.py`) | the dependency trees with their backups, the build, its attestation | install, refresh, recover, build, attest, restore a bundle, verify | git, Forge, file system |
| Remote lab tools (`tools/run_remote_lab.py`, `tools/start_shared_*.py`, `tools/remote_host_preflight.py`) | the lock of the host; launcher, supervisor, guardian and group of each launch; the teardown's evidence | lock, lease, supervise, watch; start, await, tunnel, stop, verify, report | SSH, `/proc`, signals |
| Engineering acceptance (`tools/run_engineering_acceptance.py`) | the report, the processes it has sampled | gate, soak, sample, verify, clean up | the soak, git |

What is hard in it: delivery is at least once over connections that overlap,
end late and lose messages; two databases on two hosts record one exchange and
may be restored separately; processes die between two writes; the gateway and
the command line write one SQLite database; the contracts decide by integer
arithmetic at boundaries and act in the transaction of the deciding vote;
commands that take minutes own processes, directories, a lock or a listener, and
are killed, time out or meet each other at any step.

What makes each part correct: one signed receipt per task, whoever crashes or is
restored (relay, node); an answer is never taken for another, and success is
reported only on what the Relay confirmed (session); an event log that is one
chain, ends at the close and is what the bundle and every observer say (live
evidence); snapshots whose databases and artifacts fit together, and a restore
that happens as a whole or not at all (snapshots); proposals decided by their
votes and by nothing else, effects that happen once, credits that are covered
and a balance that never jumps (governance); releases that cannot be replaced
and a revocation that lasts (registry); a plan that rests on three informed
verdicts on its own bundle (reviews); a transcript that is true, whatever was
restarted (pilot); outcomes that are real and stay (soak); one lab at a time, and
a verdict that says what happened on the host (remote lab); an attestation that
fits what is there (toolchain); and for everything an operator starts, that it
ends and leaves nothing behind.

## The modules

| Module | Models | Stands on |
| --- | --- | --- |
| `TaskReceipts` | what the relay protocol promises: a task gets one receipt, for ever | |
| `WitnessRelay` | Relay queue, one node, the connections between them | implements `TaskReceipts` |
| `WitnessRelayProofs` | theorems about `WitnessRelay` | |
| `Accrual` | what `StreamingEngine` promises: a balance that grows by the rate | |
| `Governance` | the four contracts | implements `Accrual` |
| `GovernanceProofs` | theorems about `Governance` | |
| `EventLog` | what live evidence promises: a log that grows, ends, is sealed and observed | |
| `LiveEvidence` | `live.sqlite`, the artifact files, gateway, commands, observers | implements `EventLog` under one writer |
| `LiveEvidenceProofs` | theorems about `LiveEvidence` | |
| `SystemSnapshot` | create, restore and prune beside the service and its audit log | |
| `SystemSnapshotProofs` | theorems about `SystemSnapshot`, `DisputeReview` and the `LiveEvidence` of the run `stored` | |
| `SkillRegistry` | the contract | |
| `SkillRegistryProofs` | theorems about `SkillRegistry` and `ReleasePublication` | |
| `ReleasePublication` | operators who publish into it with one account | composes `SkillRegistry` |
| `DisputeReview` | the review of a disputed bundle | |
| `SharedHost` | the launches of a shared host: lock, lease, supervisor, guardian | |
| `RemoteLab` | one run of the remote lab | composes `SharedHost` |
| `RemoteLabProofs` | theorems about `SharedHost` and `RemoteLab` | |
| `PilotRun` | a run of the pilot with its faults | |
| `PilotRunProofs` | theorems about `PilotRun` | |
| `SoakRun` | a soak in the background | |
| `ContractPreparation` | the contract dependencies, the build and its attestation | |
| `ServeExposure` | the participant listener on the tailnet | |
| `EngineeringAcceptance` | the acceptance of a commit | |
| `OperationsProofs` | theorems about the four commands above | |

`MCWitnessRelay`, `MCGovernance` and `MCLiveEvidence` give TLC the constants that
a `.cfg` cannot write (functions, records, the symmetry of the witnesses).
`MCGovernance`, `MCStoredData` and `MCOperations` check several specifications in
one run: a variable `part`, chosen once, says which of them a behaviour is of, the
variables of the others do not move, and each keeps its own bounds and fairness.
Sets and bounds are CONSTANTS that the `.cfg` gives values to, with named
assumptions, so that a proof about a part is for all of them.

Some modules define, just before an operator, a second one that no specification
uses (`FreshNonce` before `Fresh`, `PassedByMore` before `Passed`,
`ArtifactsFirst` before `Copied`, `NoneKilled` before `Started`, ...). It is the
operator as a plausible bug would have it; `PROJECT.json` says under "mutants"
which property TLC finds violated when it takes the operator's place.

### WitnessRelay

Several handlers of the Relay may serve one node at once: the one of the current
connection, and those of connections the node has given up and whose end the
Relay has not seen. Each connection has a handler (`hub`), the rows it has read
and not yet sent (`states`, `batch`) and two message queues (`up`, `down`). A
step ends where the code awaits, so everything read before an `await` and used
after it is a variable.

| Actions | Code |
| --- | --- |
| `Submit` | `enqueue_signed_task`, `RelayStore.submit` |
| `HubAuthenticate`, `HubSendState`, `HubFetch`, `HubDeliver`, `HubRecvAccept`, `HubRecvReceipt`, `HubRecvReceiptAck`, `HubEnd` | `RelayHub.websocket` and `deliver_pending` |
| `StartProcess`, `Connect`, `ConnectFails`, `Retry`, `Finish`, `IdleTimeout` | `run_agent_session` |
| `RecvAuthenticated`, `RecvReceiptState`, `RecvTask`, `Execute`, `RecvAck`, `SetAside`, `RecvConfirmed`, `RecvError` | `_run_authenticated_session` and `AgentTaskJournal` |
| `CutLink`, `Crash`, `HubStops`, `HubRestart` | connections and processes that end |
| `TakeSnapshot`, `RestoreSnapshot` | a copy of `relay.sqlite`, restored |
| `Expire` | the deadline of a task, `verify_task_binding` |

`ReceiptsAgree` and `ImplementsReceipts` say that there is one receipt per task
in all the places that keep one; `AnswersMatch`, that the answer a node reads is
the one to what it asked, though two handlers answer (in no configuration, since it
is a theorem without hypotheses); `DoneIsConfirmed`, that a
session which reports success has every receipt confirmed; `ReceiptBelongsToTask`,
that the receipt in a row is of the task of that row, after any restore.

### Governance

A transaction is an action; one that reverts has none. `now` is
`block.timestamp`. Signatures, payload hashes and nonces that do not match only
make an item bad, and a batch with a bad item reverts. The finite `MaxUint`
stands for 2^256 - 1, at which the checked arithmetic of Solidity reverts; one of
the compensations is chosen so that the second one does.

| Actions | Code |
| --- | --- |
| `BatchRegister`, `Propose`, `BatchVote`, `FinalizeProposal`, `SetRelayerRefundPolicy`, `WithdrawRelayerRefund`, `Receive` | `WitnessDAO` |
| `ScheduleBroadcast`, `UploadCertificate`, `SetSinkDAO`, and `RecordCompensation` within a vote | `CorporateSink` |
| `SetEngineDAO`, and `UpdateUserCount` within a vote | `StreamingEngine` |

### LiveEvidence

A method of the store reads in one connection and writes in another, and the
gateway and the commands `live ingest`, `live close` and `evidence finalize` are
processes on one file: a read and the write that follows are two actions
(`AppendReads`, `AppendChecks`, `AppendInserts`; `CloseReads`, `CloseWrites`;
`FinalizeReads`, `FinalizeLists`, `FinalizeSaves`). `LocalArtifactStore.put` is
four: it looks for the file and compares it (`PutArtifact`), looks again
(`LookAgain`), empties the file (`CreateArtifact`) and writes it (`WriteArtifact`);
two processes may both come to the third, and a kill leaves a torn file.
`ReadStream`, `VerifyEvent`, `ReadState`, `ReadEvidence` are the loop of
`observe_live_session`, whose cursor survives `ObserveAgain`. A request that is not
answered as it should be ends the observation with an error (`RequestFails`,
"unavailable"); that is what a killed gateway does to an observer, and since a
request can fail for other reasons too, it may happen at any request. The hash of an
event is the chain of entries it commits to, so equal hashes are equal chains.

`ChainIntact` holds however the processes interleave, and so does that a stored
event has a file (`LiveEvidenceProofs!ArtifactsExist`). `ArtifactsStored` (the file
is whole), `ClosedIsTerminal`, `ObserversAgree`, `ObserversReport` and
`ImplementsEventLog` hold when the gateway is the only writer, which is how the pilot
service runs. With two writers `ArtifactsStored` fails: one that has seen no file
empties the one on which the other has stored an event, and may be killed before it
has written it again.

### SystemSnapshot

The six items of a snapshot are files with a content and a state (whole, torn,
absent). The service has one request at a time, since a handler of the store does
not await; create copies one item per step beside it. A restore stages and backs
up every item, then replaces one item per step, and rolls back in reverse order
when one fails. What a failure leaves depends on the kind of the item
(`HalfApplied`, `HalfRolledBack`): a database is written over, a directory is
removed first, any other file is replaced at once.

The operator runs one command at a time and restores while the service is
stopped, as `_exercise_system_snapshot_restore` of `pilot_phases.py` does. The
commands themselves do not check it. Retention may run beside them. `mixed`
and `lost` are history: a restore that was killed in the middle or could not be
rolled back, and an audit record that was not written. The properties are stated
up to them, because the code does not repair either.

### SkillRegistry and ReleasePublication

`SkillRegistry` has one action per function of the contract, for one publisher and
one skill: every mapping of the contract is keyed by both. In
`ReleasePublication` two operators plan, sign and submit with one account whose
wallet sends besides. A transaction is its contents, so a plan that two operators
build alike is one transaction, as its hash is. `CheckNonce` and `Send` are two
steps; the answer to a submission may be lost, the node may drop what is pending,
and `Retry` is a new signature. `SubmittedIsPublished`: who is told that the
release is published finds, then and later, the release of his plan.

### DisputeReview

`ReadBundle` and `ReadSession` are two requests of the operator, `FetchBundle` and
`FetchEvents` two of each reviewer (`verify_review_evidence`); in between the store
goes on: an append that overlaps the close reopens the session (finding 3), and
another revision is sealed. The evidence URL has no revision in it, so a task of an
earlier one is rejected once there is a later one. `files` are the states of a
dispute that the operator has on disk and may give to the gate: the plan may be
older than the store. The model gives the gate every dispute opened on its bundle;
an operator could leave one out. `review dispatch` of `cli.py` builds a payload
without the binding to the evidence, which `sign_network_task` refuses; the tasks
are those of `_run_evidence_phase`.

### SharedHost and RemoteLab

A launch has four processes: the launcher, the supervisor that leads the group, the
rest of the group (`child`) and the guardian in a session of its own. The lock is a
`flock` on a file they inherit, so it is held as long as one of them lives. The
guardian polls, gives up on an identity that does not match or a `/proc` it cannot
read at its deadline, and records how the group ended. `RemoteLab` adds the
workstation: the steps of `run_remote_lab.py` from the deployment to the verdict,
the exception on its way up through the teardown, and the connections, each of
which may fail; a command whose connection is lost has started by then or never
does. A rival starts launches of his own on the host.

`OneLab` says that the lock covers the group and no two labs overlap, unless a
guardian was killed or gave up; `SafeResultsHold`, that a status which says the
group is gone is never wrong; `PostflightHolds`, that the run's report is right
about the host. Left out: that the name filter of the preflight does not see
`uv sync` children of a core run; the blocked report that overwrites the one of an
existing workspace; a process identifier used again after its process was reaped.
A stop command refuses to signal when the leader of the group is gone, and the
message of Quickstart's recovery that claims a verified cleanup cannot be reached;
both are in the model as the code has them.

### PilotRun

The run is one process that leads nodes and observers through the phases of
`run_pilot_phases`, one step per await: preparation, the delayed node, the stream
with the faults half way (nodes killed, server restarted, chain stopped and
restored), the end of the session, the three reviews, the votes, snapshot, tamper
and restore, acceptance. A node here connects, executes one task and leaves;
`WitnessRelay` has the details. `stale` counts the handlers of connections the node
has given up, which end late and, `connected` being a set of addresses, may take
out the entry of a newer one. `TranscriptIsTrue` compares what the report says with
history variables (`cut`, `unacknowledged`) of what happened; it is about streams
of at least one event, as `pilot_transcript.py` rejects any other. `PostedToItsNode`,
that a task is posted to the child that executes it and never while its predecessor
is the one that is connected, is proved and in no configuration. A run ends here by
its own code, which fails at any step; a run that is itself killed executes no
`finally`, and is not modelled.

`NothingLeftRunning` is stated of runs that reached their session:
`run_pilot_demo` installs the package before its `try`, so an install that fails
leaves Anvil running. `_snapshot_probe_absent` does not look for the probe in the
audit log.

### SoakRun

Launchers compete for an output directory: the reservation is a hard link, after
which every process writes the state as it sees it. A status query reads
(`Ask`) and settles (`Answer`) in two steps. A foreground soak writes its report
and transcript into the same directory without asking. A run that fails writes its
report twice, which is one state here ("writing"). Three things the code allows are
excluded in the properties by name: a launch slower than its lease, whose stale
`launch_registration_timeout` overwrites even a recorded success (`Outdated`); a
success that is lost when another run replaces the report (`Replaced`); and the
query that found the lease running is taken to finish before it runs out.

### ContractPreparation

A tree is locked, raw (the host's line endings), wrong or partial; a preparation
recovers the backups of an interrupted one, refreshes, normalises, builds and
attests, and may be killed between any two steps. A refresh counts its backup as made
though the tree vanished before it was moved, and the clean-up then fails on it
(`Replace`, `Clean`). `MaxEdits` bounds what the
operator changes. Excluded by name (`stale`): a source edited, or a tree put in
place, between Forge's reading and the attestation (`Changed`), which nothing in the
attestation shows. As in the code
there is no lock between two preparations (the model runs one at a time), the
staging directories of a killed refresh stay, and a killed fresh checkout leaves a
partial tree that only a refresh replaces.

### ServeExposure

The manager's steps are the Tailscale commands: each may fail, others change login,
Serve and Funnel between two of them, and the mapping of a process that is gone may
stay. When a command fails in the first stop of a failed start, the second stop
knows of no process and never removes a lingering mapping; the run then reports an
error, which is why `StoppedIsRestored` is about runs that report "stopped". A look at
the host is two commands in the code (the login, then Serve with Funnel) and one step here;
`StoppedIsRestored` rests on the second of them alone. A run that is itself killed
stops nothing, and is not modelled.

### EngineeringAcceptance

The soak is one worker with children; a child of a dead worker is found by nobody
who did not sample it before. The worktree is clean, dirty or at another commit,
which `_enforce_expected_source_commit` makes every command refuse. Not noticed by
the code, and not claimed: a child that was never sampled and outlives its worker,
and a worktree changed and restored between the first look and the last. Commands
without a timeout are assumed to return. Of `AcceptanceHolds`, the half about an
accepted commit owes it to the worker, which ends with success only without children
(`WorkerEnds`), and to the look at its launch that nothing is left, and not to
`CheckTree`; the half about the clean-up is the one that depends on what was sampled.

## Runs

| Run | Bounds | Shows |
| --- | --- | --- |
| `relay` | 3 tasks, two of one id, 2 connections that overlap, 2 processes, 2 executions, 1 restore, a deadline | one receipt per task, whatever is restored, expires or overlaps; implements `TaskReceipts` |
| `relay_prompt` | 2 tasks, 3 connections, 1 fault, 1 dropped ACK, 2 retries | sessions succeed, on what the Relay confirmed, and meet no error they do not retry |
| `relay_late_answer` | 2 tasks, 2 connections, no fault | finding 1 |
| `relay_rejected_count` | 2 tasks, 1 fault | finding 2 |
| `governance` | part governance: 2 witnesses, 2 relayers, 2 proposals, 2 broadcasts, 4 times; registry: 2 versions, 2 packages; publication: 2 operators, 2 nonces, 1 fault | votes, effects, windows, credits, accrual; histories that last; publications that are what they say |
| `live_gateway` | gateway, 7 requests, 1 observer, 2 bundle revisions, 2 crashes | implements `EventLog`; events have their artifacts; observers agree, and end |
| `live_closed` | gateway and command | finding 3 |
| `live_retry` | gateway | finding 4 |
| `stored` | part snapshots: 1 artifact, 2 times, 2 audit records, 1 task, 2 faults; live: gateway and command, 5 requests, 1 crash, no observer; review: 3 reviewers, 1 critical dispute, 2 revisions, 2 events, 1 failure | snapshots fit together, restores are all or nothing; one chain, whoever writes; plans that were reviewed |
| `remote_lab` | a core launch, a tunnel launch, a rival; 1 fault | one lab at a time, true verdicts, and an end |
| `remote_lab_reaped` | the same, 1 fault | finding 5 |
| `operations` | part pilot: 3 nodes, 1 observer, 2 events, 1 failure, with and without the exercise; soak: 2 launchers, 1 reader, 1 fault; contracts: 2 dependencies, 1 edit, 2 faults; exposure: 2 changes, 1 fault; acceptance: 2 children, 2 troubles | what they record is true, what they leave behind is nothing, and they end |

Why the bounds are enough to be of use. Relay: a race needs two handlers of one
node, and a third connection lets a stale handler meet a second reconnect; a clash
needs two tasks with one id and one with another. Governance: with two witnesses
and a quorum of two, a proposal is decided in one batch or in two, by a tie or by
an opposing vote; two proposals show what the first leaves behind. Live evidence:
an append, a close and a seal that interleave are three requests, and a retry the
fourth; the gateway's seven leave room for a file torn by one crash, the conflict it
makes and another event; observers write nothing, so one meets whatever several
would, and two crashes are one of the gateway and one of the observer. Snapshots: two faults in a restore are an item that fails and a rollback
that fails; two snapshots are needed for one taken after the restore of another.
Publication: the second nonce is what the wallet or the other operator takes.
Review: the second revision and the second event are what a reviewer must not take
for the first. Remote lab: the rival meets both launches, and one fault at any step
reaches every branch of the teardown. Pilot: two active nodes let one be restarted
while the other works. Soak: the second launcher finds the reservation of the
first. Contracts: two faults are a kill and a kill of the recovery. Acceptance: one
child that was sampled and one that was not, a trouble and a failed clean-up.

Deadlock is not checked in any run: in each of them the bounds end the behaviour,
a command that is over does nothing more, and the contracts wait for transactions.

### Fairness

`WitnessRelay!FairSpec` assumes that a handler that can move does (`HubStep`, per
connection) and that the node's process does (`NodeStep`): both are loops of an
asyncio program that runs as long as its process lives. Nothing is assumed of the
environment: links need not break, tasks need not come, and a process that was
killed need not be started again. `LiveEvidence!FairSpec` assumes of an observer's
loop that each of its requests ends: with an answer, or in the time of its
`ClientTimeout` as a failure, which ends the observation and which is no part of what
is assumed to happen. Nothing is assumed of the gateway or the commands.

* `SharedHost!HostFairness`, `RemoteLab!Fairness`: launchers, supervisors, guardians
  and the run go on while they live; all of their waits have timeouts in the code,
  which the models take as steps. The work of a group need not end.
* `PilotRun!Fairness`: the run, the nodes, the observers, and the end of a handler
  whose connection is gone (the heartbeat notices it).
* `SoakRun!Fairness`: the clock (strongly: it competes with processes that may move
  for ever), launched workers, readers who go on asking, and answers. The
  foreground soak and the launchers get none.
* `ContractPreparation!Fairness`: a preparation goes on, and the operator tries
  again with a refresh after kills; kills are bounded.
* `ServeExposure`: the manager; the commands that fail are not in it, but may.
* `EngineeringAcceptance`: the acceptance and the clock. The soak need not end.

`OperationsEnd` is the leads-to property of these five specifications, for the part
that runs.

Where `PromptClose` is TRUE the Relay sees the end of a
connection before the node's next one, and where `SlowRelay` is FALSE the idle
timeout does not fire while an answer is due; the runs that need them say so in their
configuration, and `relay_late_answer` is what happens without them. An observation
may run into its deadline in any round, and any of its requests may fail:
`ObserversReport` says that each observation of a sealed session ends, with a report,
out of time or unavailable, and none goes on for ever over a suffix or a bundle that
is there.

## Findings

1. `relay_late_answer`: two handlers confirm one receipt; the second confirmation
   is answered with an error that the node does not retry.
2. `relay_rejected_count`: a rejected receipt is returned by the session and not
   counted in "rejected" when the link breaks before the inner session returns.
3. `live_closed`: `append_event` writes back a session it read before its
   transaction, and so undoes the close of another process.
4. `live_retry`: an event sent without `source_type` is stored with one, and its
   retry is a conflict.

5. `remote_lab_reaped`: `_tunnel_smoke` waits for its nodes before it looks for
   their processes to verify their cleanup, so the cleanup of a run in which nothing
   fails is never verified.

`PROJECT.json` quotes the lines they contradict. More is described under "hazards"
and in the sections above and contradicts no document that promises otherwise, or
needs two failures: the audit log that a failed write breaks for good, the backups
that are removed though the rollback failed, the artifacts that retention removes
between the verification and the staging of a restore, Anvil left running by an
install that fails, a recorded soak that a stale query overwrites, the mapping
that a failed start may leave, the artifact that a second writer process empties, and
the node that is served and not counted because a late handler of it has ended.

## Proofs

The eight proof modules hold for every value of the constants that the named
assumptions of the modules allow. TLC was asked about each invariant first. The
library's induction theorem over well-founded sets (`WellFoundedInduction`) is used
once, for sums over a finite set; everything else is one inductive invariant per
specification, with a lemma per action or group of actions, and `PTL` at the end.

### The relay protocol: `WitnessRelayProofs`

* `Typing`: `TypeOK` is inductive. One lemma per group of actions (handlers, node,
  environment), over lemmas about the queues.
* `Agreed`: `ReceiptsAgree` follows from the invariant `Agreement`, which says of
  every copy (rows, snapshot, both directions of every connection, the messages
  set aside, the receipt a session holds and those it returns) that it is the
  journal's, and adds why the journal's is never replaced: a task is executed only
  while its entry is the task's and has no receipt.
* `JournalIsFinal`: an entry with a receipt is only ever claimed for the same
  task, and `SaveReceipt` writes an entry that has none.
* `Implements`: with the mapping of `WitnessRelay!Receipts`, every action is a
  step of `TaskReceipts` or leaves its variables alone; it rests on `Agreement`.
* `ReceiptsBelong`: `Belonging` adds that an id has at most one row, in the database
  and in the snapshot, that the node has claimed every task a row says it accepted
  or answered (`RowsClaimed`), and that what is delivered or accepted on a live
  connection has a row (`WiresKnown`). A restore may free an id for another task;
  the node's journal then refuses it, and no row gets a receipt that is not its own.
* `ConnectedAreServed`, with no hypothesis: a node that counts as connected has a
  handler that serves it, however handlers overlap, since each discards the node when
  it ends and a Relay that starts counts nobody. The converse is not so: the discard of a
  late handler takes out a node that another one serves.
* `SuccessIsConfirmed`: a session ends when it owes nothing, so the count the Relay
  announces must cover what it has to confirm. `CountCovers` says that the tasks
  whose receipts are recorded and not confirmed, read by the handler, or announced on
  the way are never more than `owed`, each being announced at most once; it follows
  the count through handlers that overlap. It is stated while no snapshot was restored
  (`restores = 0`), since a restore takes receipts out of rows.
* `AnswersAreMatched`, with no hypothesis: `Conversation` describes what a session and
  the handler of its connection have sent and not read. The node has one question open
  (`Asks`), at most one answer on the way fits it and no other answer is there
  (`AnswersFit`); whoever offers a task, on the wire or set aside, has delivered its id
  on this connection (`Delivered`); the receipts announced are covered by the count
  that was sent first (`AnnouncementsCounted`); a handler begins with nothing read and nothing said
  (`BeginsEmpty`). It survives cuts, crashes and late handlers because a session
  speaks on its own connection alone.
* `NeverAborts` assumes `PromptClose` and is stated while no deadline has passed and no
  snapshot was restored (`expired = {}`, `restores = 0`): `relay_late_answer` shows the
  error without the first, and each of the other two lets a session abort by design
  (`RecvTask` on an expired task; a row that a restore took away or gave another task). `Untroubled`
  says that the node has claimed only tasks with a row (`Named`), that no two rows have
  one nonce (`NoncesUnique`), and, while node and handler hear each other, that every
  task fetched or offered waits for its receipt, once (`TasksWait`), that every receipt
  read or announced is still to be confirmed (`ReceiptsWait`), and that a row is in the
  state which takes what the node has sent (`RowServes`). It stands on `Confirming`,
  `Conversation` and `OneServes`, the invariants of the three theorems above.

### The contracts: `GovernanceProofs`, `SkillRegistryProofs`

* `Typing`: the types and `totalRefundCredits <= balance` (`Solvent`) are inductive
  together, since a refund is taken from what is not yet credited.
* `AreCreditsCovered` and `DoEffectsMatch` are about sums: the total is the sum of
  the credits of a finite set of relayers, the ledger that of the executed
  compensations. A lemma, proved by induction over the set, says what a change at one
  argument makes of a sum. With it `RefundsArePayable`: nothing the refunds subtract
  goes below zero, and each relayer's credit is covered by the total and by the
  balance, so no withdrawal can fail for want of either. `EffectsInv` adds that the open proposal is the last one,
  so that the last executed user count is the one whose rate is in force.
* `IsOneActive`, `AreVotesCounted`, `AreDecidedByVotes`: one inductive invariant,
  `BallotInv`. A new proposal takes a blank id (`Unused`). An open proposal was not
  executed (`OpenUndecided`) and so, by `DecidedByVotes` itself, has not reached
  the threshold: `FinalizeProposal` never executes one.
* `WereProposedInWindow`, `ProposalsHaveOneBroadcast`: `ScheduleInv` adds that
  broadcasts are `minBroadcastInterval` apart and none is scheduled for time 0
  (`Timed`), which the contract takes for "none". The second theorem says that the
  time of a proposal is in the window of exactly one broadcast, and assumes
  `broadcastWindow < minBroadcastInterval`: the constructor does not check that, and where
  the window is as long as the interval, two windows share a time.
* `Implements`: the balance from the checkpoint, `baseBalance + (now -
  checkpointTime) * rate`, gains `seconds * rate` with every tick (a lemma about
  products) and does not move when the rate is set.
* `SkillRegistryProofs!RecommendedIsActive`, `LinksLead`, `HistoryIsKept`: one
  inductive invariant, `RegistryInv`: the types, the recommended version is active,
  and links lead to releases. That a link is never broken needs `PublishedStays`:
  no call unpublishes. `RecommendedIsActive` needs that a version which is published
  anew was not the recommended one, which the invariant itself says.
* `PublicationKeepsTheRegistry`, `SubmittedArePublished`: `PublicationInv` says that
  the receipts have the nonces 0, 1, ... without a gap or a repetition, that a
  successful one published what it says, and that an operator past inclusion has the
  successful receipt of his own plan. So whoever used a nonce first, the loser is
  never told that his release is there.

### Live evidence: `LiveEvidenceProofs`

`ChainIsIntact` and `ArtifactsAreThere` hold for any number of writers: `ChainInv`
says that the head of the session, and every head a writer has read and not yet
written on, is the hash of a stored event (`StoredIn`), whoever was faster, and that
from `put` on the event has a file. The rest assumes `OneWriter`, which `live_closed`
shows to be needed. `FilesInv` says that what the writer has seen of a file is so
until it writes it (`FileAsFound`), so a file that it empties is no stored event's:
`ArtifactsAreStored`. `OneInv` says that the rows are the head
(`RowsAreHead`), that what the writer read is still so when it writes
(`ReadsCurrent`), that a bundle seals the head, and that an observer's cursor is a
start of it. `ObserversAgreeWithOneWriter`, `ClosedStaysClosed` and the refinement
`Implements` of `EventLog` follow.

### Snapshots, reviews: `SystemSnapshotProofs`

`IInv` follows a command item by item. `CreateInv`: the rows copied so far have
their artifacts in the service's directory, and, once that is copied, in the
snapshot's; this is where the order of the copies matters. `SourceInv`: what a
restore has verified is what it reads, though retention may take it away between.
`RestoreInv`: before item k of the staging nothing has changed, before item k of the
application the items below k are the staged ones and the others as before, and
symmetrically in a rollback. `AuditInv` keeps the hash the service remembers equal to
that of the last record. `SelfContainedSnapshots`, `RowsKeepArtifacts`,
`RestoresWhole` and `AuditHolds` are its parts; `CompletesAreKept` is an action
property over it. `PlansAreReviewed`: `ReviewInv` says that a verdict was made with
the revision of the task, that a file which says "dismissed" is of reviews that are
signed and so final however old the file is, and that the disputes of a plan are of
its revision. `ChainsAreIntact` carries the chain over to the specification that
`stored` runs.

### The remote lab: `RemoteLabProofs`

`HostInv` has, per launch, what comes before what (`LaunchInv`: a guardian before the
child and the record, no result before the guardian is gone, a safe result only for a
group that is gone) and that one launch holds the lock. `OneLabAtATime` follows:
whatever works holds the lock, or lost its guardian. `LabImplementsHost` says that a
run of the lab, with its connections and teardown, takes only steps of `SharedHost`,
so its properties carry over; `LabInv` adds where the run is and what it knows by
then, for `PostflightIsRight` and `PassedIsNormal`.

### The pilot: `PilotRunProofs`

`PilotInv` is inductive through every failure: the order of the steps (`Order`), that
the chain has the release whenever a server needs it (`ChainHolds`), that from
`finalize` on the session is sealed with all its events in the databases and in the
snapshot (`DataHolds`), and that what the `finally` blocks stopped stays stopped
(`StaysDown`). `NothingIsLeftRunning` and `NothingIsLost` follow. `Told` is about runs
that have not failed and says what a place in the program tells: which rows there are
and in which state (`RowsTell`, `Settles`), that the Relay has counted the accepted
ones (`Counted`, a cardinality), what every child works on (`ChildrenTell`), who is
connected by which child (`Links`), and what is in the report by then (`Reports`).
`TranscriptTells` and `PostsToItsNode` follow from it.

### Commands: `OperationsProofs`

* `SoakInv`: a report that passes is the last thing a worker leaves which ran its
  whole duration, and what a query or a record says of a worker is so
  (`SoakRecordHolds`). `SoakPassesAreReal`, `SoakOutcomesStay`.
* `ContractInv`: while a preparation builds, what Forge has read is there unless it
  was edited (`BuildsAreCurrent`); a refresh works on a dependency that has no backup
  (`RefreshesAreOwn`). `VerifiedContractsAreBuilt`, `TreesSurvive`.
* `ExposureInv`: without a process nothing of ours is exposed, so the configuration
  the manager found at first is free of it, and so is one equal to it (`FoundAgain`).
  `StoppedExposuresAreRestored`.
* `AcceptanceInv`: what the gate believes of the soak is so, and processes that were
  ended do not come back. `AcceptanceIsRight`.

### Assumptions

| Assumption | Says | Why the code justifies it |
| --- | --- | --- |
| `ConstantsAssumption`, `NoReceiptAssumption` (`WitnessRelay`) | finite tasks with an id and a nonce; no value is a receipt and "no receipt" | messages and SQL NULL |
| `GovernanceAssumption` | witnesses and relayers are finite sets, thresholds in range, the initial rate does not overflow | addresses; the constructors' checks |
| `LiveAssumption`, `NoEventAssumption` | ingest commands are writers; "no event" is no row | |
| `SnapshotAssumption` | bounds are numbers, there is a time and an artifact | |
| `StoredDataAssumption`, `PublicationAssumption`, `OperationsAssumption` | the same for the composed specifications; reviewers are finite; names of processes differ | |
| `CoreAssumption`, `ReusedAssumption`, `FaultsAssumption`, `LabAssumption` | which launches are core or reused ones; the two of a run are fresh and different | `run_remote_lab.py` makes their directories |
| `PilotAssumption` | the active nodes are finite and the delayed one is another; at least one event | `observation_specs[:-1]`; a transcript without events is refused |
| `VersionAssumption` | "no version" is no version | the zero hash |

`OneWriter`, `PromptClose`, `restores = 0`, `expired = {}` and
`broadcastWindow < minBroadcastInterval` are hypotheses of single
theorems, named in their statements. `live_closed` shows that `ClosedStaysClosed` needs the first,
`relay_late_answer` that a session meets an error without the second.

### What the proofs changed

An invariant that would not go through showed three places where the models said
less or other than meant: `SoakRun!Verdict` and `EngineeringAcceptance!Poll` had `CASE`
arms that overlap, of which TLC takes the first and TLA+ any (they are
`IF`s or exclusive now); and `VerifiedIsBuilt` held in the run, whose `MaxEdits` is 1,
and not for two: a bundle put in place or an edit after the build makes what is
attested old just as an edit during it does (`ContractPreparation!Changed`).

### Only model-checked

Liveness (`SessionSucceeds`, `ObserversReport`, `RunEnds`, `OperationsEnd`) needs
fairness and ENABLED and stays with TLC. Every other property of a passing run is
a theorem. The type invariants of the proved modules, `Payable`, `OneActive`,
`ProposedInOneWindow`, `ConnectedHasHandler`, `CurrentIsActive`, `LinksResolve`,
`ArtifactsExist`, `GuardedFirst`,
`PassedRanNormally`, `PostedToItsNode` and `AnswersMatch` are theorems and in no
configuration.

## Not modelled, and why

* Bytes: EIP-712 digests, canonical JSON, schema validation, addresses. The models
  take a value that verifies for one that is genuine.
* Heartbeats, metrics, pages and logging, which change no state the protocol
  reads, but for the counters that a restart of the pilot's server carries over.
* Path, symlink, size and URL checks, which depend on their argument alone.
* The relayer (`relayer.py`), which formats calldata and sends nothing; keys and
  trust policies, which are requests to a separate signer and static checks.
* `package.py` and the installation of Foundry: downloads and digests of fixed
  files. `pilot_transcript.py` and the other transcript modules: checks of a
  finished file.
* `event_bridge.py`, whose memory of the events it has turned into tasks is lost in
  a restart and written before the task is built, and `witness_vote.py`: commands
  of their own that no other component waits for.
* The plan of an invited pilot and the attestation of its participants: checks of
  files.
* `aggregate_observations`, a pure function of three receipts.

## Plan

1. Abstract specifications: a lock with a lease that `SharedHost` implements; a
   transaction account that `ReleasePublication` implements.
2. `event_bridge.py` with the Relay: a task per event at most, and at least without
   a restart.
3. The checks that `pilot_transcript.py` makes of a finished file, against what
   `PilotRun` says of the run.
