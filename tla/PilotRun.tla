------------------------------ MODULE PilotRun ------------------------------
(***************************************************************************)
(* A run of the pilot (run_pilot_demo): one process that starts a chain,   *)
(* serves the pilot, starts the nodes as children, and leads them through  *)
(* a session, with the faults of the exercise: nodes are killed, the       *)
(* server and the chain are restarted, the acknowledgement of each receipt *)
(* is lost once, and everything is restored from a snapshot.               *)
(*                                                                         *)
(* A node is what WitnessRelay models in detail; here it connects,         *)
(* executes one task and leaves. The Relay may notice the end of a         *)
(* connection late, but for those it closes itself.                        *)
(***************************************************************************)
EXTENDS Naturals, FiniteSets

CONSTANTS
    Active,        \* the nodes that observe the stream
    Delayed,       \* the node whose observation is delayed
    Observer,      \* the read-only observers
    EventCount,    \* --events
    Reconnect,     \* --reconnect-attempts of an observation
    MaxFailures    \* bound: what goes wrong beside the exercise

ASSUME PilotAssumption ==
    /\ IsFiniteSet(Active) /\ Delayed \notin Active   \* observation_specs[:-1]
    /\ EventCount \in Nat \ {0}   \* no transcript without events verifies
    /\ Reconnect \in Nat
    /\ MaxFailures \in Nat

Node == Active \cup {Delayed}

Task == Node \X {"observe", "review"}

VARIABLES
    run,           \* what the run is doing, for which node and task, and how
                   \* it ended
    conf,          \* simulate_faults and stage
    hub,           \* the server and the counters of its Relay
    serves,        \* nodes whose present connection the Relay serves
    stale,         \* connections per node that ended and are served still
    node,          \* the latest child of each node
    data,          \* pilot.sqlite and relay.sqlite
    observer,
    chain,         \* Anvil
    disk,          \* the files of chain/ and the system snapshot
    report,        \* what the transcript will say
    failures,
    \* history: nodes that were gone, with their task accepted, when the run
    \* took them for disconnected; nodes that lost an acknowledgement
    cut, unacknowledged

vars == <<run, conf, hub, serves, stale, node, data, observer, chain, disk,
          report, failures, cut, unacknowledged>>

children == <<hub, serves, stale, node>>
stored   == <<data, observer, chain, disk>>
outcome  == <<report, failures, cut, unacknowledged>>

NoChild == [step |-> "none", kind |-> "observe", reconnects |-> 0]

NewHub == [up |-> TRUE, connected |-> {}, armed |-> {}, dropped |-> {},
           acceptances |-> 0, recoveries |-> 0]

At(step) == run.at = step

Go(step) == run' = [run EXCEPT !.at = step]

Closed == data.session \in {"closed", "sealed"}

-----------------------------------------------------------------------------
(* The nodes and the Relay                                                 *)

Alive(n) == node[n].step \in {"starting", "ready", "working", "answered", "lost"}

\* The process of n is gone, or its connection is: the Relay goes on serving it.
Unlink(n, gone) ==
    /\ serves' = serves \ gone
    /\ stale' = [m \in Node |-> IF m \in gone \cap serves THEN stale[m] + 1 ELSE stale[m]]

SpawnedIn(nodes, kind) ==
    [n \in Node |-> IF n \in nodes THEN [NoChild EXCEPT !.step = "starting", !.kind = kind]
                                   ELSE node[n]]

\* A node authenticates; one that was connected before reconnects.
Authenticate(n) ==
    /\ hub.up
    /\ node[n].step \in {"starting", "lost"}
    /\ node' = [node EXCEPT ![n].step = "ready",
                            ![n].reconnects = IF node[n].step = "lost" THEN @ + 1 ELSE @]
    /\ serves' = serves \cup {n}
    /\ hub' = [hub EXCEPT !.connected = @ \cup {n}]
    /\ UNCHANGED <<run, conf, stale, stored, outcome>>

\* A pending task is delivered and accepted; store.accept is true once per task.
Accept(n) ==
    /\ n \in serves
    /\ node[n].step = "ready"
    /\ \E t \in {n} \X {"observe", "review"} :
         /\ data.rows[t] \in {"queued", "accepted"}
         /\ data' = [data EXCEPT !.rows[t] = "accepted"]
         /\ hub' = IF data.rows[t] = "queued" THEN [hub EXCEPT !.acceptances = @ + 1]
                                              ELSE hub
    /\ node' = [node EXCEPT ![n].step = "working"]
    /\ UNCHANGED <<run, conf, serves, stale, observer, chain, disk, outcome>>

\* The receipt is stored. An observation ends when the session does. Unless its
\* acknowledgement is dropped, with the connection, the node confirms it.
Receipt(n) ==
    /\ n \in serves
    /\ node[n].step = "working"
    /\ Closed
    /\ data' = [data EXCEPT !.rows[<<n, node[n].kind>>] = "answered"]
    /\ IF node[n].kind = "observe" /\ n \in hub.armed
       THEN /\ hub' = [hub EXCEPT !.armed = @ \ {n}, !.dropped = @ \cup {n},
                                  !.connected = @ \ {n}]
            /\ node' = [node EXCEPT ![n].step = "lost"]
            /\ serves' = serves \ {n}
            /\ unacknowledged' = unacknowledged \cup {n}
       ELSE /\ node' = [node EXCEPT ![n].step = "answered"]
            /\ UNCHANGED <<hub, serves, unacknowledged>>
    /\ UNCHANGED <<run, conf, stale, observer, chain, disk, report, failures, cut>>

\* receipt_state: a node that reconnects is told of the receipt that is stored.
RecoverReceipt(n) ==
    /\ n \in serves
    /\ node[n].step = "ready"
    /\ data.rows[<<n, node[n].kind>>] = "answered"
    /\ node' = [node EXCEPT ![n].step = "answered"]
    /\ UNCHANGED <<run, conf, hub, serves, stale, stored, outcome>>

\* The node confirms the receipt and has its expected task.
ConfirmReceipt(n) ==
    /\ n \in serves
    /\ node[n].step = "answered"
    /\ data' = [data EXCEPT !.rows[<<n, node[n].kind>>] = "confirmed"]
    /\ node' = [node EXCEPT ![n].step = "done"]
    /\ Unlink(n, {n})
    /\ UNCHANGED <<run, conf, hub, observer, chain, disk, outcome>>

\* The handler of a connection that ended ends, and discards the node, whether
\* or not it is connected anew.
HandlerEnds(n) ==
    /\ hub.up
    /\ stale[n] > 0
    /\ stale' = [stale EXCEPT ![n] = @ - 1]
    /\ hub' = [hub EXCEPT !.connected = @ \ {n}]
    /\ UNCHANGED <<run, conf, serves, node, stored, outcome>>

Failure ==
    /\ failures < MaxFailures
    /\ failures' = failures + 1

\* A connection breaks; a node crashes, or gives its task up.
ConnectionBreaks(n) ==
    /\ Failure
    /\ n \in serves
    /\ node' = [node EXCEPT ![n].step = "lost"]
    /\ Unlink(n, {n})
    /\ UNCHANGED <<run, conf, hub, stored, report, cut, unacknowledged>>

NodeFails(n) ==
    /\ Failure
    /\ Alive(n)
    /\ node' = [node EXCEPT ![n].step = "failed"]
    /\ Unlink(n, {n})
    /\ UNCHANGED <<run, conf, hub, stored, report, cut, unacknowledged>>

\* A node without a connection has no attempt left; a review has none.
GiveUp(n) ==
    /\ node[n].step = "lost"
    /\ node[n].reconnects >= IF node[n].kind = "observe" THEN Reconnect ELSE 0
    /\ node' = [node EXCEPT ![n].step = "failed"]
    /\ UNCHANGED <<run, conf, hub, serves, stale, stored, outcome>>

-----------------------------------------------------------------------------
(* The read-only observers                                                 *)

\* A stream ends with the session, or with a server that stops; what it
\* delivered is a prefix.
StreamEnds(o) ==
    /\ observer[o].step = "stream"
    /\ Closed \/ ~hub.up
    /\ \E cursor \in observer[o].cursor .. data.events :
         observer' = [observer EXCEPT ![o] = [step |-> "session", cursor |-> cursor]]
    /\ UNCHANGED <<run, conf, children, data, chain, disk, outcome>>

\* Once the session is closed the rest is read from the history.
CursorOfHistory(o) == data.events

ReadSession(o) ==
    /\ observer[o].step = "session"
    /\ observer' = [observer EXCEPT ![o] =
                      IF hub.up /\ Closed
                      THEN [step |-> "done", cursor |-> CursorOfHistory(o)]
                      ELSE [@ EXCEPT !.step = "stream"]]
    /\ UNCHANGED <<run, conf, children, data, chain, disk, outcome>>

-----------------------------------------------------------------------------
(* The run: chain and server                                               *)

Quiet == UNCHANGED <<conf, outcome>>

\* Every block is of one: the deployment, the release, those of the stage.
Mined(blocks) == chain' = [chain EXCEPT !.block = @ + blocks]

\* initialize_chain deploys on a chain of its own, and writes its state.
InitializeChain ==
    /\ At("initialize")
    /\ disk' = [disk EXCEPT !.state = 1]
    /\ Go("start_chain")
    /\ UNCHANGED <<children, data, observer, chain>>
    /\ Quiet

\* start_chain spawns Anvil, and loads the state once it answers.
StartChain ==
    /\ run.at \in {"start_chain", "start_chain_again"}
    /\ chain' = [up |-> TRUE, block |-> 0]
    /\ Go(IF At("start_chain") THEN "load_state" ELSE "load_state_again")
    /\ UNCHANGED <<children, data, observer, disk>>
    /\ Quiet

LoadState ==
    /\ run.at \in {"load_state", "load_state_again"}
    /\ chain' = [chain EXCEPT !.block = disk.state]
    /\ Go(IF At("load_state") THEN "publish_release" ELSE "restart_server")
    /\ UNCHANGED <<children, data, observer, disk>>
    /\ Quiet

\* prepare_local_pilot_runtime publishes the release, unless it is there.
PublishRelease ==
    /\ At("publish_release")
    /\ Mined(1)
    /\ Go("install")
    /\ UNCHANGED <<children, data, observer, disk>>
    /\ Quiet

\* run_pilot_demo installs the package before anything is sure to be stopped.
Install ==
    /\ At("install")
    /\ Go("prepare")
    /\ UNCHANGED <<children, stored>>
    /\ Quiet

\* _prepare_environment: with the stage, the registrations and the schedule.
PrepareEnvironment ==
    /\ At("prepare")
    /\ Mined(IF conf.stage = "governance" THEN 3 ELSE 0)
    /\ hub' = NewHub
    /\ Go("session")
    /\ UNCHANGED <<serves, stale, node, data, observer, disk>>
    /\ Quiet

\* _stop_pilot_server: the connections end and their handlers with them.
ServerStops ==
    /\ hub' = [hub EXCEPT !.up = FALSE]
    /\ serves' = {}
    /\ stale' = [n \in Node |-> 0]
    /\ node' = [n \in Node |-> IF n \in serves THEN [node[n] EXCEPT !.step = "lost"]
                                               ELSE node[n]]

NothingCarried == [NewHub EXCEPT !.recoveries = hub.recoveries + 1]

\* _carry_restart_metrics
Carried ==
    [NewHub EXCEPT !.armed = hub.armed, !.dropped = hub.dropped,
                   !.acceptances = hub.acceptances, !.recoveries = hub.recoveries + 1]

\* _restart_pilot_server, during the session and after the restore.
RestartServer ==
    /\ run.at \in {"restart_server", "restart_restored"}
    /\ hub' = Carried
    /\ Go(IF At("restart_server") THEN "restart_nodes" ELSE "accept")
    /\ UNCHANGED <<serves, stale, node, stored>>
    /\ Quiet

-----------------------------------------------------------------------------
(* The run: the observation phase                                          *)

CreateSession ==
    /\ At("session")
    /\ data' = [data EXCEPT !.session = "live"]
    /\ observer' = [o \in Observer |-> [step |-> "stream", cursor |-> 0]]
    /\ Go(IF conf.faults THEN "start_delayed" ELSE "start_active")
    /\ UNCHANGED <<children, chain, disk>>
    /\ Quiet

\* A task is enqueued for n, and then the run goes on with then.
Enqueue(n, kind, then) ==
    [run EXCEPT !.at = "await_link", !.who = n, !.kind = kind, !.then = then]

Start(nodes, kind) ==
    /\ node' = SpawnedIn(nodes, kind)
    /\ UNCHANGED <<hub, serves, stale, stored>>
    /\ Quiet

StartDelayed ==
    /\ At("start_delayed")
    /\ Start({Delayed}, "observe")
    /\ run' = Enqueue(Delayed, "observe", "kill_delayed")

StartActive ==
    /\ At("start_active")
    /\ Start(Active, "observe")
    /\ run' = [run EXCEPT !.at = "next_active", !.todo = Active]

NextActive ==
    /\ At("next_active")
    /\ run' \in IF run.todo = {} THEN {[run EXCEPT !.at = "publish"]}
                ELSE {[Enqueue(n, "observe", "next_active") EXCEPT !.todo = @ \ {n}] :
                        n \in run.todo}
    /\ UNCHANGED <<children, stored>>
    /\ Quiet

\* _wait_for_relay_node_connections
Connected(nodes) == nodes \subseteq hub.connected

Disconnected(nodes) == nodes \cap hub.connected = {}

\* _enqueue_task_after_relay_connection: the task is posted once its node has
\* authenticated, and the run waits for it to be accepted.
AwaitLink ==
    /\ At("await_link")
    /\ Connected({run.who})
    /\ Go("post_task")
    /\ UNCHANGED <<children, stored>>
    /\ Quiet

PostTask ==
    /\ At("post_task")
    /\ data' = [data EXCEPT !.rows[<<run.who, run.kind>>] = "queued"]
    /\ Go("await_acceptance")
    /\ UNCHANGED <<children, observer, chain, disk>>
    /\ Quiet

AwaitAcceptance ==
    /\ At("await_acceptance")
    /\ data.rows[<<run.who, run.kind>>] \in {"accepted", "answered", "confirmed"}
    /\ Go(run.then)
    /\ UNCHANGED <<children, stored>>
    /\ Quiet

\* _stop_processes
Killed(nodes) ==
    /\ node' = [n \in Node |-> IF n \in nodes /\ Alive(n)
                               THEN [node[n] EXCEPT !.step = "failed"] ELSE node[n]]
    /\ Unlink({}, {n \in nodes : Alive(n)})

KillNodes ==
    /\ run.at \in {"kill_delayed", "kill_active"}
    /\ Killed(IF At("kill_delayed") THEN {Delayed} ELSE Active)
    /\ Go(IF At("kill_delayed") THEN "await_delayed_gone" ELSE "await_active_gone")
    /\ UNCHANGED <<hub, stored>>
    /\ Quiet

\* The proofs that a node was disconnected after it had accepted its task.
AwaitGone ==
    /\ run.at \in {"await_delayed_gone", "await_active_gone"}
    /\ LET nodes == IF At("await_delayed_gone") THEN {Delayed} ELSE Active IN
         /\ Disconnected(nodes)
         /\ report' = [report EXCEPT !.disconnected = @ \cup nodes]
         /\ cut' = cut \cup {n \in nodes :
                               data.rows[<<n, "observe">>] = "accepted" /\ ~Alive(n)}
    /\ Go(IF At("await_delayed_gone") THEN "start_active" ELSE "stop_server")
    /\ UNCHANGED <<conf, children, stored, failures, unacknowledged>>

Halfway == IF EventCount < 2 THEN 1 ELSE EventCount \div 2

\* An event is published; in the middle of them come the faults. Before the
\* session is closed the loss of the acknowledgements is armed.
Publish ==
    /\ At("publish")
    /\ IF data.events < EventCount
       THEN /\ data' = [data EXCEPT !.events = @ + 1]
            /\ Go(IF conf.faults /\ data.events + 1 = Halfway THEN "kill_active"
                                                              ELSE "publish")
            /\ UNCHANGED hub
       ELSE /\ hub' = IF conf.faults THEN [hub EXCEPT !.armed = @ \cup Node] ELSE hub
            /\ Go("close")
            /\ UNCHANGED data
    /\ UNCHANGED <<serves, stale, node, observer, chain, disk>>
    /\ Quiet

StopServer ==
    /\ run.at \in {"stop_server", "stop_for_restore"}
    /\ ServerStops
    /\ Go(IF At("stop_server") THEN "dump_state" ELSE "tamper")
    /\ UNCHANGED stored
    /\ Quiet

StateKept == disk.state

\* snapshot_chain: the state of the chain in state.json, and in a file of its
\* own.
StateDumped == chain.block

\* restart_chain: the chain is dumped, stopped and started again.
DumpState ==
    /\ At("dump_state")
    /\ disk' = [disk EXCEPT !.state = StateDumped, !.dump = StateDumped]
    /\ Go("stop_chain")
    /\ UNCHANGED <<children, data, observer, chain>>
    /\ Quiet

StopChain ==
    /\ At("stop_chain")
    /\ chain' = [up |-> FALSE, block |-> 0]
    /\ Go("start_chain_again")
    /\ UNCHANGED <<children, data, observer, disk>>
    /\ Quiet

RestartNodes ==
    /\ At("restart_nodes")
    /\ Start(Active, "observe")
    /\ Go("await_reconnected")

AwaitReconnected ==
    /\ At("await_reconnected")
    /\ Connected(Active)
    /\ report' = [report EXCEPT !.reconnected = @ \cup Active]
    /\ Go("publish")
    /\ UNCHANGED <<conf, children, stored, failures, cut, unacknowledged>>

CloseSession ==
    /\ At("close")
    /\ data' = [data EXCEPT !.session = "closed"]
    /\ Go("finalize")
    /\ UNCHANGED <<children, observer, chain, disk>>
    /\ Quiet

FinalizeEvidence ==
    /\ At("finalize")
    /\ data' = [data EXCEPT !.session = "sealed"]
    /\ Go("gather_observers")
    /\ UNCHANGED <<children, observer, chain, disk>>
    /\ Quiet

\* The run has failed with what it raises.
Raise == run' = [run EXCEPT !.at = "kill_all", !.result = "failed"]

GatherObservers ==
    /\ At("gather_observers")
    /\ \A o \in Observer : observer[o].step = "done"
    /\ IF \A o \in Observer : observer[o].cursor = EventCount
       THEN run' = [run EXCEPT !.at = "collect_active"]
       ELSE Raise
    /\ UNCHANGED <<children, stored>>
    /\ Quiet

Exited(nodes) == \A n \in nodes : ~Alive(n)

\* _collect: the nodes are waited for, and each has succeeded.
Collect(nodes, then) ==
    /\ Exited(nodes)
    /\ IF \A n \in nodes : node[n].step = "done" THEN run' = then ELSE Raise
    /\ UNCHANGED <<children, stored>>

CollectActive ==
    /\ At("collect_active")
    /\ Collect(Active, [run EXCEPT !.at = "start_delayed_again"])
    /\ Quiet

\* With the faults its task is accepted already, and is delivered again.
StartDelayedAgain ==
    /\ At("start_delayed_again")
    /\ Start({Delayed}, "observe")
    /\ run' = IF conf.faults THEN [run EXCEPT !.at = "collect_delayed"]
                             ELSE Enqueue(Delayed, "observe", "collect_delayed")

CollectDelayed ==
    /\ At("collect_delayed")
    /\ Collect({Delayed}, [run EXCEPT !.at = "await_all_gone"])
    /\ report' = [report EXCEPT !.reconnected = IF conf.faults THEN @ \cup {Delayed} ELSE @]
    /\ UNCHANGED <<conf, failures, cut, unacknowledged>>

Gone(nodes) == Disconnected(nodes)

\* The reviews have the identities of the observations: what is connected next
\* is to be the review.
AwaitAllGone ==
    /\ At("await_all_gone")
    /\ Gone(Node)
    /\ Go("prove_losses")
    /\ UNCHANGED <<children, stored>>
    /\ Quiet

Recovered(n) ==
    /\ data.rows[<<n, "observe">>] = "confirmed"
    /\ n \in hub.dropped
    /\ node[n].reconnects >= 1

\* The proofs that the lost acknowledgements were recovered.
ProveLosses ==
    /\ At("prove_losses")
    /\ IF conf.faults => \A n \in Node : Recovered(n)
       THEN run' = [run EXCEPT !.at = "next_review", !.todo = Node]
       ELSE Raise
    /\ report' = [report EXCEPT !.lost = IF conf.faults THEN {n \in Node : Recovered(n)}
                                                        ELSE {}]
    /\ UNCHANGED <<conf, children, stored, failures, cut, unacknowledged>>

-----------------------------------------------------------------------------
(* The run: reviews, governance, the restore and the transcript            *)

\* The nodes review the bundle one after the other; with the last one the
\* dispute is resolved and the gate open.
NextReview ==
    /\ At("next_review")
    /\ \/ /\ run.todo = {}
          /\ Go(IF conf.stage = "governance" THEN "propose" ELSE "snapshot_chain")
          /\ UNCHANGED node
       \/ \E n \in run.todo :
            /\ node' = SpawnedIn({n}, "review")
            /\ run' = [Enqueue(n, "review", "collect_review") EXCEPT !.todo = @ \ {n}]
    /\ UNCHANGED <<hub, serves, stale, stored>>
    /\ Quiet

CollectReview ==
    /\ At("collect_review")
    /\ Collect({run.who}, [run EXCEPT !.at = "next_review"])
    /\ Quiet

\* _run_governance_phase: the window, the proposal, and the votes in one batch.
Propose ==
    /\ At("propose")
    /\ Mined(2)
    /\ Go("vote")
    /\ UNCHANGED <<children, data, observer, disk>>
    /\ Quiet

BatchVote ==
    /\ At("vote")
    /\ Mined(1)
    /\ Go("snapshot_chain")
    /\ UNCHANGED <<children, data, observer, disk>>
    /\ Quiet

\* _exercise_system_snapshot_restore: the chain is dumped, and the databases
\* are copied with it.
SnapshotChain ==
    /\ At("snapshot_chain")
    /\ disk' = [disk EXCEPT !.state = StateDumped, !.dump = StateDumped]
    /\ Go("create_snapshot")
    /\ UNCHANGED <<children, data, observer, chain>>
    /\ Quiet

CreateSnapshot ==
    /\ At("create_snapshot")
    /\ disk' = [disk EXCEPT !.snapshot = [rows |-> data.rows, events |-> data.events,
                                          session |-> data.session, probe |-> FALSE]]
    /\ Go("stop_for_restore")
    /\ UNCHANGED <<children, data, observer, chain>>
    /\ Quiet

\* What is live gets a probe, and the chain a block.
Tamper ==
    /\ At("tamper")
    /\ data' = [data EXCEPT !.probe = TRUE]
    /\ Mined(1)
    /\ disk' = [disk EXCEPT !.probeBlock = chain.block + 1]
    /\ Go("restore")
    /\ UNCHANGED <<children, observer>>
    /\ Quiet

RestoreSnapshot ==
    /\ At("restore")
    /\ data' = disk.snapshot
    /\ Go("restore_chain")
    /\ UNCHANGED <<children, observer, chain, disk>>
    /\ Quiet

\* restore_chain loads the dump, and writes it to state.json.
BlockRestored == disk.dump

RestoreChain ==
    /\ At("restore_chain")
    /\ chain' = [chain EXCEPT !.block = BlockRestored]
    /\ disk' = [disk EXCEPT !.state = disk.dump]
    /\ Go("check_probes")
    /\ UNCHANGED <<children, data, observer>>
    /\ Quiet

ProbesRemoved ==
    /\ ~data.probe
    /\ disk.probeBlock > disk.dump
    /\ chain.block = disk.dump

CheckProbes ==
    /\ At("check_probes")
    /\ IF ProbesRemoved THEN run' = [run EXCEPT !.at = "restart_restored"] ELSE Raise
    /\ report' = [report EXCEPT !.restored = ProbesRemoved]
    /\ UNCHANGED <<conf, children, stored, failures, cut, unacknowledged>>

\* _run_acceptance_phase: the transcript is written and verified.
Accepted ==
    /\ At("accept")
    /\ run' = [run EXCEPT !.at = "kill_all", !.result = "passed"]
    /\ Mined(1)
    /\ report' = [report EXCEPT !.acceptances = hub.acceptances,
                                !.recoveries = hub.recoveries]
    /\ UNCHANGED <<conf, children, data, observer, disk, failures, cut, unacknowledged>>

-----------------------------------------------------------------------------
(* The run: how it ends                                                    *)

BeforeTry == {"initialize", "start_chain", "load_state", "publish_release", "install"}

Ending == {"kill_all", "close_server", "close_chain", "ended"}

\* A step fails or a wait runs into its timeout. Before the environment is
\* there nothing is to be stopped but the chain, which initialize_chain,
\* start_chain and prepare_local_pilot_runtime stop themselves; a chain that
\* does not come up again is stopped as well.
StepFails ==
    /\ run.at \notin Ending
    /\ Failure
    /\ run' = [run EXCEPT !.result = "failed",
                          !.at = CASE run.at \in BeforeTry -> "ended"
                                   [] At("prepare")        -> "close_chain"
                                   [] OTHER                -> "kill_all"]
    /\ chain' = IF run.at \in (BeforeTry \ {"install"}) \cup {"load_state_again"}
                THEN [up |-> FALSE, block |-> 0] ELSE chain
    /\ UNCHANGED <<conf, children, data, observer, disk, report, cut, unacknowledged>>

Waits == {"await_link", "await_acceptance", "await_delayed_gone",
          "await_active_gone", "await_reconnected", "await_all_gone",
          "collect_active", "collect_delayed", "collect_review"}

\* Once something went wrong, what is waited for may not come.
WaitExpires ==
    /\ run.at \in Waits
    /\ failures > 0
    /\ Raise
    /\ UNCHANGED <<children, stored>>
    /\ Quiet

NoneKilled == {}

\* all_processes
Started == Node

\* The finally blocks: the nodes, the server, the chain, each one whatever
\* became of the one before.
KillAll ==
    /\ At("kill_all")
    /\ Killed(Started)
    /\ Go("close_server")
    /\ UNCHANGED <<hub, stored>>
    /\ Quiet

CloseServer ==
    /\ At("close_server")
    /\ ServerStops
    /\ observer' = [o \in Observer |-> [observer[o] EXCEPT !.step = "none"]]
    /\ Go("close_chain")
    /\ UNCHANGED <<data, chain, disk>>
    /\ Quiet

CloseChain ==
    /\ At("close_chain")
    /\ chain' = [up |-> FALSE, block |-> 0]
    /\ Go("ended")
    /\ UNCHANGED <<children, data, observer, disk>>
    /\ Quiet

-----------------------------------------------------------------------------
NoData == [rows |-> [t \in Task |-> "none"], events |-> 0, session |-> "none",
           probe |-> FALSE]

Init ==
    /\ run = [at |-> "initialize", then |-> "ended", who |-> Delayed,
              kind |-> "observe", todo |-> {}, result |-> "none"]
    /\ conf \in [faults : BOOLEAN, stage : {"core", "governance"}]
    /\ hub = [NewHub EXCEPT !.up = FALSE]
    /\ serves = {}
    /\ stale = [n \in Node |-> 0]
    /\ node = [n \in Node |-> NoChild]
    /\ data = NoData
    /\ observer = [o \in Observer |-> [step |-> "none", cursor |-> 0]]
    /\ chain = [up |-> FALSE, block |-> 0]
    /\ disk = [state |-> 0, dump |-> 0, probeBlock |-> 0, snapshot |-> NoData]
    /\ report = [disconnected |-> {}, reconnected |-> {}, lost |-> {},
                 restored |-> FALSE, acceptances |-> 0, recoveries |-> 0]
    /\ failures = 0
    /\ cut = {}
    /\ unacknowledged = {}

NodeStep(n) ==
    \/ Authenticate(n) \/ Accept(n) \/ Receipt(n) \/ RecoverReceipt(n)
    \/ ConfirmReceipt(n) \/ GiveUp(n)

ObserverStep(o) == StreamEnds(o) \/ ReadSession(o)

RunStep ==
    \/ InitializeChain \/ StartChain \/ LoadState \/ PublishRelease \/ Install
    \/ PrepareEnvironment \/ CreateSession \/ StartDelayed \/ StartActive
    \/ NextActive \/ AwaitLink \/ PostTask \/ AwaitAcceptance \/ KillNodes
    \/ AwaitGone \/ Publish \/ StopServer \/ DumpState \/ StopChain
    \/ RestartServer \/ RestartNodes \/ AwaitReconnected \/ CloseSession
    \/ FinalizeEvidence \/ GatherObservers \/ CollectActive \/ StartDelayedAgain
    \/ CollectDelayed \/ AwaitAllGone \/ ProveLosses \/ NextReview
    \/ CollectReview \/ Propose \/ BatchVote \/ SnapshotChain \/ CreateSnapshot
    \/ Tamper \/ RestoreSnapshot \/ RestoreChain \/ CheckProbes \/ Accepted
    \/ WaitExpires \/ KillAll \/ CloseServer \/ CloseChain

Next ==
    \/ RunStep
    \/ \E n \in Node :
         \/ NodeStep(n) \/ HandlerEnds(n)
         \/ ConnectionBreaks(n) \/ NodeFails(n)
    \/ \E o \in Observer : ObserverStep(o)
    \/ StepFails

Spec == Init /\ [][Next]_vars

\* The run, the nodes, the observers and the handlers all go on; a step that
\* does not is a failure, as every wait has a timeout.
Fairness ==
    /\ WF_vars(RunStep)
    /\ \A n \in Node : WF_vars(NodeStep(n)) /\ WF_vars(HandlerEnds(n))
    /\ \A o \in Observer : WF_vars(ObserverStep(o))

FairSpec == Spec /\ Fairness

-----------------------------------------------------------------------------
(* Properties                                                              *)

TypeOK ==
    /\ run.todo \subseteq Node
    /\ run.result \in {"none", "passed", "failed"}
    /\ hub.connected \subseteq Node
    /\ serves \subseteq {n \in Node : Alive(n)}
    /\ stale \in [Node -> Nat]
    /\ data.rows \in [Task -> {"none", "queued", "accepted", "answered", "confirmed"}]
    /\ data.events \in 0 .. EventCount
    /\ failures \in 0 .. MaxFailures

Passed == run.result = "passed"

\* The transcript of a run that passed tells what happened: every node that it
\* calls disconnected was gone with its task accepted, each acknowledgement was
\* lost and the receipt confirmed after all, and the counters went through every
\* restart of the server.
TranscriptIsTrue ==
    Passed =>
      /\ report.restored
      /\ report.disconnected = IF conf.faults THEN Node ELSE {}
      /\ report.reconnected = report.disconnected
      /\ report.disconnected \subseteq cut
      /\ report.lost \subseteq unacknowledged
      /\ \A t \in Task : data.rows[t] = "confirmed"
      /\ report.acceptances = Cardinality(Task)
      /\ report.recoveries = IF conf.faults THEN 2 ELSE 1

\* Neither a restart nor the restore loses what was stored: the chain has the
\* release, and the session its events.
NothingLost ==
    /\ hub.up => chain.block >= 2
    /\ Passed => data.events = EventCount /\ data.session = "sealed" /\ ~data.probe

\* A task is posted to a node that is there: the child that will execute it has
\* authenticated, and it is not its predecessor that is connected still.
PostedToItsNode ==
    [][\A n \in Node, kind \in {"observe", "review"} :
         (data.rows[<<n, kind>>] = "none" /\ data'.rows[<<n, kind>>] = "queued") =>
             node[n].kind = kind /\ node[n].step # "starting"]_vars

\* However a run ends that has got to its session, it leaves no node, no server
\* and no chain.
NothingLeftRunning ==
    At("ended") /\ data.session # "none" =>
        /\ \A n \in Node : ~Alive(n)
        /\ ~hub.up
        /\ ~chain.up

Over == At("ended") /\ (failures = 0 => Passed)

\* A run ends, and passes unless something goes wrong.
RunEnds == <>Over
=============================================================================
