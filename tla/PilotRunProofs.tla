---------------------------- MODULE PilotRunProofs ----------------------------
(***************************************************************************)
(* Proofs about PilotRun, for any set of nodes and any number of events:   *)
(* however a run of the pilot ends, it leaves nothing running; the         *)
(* restarts and the restore lose nothing that was stored; the transcript   *)
(* of a run that passed is true; and a task is posted to the child that    *)
(* executes it.                                                            *)
(*                                                                         *)
(* PilotInv is inductive by itself, through every failure. Told adds, for  *)
(* a run that has not failed, what its place in the program says of the    *)
(* rows, of the children, of the counters and of the report.               *)
(***************************************************************************)
EXTENDS PilotRun, FiniteSetTheorems, TLAPS

USE PilotAssumption

Rows == [Task -> {"none", "queued", "accepted", "answered", "confirmed"}]

Data == [rows : Rows, events : Nat, session : {"none", "live", "closed", "sealed"},
         probe : BOOLEAN]

\* What the run is doing.
Steps ==
    {"initialize", "start_chain", "load_state", "publish_release", "install", "prepare",
     "session", "start_delayed", "start_active", "next_active", "await_link", "post_task",
     "await_acceptance", "kill_delayed", "await_delayed_gone", "publish", "kill_active",
     "await_active_gone", "stop_server", "dump_state", "stop_chain", "start_chain_again",
     "load_state_again", "restart_server", "restart_nodes", "await_reconnected", "close",
     "finalize", "gather_observers", "collect_active", "start_delayed_again",
     "collect_delayed", "await_all_gone", "prove_losses", "next_review", "collect_review",
     "propose", "vote", "snapshot_chain", "create_snapshot", "stop_for_restore", "tamper",
     "restore", "restore_chain", "check_probes", "restart_restored", "accept", "kill_all",
     "close_server", "close_chain", "ended"}

RunRecord == [at : Steps, then : Steps, who : Node, kind : {"observe", "review"},
              todo : SUBSET Node, result : {"none", "passed", "failed"}]

HubRecord == [up : BOOLEAN, connected : SUBSET Node, armed : SUBSET Node,
              dropped : SUBSET Node, acceptances : Nat, recoveries : Nat]

Child == [step : {"none", "starting", "ready", "working", "answered", "lost", "done",
                  "failed"},
          kind : {"observe", "review"}, reconnects : Nat]

Disk == [state : Nat, dump : Nat, probeBlock : Nat, snapshot : Data]

Types ==
    /\ run \in RunRecord
    /\ hub \in HubRecord
    /\ serves \subseteq Node
    /\ stale \in [Node -> Nat]
    /\ node \in [Node -> Child]
    /\ data \in Data
    /\ chain \in [up : BOOLEAN, block : Nat]
    /\ disk \in Disk
    /\ failures \in 0 .. MaxFailures

\* The steps of the run that enqueue a task, and where they lead.
Enqueuing == {"await_link", "post_task", "await_acceptance"}

Observing == {"kill_delayed", "next_active"}

Collecting == {"collect_delayed", "collect_review"}

\* A child that the Relay serves is at one of these.
Linked == {"starting", "ready", "working", "answered"}

\* Before the session there is nothing but the chain, and the Relay serves nodes
\* that are alive.
Order ==
    /\ run.at \in BeforeTry \cup {"prepare", "session"} => data.session = "none"
    /\ run.at \in BeforeTry \cup {"prepare"} => ~hub.up
    /\ run.at \in Enqueuing => run.then \in Observing \cup Collecting
    /\ run.result # "none" => run.at \in Ending
    /\ \A n \in serves : node[n].step \in Linked

\* The chain has the release whenever a server needs it: what it is started
\* from again was dumped when it had.
ChainHolds ==
    /\ hub.up => chain.block >= 2
    /\ run.at \in {"start_chain", "load_state"} => disk.state >= 1
    /\ run.at = "publish_release" => chain.block >= 1
    /\ run.at \in {"dump_state", "stop_chain", "start_chain_again", "load_state_again",
                   "restart_server", "close_chain", "ended"} => ~hub.up
    /\ run.at \in {"stop_chain", "start_chain_again", "load_state_again"} => disk.state >= 2
    /\ run.at \in {"create_snapshot", "stop_for_restore", "tamper", "restore",
                   "restore_chain"} => disk.dump >= 2
    /\ \/ run.at \in {"initialize", "start_chain", "load_state", "publish_release",
                      "start_chain_again", "load_state_again"} \cup Ending
       \/ chain.block >= 2

\* The steps after the evidence was finalized.
Finalized ==
    {"gather_observers", "collect_active", "start_delayed_again", "await_all_gone",
     "prove_losses", "next_review", "propose", "vote", "snapshot_chain",
     "create_snapshot", "stop_for_restore", "tamper", "restore", "restore_chain",
     "check_probes", "restart_restored", "accept"} \cup Collecting

Sealed(d) == d.events = EventCount /\ d.session = "sealed"

\* From then on the session is sealed with all its events, in the databases and
\* in the snapshot; the probe is gone with the restore.
DataHolds ==
    /\ data.events <= EventCount
    /\ run.at \in {"close", "finalize"} => data.events = EventCount
    /\ run.at \in Finalized \/ run.result = "passed" => Sealed(data)
    /\ run.at \in Enqueuing /\ run.then \in Collecting => Sealed(data)
    /\ run.at \in {"stop_for_restore", "tamper", "restore"}
         => Sealed(disk.snapshot) /\ ~disk.snapshot.probe
    /\ data.probe => run.at = "restore" \/ run.result = "failed"

\* What the finally blocks have stopped stays stopped.
StaysDown ==
    data.session # "none" =>
        /\ run.at \in {"close_server", "close_chain", "ended"} => \A n \in Node : ~Alive(n)
        /\ run.at = "ended" => ~chain.up

\* The inductive invariant.
PilotInv == Types /\ Order /\ ChainHolds /\ DataHolds /\ StaysDown

-----------------------------------------------------------------------------
(* The nodes                                                               *)

\* What the record of a child, of the server or of the databases may become.
LEMMA ChildKept ==
  ASSUME NEW c \in Child
  PROVE  /\ \A st \in {"none", "starting", "ready", "working", "answered", "lost", "done",
                       "failed"} : [c EXCEPT !.step = st] \in Child
         /\ \A r \in Nat : [c EXCEPT !.step = "ready", !.reconnects = r] \in Child
BY DEF Child

LEMMA RowsKept ==
  ASSUME NEW d \in Data, NEW t \in Task,
         NEW row \in {"none", "queued", "accepted", "answered", "confirmed"}
  PROVE  [d EXCEPT !.rows[t] = row] \in Data
<1>1. [d.rows EXCEPT ![t] = row] \in Rows
  BY DEF Data, Rows
<1> QED
  BY <1>1 DEF Data

\* What a step of a node, of its handler or of a failure leaves alone.
LEMMA NodeFrame ==
  ASSUME NEW n \in Node,
         NodeStep(n) \/ HandlerEnds(n) \/ ConnectionBreaks(n) \/ NodeFails(n)
  PROVE  /\ UNCHANGED <<run, chain, disk>>
         /\ failures' = failures \/ (failures < MaxFailures /\ failures' = failures + 1)
BY DEF NodeStep, Authenticate, Accept, Receipt, RecoverReceipt, ConfirmReceipt, GiveUp,
       HandlerEnds, ConnectionBreaks, NodeFails, Failure, stored, outcome

\* What a node writes: rows of its tasks.
LEMMA NodeData ==
  ASSUME data \in Data, node \in [Node -> Child], NEW n \in Node,
         NodeStep(n) \/ HandlerEnds(n) \/ ConnectionBreaks(n) \/ NodeFails(n)
  PROVE  /\ data' \in Data
         /\ data'.events = data.events /\ data'.session = data.session
         /\ data'.probe = data.probe
<1>1. \/ UNCHANGED data
      \/ \E t \in Task, row \in {"none", "queued", "accepted", "answered", "confirmed"} :
           data' = [data EXCEPT !.rows[t] = row]
  <2>1. node[n].kind \in {"observe", "review"}
    BY DEF Child
  <2>2. \A kind \in {"observe", "review"} : <<n, kind>> \in Task
    BY DEF Task
  <2>3. \A t \in {n} \X {"observe", "review"} : t \in Task
    BY DEF Task
  <2>4. CASE Accept(n)
    BY <2>3, <2>4 DEF Accept
  <2>5. CASE Receipt(n)
    BY <2>1, <2>2, <2>5 DEF Receipt
  <2>6. CASE ConfirmReceipt(n)
    BY <2>1, <2>2, <2>6 DEF ConfirmReceipt
  <2>7. CASE ~(Accept(n) \/ Receipt(n) \/ ConfirmReceipt(n))
    BY <2>7 DEF NodeStep, Authenticate, RecoverReceipt, GiveUp, HandlerEnds,
                ConnectionBreaks, NodeFails, stored
  <2> QED
    BY <2>4, <2>5, <2>6, <2>7
<1>2. CASE UNCHANGED data
  BY <1>2
<1>3. ASSUME NEW t \in Task,
             NEW row \in {"none", "queued", "accepted", "answered", "confirmed"},
             data' = [data EXCEPT !.rows[t] = row]
      PROVE  /\ data' \in Data
             /\ data'.events = data.events /\ data'.session = data.session
             /\ data'.probe = data.probe
  BY <1>3, RowsKept DEF Data
<1> QED
  BY <1>1, <1>2, <1>3

\* The Relay's sets stay sets of nodes, and the server stays up or down.
LEMMA NodeHub ==
  ASSUME hub \in HubRecord, NEW n \in Node,
         NodeStep(n) \/ HandlerEnds(n) \/ ConnectionBreaks(n) \/ NodeFails(n)
  PROVE  hub' \in HubRecord /\ hub'.up = hub.up
<1>1. CASE Authenticate(n)
  BY <1>1 DEF Authenticate, HubRecord
<1>2. CASE Accept(n)
  BY <1>2 DEF Accept, HubRecord
<1>3. CASE Receipt(n)
  <2>1. \/ hub' = hub
        \/ hub' = [hub EXCEPT !.armed = @ \ {n}, !.dropped = @ \cup {n},
                             !.connected = @ \ {n}]
    BY <1>3 DEF Receipt
  <2>2. CASE hub' = hub
    BY <2>2
  <2>3. CASE hub' # hub
    <3>1. /\ hub.armed \ {n} \in SUBSET Node /\ hub.dropped \cup {n} \in SUBSET Node
          /\ hub.connected \ {n} \in SUBSET Node
      BY DEF HubRecord
    <3>2. PICK a, d, c \in SUBSET Node :
            hub' = [hub EXCEPT !.armed = a, !.dropped = d, !.connected = c]
      BY <2>1, <2>3, <3>1
    <3> QED
      BY <3>2 DEF HubRecord
  <2> QED
    BY <2>2, <2>3
<1>4. CASE HandlerEnds(n)
  BY <1>4 DEF HandlerEnds, HubRecord
<1>5. CASE ~(Authenticate(n) \/ Accept(n) \/ Receipt(n) \/ HandlerEnds(n))
  BY <1>5 DEF NodeStep, RecoverReceipt, ConfirmReceipt, GiveUp, ConnectionBreaks, NodeFails
<1> QED
  BY <1>1, <1>2, <1>3, <1>4, <1>5

\* A step of a node changes the child of that node alone: it takes it to a step in
\* which it is alive, and that only if it was, or it ends it and what served it.
LEMMA NodeChild ==
  ASSUME node \in [Node -> Child], serves \subseteq Node, stale \in [Node -> Nat],
         \A m \in serves : node[m].step \in Linked, NEW n \in Node,
         NodeStep(n) \/ HandlerEnds(n) \/ ConnectionBreaks(n) \/ NodeFails(n)
  PROVE  /\ node' \in [Node -> Child]
         /\ stale' \in [Node -> Nat]
         /\ serves' \subseteq serves \cup {n}
         /\ \A m \in Node : m # n => node'[m] = node[m]
         /\ Alive(n)' => Alive(n)
         /\ n \in serves' => node'[n].step \in Linked
<1> DEFINE Goal == /\ node' \in [Node -> Child]
                   /\ stale' \in [Node -> Nat]
                   /\ serves' \subseteq serves \cup {n}
                   /\ \A m \in Node : m # n => node'[m] = node[m]
                   /\ Alive(n)' => Alive(n)
                   /\ n \in serves' => node'[n].step \in Linked
<1>k. \A st \in {"none", "starting", "ready", "working", "answered", "lost", "done",
                 "failed"} : [node[n] EXCEPT !.step = st] \in Child
  BY ChildKept
<1>l. \A c \in Child : c.reconnects \in Nat
  BY DEF Child
<1>s. /\ Alive(n) <=> node[n].step \in {"starting", "ready", "working", "answered", "lost"}
      /\ Alive(n)' <=> node'[n].step \in {"starting", "ready", "working", "answered", "lost"}
      /\ Linked = {"starting", "ready", "working", "answered"}
  BY DEF Alive, Linked
<1>m. ASSUME NEW st \in {"none", "starting", "ready", "working", "answered", "lost", "done",
                         "failed"},
             node' = [node EXCEPT ![n].step = st]
      PROVE  /\ node' \in [Node -> Child]
             /\ \A m \in Node : m # n => node'[m] = node[m]
             /\ node'[n].step = st
  <2>1. [node[n] EXCEPT !.step = st] \in Child /\ [node[n] EXCEPT !.step = st].step = st
    BY <1>k DEF Child
  <2>2. node' = [node EXCEPT ![n] = [node[n] EXCEPT !.step = st]]
    BY <1>m
  <2> QED
    BY <2>1, <2>2
<1>u. ASSUME Unlink(n, {n})
      PROVE  stale' \in [Node -> Nat] /\ serves' \subseteq serves /\ n \notin serves'
  BY <1>u DEF Unlink
<1>1. CASE Authenticate(n)
  <2> DEFINE r == IF node[n].step = "lost" THEN node[n].reconnects + 1
                                           ELSE node[n].reconnects
             c == [node[n] EXCEPT !.step = "ready", !.reconnects = r]
  <2>1. r \in Nat
    BY <1>l
  <2>2. node' = [node EXCEPT ![n] = c]
    BY <1>1 DEF Authenticate
  <2>3. c \in Child /\ c.step = "ready"
    <3>1. node[n] \in Child
      OBVIOUS
    <3> HIDE DEF r
    <3> QED
      BY <2>1, <3>1 DEF Child
  <2>4. /\ node[n].step \in {"starting", "lost"} /\ stale' = stale
        /\ serves' = serves \cup {n}
    BY <1>1 DEF Authenticate
  <2> HIDE DEF c
  <2>5. /\ node' \in [Node -> Child] /\ node'[n] = c
        /\ \A m \in Node : m # n => node'[m] = node[m]
    BY <2>2, <2>3
  <2> QED
    BY <1>s, <2>3, <2>4, <2>5
<1>2. CASE Accept(n)
  <2>1. /\ node' = [node EXCEPT ![n].step = "working"] /\ UNCHANGED <<serves, stale>>
        /\ n \in serves
    BY <1>2 DEF Accept
  <2> QED
    BY <1>m, <1>s, <2>1
<1>3. CASE Receipt(n)
  <2>1. /\ \/ node' = [node EXCEPT ![n].step = "lost"] /\ serves' = serves \ {n}
           \/ node' = [node EXCEPT ![n].step = "answered"] /\ serves' = serves
        /\ stale' = stale /\ n \in serves
    BY <1>3 DEF Receipt
  <2> QED
    BY <1>m, <1>s, <2>1
<1>4. CASE RecoverReceipt(n)
  <2>1. /\ node' = [node EXCEPT ![n].step = "answered"] /\ UNCHANGED <<serves, stale>>
        /\ n \in serves
    BY <1>4 DEF RecoverReceipt
  <2> QED
    BY <1>m, <1>s, <2>1
<1>5. CASE ConfirmReceipt(n)
  <2>1. node' = [node EXCEPT ![n].step = "done"] /\ Unlink(n, {n}) /\ n \in serves
    BY <1>5 DEF ConfirmReceipt
  <2> QED
    BY <1>m, <1>s, <1>u, <2>1
<1>6. CASE GiveUp(n)
  <2>1. /\ node' = [node EXCEPT ![n].step = "failed"] /\ UNCHANGED <<serves, stale>>
        /\ node[n].step = "lost"
    BY <1>6 DEF GiveUp
  <2>2. n \notin serves'
    BY <2>1 DEF Linked
  <2> QED
    BY <1>m, <1>s, <2>1, <2>2
<1>7. CASE HandlerEnds(n)
  BY <1>7, <1>s DEF HandlerEnds
<1>8. CASE ConnectionBreaks(n)
  <2>1. node' = [node EXCEPT ![n].step = "lost"] /\ Unlink(n, {n}) /\ n \in serves
    BY <1>8 DEF ConnectionBreaks
  <2> QED
    BY <1>m, <1>s, <1>u, <2>1
<1>9. CASE NodeFails(n)
  <2>1. node' = [node EXCEPT ![n].step = "failed"] /\ Unlink(n, {n})
    BY <1>9 DEF NodeFails
  <2> QED
    BY <1>m, <1>s, <1>u, <2>1
<1> QED
  BY <1>1, <1>2, <1>3, <1>4, <1>5, <1>6, <1>7, <1>8, <1>9 DEF NodeStep

\* Alive is about the steps of the children alone.
LEMMA LinkedAreAlive ==
  ASSUME NEW n \in Node, node[n].step \in Linked
  PROVE  Alive(n)
BY DEF Alive, Linked

\* The invariant is kept by the nodes, the handlers and the failures.
LEMMA NodeSteps ==
  ASSUME PilotInv, NEW n \in Node,
         NodeStep(n) \/ HandlerEnds(n) \/ ConnectionBreaks(n) \/ NodeFails(n)
  PROVE  PilotInv'
<1>1. /\ UNCHANGED <<run, chain, disk>>
      /\ failures' = failures \/ (failures < MaxFailures /\ failures' = failures + 1)
  BY NodeFrame
<1>2. Types /\ Order /\ ChainHolds /\ DataHolds /\ StaysDown
  BY DEF PilotInv
<1>t. /\ data \in Data /\ node \in [Node -> Child] /\ hub \in HubRecord
      /\ serves \subseteq Node /\ stale \in [Node -> Nat]
      /\ \A m \in serves : node[m].step \in Linked
  BY <1>2 DEF Types, Order
<1>3. /\ data' \in Data
      /\ data'.events = data.events /\ data'.session = data.session
      /\ data'.probe = data.probe
  BY <1>t, NodeData
<1>4. hub' \in HubRecord /\ hub'.up = hub.up
  BY <1>t, NodeHub
<1>5. /\ node' \in [Node -> Child]
      /\ stale' \in [Node -> Nat]
      /\ serves' \subseteq serves \cup {n}
      /\ \A m \in Node : m # n => node'[m] = node[m]
      /\ Alive(n)' => Alive(n)
      /\ n \in serves' => node'[n].step \in Linked
  BY <1>t, NodeChild
<1>6. Types'
  BY <1>1, <1>2, <1>3, <1>4, <1>5 DEF Types
<1>7. Order'
  <2>1. \A m \in serves' : node'[m].step \in Linked
    BY <1>t, <1>5
  <2> QED
    BY <1>1, <1>2, <1>3, <1>4, <2>1 DEF Order
<1>8. ChainHolds'
  BY <1>1, <1>2, <1>4 DEF ChainHolds
<1>9. DataHolds'
  BY <1>1, <1>2, <1>3 DEF DataHolds, Sealed
<1>10. StaysDown'
  <2>1. \A m \in Node : Alive(m)' => Alive(m)
    BY <1>5 DEF Alive
  <2> QED
    BY <1>1, <1>2, <1>3, <2>1 DEF StaysDown
<1> QED
  BY <1>6, <1>7, <1>8, <1>9, <1>10 DEF PilotInv

-----------------------------------------------------------------------------
(* The run                                                                 *)

\* Where the run goes, what is enqueued, and how it fails.
Goes(at) ==
    /\ run' \in RunRecord
    /\ run'.at = at /\ run'.then = run.then /\ run'.result = run.result

Enqueues(then) ==
    /\ run' \in RunRecord
    /\ run'.at = "await_link" /\ run'.then = then /\ run'.result = run.result

Ends(at, result) ==
    /\ run' \in RunRecord
    /\ run'.at = at /\ run'.then = run.then /\ run'.result = result

LEMMA RunGoes ==
  ASSUME run \in RunRecord, NEW at \in Steps,
         \/ Go(at)
         \/ \E todo \in SUBSET Node : run' = [run EXCEPT !.at = at, !.todo = todo]
  PROVE  Goes(at)
<1>1. CASE Go(at)
  BY <1>1 DEF Go, Goes, RunRecord
<1>2. ASSUME NEW todo \in SUBSET Node, run' = [run EXCEPT !.at = at, !.todo = todo]
      PROVE  Goes(at)
  BY <1>2 DEF Goes, RunRecord
<1> QED
  BY <1>1, <1>2

LEMMA RunEnqueues ==
  ASSUME run \in RunRecord, NEW n \in Node, NEW kind \in {"observe", "review"},
         NEW then \in Steps,
         \/ run' = Enqueue(n, kind, then)
         \/ run' = [Enqueue(n, kind, then) EXCEPT !.todo = @ \ {n}]
  PROVE  Enqueues(then)
<1>1. "await_link" \in Steps
  BY DEF Steps
<1>2. CASE run' = Enqueue(n, kind, then)
  BY <1>1, <1>2 DEF Enqueue, Enqueues, RunRecord
<1>3. CASE run' = [Enqueue(n, kind, then) EXCEPT !.todo = @ \ {n}]
  BY <1>1, <1>3 DEF Enqueue, Enqueues, RunRecord
<1> QED
  BY <1>2, <1>3

LEMMA RunFails ==
  ASSUME run \in RunRecord, Raise
  PROVE  Ends("kill_all", "failed")
<1>1. "kill_all" \in Steps
  BY DEF Steps
<1> QED
  BY <1>1 DEF Raise, Ends, RunRecord

\* The children that are started, those that are killed, and what a server that
\* stops leaves of them.
LEMMA Spawned ==
  ASSUME node \in [Node -> Child], NEW nodes, NEW kind \in {"observe", "review"},
         node' = SpawnedIn(nodes, kind)
  PROVE  /\ node' \in [Node -> Child]
         /\ \A n \in Node : node[n].step \in Linked => node'[n].step \in Linked
<1>1. /\ [NoChild EXCEPT !.step = "starting", !.kind = kind] \in Child
      /\ [NoChild EXCEPT !.step = "starting", !.kind = kind].step \in Linked
  BY DEF NoChild, Child, Linked
<1> QED
  BY <1>1 DEF SpawnedIn

LEMMA ServerStopped ==
  ASSUME hub \in HubRecord, node \in [Node -> Child], serves \subseteq Node,
         \A n \in serves : node[n].step \in Linked, ServerStops
  PROVE  /\ hub' \in HubRecord /\ ~hub'.up /\ serves' = {}
         /\ stale' \in [Node -> Nat] /\ node' \in [Node -> Child]
         /\ \A n \in Node : Alive(n)' => Alive(n)
<1>1. hub' \in HubRecord /\ ~hub'.up /\ serves' = {} /\ stale' \in [Node -> Nat]
  BY DEF ServerStops, HubRecord
<1>2. \A n \in Node : [node[n] EXCEPT !.step = "lost"] \in Child
  BY ChildKept
<1>3. node' = [n \in Node |-> IF n \in serves THEN [node[n] EXCEPT !.step = "lost"]
                                              ELSE node[n]]
  BY DEF ServerStops
<1>4. node' \in [Node -> Child]
  BY <1>2, <1>3
<1>5. \A n \in Node : Alive(n)' => Alive(n)
  BY <1>3, LinkedAreAlive DEF Alive
<1> QED
  BY <1>1, <1>4, <1>5

LEMMA NodesKilled ==
  ASSUME node \in [Node -> Child], serves \subseteq Node, stale \in [Node -> Nat],
         \A n \in serves : node[n].step \in Linked,
         NEW nodes \in SUBSET Node, Killed(nodes)
  PROVE  /\ node' \in [Node -> Child] /\ stale' \in [Node -> Nat] /\ serves' \subseteq Node
         /\ \A n \in serves' : node'[n].step \in Linked
         /\ \A n \in Node : Alive(n)' => Alive(n)
         /\ \A n \in nodes : ~Alive(n)'
<1>1. \A c \in Child : /\ [c EXCEPT !.step = "failed"] \in Child
                       /\ [c EXCEPT !.step = "failed"].step = "failed"
  BY DEF Child
<1>2. /\ node' = [n \in Node |-> IF n \in nodes /\ Alive(n)
                                 THEN [node[n] EXCEPT !.step = "failed"] ELSE node[n]]
      /\ serves' = serves \ {n \in nodes : Alive(n)}
      /\ stale' \in [Node -> Nat]
  BY DEF Killed, Unlink
<1> QED
  BY <1>1, <1>2, LinkedAreAlive DEF Alive

LEMMA RunFailsAt ==
  ASSUME run \in RunRecord, NEW at \in Steps,
         run' = [run EXCEPT !.result = "failed", !.at = at]
  PROVE  Ends(at, "failed")
BY DEF Ends, RunRecord

LEMMA CarriedOver ==
  ASSUME hub \in HubRecord
  PROVE  Carried \in HubRecord
<1>1. NewHub \in HubRecord
  BY DEF NewHub, HubRecord
<1>2. ASSUME NEW h \in HubRecord, NEW a \in SUBSET Node, NEW d \in SUBSET Node,
             NEW m \in Nat, NEW r \in Nat
      PROVE  [h EXCEPT !.armed = a, !.dropped = d, !.acceptances = m, !.recoveries = r]
               \in HubRecord
  BY DEF HubRecord
<1>3. /\ hub.armed \in SUBSET Node /\ hub.dropped \in SUBSET Node
      /\ hub.acceptances \in Nat /\ hub.recoveries + 1 \in Nat
  BY DEF HubRecord
<1> QED
  BY <1>1, <1>2, <1>3 DEF Carried

\* The chain is initialized, started and stopped.
LEMMA ChainSteps ==
  ASSUME PilotInv, InitializeChain \/ StartChain \/ LoadState \/ PublishRelease \/
                   Install \/ PrepareEnvironment \/ DumpState \/ StopChain
  PROVE  PilotInv'
<1> USE DEF Order, ChainHolds, DataHolds, StaysDown, BeforeTry, Enqueuing, Observing,
            Collecting, Ending, Finalized, Sealed
<1>i. Types /\ Order /\ ChainHolds /\ DataHolds /\ StaysDown
  BY DEF PilotInv
<1>t. /\ run \in RunRecord /\ hub \in HubRecord /\ serves \subseteq Node
      /\ stale \in [Node -> Nat] /\ node \in [Node -> Child] /\ data \in Data
      /\ chain \in [up : BOOLEAN, block : Nat] /\ disk \in Disk
      /\ failures \in 0 .. MaxFailures
  BY <1>i DEF Types
<1>1. CASE InitializeChain
  <2>1. run.at = "initialize" /\ Goes("start_chain")
    BY <1>t, <1>1 DEF InitializeChain, At, Go, Goes, RunRecord, Steps
  <2>2. /\ UNCHANGED <<hub, serves, stale, node, data, chain, failures>>
        /\ disk' \in Disk
        /\ disk'.state = 1
    BY <1>t, <1>1 DEF InitializeChain, Quiet, children, stored, outcome, Disk
  <2> QED
    BY <1>i, <1>t, <2>1, <2>2 DEF PilotInv, Types, Goes, Alive
<1>2. CASE StartChain
  <2>1. \/ run.at = "start_chain" /\ Goes("load_state")
        \/ run.at = "start_chain_again" /\ Goes("load_state_again")
    BY <1>t, <1>2 DEF StartChain, At, Go, Goes, RunRecord, Steps
  <2>2. /\ UNCHANGED <<hub, serves, stale, node, data, disk, failures>>
        /\ chain' \in [up : BOOLEAN, block : Nat] /\ chain'.block = 0
    BY <1>t, <1>2 DEF StartChain, Quiet, children, stored, outcome
  <2> QED
    BY <1>i, <1>t, <2>1, <2>2 DEF PilotInv, Types, Goes, Alive
<1>3. CASE LoadState
  <2>1. \/ run.at = "load_state" /\ Goes("publish_release")
        \/ run.at = "load_state_again" /\ Goes("restart_server")
    BY <1>t, <1>3 DEF LoadState, At, Go, Goes, RunRecord, Steps
  <2>2. /\ UNCHANGED <<hub, serves, stale, node, data, disk, failures>>
        /\ chain' \in [up : BOOLEAN, block : Nat] /\ chain'.block = disk.state
    BY <1>t, <1>3 DEF LoadState, Quiet, children, stored, outcome, Disk
  <2> QED
    BY <1>i, <1>t, <2>1, <2>2 DEF PilotInv, Types, Goes, Alive
<1>4. CASE PublishRelease
  <2>1. run.at = "publish_release" /\ Goes("install")
    BY <1>t, <1>4 DEF PublishRelease, At, Go, Goes, RunRecord, Steps
  <2>2. /\ UNCHANGED <<hub, serves, stale, node, data, disk, failures>>
        /\ chain' \in [up : BOOLEAN, block : Nat] /\ chain'.block = chain.block + 1
        /\ chain'.up = chain.up /\ chain.block \in Nat
    BY <1>t, <1>4 DEF PublishRelease, Quiet, children, stored, outcome, Mined
  <2> QED
    BY <1>i, <1>t, <2>1, <2>2 DEF PilotInv, Types, Goes, Alive
<1>5. CASE Install
  <2>1. run.at = "install" /\ Goes("prepare")
    BY <1>t, <1>5 DEF Install, At, Go, Goes, RunRecord, Steps
  <2>2. UNCHANGED <<hub, serves, stale, node, data, chain, disk, failures>>
    BY <1>t, <1>5 DEF Install, Quiet, children, stored, outcome
  <2> QED
    BY <1>i, <1>t, <2>1, <2>2 DEF PilotInv, Types, Goes, Alive
<1>6. CASE PrepareEnvironment
  <2>1. run.at = "prepare" /\ Goes("session")
    BY <1>t, <1>6 DEF PrepareEnvironment, At, Go, Goes, RunRecord, Steps
  <2>2. /\ UNCHANGED <<serves, stale, node, data, disk, failures>>
        /\ hub' \in HubRecord
        /\ chain' \in [up : BOOLEAN, block : Nat] /\ chain'.block >= chain.block
    BY <1>t, <1>6 DEF PrepareEnvironment, Quiet, children, stored, outcome, Mined,
                      NewHub, HubRecord
  <2> QED
    BY <1>i, <1>t, <2>1, <2>2 DEF PilotInv, Types, Goes, Alive
<1>7. CASE DumpState
  <2>1. run.at = "dump_state" /\ Goes("stop_chain")
    BY <1>t, <1>7 DEF DumpState, At, Go, Goes, RunRecord, Steps
  <2>2. /\ UNCHANGED <<hub, serves, stale, node, data, chain, failures>>
        /\ disk' \in Disk
        /\ disk'.state = chain.block
    BY <1>t, <1>7 DEF DumpState, Quiet, children, stored, outcome, Disk, StateDumped
  <2> QED
    BY <1>i, <1>t, <2>1, <2>2 DEF PilotInv, Types, Goes, Alive
<1>8. CASE StopChain
  <2>1. run.at = "stop_chain" /\ Goes("start_chain_again")
    BY <1>t, <1>8 DEF StopChain, At, Go, Goes, RunRecord, Steps
  <2>2. /\ UNCHANGED <<hub, serves, stale, node, data, disk, failures>>
        /\ chain' \in [up : BOOLEAN, block : Nat] /\ chain'.block = 0 /\ chain'.up = FALSE
    BY <1>t, <1>8 DEF StopChain, Quiet, children, stored, outcome
  <2> QED
    BY <1>i, <1>t, <2>1, <2>2 DEF PilotInv, Types, Goes, Alive
<1> QED
  BY <1>1, <1>2, <1>3, <1>4, <1>5, <1>6, <1>7, <1>8

\* The server is stopped and started again.
LEMMA ServerSteps ==
  ASSUME PilotInv, StopServer \/ RestartServer \/ CloseServer
  PROVE  PilotInv'
<1> USE DEF Order, ChainHolds, DataHolds, StaysDown, BeforeTry, Enqueuing, Observing,
            Collecting, Ending, Finalized, Sealed
<1>i. Types /\ Order /\ ChainHolds /\ DataHolds /\ StaysDown
  BY DEF PilotInv
<1>t. /\ run \in RunRecord /\ hub \in HubRecord /\ serves \subseteq Node
      /\ stale \in [Node -> Nat] /\ node \in [Node -> Child] /\ data \in Data
      /\ chain \in [up : BOOLEAN, block : Nat] /\ disk \in Disk
      /\ failures \in 0 .. MaxFailures
  BY <1>i DEF Types
<1>1. CASE StopServer
  <2>1. \/ run.at = "stop_server" /\ Goes("dump_state")
        \/ run.at = "stop_for_restore" /\ Goes("tamper")
    BY <1>t, <1>1 DEF StopServer, At, Go, Goes, RunRecord, Steps
  <2>2. ServerStops /\ UNCHANGED <<data, chain, disk, failures>>
    BY <1>1 DEF StopServer, Quiet, stored, outcome
  <2>3. /\ hub' \in HubRecord /\ ~hub'.up /\ serves' = {}
        /\ stale' \in [Node -> Nat] /\ node' \in [Node -> Child]
        /\ \A n \in Node : Alive(n)' => Alive(n)
    BY <1>i, <1>t, <2>2, ServerStopped
  <2> QED
    BY <1>i, <1>t, <2>1, <2>2, <2>3 DEF PilotInv, Types, Goes
<1>2. CASE RestartServer
  <2>1. \/ run.at = "restart_server" /\ Goes("restart_nodes")
        \/ run.at = "restart_restored" /\ Goes("accept")
    BY <1>t, <1>2 DEF RestartServer, At, Go, Goes, RunRecord, Steps
  <2>2. UNCHANGED <<serves, stale, node, data, chain, disk, failures>> /\ hub' = Carried
    BY <1>2 DEF RestartServer, Quiet, stored, outcome
  <2>3. hub' \in HubRecord
    BY <1>t, <2>2, CarriedOver
  <2> QED
    BY <1>i, <1>t, <2>1, <2>2, <2>3 DEF PilotInv, Types, Goes, Alive
<1>3. CASE CloseServer
  <2>1. run.at = "close_server" /\ Goes("close_chain")
    BY <1>t, <1>3 DEF CloseServer, At, Go, Goes, RunRecord, Steps
  <2>2. ServerStops /\ UNCHANGED <<data, chain, disk, failures>>
    BY <1>3 DEF CloseServer, Quiet, outcome
  <2>3. /\ hub' \in HubRecord /\ ~hub'.up /\ serves' = {}
        /\ stale' \in [Node -> Nat] /\ node' \in [Node -> Child]
        /\ \A n \in Node : Alive(n)' => Alive(n)
    BY <1>i, <1>t, <2>2, ServerStopped
  <2> QED
    BY <1>i, <1>t, <2>1, <2>2, <2>3 DEF PilotInv, Types, Goes
<1> QED
  BY <1>1, <1>2, <1>3

\* The session is opened, observed and sealed.
LEMMA SessionSteps ==
  ASSUME PilotInv, CreateSession \/ StartDelayed \/ StartActive \/ NextActive \/
                   AwaitLink \/ PostTask \/ AwaitAcceptance \/ KillNodes \/
                   AwaitGone \/ Publish \/ RestartNodes \/ AwaitReconnected \/
                   CloseSession \/ FinalizeEvidence
  PROVE  PilotInv'
<1> USE DEF Order, ChainHolds, DataHolds, StaysDown, BeforeTry, Enqueuing, Observing,
            Collecting, Ending, Finalized, Sealed
<1>i. Types /\ Order /\ ChainHolds /\ DataHolds /\ StaysDown
  BY DEF PilotInv
<1>t. /\ run \in RunRecord /\ hub \in HubRecord /\ serves \subseteq Node
      /\ stale \in [Node -> Nat] /\ node \in [Node -> Child] /\ data \in Data
      /\ chain \in [up : BOOLEAN, block : Nat] /\ disk \in Disk
      /\ failures \in 0 .. MaxFailures
  BY <1>i DEF Types
<1>1. CASE CreateSession
  <2>1. \/ run.at = "session" /\ Goes("start_delayed")
        \/ run.at = "session" /\ Goes("start_active")
    BY <1>t, <1>1 DEF CreateSession, At, Go, Goes, RunRecord, Steps
  <2>2. /\ UNCHANGED <<hub, serves, stale, node, chain, disk, failures>>
        /\ data' \in Data /\ data'.events = data.events
        /\ data'.session = "live" /\ data'.probe = data.probe
    BY <1>t, <1>1 DEF CreateSession, Quiet, children, stored, outcome, Data
  <2> QED
    BY <1>i, <1>t, <2>1, <2>2 DEF PilotInv, Types, Goes, Alive
<1>2. CASE StartDelayed
  <2>1. run.at = "start_delayed" /\ Enqueues("kill_delayed")
    BY ZenonT(30), <1>t, <1>2 DEF StartDelayed, At, Go, Goes, Enqueue, Enqueues, RunRecord, Steps,
                      Node
  <2>2. /\ UNCHANGED <<hub, serves, stale, data, chain, disk, failures>>
        /\ node' = SpawnedIn({Delayed}, "observe")
    BY <1>t, <1>2 DEF StartDelayed, Quiet, children, stored, outcome, Start
  <2>3. /\ node' \in [Node -> Child]
        /\ \A n \in serves : node'[n].step \in Linked
    BY <1>i, <1>t, <2>2, Spawned
  <2> QED
    BY <1>i, <1>t, <2>1, <2>2, <2>3 DEF PilotInv, Types, Goes, Enqueues, Alive
<1>3. CASE StartActive
  <2>1. run.at = "start_active" /\ Goes("next_active")
    BY <1>t, <1>3 DEF StartActive, At, Go, Goes, RunRecord, Steps, Node
  <2>2. /\ UNCHANGED <<hub, serves, stale, data, chain, disk, failures>>
        /\ node' = SpawnedIn(Active, "observe")
    BY <1>t, <1>3 DEF StartActive, Quiet, children, stored, outcome, Start
  <2>3. /\ node' \in [Node -> Child]
        /\ \A n \in serves : node'[n].step \in Linked
    BY <1>i, <1>t, <2>2, Spawned
  <2> QED
    BY <1>i, <1>t, <2>1, <2>2, <2>3 DEF PilotInv, Types, Goes, Alive
<1>4. CASE NextActive
  <2>1. /\ run.at = "next_active"
        /\ \/ Go("publish")
           \/ \E n \in run.todo :
                run' = [Enqueue(n, "observe", "next_active") EXCEPT !.todo = @ \ {n}]
    BY <1>4 DEF NextActive, At, Go
  <2>2. run.todo \subseteq Node
    BY <1>t DEF RunRecord
  <2>3. "publish" \in Steps /\ "next_active" \in Steps
    BY DEF Steps
  <2>4. Goes("publish") \/ Enqueues("next_active")
    BY <1>t, <2>1, <2>2, <2>3, RunGoes, RunEnqueues
  <2>5. UNCHANGED <<hub, serves, stale, node, data, chain, disk, failures>>
    BY <1>4 DEF NextActive, Quiet, children, stored, outcome
  <2> QED
    BY <1>i, <1>t, <2>1, <2>4, <2>5 DEF PilotInv, Types, Goes, Enqueues, Alive
<1>5. CASE AwaitLink
  <2>1. run.at = "await_link" /\ Goes("post_task")
    BY <1>t, <1>5 DEF AwaitLink, At, Go, Goes, RunRecord, Steps
  <2>2. UNCHANGED <<hub, serves, stale, node, data, chain, disk, failures>>
    BY <1>t, <1>5 DEF AwaitLink, Quiet, children, stored, outcome
  <2> QED
    BY <1>i, <1>t, <2>1, <2>2 DEF PilotInv, Types, Goes, Alive
<1>6. CASE PostTask
  <2>1. run.at = "post_task" /\ Goes("await_acceptance")
    BY <1>t, <1>6 DEF PostTask, At, Go, Goes, RunRecord, Steps
  <2>2. /\ UNCHANGED <<hub, serves, stale, node, chain, disk, failures>>
        /\ data' = [data EXCEPT !.rows[<<run.who, run.kind>>] = "queued"]
    BY <1>6 DEF PostTask, Quiet, children, outcome
  <2>3. <<run.who, run.kind>> \in Task
    BY <1>t DEF RunRecord, Task
  <2>4. data' \in Data
    BY <1>t, <2>2, <2>3, RowsKept
  <2>5. /\ data'.events = data.events /\ data'.session = data.session
        /\ data'.probe = data.probe
    BY <1>t, <2>2 DEF Data
  <2> QED
    BY <1>i, <1>t, <2>1, <2>2, <2>4, <2>5 DEF PilotInv, Types, Goes, Alive
<1>7. CASE AwaitAcceptance
  <2>1. run.at = "await_acceptance" /\ Goes(run.then)
    BY <1>t, <1>7 DEF AwaitAcceptance, At, Go, Goes, RunRecord, Steps
  <2>2. UNCHANGED <<hub, serves, stale, node, data, chain, disk, failures>>
    BY <1>t, <1>7 DEF AwaitAcceptance, Quiet, children, stored, outcome
  <2> QED
    BY <1>i, <1>t, <2>1, <2>2 DEF PilotInv, Types, Goes, Alive
<1>8. CASE KillNodes
  <2>1. \/ run.at = "kill_delayed" /\ Goes("await_delayed_gone")
        \/ run.at = "kill_active" /\ Goes("await_active_gone")
    BY <1>t, <1>8 DEF KillNodes, At, Go, Goes, RunRecord, Steps
  <2>2. /\ UNCHANGED <<hub, data, chain, disk, failures>>
        /\ Killed({Delayed}) \/ Killed(Active)
    BY <1>8 DEF KillNodes, Quiet, stored, outcome
  <2>3. {Delayed} \subseteq Node /\ Active \subseteq Node
    BY DEF Node
  <2>4. /\ node' \in [Node -> Child] /\ stale' \in [Node -> Nat] /\ serves' \subseteq Node
        /\ \A n \in serves' : node'[n].step \in Linked
        /\ \A n \in Node : Alive(n)' => Alive(n)
    BY <1>i, <1>t, <2>2, <2>3, NodesKilled
  <2> QED
    BY <1>i, <1>t, <2>1, <2>2, <2>4 DEF PilotInv, Types, Goes
<1>9. CASE AwaitGone
  <2>1. \/ run.at = "await_delayed_gone" /\ Goes("start_active")
        \/ run.at = "await_active_gone" /\ Goes("stop_server")
    BY <1>t, <1>9 DEF AwaitGone, At, Go, Goes, RunRecord, Steps
  <2>2. UNCHANGED <<hub, serves, stale, node, data, chain, disk, failures>>
    BY <1>t, <1>9 DEF AwaitGone, Quiet, children, stored, outcome
  <2> QED
    BY <1>i, <1>t, <2>1, <2>2 DEF PilotInv, Types, Goes, Alive
<1>10. CASE Publish
  <2>1. /\ run.at = "publish"
        /\ \/ data.events < EventCount /\ (Goes("kill_active") \/ Goes("publish"))
           \/ ~(data.events < EventCount) /\ Goes("close")
    BY <1>t, <1>10 DEF Publish, At, Go, Goes, RunRecord, Steps
  <2>2. /\ UNCHANGED <<serves, stale, node, chain, disk, failures>>
        /\ \/ /\ data.events < EventCount
              /\ data' = [data EXCEPT !.events = @ + 1]
              /\ hub' = hub
           \/ /\ hub' = hub \/ hub' = [hub EXCEPT !.armed = @ \cup Node]
              /\ data' = data
    BY <1>10 DEF Publish, Quiet, outcome
  <2>3. hub' \in HubRecord /\ hub'.up = hub.up
    BY <1>t, <2>2 DEF HubRecord
  <2>4. /\ data' \in Data /\ data'.session = data.session /\ data'.probe = data.probe
        /\ \/ data.events < EventCount /\ data'.events = data.events + 1
           \/ data' = data
    BY <1>t, <2>2 DEF Data
  <2>5. data.events \in Nat
    BY <1>t DEF Data
  <2> QED
    BY <1>i, <1>t, <2>1, <2>2, <2>3, <2>4, <2>5 DEF PilotInv, Types, Goes, Alive
<1>11. CASE RestartNodes
  <2>1. run.at = "restart_nodes" /\ Goes("await_reconnected")
    BY <1>t, <1>11 DEF RestartNodes, At, Go, Goes, RunRecord, Steps
  <2>2. /\ UNCHANGED <<hub, serves, stale, data, chain, disk, failures>>
        /\ node' = SpawnedIn(Active, "observe")
    BY <1>t, <1>11 DEF RestartNodes, Quiet, children, stored, outcome, Start
  <2>3. /\ node' \in [Node -> Child]
        /\ \A n \in serves : node'[n].step \in Linked
    BY <1>i, <1>t, <2>2, Spawned
  <2> QED
    BY <1>i, <1>t, <2>1, <2>2, <2>3 DEF PilotInv, Types, Goes, Alive
<1>12. CASE AwaitReconnected
  <2>1. run.at = "await_reconnected" /\ Goes("publish")
    BY <1>t, <1>12 DEF AwaitReconnected, At, Go, Goes, RunRecord, Steps
  <2>2. UNCHANGED <<hub, serves, stale, node, data, chain, disk, failures>>
    BY <1>t, <1>12 DEF AwaitReconnected, Quiet, children, stored, outcome
  <2> QED
    BY <1>i, <1>t, <2>1, <2>2 DEF PilotInv, Types, Goes, Alive
<1>13. CASE CloseSession
  <2>1. run.at = "close" /\ Goes("finalize")
    BY <1>t, <1>13 DEF CloseSession, At, Go, Goes, RunRecord, Steps
  <2>2. /\ UNCHANGED <<hub, serves, stale, node, chain, disk, failures>>
        /\ data' \in Data /\ data'.events = data.events
        /\ data'.session = "closed" /\ data'.probe = data.probe
    BY <1>t, <1>13 DEF CloseSession, Quiet, children, stored, outcome, Data
  <2> QED
    BY <1>i, <1>t, <2>1, <2>2 DEF PilotInv, Types, Goes, Alive
<1>14. CASE FinalizeEvidence
  <2>1. run.at = "finalize" /\ Goes("gather_observers")
    BY <1>t, <1>14 DEF FinalizeEvidence, At, Go, Goes, RunRecord, Steps
  <2>2. /\ UNCHANGED <<hub, serves, stale, node, chain, disk, failures>>
        /\ data' \in Data /\ data'.events = data.events
        /\ data'.session = "sealed" /\ data'.probe = data.probe
    BY <1>t, <1>14 DEF FinalizeEvidence, Quiet, children, stored, outcome, Data
  <2> QED
    BY <1>i, <1>t, <2>1, <2>2 DEF PilotInv, Types, Goes, Alive
<1> QED
  BY <1>1, <1>2, <1>3, <1>4, <1>5, <1>6, <1>7, <1>8, <1>9, <1>10, <1>11, <1>12, <1>13, <1>14

\* The nodes are collected, review, and vote.
LEMMA ReviewSteps ==
  ASSUME PilotInv, GatherObservers \/ CollectActive \/ StartDelayedAgain \/
                   CollectDelayed \/ AwaitAllGone \/ ProveLosses \/ NextReview \/
                   CollectReview \/ Propose \/ BatchVote
  PROVE  PilotInv'
<1> USE DEF Order, ChainHolds, DataHolds, StaysDown, BeforeTry, Enqueuing, Observing,
            Collecting, Ending, Finalized, Sealed
<1>i. Types /\ Order /\ ChainHolds /\ DataHolds /\ StaysDown
  BY DEF PilotInv
<1>t. /\ run \in RunRecord /\ hub \in HubRecord /\ serves \subseteq Node
      /\ stale \in [Node -> Nat] /\ node \in [Node -> Child] /\ data \in Data
      /\ chain \in [up : BOOLEAN, block : Nat] /\ disk \in Disk
      /\ failures \in 0 .. MaxFailures
  BY <1>i DEF Types
<1>1. CASE GatherObservers
  <2>1. run.at = "gather_observers" /\ (Goes("collect_active") \/ Ends("kill_all", "failed"))
    BY <1>t, <1>1, RunFails DEF GatherObservers, At, Go, Goes, RunRecord, Steps
  <2>2. UNCHANGED <<hub, serves, stale, node, data, chain, disk, failures>>
    BY <1>t, <1>1 DEF GatherObservers, Quiet, children, stored, outcome
  <2> QED
    BY <1>i, <1>t, <2>1, <2>2 DEF PilotInv, Types, Goes, Ends, Alive
<1>2. CASE CollectActive
  <2>1. run.at = "collect_active" /\ (Goes("start_delayed_again") \/ Ends("kill_all", "failed"))
    BY <1>t, <1>2, RunFails DEF CollectActive, At, Go, Goes, Collect, RunRecord, Steps
  <2>2. UNCHANGED <<hub, serves, stale, node, data, chain, disk, failures>>
    BY <1>t, <1>2 DEF CollectActive, Quiet, children, stored, outcome, Collect
  <2> QED
    BY <1>i, <1>t, <2>1, <2>2 DEF PilotInv, Types, Goes, Ends, Alive
<1>3. CASE StartDelayedAgain
  <2>1. /\ run.at = "start_delayed_again"
        /\ \/ Go("collect_delayed")
           \/ run' = Enqueue(Delayed, "observe", "collect_delayed")
    BY <1>3 DEF StartDelayedAgain, At, Go
  <2>2. Delayed \in Node /\ "collect_delayed" \in Steps
    BY DEF Node, Steps
  <2>3. Goes("collect_delayed") \/ Enqueues("collect_delayed")
    BY <1>t, <2>1, <2>2, RunGoes, RunEnqueues
  <2>4. /\ UNCHANGED <<hub, serves, stale, data, chain, disk, failures>>
        /\ node' = SpawnedIn({Delayed}, "observe")
    BY <1>3 DEF StartDelayedAgain, Start, Quiet, stored, outcome
  <2>5. /\ node' \in [Node -> Child]
        /\ \A n \in serves : node'[n].step \in Linked
    BY <1>i, <1>t, <2>4, Spawned
  <2> QED
    BY <1>i, <1>t, <2>1, <2>3, <2>4, <2>5 DEF PilotInv, Types, Goes, Enqueues, Alive
<1>4. CASE CollectDelayed
  <2>1. run.at = "collect_delayed" /\ (Goes("await_all_gone") \/ Ends("kill_all", "failed"))
    BY <1>t, <1>4, RunFails DEF CollectDelayed, At, Go, Goes, Collect, RunRecord, Steps
  <2>2. UNCHANGED <<hub, serves, stale, node, data, chain, disk, failures>>
    BY <1>t, <1>4 DEF CollectDelayed, Quiet, children, stored, outcome, Collect
  <2> QED
    BY <1>i, <1>t, <2>1, <2>2 DEF PilotInv, Types, Goes, Ends, Alive
<1>5. CASE AwaitAllGone
  <2>1. run.at = "await_all_gone" /\ Goes("prove_losses")
    BY <1>t, <1>5 DEF AwaitAllGone, At, Go, Goes, RunRecord, Steps
  <2>2. UNCHANGED <<hub, serves, stale, node, data, chain, disk, failures>>
    BY <1>t, <1>5 DEF AwaitAllGone, Quiet, children, stored, outcome
  <2> QED
    BY <1>i, <1>t, <2>1, <2>2 DEF PilotInv, Types, Goes, Alive
<1>6. CASE ProveLosses
  <2>1. /\ run.at = "prove_losses"
        /\ run' = [run EXCEPT !.at = "next_review", !.todo = Node] \/ Raise
    BY <1>6 DEF ProveLosses, At
  <2>2. "next_review" \in Steps
    BY DEF Steps
  <2>3. Goes("next_review") \/ Ends("kill_all", "failed")
    BY <1>t, <2>1, <2>2, RunGoes, RunFails
  <2>4. UNCHANGED <<hub, serves, stale, node, data, chain, disk, failures>>
    BY <1>6 DEF ProveLosses, children, stored
  <2> QED
    BY <1>i, <1>t, <2>1, <2>3, <2>4 DEF PilotInv, Types, Goes, Ends, Alive
<1>7. CASE NextReview
  <2>1. /\ run.at = "next_review"
        /\ \/ (Goes("propose") \/ Goes("snapshot_chain")) /\ node' = node
           \/ \E n \in Node :
                /\ node' = SpawnedIn({n}, "review")
                /\ run' = [Enqueue(n, "review", "collect_review") EXCEPT !.todo = @ \ {n}]
    BY ZenonT(40), <1>t, <1>7 DEF NextReview, At, Go, Goes, RunRecord, Steps
  <2>2. UNCHANGED <<hub, serves, stale, data, chain, disk, failures>>
    BY <1>7 DEF NextReview, Quiet, stored, outcome
  <2>3. ASSUME NEW n \in Node, node' = SpawnedIn({n}, "review"),
               run' = [Enqueue(n, "review", "collect_review") EXCEPT !.todo = @ \ {n}]
        PROVE  PilotInv'
    <3>1. "collect_review" \in Steps
      BY DEF Steps
    <3>2. Enqueues("collect_review")
      BY <1>t, <2>3, <3>1, RunEnqueues
    <3>3. /\ node' \in [Node -> Child]
          /\ \A m \in serves : node'[m].step \in Linked
      BY <1>i, <1>t, <2>3, Spawned
    <3> QED
      BY <1>i, <1>t, <2>1, <2>2, <3>2, <3>3 DEF PilotInv, Types, Enqueues, Alive
  <2>4. CASE (Goes("propose") \/ Goes("snapshot_chain")) /\ node' = node
    BY <1>i, <1>t, <2>1, <2>2, <2>4 DEF PilotInv, Types, Goes, Alive
  <2> QED
    BY <2>1, <2>3, <2>4
<1>8. CASE CollectReview
  <2>1. run.at = "collect_review" /\ (Goes("next_review") \/ Ends("kill_all", "failed"))
    BY <1>t, <1>8, RunFails DEF CollectReview, At, Go, Goes, Collect, RunRecord, Steps
  <2>2. UNCHANGED <<hub, serves, stale, node, data, chain, disk, failures>>
    BY <1>t, <1>8 DEF CollectReview, Quiet, children, stored, outcome, Collect
  <2> QED
    BY <1>i, <1>t, <2>1, <2>2 DEF PilotInv, Types, Goes, Ends, Alive
<1>9. CASE Propose
  <2>1. run.at = "propose" /\ Goes("vote")
    BY <1>t, <1>9 DEF Propose, At, Go, Goes, RunRecord, Steps
  <2>2. /\ UNCHANGED <<hub, serves, stale, node, data, disk, failures>>
        /\ chain' \in [up : BOOLEAN, block : Nat] /\ chain'.block = chain.block + 2
        /\ chain'.up = chain.up /\ chain.block \in Nat
    BY <1>t, <1>9 DEF Propose, Quiet, children, stored, outcome, Mined
  <2> QED
    BY <1>i, <1>t, <2>1, <2>2 DEF PilotInv, Types, Goes, Alive
<1>10. CASE BatchVote
  <2>1. run.at = "vote" /\ Goes("snapshot_chain")
    BY <1>t, <1>10 DEF BatchVote, At, Go, Goes, RunRecord, Steps
  <2>2. /\ UNCHANGED <<hub, serves, stale, node, data, disk, failures>>
        /\ chain' \in [up : BOOLEAN, block : Nat] /\ chain'.block = chain.block + 1
        /\ chain'.up = chain.up /\ chain.block \in Nat
    BY <1>t, <1>10 DEF BatchVote, Quiet, children, stored, outcome, Mined
  <2> QED
    BY <1>i, <1>t, <2>1, <2>2 DEF PilotInv, Types, Goes, Alive
<1> QED
  BY <1>1, <1>2, <1>3, <1>4, <1>5, <1>6, <1>7, <1>8, <1>9, <1>10

\* Everything is restored from a snapshot, and the run accepted.
LEMMA RestoreSteps ==
  ASSUME PilotInv, SnapshotChain \/ CreateSnapshot \/ Tamper \/ RestoreSnapshot \/
                   RestoreChain \/ CheckProbes \/ Accepted
  PROVE  PilotInv'
<1> USE DEF Order, ChainHolds, DataHolds, StaysDown, BeforeTry, Enqueuing, Observing,
            Collecting, Ending, Finalized, Sealed
<1>i. Types /\ Order /\ ChainHolds /\ DataHolds /\ StaysDown
  BY DEF PilotInv
<1>t. /\ run \in RunRecord /\ hub \in HubRecord /\ serves \subseteq Node
      /\ stale \in [Node -> Nat] /\ node \in [Node -> Child] /\ data \in Data
      /\ chain \in [up : BOOLEAN, block : Nat] /\ disk \in Disk
      /\ failures \in 0 .. MaxFailures
  BY <1>i DEF Types
<1>1. CASE SnapshotChain
  <2>1. run.at = "snapshot_chain" /\ Goes("create_snapshot")
    BY <1>t, <1>1 DEF SnapshotChain, At, Go, Goes, RunRecord, Steps
  <2>2. /\ UNCHANGED <<hub, serves, stale, node, data, chain, failures>>
        /\ disk' \in Disk
        /\ disk'.dump = chain.block
    BY <1>t, <1>1 DEF SnapshotChain, Quiet, children, stored, outcome, Disk, StateDumped
  <2> QED
    BY <1>i, <1>t, <2>1, <2>2 DEF PilotInv, Types, Goes, Alive
<1>2. CASE CreateSnapshot
  <2>1. run.at = "create_snapshot" /\ Goes("stop_for_restore")
    BY <1>t, <1>2 DEF CreateSnapshot, At, Go, Goes, RunRecord, Steps
  <2>2. /\ UNCHANGED <<hub, serves, stale, node, data, chain, failures>>
        /\ disk' \in Disk
        /\ disk'.dump = disk.dump
        /\ disk'.snapshot.events = data.events
        /\ disk'.snapshot.session = data.session /\ ~disk'.snapshot.probe
    BY <1>t, <1>2 DEF CreateSnapshot, Quiet, children, stored, outcome, Disk, Data
  <2> QED
    BY <1>i, <1>t, <2>1, <2>2 DEF PilotInv, Types, Goes, Alive
<1>3. CASE Tamper
  <2>1. run.at = "tamper" /\ Goes("restore")
    BY <1>t, <1>3 DEF Tamper, At, Go, Goes, RunRecord, Steps
  <2>2. /\ UNCHANGED <<hub, serves, stale, node, failures>>
        /\ data' = [data EXCEPT !.probe = TRUE]
        /\ chain' = [chain EXCEPT !.block = @ + 1]
        /\ disk' = [disk EXCEPT !.probeBlock = chain.block + 1]
    BY <1>3 DEF Tamper, Mined, Quiet, children, outcome
  <2>3. /\ data' \in Data /\ data'.events = data.events /\ data'.session = data.session
    BY <1>t, <2>2 DEF Data
  <2>4. /\ chain' \in [up : BOOLEAN, block : Nat] /\ chain.block \in Nat
        /\ chain'.block = chain.block + 1
    BY <1>t, <2>2
  <2>5. disk' \in Disk /\ disk'.dump = disk.dump /\ disk'.snapshot = disk.snapshot
    BY <1>t, <2>2, <2>4 DEF Disk
  <2> QED
    BY <1>i, <1>t, <2>1, <2>2, <2>3, <2>4, <2>5 DEF PilotInv, Types, Goes, Alive
<1>4. CASE RestoreSnapshot
  <2>1. run.at = "restore" /\ Goes("restore_chain")
    BY <1>t, <1>4 DEF RestoreSnapshot, At, Go, Goes, RunRecord, Steps
  <2>2. /\ UNCHANGED <<hub, serves, stale, node, chain, disk, failures>>
        /\ data' = disk.snapshot /\ data' \in Data
    BY <1>t, <1>4 DEF RestoreSnapshot, Quiet, children, stored, outcome, Disk
  <2> QED
    BY <1>i, <1>t, <2>1, <2>2 DEF PilotInv, Types, Goes, Alive
<1>5. CASE RestoreChain
  <2>1. run.at = "restore_chain" /\ Goes("check_probes")
    BY <1>t, <1>5 DEF RestoreChain, At, Go, Goes, RunRecord, Steps
  <2>2. /\ UNCHANGED <<hub, serves, stale, node, data, failures>>
        /\ disk' \in Disk
        /\ chain' \in [up : BOOLEAN, block : Nat] /\ chain'.block = disk.dump
    BY <1>t, <1>5 DEF RestoreChain, Quiet, children, stored, outcome, BlockRestored,
                      Disk
  <2> QED
    BY <1>i, <1>t, <2>1, <2>2 DEF PilotInv, Types, Goes, Alive
<1>6. CASE CheckProbes
  <2>1. run.at = "check_probes" /\ (Goes("restart_restored") \/ Ends("kill_all", "failed"))
    BY <1>t, <1>6, RunFails DEF CheckProbes, At, Go, Goes, RunRecord, Steps
  <2>2. UNCHANGED <<hub, serves, stale, node, data, chain, disk, failures>>
    BY <1>t, <1>6 DEF CheckProbes, Quiet, children, stored, outcome
  <2> QED
    BY <1>i, <1>t, <2>1, <2>2 DEF PilotInv, Types, Goes, Ends, Alive
<1>7. CASE Accepted
  <2>1. run.at = "accept" /\ Ends("kill_all", "passed")
    BY ZenonT(40), <1>t, <1>7 DEF Accepted, At, Go, Goes, Ends, RunRecord, Steps
  <2>2. /\ UNCHANGED <<hub, serves, stale, node, data, disk, failures>>
        /\ chain' \in [up : BOOLEAN, block : Nat] /\ chain'.block = chain.block + 1
        /\ chain'.up = chain.up /\ chain.block \in Nat
    BY <1>t, <1>7 DEF Accepted, Quiet, children, stored, outcome, Mined
  <2> QED
    BY <1>i, <1>t, <2>1, <2>2 DEF PilotInv, Types, Goes, Ends, Alive
<1> QED
  BY <1>1, <1>2, <1>3, <1>4, <1>5, <1>6, <1>7

\* The run fails, and the finally blocks stop everything.
LEMMA EndSteps ==
  ASSUME PilotInv, WaitExpires \/ KillAll \/ CloseChain \/ StepFails
  PROVE  PilotInv'
<1> USE DEF Order, ChainHolds, DataHolds, StaysDown, BeforeTry, Enqueuing, Observing,
            Collecting, Ending, Finalized, Sealed
<1>i. Types /\ Order /\ ChainHolds /\ DataHolds /\ StaysDown
  BY DEF PilotInv
<1>t. /\ run \in RunRecord /\ hub \in HubRecord /\ serves \subseteq Node
      /\ stale \in [Node -> Nat] /\ node \in [Node -> Child] /\ data \in Data
      /\ chain \in [up : BOOLEAN, block : Nat] /\ disk \in Disk
      /\ failures \in 0 .. MaxFailures
  BY <1>i DEF Types
<1>1. CASE WaitExpires
  <2>1. run.at \in Waits /\ Ends("kill_all", "failed")
    BY <1>t, <1>1, RunFails DEF WaitExpires, At, Go, Goes, RunRecord, Steps
  <2>2. UNCHANGED <<hub, serves, stale, node, data, chain, disk, failures>>
    BY <1>t, <1>1 DEF WaitExpires, Quiet, children, stored, outcome
  <2> QED
    BY <1>i, <1>t, <2>1, <2>2 DEF PilotInv, Types, Goes, Ends, Waits, Alive
<1>2. CASE KillAll
  <2>1. run.at = "kill_all" /\ Goes("close_server")
    BY <1>t, <1>2 DEF KillAll, At, Go, Goes, RunRecord, Steps
  <2>2. UNCHANGED <<hub, data, chain, disk, failures>> /\ Killed(Node)
    BY <1>2 DEF KillAll, Started, Quiet, stored, outcome
  <2>3. /\ node' \in [Node -> Child] /\ stale' \in [Node -> Nat] /\ serves' \subseteq Node
        /\ \A n \in serves' : node'[n].step \in Linked
        /\ \A n \in Node : ~Alive(n)'
    BY <1>i, <1>t, <2>2, NodesKilled
  <2> QED
    BY <1>i, <1>t, <2>1, <2>2, <2>3 DEF PilotInv, Types, Goes
<1>3. CASE CloseChain
  <2>1. run.at = "close_chain" /\ Goes("ended")
    BY <1>t, <1>3 DEF CloseChain, At, Go, Goes, RunRecord, Steps
  <2>2. /\ UNCHANGED <<hub, serves, stale, node, data, disk, failures>>
        /\ chain' \in [up : BOOLEAN, block : Nat] /\ chain'.block = 0 /\ chain'.up = FALSE
    BY <1>t, <1>3 DEF CloseChain, Quiet, children, stored, outcome
  <2> QED
    BY <1>i, <1>t, <2>1, <2>2 DEF PilotInv, Types, Goes, Alive
<1>4. CASE StepFails
  <2>1. /\ run.at \notin Ending
        /\ run' = [run EXCEPT !.result = "failed",
                              !.at = CASE run.at \in BeforeTry -> "ended"
                                       [] run.at = "prepare"   -> "close_chain"
                                       [] OTHER                -> "kill_all"]
    BY <1>4 DEF StepFails, At
  <2>2. /\ run.at \in BeforeTry => Ends("ended", "failed")
        /\ run.at = "prepare" => Ends("close_chain", "failed")
        /\ run.at \notin BeforeTry \cup {"prepare"} => Ends("kill_all", "failed")
    <3>1. CASE run.at \in BeforeTry
      <4>1. run' = [run EXCEPT !.result = "failed", !.at = "ended"]
        BY <2>1, <3>1
      <4>2. "ended" \in Steps
        BY DEF Steps
      <4>3. Ends("ended", "failed")
        BY <1>t, <4>1, <4>2, RunFailsAt
      <4> QED
        BY <3>1, <4>3
    <3>2. CASE run.at = "prepare"
      <4>1. run' = [run EXCEPT !.result = "failed", !.at = "close_chain"]
        BY <2>1, <3>2
      <4>2. "close_chain" \in Steps
        BY DEF Steps
      <4>3. Ends("close_chain", "failed")
        BY <1>t, <4>1, <4>2, RunFailsAt
      <4> QED
        BY <3>2, <4>3
    <3>3. CASE run.at \notin BeforeTry \cup {"prepare"}
      <4>1. run' = [run EXCEPT !.result = "failed", !.at = "kill_all"]
        BY <2>1, <3>3
      <4>2. "kill_all" \in Steps
        BY DEF Steps
      <4>3. Ends("kill_all", "failed")
        BY <1>t, <4>1, <4>2, RunFailsAt
      <4> QED
        BY <3>3, <4>3
    <3> QED
      BY <3>1, <3>2, <3>3
  <2>3. /\ UNCHANGED <<hub, serves, stale, node, data, disk>>
        /\ failures < MaxFailures /\ failures' = failures + 1
        /\ \/ chain' = chain
           \/ /\ run.at \in (BeforeTry \ {"install"}) \cup {"load_state_again"}
              /\ chain' = [up |-> FALSE, block |-> 0]
    BY <1>4 DEF StepFails, Failure, children
  <2>4. /\ chain' \in [up : BOOLEAN, block : Nat]
        /\ chain' = chain \/ run.at \in (BeforeTry \ {"install"}) \cup {"load_state_again"}
    <3>1. [up |-> FALSE, block |-> 0] \in [up : BOOLEAN, block : Nat]
      OBVIOUS
    <3> QED
      BY <1>t, <2>3, <3>1
  <2>5. failures' \in 0 .. MaxFailures
    BY <1>t, <2>3
  <2> QED
    BY <1>i, <1>t, <2>1, <2>2, <2>3, <2>4, <2>5 DEF PilotInv, Types, Ends, Alive
<1> QED
  BY <1>1, <1>2, <1>3, <1>4

\* The observers disturb nothing.
LEMMA ObserverSteps ==
  ASSUME PilotInv, NEW o \in Observer, ObserverStep(o)
  PROVE  PilotInv'
<1>1. UNCHANGED <<run, hub, serves, stale, node, data, chain, disk, failures>>
  BY DEF ObserverStep, StreamEnds, ReadSession, children, outcome
<1> QED
  BY <1>1 DEF PilotInv, Types, Order, ChainHolds, DataHolds, StaysDown, Sealed, Alive

-----------------------------------------------------------------------------
(* The theorems                                                            *)

LEMMA PilotStarts ==
  ASSUME Init
  PROVE  PilotInv
<1> USE DEF Init
<1>1. Delayed \in Node
  BY DEF Node
<1>2. NoData \in Data /\ NoData.events = 0 /\ NoData.session = "none" /\ ~NoData.probe
  BY DEF NoData, Data, Rows
<1>3. run \in RunRecord /\ run.at = "initialize" /\ run.result = "none"
  BY <1>1 DEF RunRecord, Steps
<1>4. hub \in HubRecord /\ ~hub.up
  BY DEF NewHub, HubRecord
<1>5. node \in [Node -> Child] /\ \A n \in Node : ~Alive(n)
  BY DEF NoChild, Child, Alive
<1>6. disk \in Disk
  BY <1>2 DEF Disk
<1>7. Types
  BY <1>2, <1>3, <1>4, <1>5, <1>6 DEF Types
<1>8. Order /\ ChainHolds
  BY <1>2, <1>3, <1>4 DEF Order, ChainHolds, Enqueuing, BeforeTry, Ending
<1>9. DataHolds /\ StaysDown
  BY <1>2, <1>3 DEF DataHolds, StaysDown, Finalized, Enqueuing, Collecting
<1> QED
  BY <1>7, <1>8, <1>9 DEF PilotInv

LEMMA PilotSteps ==
  ASSUME PilotInv, [Next]_vars
  PROVE  PilotInv'
<1>1. CASE RunStep
  <2>1. CASE InitializeChain \/ StartChain \/ LoadState \/ PublishRelease \/
             Install \/ PrepareEnvironment \/ DumpState \/ StopChain
    BY <2>1, ChainSteps
  <2>2. CASE StopServer \/ RestartServer \/ CloseServer
    BY <2>2, ServerSteps
  <2>3. CASE CreateSession \/ StartDelayed \/ StartActive \/ NextActive \/
             AwaitLink \/ PostTask \/ AwaitAcceptance \/ KillNodes \/ AwaitGone \/
             Publish \/ RestartNodes \/ AwaitReconnected \/ CloseSession \/
             FinalizeEvidence
    BY <2>3, SessionSteps
  <2>4. CASE GatherObservers \/ CollectActive \/ StartDelayedAgain \/
             CollectDelayed \/ AwaitAllGone \/ ProveLosses \/ NextReview \/
             CollectReview \/ Propose \/ BatchVote
    BY <2>4, ReviewSteps
  <2>5. CASE SnapshotChain \/ CreateSnapshot \/ Tamper \/ RestoreSnapshot \/
             RestoreChain \/ CheckProbes \/ Accepted
    BY <2>5, RestoreSteps
  <2>6. CASE WaitExpires \/ KillAll \/ CloseChain
    BY <2>6, EndSteps
  <2> QED
    BY <1>1, <2>1, <2>2, <2>3, <2>4, <2>5, <2>6 DEF RunStep
<1>2. CASE StepFails
  BY <1>2, EndSteps
<1>3. CASE \E n \in Node : \/ NodeStep(n) \/ HandlerEnds(n)
                           \/ ConnectionBreaks(n) \/ NodeFails(n)
  BY <1>3, NodeSteps
<1>4. CASE \E o \in Observer : ObserverStep(o)
  BY <1>4, ObserverSteps
<1>5. CASE UNCHANGED vars
  BY <1>5 DEF vars, PilotInv, Types, Order, ChainHolds, DataHolds, StaysDown, Sealed, Alive
<1> QED
  BY <1>1, <1>2, <1>3, <1>4, <1>5 DEF Next

\* The inductive invariant holds in every state of a run.
THEOREM PilotInvariant == Spec => []PilotInv
BY PilotStarts, PilotSteps, PTL DEF Spec

\* The type invariant of a run, for any set of nodes, any number of events and
\* any number of failures.
THEOREM Typing == Spec => []TypeOK
<1>1. ASSUME PilotInv
      PROVE  TypeOK
  <2>1. Types /\ Order /\ DataHolds
    BY <1>1 DEF PilotInv
  <2>2. \A n \in serves : Alive(n)
    BY <2>1, LinkedAreAlive DEF Types, Order
  <2>3. run.todo \subseteq Node /\ run.result \in {"none", "passed", "failed"}
    BY <2>1 DEF Types, RunRecord
  <2>4. hub.connected \subseteq Node
    BY <2>1 DEF Types, HubRecord
  <2>5. data.rows \in Rows /\ data.events \in 0 .. EventCount
    BY <2>1 DEF Types, Data, DataHolds
  <2> QED
    BY <2>1, <2>2, <2>3, <2>4, <2>5 DEF TypeOK, Types, Rows
<1> QED
  BY <1>1, PilotInvariant, PTL

\* Whatever fails and whenever, a run that got to its session ends with no node,
\* no server and no chain (the finally blocks of run_pilot_demo).
THEOREM NothingIsLeftRunning == Spec => []NothingLeftRunning
<1>1. ASSUME PilotInv
      PROVE  NothingLeftRunning
  BY <1>1 DEF PilotInv, ChainHolds, StaysDown, NothingLeftRunning, At
<1> QED
  BY <1>1, PilotInvariant, PTL

\* A server that is up has a chain with the release behind it, through every
\* restart, and a run that passed has its session sealed with all its events and
\* nothing of what was done after the snapshot.
THEOREM NothingIsLost == Spec => []NothingLost
<1>1. ASSUME PilotInv
      PROVE  NothingLost
  <2>1. hub.up => chain.block >= 2
    BY <1>1 DEF PilotInv, ChainHolds
  <2>2. ASSUME Passed
        PROVE  data.events = EventCount /\ data.session = "sealed" /\ ~data.probe
    BY <1>1, <2>2 DEF PilotInv, Order, DataHolds, Sealed, Passed, Ending
  <2> QED
    BY <2>1, <2>2 DEF NothingLost
<1> QED
  BY <1>1, PilotInvariant, PTL

-----------------------------------------------------------------------------
(* What the transcript tells. The steps of a run that has not failed, in    *)
(* the order it takes them.                                                 *)

Opening == BeforeTry \cup {"prepare", "session"}

DelayedFirst == {"start_delayed", "kill_delayed", "await_delayed_gone"}

BeforeActive == Opening \cup DelayedFirst \cup {"start_active"}

Cutting == {"kill_active", "await_active_gone"}

Restarting == {"stop_server", "dump_state", "stop_chain", "start_chain_again",
               "load_state_again", "restart_server"}

Reconnecting == {"restart_nodes", "await_reconnected"}

BeforeClose == BeforeActive \cup Cutting \cup Restarting \cup Reconnecting
                 \cup {"next_active", "publish", "close"}

Sealing == {"close", "finalize", "gather_observers", "collect_active"}

BeforeDelayed == BeforeClose \cup Sealing \cup {"start_delayed_again"}

Proving == {"await_all_gone", "prove_losses"}

BeforeReviews == BeforeDelayed \cup Proving \cup {"collect_delayed"}

Reviewing == {"next_review", "collect_review"}

Restoring == {"propose", "vote", "snapshot_chain", "create_snapshot", "stop_for_restore",
              "tamper", "restore", "restore_chain", "check_probes", "restart_restored",
              "accept"}

\* A run that enqueues a task is where it will be once the task is accepted.
Place == IF run.at \in Enqueuing THEN run.then ELSE run.at

For(then) == run.at \in Enqueuing /\ run.then = then

ToPost(then) == run.at \in {"await_link", "post_task"} /\ run.then = then

\* The faults in the middle of the events are over.
PastHalf ==
    \/ Place \in Restarting \cup Reconnecting \cup Sealing \cup Proving \cup Reviewing
                   \cup Restoring \cup {"start_delayed_again", "collect_delayed"}
    \/ Place = "publish" /\ data.events >= Halfway

\* Which task is enqueued where, and which places only a run with the faults has.
Course ==
    /\ run.at \notin Ending
    /\ run.at \in Enqueuing =>
         /\ run.then \in {"kill_delayed", "next_active", "collect_delayed", "collect_review"}
         /\ run.kind = IF run.then = "collect_review" THEN "review" ELSE "observe"
         /\ run.then \in {"kill_delayed", "collect_delayed"} => run.who = Delayed
    /\ For("next_active") => run.who \in Active \ run.todo
    /\ For("collect_delayed") => ~conf.faults
    /\ Place = "next_active" => run.todo \subseteq Active
    /\ Place = "collect_review" => run.who \notin run.todo
    /\ Place \in DelayedFirst \cup Cutting \cup Restarting \cup Reconnecting => conf.faults
    /\ Place \in BeforeActive \cup {"next_active"} => data.events = 0
    /\ Place \in Cutting \cup Restarting \cup Reconnecting \cup {"close"}
         => data.events >= Halfway
    /\ Place \in BeforeClose => ~Closed

\* The tasks that the run has still to post.
Unposted(n, kind) ==
    IF kind = "review"
    THEN \/ Place \in BeforeReviews
         \/ Place \in Reviewing /\ n \in run.todo
         \/ ToPost("collect_review") /\ n = run.who
    ELSE IF n = Delayed
    THEN \/ Place \in Opening \cup {"start_delayed"}
         \/ ToPost("kill_delayed")
         \/ ~conf.faults /\ Place \in BeforeDelayed
         \/ ToPost("collect_delayed")
    ELSE \/ Place \in BeforeActive
         \/ Place = "next_active" /\ n \in run.todo
         \/ ToPost("next_active") /\ n = run.who

\* They have no row; a task is queued while the run waits for it to be accepted,
\* and has no receipt before the session is closed.
RowsTell ==
    \A n \in Node, kind \in {"observe", "review"} :
        /\ data.rows[<<n, kind>>] = "none" <=> Unposted(n, kind)
        /\ data.rows[<<n, kind>>] = "queued"
             => run.at = "await_acceptance" /\ n = run.who /\ kind = run.kind
        /\ ~Closed => data.rows[<<n, kind>>] \notin {"answered", "confirmed"}

\* The Relay counts a task once, when it is accepted, through every restart.
Taken(rows) == {t \in Task : rows[t] \notin {"none", "queued"}}

Counted == hub.acceptances = Cardinality(Taken(data.rows))

\* A child reviews once it was started to, and what it does is in the row of its
\* task.
Reviewer(n) == Place \notin BeforeReviews /\ ~(Place \in Reviewing /\ n \in run.todo)

ChildrenTell ==
    \A n \in Node :
        /\ node[n].kind = IF Reviewer(n) THEN "review" ELSE "observe"
        /\ node[n].step = "working" => data.rows[<<n, node[n].kind>>] = "accepted"
        /\ node[n].step = "answered" => data.rows[<<n, node[n].kind>>] = "answered"
        /\ node[n].step = "done" => data.rows[<<n, node[n].kind>>] = "confirmed"

\* What the run has collected is confirmed, and in the snapshot everything is.
Collected(n, kind) ==
    IF kind = "observe"
    THEN \/ Place \in Proving \cup Reviewing \cup Restoring
         \/ n # Delayed /\ Place \in {"start_delayed_again", "collect_delayed"}
    ELSE \/ Place \in Restoring
         \/ Place \in Reviewing /\ n \notin run.todo /\ (run.at = "next_review" \/ n # run.who)

Settles ==
    /\ \A n \in Node, kind \in {"observe", "review"} :
         Collected(n, kind) => data.rows[<<n, kind>>] = "confirmed"
    /\ run.at \in {"stop_for_restore", "tamper", "restore"} =>
         \A t \in Task : disk.snapshot.rows[t] = "confirmed"

\* A node that was killed is gone while its disconnection is awaited.
StayGone ==
    /\ run.at = "await_delayed_gone" => ~Alive(Delayed)
    /\ run.at = "await_active_gone" => \A n \in Active : ~Alive(n)

\* The nodes that are in the report as disconnected, and as reconnected.
CutBy ==
    {n \in Node : /\ conf.faults
                  /\ IF n = Delayed THEN Place \notin Opening \cup DelayedFirst ELSE PastHalf}

BackBy ==
    {n \in Node : /\ conf.faults
                  /\ IF n = Delayed THEN Place \in Proving \cup Reviewing \cup Restoring
                     ELSE PastHalf /\ Place \notin Restarting \cup Reconnecting}

Restarts ==
    IF run.at = "accept" THEN IF conf.faults THEN 2 ELSE 1
    ELSE IF conf.faults /\ PastHalf /\ Place \notin Restarting THEN 1 ELSE 0

ReportRecord == [disconnected : SUBSET Node, reconnected : SUBSET Node, lost : SUBSET Node,
                 restored : BOOLEAN, acceptances : Nat, recoveries : Nat]

Reports ==
    /\ report \in ReportRecord
    /\ report.disconnected = CutBy
    /\ report.reconnected = BackBy
    /\ report.disconnected \subseteq cut
    /\ report.lost \subseteq unacknowledged
    /\ hub.dropped \subseteq unacknowledged
    /\ run.at \in {"restart_restored", "accept"} => report.restored
    /\ hub.recoveries = Restarts

\* A node is connected by its present child: what was connected before is gone
\* when a child is started for a task that will be posted.
Links ==
    /\ run.at = "await_link" /\ run.who \in hub.connected => node[run.who].step # "starting"
    /\ run.at = "post_task" => node[run.who].step # "starting"
    /\ \A n \in Node : node[n].step = "none" => n \notin hub.connected
    /\ Place \in BeforeActive => \A n \in Active : node[n].step = "none"
    /\ Place \in Opening \cup {"start_delayed"} => node[Delayed].step = "none"
    /\ ~conf.faults /\ Place \in BeforeDelayed => node[Delayed].step = "none"
    /\ Place = "next_active" => \A n \in run.todo : n \in hub.connected => node[n].step # "starting"
    /\ Place \in {"start_delayed_again", "collect_delayed"} => \A n \in Active : node[n].step = "done"
    /\ Place \in Proving => \A n \in Node : node[n].step = "done"
    /\ Place = "prove_losses" => hub.connected = {}
    /\ Place \in Reviewing => \A n \in run.todo : node[n].step = "done" /\ n \notin hub.connected

Parts == /\ Course /\ RowsTell /\ Counted /\ ChildrenTell
         /\ Settles /\ StayGone /\ Reports /\ Links

\* A run that has not failed is told by these, and the transcript of one that
\* passed is true and stays true.
Told ==
    /\ run.result = "none" => Parts
    /\ Passed => TranscriptIsTrue /\ \A n \in Node : node[n].step # "working"

-----------------------------------------------------------------------------
(* The steps of the run that only go on                                    *)

\* Everything that the parts are about, but for where the run is.
Still ==
    /\ UNCHANGED <<conf, hub, node, report, cut, unacknowledged>>
    /\ data'.rows = data.rows /\ data'.events = data.events /\ data'.session = data.session
    /\ disk'.snapshot = disk.snapshot

\* Only run.at changes.
Went(at) ==
    /\ run'.at = at
    /\ run'.then = run.then /\ run'.who = run.who /\ run'.kind = run.kind
    /\ run'.todo = run.todo /\ run'.result = run.result

LEMMA RunWent ==
  ASSUME run \in RunRecord, NEW at \in Steps, Go(at)
  PROVE  Went(at)
BY DEF Go, Went, RunRecord

\* Steps between which none of the parts tells a difference.
Alike(from, to) ==
    \/ {from, to} \subseteq Opening
    \/ {from, to} \subseteq Restarting
    \/ {from, to} \subseteq {"gather_observers", "collect_active"}
    \/ {from, to} \subseteq {"propose", "vote", "snapshot_chain", "create_snapshot",
                             "restore_chain", "check_probes"}

LEMMA GoesOn ==
  ASSUME Parts, Still, NEW to, Went(to), Alike(run.at, to)
  PROVE  Parts'
<1>1. run'.at = to /\ run'.then = run.then /\ run'.who = run.who /\ run'.kind = run.kind
      /\ run'.todo = run.todo
  BY DEF Went
<1>2. /\ conf' = conf /\ hub' = hub /\ node' = node /\ report' = report /\ cut' = cut
      /\ unacknowledged' = unacknowledged /\ disk'.snapshot = disk.snapshot
      /\ data'.rows = data.rows /\ data'.events = data.events /\ data'.session = data.session
  BY DEF Still
<1>3. run.at \notin Enqueuing /\ to \notin Enqueuing
  BY DEF Alike, Opening, BeforeTry, Restarting, Enqueuing
<1>4. Place = run.at /\ Place' = to
  BY <1>1, <1>3 DEF Place
<1> USE DEF Alike, Opening, BeforeTry, DelayedFirst, BeforeActive, Cutting, Restarting,
            Reconnecting, BeforeClose, Sealing, BeforeDelayed, Proving, BeforeReviews,
            Reviewing, Restoring
<1>5. /\ \A n, kind : Unposted(n, kind)' <=> Unposted(n, kind)
      /\ \A n : Reviewer(n)' <=> Reviewer(n)
      /\ \A n, kind : Collected(n, kind)' <=> Collected(n, kind)
  BY <1>1, <1>2, <1>3, <1>4 DEF Unposted, Reviewer, Collected, ToPost, Enqueuing
<1>6. CutBy' = CutBy /\ BackBy' = BackBy /\ Restarts' = Restarts
  BY <1>1, <1>2, <1>4 DEF CutBy, BackBy, Restarts, PastHalf
<1>7. Course'
  BY <1>1, <1>2, <1>3, <1>4 DEF Parts, Course, For, Closed, Ending
<1>8. RowsTell'
  BY <1>1, <1>2, <1>3, <1>5 DEF Parts, RowsTell, Closed, Enqueuing
<1>9. Counted'
  BY <1>2 DEF Parts, Counted
<1>10. ChildrenTell'
  BY <1>2, <1>5 DEF Parts, ChildrenTell
<1>11. Settles'
  BY <1>1, <1>2, <1>5 DEF Parts, Settles
<1>12. StayGone'
  BY <1>1 DEF StayGone
<1>13. Reports'
  BY <1>1, <1>2, <1>6 DEF Parts, Reports
<1>14. Links'
  BY <1>1, <1>2, <1>4 DEF Parts, Links
<1> QED
  BY <1>7, <1>8, <1>9, <1>10, <1>11, <1>12, <1>13, <1>14 DEF Parts

-----------------------------------------------------------------------------
(* The nodes                                                               *)

\* The tasks of a node are its own.
LEMMA Pairs ==
  /\ \A n \in Node, kind \in {"observe", "review"} : <<n, kind>> \in Task
  /\ \A t \in Task : \E n \in Node, kind \in {"observe", "review"} : t = <<n, kind>>
  /\ \A n, m, k, l : <<n, k>> = <<m, l>> <=> n = m /\ k = l
  /\ IsFiniteSet(Task) /\ IsFiniteSet(Node)
<1>1. IsFiniteSet(Node)
  BY FS_AddElement DEF Node
<1>2. IsFiniteSet({"observe", "review"})
  <2>1. IsFiniteSet({} \cup {"observe"})
    BY FS_EmptySet, FS_AddElement
  <2>2. IsFiniteSet(({} \cup {"observe"}) \cup {"review"})
    BY <2>1, FS_AddElement
  <2>3. ({} \cup {"observe"}) \cup {"review"} = {"observe", "review"}
    OBVIOUS
  <2> QED
    BY <2>2, <2>3
<1>3. IsFiniteSet(Task)
  BY <1>1, <1>2, FS_Product DEF Task
<1> QED
  BY <1>1, <1>3 DEF Task

\* A child that is ready accepts the task it was started for.
LEMMA OwnTask ==
  ASSUME Types, Course, RowsTell, ChildrenTell, Settles, NEW n \in Node,
         NEW kind \in {"observe", "review"}, data.rows[<<n, kind>>] \in {"queued", "accepted"}
  PROVE  node[n].kind = kind
<1>1. data.rows[<<n, kind>>] # "none" /\ data.rows[<<n, kind>>] # "confirmed"
  OBVIOUS
<1>2. ~Unposted(n, kind) /\ ~Collected(n, kind)
  BY <1>1 DEF RowsTell, Settles
<1>3. Place \in Steps /\ Place \notin Ending
  BY DEF Types, RunRecord, Place, Course, Ending, Steps
<1>4. \A p \in Steps \ Ending : p \notin Enqueuing =>
        p \in BeforeReviews \/ p \in Proving \/ p \in Reviewing \/ p \in Restoring
  BY DEF Steps, Ending, Enqueuing, Opening, BeforeTry, DelayedFirst, BeforeActive, Cutting,
         Restarting, Reconnecting, BeforeClose, Sealing, BeforeDelayed, BeforeReviews,
         Proving, Reviewing, Restoring
<1>5. Place \notin Enqueuing
  BY DEF Place, Course, Enqueuing
<1>6. node[n].kind = IF Reviewer(n) THEN "review" ELSE "observe"
  BY DEF ChildrenTell
<1>7. CASE kind = "review"
  BY <1>2, <1>6, <1>7 DEF Unposted, Reviewer
<1>8. CASE kind = "observe"
  BY <1>2, <1>3, <1>4, <1>5, <1>6, <1>8 DEF Collected, Reviewer
<1> QED
  BY <1>7, <1>8

\* The rows with a new one, and how many of the tasks are taken then.
RowsWith(n, kind, row) == [data.rows EXCEPT ![<<n, kind>>] = row]

RowIsSet(n, kind, row) ==
    LET old == data.rows[<<n, kind>>]
        rows == RowsWith(n, kind, row) IN
    /\ rows[<<n, kind>>] = row
    /\ \A m \in Node, k \in {"observe", "review"} :
         <<m, k>> # <<n, kind>> => rows[<<m, k>>] = data.rows[<<m, k>>]
    /\ (old \in {"none", "queued"} <=> row \in {"none", "queued"})
         => Taken(rows) = Taken(data.rows)
    /\ old = "queued" /\ row = "accepted"
         => Cardinality(Taken(rows)) = Cardinality(Taken(data.rows)) + 1

LEMMA RowSet ==
  ASSUME data \in Data, NEW n \in Node, NEW kind \in {"observe", "review"},
         NEW row \in {"none", "queued", "accepted", "answered", "confirmed"}
  PROVE  RowIsSet(n, kind, row)
<1> DEFINE old == data.rows[<<n, kind>>]
           rows == RowsWith(n, kind, row)
<1>1. data.rows \in Rows /\ <<n, kind>> \in Task
  BY Pairs DEF Data
<1>2. rows[<<n, kind>>] = row /\ \A t \in Task : t # <<n, kind>> => rows[t] = data.rows[t]
  BY <1>1 DEF Rows, RowsWith
<1> HIDE DEF rows
<1>3. ASSUME old = "queued", row = "accepted"
      PROVE  Cardinality(Taken(rows)) = Cardinality(Taken(data.rows)) + 1
  <2>1. Taken(rows) = Taken(data.rows) \cup {<<n, kind>>} /\ <<n, kind>> \notin Taken(data.rows)
    BY <1>1, <1>2, <1>3 DEF Taken
  <2>2. IsFiniteSet(Taken(data.rows))
    BY Pairs, FS_Subset DEF Taken
  <2> QED
    BY <2>1, <2>2, FS_AddElement
<1>4. ASSUME old \in {"none", "queued"} <=> row \in {"none", "queued"}
      PROVE  Taken(rows) = Taken(data.rows)
  BY <1>1, <1>2, <1>4 DEF Taken
<1>5. \A m \in Node, k \in {"observe", "review"} :
         <<m, k>> # <<n, kind>> => rows[<<m, k>>] = data.rows[<<m, k>>]
  BY <1>2, Pairs
<1> QED
  BY <1>2, <1>3, <1>4, <1>5 DEF rows, RowIsSet

LEMMA ChildSet ==
  ASSUME node \in [Node -> Child], NEW n \in Node,
         NEW st \in {"none", "starting", "ready", "working", "answered", "lost", "done",
                     "failed"},
         node' = [node EXCEPT ![n].step = st]
  PROVE  /\ \A m \in Node : m # n => node'[m] = node[m]
         /\ node'[n].kind = node[n].kind /\ node'[n].step = st
BY DEF Child

\* What a step of a node does to the row of its task.
RowMoves(n) ==
    \/ data'.rows = data.rows
    \/ \E row \in {"accepted", "answered", "confirmed"} :
         /\ data'.rows = [data.rows EXCEPT ![<<n, node[n].kind>>] = row]
         /\ row = "accepted" => data.rows[<<n, node[n].kind>>] \in {"queued", "accepted"}
         /\ row = "answered" => data.rows[<<n, node[n].kind>>] = "accepted" /\ Closed
         /\ row = "confirmed" => data.rows[<<n, node[n].kind>>] = "answered"

\* And to its child.
ChildMoves(n) ==
    /\ \A m \in Node : m # n => node'[m] = node[m]
    /\ node'[n].kind = node[n].kind
    /\ node'[n].step = "starting" => node[n].step = "starting"
    /\ node'[n].step = "none" <=> node[n].step = "none"
    /\ node[n].step = "done" => node'[n].step = "done"
    /\ \/ hub'.connected \subseteq hub.connected
       \/ hub'.connected = hub.connected \cup {n} /\ node'[n].step = "ready"
    /\ LET row == data'.rows[<<n, node[n].kind>>] IN
         /\ node'[n].step = "working" => row = "accepted"
         /\ node'[n].step = "answered" => row = "answered"
         /\ node'[n].step = "done" => row = "confirmed"

Loses ==
    /\ unacknowledged \subseteq unacknowledged'
    /\ hub.dropped \subseteq unacknowledged => hub'.dropped \subseteq unacknowledged'
    /\ hub'.recoveries = hub.recoveries

LEMMA NodeMoves ==
  ASSUME PilotInv, Parts, NEW n \in Node,
         NodeStep(n) \/ HandlerEnds(n) \/ ConnectionBreaks(n) \/ NodeFails(n)
  PROVE  RowMoves(n) /\ ChildMoves(n) /\ Loses /\ Counted'
<1> DEFINE kind == node[n].kind
<1>t. /\ data \in Data /\ node \in [Node -> Child] /\ hub \in HubRecord
      /\ kind \in {"observe", "review"}
      /\ \A m \in serves : node[m].step \in Linked
  BY DEF PilotInv, Types, Order, Child
<1>r. /\ node[n].step = "working" => data.rows[<<n, kind>>] = "accepted"
      /\ node[n].step = "answered" => data.rows[<<n, kind>>] = "answered"
      /\ node[n].step = "done" => data.rows[<<n, kind>>] = "confirmed"
      /\ Counted
  BY DEF Parts, ChildrenTell
<1>a. Alive(n) <=> node[n].step \in {"starting", "ready", "working", "answered", "lost"}
  BY DEF Alive
<1> HIDE DEF kind
<1> USE DEF Loses
<1>k. kind = node[n].kind
  BY DEF kind
<1>1. CASE Authenticate(n)
  <2>1. /\ data' = data /\ unacknowledged' = unacknowledged
        /\ node[n].step \in {"starting", "lost"}
        /\ hub' = [hub EXCEPT !.connected = @ \cup {n}]
    BY <1>1 DEF Authenticate, stored, outcome
  <2>2. /\ hub'.connected = hub.connected \cup {n} /\ hub'.dropped = hub.dropped
        /\ hub'.recoveries = hub.recoveries /\ hub'.acceptances = hub.acceptances
    BY <1>t, <2>1 DEF HubRecord
  <2>3. /\ \A m \in Node : m # n => node'[m] = node[m]
        /\ node'[n].kind = node[n].kind /\ node'[n].step = "ready"
    BY <1>t, <1>1 DEF Authenticate, Child
  <2> QED
    BY <1>r, <2>1, <2>2, <2>3 DEF RowMoves, ChildMoves, Counted
<1>2. CASE Accept(n)
  <2>1. /\ node[n].step = "ready" /\ node' = [node EXCEPT ![n].step = "working"]
        /\ unacknowledged' = unacknowledged
    BY <1>2 DEF Accept, outcome
  <2>2. PICK t \in {n} \X {"observe", "review"} :
          /\ data.rows[t] \in {"queued", "accepted"}
          /\ data' = [data EXCEPT !.rows[t] = "accepted"]
          /\ hub' = IF data.rows[t] = "queued" THEN [hub EXCEPT !.acceptances = @ + 1]
                                               ELSE hub
    BY <1>2 DEF Accept
  <2>3. PICK k \in {"observe", "review"} : t = <<n, k>>
    BY <2>2
  <2>4. k = kind
    BY <1>k, <2>2, <2>3, OwnTask DEF Parts, PilotInv
  <2>5. data'.rows = RowsWith(n, kind, "accepted")
    BY <1>t, <2>2, <2>3, <2>4 DEF Data, RowsWith
  <2>6. /\ hub'.connected = hub.connected /\ hub'.dropped = hub.dropped
        /\ hub'.recoveries = hub.recoveries
        /\ hub'.acceptances = IF data.rows[t] = "queued" THEN hub.acceptances + 1
                                                         ELSE hub.acceptances
    BY <1>t, <2>2 DEF HubRecord
  <2>7. /\ \A m \in Node : m # n => node'[m] = node[m]
        /\ node'[n].kind = node[n].kind /\ node'[n].step = "working"
    BY <1>t, <2>1, ChildSet
  <2>8. /\ data'.rows[<<n, kind>>] = "accepted"
        /\ data.rows[<<n, kind>>] = "accepted" => Taken(data'.rows) = Taken(data.rows)
        /\ data.rows[<<n, kind>>] = "queued" =>
             Cardinality(Taken(data'.rows)) = Cardinality(Taken(data.rows)) + 1
    <3>1. RowIsSet(n, kind, "accepted")
      BY <1>t, RowSet
    <3> QED
      BY <2>5, <3>1 DEF RowIsSet
  <2>9. Counted'
    BY <1>r, <2>2, <2>3, <2>4, <2>6, <2>8 DEF Counted
  <2>10. RowMoves(n)
    BY <1>k, <2>2, <2>3, <2>4, <2>5 DEF RowMoves, RowsWith
  <2>11. ChildMoves(n)
    BY <1>k, <2>1, <2>6, <2>7, <2>8 DEF ChildMoves
  <2> QED
    BY <2>1, <2>6, <2>9, <2>10, <2>11
<1>3. CASE Receipt(n)
  <2>1. /\ node[n].step = "working" /\ Closed
        /\ data' = [data EXCEPT !.rows[<<n, kind>>] = "answered"]
        /\ \/ /\ hub' = [hub EXCEPT !.armed = @ \ {n}, !.dropped = @ \cup {n},
                                    !.connected = @ \ {n}]
              /\ node' = [node EXCEPT ![n].step = "lost"]
              /\ unacknowledged' = unacknowledged \cup {n}
           \/ /\ hub' = hub /\ node' = [node EXCEPT ![n].step = "answered"]
              /\ unacknowledged' = unacknowledged
    BY <1>3, <1>k DEF Receipt
  <2>2. data'.rows = RowsWith(n, kind, "answered")
    BY <1>t, <2>1 DEF Data, RowsWith
  <2>3. /\ hub'.connected \subseteq hub.connected
        /\ \/ hub'.dropped = hub.dropped
           \/ hub'.dropped = hub.dropped \cup {n} /\ n \in unacknowledged'
        /\ hub'.recoveries = hub.recoveries /\ hub'.acceptances = hub.acceptances
    BY ZenonT(40), <1>t, <2>1 DEF HubRecord
  <2>4. /\ \A m \in Node : m # n => node'[m] = node[m]
        /\ node'[n].kind = node[n].kind /\ node'[n].step \in {"lost", "answered"}
    BY <1>t, <2>1, ChildSet
  <2>5. data'.rows[<<n, kind>>] = "answered" /\ Taken(data'.rows) = Taken(data.rows)
    <3>1. RowIsSet(n, kind, "answered")
      BY <1>t, RowSet
    <3> QED
      BY <1>r, <2>1, <2>2, <3>1 DEF RowIsSet
  <2>6. Counted'
    BY <1>r, <2>3, <2>5 DEF Counted
  <2>7. RowMoves(n)
    BY <1>k, <1>r, <2>1, <2>2 DEF RowMoves, RowsWith
  <2>8. ChildMoves(n)
    BY <1>k, <2>1, <2>3, <2>4, <2>5 DEF ChildMoves
  <2>9. Loses
    BY <2>1, <2>3
  <2> QED
    BY <2>6, <2>7, <2>8, <2>9
<1>4. CASE RecoverReceipt(n)
  <2>1. /\ node[n].step = "ready" /\ data.rows[<<n, kind>>] = "answered"
        /\ node' = [node EXCEPT ![n].step = "answered"]
        /\ hub' = hub /\ data' = data /\ unacknowledged' = unacknowledged
    BY <1>4, <1>k DEF RecoverReceipt, stored, outcome
  <2>2. /\ \A m \in Node : m # n => node'[m] = node[m]
        /\ node'[n].kind = node[n].kind /\ node'[n].step = "answered"
    BY <1>t, <2>1, ChildSet
  <2> QED
    BY <1>k, <1>r, <2>1, <2>2 DEF RowMoves, ChildMoves, Counted
<1>5. CASE ConfirmReceipt(n)
  <2>1. /\ node[n].step = "answered"
        /\ data' = [data EXCEPT !.rows[<<n, kind>>] = "confirmed"]
        /\ node' = [node EXCEPT ![n].step = "done"]
        /\ hub' = hub /\ unacknowledged' = unacknowledged
    BY <1>5, <1>k DEF ConfirmReceipt, outcome
  <2>2. data'.rows = RowsWith(n, kind, "confirmed")
    BY <1>t, <2>1 DEF Data, RowsWith
  <2>3. /\ \A m \in Node : m # n => node'[m] = node[m]
        /\ node'[n].kind = node[n].kind /\ node'[n].step = "done"
    BY <1>t, <2>1, ChildSet
  <2>4. data'.rows[<<n, kind>>] = "confirmed" /\ Taken(data'.rows) = Taken(data.rows)
    <3>1. RowIsSet(n, kind, "confirmed")
      BY <1>t, RowSet
    <3> QED
      BY <1>r, <2>1, <2>2, <3>1 DEF RowIsSet
  <2>5. Counted'
    BY <1>r, <2>1, <2>4 DEF Counted
  <2>6. RowMoves(n)
    BY <1>k, <1>r, <2>1, <2>2 DEF RowMoves, RowsWith
  <2>7. ChildMoves(n)
    BY <1>k, <2>1, <2>3, <2>4 DEF ChildMoves
  <2> QED
    BY <2>1, <2>5, <2>6, <2>7
<1>6. CASE GiveUp(n) \/ ConnectionBreaks(n) \/ NodeFails(n)
  <2>1. /\ node[n].step \notin {"none", "done"}
        /\ \E st \in {"lost", "failed"} : node' = [node EXCEPT ![n].step = st]
        /\ hub' = hub /\ data' = data /\ unacknowledged' = unacknowledged
    BY <1>6, <1>a, <1>t DEF GiveUp, ConnectionBreaks, NodeFails, stored, outcome, Linked
  <2>2. /\ \A m \in Node : m # n => node'[m] = node[m]
        /\ node'[n].kind = node[n].kind /\ node'[n].step \in {"lost", "failed"}
    BY <1>t, <2>1, ChildSet
  <2> QED
    BY <1>k, <1>r, <2>1, <2>2 DEF RowMoves, ChildMoves, Counted
<1>7. CASE HandlerEnds(n)
  <2>1. /\ hub' = [hub EXCEPT !.connected = @ \ {n}]
        /\ node' = node /\ data' = data /\ unacknowledged' = unacknowledged
    BY <1>7 DEF HandlerEnds, stored, outcome
  <2>2. /\ hub'.connected \subseteq hub.connected /\ hub'.dropped = hub.dropped
        /\ hub'.recoveries = hub.recoveries /\ hub'.acceptances = hub.acceptances
    BY <1>t, <2>1 DEF HubRecord
  <2> QED
    BY <1>k, <1>r, <2>1, <2>2 DEF RowMoves, ChildMoves, Counted
<1> QED
  BY <1>1, <1>2, <1>3, <1>4, <1>5, <1>6, <1>7 DEF NodeStep

\* The rest of the run does not move.
LEMMA NodeRest ==
  ASSUME PilotInv, NEW n \in Node,
         NodeStep(n) \/ HandlerEnds(n) \/ ConnectionBreaks(n) \/ NodeFails(n)
  PROVE  /\ run' = run /\ conf' = conf /\ report' = report /\ cut' = cut
         /\ disk' = disk
         /\ data'.events = data.events /\ data'.session = data.session
         /\ \A m \in Node : Alive(m)' => Alive(m)
<1>1. run' = run /\ conf' = conf /\ report' = report /\ cut' = cut /\ disk' = disk
  BY DEF NodeStep, Authenticate, Accept, Receipt, RecoverReceipt, ConfirmReceipt, GiveUp,
         HandlerEnds, ConnectionBreaks, NodeFails, Failure, stored, outcome
<1>t. /\ data \in Data /\ node \in [Node -> Child]
      /\ serves \subseteq Node /\ stale \in [Node -> Nat]
      /\ \A m \in serves : node[m].step \in Linked
  BY DEF PilotInv, Types, Order
<1>2. data'.events = data.events /\ data'.session = data.session
  BY <1>t, NodeData
<1>3. (\A m \in Node : m # n => node'[m] = node[m]) /\ (Alive(n)' => Alive(n))
  BY <1>t, NodeChild
<1> QED
  BY <1>1, <1>2, <1>3 DEF Alive

\* A step of a node keeps what is told of it and of the others.
LEMMA NodesTell ==
  ASSUME PilotInv, Parts, NEW n \in Node,
         NodeStep(n) \/ HandlerEnds(n) \/ ConnectionBreaks(n) \/ NodeFails(n)
  PROVE  Parts'
<1>1. /\ run' = run /\ conf' = conf /\ report' = report /\ cut' = cut /\ disk' = disk
      /\ data'.events = data.events /\ data'.session = data.session
      /\ \A m \in Node : Alive(m)' => Alive(m)
  BY NodeRest
<1>2. RowMoves(n) /\ ChildMoves(n) /\ Loses /\ Counted'
  BY NodeMoves
<1>t. data \in Data /\ run \in RunRecord
      /\ \A m \in Node : node[m].kind \in {"observe", "review"}
  BY DEF PilotInv, Types, Child
<1>3. Place' = Place /\ (Closed' <=> Closed)
  BY <1>1 DEF Place, Closed
<1>4. /\ \A m, kind : Unposted(m, kind)' <=> Unposted(m, kind)
      /\ \A m : Reviewer(m)' <=> Reviewer(m)
      /\ \A m, kind : Collected(m, kind)' <=> Collected(m, kind)
      /\ CutBy' = CutBy /\ BackBy' = BackBy /\ Restarts' = Restarts
  BY <1>1, <1>3 DEF Unposted, Reviewer, Collected, ToPost, CutBy, BackBy, Restarts, PastHalf
<1>5. ASSUME NEW m \in Node, NEW kind \in {"observe", "review"}
      PROVE  \/ data'.rows[<<m, kind>>] = data.rows[<<m, kind>>]
             \/ /\ m = n /\ kind = node[n].kind
                /\ \/ /\ data.rows[<<m, kind>>] \in {"queued", "accepted"}
                      /\ data'.rows[<<m, kind>>] = "accepted"
                   \/ /\ data.rows[<<m, kind>>] \in {"accepted", "answered"} /\ Closed
                      /\ data'.rows[<<m, kind>>] \in {"answered", "confirmed"}
  <2>1. CASE data'.rows = data.rows
    BY <2>1
  <2>2. ASSUME NEW row \in {"accepted", "answered", "confirmed"},
               data'.rows = RowsWith(n, node[n].kind, row),
               row = "accepted" => data.rows[<<n, node[n].kind>>] \in {"queued", "accepted"},
               row = "answered" => data.rows[<<n, node[n].kind>>] = "accepted" /\ Closed,
               row = "confirmed" => data.rows[<<n, node[n].kind>>] = "answered"
        PROVE  \/ data'.rows[<<m, kind>>] = data.rows[<<m, kind>>]
               \/ /\ m = n /\ kind = node[n].kind
                  /\ \/ /\ data.rows[<<m, kind>>] \in {"queued", "accepted"}
                        /\ data'.rows[<<m, kind>>] = "accepted"
                     \/ /\ data.rows[<<m, kind>>] \in {"accepted", "answered"} /\ Closed
                        /\ data'.rows[<<m, kind>>] \in {"answered", "confirmed"}
    <3>1. RowIsSet(n, node[n].kind, row)
      BY <1>t, RowSet
    <3>2. data.rows[<<n, node[n].kind>>] = "answered" => Closed
      BY <1>t DEF Parts, RowsTell
    <3>3. CASE m = n /\ kind = node[n].kind
      BY <2>2, <3>1, <3>2, <3>3 DEF RowIsSet
    <3>4. CASE ~(m = n /\ kind = node[n].kind)
      BY <2>2, <3>1, <3>4, Pairs DEF RowIsSet
    <3> QED
      BY <3>3, <3>4
  <2> QED
    BY <1>2, <2>1, <2>2 DEF RowMoves, RowsWith
<1>6. Course'
  BY <1>1, <1>3 DEF Parts, Course, For
<1>7. RowsTell'
  <2>1. ASSUME NEW m \in Node, NEW kind \in {"observe", "review"}
        PROVE  /\ data'.rows[<<m, kind>>] = "none" <=> Unposted(m, kind)
               /\ data'.rows[<<m, kind>>] = "queued"
                    => run.at = "await_acceptance" /\ m = run.who /\ kind = run.kind
               /\ ~Closed => data'.rows[<<m, kind>>] \notin {"answered", "confirmed"}
    <3>1. /\ data.rows[<<m, kind>>] = "none" <=> Unposted(m, kind)
          /\ data.rows[<<m, kind>>] = "queued"
               => run.at = "await_acceptance" /\ m = run.who /\ kind = run.kind
          /\ ~Closed => data.rows[<<m, kind>>] \notin {"answered", "confirmed"}
      BY DEF Parts, RowsTell
    <3> QED
      BY <1>5, <3>1
  <2> QED
    BY <1>1, <1>3, <1>4, <2>1 DEF RowsTell
<1>8. ChildrenTell'
  <2>1. ASSUME NEW m \in Node
        PROVE  /\ node'[m].kind = IF Reviewer(m)' THEN "review" ELSE "observe"
               /\ node'[m].step = "working" => data'.rows[<<m, node'[m].kind>>] = "accepted"
               /\ node'[m].step = "answered" => data'.rows[<<m, node'[m].kind>>] = "answered"
               /\ node'[m].step = "done" => data'.rows[<<m, node'[m].kind>>] = "confirmed"
    <3>1. CASE m = n
      BY <1>2, <1>4, <3>1 DEF Parts, ChildrenTell, ChildMoves
    <3>2. CASE m # n
      <4>1. node'[m] = node[m]
        BY <1>2, <3>2 DEF ChildMoves
      <4>2. data'.rows[<<m, node[m].kind>>] = data.rows[<<m, node[m].kind>>]
        BY <1>t, <1>5, <3>2
      <4> QED
        BY <1>4, <4>1, <4>2 DEF Parts, ChildrenTell
    <3> QED
      BY <3>1, <3>2
  <2> QED
    BY <2>1 DEF ChildrenTell
<1>9. Settles'
  BY <1>1, <1>4, <1>5 DEF Parts, Settles
<1>10. StayGone'
  <2>1. Active \subseteq Node /\ Delayed \in Node
    BY DEF Node
  <2> QED
    BY <1>1, <2>1 DEF Parts, StayGone
<1>11. Reports'
  BY <1>1, <1>2, <1>4 DEF Parts, Reports, Loses
<1>12. Links'
  <2>1. \A m \in Node :
          /\ node'[m].step = "starting" => node[m].step = "starting"
          /\ node'[m].step = "none" <=> node[m].step = "none"
          /\ node[m].step = "done" => node'[m].step = "done"
    BY <1>2 DEF ChildMoves
  <2>2. \A m \in Node : m \in hub'.connected => m \in hub.connected \/ node'[m].step = "ready"
    BY <1>2 DEF ChildMoves
  <2>3. hub.connected \subseteq Node /\ hub'.connected \subseteq Node /\ run.who \in Node
        /\ Active \subseteq Node /\ Delayed \in Node
    BY <1>t, <1>2 DEF PilotInv, Types, HubRecord, ChildMoves, RunRecord, Node
  <2>4. run.todo \subseteq Node
    BY <1>t DEF RunRecord
  <2>5. Links
    BY DEF Parts
  <2>6. /\ run.at = "await_link" /\ run.who \in hub'.connected => node'[run.who].step # "starting"
        /\ run.at = "post_task" => node'[run.who].step # "starting"
    BY <2>1, <2>2, <2>3, <2>5 DEF Links
  <2>7. \A m \in Node : node'[m].step = "none" => m \notin hub'.connected
    BY <2>1, <2>2, <2>5 DEF Links
  <2>8. /\ Place \in BeforeActive => \A m \in Active : node'[m].step = "none"
        /\ Place \in Opening \cup {"start_delayed"} => node'[Delayed].step = "none"
        /\ ~conf.faults /\ Place \in BeforeDelayed => node'[Delayed].step = "none"
        /\ Place \in {"start_delayed_again", "collect_delayed"}
             => \A m \in Active : node'[m].step = "done"
        /\ Place \in Proving => \A m \in Node : node'[m].step = "done"
    BY <2>1, <2>3, <2>5 DEF Links
  <2>9. Place = "next_active" =>
          \A m \in run.todo : m \in hub'.connected => node'[m].step # "starting"
    BY <2>1, <2>2, <2>4, <2>5 DEF Links
  <2>10. Place = "prove_losses" => hub'.connected = {}
    <3>1. Place = "prove_losses" => \A m \in Node : node'[m].step # "ready"
      BY <2>8 DEF Proving
    <3> QED
      BY <2>2, <2>3, <2>5, <3>1 DEF Links
  <2>11. Place \in Reviewing =>
           \A m \in run.todo : node'[m].step = "done" /\ m \notin hub'.connected
    BY <2>1, <2>2, <2>4, <2>5 DEF Links
  <2> QED
    BY <1>1, <1>3, <2>6, <2>7, <2>8, <2>9, <2>10, <2>11 DEF Links
<1> QED
  BY <1>2, <1>6, <1>7, <1>8, <1>9, <1>10, <1>11, <1>12 DEF Parts

-----------------------------------------------------------------------------
(* The run: the session begins                                             *)

\* A task is to be enqueued, and the run leads on to then.
Enqueued(n, kind, then, todo) ==
    /\ run'.at = "await_link" /\ run'.then = then /\ run'.who = n /\ run'.kind = kind
    /\ run'.todo = todo /\ run'.result = run.result

LEMMA RunEnqueued ==
  ASSUME run \in RunRecord, NEW n \in Node, NEW kind \in {"observe", "review"},
         NEW then \in Steps
  PROVE  /\ run' = Enqueue(n, kind, then) => Enqueued(n, kind, then, run.todo)
         /\ run' = [Enqueue(n, kind, then) EXCEPT !.todo = @ \ {n}]
              => Enqueued(n, kind, then, run.todo \ {n})
BY DEF Enqueue, Enqueued, RunRecord

\* Children are started, and the others are what they were.
Begun(nodes, kind) ==
    \A m \in Node : IF m \in nodes THEN node'[m].step = "starting" /\ node'[m].kind = kind
                                   ELSE node'[m] = node[m]

LEMMA ChildrenStart ==
  ASSUME node \in [Node -> Child], NEW nodes \in SUBSET Node,
         NEW kind \in {"observe", "review"}, node' = SpawnedIn(nodes, kind)
  PROVE  Begun(nodes, kind)
BY DEF SpawnedIn, NoChild, Begun

\* The environment: a Relay that knows nobody and has counted nothing.
LEMMA PrepareTells ==
  ASSUME PilotInv, Parts, PrepareEnvironment
  PROVE  Parts'
<1> USE DEF Opening, BeforeTry, DelayedFirst, BeforeActive, Cutting, Restarting,
            Reconnecting, BeforeClose, Sealing, BeforeDelayed, Proving, BeforeReviews,
            Reviewing, Restoring, Enqueuing, Ending
<1>t. /\ run \in RunRecord /\ hub \in HubRecord /\ node \in [Node -> Child]
      /\ data \in Data /\ disk \in Disk
      /\ Node = Active \cup {Delayed} /\ Delayed \notin Active
  BY DEF PilotInv, Types, Node
<1>1. run.at = "prepare" /\ Went("session")
  BY <1>t, RunWent DEF PrepareEnvironment, At, Steps
<1>2. /\ conf' = conf /\ node' = node /\ report' = report /\ cut' = cut /\ unacknowledged' = unacknowledged
      /\ data' = data /\ disk' = disk
      /\ hub'.connected = {} /\ hub'.dropped = {}
      /\ hub'.acceptances = 0 /\ hub'.recoveries = 0
  BY DEF PrepareEnvironment, Quiet, outcome, NewHub
<1>3. Place = "prepare" /\ Place' = "session"
  BY <1>1 DEF Place, Went
<1>4. /\ \A n \in Node, kind \in {"observe", "review"} : Unposted(n, kind)' <=> Unposted(n, kind)
      /\ \A n \in Node : Reviewer(n)' <=> Reviewer(n)
      /\ \A n \in Node, kind \in {"observe", "review"} :
           Collected(n, kind)' <=> Collected(n, kind)
  BY <1>t, <1>1, <1>2, <1>3 DEF Unposted, Reviewer, Collected, ToPost, Went
<1>5. Course'
  BY <1>t, <1>1, <1>2, <1>3 DEF Parts, Course, For, Closed, Went
<1>6. RowsTell'
  <2>1. Closed' <=> Closed
    BY <1>2 DEF Closed
  <2> QED
    BY <1>t, <1>1, <1>2, <1>3, <1>4, <2>1 DEF Parts, RowsTell, Went
<1>7. Counted'
  <2>1. \A n \in Node, kind \in {"observe", "review"} : data.rows[<<n, kind>>] = "none"
    BY <1>3 DEF Parts, RowsTell, Unposted
  <2>2. ASSUME NEW t \in Task
        PROVE  data.rows[t] = "none"
    <3>1. PICK n \in Node, kind \in {"observe", "review"} : t = <<n, kind>>
      BY Pairs
    <3> QED
      BY <2>1, <3>1
  <2>3. Taken(data.rows) = {}
    BY <2>2 DEF Taken
  <2> QED
    BY <1>2, <2>3, FS_EmptySet DEF Counted
<1>8. ChildrenTell'
  BY <1>t, <1>1, <1>2, <1>3, <1>4 DEF Parts, ChildrenTell
<1>9. Settles'
  BY <1>t, <1>1, <1>2, <1>3, <1>4 DEF Parts, Settles, Went
<1>10. StayGone'
  BY <1>1, <1>3 DEF StayGone, Went
<1>11. Reports'
  BY <1>t, <1>1, <1>2, <1>3 DEF Parts, Reports, CutBy, BackBy, Restarts, PastHalf, Went
<1>12. Links'
  BY <1>t, <1>1, <1>2, <1>3 DEF Parts, Links, Went
<1> QED
  BY <1>5, <1>6, <1>7, <1>8, <1>9, <1>10, <1>11, <1>12 DEF Parts

\* The session is created.
LEMMA SessionTells ==
  ASSUME PilotInv, Parts, CreateSession
  PROVE  Parts'
<1> USE DEF Opening, BeforeTry, DelayedFirst, BeforeActive, Cutting, Restarting,
            Reconnecting, BeforeClose, Sealing, BeforeDelayed, Proving, BeforeReviews,
            Reviewing, Restoring, Enqueuing, Ending
<1>t. /\ run \in RunRecord /\ hub \in HubRecord /\ node \in [Node -> Child]
      /\ data \in Data /\ disk \in Disk
      /\ Node = Active \cup {Delayed} /\ Delayed \notin Active
  BY DEF PilotInv, Types, Node
<1>1. /\ run.at = "session"
      /\ \/ ~conf.faults /\ Went("start_active")
         \/ conf.faults /\ Went("start_delayed")
  BY <1>t, RunWent DEF CreateSession, At, Steps
<1>2. /\ conf' = conf /\ hub' = hub /\ node' = node /\ report' = report /\ cut' = cut
      /\ unacknowledged' = unacknowledged /\ disk' = disk /\ data'.rows = data.rows /\ data'.events = data.events
      /\ data'.session = "live"
  BY <1>t DEF CreateSession, Quiet, outcome, children, Data
<1>3. Place = "session" /\ Place' = IF conf.faults THEN "start_delayed" ELSE "start_active"
  BY <1>1 DEF Place, Went
<1>4. /\ \A n \in Node, kind \in {"observe", "review"} : Unposted(n, kind)' <=> Unposted(n, kind)
      /\ \A n \in Node : Reviewer(n)' <=> Reviewer(n)
      /\ \A n \in Node, kind \in {"observe", "review"} :
           Collected(n, kind)' <=> Collected(n, kind)
  BY <1>t, <1>1, <1>2, <1>3 DEF Unposted, Reviewer, Collected, ToPost, Went
<1>5. Course'
  BY <1>t, <1>1, <1>2, <1>3 DEF Parts, Course, For, Closed, Went
<1>6. RowsTell'
  <2>1. ~Closed /\ ~Closed'
    BY <1>2, <1>3 DEF Parts, Course, Closed
  <2> QED
    BY <1>1, <1>2, <1>3, <1>4, <2>1 DEF Parts, RowsTell, Went
<1>7. Counted'
  BY <1>2 DEF Parts, Counted
<1>8. ChildrenTell'
  BY <1>t, <1>1, <1>2, <1>3, <1>4 DEF Parts, ChildrenTell
<1>9. Settles'
  BY <1>t, <1>1, <1>2, <1>3, <1>4 DEF Parts, Settles, Went
<1>10. StayGone'
  BY <1>1, <1>3 DEF StayGone, Went
<1>11. Reports'
  BY <1>t, <1>1, <1>2, <1>3 DEF Parts, Reports, CutBy, BackBy, Restarts, PastHalf, Went
<1>12. Links'
  BY <1>t, <1>1, <1>2, <1>3 DEF Parts, Links, Went
<1> QED
  BY <1>5, <1>6, <1>7, <1>8, <1>9, <1>10, <1>11, <1>12 DEF Parts

\* The delayed node is started, in a run with the faults.
LEMMA StartDelayedTells ==
  ASSUME PilotInv, Parts, StartDelayed
  PROVE  Parts'
<1> USE DEF Opening, BeforeTry, DelayedFirst, BeforeActive, Cutting, Restarting,
            Reconnecting, BeforeClose, Sealing, BeforeDelayed, Proving, BeforeReviews,
            Reviewing, Restoring, Enqueuing, Ending
<1>t. /\ run \in RunRecord /\ hub \in HubRecord /\ node \in [Node -> Child]
      /\ data \in Data /\ disk \in Disk
      /\ Node = Active \cup {Delayed} /\ Delayed \notin Active
  BY DEF PilotInv, Types, Node
<1>1. run.at = "start_delayed" /\ Enqueued(Delayed, "observe", "kill_delayed", run.todo)
  BY <1>t, RunEnqueued DEF StartDelayed, At, Steps
<1>2. /\ conf' = conf /\ hub' = hub /\ report' = report /\ cut' = cut /\ unacknowledged' = unacknowledged
      /\ data' = data /\ disk' = disk
      /\ Begun({Delayed}, "observe")
  BY <1>t, ChildrenStart DEF StartDelayed, Start, Quiet, outcome, stored
<1>3. Place = "start_delayed" /\ Place' = "kill_delayed"
  BY <1>1 DEF Place, Enqueued
<1>4. /\ \A n \in Node, kind \in {"observe", "review"} : Unposted(n, kind)' <=> Unposted(n, kind)
      /\ \A n \in Node : Reviewer(n)' <=> Reviewer(n)
      /\ \A n \in Node, kind \in {"observe", "review"} :
           Collected(n, kind)' <=> Collected(n, kind)
  BY <1>t, <1>1, <1>2, <1>3 DEF Unposted, Reviewer, Collected, ToPost, Enqueued
<1>5. Course'
  BY <1>t, <1>1, <1>2, <1>3 DEF Parts, Course, For, Closed, Enqueued
<1>6. RowsTell'
  <2>1. Closed' <=> Closed
    BY <1>2 DEF Closed
  <2> QED
    BY <1>t, <1>1, <1>2, <1>3, <1>4, <2>1 DEF Parts, RowsTell, Enqueued
<1>7. Counted'
  BY <1>2 DEF Parts, Counted
<1>8. ChildrenTell'
  BY <1>t, <1>2, <1>3, <1>4 DEF Parts, ChildrenTell, Begun, Reviewer
<1>9. Settles'
  BY <1>t, <1>1, <1>2, <1>3, <1>4 DEF Parts, Settles, Enqueued
<1>10. StayGone'
  BY <1>1, <1>3 DEF StayGone, Enqueued
<1>11. Reports'
  BY <1>t, <1>1, <1>2, <1>3 DEF Parts, Reports, CutBy, BackBy, Restarts, PastHalf, Enqueued
<1>12. Links'
  <2>1. Links /\ conf.faults
    BY <1>3 DEF Parts, Course
  <2>2. Delayed \notin hub.connected
    BY <1>t, <1>3, <2>1 DEF Links
  <2>3. \A m \in Node : m # Delayed => node'[m] = node[m]
    BY <1>2 DEF Begun
  <2>4. node'[Delayed].step = "starting"
    BY <1>t, <1>2 DEF Begun
  <2> QED
    BY <1>t, <1>1, <1>2, <1>3, <2>1, <2>2, <2>3, <2>4 DEF Links, Enqueued
<1> QED
  BY <1>5, <1>6, <1>7, <1>8, <1>9, <1>10, <1>11, <1>12 DEF Parts

\* The other nodes are started.
LEMMA StartActiveTells ==
  ASSUME PilotInv, Parts, StartActive
  PROVE  Parts'
<1> USE DEF Opening, BeforeTry, DelayedFirst, BeforeActive, Cutting, Restarting,
            Reconnecting, BeforeClose, Sealing, BeforeDelayed, Proving, BeforeReviews,
            Reviewing, Restoring, Enqueuing, Ending
<1>t. /\ run \in RunRecord /\ hub \in HubRecord /\ node \in [Node -> Child]
      /\ data \in Data /\ disk \in Disk
      /\ Node = Active \cup {Delayed} /\ Delayed \notin Active
  BY DEF PilotInv, Types, Node
<1>1. /\ run.at = "start_active" /\ run'.at = "next_active"
      /\ run'.todo = Active
  BY <1>t DEF StartActive, At, RunRecord
<1>2. /\ conf' = conf /\ hub' = hub /\ report' = report /\ cut' = cut /\ unacknowledged' = unacknowledged
      /\ data' = data /\ disk' = disk
      /\ Begun(Active, "observe")
  BY <1>t, ChildrenStart DEF StartActive, Start, Quiet, outcome, stored
<1>3. Place = "start_active" /\ Place' = "next_active"
  BY <1>1 DEF Place
<1>4. /\ \A n \in Node, kind \in {"observe", "review"} : Unposted(n, kind)' <=> Unposted(n, kind)
      /\ \A n \in Node : Reviewer(n)' <=> Reviewer(n)
      /\ \A n \in Node, kind \in {"observe", "review"} :
           Collected(n, kind)' <=> Collected(n, kind)
  BY <1>t, <1>1, <1>2, <1>3 DEF Unposted, Reviewer, Collected, ToPost
<1>5. Course'
  BY <1>t, <1>1, <1>2, <1>3 DEF Parts, Course, For, Closed
<1>6. RowsTell'
  <2>1. Closed' <=> Closed
    BY <1>2 DEF Closed
  <2> QED
    BY ZenonT(40), <1>t, <1>1, <1>2, <1>3, <1>4, <2>1 DEF Parts, RowsTell
<1>7. Counted'
  BY <1>2 DEF Parts, Counted
<1>8. ChildrenTell'
  BY <1>t, <1>2, <1>3, <1>4 DEF Parts, ChildrenTell, Begun, Reviewer
<1>9. Settles'
  BY <1>t, <1>1, <1>2, <1>3, <1>4 DEF Parts, Settles
<1>10. StayGone'
  BY <1>1, <1>3 DEF StayGone
<1>11. Reports'
  BY <1>t, <1>1, <1>2, <1>3 DEF Parts, Reports, CutBy, BackBy, Restarts, PastHalf
<1>12. Links'
  BY <1>t, <1>1, <1>2, <1>3 DEF Parts, Links, Begun
<1> QED
  BY <1>5, <1>6, <1>7, <1>8, <1>9, <1>10, <1>11, <1>12 DEF Parts

-----------------------------------------------------------------------------
(* The run: the observations                                               *)

\* The middle of the events is one of them.
LEMMA HalfwayIsReached ==
  Halfway \in Nat /\ Halfway >= 1 /\ Halfway <= EventCount /\ EventCount \in Nat
BY PilotAssumption DEF Halfway

\* Children that are killed are not alive; the others are what they were.
Stopped(nodes) ==
    \A m \in Node :
        /\ node'[m].kind = node[m].kind
        /\ \/ node'[m] = node[m]
           \/ node'[m].step = "failed" /\ Alive(m)
        /\ m \in nodes => ~Alive(m)'

LEMMA ChildrenStop ==
  ASSUME node \in [Node -> Child], NEW nodes \in SUBSET Node, Killed(nodes)
  PROVE  Stopped(nodes)
<1>1. \A c \in Child : LET d == [c EXCEPT !.step = "failed"] IN
                         d.step = "failed" /\ d.kind = c.kind
  BY DEF Child
<1>2. ASSUME NEW m \in Node
      PROVE  /\ node'[m].kind = node[m].kind
             /\ \/ node'[m] = node[m]
                \/ node'[m].step = "failed" /\ Alive(m)
             /\ m \in nodes => ~Alive(m)'
  BY <1>1 DEF Killed, Alive
<1> QED
  BY <1>2 DEF Stopped

\* The node that is next is to have its task.
LEMMA NextActiveTells ==
  ASSUME PilotInv, Parts, NextActive
  PROVE  Parts'
<1> USE DEF Opening, BeforeTry, DelayedFirst, BeforeActive, Cutting, Restarting,
            Reconnecting, BeforeClose, Sealing, BeforeDelayed, Proving, BeforeReviews,
            Reviewing, Restoring, Enqueuing, Ending
<1>t. /\ run \in RunRecord /\ hub \in HubRecord /\ node \in [Node -> Child]
      /\ data \in Data /\ disk \in Disk
      /\ Node = Active \cup {Delayed} /\ Delayed \notin Active
  BY DEF PilotInv, Types, Node
<1>1. /\ run.at = "next_active"
      /\ \/ run.todo = {} /\ Went("publish")
         \/ \E n \in run.todo : Enqueued(n, "observe", "next_active", run.todo \ {n})
  <2>1. CASE run.todo = {}
    BY <1>t, <2>1, RunWent DEF NextActive, At, Steps, Go
  <2>2. CASE run.todo # {}
    <3>1. PICK n \in run.todo :
            run' = [Enqueue(n, "observe", "next_active") EXCEPT !.todo = @ \ {n}]
      BY <2>2 DEF NextActive
    <3> QED
      BY <1>t, <3>1, RunEnqueued DEF NextActive, At, Steps, RunRecord
  <2> QED
    BY <2>1, <2>2
<1>2. /\ conf' = conf /\ hub' = hub /\ node' = node /\ report' = report /\ cut' = cut
      /\ unacknowledged' = unacknowledged /\ data' = data /\ disk' = disk
  BY DEF NextActive, Quiet, outcome, stored, children
<1>3. Place = "next_active" /\ Place' = IF run.todo = {} THEN "publish" ELSE "next_active"
  BY <1>1 DEF Place, Went, Enqueued
<1>4. /\ \A n \in Node, kind \in {"observe", "review"} : Unposted(n, kind)' <=> Unposted(n, kind)
      /\ \A n \in Node : Reviewer(n)' <=> Reviewer(n)
      /\ \A n \in Node, kind \in {"observe", "review"} :
           Collected(n, kind)' <=> Collected(n, kind)
  BY <1>t, <1>1, <1>2, <1>3 DEF Unposted, Reviewer, Collected, ToPost, Went, Enqueued
<1>5. Course'
  BY <1>t, <1>1, <1>2, <1>3 DEF Parts, Course, For, Closed, Went, Enqueued
<1>6. RowsTell'
  <2>1. Closed' <=> Closed
    BY <1>2 DEF Closed
  <2> QED
    BY <1>t, <1>1, <1>2, <1>3, <1>4, <2>1 DEF Parts, RowsTell, Went, Enqueued
<1>7. Counted'
  BY <1>2 DEF Parts, Counted
<1>8. ChildrenTell'
  BY <1>t, <1>1, <1>2, <1>3, <1>4 DEF Parts, ChildrenTell
<1>9. Settles'
  BY <1>t, <1>1, <1>2, <1>3, <1>4 DEF Parts, Settles, Went, Enqueued
<1>10. StayGone'
  BY <1>1, <1>3 DEF StayGone, Went, Enqueued
<1>11. Reports'
  <2>1. data.events = 0
    BY <1>3 DEF Parts, Course
  <2>2. CutBy' = CutBy /\ BackBy' = BackBy /\ Restarts' = Restarts
    BY <1>1, <1>2, <1>3, <2>1, HalfwayIsReached
       DEF CutBy, BackBy, Restarts, PastHalf, Went, Enqueued
  <2> QED
    BY <1>1, <1>2, <2>2 DEF Parts, Reports, Went, Enqueued
<1>12. Links'
  BY <1>t, <1>1, <1>2, <1>3 DEF Parts, Links, Went, Enqueued
<1> QED
  BY <1>5, <1>6, <1>7, <1>8, <1>9, <1>10, <1>11, <1>12 DEF Parts

\* The node has authenticated.
LEMMA LinkTells ==
  ASSUME PilotInv, Parts, AwaitLink
  PROVE  Parts'
<1> USE DEF Opening, BeforeTry, DelayedFirst, BeforeActive, Cutting, Restarting,
            Reconnecting, BeforeClose, Sealing, BeforeDelayed, Proving, BeforeReviews,
            Reviewing, Restoring, Enqueuing, Ending
<1>t. /\ run \in RunRecord /\ hub \in HubRecord /\ node \in [Node -> Child]
      /\ data \in Data /\ disk \in Disk
      /\ Node = Active \cup {Delayed} /\ Delayed \notin Active
  BY DEF PilotInv, Types, Node
<1>1. run.at = "await_link" /\ Went("post_task") /\ run.who \in hub.connected
  BY <1>t, RunWent DEF AwaitLink, At, Steps, Connected
<1>2. /\ conf' = conf /\ hub' = hub /\ node' = node /\ report' = report /\ cut' = cut
      /\ unacknowledged' = unacknowledged /\ data' = data /\ disk' = disk
  BY DEF AwaitLink, Quiet, outcome, stored, children
<1>3. Place' = Place
  BY <1>1 DEF Place, Went
<1>4. /\ \A n \in Node, kind \in {"observe", "review"} : Unposted(n, kind)' <=> Unposted(n, kind)
      /\ \A n \in Node : Reviewer(n)' <=> Reviewer(n)
      /\ \A n \in Node, kind \in {"observe", "review"} :
           Collected(n, kind)' <=> Collected(n, kind)
  BY <1>t, <1>1, <1>2, <1>3 DEF Unposted, Reviewer, Collected, ToPost, Went
<1>5. Course'
  BY <1>t, <1>1, <1>2, <1>3 DEF Parts, Course, For, Closed, Went
<1>6. RowsTell'
  <2>1. Closed' <=> Closed
    BY <1>2 DEF Closed
  <2> QED
    BY <1>t, <1>1, <1>2, <1>3, <1>4, <2>1 DEF Parts, RowsTell, Went
<1>7. Counted'
  BY <1>2 DEF Parts, Counted
<1>8. ChildrenTell'
  BY <1>t, <1>1, <1>2, <1>3, <1>4 DEF Parts, ChildrenTell
<1>9. Settles'
  BY <1>t, <1>1, <1>2, <1>3, <1>4 DEF Parts, Settles, Went
<1>10. StayGone'
  BY <1>1, <1>3 DEF StayGone, Went
<1>11. Reports'
  BY <1>t, <1>1, <1>2, <1>3 DEF Parts, Reports, CutBy, BackBy, Restarts, PastHalf, Went
<1>12. Links'
  BY <1>t, <1>1, <1>2, <1>3 DEF Parts, Links, Went
<1> QED
  BY <1>5, <1>6, <1>7, <1>8, <1>9, <1>10, <1>11, <1>12 DEF Parts

\* The task is posted.
LEMMA PostTells ==
  ASSUME PilotInv, Parts, PostTask
  PROVE  Parts'
<1> USE DEF Opening, BeforeTry, DelayedFirst, BeforeActive, Cutting, Restarting,
            Reconnecting, BeforeClose, Sealing, BeforeDelayed, Proving, BeforeReviews,
            Reviewing, Restoring, Enqueuing, Ending
<1>t. /\ run \in RunRecord /\ hub \in HubRecord /\ node \in [Node -> Child]
      /\ data \in Data /\ disk \in Disk
      /\ Node = Active \cup {Delayed} /\ Delayed \notin Active
  BY DEF PilotInv, Types, Node
<1>c. /\ run.who \in Node /\ run.kind \in {"observe", "review"} /\ Place = run.then
      /\ run.then \in {"kill_delayed", "next_active", "collect_delayed", "collect_review"}
      /\ run.kind = IF run.then = "collect_review" THEN "review" ELSE "observe"
      /\ run.then \in {"kill_delayed", "collect_delayed"} => run.who = Delayed
      /\ run.then = "next_active" => run.who \in Active \ run.todo
      /\ run.then = "kill_delayed" => conf.faults
      /\ run.then = "collect_delayed" => ~conf.faults
      /\ run.then = "collect_review" => run.who \notin run.todo
  BY <1>t DEF Parts, Course, For, Place, RunRecord, PostTask, At
<1>1. run.at = "post_task" /\ Went("await_acceptance")
  BY <1>t, RunWent DEF PostTask, At, Steps
<1>2. /\ conf' = conf /\ hub' = hub /\ node' = node /\ report' = report /\ cut' = cut
      /\ unacknowledged' = unacknowledged /\ disk' = disk
      /\ data'.events = data.events /\ data'.session = data.session
      /\ data'.rows = RowsWith(run.who, run.kind, "queued")
  BY <1>t DEF PostTask, Quiet, outcome, children, Data, RowsWith
<1>3. Place' = Place
  BY <1>1 DEF Place, Went
<1>r. /\ data.rows[<<run.who, run.kind>>] = "none"
      /\ data'.rows[<<run.who, run.kind>>] = "queued"
      /\ \A n \in Node, kind \in {"observe", "review"} :
           ~(n = run.who /\ kind = run.kind)
             => data'.rows[<<n, kind>>] = data.rows[<<n, kind>>]
      /\ Taken(data'.rows) = Taken(data.rows)
  <2>1. data.rows[<<run.who, run.kind>>] = "none"
    BY <1>c, <1>1 DEF Parts, RowsTell, Unposted, ToPost
  <2>2. RowIsSet(run.who, run.kind, "queued")
    BY <1>t, <1>c, RowSet
  <2> QED
    BY <1>2, <2>1, <2>2, Pairs DEF RowIsSet
<1>4. /\ \A n \in Node, kind \in {"observe", "review"} :
           Unposted(n, kind)' <=> Unposted(n, kind) /\ ~(n = run.who /\ kind = run.kind)
      /\ \A n \in Node : Reviewer(n)' <=> Reviewer(n)
      /\ \A n \in Node, kind \in {"observe", "review"} :
           Collected(n, kind)' <=> Collected(n, kind)
  <2>1. ASSUME NEW n \in Node
        PROVE  Unposted(n, "review")'
                 <=> Unposted(n, "review") /\ ~(n = run.who /\ run.kind = "review")
    BY <1>1, <1>3, <1>c DEF Unposted, ToPost, Went
  <2>2. ASSUME NEW n \in Node
        PROVE  Unposted(n, "observe")'
                 <=> Unposted(n, "observe") /\ ~(n = run.who /\ run.kind = "observe")
    BY <1>t, <1>1, <1>2, <1>3, <1>c DEF Unposted, ToPost, Went
  <2>3. /\ \A n : Reviewer(n)' <=> Reviewer(n)
        /\ \A n, kind : Collected(n, kind)' <=> Collected(n, kind)
    BY <1>1, <1>3 DEF Reviewer, Collected, Went
  <2> QED
    BY <1>c, <2>1, <2>2, <2>3
<1>5. Course'
  BY <1>t, <1>1, <1>2, <1>3, <1>c DEF Parts, Course, For, Closed, Went
<1>6. RowsTell'
  <2>1. ASSUME NEW n \in Node, NEW kind \in {"observe", "review"}
        PROVE  /\ data'.rows[<<n, kind>>] = "none" <=> Unposted(n, kind)'
               /\ data'.rows[<<n, kind>>] = "queued" => n = run.who /\ kind = run.kind
               /\ ~Closed => data'.rows[<<n, kind>>] \notin {"answered", "confirmed"}
    BY <1>1, <1>4, <1>r DEF Parts, RowsTell
  <2> QED
    BY <1>1, <1>2, <2>1 DEF RowsTell, Closed, Went
<1>7. Counted'
  BY <1>2, <1>r DEF Parts, Counted
<1>8. ChildrenTell'
  <2>1. ASSUME NEW n \in Node, data.rows[<<n, node[n].kind>>] # "none"
        PROVE  data'.rows[<<n, node[n].kind>>] = data.rows[<<n, node[n].kind>>]
    BY <1>t, <1>r, <2>1 DEF Child
  <2> QED
    BY <1>2, <1>4, <2>1 DEF Parts, ChildrenTell
<1>9. Settles'
  <2>1. ASSUME NEW n \in Node, NEW kind \in {"observe", "review"}, Collected(n, kind)
        PROVE  data'.rows[<<n, kind>>] = "confirmed"
    BY <1>r, <2>1 DEF Parts, Settles
  <2> QED
    BY <1>1, <1>4, <2>1 DEF Settles, Went
<1>10. StayGone'
  BY <1>1, <1>3 DEF StayGone, Went
<1>11. Reports'
  BY <1>t, <1>1, <1>2, <1>3, <1>c DEF Parts, Reports, CutBy, BackBy, Restarts, PastHalf, Went
<1>12. Links'
  BY <1>t, <1>1, <1>2, <1>3, <1>c DEF Parts, Links, Went
<1> QED
  BY <1>5, <1>6, <1>7, <1>8, <1>9, <1>10, <1>11, <1>12 DEF Parts

\* The task is accepted.
LEMMA AcceptanceTells ==
  ASSUME PilotInv, Parts, AwaitAcceptance
  PROVE  Parts'
<1> USE DEF Opening, BeforeTry, DelayedFirst, BeforeActive, Cutting, Restarting,
            Reconnecting, BeforeClose, Sealing, BeforeDelayed, Proving, BeforeReviews,
            Reviewing, Restoring, Enqueuing, Ending
<1>t. /\ run \in RunRecord /\ hub \in HubRecord /\ node \in [Node -> Child]
      /\ data \in Data /\ disk \in Disk
      /\ Node = Active \cup {Delayed} /\ Delayed \notin Active
  BY DEF PilotInv, Types, Node
<1>c. /\ run.who \in Node /\ run.kind \in {"observe", "review"} /\ Place = run.then
      /\ run.then \in {"kill_delayed", "next_active", "collect_delayed", "collect_review"}
      /\ run.kind = IF run.then = "collect_review" THEN "review" ELSE "observe"
      /\ run.then \in {"kill_delayed", "collect_delayed"} => run.who = Delayed
      /\ run.then = "next_active" => run.who \in Active \ run.todo
      /\ run.then = "kill_delayed" => conf.faults
      /\ run.then = "collect_delayed" => ~conf.faults
      /\ run.then = "collect_review" => run.who \notin run.todo
  BY <1>t DEF Parts, Course, For, Place, RunRecord, AwaitAcceptance, At
<1>1. /\ run.at = "await_acceptance" /\ Went(run.then)
      /\ data.rows[<<run.who, run.kind>>] # "queued"
  BY <1>t, RunWent DEF AwaitAcceptance, At, RunRecord
<1>2. /\ conf' = conf /\ hub' = hub /\ node' = node /\ report' = report /\ cut' = cut
      /\ unacknowledged' = unacknowledged /\ data' = data /\ disk' = disk
  BY DEF AwaitAcceptance, Quiet, outcome, stored, children
<1>3. Place' = run'.at
  BY <1>c, <1>1 DEF Place, Went
<1>4. /\ \A n \in Node, kind \in {"observe", "review"} : Unposted(n, kind)' <=> Unposted(n, kind)
      /\ \A n \in Node : Reviewer(n)' <=> Reviewer(n)
      /\ \A n \in Node, kind \in {"observe", "review"} :
           Collected(n, kind)' <=> Collected(n, kind)
  BY <1>t, <1>1, <1>2, <1>3, <1>c DEF Unposted, Reviewer, Collected, ToPost, Went
<1>5. Course'
  BY <1>t, <1>1, <1>2, <1>3, <1>c DEF Parts, Course, For, Closed, Went
<1>6. RowsTell'
  <2>1. Closed' <=> Closed
    BY <1>2 DEF Closed
  <2> QED
    BY <1>t, <1>1, <1>2, <1>3, <1>4, <2>1, <1>c DEF Parts, RowsTell, Went
<1>7. Counted'
  BY <1>2 DEF Parts, Counted
<1>8. ChildrenTell'
  BY <1>t, <1>1, <1>2, <1>3, <1>4, <1>c DEF Parts, ChildrenTell
<1>9. Settles'
  BY <1>t, <1>1, <1>2, <1>3, <1>4, <1>c DEF Parts, Settles, Went
<1>10. StayGone'
  BY <1>c, <1>1 DEF StayGone, Went
<1>11. Reports'
  BY <1>t, <1>1, <1>2, <1>3, <1>c DEF Parts, Reports, CutBy, BackBy, Restarts, PastHalf, Went
<1>12. Links'
  BY <1>t, <1>1, <1>2, <1>3, <1>c DEF Parts, Links, Went
<1> QED
  BY <1>5, <1>6, <1>7, <1>8, <1>9, <1>10, <1>11, <1>12 DEF Parts

\* Nodes are killed.
LEMMA KillTells ==
  ASSUME PilotInv, Parts, KillNodes
  PROVE  Parts'
<1> USE DEF Opening, BeforeTry, DelayedFirst, BeforeActive, Cutting, Restarting,
            Reconnecting, BeforeClose, Sealing, BeforeDelayed, Proving, BeforeReviews,
            Reviewing, Restoring, Enqueuing, Ending
<1>t. /\ run \in RunRecord /\ hub \in HubRecord /\ node \in [Node -> Child]
      /\ data \in Data /\ disk \in Disk
      /\ Node = Active \cup {Delayed} /\ Delayed \notin Active
  BY DEF PilotInv, Types, Node
<1>1. \/ run.at = "kill_delayed" /\ Went("await_delayed_gone")
      \/ run.at = "kill_active" /\ Went("await_active_gone")
  BY <1>t, RunWent DEF KillNodes, At, Steps
<1>2. /\ conf' = conf /\ hub' = hub /\ report' = report /\ cut' = cut /\ unacknowledged' = unacknowledged
      /\ data' = data /\ disk' = disk
      /\ Stopped(IF run.at = "kill_delayed" THEN {Delayed} ELSE Active)
  BY <1>t, ChildrenStop DEF KillNodes, At, Quiet, outcome, stored
<1>3. Place = run.at /\ Place' = run'.at
  BY <1>1 DEF Place, Went
<1>4. /\ \A n \in Node, kind \in {"observe", "review"} : Unposted(n, kind)' <=> Unposted(n, kind)
      /\ \A n \in Node : Reviewer(n)' <=> Reviewer(n)
      /\ \A n \in Node, kind \in {"observe", "review"} :
           Collected(n, kind)' <=> Collected(n, kind)
  BY <1>t, <1>1, <1>2, <1>3 DEF Unposted, Reviewer, Collected, ToPost, Went
<1>5. Course'
  BY <1>t, <1>1, <1>2, <1>3 DEF Parts, Course, For, Closed, Went
<1>6. RowsTell'
  <2>1. Closed' <=> Closed
    BY <1>2 DEF Closed
  <2> QED
    BY <1>t, <1>1, <1>2, <1>3, <1>4, <2>1 DEF Parts, RowsTell, Went
<1>7. Counted'
  BY <1>2 DEF Parts, Counted
<1>8. ChildrenTell'
  BY <1>t, <1>2, <1>4 DEF Parts, ChildrenTell, Stopped
<1>9. Settles'
  BY <1>t, <1>1, <1>2, <1>3, <1>4 DEF Parts, Settles, Went
<1>10. StayGone'
  BY <1>t, <1>1, <1>2 DEF StayGone, Stopped, Went
<1>11. Reports'
  BY <1>t, <1>1, <1>2, <1>3 DEF Parts, Reports, CutBy, BackBy, Restarts, PastHalf, Went
<1>12. Links'
  <2>1. /\ Links /\ conf.faults
        /\ run'.at \notin Enqueuing /\ Place' \notin Opening \cup {"start_delayed"}
        /\ \/ Place' = "await_active_gone"
           \/ Place \in BeforeActive /\ Place' \in BeforeActive
    BY <1>1, <1>3 DEF Parts, Course, Went
  <2>2. \A m \in Node : (node'[m].step = "none" <=> node[m].step = "none")
    BY <1>2 DEF Stopped, Alive
  <2>3. Place' \notin {"next_active", "start_delayed_again", "collect_delayed"} \cup Proving \cup Reviewing
    BY <1>1, <1>3 DEF Went
  <2>4. \A m \in Node : node'[m].step = "none" => m \notin hub'.connected
    BY <1>2, <2>1, <2>2 DEF Links
  <2>5. Place' \in BeforeActive => \A m \in Active : node'[m].step = "none"
    BY <1>t, <2>1, <2>2 DEF Links
  <2> QED
    BY <1>2, <2>1, <2>3, <2>4, <2>5 DEF Links
<1> QED
  BY <1>5, <1>6, <1>7, <1>8, <1>9, <1>10, <1>11, <1>12 DEF Parts

\* The Relay has found that they are gone.
LEMMA GoneTells ==
  ASSUME PilotInv, Parts, AwaitGone
  PROVE  Parts'
<1> USE DEF Opening, BeforeTry, DelayedFirst, BeforeActive, Cutting, Restarting,
            Reconnecting, BeforeClose, Sealing, BeforeDelayed, Proving, BeforeReviews,
            Reviewing, Restoring, Enqueuing, Ending
<1>t. /\ run \in RunRecord /\ hub \in HubRecord /\ node \in [Node -> Child]
      /\ data \in Data /\ disk \in Disk
      /\ Node = Active \cup {Delayed} /\ Delayed \notin Active
  BY DEF PilotInv, Types, Node
<1>1. \/ run.at = "await_delayed_gone" /\ Went("start_active")
      \/ run.at = "await_active_gone" /\ Went("stop_server")
  BY <1>t, RunWent DEF AwaitGone, At, Steps
<1>2. /\ conf' = conf /\ hub' = hub /\ node' = node /\ unacknowledged' = unacknowledged /\ data' = data
      /\ disk' = disk
  BY DEF AwaitGone, stored, children
<1>3. Place = run.at /\ Place' = run'.at
  BY <1>1 DEF Place, Went
<1>n. PICK nodes \in SUBSET Node :
        /\ nodes = IF run.at = "await_delayed_gone" THEN {Delayed} ELSE Active
        /\ report' = [report EXCEPT !.disconnected = @ \cup nodes]
        /\ cut' = cut \cup {n \in nodes :
                              data.rows[<<n, "observe">>] = "accepted" /\ ~Alive(n)}
  BY <1>t DEF AwaitGone, At
<1>4. /\ \A n \in Node, kind \in {"observe", "review"} : Unposted(n, kind)' <=> Unposted(n, kind)
      /\ \A n \in Node : Reviewer(n)' <=> Reviewer(n)
      /\ \A n \in Node, kind \in {"observe", "review"} :
           Collected(n, kind)' <=> Collected(n, kind)
  BY <1>t, <1>1, <1>2, <1>3 DEF Unposted, Reviewer, Collected, ToPost, Went
<1>5. Course'
  BY <1>t, <1>1, <1>2, <1>3 DEF Parts, Course, For, Closed, Went
<1>6. RowsTell'
  <2>1. Closed' <=> Closed
    BY <1>2 DEF Closed
  <2> QED
    BY <1>t, <1>1, <1>2, <1>3, <1>4, <2>1 DEF Parts, RowsTell, Went
<1>7. Counted'
  BY <1>2 DEF Parts, Counted
<1>8. ChildrenTell'
  BY <1>t, <1>1, <1>2, <1>3, <1>4 DEF Parts, ChildrenTell
<1>9. Settles'
  BY <1>t, <1>1, <1>2, <1>3, <1>4 DEF Parts, Settles, Went
<1>10. StayGone'
  BY <1>1, <1>3 DEF StayGone, Went
<1>11. Reports'
  <2>1. Reports /\ StayGone /\ RowsTell /\ conf.faults /\ ~Closed
    BY <1>1, <1>3 DEF Parts, Course
  <2>2. ASSUME NEW n \in nodes
        PROVE  data.rows[<<n, "observe">>] = "accepted" /\ ~Alive(n)
    <3>1. ~Unposted(n, "observe")
      BY <1>t, <1>1, <1>3, <1>n, <2>1 DEF Unposted, ToPost
    <3>2. data.rows[<<n, "observe">>] \in {"none", "queued", "accepted", "answered", "confirmed"}
      BY <1>t, Pairs DEF Data, Rows
    <3>3. data.rows[<<n, "observe">>] = "accepted"
      BY <1>1, <1>n, <2>1, <3>1, <3>2 DEF RowsTell
    <3> QED
      BY <1>1, <1>n, <2>1, <3>3 DEF StayGone
  <2>3. cut' = cut \cup nodes
    BY <1>n, <2>2
  <2>4. /\ report'.disconnected = report.disconnected \cup nodes
        /\ report'.reconnected = report.reconnected /\ report'.lost = report.lost
        /\ report'.restored = report.restored
        /\ report' \in ReportRecord
    BY <1>n, <2>1 DEF Reports, ReportRecord
  <2>5. CutBy' = CutBy \cup nodes /\ BackBy' = BackBy /\ Restarts' = Restarts
    BY <1>t, <1>1, <1>2, <1>3, <1>n, <2>1 DEF CutBy, BackBy, Restarts, PastHalf, Went
  <2> QED
    BY <1>1, <1>2, <2>1, <2>3, <2>4, <2>5 DEF Reports, Went
<1>12. Links'
  BY <1>t, <1>1, <1>2, <1>3 DEF Parts, Links, Went
<1> QED
  BY <1>5, <1>6, <1>7, <1>8, <1>9, <1>10, <1>11, <1>12 DEF Parts

\* An event is published, or the losses are armed.
LEMMA PublishTells ==
  ASSUME PilotInv, Parts, Publish
  PROVE  Parts'
<1> USE DEF Opening, BeforeTry, DelayedFirst, BeforeActive, Cutting, Restarting,
            Reconnecting, BeforeClose, Sealing, BeforeDelayed, Proving, BeforeReviews,
            Reviewing, Restoring, Enqueuing, Ending
<1>t. /\ run \in RunRecord /\ hub \in HubRecord /\ node \in [Node -> Child]
      /\ data \in Data /\ disk \in Disk
      /\ Node = Active \cup {Delayed} /\ Delayed \notin Active
  BY DEF PilotInv, Types, Node
<1>1. /\ run.at = "publish" /\ data.events \in Nat /\ data.events <= EventCount
      /\ \/ /\ data.events < EventCount /\ data'.events = data.events + 1
            /\ IF conf.faults /\ data'.events = Halfway THEN Went("kill_active")
                                                         ELSE Went("publish")
         \/ data'.events = data.events /\ data.events = EventCount /\ Went("close")
  BY <1>t, RunWent, PilotAssumption DEF Publish, At, Steps, PilotInv, DataHolds, Data
<1>2. /\ conf' = conf /\ node' = node /\ report' = report /\ cut' = cut /\ unacknowledged' = unacknowledged
      /\ disk' = disk
      /\ hub'.connected = hub.connected /\ hub'.dropped = hub.dropped
      /\ hub'.acceptances = hub.acceptances /\ hub'.recoveries = hub.recoveries
      /\ data'.rows = data.rows /\ data'.session = data.session
  BY <1>t DEF Publish, Quiet, outcome, Data, HubRecord
<1>3. Place = "publish" /\ Place' = run'.at
  BY <1>1 DEF Place, Went
<1>4. /\ \A n \in Node, kind \in {"observe", "review"} : Unposted(n, kind)' <=> Unposted(n, kind)
      /\ \A n \in Node : Reviewer(n)' <=> Reviewer(n)
      /\ \A n \in Node, kind \in {"observe", "review"} :
           Collected(n, kind)' <=> Collected(n, kind)
  BY <1>t, <1>1, <1>2, <1>3, HalfwayIsReached DEF Unposted, Reviewer, Collected, ToPost, Went
<1>5. Course'
  BY <1>t, <1>1, <1>2, <1>3, HalfwayIsReached DEF Parts, Course, For, Closed, Went
<1>6. RowsTell'
  BY <1>1, <1>2, <1>3, <1>4 DEF Parts, RowsTell, Closed, Went
<1>7. Counted'
  BY <1>2 DEF Parts, Counted
<1>8. ChildrenTell'
  BY <1>t, <1>1, <1>2, <1>3, <1>4, HalfwayIsReached DEF Parts, ChildrenTell
<1>9. Settles'
  BY <1>t, <1>1, <1>2, <1>3, <1>4, HalfwayIsReached DEF Parts, Settles, Went
<1>10. StayGone'
  BY <1>1, <1>3 DEF StayGone, Went
<1>11. Reports'
  BY <1>t, <1>1, <1>2, <1>3, HalfwayIsReached DEF Parts, Reports, CutBy, BackBy, Restarts, PastHalf, Went
<1>12. Links'
  BY <1>t, <1>1, <1>2, <1>3, HalfwayIsReached DEF Parts, Links, Went
<1> QED
  BY <1>5, <1>6, <1>7, <1>8, <1>9, <1>10, <1>11, <1>12 DEF Parts

-----------------------------------------------------------------------------
(* The run: the server restarts, and the session is closed                 *)

\* A server that stops leaves its nodes without a connection.
CutOff ==
    \A m \in Node :
        /\ node'[m].kind = node[m].kind
        /\ \/ node'[m] = node[m]
           \/ node'[m].step = "lost" /\ node[m].step \in Linked

LEMMA ServerCuts ==
  ASSUME node \in [Node -> Child], \A n \in serves : node[n].step \in Linked, ServerStops
  PROVE  CutOff
<1>1. \A c \in Child : LET d == [c EXCEPT !.step = "lost"] IN
                         d.step = "lost" /\ d.kind = c.kind
  BY DEF Child
<1>2. node' = [n \in Node |-> IF n \in serves THEN [node[n] EXCEPT !.step = "lost"]
                                              ELSE node[n]]
  BY DEF ServerStops
<1> QED
  BY <1>1, <1>2 DEF CutOff

\* The server stops, to be restarted or for the restore.
LEMMA StopTells ==
  ASSUME PilotInv, Parts, StopServer
  PROVE  Parts'
<1> USE DEF Opening, BeforeTry, DelayedFirst, BeforeActive, Cutting, Restarting,
            Reconnecting, BeforeClose, Sealing, BeforeDelayed, Proving, BeforeReviews,
            Reviewing, Restoring, Enqueuing, Ending
<1>t. /\ run \in RunRecord /\ hub \in HubRecord /\ node \in [Node -> Child]
      /\ data \in Data /\ disk \in Disk
      /\ Node = Active \cup {Delayed} /\ Delayed \notin Active
  BY DEF PilotInv, Types, Node
<1>1. \/ run.at = "stop_server" /\ Went("dump_state")
      \/ run.at = "stop_for_restore" /\ Went("tamper")
  BY <1>t, RunWent DEF StopServer, At, Steps
<1>2. /\ conf' = conf /\ report' = report /\ cut' = cut /\ unacknowledged' = unacknowledged /\ data' = data
      /\ disk' = disk
      /\ hub'.connected = hub.connected /\ hub'.dropped = hub.dropped
      /\ hub'.acceptances = hub.acceptances /\ hub'.recoveries = hub.recoveries
      /\ CutOff
  <2>1. CutOff
    BY <1>t, ServerCuts DEF StopServer, PilotInv, Order
  <2> QED
    BY <1>t, <2>1 DEF StopServer, ServerStops, Quiet, outcome, stored, HubRecord
<1>3. Place = run.at /\ Place' = run'.at
  BY <1>1 DEF Place, Went
<1>4. /\ \A n \in Node, kind \in {"observe", "review"} : Unposted(n, kind)' <=> Unposted(n, kind)
      /\ \A n \in Node : Reviewer(n)' <=> Reviewer(n)
      /\ \A n \in Node, kind \in {"observe", "review"} :
           Collected(n, kind)' <=> Collected(n, kind)
  BY <1>t, <1>1, <1>2, <1>3 DEF Unposted, Reviewer, Collected, ToPost, Went
<1>5. Course'
  BY <1>t, <1>1, <1>2, <1>3 DEF Parts, Course, For, Closed, Went
<1>6. RowsTell'
  <2>1. Closed' <=> Closed
    BY <1>2 DEF Closed
  <2> QED
    BY <1>t, <1>1, <1>2, <1>3, <1>4, <2>1 DEF Parts, RowsTell, Went
<1>7. Counted'
  BY <1>2 DEF Parts, Counted
<1>8. ChildrenTell'
  BY <1>t, <1>2, <1>4 DEF Parts, ChildrenTell, CutOff
<1>9. Settles'
  BY <1>t, <1>1, <1>2, <1>3, <1>4 DEF Parts, Settles, Went
<1>10. StayGone'
  BY <1>1, <1>3 DEF StayGone, Went
<1>11. Reports'
  BY <1>t, <1>1, <1>2, <1>3 DEF Parts, Reports, CutBy, BackBy, Restarts, PastHalf, Went
<1>12. Links'
  <2>1. \A m \in Node : (node'[m].step = "none" <=> node[m].step = "none")
    BY <1>2 DEF CutOff, Linked
  <2>2. \A m \in Node : node'[m].step = "none" => m \notin hub'.connected
    BY <1>2, <2>1 DEF Parts, Links
  <2>3. /\ run'.at \notin Enqueuing /\ Place' \in {"dump_state", "tamper"}
        /\ Place' = "dump_state" => conf'.faults
    BY <1>1, <1>2, <1>3 DEF Parts, Course, Went
  <2> QED
    BY <2>2, <2>3 DEF Links
<1> QED
  BY <1>5, <1>6, <1>7, <1>8, <1>9, <1>10, <1>11, <1>12 DEF Parts

\* The server is started again, with what it had counted.
LEMMA RestartTells ==
  ASSUME PilotInv, Parts, RestartServer
  PROVE  Parts'
<1> USE DEF Opening, BeforeTry, DelayedFirst, BeforeActive, Cutting, Restarting,
            Reconnecting, BeforeClose, Sealing, BeforeDelayed, Proving, BeforeReviews,
            Reviewing, Restoring, Enqueuing, Ending
<1>t. /\ run \in RunRecord /\ hub \in HubRecord /\ node \in [Node -> Child]
      /\ data \in Data /\ disk \in Disk
      /\ Node = Active \cup {Delayed} /\ Delayed \notin Active
  BY DEF PilotInv, Types, Node
<1>1. \/ run.at = "restart_server" /\ Went("restart_nodes")
      \/ run.at = "restart_restored" /\ Went("accept")
  BY <1>t, RunWent DEF RestartServer, At, Steps
<1>2. /\ conf' = conf /\ node' = node /\ report' = report /\ cut' = cut /\ unacknowledged' = unacknowledged
      /\ data' = data /\ disk' = disk
      /\ hub'.connected = {} /\ hub'.dropped = hub.dropped
      /\ hub'.acceptances = hub.acceptances /\ hub'.recoveries = hub.recoveries + 1
  BY DEF RestartServer, Carried, NewHub, Quiet, outcome, stored
<1>3. Place = run.at /\ Place' = run'.at
  BY <1>1 DEF Place, Went
<1>4. /\ \A n \in Node, kind \in {"observe", "review"} : Unposted(n, kind)' <=> Unposted(n, kind)
      /\ \A n \in Node : Reviewer(n)' <=> Reviewer(n)
      /\ \A n \in Node, kind \in {"observe", "review"} :
           Collected(n, kind)' <=> Collected(n, kind)
  BY <1>t, <1>1, <1>2, <1>3 DEF Unposted, Reviewer, Collected, ToPost, Went
<1>5. Course'
  BY <1>t, <1>1, <1>2, <1>3 DEF Parts, Course, For, Closed, Went
<1>6. RowsTell'
  <2>1. Closed' <=> Closed
    BY <1>2 DEF Closed
  <2> QED
    BY <1>t, <1>1, <1>2, <1>3, <1>4, <2>1 DEF Parts, RowsTell, Went
<1>7. Counted'
  BY <1>2 DEF Parts, Counted
<1>8. ChildrenTell'
  BY <1>t, <1>1, <1>2, <1>3, <1>4 DEF Parts, ChildrenTell
<1>9. Settles'
  BY <1>t, <1>1, <1>2, <1>3, <1>4 DEF Parts, Settles, Went
<1>10. StayGone'
  BY <1>1, <1>3 DEF StayGone, Went
<1>11. Reports'
  <2>1. Reports /\ hub.recoveries \in Nat
    BY <1>t DEF Parts, HubRecord
  <2>2. CutBy' = CutBy /\ BackBy' = BackBy
    BY <1>t, <1>1, <1>2, <1>3 DEF CutBy, BackBy, PastHalf, Went
  <2>3. conf.faults \/ Place = "restart_restored"
    BY <1>1, <1>3 DEF Parts, Course
  <2>4. Restarts' = Restarts + 1
    BY <1>1, <1>2, <1>3, <2>3 DEF Restarts, PastHalf, Went
  <2> QED
    BY <1>1, <1>2, <2>1, <2>2, <2>4 DEF Reports, Went
<1>12. Links'
  BY <1>t, <1>1, <1>2, <1>3 DEF Parts, Links, Went
<1> QED
  BY <1>5, <1>6, <1>7, <1>8, <1>9, <1>10, <1>11, <1>12 DEF Parts

\* The nodes are started again.
LEMMA RestartNodesTells ==
  ASSUME PilotInv, Parts, RestartNodes
  PROVE  Parts'
<1> USE DEF Opening, BeforeTry, DelayedFirst, BeforeActive, Cutting, Restarting,
            Reconnecting, BeforeClose, Sealing, BeforeDelayed, Proving, BeforeReviews,
            Reviewing, Restoring, Enqueuing, Ending
<1>t. /\ run \in RunRecord /\ hub \in HubRecord /\ node \in [Node -> Child]
      /\ data \in Data /\ disk \in Disk
      /\ Node = Active \cup {Delayed} /\ Delayed \notin Active
  BY DEF PilotInv, Types, Node
<1>1. run.at = "restart_nodes" /\ Went("await_reconnected")
  BY <1>t, RunWent DEF RestartNodes, At, Steps
<1>2. /\ conf' = conf /\ hub' = hub /\ report' = report /\ cut' = cut /\ unacknowledged' = unacknowledged
      /\ data' = data /\ disk' = disk
      /\ Begun(Active, "observe")
  BY <1>t, ChildrenStart DEF RestartNodes, Start, Quiet, outcome, stored
<1>3. Place = run.at /\ Place' = run'.at
  BY <1>1 DEF Place, Went
<1>4. /\ \A n \in Node, kind \in {"observe", "review"} : Unposted(n, kind)' <=> Unposted(n, kind)
      /\ \A n \in Node : Reviewer(n)' <=> Reviewer(n)
      /\ \A n \in Node, kind \in {"observe", "review"} :
           Collected(n, kind)' <=> Collected(n, kind)
  BY <1>t, <1>1, <1>2, <1>3 DEF Unposted, Reviewer, Collected, ToPost, Went
<1>5. Course'
  BY <1>t, <1>1, <1>2, <1>3 DEF Parts, Course, For, Closed, Went
<1>6. RowsTell'
  <2>1. Closed' <=> Closed
    BY <1>2 DEF Closed
  <2> QED
    BY <1>t, <1>1, <1>2, <1>3, <1>4, <2>1 DEF Parts, RowsTell, Went
<1>7. Counted'
  BY <1>2 DEF Parts, Counted
<1>8. ChildrenTell'
  BY <1>t, <1>1, <1>2, <1>3, <1>4 DEF Parts, ChildrenTell, Begun, Reviewer
<1>9. Settles'
  BY <1>t, <1>1, <1>2, <1>3, <1>4 DEF Parts, Settles, Went
<1>10. StayGone'
  BY <1>1, <1>3 DEF StayGone, Went
<1>11. Reports'
  BY <1>t, <1>1, <1>2, <1>3 DEF Parts, Reports, CutBy, BackBy, Restarts, PastHalf, Went
<1>12. Links'
  BY <1>t, <1>1, <1>2, <1>3 DEF Parts, Links, Went, Begun
<1> QED
  BY <1>5, <1>6, <1>7, <1>8, <1>9, <1>10, <1>11, <1>12 DEF Parts

\* The nodes that were killed are connected again.
LEMMA ReconnectedTells ==
  ASSUME PilotInv, Parts, AwaitReconnected
  PROVE  Parts'
<1> USE DEF Opening, BeforeTry, DelayedFirst, BeforeActive, Cutting, Restarting,
            Reconnecting, BeforeClose, Sealing, BeforeDelayed, Proving, BeforeReviews,
            Reviewing, Restoring, Enqueuing, Ending
<1>t. /\ run \in RunRecord /\ hub \in HubRecord /\ node \in [Node -> Child]
      /\ data \in Data /\ disk \in Disk
      /\ Node = Active \cup {Delayed} /\ Delayed \notin Active
  BY DEF PilotInv, Types, Node
<1>1. run.at = "await_reconnected" /\ Went("publish")
  BY <1>t, RunWent DEF AwaitReconnected, At, Steps
<1>2. /\ conf' = conf /\ hub' = hub /\ node' = node /\ cut' = cut /\ unacknowledged' = unacknowledged
      /\ data' = data /\ disk' = disk
      /\ report' = [report EXCEPT !.reconnected = @ \cup Active]
  BY DEF AwaitReconnected, stored, children
<1>3. Place = run.at /\ Place' = run'.at
  BY <1>1 DEF Place, Went
<1>4. /\ \A n \in Node, kind \in {"observe", "review"} : Unposted(n, kind)' <=> Unposted(n, kind)
      /\ \A n \in Node : Reviewer(n)' <=> Reviewer(n)
      /\ \A n \in Node, kind \in {"observe", "review"} :
           Collected(n, kind)' <=> Collected(n, kind)
  BY <1>t, <1>1, <1>2, <1>3 DEF Unposted, Reviewer, Collected, ToPost, Went
<1>5. Course'
  BY <1>t, <1>1, <1>2, <1>3 DEF Parts, Course, For, Closed, Went
<1>6. RowsTell'
  <2>1. Closed' <=> Closed
    BY <1>2 DEF Closed
  <2> QED
    BY <1>t, <1>1, <1>2, <1>3, <1>4, <2>1 DEF Parts, RowsTell, Went
<1>7. Counted'
  BY <1>2 DEF Parts, Counted
<1>8. ChildrenTell'
  BY <1>t, <1>1, <1>2, <1>3, <1>4 DEF Parts, ChildrenTell
<1>9. Settles'
  BY <1>t, <1>1, <1>2, <1>3, <1>4 DEF Parts, Settles, Went
<1>10. StayGone'
  BY <1>1, <1>3 DEF StayGone, Went
<1>11. Reports'
  <2>1. conf.faults /\ data.events >= Halfway
    BY <1>1, <1>3 DEF Parts, Course
  <2>2. BackBy' = BackBy \cup Active /\ CutBy' = CutBy /\ Restarts' = Restarts
    BY <1>t, <1>1, <1>2, <1>3, <2>1 DEF BackBy, CutBy, Restarts, PastHalf, Went
  <2>3. /\ report'.disconnected = report.disconnected /\ report'.lost = report.lost
        /\ report'.reconnected = report.reconnected \cup Active
        /\ report'.restored = report.restored /\ report' \in ReportRecord
    BY <1>t, <1>2 DEF Parts, Reports, ReportRecord
  <2> QED
    BY <1>1, <1>2, <2>2, <2>3 DEF Parts, Reports, Went
<1>12. Links'
  BY <1>t, <1>1, <1>2, <1>3 DEF Parts, Links, Went
<1> QED
  BY <1>5, <1>6, <1>7, <1>8, <1>9, <1>10, <1>11, <1>12 DEF Parts

\* The session is closed.
LEMMA CloseTells ==
  ASSUME PilotInv, Parts, CloseSession
  PROVE  Parts'
<1> USE DEF Opening, BeforeTry, DelayedFirst, BeforeActive, Cutting, Restarting,
            Reconnecting, BeforeClose, Sealing, BeforeDelayed, Proving, BeforeReviews,
            Reviewing, Restoring, Enqueuing, Ending
<1>t. /\ run \in RunRecord /\ hub \in HubRecord /\ node \in [Node -> Child]
      /\ data \in Data /\ disk \in Disk
      /\ Node = Active \cup {Delayed} /\ Delayed \notin Active
  BY DEF PilotInv, Types, Node
<1>1. run.at = "close" /\ Went("finalize")
  BY <1>t, RunWent DEF CloseSession, At, Steps
<1>2. /\ conf' = conf /\ hub' = hub /\ node' = node /\ report' = report /\ cut' = cut
      /\ unacknowledged' = unacknowledged /\ disk' = disk /\ data'.rows = data.rows /\ data'.events = data.events
      /\ data'.session = "closed"
  BY <1>t DEF CloseSession, Quiet, outcome, children, Data
<1>3. Place = run.at /\ Place' = run'.at
  BY <1>1 DEF Place, Went
<1>4. /\ \A n \in Node, kind \in {"observe", "review"} : Unposted(n, kind)' <=> Unposted(n, kind)
      /\ \A n \in Node : Reviewer(n)' <=> Reviewer(n)
      /\ \A n \in Node, kind \in {"observe", "review"} :
           Collected(n, kind)' <=> Collected(n, kind)
  BY <1>t, <1>1, <1>2, <1>3 DEF Unposted, Reviewer, Collected, ToPost, Went
<1>5. Course'
  BY <1>t, <1>1, <1>2, <1>3 DEF Parts, Course, For, Closed, Went
<1>6. RowsTell'
  <2>1. Closed'
    BY <1>2 DEF Closed
  <2> QED
    BY <1>1, <1>2, <1>4, <2>1 DEF Parts, RowsTell, Went
<1>7. Counted'
  BY <1>2 DEF Parts, Counted
<1>8. ChildrenTell'
  BY <1>t, <1>1, <1>2, <1>3, <1>4 DEF Parts, ChildrenTell
<1>9. Settles'
  BY <1>t, <1>1, <1>2, <1>3, <1>4 DEF Parts, Settles, Went
<1>10. StayGone'
  BY <1>1, <1>3 DEF StayGone, Went
<1>11. Reports'
  BY <1>t, <1>1, <1>2, <1>3 DEF Parts, Reports, CutBy, BackBy, Restarts, PastHalf, Went
<1>12. Links'
  BY <1>t, <1>1, <1>2, <1>3 DEF Parts, Links, Went
<1> QED
  BY <1>5, <1>6, <1>7, <1>8, <1>9, <1>10, <1>11, <1>12 DEF Parts

\* The evidence is finalized.
LEMMA FinalizeTells ==
  ASSUME PilotInv, Parts, FinalizeEvidence
  PROVE  Parts'
<1> USE DEF Opening, BeforeTry, DelayedFirst, BeforeActive, Cutting, Restarting,
            Reconnecting, BeforeClose, Sealing, BeforeDelayed, Proving, BeforeReviews,
            Reviewing, Restoring, Enqueuing, Ending
<1>t. /\ run \in RunRecord /\ hub \in HubRecord /\ node \in [Node -> Child]
      /\ data \in Data /\ disk \in Disk
      /\ Node = Active \cup {Delayed} /\ Delayed \notin Active
  BY DEF PilotInv, Types, Node
<1>1. run.at = "finalize" /\ Went("gather_observers")
  BY <1>t, RunWent DEF FinalizeEvidence, At, Steps
<1>2. /\ conf' = conf /\ hub' = hub /\ node' = node /\ report' = report /\ cut' = cut
      /\ unacknowledged' = unacknowledged /\ disk' = disk /\ data'.rows = data.rows /\ data'.events = data.events
      /\ data'.session = "sealed"
  BY <1>t DEF FinalizeEvidence, Quiet, outcome, children, Data
<1>3. Place = run.at /\ Place' = run'.at
  BY <1>1 DEF Place, Went
<1>4. /\ \A n \in Node, kind \in {"observe", "review"} : Unposted(n, kind)' <=> Unposted(n, kind)
      /\ \A n \in Node : Reviewer(n)' <=> Reviewer(n)
      /\ \A n \in Node, kind \in {"observe", "review"} :
           Collected(n, kind)' <=> Collected(n, kind)
  BY <1>t, <1>1, <1>2, <1>3 DEF Unposted, Reviewer, Collected, ToPost, Went
<1>5. Course'
  BY <1>t, <1>1, <1>2, <1>3 DEF Parts, Course, For, Closed, Went
<1>6. RowsTell'
  <2>1. Closed'
    BY <1>2 DEF Closed
  <2> QED
    BY <1>1, <1>2, <1>4, <2>1 DEF Parts, RowsTell, Went
<1>7. Counted'
  BY <1>2 DEF Parts, Counted
<1>8. ChildrenTell'
  BY <1>t, <1>1, <1>2, <1>3, <1>4 DEF Parts, ChildrenTell
<1>9. Settles'
  BY <1>t, <1>1, <1>2, <1>3, <1>4 DEF Parts, Settles, Went
<1>10. StayGone'
  BY <1>1, <1>3 DEF StayGone, Went
<1>11. Reports'
  BY <1>t, <1>1, <1>2, <1>3 DEF Parts, Reports, CutBy, BackBy, Restarts, PastHalf, Went
<1>12. Links'
  BY <1>t, <1>1, <1>2, <1>3 DEF Parts, Links, Went
<1> QED
  BY <1>5, <1>6, <1>7, <1>8, <1>9, <1>10, <1>11, <1>12 DEF Parts

-----------------------------------------------------------------------------
(* The run: the nodes are collected                                        *)

\* What is collected has succeeded, unless the run fails.
LEMMA CollectedAreDone ==
  ASSUME run \in RunRecord, NEW nodes \in SUBSET Node, NEW at \in Steps,
         Collect(nodes, [run EXCEPT !.at = at]), run'.result = "none"
  PROVE  /\ Went(at) /\ \A n \in nodes : node[n].step = "done"
         /\ UNCHANGED <<children, stored>>
<1>1. ~Raise
  BY DEF Raise, RunRecord
<1>2. run' = [run EXCEPT !.at = at] /\ \A n \in nodes : node[n].step = "done"
  BY <1>1 DEF Collect
<1> QED
  BY <1>2, RunWent DEF Collect, Go

\* The observations are collected.
LEMMA CollectActiveTells ==
  ASSUME PilotInv, Parts, CollectActive, run'.result = "none"
  PROVE  Parts'
<1> USE DEF Opening, BeforeTry, DelayedFirst, BeforeActive, Cutting, Restarting,
            Reconnecting, BeforeClose, Sealing, BeforeDelayed, Proving, BeforeReviews,
            Reviewing, Restoring, Enqueuing, Ending
<1>t. /\ run \in RunRecord /\ hub \in HubRecord /\ node \in [Node -> Child]
      /\ data \in Data /\ disk \in Disk
      /\ Node = Active \cup {Delayed} /\ Delayed \notin Active
  BY DEF PilotInv, Types, Node
<1>1. /\ run.at = "collect_active" /\ Went("start_delayed_again")
      /\ \A n \in Active : node[n].step = "done"
  BY <1>t, CollectedAreDone DEF CollectActive, At, Steps
<1>2. /\ conf' = conf /\ hub' = hub /\ node' = node /\ report' = report /\ cut' = cut
      /\ unacknowledged' = unacknowledged /\ data' = data /\ disk' = disk
  BY <1>t, CollectedAreDone DEF CollectActive, Collect, Quiet, outcome, stored, children
<1>3. Place = run.at /\ Place' = run'.at
  BY <1>1 DEF Place, Went
<1>4. /\ \A n \in Node, kind \in {"observe", "review"} : Unposted(n, kind)' <=> Unposted(n, kind)
      /\ \A n \in Node : Reviewer(n)' <=> Reviewer(n)
  BY <1>t, <1>1, <1>2, <1>3 DEF Unposted, Reviewer, Collected, ToPost, Went
<1>5. Course'
  BY <1>t, <1>1, <1>2, <1>3 DEF Parts, Course, For, Closed, Went
<1>6. RowsTell'
  <2>1. Closed' <=> Closed
    BY <1>2 DEF Closed
  <2> QED
    BY <1>t, <1>1, <1>2, <1>3, <1>4, <2>1 DEF Parts, RowsTell, Went
<1>7. Counted'
  BY <1>2 DEF Parts, Counted
<1>8. ChildrenTell'
  BY <1>t, <1>1, <1>2, <1>3, <1>4 DEF Parts, ChildrenTell
<1>9. Settles'
  <2>1. \A n \in Active : data.rows[<<n, "observe">>] = "confirmed"
    BY <1>t, <1>1, <1>3 DEF Parts, ChildrenTell, Reviewer
  <2>2. \A n \in Node, kind \in {"observe", "review"} :
          Collected(n, kind)' => n \in Active /\ kind = "observe"
    BY <1>t, <1>1, <1>3 DEF Collected, Went
  <2> QED
    BY <1>1, <1>2, <2>1, <2>2 DEF Settles, Went
<1>10. StayGone'
  BY <1>1, <1>3 DEF StayGone, Went
<1>11. Reports'
  BY <1>t, <1>1, <1>2, <1>3 DEF Parts, Reports, CutBy, BackBy, Restarts, PastHalf, Went
<1>12. Links'
  BY <1>t, <1>1, <1>2, <1>3 DEF Parts, Links, Went
<1> QED
  BY <1>5, <1>6, <1>7, <1>8, <1>9, <1>10, <1>11, <1>12 DEF Parts

\* The delayed node is started, with the faults once more.
LEMMA DelayedAgainTells ==
  ASSUME PilotInv, Parts, StartDelayedAgain
  PROVE  Parts'
<1> USE DEF Opening, BeforeTry, DelayedFirst, BeforeActive, Cutting, Restarting,
            Reconnecting, BeforeClose, Sealing, BeforeDelayed, Proving, BeforeReviews,
            Reviewing, Restoring, Enqueuing, Ending
<1>t. /\ run \in RunRecord /\ hub \in HubRecord /\ node \in [Node -> Child]
      /\ data \in Data /\ disk \in Disk
      /\ Node = Active \cup {Delayed} /\ Delayed \notin Active
  BY DEF PilotInv, Types, Node
<1>1. /\ run.at = "start_delayed_again"
      /\ \/ conf.faults /\ Went("collect_delayed")
         \/ ~conf.faults /\ Enqueued(Delayed, "observe", "collect_delayed", run.todo)
  BY <1>t, RunWent, RunEnqueued DEF StartDelayedAgain, At, Steps, Go
<1>2. /\ conf' = conf /\ hub' = hub /\ report' = report /\ cut' = cut /\ unacknowledged' = unacknowledged
      /\ data' = data /\ disk' = disk
      /\ Begun({Delayed}, "observe")
  BY <1>t, ChildrenStart DEF StartDelayedAgain, Start, Quiet, outcome, stored
<1>3. Place = "start_delayed_again" /\ Place' = "collect_delayed"
  BY <1>1 DEF Place, Went, Enqueued
<1>4. /\ \A n \in Node, kind \in {"observe", "review"} : Unposted(n, kind)' <=> Unposted(n, kind)
      /\ \A n \in Node : Reviewer(n)' <=> Reviewer(n)
      /\ \A n \in Node, kind \in {"observe", "review"} :
           Collected(n, kind)' <=> Collected(n, kind)
  BY <1>t, <1>1, <1>2, <1>3 DEF Unposted, Reviewer, Collected, ToPost, Went, Enqueued
<1>5. Course'
  BY <1>t, <1>1, <1>2, <1>3 DEF Parts, Course, For, Closed, Went, Enqueued
<1>6. RowsTell'
  <2>1. Closed' <=> Closed
    BY <1>2 DEF Closed
  <2> QED
    BY <1>t, <1>1, <1>2, <1>3, <1>4, <2>1 DEF Parts, RowsTell, Went, Enqueued
<1>7. Counted'
  BY <1>2 DEF Parts, Counted
<1>8. ChildrenTell'
  BY <1>t, <1>2, <1>3, <1>4 DEF Parts, ChildrenTell, Begun, Reviewer
<1>9. Settles'
  BY <1>t, <1>1, <1>2, <1>3, <1>4 DEF Parts, Settles, Went, Enqueued
<1>10. StayGone'
  BY <1>1, <1>3 DEF StayGone, Went, Enqueued
<1>11. Reports'
  BY <1>t, <1>1, <1>2, <1>3 DEF Parts, Reports, CutBy, BackBy, Restarts, PastHalf, Went, Enqueued
<1>12. Links'
  <2>1. Links
    BY DEF Parts
  <2>2. ~conf.faults => Delayed \notin hub.connected
    BY <1>t, <1>3, <2>1 DEF Links
  <2>3. \A m \in Node : m # Delayed => node'[m] = node[m]
    BY <1>2 DEF Begun
  <2>4. node'[Delayed].step = "starting"
    BY <1>t, <1>2 DEF Begun
  <2> QED
    BY <1>t, <1>1, <1>2, <1>3, <2>1, <2>2, <2>3, <2>4 DEF Links, Went, Enqueued
<1> QED
  BY <1>5, <1>6, <1>7, <1>8, <1>9, <1>10, <1>11, <1>12 DEF Parts

\* The delayed observation is collected.
LEMMA CollectDelayedTells ==
  ASSUME PilotInv, Parts, CollectDelayed, run'.result = "none"
  PROVE  Parts'
<1> USE DEF Opening, BeforeTry, DelayedFirst, BeforeActive, Cutting, Restarting,
            Reconnecting, BeforeClose, Sealing, BeforeDelayed, Proving, BeforeReviews,
            Reviewing, Restoring, Enqueuing, Ending
<1>t. /\ run \in RunRecord /\ hub \in HubRecord /\ node \in [Node -> Child]
      /\ data \in Data /\ disk \in Disk
      /\ Node = Active \cup {Delayed} /\ Delayed \notin Active
  BY DEF PilotInv, Types, Node
<1>1. /\ run.at = "collect_delayed" /\ Went("await_all_gone")
      /\ node[Delayed].step = "done"
  BY <1>t, CollectedAreDone DEF CollectDelayed, At, Steps
<1>2. /\ conf' = conf /\ hub' = hub /\ node' = node /\ cut' = cut /\ unacknowledged' = unacknowledged
      /\ data' = data /\ disk' = disk
      /\ report' = [report EXCEPT !.reconnected = IF conf.faults THEN @ \cup {Delayed} ELSE @]
  BY <1>t, CollectedAreDone DEF CollectDelayed, Collect, stored, children
<1>3. Place = run.at /\ Place' = run'.at
  BY <1>1 DEF Place, Went
<1>4. /\ \A n \in Node, kind \in {"observe", "review"} : Unposted(n, kind)' <=> Unposted(n, kind)
      /\ \A n \in Node : Reviewer(n)' <=> Reviewer(n)
  BY <1>t, <1>1, <1>2, <1>3 DEF Unposted, Reviewer, Collected, ToPost, Went
<1>5. Course'
  BY <1>t, <1>1, <1>2, <1>3 DEF Parts, Course, For, Closed, Went
<1>6. RowsTell'
  <2>1. Closed' <=> Closed
    BY <1>2 DEF Closed
  <2> QED
    BY <1>t, <1>1, <1>2, <1>3, <1>4, <2>1 DEF Parts, RowsTell, Went
<1>7. Counted'
  BY <1>2 DEF Parts, Counted
<1>8. ChildrenTell'
  BY <1>t, <1>1, <1>2, <1>3, <1>4 DEF Parts, ChildrenTell
<1>9. Settles'
  <2>1. \A n \in Node : data.rows[<<n, "observe">>] = "confirmed"
    <3>1. data.rows[<<Delayed, "observe">>] = "confirmed"
      BY <1>t, <1>1, <1>3 DEF Parts, ChildrenTell, Reviewer
    <3>2. \A n \in Active : data.rows[<<n, "observe">>] = "confirmed"
      BY <1>t, <1>1, <1>3 DEF Parts, Settles, Collected
    <3> QED
      BY <1>t, <3>1, <3>2
  <2>2. \A n \in Node, kind \in {"observe", "review"} : Collected(n, kind)' => kind = "observe"
    BY <1>t, <1>1, <1>3 DEF Collected, Went
  <2> QED
    BY <1>1, <1>2, <2>1, <2>2 DEF Settles, Went
<1>10. StayGone'
  BY <1>1, <1>3 DEF StayGone, Went
<1>11. Reports'
  <2>1. /\ CutBy' = CutBy /\ Restarts' = Restarts
        /\ BackBy' = IF conf.faults THEN BackBy \cup {Delayed} ELSE BackBy
    BY <1>t, <1>1, <1>2, <1>3 DEF BackBy, CutBy, Restarts, PastHalf, Went
  <2>2. /\ report'.disconnected = report.disconnected /\ report'.lost = report.lost
        /\ report'.reconnected = IF conf.faults THEN report.reconnected \cup {Delayed}
                                                ELSE report.reconnected
        /\ report'.restored = report.restored /\ report' \in ReportRecord
    BY <1>t, <1>2 DEF Parts, Reports, ReportRecord
  <2> QED
    BY <1>1, <1>2, <2>1, <2>2 DEF Parts, Reports, Went
<1>12. Links'
  BY <1>t, <1>1, <1>2, <1>3 DEF Parts, Links, Went
<1> QED
  BY <1>5, <1>6, <1>7, <1>8, <1>9, <1>10, <1>11, <1>12 DEF Parts

\* No node is connected.
LEMMA AllGoneTells ==
  ASSUME PilotInv, Parts, AwaitAllGone
  PROVE  Parts'
<1> USE DEF Opening, BeforeTry, DelayedFirst, BeforeActive, Cutting, Restarting,
            Reconnecting, BeforeClose, Sealing, BeforeDelayed, Proving, BeforeReviews,
            Reviewing, Restoring, Enqueuing, Ending
<1>t. /\ run \in RunRecord /\ hub \in HubRecord /\ node \in [Node -> Child]
      /\ data \in Data /\ disk \in Disk
      /\ Node = Active \cup {Delayed} /\ Delayed \notin Active
  BY DEF PilotInv, Types, Node
<1>1. run.at = "await_all_gone" /\ Went("prove_losses") /\ hub.connected = {}
  BY <1>t, RunWent DEF AwaitAllGone, At, Steps, Gone, Disconnected, HubRecord
<1>2. /\ conf' = conf /\ hub' = hub /\ node' = node /\ report' = report /\ cut' = cut
      /\ unacknowledged' = unacknowledged /\ data' = data /\ disk' = disk
  BY DEF AwaitAllGone, Quiet, outcome, stored, children
<1>3. Place = run.at /\ Place' = run'.at
  BY <1>1 DEF Place, Went
<1>4. /\ \A n \in Node, kind \in {"observe", "review"} : Unposted(n, kind)' <=> Unposted(n, kind)
      /\ \A n \in Node : Reviewer(n)' <=> Reviewer(n)
      /\ \A n \in Node, kind \in {"observe", "review"} :
           Collected(n, kind)' <=> Collected(n, kind)
  BY <1>t, <1>1, <1>2, <1>3 DEF Unposted, Reviewer, Collected, ToPost, Went
<1>5. Course'
  BY <1>t, <1>1, <1>2, <1>3 DEF Parts, Course, For, Closed, Went
<1>6. RowsTell'
  <2>1. Closed' <=> Closed
    BY <1>2 DEF Closed
  <2> QED
    BY <1>t, <1>1, <1>2, <1>3, <1>4, <2>1 DEF Parts, RowsTell, Went
<1>7. Counted'
  BY <1>2 DEF Parts, Counted
<1>8. ChildrenTell'
  BY <1>t, <1>1, <1>2, <1>3, <1>4 DEF Parts, ChildrenTell
<1>9. Settles'
  BY <1>t, <1>1, <1>2, <1>3, <1>4 DEF Parts, Settles, Went
<1>10. StayGone'
  BY <1>1, <1>3 DEF StayGone, Went
<1>11. Reports'
  BY <1>t, <1>1, <1>2, <1>3 DEF Parts, Reports, CutBy, BackBy, Restarts, PastHalf, Went
<1>12. Links'
  BY <1>t, <1>1, <1>2, <1>3 DEF Parts, Links, Went
<1> QED
  BY <1>5, <1>6, <1>7, <1>8, <1>9, <1>10, <1>11, <1>12 DEF Parts

\* The lost acknowledgements were recovered.
LEMMA LossesTell ==
  ASSUME PilotInv, Parts, ProveLosses, run'.result = "none"
  PROVE  Parts'
<1> USE DEF Opening, BeforeTry, DelayedFirst, BeforeActive, Cutting, Restarting,
            Reconnecting, BeforeClose, Sealing, BeforeDelayed, Proving, BeforeReviews,
            Reviewing, Restoring, Enqueuing, Ending
<1>t. /\ run \in RunRecord /\ hub \in HubRecord /\ node \in [Node -> Child]
      /\ data \in Data /\ disk \in Disk
      /\ Node = Active \cup {Delayed} /\ Delayed \notin Active
  BY DEF PilotInv, Types, Node
<1>1. /\ run.at = "prove_losses" /\ run'.at = "next_review"
      /\ run'.todo = Node
  BY <1>t DEF ProveLosses, At, Raise, RunRecord
<1>2. /\ conf' = conf /\ hub' = hub /\ node' = node /\ cut' = cut /\ unacknowledged' = unacknowledged
      /\ data' = data /\ disk' = disk
      /\ report' = [report EXCEPT !.lost = IF conf.faults THEN {n \in Node : Recovered(n)} ELSE {}]
  BY DEF ProveLosses, stored, children
<1>3. Place = run.at /\ Place' = run'.at
  BY <1>1 DEF Place
<1>4. /\ \A n \in Node, kind \in {"observe", "review"} : Unposted(n, kind)' <=> Unposted(n, kind)
      /\ \A n \in Node : Reviewer(n)' <=> Reviewer(n)
      /\ \A n \in Node, kind \in {"observe", "review"} :
           Collected(n, kind)' <=> Collected(n, kind)
  BY <1>t, <1>1, <1>2, <1>3 DEF Unposted, Reviewer, Collected, ToPost
<1>5. Course'
  BY <1>t, <1>1, <1>2, <1>3 DEF Parts, Course, For, Closed
<1>6. RowsTell'
  <2>1. Closed' <=> Closed
    BY <1>2 DEF Closed
  <2> QED
    BY <1>t, <1>1, <1>2, <1>3, <1>4, <2>1 DEF Parts, RowsTell
<1>7. Counted'
  BY <1>2 DEF Parts, Counted
<1>8. ChildrenTell'
  BY <1>t, <1>1, <1>2, <1>3, <1>4 DEF Parts, ChildrenTell
<1>9. Settles'
  BY <1>t, <1>1, <1>2, <1>3, <1>4 DEF Parts, Settles
<1>10. StayGone'
  BY <1>1, <1>3 DEF StayGone
<1>11. Reports'
  <2>1. /\ CutBy' = CutBy /\ Restarts' = Restarts /\ BackBy' = BackBy
    BY <1>t, <1>1, <1>2, <1>3 DEF BackBy, CutBy, Restarts, PastHalf
  <2>2. /\ report'.disconnected = report.disconnected
        /\ report'.reconnected = report.reconnected /\ report'.restored = report.restored
        /\ report'.lost \subseteq hub.dropped /\ report' \in ReportRecord
    BY <1>t, <1>2 DEF Parts, Reports, ReportRecord, Recovered
  <2> QED
    BY <1>1, <1>2, <2>1, <2>2 DEF Parts, Reports
<1>12. Links'
  BY <1>t, <1>1, <1>2, <1>3 DEF Parts, Links
<1> QED
  BY <1>5, <1>6, <1>7, <1>8, <1>9, <1>10, <1>11, <1>12 DEF Parts

-----------------------------------------------------------------------------
(* The run: the reviews and the restore                                    *)

\* The node that is next is started for its review.
LEMMA NextReviewTells ==
  ASSUME PilotInv, Parts, NextReview
  PROVE  Parts'
<1> USE DEF Opening, BeforeTry, DelayedFirst, BeforeActive, Cutting, Restarting,
            Reconnecting, BeforeClose, Sealing, BeforeDelayed, Proving, BeforeReviews,
            Reviewing, Restoring, Enqueuing, Ending
<1>t. /\ run \in RunRecord /\ hub \in HubRecord /\ node \in [Node -> Child]
      /\ data \in Data /\ disk \in Disk
      /\ Node = Active \cup {Delayed} /\ Delayed \notin Active
  BY DEF PilotInv, Types, Node
<1>1. /\ run.at = "next_review"
      /\ \/ /\ run.todo = {} /\ node' = node
            /\ Went("propose") \/ Went("snapshot_chain")
         \/ \E n \in run.todo : /\ Enqueued(n, "review", "collect_review", run.todo \ {n})
                                /\ Begun({n}, "review")
  <2>1. ASSUME run.todo = {}, node' = node,
               Go(IF conf.stage = "governance" THEN "propose" ELSE "snapshot_chain")
        PROVE  Went("propose") \/ Went("snapshot_chain")
    BY <1>t, <2>1, RunWent DEF Steps
  <2>2. ASSUME NEW n \in run.todo, node' = SpawnedIn({n}, "review"),
               run' = [Enqueue(n, "review", "collect_review") EXCEPT !.todo = @ \ {n}]
        PROVE  /\ Enqueued(n, "review", "collect_review", run.todo \ {n})
               /\ Begun({n}, "review")
    <3>1. n \in Node /\ {n} \in SUBSET Node /\ "collect_review" \in Steps
      BY <1>t DEF RunRecord, Steps
    <3>2. Enqueued(n, "review", "collect_review", run.todo \ {n})
      BY <1>t, <2>2, <3>1, RunEnqueued
    <3>3. Begun({n}, "review")
      BY <1>t, <2>2, <3>1, ChildrenStart
    <3> QED
      BY <3>2, <3>3
  <2> QED
    BY <2>1, <2>2 DEF NextReview, At
<1>2. /\ conf' = conf /\ hub' = hub /\ report' = report /\ cut' = cut /\ unacknowledged' = unacknowledged
      /\ data' = data /\ disk' = disk
  BY DEF NextReview, Quiet, outcome, stored
<1>3. Place = "next_review"
      /\ IF run.todo = {} THEN Place' \in {"propose", "snapshot_chain"}
                         ELSE Place' = "collect_review"
  BY <1>1 DEF Place, Went, Enqueued
<1>4. /\ \A n \in Node, kind \in {"observe", "review"} : Unposted(n, kind)' <=> Unposted(n, kind)
      /\ \A n \in Node, kind \in {"observe", "review"} :
           Collected(n, kind)' <=> Collected(n, kind)
  BY ZenonT(40), <1>t, <1>1, <1>2, <1>3 DEF Unposted, Reviewer, Collected, ToPost, Went, Enqueued
<1>5. Course'
  BY <1>t, <1>1, <1>2, <1>3 DEF Parts, Course, For, Closed, Went, Enqueued
<1>6. RowsTell'
  <2>1. Closed' <=> Closed
    BY <1>2 DEF Closed
  <2> QED
    BY <1>t, <1>1, <1>2, <1>3, <1>4, <2>1 DEF Parts, RowsTell, Went, Enqueued
<1>7. Counted'
  BY <1>2 DEF Parts, Counted
<1>8. ChildrenTell'
  <2>1. CASE run.todo = {}
    <3>1. \A n \in Node : Reviewer(n) /\ Reviewer(n)'
      BY <1>1, <1>3, <2>1 DEF Reviewer
    <3> QED
      BY <1>1, <1>2, <2>1, <3>1 DEF Parts, ChildrenTell
  <2>2. ASSUME NEW n \in run.todo, Enqueued(n, "review", "collect_review", run.todo \ {n}),
               Begun({n}, "review")
        PROVE  ChildrenTell'
    <3>1. \A m \in Node : Reviewer(m)' <=> Reviewer(m) \/ m = n
      BY <1>3, <2>2 DEF Reviewer, Enqueued
    <3> QED
      BY <1>t, <1>2, <2>2, <3>1 DEF Parts, ChildrenTell, Begun
  <2> QED
    BY <1>1, <2>1, <2>2
<1>9. Settles'
  BY <1>t, <1>1, <1>2, <1>3, <1>4 DEF Parts, Settles, Went, Enqueued
<1>10. StayGone'
  BY <1>1, <1>3 DEF StayGone, Went, Enqueued
<1>11. Reports'
  BY <1>t, <1>1, <1>2, <1>3 DEF Parts, Reports, CutBy, BackBy, Restarts, PastHalf, Went, Enqueued
<1>12. Links'
  <2>1. CASE run.todo = {}
    BY <1>1, <1>2, <1>3, <2>1 DEF Parts, Links, Went
  <2>2. ASSUME NEW n \in run.todo, Enqueued(n, "review", "collect_review", run.todo \ {n}),
               Begun({n}, "review")
        PROVE  Links'
    <3>1. /\ Links /\ n \in Node /\ run.todo \subseteq Node /\ Place' = "collect_review"
      BY <1>t, <1>3 DEF Parts, RunRecord
    <3>2. n \notin hub.connected
      BY <1>3, <3>1 DEF Links
    <3>3. /\ \A m \in Node : m # n => node'[m] = node[m]
          /\ node'[n].step = "starting"
      BY <2>2, <3>1 DEF Begun
    <3>4. /\ \A m \in run.todo \ {n} : node'[m].step = "done" /\ m \notin hub.connected
          /\ \A m \in Node : node'[m].step = "none" => m \notin hub.connected
      BY <1>3, <3>1, <3>3 DEF Links
    <3> QED
      BY <1>2, <2>2, <3>1, <3>2, <3>4 DEF Links, Enqueued
  <2> QED
    BY <1>1, <2>1, <2>2
<1> QED
  BY <1>5, <1>6, <1>7, <1>8, <1>9, <1>10, <1>11, <1>12 DEF Parts

\* A review is collected.
LEMMA CollectReviewTells ==
  ASSUME PilotInv, Parts, CollectReview, run'.result = "none"
  PROVE  Parts'
<1> USE DEF Opening, BeforeTry, DelayedFirst, BeforeActive, Cutting, Restarting,
            Reconnecting, BeforeClose, Sealing, BeforeDelayed, Proving, BeforeReviews,
            Reviewing, Restoring, Enqueuing, Ending
<1>t. /\ run \in RunRecord /\ hub \in HubRecord /\ node \in [Node -> Child]
      /\ data \in Data /\ disk \in Disk
      /\ Node = Active \cup {Delayed} /\ Delayed \notin Active
  BY DEF PilotInv, Types, Node
<1>1. /\ run.at = "collect_review" /\ Went("next_review") /\ run.who \in Node
      /\ node[run.who].step = "done"
  <2>1. run.who \in Node /\ {run.who} \in SUBSET Node /\ "next_review" \in Steps
    BY <1>t DEF RunRecord, Steps
  <2> QED
    BY <1>t, <2>1, CollectedAreDone DEF CollectReview, At
<1>2. /\ conf' = conf /\ hub' = hub /\ node' = node /\ report' = report /\ cut' = cut
      /\ unacknowledged' = unacknowledged /\ data' = data /\ disk' = disk
  <2>1. {run.who} \in SUBSET Node /\ "next_review" \in Steps
    BY <1>1 DEF Steps
  <2> QED
    BY <1>t, <2>1, CollectedAreDone DEF CollectReview, Collect, Quiet, outcome, stored, children
<1>3. Place = run.at /\ Place' = run'.at
  BY <1>1 DEF Place, Went
<1>4. /\ \A n \in Node, kind \in {"observe", "review"} : Unposted(n, kind)' <=> Unposted(n, kind)
      /\ \A n \in Node : Reviewer(n)' <=> Reviewer(n)
  BY <1>t, <1>1, <1>2, <1>3 DEF Unposted, Reviewer, Collected, ToPost, Went
<1>5. Course'
  BY <1>t, <1>1, <1>2, <1>3 DEF Parts, Course, For, Closed, Went
<1>6. RowsTell'
  <2>1. Closed' <=> Closed
    BY <1>2 DEF Closed
  <2> QED
    BY <1>t, <1>1, <1>2, <1>3, <1>4, <2>1 DEF Parts, RowsTell, Went
<1>7. Counted'
  BY <1>2 DEF Parts, Counted
<1>8. ChildrenTell'
  BY <1>t, <1>1, <1>2, <1>3, <1>4 DEF Parts, ChildrenTell
<1>9. Settles'
  <2>1. data.rows[<<run.who, "review">>] = "confirmed"
    BY <1>1, <1>3 DEF Parts, Course, ChildrenTell, Reviewer
  <2>2. \A n \in Node, kind \in {"observe", "review"} :
          Collected(n, kind)' => Collected(n, kind) \/ (n = run.who /\ kind = "review")
    BY <1>t, <1>1, <1>3 DEF Collected, Went
  <2> QED
    BY <1>1, <1>2, <2>1, <2>2 DEF Parts, Settles, Went
<1>10. StayGone'
  BY <1>1, <1>3 DEF StayGone, Went
<1>11. Reports'
  BY <1>t, <1>1, <1>2, <1>3 DEF Parts, Reports, CutBy, BackBy, Restarts, PastHalf, Went
<1>12. Links'
  BY <1>t, <1>1, <1>2, <1>3 DEF Parts, Links, Went
<1> QED
  BY <1>5, <1>6, <1>7, <1>8, <1>9, <1>10, <1>11, <1>12 DEF Parts

\* Once the reviews are collected every task is confirmed.
LEMMA AllAreConfirmed ==
  ASSUME Parts, run.at \in Restoring, NEW t \in Task
  PROVE  data.rows[t] = "confirmed"
<1>1. Place \in Restoring
  BY DEF Place, Restoring, Enqueuing
<1>2. PICK n \in Node, kind \in {"observe", "review"} : t = <<n, kind>>
  BY Pairs
<1> QED
  BY <1>1, <1>2 DEF Parts, Settles, Collected

\* The system snapshot is created.
LEMMA SnapshotTells ==
  ASSUME PilotInv, Parts, CreateSnapshot
  PROVE  Parts'
<1> USE DEF Opening, BeforeTry, DelayedFirst, BeforeActive, Cutting, Restarting,
            Reconnecting, BeforeClose, Sealing, BeforeDelayed, Proving, BeforeReviews,
            Reviewing, Restoring, Enqueuing, Ending
<1>t. /\ run \in RunRecord /\ hub \in HubRecord /\ node \in [Node -> Child]
      /\ data \in Data /\ disk \in Disk
      /\ Node = Active \cup {Delayed} /\ Delayed \notin Active
  BY DEF PilotInv, Types, Node
<1>1. run.at = "create_snapshot" /\ Went("stop_for_restore")
  BY <1>t, RunWent DEF CreateSnapshot, At, Steps
<1>2. /\ conf' = conf /\ hub' = hub /\ node' = node /\ report' = report /\ cut' = cut
      /\ unacknowledged' = unacknowledged /\ data' = data
      /\ disk'.snapshot.rows = data.rows
  <2>1. disk'.snapshot = [rows |-> data.rows, events |-> data.events,
                        session |-> data.session, probe |-> FALSE]
    BY <1>t DEF CreateSnapshot, Disk
  <2> QED
    BY <2>1 DEF CreateSnapshot, Quiet, outcome, children
<1>3. Place = run.at /\ Place' = run'.at
  BY <1>1 DEF Place, Went
<1>4. /\ \A n \in Node, kind \in {"observe", "review"} : Unposted(n, kind)' <=> Unposted(n, kind)
      /\ \A n \in Node : Reviewer(n)' <=> Reviewer(n)
      /\ \A n \in Node, kind \in {"observe", "review"} :
           Collected(n, kind)' <=> Collected(n, kind)
  BY <1>t, <1>1, <1>2, <1>3 DEF Unposted, Reviewer, Collected, ToPost, Went
<1>5. Course'
  BY <1>t, <1>1, <1>2, <1>3 DEF Parts, Course, For, Closed, Went
<1>6. RowsTell'
  <2>1. Closed' <=> Closed
    BY <1>2 DEF Closed
  <2> QED
    BY <1>t, <1>1, <1>2, <1>3, <1>4, <2>1 DEF Parts, RowsTell, Went
<1>7. Counted'
  BY <1>2 DEF Parts, Counted
<1>8. ChildrenTell'
  BY <1>t, <1>1, <1>2, <1>3, <1>4 DEF Parts, ChildrenTell
<1>9. Settles'
  <2>1. \A t \in Task : data.rows[t] = "confirmed"
    BY <1>1, AllAreConfirmed
  <2> QED
    BY <1>2, <1>4, <2>1 DEF Parts, Settles
<1>10. StayGone'
  BY <1>1, <1>3 DEF StayGone, Went
<1>11. Reports'
  BY <1>t, <1>1, <1>2, <1>3 DEF Parts, Reports, CutBy, BackBy, Restarts, PastHalf, Went
<1>12. Links'
  BY <1>t, <1>1, <1>2, <1>3 DEF Parts, Links, Went
<1> QED
  BY <1>5, <1>6, <1>7, <1>8, <1>9, <1>10, <1>11, <1>12 DEF Parts

\* The probes are written.
LEMMA TamperTells ==
  ASSUME PilotInv, Parts, Tamper
  PROVE  Parts'
<1> USE DEF Opening, BeforeTry, DelayedFirst, BeforeActive, Cutting, Restarting,
            Reconnecting, BeforeClose, Sealing, BeforeDelayed, Proving, BeforeReviews,
            Reviewing, Restoring, Enqueuing, Ending
<1>t. /\ run \in RunRecord /\ hub \in HubRecord /\ node \in [Node -> Child]
      /\ data \in Data /\ disk \in Disk
      /\ Node = Active \cup {Delayed} /\ Delayed \notin Active
  BY DEF PilotInv, Types, Node
<1>1. run.at = "tamper" /\ Went("restore")
  BY <1>t, RunWent DEF Tamper, At, Steps
<1>2. /\ conf' = conf /\ hub' = hub /\ node' = node /\ report' = report /\ cut' = cut
      /\ unacknowledged' = unacknowledged /\ data'.rows = data.rows /\ data'.events = data.events
      /\ data'.session = data.session /\ disk'.snapshot = disk.snapshot
  BY <1>t DEF Tamper, Quiet, outcome, children, Data, Disk
<1>3. Place = run.at /\ Place' = run'.at
  BY <1>1 DEF Place, Went
<1>4. /\ \A n \in Node, kind \in {"observe", "review"} : Unposted(n, kind)' <=> Unposted(n, kind)
      /\ \A n \in Node : Reviewer(n)' <=> Reviewer(n)
      /\ \A n \in Node, kind \in {"observe", "review"} :
           Collected(n, kind)' <=> Collected(n, kind)
  BY <1>t, <1>1, <1>2, <1>3 DEF Unposted, Reviewer, Collected, ToPost, Went
<1>5. Course'
  BY <1>t, <1>1, <1>2, <1>3 DEF Parts, Course, For, Closed, Went
<1>6. RowsTell'
  <2>1. Closed' <=> Closed
    BY <1>2 DEF Closed
  <2> QED
    BY ZenonT(40), <1>t, <1>1, <1>2, <1>3, <1>4, <2>1 DEF Parts, RowsTell, Went
<1>7. Counted'
  BY <1>2 DEF Parts, Counted
<1>8. ChildrenTell'
  BY <1>t, <1>1, <1>2, <1>3, <1>4 DEF Parts, ChildrenTell
<1>9. Settles'
  BY <1>t, <1>1, <1>2, <1>3, <1>4 DEF Parts, Settles, Went
<1>10. StayGone'
  BY <1>1, <1>3 DEF StayGone, Went
<1>11. Reports'
  BY <1>t, <1>1, <1>2, <1>3 DEF Parts, Reports, CutBy, BackBy, Restarts, PastHalf, Went
<1>12. Links'
  BY <1>t, <1>1, <1>2, <1>3 DEF Parts, Links, Went
<1> QED
  BY <1>5, <1>6, <1>7, <1>8, <1>9, <1>10, <1>11, <1>12 DEF Parts

\* What is restored is what was there.
LEMMA RestoreTells ==
  ASSUME PilotInv, Parts, RestoreSnapshot
  PROVE  Parts'
<1> USE DEF Opening, BeforeTry, DelayedFirst, BeforeActive, Cutting, Restarting,
            Reconnecting, BeforeClose, Sealing, BeforeDelayed, Proving, BeforeReviews,
            Reviewing, Restoring, Enqueuing, Ending
<1>t. /\ run \in RunRecord /\ hub \in HubRecord /\ node \in [Node -> Child]
      /\ data \in Data /\ disk \in Disk
      /\ Node = Active \cup {Delayed} /\ Delayed \notin Active
  BY DEF PilotInv, Types, Node
<1>1. run.at = "restore" /\ Went("restore_chain")
  BY <1>t, RunWent DEF RestoreSnapshot, At, Steps
<1>2. /\ conf' = conf /\ hub' = hub /\ node' = node /\ report' = report /\ cut' = cut
      /\ unacknowledged' = unacknowledged /\ disk' = disk /\ data'.rows = data.rows /\ data'.events = data.events
      /\ data'.session = data.session
  <2>1. data' = disk.snapshot /\ Sealed(data) /\ Sealed(disk.snapshot)
    BY <1>1 DEF RestoreSnapshot, PilotInv, DataHolds, Finalized
  <2>2. \A t \in Task : data.rows[t] = "confirmed" /\ disk.snapshot.rows[t] = "confirmed"
    BY <1>1, AllAreConfirmed DEF Parts, Settles
  <2>3. data.rows \in Rows /\ disk.snapshot.rows \in Rows
    BY <1>t DEF Disk, Data
  <2>4. disk.snapshot.rows = data.rows
    BY <2>2, <2>3 DEF Rows
  <2> QED
    BY <2>1, <2>4 DEF RestoreSnapshot, Quiet, outcome, children, Sealed
<1>3. Place = run.at /\ Place' = run'.at
  BY <1>1 DEF Place, Went
<1>4. /\ \A n \in Node, kind \in {"observe", "review"} : Unposted(n, kind)' <=> Unposted(n, kind)
      /\ \A n \in Node : Reviewer(n)' <=> Reviewer(n)
      /\ \A n \in Node, kind \in {"observe", "review"} :
           Collected(n, kind)' <=> Collected(n, kind)
  BY <1>t, <1>1, <1>2, <1>3 DEF Unposted, Reviewer, Collected, ToPost, Went
<1>5. Course'
  BY <1>t, <1>1, <1>2, <1>3 DEF Parts, Course, For, Closed, Went
<1>6. RowsTell'
  <2>1. Closed' <=> Closed
    BY <1>2 DEF Closed
  <2> QED
    BY ZenonT(40), <1>t, <1>1, <1>2, <1>3, <1>4, <2>1 DEF Parts, RowsTell, Went
<1>7. Counted'
  BY <1>2 DEF Parts, Counted
<1>8. ChildrenTell'
  BY <1>t, <1>1, <1>2, <1>3, <1>4 DEF Parts, ChildrenTell
<1>9. Settles'
  BY <1>t, <1>1, <1>2, <1>3, <1>4 DEF Parts, Settles, Went
<1>10. StayGone'
  BY <1>1, <1>3 DEF StayGone, Went
<1>11. Reports'
  BY <1>t, <1>1, <1>2, <1>3 DEF Parts, Reports, CutBy, BackBy, Restarts, PastHalf, Went
<1>12. Links'
  BY <1>t, <1>1, <1>2, <1>3 DEF Parts, Links, Went
<1> QED
  BY <1>5, <1>6, <1>7, <1>8, <1>9, <1>10, <1>11, <1>12 DEF Parts

\* The probes are gone.
LEMMA ProbesTell ==
  ASSUME PilotInv, Parts, CheckProbes, run'.result = "none"
  PROVE  Parts'
<1> USE DEF Opening, BeforeTry, DelayedFirst, BeforeActive, Cutting, Restarting,
            Reconnecting, BeforeClose, Sealing, BeforeDelayed, Proving, BeforeReviews,
            Reviewing, Restoring, Enqueuing, Ending
<1>t. /\ run \in RunRecord /\ hub \in HubRecord /\ node \in [Node -> Child]
      /\ data \in Data /\ disk \in Disk
      /\ Node = Active \cup {Delayed} /\ Delayed \notin Active
  BY DEF PilotInv, Types, Node
<1>1. run.at = "check_probes" /\ Went("restart_restored") /\ ProbesRemoved
  <2>1. ~Raise
    BY <1>t DEF Raise, RunRecord
  <2> QED
    BY <1>t, <2>1, RunWent DEF CheckProbes, At, Steps, Go
<1>2. /\ conf' = conf /\ hub' = hub /\ node' = node /\ cut' = cut /\ unacknowledged' = unacknowledged
      /\ data' = data /\ disk' = disk
      /\ report' = [report EXCEPT !.restored = TRUE]
  <2>1. ProbesRemoved = TRUE
    BY <1>1 DEF ProbesRemoved
  <2> QED
    BY <2>1 DEF CheckProbes, stored, children
<1>3. Place = run.at /\ Place' = run'.at
  BY <1>1 DEF Place, Went
<1>4. /\ \A n \in Node, kind \in {"observe", "review"} : Unposted(n, kind)' <=> Unposted(n, kind)
      /\ \A n \in Node : Reviewer(n)' <=> Reviewer(n)
      /\ \A n \in Node, kind \in {"observe", "review"} :
           Collected(n, kind)' <=> Collected(n, kind)
  BY <1>t, <1>1, <1>2, <1>3 DEF Unposted, Reviewer, Collected, ToPost, Went
<1>5. Course'
  BY <1>t, <1>1, <1>2, <1>3 DEF Parts, Course, For, Closed, Went
<1>6. RowsTell'
  <2>1. Closed' <=> Closed
    BY <1>2 DEF Closed
  <2> QED
    BY <1>t, <1>1, <1>2, <1>3, <1>4, <2>1 DEF Parts, RowsTell, Went
<1>7. Counted'
  BY <1>2 DEF Parts, Counted
<1>8. ChildrenTell'
  BY <1>t, <1>1, <1>2, <1>3, <1>4 DEF Parts, ChildrenTell
<1>9. Settles'
  BY <1>t, <1>1, <1>2, <1>3, <1>4 DEF Parts, Settles, Went
<1>10. StayGone'
  BY <1>1, <1>3 DEF StayGone, Went
<1>11. Reports'
  <2>1. /\ CutBy' = CutBy /\ Restarts' = Restarts /\ BackBy' = BackBy
    BY <1>t, <1>1, <1>2, <1>3 DEF BackBy, CutBy, Restarts, PastHalf, Went
  <2>2. /\ report'.disconnected = report.disconnected /\ report'.lost = report.lost
        /\ report'.reconnected = report.reconnected /\ report'.restored
        /\ report' \in ReportRecord
    BY <1>t, <1>2 DEF Parts, Reports, ReportRecord
  <2> QED
    BY <1>1, <1>2, <2>1, <2>2 DEF Parts, Reports, Went
<1>12. Links'
  BY <1>t, <1>1, <1>2, <1>3 DEF Parts, Links, Went
<1> QED
  BY <1>5, <1>6, <1>7, <1>8, <1>9, <1>10, <1>11, <1>12 DEF Parts

-----------------------------------------------------------------------------
(* Every step of a run that goes on                                        *)

\* A run that has not failed is told of after each of its steps.
LEMMA RunTells ==
  ASSUME PilotInv, Parts, RunStep, run'.result = "none"
  PROVE  Parts'
<1>t. run \in RunRecord /\ data \in Data /\ disk \in Disk /\ run.at \notin Ending
  BY DEF PilotInv, Types, Parts, Course
<1>f. ~Raise
  BY <1>t DEF Raise, RunRecord
<1>1. ASSUME NEW to \in Steps, Go(to), Alike(run.at, to), Still
      PROVE  Parts'
  BY <1>t, <1>1, RunWent, GoesOn
<1>2. CASE InitializeChain \/ StartChain \/ LoadState \/ PublishRelease \/ Install
  <2>1. PICK to \in {"start_chain", "load_state", "load_state_again", "publish_release",
                     "restart_server", "install", "prepare"} :
          Go(to) /\ Alike(run.at, to)
    BY <1>2 DEF InitializeChain, StartChain, LoadState, PublishRelease, Install, At, Alike,
                Opening, BeforeTry, Restarting
  <2>2. Still
    BY <1>t, <1>2 DEF InitializeChain, StartChain, LoadState, PublishRelease, Install, Still,
                      children, stored, Quiet, outcome, Disk
  <2> QED
    BY <1>1, <2>1, <2>2 DEF Steps
<1>3. CASE DumpState \/ StopChain
  <2>1. PICK to \in {"stop_chain", "start_chain_again"} : Go(to) /\ Alike(run.at, to)
    BY <1>3 DEF DumpState, StopChain, At, Alike, Restarting
  <2>2. Still
    BY <1>t, <1>3 DEF DumpState, StopChain, Still, children, Quiet, outcome, Disk
  <2> QED
    BY <1>1, <2>1, <2>2 DEF Steps
<1>4. CASE GatherObservers
  <2>1. Go("collect_active") /\ Alike(run.at, "collect_active") /\ Still
    BY <1>f, <1>4 DEF GatherObservers, Go, At, Alike, Still, children, stored, Quiet, outcome
  <2> QED
    BY <1>1, <2>1 DEF Steps
<1>5. CASE Propose \/ BatchVote \/ SnapshotChain \/ RestoreChain
  <2>1. PICK to \in {"vote", "snapshot_chain", "create_snapshot", "check_probes"} :
          Go(to) /\ Alike(run.at, to)
    BY <1>5 DEF Propose, BatchVote, SnapshotChain, RestoreChain, At, Alike
  <2>2. Still
    BY <1>t, <1>5 DEF Propose, BatchVote, SnapshotChain, RestoreChain, Still, children,
                      Quiet, outcome, Disk
  <2> QED
    BY <1>1, <2>1, <2>2 DEF Steps
<1>6. CASE PrepareEnvironment \/ CreateSession \/ StartDelayed \/ StartActive \/
           NextActive \/ AwaitLink \/ PostTask \/ AwaitAcceptance \/ KillNodes \/
           AwaitGone \/ Publish
  BY <1>6, PrepareTells, SessionTells, StartDelayedTells, StartActiveTells,
     NextActiveTells, LinkTells, PostTells, AcceptanceTells, KillTells, GoneTells,
     PublishTells
<1>7. CASE StopServer \/ RestartServer \/ RestartNodes \/ AwaitReconnected \/
           CloseSession \/ FinalizeEvidence \/ CollectActive \/ StartDelayedAgain \/
           CollectDelayed \/ AwaitAllGone \/ ProveLosses
  BY <1>7, StopTells, RestartTells, RestartNodesTells, ReconnectedTells, CloseTells,
     FinalizeTells, CollectActiveTells, DelayedAgainTells, CollectDelayedTells,
     AllGoneTells, LossesTell
<1>8. CASE NextReview \/ CollectReview \/ CreateSnapshot \/ Tamper \/ RestoreSnapshot \/
           CheckProbes
  BY <1>8, NextReviewTells, CollectReviewTells, SnapshotTells, TamperTells, RestoreTells,
     ProbesTell
<1>9. ~Accepted
  BY <1>t DEF Accepted, RunRecord
<1>10. ~WaitExpires /\ ~KillAll /\ ~CloseServer /\ ~CloseChain
  BY <1>t, <1>f DEF WaitExpires, KillAll, CloseServer, CloseChain, At, Ending
<1> QED
  BY <1>2, <1>3, <1>4, <1>5, <1>6, <1>7, <1>8, <1>9, <1>10 DEF RunStep

\* A run passes with its last step and no other.
LEMMA OnlyAccepted ==
  ASSUME PilotInv, RunStep, run.result = "none", run'.result = "passed"
  PROVE  Accepted
<1>t. run \in RunRecord
  BY DEF PilotInv, Types
<1>f. ~Raise
  BY <1>t DEF Raise, RunRecord
<1>g. \A at : ~Go(at)
  BY <1>t DEF Go, RunRecord
<1>e. /\ \A at : run' # [run EXCEPT !.at = at]
      /\ \A at, todo : run' # [run EXCEPT !.at = at, !.todo = todo]
      /\ \A n, kind, then : run' # Enqueue(n, kind, then)
      /\ \A n, kind, then : run' # [Enqueue(n, kind, then) EXCEPT !.todo = @ \ {n}]
  BY <1>t DEF RunRecord, Enqueue
<1>1. /\ ~InitializeChain /\ ~StartChain /\ ~LoadState /\ ~PublishRelease /\ ~Install
      /\ ~PrepareEnvironment /\ ~CreateSession /\ ~AwaitLink /\ ~PostTask
      /\ ~AwaitAcceptance /\ ~KillNodes /\ ~AwaitGone /\ ~StopServer /\ ~DumpState
      /\ ~StopChain /\ ~RestartServer /\ ~RestartNodes /\ ~AwaitReconnected
      /\ ~CloseSession /\ ~FinalizeEvidence /\ ~AwaitAllGone /\ ~Propose /\ ~BatchVote
      /\ ~SnapshotChain /\ ~CreateSnapshot /\ ~Tamper /\ ~RestoreSnapshot
      /\ ~RestoreChain /\ ~KillAll /\ ~CloseServer /\ ~CloseChain
  BY <1>g DEF InitializeChain, StartChain, LoadState, PublishRelease, Install,
     PrepareEnvironment, CreateSession, AwaitLink, PostTask, AwaitAcceptance, KillNodes,
     AwaitGone, StopServer, DumpState, StopChain, RestartServer, RestartNodes,
     AwaitReconnected, CloseSession, FinalizeEvidence, AwaitAllGone, Propose, BatchVote,
     SnapshotChain, CreateSnapshot, Tamper, RestoreSnapshot, RestoreChain, KillAll,
     CloseServer, CloseChain
<1>2. ~StartDelayed /\ ~StartActive /\ ~NextActive /\ ~StartDelayedAgain /\ ~NextReview
  BY <1>e, <1>g DEF StartDelayed, StartActive, NextActive, StartDelayedAgain, NextReview
<1>3. /\ ~GatherObservers /\ ~CollectActive /\ ~CollectDelayed /\ ~ProveLosses
      /\ ~CollectReview /\ ~CheckProbes /\ ~WaitExpires
  BY <1>e, <1>f DEF GatherObservers, CollectActive, CollectDelayed, ProveLosses,
     CollectReview, CheckProbes, WaitExpires, Collect
<1>4. ~Publish
  BY <1>g DEF Publish
<1> QED
  BY <1>1, <1>2, <1>3, <1>4 DEF RunStep

\* What a transcript that was verified says stays true: no node has a task left.
Holds == TranscriptIsTrue /\ \A n \in Node : node[n].step # "working"

LEMMA AcceptedHolds ==
  ASSUME PilotInv, Parts, Accepted
  PROVE  Holds'
<1>1. /\ run.at = "accept" /\ Place = "accept" /\ hub' = hub /\ node' = node
      /\ conf' = conf /\ data' = data /\ cut' = cut /\ unacknowledged' = unacknowledged
      /\ report' = [report EXCEPT !.acceptances = hub.acceptances,
                                  !.recoveries = hub.recoveries]
  BY DEF Accepted, At, Place, Enqueuing, children
<1>2. \A t \in Task : data.rows[t] = "confirmed"
  BY <1>1, AllAreConfirmed DEF Restoring
<1>3. Taken(data.rows) = Task
  BY <1>2 DEF Taken
<1>4. /\ report'.disconnected = report.disconnected
      /\ report'.reconnected = report.reconnected /\ report'.lost = report.lost
      /\ report'.restored = report.restored
      /\ report'.acceptances = hub.acceptances /\ report'.recoveries = hub.recoveries
  BY <1>1 DEF Parts, Reports, ReportRecord
<1>5. hub.acceptances = Cardinality(Task)
  BY <1>3 DEF Parts, Counted
<1>6. /\ report.disconnected = IF conf.faults THEN Node ELSE {}
      /\ report.reconnected = report.disconnected
      /\ hub.recoveries = IF conf.faults THEN 2 ELSE 1
  BY <1>1 DEF Parts, Reports, CutBy, BackBy, Restarts, PastHalf, Opening, BeforeTry,
              DelayedFirst, Restarting, Reconnecting, Restoring
<1>7. /\ report.disconnected \subseteq cut /\ report.lost \subseteq unacknowledged
      /\ report.restored
  BY <1>1 DEF Parts, Reports
<1>8. ASSUME NEW n \in Node
      PROVE  node[n].step # "working"
  <2>1. node[n].kind \in {"observe", "review"}
    BY DEF PilotInv, Types, Child
  <2> QED
    BY <1>2, <2>1, Pairs DEF Parts, ChildrenTell
<1> QED
  BY <1>1, <1>2, <1>4, <1>5, <1>6, <1>7, <1>8 DEF Holds, TranscriptIsTrue

\* A run that has its outcome only stops what it started.
LEMMA OnlyStops ==
  ASSUME PilotInv, RunStep, run.result # "none"
  PROVE  KillAll \/ CloseServer \/ CloseChain
<1>1. run.at \in {"kill_all", "close_server", "close_chain", "ended"}
  BY DEF PilotInv, Order, Ending
<1>2. /\ ~InitializeChain /\ ~StartChain /\ ~LoadState /\ ~PublishRelease /\ ~Install
      /\ ~PrepareEnvironment /\ ~CreateSession /\ ~StartDelayed /\ ~StartActive
      /\ ~NextActive /\ ~AwaitLink /\ ~PostTask /\ ~AwaitAcceptance /\ ~KillNodes
      /\ ~AwaitGone /\ ~Publish
  BY <1>1 DEF InitializeChain, StartChain, LoadState, PublishRelease, Install,
     PrepareEnvironment, CreateSession, StartDelayed, StartActive, NextActive, AwaitLink,
     PostTask, AwaitAcceptance, KillNodes, AwaitGone, Publish, At
<1>3. /\ ~StopServer /\ ~DumpState /\ ~StopChain /\ ~RestartServer /\ ~RestartNodes
      /\ ~AwaitReconnected /\ ~CloseSession /\ ~FinalizeEvidence /\ ~GatherObservers
      /\ ~CollectActive /\ ~StartDelayedAgain /\ ~CollectDelayed /\ ~AwaitAllGone
      /\ ~ProveLosses
  BY <1>1 DEF StopServer, DumpState, StopChain, RestartServer, RestartNodes,
     AwaitReconnected, CloseSession, FinalizeEvidence, GatherObservers, CollectActive,
     StartDelayedAgain, CollectDelayed, AwaitAllGone, ProveLosses, At
<1>4. /\ ~NextReview /\ ~CollectReview /\ ~Propose /\ ~BatchVote /\ ~SnapshotChain
      /\ ~CreateSnapshot /\ ~Tamper /\ ~RestoreSnapshot /\ ~RestoreChain /\ ~CheckProbes
      /\ ~Accepted /\ ~WaitExpires
  BY <1>1 DEF NextReview, CollectReview, Propose, BatchVote, SnapshotChain, CreateSnapshot,
     Tamper, RestoreSnapshot, RestoreChain, CheckProbes, Accepted, WaitExpires, Waits, At
<1> QED
  BY <1>2, <1>3, <1>4 DEF RunStep

\* What a node that has nothing to do can do to the rows, and its child.
LEMMA IdleNodes ==
  ASSUME PilotInv, Holds, Passed, NEW n \in Node,
         NodeStep(n) \/ HandlerEnds(n) \/ ConnectionBreaks(n) \/ NodeFails(n)
  PROVE  Holds'
<1>t. /\ data \in Data /\ node \in [Node -> Child] /\ hub \in HubRecord
      /\ \A m \in Node, kind \in {"observe", "review"} : data.rows[<<m, kind>>] = "confirmed"
      /\ node[n].kind \in {"observe", "review"} /\ node[n].step # "working"
      /\ \A m \in serves : node[m].step \in Linked
  BY Pairs DEF PilotInv, Types, Order, Child, Holds, TranscriptIsTrue
<1>1. run' = run /\ conf' = conf /\ report' = report /\ cut' = cut
  BY NodeRest
<1>2. ~Accept(n) /\ ~Receipt(n)
  <2>1. \A t \in {n} \X {"observe", "review"} : data.rows[t] = "confirmed"
    BY Pairs DEF Holds, TranscriptIsTrue, Task
  <2> QED
    BY <1>t, <2>1 DEF Accept, Receipt
<1>3. /\ unacknowledged' = unacknowledged
      /\ \A m \in Node : node'[m].step # "working"
  <2>1. /\ unacknowledged' = unacknowledged
        /\ \/ node' = node
           \/ \E st \in {"answered", "done", "lost", "failed"} :
                node' = [node EXCEPT ![n].step = st]
           \/ Authenticate(n)
    BY <1>2 DEF NodeStep, Authenticate, RecoverReceipt, ConfirmReceipt, GiveUp,
         HandlerEnds, ConnectionBreaks, NodeFails, stored, outcome
  <2>2. CASE Authenticate(n)
    BY <1>t, <2>1, <2>2 DEF Authenticate, Child, Holds
  <2>3. CASE ~Authenticate(n)
    BY <1>t, <2>1, <2>3, ChildSet DEF Holds
  <2> QED
    BY <2>1, <2>2, <2>3
<1>4. \A t \in Task : data'.rows[t] = "confirmed"
  <2>1. data' = data \/ data' = [data EXCEPT !.rows[<<n, node[n].kind>>] = "confirmed"]
    BY <1>2 DEF NodeStep, Authenticate, RecoverReceipt, ConfirmReceipt, GiveUp,
         HandlerEnds, ConnectionBreaks, NodeFails, stored
  <2> QED
    BY <1>t, <2>1 DEF Data, Rows, Holds, TranscriptIsTrue, Passed
<1> QED
  BY <1>1, <1>3, <1>4 DEF Holds, TranscriptIsTrue, Passed

LEMMA StoppingHolds ==
  ASSUME PilotInv, Holds, Passed, KillAll \/ CloseServer \/ CloseChain
  PROVE  Holds'
<1>1. /\ conf' = conf /\ report' = report /\ cut' = cut
      /\ unacknowledged' = unacknowledged /\ data' = data
  BY DEF KillAll, CloseServer, CloseChain, Quiet, outcome, stored, children
<1>2. \A m \in Node : node'[m].step # "working"
  <2>1. node \in [Node -> Child] /\ \A n \in serves : node[n].step \in Linked
    BY DEF PilotInv, Types, Order
  <2>2. CASE KillAll
    <3>1. Stopped(Node)
      BY <2>1, <2>2, ChildrenStop DEF KillAll, Started
    <3> QED
      BY <3>1 DEF Stopped, Holds
  <2>3. CASE CloseServer
    <3>1. CutOff
      BY <2>1, <2>3, ServerCuts DEF CloseServer
    <3> QED
      BY <3>1 DEF CutOff, Holds
  <2>4. CASE CloseChain
    BY <2>4 DEF CloseChain, children, Holds
  <2> QED
    BY <2>2, <2>3, <2>4
<1> QED
  BY <1>1, <1>2 DEF Holds, TranscriptIsTrue, Passed

\* Observers, and what leaves everything that is told alone.
LEMMA OthersTell ==
  ASSUME Told, Still, run' = run
  PROVE  Told'
<1>1. /\ conf' = conf /\ hub' = hub /\ node' = node /\ report' = report /\ cut' = cut
      /\ unacknowledged' = unacknowledged /\ data'.rows = data.rows
      /\ data'.events = data.events /\ data'.session = data.session
      /\ disk'.snapshot = disk.snapshot
  BY DEF Still
<1>2. /\ Place' = Place /\ (Closed' <=> Closed)
  BY <1>1 DEF Place, Closed
<1>3. /\ \A n, kind : Unposted(n, kind)' <=> Unposted(n, kind)
      /\ \A n : Reviewer(n)' <=> Reviewer(n)
      /\ \A n, kind : Collected(n, kind)' <=> Collected(n, kind)
      /\ CutBy' = CutBy /\ BackBy' = BackBy /\ Restarts' = Restarts
  BY <1>1, <1>2 DEF Unposted, Reviewer, Collected, ToPost, CutBy, BackBy, Restarts, PastHalf
<1>4. ASSUME Parts
      PROVE  Parts'
  <2>1. Course' /\ RowsTell' /\ Counted'
    BY <1>1, <1>2, <1>3, <1>4 DEF Parts, Course, For, RowsTell, Counted
  <2>2. ChildrenTell' /\ Settles' /\ StayGone'
    BY <1>1, <1>3, <1>4 DEF Parts, ChildrenTell, Settles, StayGone, Alive
  <2>3. Reports' /\ Links'
    BY <1>1, <1>2, <1>3, <1>4 DEF Parts, Reports, Links
  <2> QED
    BY <2>1, <2>2, <2>3 DEF Parts
<1>5. ASSUME Passed, Holds
      PROVE  Holds'
  BY <1>1, <1>5 DEF Holds, TranscriptIsTrue, Passed
<1> QED
  BY <1>4, <1>5 DEF Told, Holds, Passed

LEMMA ToldAtFirst ==
  ASSUME Init
  PROVE  Told
<1> USE DEF Init
<1>1. run.at = "initialize" /\ run.result = "none" /\ Place = "initialize" /\ ~Closed
  BY DEF Place, Enqueuing, Closed, NoData
<1>2. Course
  BY <1>1 DEF Course, For, Enqueuing, Ending, Opening, BeforeTry, DelayedFirst, BeforeActive,
              Cutting, Restarting, Reconnecting, NoData
<1>3. /\ \A n \in Node, kind \in {"observe", "review"} : Unposted(n, kind)
      /\ \A n : ~Reviewer(n)
      /\ \A n, kind : ~Collected(n, kind)
  BY <1>1 DEF Unposted, Reviewer, Collected, BeforeReviews, BeforeDelayed, BeforeClose,
              BeforeActive, Opening, BeforeTry, Proving, Reviewing, Restoring
<1>4. \A n \in Node, kind \in {"observe", "review"} : data.rows[<<n, kind>>] = "none"
  BY Pairs DEF NoData
<1>5. RowsTell
  BY <1>1, <1>3, <1>4 DEF RowsTell
<1>6. Counted
  <2>1. Taken(data.rows) = {}
    BY DEF Taken, NoData
  <2> QED
    BY <2>1, FS_EmptySet DEF Counted, NewHub
<1>7. ChildrenTell /\ Settles /\ StayGone
  BY <1>1, <1>3 DEF ChildrenTell, Settles, StayGone, NoChild
<1>8. Reports
  <2>1. CutBy = {} /\ BackBy = {} /\ Restarts = 0
    BY <1>1 DEF CutBy, BackBy, Restarts, PastHalf, Opening, BeforeTry, DelayedFirst,
                Restarting, Reconnecting, Sealing, Proving, Reviewing, Restoring
  <2> QED
    BY <1>1, <2>1 DEF Reports, ReportRecord, NewHub
<1>9. Links
  BY <1>1 DEF Links, NoChild, NewHub, Node, Proving, Reviewing
<1> QED
  BY <1>1, <1>2, <1>5, <1>6, <1>7, <1>8, <1>9 DEF Told, Parts, Passed

LEMMA ToldSteps ==
  ASSUME PilotInv, Told, [Next]_vars
  PROVE  Told'
<1>t. run \in RunRecord
  BY DEF PilotInv, Types
<1>1. CASE RunStep /\ run.result = "none"
  <2>1. ASSUME run'.result = "none"
        PROVE  Told'
    BY <1>1, <2>1, RunTells DEF Told, Passed
  <2>2. ASSUME run'.result = "passed"
        PROVE  Told'
    <3>1. Holds'
      BY <1>1, <2>2, OnlyAccepted, AcceptedHolds DEF Told
    <3> QED
      BY <2>2, <3>1 DEF Told, Holds
  <2> QED
    BY <2>1, <2>2 DEF Told, Passed
<1>2. CASE RunStep /\ run.result # "none"
  <2>1. KillAll \/ CloseServer \/ CloseChain
    BY <1>2, OnlyStops
  <2>2. run'.result = run.result
    BY <1>t, <2>1 DEF KillAll, CloseServer, CloseChain, Go, RunRecord
  <2>3. ASSUME Passed
        PROVE  Holds'
    BY <2>1, <2>3, StoppingHolds DEF Told, Holds
  <2> QED
    BY <1>2, <2>2, <2>3 DEF Told, Passed, Holds
<1>3. ASSUME NEW n \in Node,
             NodeStep(n) \/ HandlerEnds(n) \/ ConnectionBreaks(n) \/ NodeFails(n)
      PROVE  Told'
  <2>1. run' = run
    BY <1>3, NodeRest
  <2>2. ASSUME run.result = "none"
        PROVE  Parts'
    BY <1>3, <2>2, NodesTell DEF Told
  <2>3. ASSUME Passed
        PROVE  Holds'
    BY <1>3, <2>3, IdleNodes DEF Told, Holds
  <2> QED
    BY <2>1, <2>2, <2>3 DEF Told, Passed, Holds
<1>4. CASE \E o \in Observer : ObserverStep(o)
  <2>1. Still /\ run' = run
    BY <1>4 DEF ObserverStep, StreamEnds, ReadSession, Still, children, outcome
  <2> QED
    BY <2>1, OthersTell
<1>5. CASE StepFails
  <2>1. run'.result = "failed"
    BY <1>t, <1>5 DEF StepFails, RunRecord
  <2> QED
    BY <2>1 DEF Told, Passed
<1>6. CASE UNCHANGED vars
  <2>1. Still /\ run' = run
    BY <1>6 DEF vars, Still
  <2> QED
    BY <2>1, OthersTell
<1> QED
  BY <1>1, <1>2, <1>3, <1>4, <1>5, <1>6 DEF Next

\* The transcript of a run that passed is true: each node that it calls
\* disconnected was gone with its task accepted, each acknowledgement that it calls
\* lost was lost and each receipt is confirmed, and the counters of the Relay went
\* through every restart of the server (_run_acceptance_phase), for any set of nodes,
\* any number of events and any failures.
THEOREM TranscriptTells == Spec => []TranscriptIsTrue
<1>1. Init => PilotInv /\ Told
  BY PilotStarts, ToldAtFirst
<1>2. PilotInv /\ Told /\ [Next]_vars => (PilotInv /\ Told)'
  BY PilotSteps, ToldSteps
<1>3. PilotInv /\ Told => TranscriptIsTrue
  BY DEF Told, TranscriptIsTrue
<1> QED
  BY <1>1, <1>2, <1>3, PTL DEF Spec

\* A step of a node queues no task.
LEMMA NodesQueueNothing ==
  ASSUME PilotInv, NEW n \in Node,
         NodeStep(n) \/ HandlerEnds(n) \/ ConnectionBreaks(n) \/ NodeFails(n),
         NEW t \in Task, data'.rows[t] = "queued"
  PROVE  data.rows[t] = "queued"
<1>1. data \in Data /\ node[n].kind \in {"observe", "review"}
  BY DEF PilotInv, Types, Child
<1>2. \/ data' = data
      \/ \E s \in Task, row \in {"accepted", "answered", "confirmed"} :
           data' = [data EXCEPT !.rows[s] = row]
  <2>1. {n} \X {"observe", "review"} \subseteq Task /\ <<n, node[n].kind>> \in Task
    BY <1>1 DEF Task
  <2> QED
    BY <2>1 DEF NodeStep, Authenticate, Accept, Receipt, RecoverReceipt, ConfirmReceipt,
         GiveUp, HandlerEnds, ConnectionBreaks, NodeFails, stored
<1> QED
  BY <1>1, <1>2 DEF Data, Rows

\* A task is posted to the child that will execute it, and to no other.
LEMMA PostsToChild ==
  ASSUME PilotInv, Told, [Next]_vars, NEW n \in Node, NEW kind \in {"observe", "review"},
         data.rows[<<n, kind>>] = "none", data'.rows[<<n, kind>>] = "queued"
  PROVE  node[n].kind = kind /\ node[n].step # "starting"
<1>t. run \in RunRecord /\ data \in Data /\ <<n, kind>> \in Task
  BY Pairs DEF PilotInv, Types
<1>1. CASE PostTask
  <2>1. run.at = "post_task" /\ Parts
    BY <1>1 DEF PostTask, At, PilotInv, Order, Ending, Told
  <2>2. n = run.who /\ kind = run.kind
    <3>1. data' = [data EXCEPT !.rows[<<run.who, run.kind>>] = "queued"]
          /\ run.who \in Node /\ run.kind \in {"observe", "review"}
      BY <1>1, <1>t DEF PostTask, RunRecord
    <3>2. <<n, kind>> = <<run.who, run.kind>>
      BY <1>t, <3>1 DEF Data, Rows
    <3> QED
      BY <3>2, Pairs
  <2>3. node[n].step # "starting"
    BY <2>1, <2>2 DEF Parts, Links
  <2>4. Reviewer(n) <=> kind = "review"
    BY <2>1, <2>2 DEF Parts, Course, Reviewer, Place, Enqueuing, Reviewing, BeforeReviews,
       BeforeDelayed, BeforeClose, BeforeActive, Opening, BeforeTry, DelayedFirst, Cutting,
       Restarting, Reconnecting, Sealing, Proving
  <2> QED
    BY <2>1, <2>3, <2>4 DEF Parts, ChildrenTell
<1>2. CASE RunStep /\ ~PostTask
  <2>1. CASE run.result # "none"
    <3>1. data' = data
      BY <1>2, <2>1, OnlyStops DEF KillAll, CloseServer, CloseChain, stored
    <3> QED
      BY <3>1
  <2>2. CASE RestoreSnapshot
    <3>1. Parts /\ run.at = "restore" /\ data' = disk.snapshot
      BY <2>2 DEF RestoreSnapshot, At, PilotInv, Order, Ending, Told
    <3> QED
      BY <1>t, <3>1 DEF Parts, Settles
  <2>3. CASE ~RestoreSnapshot
    <3>1. data'.rows = data.rows
      BY <1>t, <1>2, <2>3
         DEF RunStep, InitializeChain, StartChain, LoadState, PublishRelease, Install,
         PrepareEnvironment, CreateSession, StartDelayed, StartActive, NextActive, AwaitLink,
         AwaitAcceptance, KillNodes, AwaitGone, Publish, StopServer, DumpState, StopChain,
         RestartServer, RestartNodes, AwaitReconnected, CloseSession, FinalizeEvidence,
         GatherObservers, CollectActive, StartDelayedAgain, CollectDelayed, AwaitAllGone,
         ProveLosses, NextReview, CollectReview, Propose, BatchVote, SnapshotChain,
         CreateSnapshot, Tamper, RestoreChain, CheckProbes, Accepted, WaitExpires, KillAll,
         CloseServer, CloseChain, Start, Collect, stored, Data
    <3> QED
      BY <3>1
  <2> QED
    BY <2>1, <2>2, <2>3
<1>3. CASE \E m \in Node : \/ NodeStep(m) \/ HandlerEnds(m)
                           \/ ConnectionBreaks(m) \/ NodeFails(m)
  BY <1>3, <1>t, NodesQueueNothing
<1>4. CASE (\E o \in Observer : ObserverStep(o)) \/ StepFails \/ UNCHANGED vars
  <2>1. data' = data
    BY <1>4 DEF ObserverStep, StreamEnds, ReadSession, StepFails, vars
  <2> QED
    BY <2>1
<1> QED
  BY <1>1, <1>2, <1>3, <1>4 DEF Next

\* A task is posted to a node only when the child that will execute it has
\* authenticated, not its predecessor (_enqueue_task_after_relay_connection), in every
\* run, whenever the Relay notices that a connection ended.
THEOREM PostsToItsNode == Spec => PostedToItsNode
<1>1. Init => PilotInv /\ Told
  BY PilotStarts, ToldAtFirst
<1>2. PilotInv /\ Told /\ [Next]_vars => (PilotInv /\ Told)'
  BY PilotSteps, ToldSteps
<1>3. ASSUME PilotInv, Told, [Next]_vars
      PROVE  [\A n \in Node, kind \in {"observe", "review"} :
                (data.rows[<<n, kind>>] = "none" /\ data'.rows[<<n, kind>>] = "queued") =>
                    node[n].kind = kind /\ node[n].step # "starting"]_vars
  BY <1>3, PostsToChild
<1> QED
  BY <1>1, <1>2, <1>3, PTL DEF Spec, PostedToItsNode
=============================================================================
