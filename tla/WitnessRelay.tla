---------------------------- MODULE WitnessRelay ----------------------------
(***************************************************************************)
(* The at-least-once task protocol between the Relay and one observation   *)
(* node: RelayStore (relay.sqlite), the WebSocket handlers of RelayHub,    *)
(* the node's AgentTaskJournal (cursor.sqlite) and run_agent_session.      *)
(*                                                                         *)
(* Every statement of RelayStore carries WHERE recipient = ?, so the rows  *)
(* of two nodes never meet and the module follows the rows of one node.    *)
(* Several handlers may serve that node at once: the one of its current    *)
(* connection and those of connections the node has already given up and   *)
(* whose end the Relay has not seen yet.                                   *)
(*                                                                         *)
(* Heartbeats change no state and are left out, and so are the counters of *)
(* the metrics, the signatures and the static bindings of honest messages  *)
(* (chain, registry, schema, nonce), which every message here passes.      *)
(***************************************************************************)
EXTENDS Naturals, Sequences, FiniteSets

CONSTANTS
    Task,          \* the signed tasks the issuer may submit
    TaskId,        \* task identifiers
    Nonce,         \* issuer nonces
    idOf,          \* [Task -> TaskId]
    nonceOf,       \* [Task -> Nonce]
    Expirable,     \* the tasks whose deadline may pass
    DropAckOnce,   \* ids in drop_receipt_ack_once_for, the injected ACK loss
    NoTask,        \* "no task"
    NoReceipt,     \* "no receipt", SQL NULL
    Expected,      \* --expected-tasks
    Reconnect,     \* --reconnect-attempts
    PromptClose,   \* TRUE: the Relay sees a connection end before the next one
    SlowRelay,     \* TRUE: the idle timeout may fire while an answer is due
    MaxConn,       \* bound: connections in all
    MaxProcs,      \* bound: processes of the node, one after the other
    MaxRuns,       \* bound: executions of tasks
    MaxFaults,     \* bound: broken links and Relay restarts
    MaxRestores    \* bound: restores of a Relay snapshot

ASSUME ConstantsAssumption ==
    /\ IsFiniteSet(Task)
    /\ idOf \in [Task -> TaskId]
    /\ nonceOf \in [Task -> Nonce]
    /\ Expirable \subseteq Task
    /\ DropAckOnce \subseteq TaskId
    /\ NoTask \notin Task
    /\ {Expected, Reconnect, MaxConn, MaxProcs, MaxRuns, MaxFaults, MaxRestores}
         \subseteq Nat
    /\ {PromptClose, SlowRelay} \subseteq BOOLEAN

Conn == 1 .. MaxConn

\* A signed receipt. Two executions of a task never yield the same one: the
\* number of the execution stands for completed_at and the result.
Receipt == [id : TaskId, status : {"completed", "rejected"}, run : 1 .. MaxRuns]

ASSUME NoReceiptAssumption == NoReceipt \notin Receipt

\* What the node sends and what the Relay sends.
UpMsg == [type : {"authenticate"}]
           \cup [type : {"accept", "receipt_ack"}, id : TaskId]
           \cup [type : {"receipt"}, receipt : Receipt]
DownMsg == [type : {"authenticated"}, count : Nat]
             \cup [type : {"receipt_state"}, receipt : Receipt]
             \cup [type : {"task"}, task : Task]
             \cup [type : {"ack", "receipt_confirmed"}, id : TaskId]
             \cup [type : {"error"}]

VARIABLES
    \* relay.sqlite
    rowid,        \* [Task -> Nat], 0 for a task that has no row
    accepted,     \* tasks whose row has accepted = 1
    stored,       \* receipt column; acked = 1 exactly when it is not NULL
    confirmed,    \* tasks whose row has receipt_confirmed = 1
    snapshot,     \* the copy of the four columns the last snapshot holds
    \* RelayHub
    hub,          \* the handler of each connection
    states,       \* stored receipts the handler has read and not yet sent
    starts,       \* ids delivered on this connection
    batch,        \* rows deliver_pending has fetched and not yet sent
    connected,    \* whether the node is in RelayHub.connected
    dropOnce,     \* ids whose next receipt ACK is dropped
    \* the two directions of each connection
    up, down,
    cut,          \* connections whose link broke
    \* the node's process
    pc, conn, attempts, owed, pending, cur, held, receipts,
    sessionRejected, rejected,
    journal,      \* cursor.sqlite, the agent_task_journal table
    \* the environment
    expired,      \* tasks whose deadline passed
    conns, procs, runs, faults, restores

rows      == <<rowid, accepted, stored, confirmed>>
hubVars   == <<hub, states, starts, batch, connected, dropOnce>>
session   == <<pc, conn, attempts, owed, pending, cur, held, receipts,
               sessionRejected, rejected>>
counters  == <<conns, procs, runs, faults, restores>>
vars      == <<rows, snapshot, hubVars, up, down, cut, session, journal,
               expired, counters>>

NoEntry == [task |-> NoTask, receipt |-> NoReceipt]

-----------------------------------------------------------------------------
(* Relay: the rows                                                         *)

Columns == [rowid |-> rowid, accepted |-> accepted, stored |-> stored,
            confirmed |-> confirmed]

Queued == {t \in Task : rowid[t] > 0}

RowsFor(id) == {t \in Queued : idOf[t] = id}

AnsweredRowsToo(s) == {t \in Queued : idOf[t] \notin s}

\* The rows pending() selects for a connection that delivered the ids in s.
PendingRows(s) == {t \in Queued : stored[t] = NoReceipt /\ idOf[t] \notin s}

NoStoredRows == {}

\* The rows stored_receipts() selects.
StoredRows == {t \in Queued : stored[t] # NoReceipt /\ t \notin confirmed}

\* ORDER BY rowid.
IsFirst(t, S) == t \in S /\ \A u \in S : rowid[t] <= rowid[u]

FreshNonce(t) == \A u \in Queued : nonceOf[u] # nonceOf[t]

\* PRIMARY KEY (recipient, task_id), UNIQUE (recipient, issuer, nonce).
Fresh(t) == \A u \in Queued : idOf[u] # idOf[t] /\ nonceOf[u] # nonceOf[t]

\* enqueue_signed_task: a task is inserted unless its id or nonce is taken.
\* Replaying the same task, or submitting a conflicting one, changes nothing.
Submit(t) ==
    /\ t \notin expired
    /\ Fresh(t)
    /\ rowid' = [rowid EXCEPT ![t] = 1 + Cardinality(Queued)]
    /\ UNCHANGED <<accepted, stored, confirmed, snapshot, hubVars, up, down,
                   cut, session, journal, expired, counters>>

-----------------------------------------------------------------------------
(* Relay: the handler of connection c                                      *)

\* ws.send_json: what is sent to a node that left, or over a broken link, is
\* lost.
Reply(c, m) ==
    down' = [down EXCEPT ![c] = IF c = conn /\ c \notin cut
                                THEN Append(@, m) ELSE @]

\* The handler is in its receive loop and m is the next message.
Receives(c, type) ==
    /\ hub[c] = "open"
    /\ states[c] = {}
    /\ up[c] # <<>>
    /\ Head(up[c]).type = type
    /\ up' = [up EXCEPT ![c] = Tail(@)]

\* self.connected.discard(node), for a handler that had added the node.
Discard(c) == connected' = (connected /\ hub[c] = "waiting")

\* The node has authenticated: it is connected, the receipts not yet confirmed
\* are read, and their number is announced.
HubAuthenticate(c) ==
    /\ hub[c] = "waiting"
    /\ up[c] # <<>>
    /\ up' = [up EXCEPT ![c] = Tail(@)]
    /\ hub' = [hub EXCEPT ![c] = "open"]
    /\ connected' = TRUE
    /\ states' = [states EXCEPT ![c] = StoredRows]
    /\ Reply(c, [type |-> "authenticated", count |-> Cardinality(StoredRows)])
    /\ UNCHANGED <<rows, snapshot, starts, batch, dropOnce, cut, session,
                   journal, expired, counters>>

HubSendState(c) ==
    /\ hub[c] = "open"
    /\ \E t \in states[c] :
         /\ IsFirst(t, states[c])
         /\ states' = [states EXCEPT ![c] = @ \ {t}]
         /\ Reply(c, [type |-> "receipt_state", receipt |-> stored[t]])
    /\ UNCHANGED <<rows, snapshot, hub, starts, batch, connected, dropOnce, up,
                   cut, session, journal, expired, counters>>

\* deliver_pending reads the pending rows in one go ...
HubFetch(c) ==
    /\ hub[c] = "open"
    /\ states[c] = {}
    /\ batch[c] = {}
    /\ PendingRows(starts[c]) # {}
    /\ batch' = [batch EXCEPT ![c] = PendingRows(starts[c])]
    /\ UNCHANGED <<rows, snapshot, hub, states, starts, connected, dropOnce, up,
                   down, cut, session, journal, expired, counters>>

\* ... and sends them one by one: other handlers run in between, and a row may
\* have its receipt by the time it is sent.
HubDeliver(c) ==
    /\ hub[c] = "open"
    /\ \E t \in batch[c] :
         /\ IsFirst(t, batch[c])
         /\ batch' = [batch EXCEPT ![c] = @ \ {t}]
         /\ starts' = [starts EXCEPT ![c] = @ \cup {idOf[t]}]
         /\ Reply(c, [type |-> "task", task |-> t])
    /\ UNCHANGED <<rows, snapshot, hub, states, connected, dropOnce, up, cut,
                   session, journal, expired, counters>>

HubRecvAccept(c) ==
    /\ Receives(c, "accept")
    /\ LET id == Head(up[c]).id IN
         IF id \in starts[c]
         THEN accepted' = accepted \cup RowsFor(id) /\ UNCHANGED down
         ELSE Reply(c, [type |-> "error"]) /\ UNCHANGED accepted
    /\ UNCHANGED <<rowid, stored, confirmed, snapshot, hubVars, cut, session,
                   journal, expired, counters>>

\* A receipt is stored only for a task delivered on this connection, accepted
\* and without a receipt. The injected fault closes instead of sending the ACK.
HubRecvReceipt(c) ==
    /\ Receives(c, "receipt")
    /\ LET r    == Head(up[c]).receipt
           open == {t \in RowsFor(r.id) : t \in accepted /\ stored[t] = NoReceipt}
       IN  IF r.id \in starts[c] /\ open # {}
           THEN /\ stored' = [t \in Task |-> IF t \in open THEN r ELSE stored[t]]
                /\ dropOnce' = dropOnce \ {r.id}
                /\ IF r.id \in dropOnce
                   THEN /\ hub' = [hub EXCEPT ![c] = "gone"]
                        /\ Discard(c)
                        /\ UNCHANGED down
                   ELSE /\ Reply(c, [type |-> "ack", id |-> r.id])
                        /\ UNCHANGED <<hub, connected>>
           ELSE /\ Reply(c, [type |-> "error"])
                /\ UNCHANGED <<stored, dropOnce, hub, connected>>
    /\ UNCHANGED <<rowid, accepted, confirmed, snapshot, states, starts, batch,
                   cut, session, journal, expired, counters>>

HubRecvReceiptAck(c) ==
    /\ Receives(c, "receipt_ack")
    /\ LET id   == Head(up[c]).id
           open == RowsFor(id) \cap StoredRows
       IN  IF open # {}
           THEN /\ confirmed' = confirmed \cup open
                /\ Reply(c, [type |-> "receipt_confirmed", id |-> id])
           ELSE /\ Reply(c, [type |-> "error"])
                /\ UNCHANGED confirmed
    /\ UNCHANGED <<rowid, accepted, stored, snapshot, hubVars, cut, session,
                   journal, expired, counters>>

\* The handler sees that its connection ended. A handler that never
\* authenticated returns before the node is in connected; the other ones run
\* the finally block, which discards the node whoever else serves it.
HubEnd(c) ==
    /\ hub[c] \in {"waiting", "open"}
    /\ c \in cut \/ c # conn
    /\ hub' = [hub EXCEPT ![c] = "gone"]
    /\ Discard(c)
    /\ up' = [up EXCEPT ![c] = <<>>]
    /\ states' = [states EXCEPT ![c] = {}]
    /\ batch' = [batch EXCEPT ![c] = {}]
    /\ UNCHANGED <<rows, snapshot, starts, dropOnce, down, cut, session,
                   journal, expired, counters>>

-----------------------------------------------------------------------------
(* Node: one session of run_agent_session                                  *)

\* ws.send_json of the node.
Emit(msgs) ==
    up' = [up EXCEPT ![conn] = IF conn \notin cut /\ hub[conn] \in {"waiting", "open"}
                               THEN @ \o msgs ELSE @]

\* The process starts anew: its list of receipts is empty, its journal is not.
StartProcess ==
    /\ pc \in {"down", "failed", "aborted", "done"}
    /\ procs < MaxProcs
    /\ procs' = procs + 1
    /\ pc' = "idle"
    /\ attempts' = 0
    /\ receipts' = {}
    /\ rejected' = 0
    /\ UNCHANGED <<rows, snapshot, hubVars, up, down, cut, conn, owed, pending,
                   cur, held, sessionRejected, journal, expired, conns, runs,
                   faults, restores>>

\* Connects, reads the challenge and authenticates.
Connect ==
    /\ pc = "idle"
    /\ conns < MaxConn
    /\ PromptClose => \A c \in Conn : hub[c] \in {"unused", "gone"}
    /\ conns' = conns + 1
    /\ conn' = conns + 1
    /\ attempts' = attempts + 1
    /\ hub' = [hub EXCEPT ![conns + 1] = "waiting"]
    /\ up' = [up EXCEPT ![conns + 1] = <<[type |-> "authenticate"]>>]
    /\ pc' = "auth"
    /\ UNCHANGED <<rows, snapshot, states, starts, batch, connected, dropOnce,
                   down, cut, owed, pending, cur, held, receipts,
                   sessionRejected, rejected, journal, expired, procs, runs,
                   faults, restores>>

LeaveSessionWithTask(next) ==
    /\ pc' = next
    /\ conn' = 0
    /\ owed' = 0
    /\ pending' = <<>>
    /\ held' = NoReceipt
    /\ sessionRejected' = 0
    /\ down' = [down EXCEPT ![conn] = <<>>]
    /\ UNCHANGED cur

\* What is lost when the session ends: the queue of messages set aside and the
\* session's own count of rejected receipts.
LeaveSession(next) ==
    /\ pc' = next
    /\ conn' = 0
    /\ owed' = 0
    /\ pending' = <<>>
    /\ cur' = NoTask
    /\ held' = NoReceipt
    /\ sessionRejected' = 0
    /\ down' = [down EXCEPT ![conn] = <<>>]

\* An error the node does not retry ends its process.
Abort ==
    /\ LeaveSession("aborted")
    /\ UNCHANGED <<attempts, receipts, rejected>>

InSession == pc \in {"auth", "serve", "exec", "await", "confirm"}

\* The next message of the session loops, which read the ones set aside first.
HasMessage == pending # <<>> \/ down[conn] # <<>>
Message == IF pending # <<>> THEN Head(pending) ELSE Head(down[conn])
TakeMessage ==
    IF pending # <<>>
    THEN pending' = Tail(pending) /\ UNCHANGED down
    ELSE down' = [down EXCEPT ![conn] = Tail(@)] /\ UNCHANGED pending

\* The next message on the wire, for the loops that read nothing else.
OnWire(type) == down[conn] # <<>> /\ Head(down[conn]).type = type
TakeWire == down' = [down EXCEPT ![conn] = Tail(@)]

NothingDeclared == 0

\* receipt_state_count.
Declared == Head(down[conn]).count

RecvAuthenticated ==
    /\ pc = "auth"
    /\ OnWire("authenticated")
    /\ TakeWire
    /\ owed' = Declared
    /\ pc' = "serve"
    /\ UNCHANGED <<rows, snapshot, hubVars, up, cut, conn, attempts, pending,
                   cur, held, receipts, sessionRejected, rejected, journal,
                   expired, counters>>

\* _record_receipt: a receipt known already is not counted again. Its error for
\* two receipts of one task is left out: ReceiptsAgree shows there are none.
Record(r) ==
    /\ receipts' = receipts \cup {r}
    /\ sessionRejected' = sessionRejected
         + IF r.status = "rejected" /\ r \notin receipts THEN 1 ELSE 0

AcknowledgeAndGoOn(r) ==
    /\ Record(r)
    /\ held' = NoReceipt
    /\ pc' = "serve"
    /\ Emit(<<[type |-> "receipt_ack", id |-> r.id]>>)

\* The node records r, asks the Relay to confirm it and waits.
Acknowledge(r) ==
    /\ Record(r)
    /\ held' = r
    /\ pc' = "confirm"
    /\ Emit(<<[type |-> "receipt_ack", id |-> r.id]>>)

\* A receipt the Relay still holds unconfirmed must be the one in the journal.
RecvReceiptState ==
    /\ pc = "serve"
    /\ HasMessage
    /\ Message.type = "receipt_state"
    /\ LET r == Message.receipt IN
         IF journal[r.id].receipt = r
         THEN /\ TakeMessage
              /\ Acknowledge(r)
              /\ owed' = IF owed > 0 THEN owed - 1 ELSE 0
              /\ UNCHANGED <<conn, attempts, cur, rejected>>
         ELSE Abort /\ UNCHANGED up
    /\ UNCHANGED <<rows, snapshot, hubVars, cut, journal, expired, counters>>

UnknownReceipt(t) == NoReceipt

\* AgentTaskJournal.claim: the receipt it returns for a task it knows.
KnownReceipt(t) == journal[idOf[t]].receipt

ReplayedNonce(t) ==
    /\ journal[idOf[t]].task = NoTask
    /\ \E id \in TaskId : /\ journal[id].task # NoTask
                          /\ nonceOf[journal[id].task] = nonceOf[t]

\* AgentTaskJournal.claim: the id or the nonce belongs to another task.
Replayed(t) ==
    \/ journal[idOf[t]].task \notin {t, NoTask}
    \/ ReplayedNonce(t)

\* A task is verified, claimed and accepted. If the journal has its receipt
\* that one is sent again, else the task is executed.
RecvTask ==
    /\ pc = "serve"
    /\ owed = 0
    /\ Cardinality(receipts) < Expected
    /\ HasMessage
    /\ Message.type = "task"
    /\ LET t  == Message.task
           id == idOf[t]
           r  == KnownReceipt(t)
           accept == [type |-> "accept", id |-> id]
       IN  IF t \in expired \/ Replayed(t)
           THEN Abort /\ UNCHANGED <<up, journal>>
           ELSE /\ TakeMessage
                /\ journal' = [journal EXCEPT ![id] = [task |-> t, receipt |-> r]]
                /\ IF r # NoReceipt
                   THEN /\ Emit(<<accept, [type |-> "receipt", receipt |-> r]>>)
                        /\ held' = r
                        /\ pc' = "await"
                        /\ UNCHANGED cur
                   ELSE /\ Emit(<<accept>>)
                        /\ cur' = t
                        /\ pc' = "exec"
                        /\ UNCHANGED held
                /\ UNCHANGED <<conn, attempts, owed, receipts, sessionRejected,
                               rejected>>
    /\ UNCHANGED <<rows, snapshot, hubVars, cut, expired, counters>>

SaveNothing(r) == UNCHANGED journal

\* AgentTaskJournal.save_receipt.
SaveReceipt(r) == journal' = [journal EXCEPT ![r.id].receipt = r]

\* The execution ends, well or with a LoveEngineError. The signed receipt is
\* saved in the journal first and sent next.
Execute ==
    /\ pc = "exec"
    /\ runs < MaxRuns
    /\ runs' = runs + 1
    /\ \E status \in {"completed", "rejected"} :
         LET r == [id |-> idOf[cur], status |-> status, run |-> runs + 1] IN
           /\ SaveReceipt(r)
           /\ held' = r
           /\ Emit(<<[type |-> "receipt", receipt |-> r]>>)
    /\ cur' = NoTask
    /\ pc' = "await"
    /\ UNCHANGED <<rows, snapshot, hubVars, down, cut, conn, attempts, owed,
                   pending, receipts, sessionRejected, rejected, expired,
                   conns, procs, faults, restores>>

\* While it executes or waits for an answer the node sets the messages it will
\* serve later aside.
SetAside ==
    /\ \/ pc \in {"exec", "await"} /\ OnWire("task")
       \/ pc = "confirm" /\ (OnWire("task") \/ OnWire("receipt_state"))
    /\ pending' = Append(pending, Head(down[conn]))
    /\ TakeWire
    /\ UNCHANGED <<rows, snapshot, hubVars, up, cut, pc, conn, attempts, owed,
                   cur, held, receipts, sessionRejected, rejected, journal,
                   expired, counters>>

\* The Relay acknowledges the receipt the node is waiting for.
RecvAck ==
    /\ pc = "await"
    /\ OnWire("ack")
    /\ Head(down[conn]).id = held.id
    /\ TakeWire
    /\ Acknowledge(held)
    /\ UNCHANGED <<rows, snapshot, hubVars, cut, conn, attempts, owed, pending,
                   cur, rejected, journal, expired, counters>>

RecvConfirmed ==
    /\ pc = "confirm"
    /\ OnWire("receipt_confirmed")
    /\ Head(down[conn]).id = held.id
    /\ TakeWire
    /\ held' = NoReceipt
    /\ pc' = "serve"
    /\ UNCHANGED <<rows, snapshot, hubVars, up, cut, conn, attempts, owed,
                   pending, cur, receipts, sessionRejected, rejected, journal,
                   expired, counters>>

\* relay_receipt_not_acknowledged, relay_receipt_confirmation_failed: an error
\* in place of the answer is not retried.
RecvError ==
    /\ pc \in {"await", "confirm"}
    /\ OnWire("error")
    /\ Abort
    /\ UNCHANGED <<rows, snapshot, hubVars, up, cut, journal, expired, counters>>

\* All the expected receipts are there: only now does the count of rejected
\* receipts of this session reach the result.
Finish ==
    /\ pc = "serve"
    /\ owed = 0
    /\ Cardinality(receipts) >= Expected
    /\ LeaveSession("done")
    /\ rejected' = rejected + sessionRejected
    /\ UNCHANGED <<rows, snapshot, hubVars, up, cut, attempts, receipts,
                   journal, expired, counters>>

-----------------------------------------------------------------------------
(* Failures, timeouts and the passing of time                              *)

\* A closed socket or a timeout is retried while attempts are left.
Retry ==
    /\ LeaveSession(IF attempts > Reconnect THEN "failed" ELSE "idle")
    /\ UNCHANGED <<rows, snapshot, hubVars, up, cut, attempts, receipts,
                   rejected, journal, expired, counters>>

OnlyBroken == conn \in cut

\* A close frame or a broken socket.
Closed == conn \in cut \/ hub[conn] = "gone"

SeesClose ==
    /\ InSession
    /\ Closed
    /\ Retry

\* Nothing is on its way to the node on this connection.
Quiet ==
    /\ up[conn] = <<>>
    /\ hub[conn] # "waiting"
    /\ states[conn] = {}
    /\ batch[conn] = {}
    /\ PendingRows(starts[conn]) = {}

\* idle_timeout_seconds without a message.
IdleTimeout ==
    /\ pc \in {"auth", "serve", "await", "confirm"}
    /\ down[conn] = <<>>
    /\ pc = "serve" => pending = <<>> /\ (owed > 0 \/ Cardinality(receipts) < Expected)
    /\ SlowRelay \/ Quiet
    /\ Retry

\* The Relay refuses the connection, or before_connect cannot reach the chain.
ConnectFails ==
    /\ pc = "idle"
    /\ faults < MaxFaults
    /\ faults' = faults + 1
    /\ attempts' = attempts + 1
    /\ pc' = IF attempts + 1 > Reconnect THEN "failed" ELSE "idle"
    /\ UNCHANGED <<rows, snapshot, hubVars, up, down, cut, conn, owed, pending,
                   cur, held, receipts, sessionRejected, rejected, journal,
                   expired, conns, procs, runs, restores>>

CutLink ==
    /\ InSession
    /\ conn \notin cut
    /\ faults < MaxFaults
    /\ faults' = faults + 1
    /\ cut' = cut \cup {conn}
    /\ UNCHANGED <<rows, snapshot, hubVars, up, down, session, journal, expired,
                   conns, procs, runs, restores>>

\* The node's process is killed, or ends because its signer fails. Its journal
\* survives.
Crash ==
    /\ InSession
    /\ procs < MaxProcs
    /\ LeaveSession("down")
    /\ receipts' = {}
    /\ UNCHANGED <<rows, snapshot, hubVars, up, cut, attempts, rejected,
                   journal, expired, counters>>

\* The Relay process stops and starts again: every handler is gone.
HubStops ==
    /\ hub' = [c \in Conn |-> IF hub[c] = "unused" THEN "unused" ELSE "gone"]
    /\ states' = [c \in Conn |-> {}]
    /\ batch' = [c \in Conn |-> {}]
    /\ up' = [c \in Conn |-> <<>>]
    /\ connected' = FALSE
    /\ UNCHANGED <<starts, dropOnce, down, cut, session, journal, expired, conns,
                   procs, runs>>

HubRestart ==
    /\ faults < MaxFaults
    /\ \E c \in Conn : hub[c] \in {"waiting", "open"}
    /\ faults' = faults + 1
    /\ HubStops
    /\ UNCHANGED <<rows, snapshot, restores>>

\* loveengine pilot snapshot create copies relay.sqlite while the Relay runs,
\* and restore puts the copy back while it is stopped.
TakeSnapshot ==
    /\ restores < MaxRestores
    /\ snapshot # Columns
    /\ snapshot' = Columns
    /\ UNCHANGED <<rows, hubVars, up, down, cut, session, journal, expired,
                   counters>>

RestoreSnapshot ==
    /\ restores < MaxRestores
    /\ restores' = restores + 1
    /\ rowid' = snapshot.rowid
    /\ accepted' = snapshot.accepted
    /\ stored' = snapshot.stored
    /\ confirmed' = snapshot.confirmed
    /\ HubStops
    /\ UNCHANGED <<snapshot, faults>>

\* The clock passes the deadline of a task.
Expire(t) ==
    /\ t \in Expirable \ expired
    /\ expired' = expired \cup {t}
    /\ UNCHANGED <<rows, snapshot, hubVars, up, down, cut, session, journal,
                   counters>>

-----------------------------------------------------------------------------
Init ==
    /\ rowid = [t \in Task |-> 0]
    /\ accepted = {}
    /\ stored = [t \in Task |-> NoReceipt]
    /\ confirmed = {}
    /\ snapshot = Columns
    /\ hub = [c \in Conn |-> "unused"]
    /\ states = [c \in Conn |-> {}]
    /\ starts = [c \in Conn |-> {}]
    /\ batch = [c \in Conn |-> {}]
    /\ connected = FALSE
    /\ dropOnce = DropAckOnce
    /\ up = [c \in Conn |-> <<>>]
    /\ down = [c \in Conn |-> <<>>]
    /\ cut = {}
    /\ pc = "down"
    /\ conn = 0
    /\ attempts = 0
    /\ owed = 0
    /\ pending = <<>>
    /\ cur = NoTask
    /\ held = NoReceipt
    /\ receipts = {}
    /\ sessionRejected = 0
    /\ rejected = 0
    /\ journal = [id \in TaskId |-> NoEntry]
    /\ expired = {}
    /\ conns = 0
    /\ procs = 0
    /\ runs = 0
    /\ faults = 0
    /\ restores = 0

HubStep(c) ==
    \/ HubAuthenticate(c)
    \/ HubSendState(c)
    \/ HubFetch(c)
    \/ HubDeliver(c)
    \/ HubRecvAccept(c)
    \/ HubRecvReceipt(c)
    \/ HubRecvReceiptAck(c)
    \/ HubEnd(c)

NodeStep ==
    \/ Connect
    \/ RecvAuthenticated
    \/ RecvReceiptState
    \/ RecvTask
    \/ Execute
    \/ SetAside
    \/ RecvAck
    \/ RecvConfirmed
    \/ RecvError
    \/ Finish
    \/ SeesClose
    \/ IdleTimeout

Fault ==
    \/ ConnectFails
    \/ CutLink
    \/ Crash
    \/ HubRestart
    \/ TakeSnapshot
    \/ RestoreSnapshot

Next ==
    \/ \E t \in Task : Submit(t) \/ Expire(t)
    \/ \E c \in Conn : HubStep(c)
    \/ StartProcess
    \/ NodeStep
    \/ Fault

Spec == Init /\ [][Next]_vars

\* The handlers of the Relay and the loops of the node run when they can, and
\* an idle timeout fires when nothing is due. Faults never have to happen.
Fairness ==
    /\ \A c \in Conn : WF_vars(HubStep(c))
    /\ WF_vars(NodeStep)

FairSpec == Spec /\ Fairness

-----------------------------------------------------------------------------
(* Properties                                                              *)

RelayTypeOK ==
    /\ rowid \in [Task -> Nat]
    /\ accepted \subseteq Task
    /\ stored \in [Task -> Receipt \cup {NoReceipt}]
    /\ confirmed \subseteq Task
    /\ snapshot \in [rowid : [Task -> Nat], accepted : SUBSET Task,
                      stored : [Task -> Receipt \cup {NoReceipt}],
                      confirmed : SUBSET Task]

HubTypeOK ==
    /\ hub \in [Conn -> {"unused", "waiting", "open", "gone"}]
    /\ states \in [Conn -> SUBSET Task]
    /\ \A c \in Conn : \A t \in states[c] : stored[t] # NoReceipt
    /\ starts \in [Conn -> SUBSET TaskId]
    /\ batch \in [Conn -> SUBSET Task]
    /\ connected \in BOOLEAN
    /\ dropOnce \subseteq TaskId

WireTypeOK ==
    /\ up \in [Conn -> Seq(UpMsg)]
    /\ down \in [Conn -> Seq(DownMsg)]
    /\ pending \in Seq(DownMsg)
    /\ cut \subseteq Conn

\* A process has a connection, a task and a receipt exactly where its program
\* counter says so.
SessionTypeOK ==
    /\ pc \in {"down", "idle", "auth", "serve", "exec", "await", "confirm",
               "done", "failed", "aborted"}
    /\ IF InSession THEN conn \in Conn ELSE conn = 0
    /\ IF pc = "exec" THEN cur \in Task ELSE cur = NoTask
    /\ IF pc \in {"await", "confirm"} THEN held \in Receipt ELSE held = NoReceipt
    /\ receipts \subseteq Receipt

JournalTypeOK ==
    journal \in [TaskId -> [task : Task \cup {NoTask},
                            receipt : Receipt \cup {NoReceipt}]]

CounterTypeOK ==
    /\ expired \subseteq Task
    /\ attempts \in Nat
    /\ owed \in Nat
    /\ sessionRejected \in Nat
    /\ rejected \in Nat
    /\ conns \in 0 .. MaxConn
    /\ procs \in 0 .. MaxProcs
    /\ runs \in 0 .. MaxRuns
    /\ faults \in 0 .. MaxFaults
    /\ restores \in 0 .. MaxRestores

\* The type invariant.
TypeOK ==
    /\ RelayTypeOK
    /\ HubTypeOK
    /\ WireTypeOK
    /\ SessionTypeOK
    /\ JournalTypeOK
    /\ CounterTypeOK

Journaled(r) == r.id \in TaskId /\ journal[r.id].receipt = r

\* One signed receipt per task, for ever: whatever the crashes, reconnects,
\* Relay restarts and restored snapshots, every copy of a receipt, in the
\* Relay's rows, in a snapshot, on the wire or in the node's memory, is the one
\* the node's journal holds.
ReceiptsAgree ==
    /\ \A t \in Task : stored[t] # NoReceipt => Journaled(stored[t])
    /\ \A t \in Task : snapshot.stored[t] # NoReceipt => Journaled(snapshot.stored[t])
    /\ \A c \in Conn :
         /\ \A i \in DOMAIN up[c] :
              up[c][i].type = "receipt" => Journaled(up[c][i].receipt)
         /\ \A i \in DOMAIN down[c] :
              down[c][i].type = "receipt_state" => Journaled(down[c][i].receipt)
    /\ \A i \in DOMAIN pending :
         pending[i].type = "receipt_state" => Journaled(pending[i].receipt)
    /\ held # NoReceipt => Journaled(held)
    /\ \A r \in receipts : Journaled(r)

\* The Relay's row of a task holds a receipt of that task and never the one of
\* another task that had its id before a snapshot was restored.
ReceiptBelongsToTask ==
    \A t \in Task :
        stored[t] # NoReceipt => /\ stored[t].id = idOf[t]
                                 /\ journal[idOf[t]].task = t

\* The loops of the session ignore some messages and fail on others: none of
\* those ever arrives, so no answer is dropped while a task executes and no
\* answer is taken for that of another receipt.
AnswersMatch ==
    InSession =>
        \A i \in DOMAIN down[conn] :
            LET m == down[conn][i] IN
              CASE pc = "auth"    -> m.type \in {"authenticated", "receipt_state", "task"}
                [] pc = "serve"   -> m.type \in {"receipt_state", "task"}
                [] pc = "exec"    -> m.type = "task"
                [] pc = "await"   -> \/ m.type \in {"task", "error"}
                                     \/ m.type = "ack" /\ m.id = held.id
                [] pc = "confirm" -> \/ m.type \in {"receipt_state", "task", "error"}
                                     \/ m.type = "receipt_confirmed" /\ m.id = held.id

\* A session that reports success leaves nothing to recover: the Relay has the
\* node's confirmation of every receipt the session returns.
DoneIsConfirmed ==
    pc = "done" =>
        \A r \in receipts : \E t \in confirmed : stored[t] = r

\* A task whose receipt is in the journal is not executed again, and its entry
\* is never replaced.
JournalFinal ==
    [][\A id \in TaskId :
         /\ journal[id].receipt # NoReceipt => journal'[id] = journal[id]
         /\ journal[id].task # NoTask => journal'[id].task = journal[id].task]_vars

\* The promise of the whole, TaskReceipts: one receipt per task, published at
\* the Relay only once it is signed and journaled, confirmed only once it is
\* published.
Receipts == INSTANCE TaskReceipts WITH
    signed    <- {journal[id].receipt : id \in TaskId} \ {NoReceipt},
    published <- {stored[t] : t \in Task} \ {NoReceipt},
    confirmed <- {stored[t] : t \in confirmed}

ImplementsReceipts == Receipts!Spec

\* A session ends with an error it does not retry only for a task that expired
\* or whose id or nonce was used before.
NoAbort == pc # "aborted"

\* The result's count of rejected receipts is that of the receipts returned.
RejectedIsCounted ==
    pc = "done" => rejected = Cardinality({r \in receipts : r.status = "rejected"})

\* The bounded session ends: it returns its receipts or an error.
SessionEnds == InSession ~> ~InSession

\* With as many attempts as there are faults, the session returns every receipt
\* it was started for.
SessionSucceeds ==
    (pc = "idle" /\ attempts = 0 /\ Queued = Task) ~> (pc = "done")
=============================================================================
