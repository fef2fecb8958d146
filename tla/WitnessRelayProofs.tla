------------------------- MODULE WitnessRelayProofs -------------------------
(***************************************************************************)
(* Proofs about WitnessRelay for every value of its constants: its types,  *)
(* that all copies of a receipt agree, that the node's journal is final,   *)
(* that the whole implements TaskReceipts, that a row's receipt is its     *)
(* task's, that the Relay knows whether it serves the node, that a session *)
(* which reports success has left nothing unconfirmed, that the answer the *)
(* node reads is the one it asked for, and that no session is refused      *)
(* while no deadline passes and no snapshot is restored.                   *)
(***************************************************************************)
EXTENDS WitnessRelay, FiniteSetTheorems, SequenceTheorems, TLAPS

USE ConstantsAssumption, NoReceiptAssumption

-----------------------------------------------------------------------------
(* Queues of messages. S is any set of messages, so the lemmas serve the    *)
(* types and the contents of the queues alike.                              *)

\* The number of tasks that satisfy a condition is a natural number.
LEMMA CountIsNat == \A S \in SUBSET Task : Cardinality(S) \in Nat
<1>1. IsFiniteSet(Task)
  OBVIOUS
<1> QED
  BY <1>1, FS_Subset, FS_CardinalityType

\* A row of relay.sqlite gets a number.
LEMMA RowNumbered ==
  ASSUME NEW f \in [Task -> Nat], NEW t \in Task, NEW n \in Nat
  PROVE  [f EXCEPT ![t] = 1 + n] \in [Task -> Nat]
  OBVIOUS

\* Messages of the declared types, as the handlers build them.
LEMMA MessageTypes ==
  /\ \A n \in Nat : [type |-> "authenticated", count |-> n] \in DownMsg
  /\ \A r \in Receipt : [type |-> "receipt_state", receipt |-> r] \in DownMsg
  /\ \A t \in Task : [type |-> "task", task |-> t] \in DownMsg
  /\ \A id \in TaskId : [type |-> "ack", id |-> id] \in DownMsg
  /\ \A id \in TaskId : [type |-> "receipt_confirmed", id |-> id] \in DownMsg
  /\ [type |-> "error"] \in DownMsg
  /\ [type |-> "authenticate"] \in UpMsg
  /\ \A id \in TaskId : [type |-> "accept", id |-> id] \in UpMsg
  /\ \A id \in TaskId : [type |-> "receipt_ack", id |-> id] \in UpMsg
  /\ \A r \in Receipt : [type |-> "receipt", receipt |-> r] \in UpMsg
  BY DEF UpMsg, DownMsg

\* The fields of a message, by its type.
LEMMA MessageFields ==
  /\ \A m \in DownMsg : /\ m.type = "authenticated" => m.count \in Nat
                        /\ m.type = "receipt_state" => m.receipt \in Receipt
                        /\ m.type = "task" => m.task \in Task
  /\ \A m \in UpMsg : /\ m.type = "accept" => m.id \in TaskId
                      /\ m.type = "receipt_ack" => m.id \in TaskId
                      /\ m.type = "receipt" => m.receipt \in Receipt
  BY DEF UpMsg, DownMsg

\* A receipt names a task and an execution.
LEMMA ReceiptFields ==
  /\ \A r \in Receipt : r.id \in TaskId
  /\ \A id \in TaskId, status \in {"completed", "rejected"}, n \in 1 .. MaxRuns :
       [id |-> id, status |-> status, run |-> n] \in Receipt
  BY DEF Receipt

\* A queue of elements of S is one of elements of a larger set.
LEMMA QueueMono ==
  ASSUME NEW S, NEW T, S \subseteq T, NEW q \in Seq(S)
  PROVE  q \in Seq(T)
  OBVIOUS

\* The parts and the concatenation of queues.
LEMMA QueueParts ==
  ASSUME NEW S
  PROVE  /\ <<>> \in Seq(S)
         /\ \A q \in Seq(S) : q # <<>> => Head(q) \in S /\ Tail(q) \in Seq(S)
         /\ \A q, r \in Seq(S) : q \o r \in Seq(S)
         /\ \A m \in S : <<m>> \in Seq(S)
         /\ \A m, n \in S : <<m, n>> \in Seq(S)
  OBVIOUS

\* What the Relay sends joins the queue, or is lost.
LEMMA ReplyQueues ==
  ASSUME NEW S, down \in [Conn -> Seq(S)], NEW c \in Conn, NEW m \in S, Reply(c, m)
  PROVE  down' \in [Conn -> Seq(S)]
  BY DEF Reply

\* What the node sends joins the queue, or is lost.
LEMMA EmitQueues ==
  ASSUME NEW S, up \in [Conn -> Seq(S)], NEW msgs \in Seq(S), Emit(msgs)
  PROVE  up' \in [Conn -> Seq(S)]
<1>1. \A c \in Conn : up[c] \o msgs \in Seq(S)
  BY QueueParts
<1> QED
  BY <1>1 DEF Emit

\* The Relay takes the first message of a queue.
LEMMA ReceivesQueues ==
  ASSUME NEW S, up \in [Conn -> Seq(S)], NEW c \in Conn, NEW type, Receives(c, type)
  PROVE  /\ up' \in [Conn -> Seq(S)]
         /\ Head(up[c]) \in S
         /\ Head(up[c]).type = type
  BY DEF Receives

\* The node takes the first message of a queue.
LEMMA WireQueues ==
  ASSUME NEW S, down \in [Conn -> Seq(S)], conn \in Conn, NEW type, OnWire(type)
  PROVE  /\ Head(down[conn]) \in S
         /\ Head(down[conn]).type = type
         /\ TakeWire => down' \in [Conn -> Seq(S)]
<1>1. down[conn] \in Seq(S) /\ down[conn] # <<>>
  BY DEF OnWire
<1>2. Head(down[conn]) \in S /\ Tail(down[conn]) \in Seq(S)
  BY <1>1, QueueParts
<1> QED
  BY <1>2 DEF OnWire, TakeWire

\* The node takes a message it set aside, or else the first of the queue.
LEMMA MessageQueues ==
  ASSUME NEW S, down \in [Conn -> Seq(S)], pending \in Seq(S), conn \in Conn,
         HasMessage
  PROVE  /\ Message \in S
         /\ TakeMessage => /\ down' \in [Conn -> Seq(S)]
                           /\ pending' \in Seq(S)
<1>1. CASE pending # <<>>
  <2>1. Head(pending) \in S /\ Tail(pending) \in Seq(S)
    BY <1>1, QueueParts
  <2> QED
    BY <1>1, <2>1 DEF Message, TakeMessage
<1>2. CASE pending = <<>>
  <2>1. down[conn] \in Seq(S) /\ down[conn] # <<>>
    BY <1>2 DEF HasMessage
  <2>2. Head(down[conn]) \in S /\ Tail(down[conn]) \in Seq(S)
    BY <2>1, QueueParts
  <2> QED
    BY <1>2, <2>2 DEF Message, TakeMessage
<1> QED
  BY <1>1, <1>2

\* A session that ends forgets its queue.
LEMMA LeaveQueues ==
  ASSUME NEW S, down \in [Conn -> Seq(S)], NEW next, LeaveSession(next)
  PROVE  /\ down' \in [Conn -> Seq(S)]
         /\ pending' \in Seq(S)
<1>1. <<>> \in Seq(S)
  BY QueueParts
<1> QED
  BY <1>1 DEF LeaveSession

-----------------------------------------------------------------------------
(* Types                                                                   *)

\* The state of the initial predicate has the declared types.
LEMMA InitTypes == Init => TypeOK
<1> SUFFICES ASSUME Init PROVE TypeOK
  OBVIOUS
<1>1. RelayTypeOK
  <2>1. /\ rowid \in [Task -> Nat]
        /\ stored \in [Task -> Receipt \cup {NoReceipt}]
        /\ accepted = {} /\ confirmed = {} /\ snapshot = Columns
    BY DEF Init
  <2> QED
    BY <2>1 DEF RelayTypeOK, Columns
<1>2. HubTypeOK
  BY DEF Init, HubTypeOK
<1>3. WireTypeOK
  BY QueueParts DEF Init, WireTypeOK
<1>4. SessionTypeOK
  BY DEF Init, SessionTypeOK, InSession
<1>5. JournalTypeOK
  BY DEF Init, JournalTypeOK, NoEntry
<1>6. CounterTypeOK
  BY DEF Init, CounterTypeOK
<1> QED
  BY <1>1, <1>2, <1>3, <1>4, <1>5, <1>6 DEF TypeOK

\* A step of a handler of the Relay keeps the types.
LEMMA HubTypes ==
  ASSUME TypeOK, NEW c \in Conn, HubStep(c)
  PROVE  TypeOK'
<1> USE DEF TypeOK, RelayTypeOK, HubTypeOK, SessionTypeOK, JournalTypeOK,
        CounterTypeOK, InSession, rows, hubVars, session, counters
<1>w. /\ up \in [Conn -> Seq(UpMsg)]
      /\ down \in [Conn -> Seq(DownMsg)]
      /\ pending \in Seq(DownMsg)
      /\ cut \subseteq Conn
  BY DEF WireTypeOK
<1>1. CASE HubAuthenticate(c)
  <2>1. Cardinality(StoredRows) \in Nat /\ StoredRows \subseteq Task
    BY CountIsNat DEF StoredRows, Queued
  <2>2. down' \in [Conn -> Seq(DownMsg)]
    BY <1>1, <1>w, <2>1, MessageTypes, ReplyQueues DEF HubAuthenticate
  <2>3. up' \in [Conn -> Seq(UpMsg)]
    BY <1>1, <1>w, QueueParts DEF HubAuthenticate
  <2>4. WireTypeOK'
    BY <1>1, <1>w, <2>2, <2>3 DEF HubAuthenticate, WireTypeOK
  <2>5. HubTypeOK'
    BY <1>1, <2>1 DEF HubAuthenticate, Discard, StoredRows
  <2> QED
    BY <1>1, <2>4, <2>5 DEF HubAuthenticate
<1>2. CASE HubSendState(c)
  <2>1. PICK t \in states[c] :
          /\ states' = [states EXCEPT ![c] = @ \ {t}]
          /\ Reply(c, [type |-> "receipt_state", receipt |-> stored[t]])
    BY <1>2 DEF HubSendState
  <2>2. stored[t] \in Receipt
    OBVIOUS
  <2>3. down' \in [Conn -> Seq(DownMsg)]
    BY <1>w, <2>1, <2>2, MessageTypes, ReplyQueues
  <2>4. WireTypeOK'
    BY <1>2, <1>w, <2>3 DEF HubSendState, WireTypeOK
  <2>5. HubTypeOK'
    BY <1>2, <2>1 DEF HubSendState
  <2> QED
    BY <1>2, <2>4, <2>5 DEF HubSendState
<1>3. CASE HubFetch(c)
  <2>1. PendingRows(starts[c]) \subseteq Task
    BY DEF PendingRows, Queued
  <2>2. HubTypeOK'
    BY <1>3, <2>1 DEF HubFetch
  <2> QED
    BY <1>3, <2>2, <1>w DEF HubFetch, WireTypeOK
<1>4. CASE HubDeliver(c)
  <2>1. PICK t \in batch[c] :
          /\ batch' = [batch EXCEPT ![c] = @ \ {t}]
          /\ starts' = [starts EXCEPT ![c] = @ \cup {idOf[t]}]
          /\ Reply(c, [type |-> "task", task |-> t])
    BY <1>4 DEF HubDeliver
  <2>2. t \in Task /\ idOf[t] \in TaskId
    OBVIOUS
  <2>3. down' \in [Conn -> Seq(DownMsg)]
    BY <1>w, <2>1, <2>2, MessageTypes, ReplyQueues
  <2>4. WireTypeOK'
    BY <1>4, <1>w, <2>3 DEF HubDeliver, WireTypeOK
  <2>5. HubTypeOK'
    BY <1>4, <2>1, <2>2 DEF HubDeliver
  <2> QED
    BY <1>4, <2>4, <2>5 DEF HubDeliver
<1>5. CASE HubRecvAccept(c)
  <2>1. Receives(c, "accept")
    BY <1>5 DEF HubRecvAccept
  <2>2. up' \in [Conn -> Seq(UpMsg)]
    BY <1>w, <2>1, ReceivesQueues
  <2>3. down' \in [Conn -> Seq(DownMsg)]
    BY <1>5, <1>w, MessageTypes, ReplyQueues DEF HubRecvAccept
  <2>4. WireTypeOK'
    BY <1>5, <1>w, <2>2, <2>3 DEF HubRecvAccept, WireTypeOK
  <2>5. accepted' \subseteq Task
    BY <1>5 DEF HubRecvAccept, RowsFor, Queued
  <2> QED
    BY <1>5, <2>4, <2>5 DEF HubRecvAccept
<1>6. CASE HubRecvReceipt(c)
  <2>1. Receives(c, "receipt")
    BY <1>6 DEF HubRecvReceipt
  <2>2. up' \in [Conn -> Seq(UpMsg)] /\ Head(up[c]).receipt \in Receipt
    BY <1>w, <2>1, ReceivesQueues, MessageFields
  <2>3. down' \in [Conn -> Seq(DownMsg)]
    BY <1>6, <1>w, <2>2, MessageTypes, ReceiptFields, ReplyQueues DEF HubRecvReceipt
  <2>4. WireTypeOK'
    BY <1>6, <1>w, <2>2, <2>3 DEF HubRecvReceipt, WireTypeOK
  <2>5. stored' \in [Task -> Receipt \cup {NoReceipt}]
    BY <1>6, <2>2 DEF HubRecvReceipt
  <2>6. \A t \in Task : stored[t] # NoReceipt => stored'[t] # NoReceipt
    BY <1>6, <2>2 DEF HubRecvReceipt
  <2>7. hub' \in [Conn -> {"unused", "waiting", "open", "gone"}]
        /\ connected' \in BOOLEAN /\ dropOnce' \subseteq TaskId
    BY <1>6 DEF HubRecvReceipt, Discard
  <2>8. UNCHANGED <<rowid, accepted, confirmed, snapshot, states, starts, batch,
                    session, journal, expired, counters>>
    BY <1>6 DEF HubRecvReceipt
  <2>9. HubTypeOK'
    BY <2>6, <2>7, <2>8
  <2> QED
    BY <2>4, <2>5, <2>8, <2>9
<1>7. CASE HubRecvReceiptAck(c)
  <2>1. Receives(c, "receipt_ack")
    BY <1>7 DEF HubRecvReceiptAck
  <2>2. up' \in [Conn -> Seq(UpMsg)] /\ Head(up[c]).id \in TaskId
    BY <1>w, <2>1, ReceivesQueues, MessageFields
  <2>3. down' \in [Conn -> Seq(DownMsg)]
    BY <1>7, <1>w, <2>2, MessageTypes, ReplyQueues DEF HubRecvReceiptAck
  <2>4. WireTypeOK'
    BY <1>7, <1>w, <2>2, <2>3 DEF HubRecvReceiptAck, WireTypeOK
  <2>5. confirmed' \subseteq Task
    BY <1>7 DEF HubRecvReceiptAck, RowsFor, Queued
  <2> QED
    BY <1>7, <2>4, <2>5 DEF HubRecvReceiptAck
<1>8. CASE HubEnd(c)
  <2>1. up' \in [Conn -> Seq(UpMsg)]
    BY <1>8, <1>w, QueueParts DEF HubEnd
  <2>2. WireTypeOK'
    BY <1>8, <1>w, <2>1 DEF HubEnd, WireTypeOK
  <2>3. HubTypeOK'
    BY <1>8 DEF HubEnd, Discard
  <2> QED
    BY <1>8, <2>2, <2>3 DEF HubEnd
<1> QED
  BY <1>1, <1>2, <1>3, <1>4, <1>5, <1>6, <1>7, <1>8 DEF HubStep

\* What the node sends when it acknowledges a receipt, and what it records.
LEMMA AcknowledgeTypes ==
  ASSUME TypeOK, NEW r \in Receipt, Acknowledge(r)
  PROVE  /\ up' \in [Conn -> Seq(UpMsg)]
         /\ receipts' \subseteq Receipt
         /\ sessionRejected' \in Nat
         /\ pc' = "confirm"
         /\ held' = r
<1>1. <<[type |-> "receipt_ack", id |-> r.id]>> \in Seq(UpMsg)
  BY MessageTypes, ReceiptFields, QueueParts
<1>2. up' \in [Conn -> Seq(UpMsg)]
  BY <1>1, EmitQueues DEF Acknowledge, TypeOK, WireTypeOK
<1>3. receipts' \subseteq Receipt /\ sessionRejected' \in Nat
  BY DEF Acknowledge, Record, TypeOK, SessionTypeOK, CounterTypeOK
<1> QED
  BY <1>2, <1>3 DEF Acknowledge

\* A session that ends in a state without connection keeps the types.
LEMMA LeaveTypes ==
  ASSUME TypeOK, NEW next \in {"idle", "down", "done", "failed", "aborted"},
         LeaveSession(next),
         UNCHANGED <<rows, snapshot, hubVars, up, cut, journal, expired>>,
         receipts' \subseteq receipts,
         UNCHANGED <<attempts, counters>>, rejected' \in Nat
  PROVE  TypeOK'
<1>1. down' \in [Conn -> Seq(DownMsg)] /\ pending' \in Seq(DownMsg)
  BY LeaveQueues DEF TypeOK, WireTypeOK
<1>2. WireTypeOK'
  BY <1>1 DEF TypeOK, WireTypeOK
<1>3. SessionTypeOK'
  BY DEF TypeOK, SessionTypeOK, LeaveSession, InSession
<1>4. CounterTypeOK'
  BY DEF TypeOK, CounterTypeOK, LeaveSession, counters
<1>5. RelayTypeOK' /\ HubTypeOK' /\ JournalTypeOK'
  BY DEF TypeOK, RelayTypeOK, HubTypeOK, JournalTypeOK, rows, hubVars
<1> QED
  BY <1>2, <1>3, <1>4, <1>5 DEF TypeOK

\* A step of the node's session keeps the types.
LEMMA NodeTypes ==
  ASSUME TypeOK, NodeStep
  PROVE  TypeOK'
<1> USE DEF TypeOK, RelayTypeOK, HubTypeOK, SessionTypeOK, JournalTypeOK,
        CounterTypeOK, InSession, rows, hubVars, session, counters
<1>w. /\ up \in [Conn -> Seq(UpMsg)]
      /\ down \in [Conn -> Seq(DownMsg)]
      /\ pending \in Seq(DownMsg)
      /\ cut \subseteq Conn
  BY DEF WireTypeOK
<1>1. CASE Connect
  <2>1. conns + 1 \in Conn
    BY <1>1 DEF Connect, Conn
  <2>2. up' \in [Conn -> Seq(UpMsg)]
    BY <1>1, <1>w, QueueParts, MessageTypes DEF Connect
  <2>3. WireTypeOK'
    BY <1>1, <1>w, <2>2 DEF Connect, WireTypeOK
  <2>4. conns' \in 0 .. MaxConn
    BY <1>1 DEF Connect
  <2> QED
    BY <1>1, <2>1, <2>3, <2>4 DEF Connect
<1>2. CASE RecvAuthenticated
  <2>1. OnWire("authenticated") /\ TakeWire /\ conn \in Conn
    BY <1>2 DEF RecvAuthenticated
  <2>2. down' \in [Conn -> Seq(DownMsg)] /\ Declared \in Nat
    BY <1>w, <2>1, WireQueues, MessageFields DEF Declared
  <2>3. WireTypeOK'
    BY <1>2, <1>w, <2>2 DEF RecvAuthenticated, WireTypeOK
  <2> QED
    BY <1>2, <2>2, <2>3 DEF RecvAuthenticated
<1>3. CASE RecvReceiptState
  <2>1. HasMessage /\ conn \in Conn /\ Message.type = "receipt_state"
    BY <1>3 DEF RecvReceiptState
  <2>2. Message \in DownMsg /\ Message.receipt \in Receipt
    BY <1>w, <2>1, MessageQueues, MessageFields
  <2>3. CASE journal[Message.receipt.id].receipt = Message.receipt
    <3>1. /\ TakeMessage
          /\ Acknowledge(Message.receipt)
          /\ owed' = IF owed > 0 THEN owed - 1 ELSE 0
          /\ UNCHANGED <<conn, attempts, cur, rejected>>
          /\ UNCHANGED <<rows, snapshot, hubVars, cut, journal, expired, counters>>
      BY <1>3, <2>3 DEF RecvReceiptState
    <3>2. down' \in [Conn -> Seq(DownMsg)] /\ pending' \in Seq(DownMsg)
      BY <1>w, <2>1, <3>1, MessageQueues
    <3>3. /\ up' \in [Conn -> Seq(UpMsg)]
          /\ receipts' \subseteq Receipt
          /\ sessionRejected' \in Nat
          /\ pc' = "confirm"
          /\ held' = Message.receipt
      BY <2>2, <3>1, AcknowledgeTypes
    <3>4. WireTypeOK'
      BY <1>w, <3>1, <3>2, <3>3 DEF WireTypeOK
    <3>5. SessionTypeOK'
      BY <1>3, <2>1, <2>2, <3>1, <3>3 DEF RecvReceiptState
    <3>6. CounterTypeOK'
      BY <3>1, <3>3
    <3>7. RelayTypeOK' /\ HubTypeOK' /\ JournalTypeOK'
      BY <3>1
    <3> QED
      BY <3>4, <3>5, <3>6, <3>7
  <2>4. CASE journal[Message.receipt.id].receipt # Message.receipt
    <3>1. Abort /\ UNCHANGED up
          /\ UNCHANGED <<rows, snapshot, hubVars, cut, journal, expired, counters>>
      BY <1>3, <2>4 DEF RecvReceiptState
    <3> QED
      BY <3>1, LeaveTypes DEF Abort
  <2> QED
    BY <2>3, <2>4
<1>4. CASE RecvTask
  <2> DEFINE t == Message.task
             id == idOf[t]
             r == KnownReceipt(t)
             accept == [type |-> "accept", id |-> id]
  <2>1. HasMessage /\ conn \in Conn /\ Message.type = "task"
    BY <1>4 DEF RecvTask
  <2>2. t \in Task /\ id \in TaskId
    BY <1>w, <2>1, MessageQueues, MessageFields
  <2>3. CASE t \in expired \/ Replayed(t)
    <3>1. Abort /\ UNCHANGED <<up, journal>>
          /\ UNCHANGED <<rows, snapshot, hubVars, cut, expired, counters>>
      BY <1>4, <2>3 DEF RecvTask
    <3> QED
      BY <3>1, LeaveTypes DEF Abort
  <2>4. CASE ~(t \in expired \/ Replayed(t))
    <3>1. /\ TakeMessage
          /\ journal' = [journal EXCEPT ![id] = [task |-> t, receipt |-> r]]
          /\ UNCHANGED <<conn, attempts, owed, receipts, sessionRejected, rejected>>
          /\ UNCHANGED <<rows, snapshot, hubVars, cut, expired, counters>>
      BY <1>4, <2>4 DEF RecvTask
    <3>2. down' \in [Conn -> Seq(DownMsg)] /\ pending' \in Seq(DownMsg)
      BY <1>w, <2>1, <3>1, MessageQueues
    <3>3. r \in Receipt \cup {NoReceipt}
      BY <2>2 DEF KnownReceipt
    <3>4. JournalTypeOK'
      BY <2>2, <3>1, <3>3
    <3>5. CASE r # NoReceipt
      <4>1. /\ Emit(<<accept, [type |-> "receipt", receipt |-> r]>>)
            /\ held' = r
            /\ pc' = "await"
            /\ UNCHANGED cur
        BY <1>4, <2>4, <3>5 DEF RecvTask
      <4>2. <<accept, [type |-> "receipt", receipt |-> r]>> \in Seq(UpMsg)
        BY <2>2, <3>3, <3>5, MessageTypes, QueueParts
      <4>3. up' \in [Conn -> Seq(UpMsg)]
        BY <1>w, <4>1, <4>2, EmitQueues
      <4>4. WireTypeOK'
        BY <1>w, <3>1, <3>2, <4>3 DEF WireTypeOK
      <4>5. SessionTypeOK'
        BY <1>4, <2>1, <3>1, <3>3, <3>5, <4>1 DEF RecvTask
      <4> QED
        BY <3>1, <3>4, <4>4, <4>5
    <3>6. CASE r = NoReceipt
      <4>1. /\ Emit(<<accept>>)
            /\ cur' = t
            /\ pc' = "exec"
            /\ UNCHANGED held
        BY <1>4, <2>4, <3>6 DEF RecvTask
      <4>2. <<accept>> \in Seq(UpMsg)
        BY <2>2, MessageTypes, QueueParts
      <4>3. up' \in [Conn -> Seq(UpMsg)]
        BY <1>w, <4>1, <4>2, EmitQueues
      <4>4. WireTypeOK'
        BY <1>w, <3>1, <3>2, <4>3 DEF WireTypeOK
      <4>5. SessionTypeOK'
        BY <1>4, <2>1, <2>2, <3>1, <4>1 DEF RecvTask
      <4> QED
        BY <3>1, <3>4, <4>4, <4>5
    <3> QED
      BY <3>5, <3>6
  <2> QED
    BY <2>3, <2>4
<1>5. CASE Execute
  <2>1. PICK status \in {"completed", "rejected"} :
          LET r == [id |-> idOf[cur], status |-> status, run |-> runs + 1] IN
            /\ SaveReceipt(r)
            /\ held' = r
            /\ Emit(<<[type |-> "receipt", receipt |-> r]>>)
    BY <1>5 DEF Execute
  <2> DEFINE r == [id |-> idOf[cur], status |-> status, run |-> runs + 1]
  <2>2. cur \in Task /\ idOf[cur] \in TaskId /\ runs + 1 \in 1 .. MaxRuns
    BY <1>5 DEF Execute
  <2>3. r \in Receipt /\ r.id = idOf[cur]
    BY <2>2, ReceiptFields
  <2> HIDE DEF r
  <2>4. SaveReceipt(r) /\ held' = r /\ Emit(<<[type |-> "receipt", receipt |-> r]>>)
    BY <2>1 DEF r
  <2>5. up' \in [Conn -> Seq(UpMsg)]
    BY <1>w, <2>3, <2>4, MessageTypes, QueueParts, EmitQueues
  <2>6. WireTypeOK'
    BY <1>5, <1>w, <2>5 DEF Execute, WireTypeOK
  <2>7. JournalTypeOK'
    BY SMTT(30), <2>2, <2>3, <2>4 DEF SaveReceipt
  <2>8. SessionTypeOK'
    BY <1>5, <2>3, <2>4 DEF Execute
  <2>9. CounterTypeOK'
    BY <1>5, <2>2 DEF Execute
  <2>10. RelayTypeOK' /\ HubTypeOK'
    BY <1>5 DEF Execute
  <2> QED
    BY <2>6, <2>7, <2>8, <2>9, <2>10
<1>6. CASE SetAside
  <2>1. conn \in Conn /\ TakeWire /\ \E type \in {"task", "receipt_state"} : OnWire(type)
    BY <1>6 DEF SetAside
  <2>2. down' \in [Conn -> Seq(DownMsg)] /\ Head(down[conn]) \in DownMsg
    BY <1>w, <2>1, WireQueues
  <2>3. pending' \in Seq(DownMsg)
    BY <1>6, <1>w, <2>2 DEF SetAside
  <2>4. WireTypeOK'
    BY <1>6, <1>w, <2>2, <2>3 DEF SetAside, WireTypeOK
  <2> QED
    BY <1>6, <2>4 DEF SetAside
<1>7. CASE RecvAck
  <2>1. conn \in Conn /\ TakeWire /\ OnWire("ack") /\ Acknowledge(held) /\ held \in Receipt
    BY <1>7 DEF RecvAck
  <2>2. down' \in [Conn -> Seq(DownMsg)]
    BY <1>w, <2>1, WireQueues
  <2>3. /\ up' \in [Conn -> Seq(UpMsg)]
        /\ receipts' \subseteq Receipt
        /\ sessionRejected' \in Nat
        /\ pc' = "confirm"
        /\ held' = held
    BY <2>1, AcknowledgeTypes
  <2>4. WireTypeOK'
    BY <1>7, <1>w, <2>2, <2>3 DEF RecvAck, WireTypeOK
  <2>5. SessionTypeOK'
    BY <1>7, <2>1, <2>3 DEF RecvAck
  <2> QED
    BY <1>7, <2>3, <2>4, <2>5 DEF RecvAck
<1>8. CASE RecvConfirmed
  <2>1. conn \in Conn /\ TakeWire /\ OnWire("receipt_confirmed")
    BY <1>8 DEF RecvConfirmed
  <2>2. down' \in [Conn -> Seq(DownMsg)]
    BY <1>w, <2>1, WireQueues
  <2>3. WireTypeOK'
    BY <1>8, <1>w, <2>2 DEF RecvConfirmed, WireTypeOK
  <2> QED
    BY <1>8, <2>3 DEF RecvConfirmed
<1>9. CASE RecvError
  BY <1>9, LeaveTypes DEF RecvError, Abort
<1>10. CASE Finish
  BY <1>10, LeaveTypes DEF Finish
<1>11. CASE SeesClose
  BY <1>11, LeaveTypes DEF SeesClose, Retry
<1>12. CASE IdleTimeout
  BY <1>12, LeaveTypes DEF IdleTimeout, Retry
<1> QED
  BY <1>1, <1>2, <1>3, <1>4, <1>5, <1>6, <1>7, <1>8, <1>9, <1>10, <1>11, <1>12
     DEF NodeStep

\* A step of the environment keeps the types.
LEMMA EnvironmentTypes ==
  ASSUME TypeOK,
         (\E t \in Task : Submit(t) \/ Expire(t)) \/ StartProcess \/ Fault
  PROVE  TypeOK'
<1> USE DEF TypeOK, RelayTypeOK, HubTypeOK, WireTypeOK, SessionTypeOK,
        JournalTypeOK, CounterTypeOK, InSession, rows, hubVars, session, counters
<1>1. ASSUME NEW t \in Task, Submit(t) PROVE TypeOK'
  <2>1. Cardinality(Queued) \in Nat
    BY CountIsNat DEF Queued
  <2>2. RelayTypeOK'
    <3>1. rowid \in [Task -> Nat] /\ rowid' = [rowid EXCEPT ![t] = 1 + Cardinality(Queued)]
      BY <1>1 DEF Submit
    <3>2. rowid' \in [Task -> Nat]
      BY <2>1, <3>1, RowNumbered
    <3> QED
      BY <1>1, <3>2 DEF Submit
  <2>3. HubTypeOK' /\ WireTypeOK'
    BY <1>1 DEF Submit
  <2>4. SessionTypeOK'
    BY <1>1 DEF Submit
  <2>5. JournalTypeOK' /\ CounterTypeOK'
    BY <1>1 DEF Submit
  <2> QED
    BY <2>2, <2>3, <2>4, <2>5
<1>2. ASSUME NEW t \in Task, Expire(t) PROVE TypeOK'
  BY <1>2 DEF Expire
<1>3. CASE StartProcess
  <2>1. RelayTypeOK'
    BY <1>3 DEF StartProcess
  <2>2. HubTypeOK'
    BY <1>3 DEF StartProcess
  <2>3. WireTypeOK'
    BY <1>3 DEF StartProcess
  <2>4. SessionTypeOK'
    BY <1>3 DEF StartProcess
  <2>5. JournalTypeOK' /\ CounterTypeOK'
    BY <1>3 DEF StartProcess
  <2> QED
    BY <2>1, <2>2, <2>3, <2>4, <2>5
<1>4. CASE ConnectFails
  <2>1. RelayTypeOK'
    BY <1>4 DEF ConnectFails
  <2>2. HubTypeOK'
    BY <1>4 DEF ConnectFails
  <2>3. WireTypeOK'
    BY <1>4 DEF ConnectFails
  <2>4. SessionTypeOK'
    BY <1>4 DEF ConnectFails
  <2>5. JournalTypeOK' /\ CounterTypeOK'
    BY <1>4 DEF ConnectFails
  <2> QED
    BY <2>1, <2>2, <2>3, <2>4, <2>5
<1>5. CASE CutLink
  <2>1. RelayTypeOK' /\ HubTypeOK'
    BY <1>5 DEF CutLink
  <2>2. WireTypeOK'
    BY <1>5 DEF CutLink
  <2>3. SessionTypeOK'
    BY <1>5 DEF CutLink
  <2>4. JournalTypeOK' /\ CounterTypeOK'
    BY <1>5 DEF CutLink
  <2> QED
    BY <2>1, <2>2, <2>3, <2>4
<1>6. CASE Crash
  <2> HIDE DEF TypeOK, RelayTypeOK, HubTypeOK, WireTypeOK, SessionTypeOK,
           JournalTypeOK, CounterTypeOK, InSession, rows, hubVars, session, counters
  <2>1. rejected' \in Nat /\ receipts' \subseteq receipts
    BY <1>6 DEF Crash, TypeOK, CounterTypeOK
  <2> QED
    BY <1>6, <2>1, LeaveTypes DEF Crash
<1>7. CASE HubRestart
  <2>1. up' \in [Conn -> Seq(UpMsg)]
    BY <1>7, QueueParts DEF HubRestart, HubStops
  <2>2. HubTypeOK'
    BY <1>7 DEF HubRestart, HubStops
  <2>3. WireTypeOK'
    BY <1>7, <2>1 DEF HubRestart, HubStops
  <2>4. RelayTypeOK' /\ SessionTypeOK'
    BY <1>7 DEF HubRestart, HubStops
  <2>5. JournalTypeOK' /\ CounterTypeOK'
    BY SMTT(30), <1>7 DEF HubRestart, HubStops
  <2> QED
    BY <2>2, <2>3, <2>4, <2>5
<1>8. CASE TakeSnapshot
  <2>1. Columns \in [rowid : [Task -> Nat], accepted : SUBSET Task,
                     stored : [Task -> Receipt \cup {NoReceipt}],
                     confirmed : SUBSET Task]
    BY DEF Columns
  <2> QED
    BY <1>8, <2>1 DEF TakeSnapshot
<1>9. CASE RestoreSnapshot
  <2>1. up' \in [Conn -> Seq(UpMsg)]
    BY <1>9, QueueParts DEF RestoreSnapshot, HubStops
  <2>2. RelayTypeOK'
    BY <1>9 DEF RestoreSnapshot
  <2>3. HubTypeOK'
    BY <1>9 DEF RestoreSnapshot, HubStops
  <2>4. WireTypeOK'
    BY <1>9, <2>1 DEF RestoreSnapshot, HubStops
  <2>5. SessionTypeOK' /\ JournalTypeOK'
    BY <1>9 DEF RestoreSnapshot, HubStops
  <2>6. CounterTypeOK'
    BY <1>9 DEF RestoreSnapshot, HubStops
  <2> QED
    BY <2>2, <2>3, <2>4, <2>5, <2>6
<1> QED
  BY <1>1, <1>2, <1>3, <1>4, <1>5, <1>6, <1>7, <1>8, <1>9 DEF Fault

\* Every step of the protocol keeps the types.
LEMMA NextTypes == TypeOK /\ [Next]_vars => TypeOK'
<1> SUFFICES ASSUME TypeOK, [Next]_vars PROVE TypeOK'
  OBVIOUS
<1>1. CASE (\E t \in Task : Submit(t) \/ Expire(t)) \/ StartProcess \/ Fault
  BY <1>1, EnvironmentTypes
<1>2. CASE \E c \in Conn : HubStep(c)
  BY <1>2, HubTypes
<1>3. CASE NodeStep
  BY <1>3, NodeTypes
<1>4. CASE UNCHANGED vars
  BY <1>4 DEF vars, TypeOK, RelayTypeOK, HubTypeOK, WireTypeOK, SessionTypeOK,
              JournalTypeOK, CounterTypeOK, InSession, rows, hubVars, session,
              counters
<1> QED
  BY <1>1, <1>2, <1>3, <1>4 DEF Next

\* The columns of the Relay, the queues of every connection, the session and
\* the journal keep their types, and the session holds a connection, a task and
\* a receipt exactly in the states of its program that need them.
THEOREM Typing == Spec => []TypeOK
<1>1. Init => TypeOK
  BY InitTypes
<1>2. TypeOK /\ [Next]_vars => TypeOK'
  BY NextTypes
<1> QED
  BY <1>1, <1>2, PTL DEF Spec

-----------------------------------------------------------------------------
(* All copies of a receipt agree                                           *)

\* The messages whose receipt is the one in the journal.
AgreedUp == {m \in UpMsg : m.type = "receipt" => Journaled(m.receipt)}
AgreedDown == {m \in DownMsg : m.type = "receipt_state" => Journaled(m.receipt)}

\* The inductive invariant. A task is executed only while the journal has its
\* entry and no receipt: this is why the receipt signed last is also the first.
RowsAgree ==
    /\ \A t \in Task : stored[t] # NoReceipt => Journaled(stored[t])
    /\ \A t \in Task : snapshot.stored[t] # NoReceipt => Journaled(snapshot.stored[t])

WiresAgree ==
    /\ up \in [Conn -> Seq(AgreedUp)]
    /\ down \in [Conn -> Seq(AgreedDown)]
    /\ pending \in Seq(AgreedDown)

NodeAgrees ==
    /\ held # NoReceipt => Journaled(held)
    /\ \A r \in receipts : Journaled(r)
    /\ pc = "exec" => journal[idOf[cur]] = [task |-> cur, receipt |-> NoReceipt]

JournalAgrees ==
    \A id \in TaskId : journal[id].receipt # NoReceipt
                         => /\ journal[id].task # NoTask
                            /\ journal[id].receipt.id = id

Agreement == RowsAgree /\ WiresAgree /\ NodeAgrees /\ JournalAgrees

\* Messages that carry no receipt agree with the journal.
LEMMA AgreedMessages ==
  /\ \A n \in Nat : [type |-> "authenticated", count |-> n] \in AgreedDown
  /\ \A r \in Receipt : Journaled(r) => [type |-> "receipt_state", receipt |-> r] \in AgreedDown
  /\ \A t \in Task : [type |-> "task", task |-> t] \in AgreedDown
  /\ \A id \in TaskId : [type |-> "ack", id |-> id] \in AgreedDown
  /\ \A id \in TaskId : [type |-> "receipt_confirmed", id |-> id] \in AgreedDown
  /\ [type |-> "error"] \in AgreedDown
  /\ [type |-> "authenticate"] \in AgreedUp
  /\ \A id \in TaskId : [type |-> "accept", id |-> id] \in AgreedUp
  /\ \A id \in TaskId : [type |-> "receipt_ack", id |-> id] \in AgreedUp
  /\ \A r \in Receipt : Journaled(r) => [type |-> "receipt", receipt |-> r] \in AgreedUp
  BY MessageTypes DEF AgreedUp, AgreedDown

\* What an agreed message says.
LEMMA AgreedFields ==
  /\ \A m \in AgreedDown : /\ m \in DownMsg
                           /\ m.type = "receipt_state" => Journaled(m.receipt)
  /\ \A m \in AgreedUp : /\ m \in UpMsg
                         /\ m.type = "receipt" => Journaled(m.receipt)
  BY DEF AgreedUp, AgreedDown

\* While the journal stays the same, agreement is about the same messages.
LEMMA AgreedSame ==
  ASSUME UNCHANGED journal
  PROVE  /\ AgreedUp' = AgreedUp
         /\ AgreedDown' = AgreedDown
         /\ \A r : Journaled(r)' <=> Journaled(r)
  BY DEF AgreedUp, AgreedDown, Journaled

\* A journal that only gains receipts keeps all agreement.
LEMMA AgreedGrows ==
  ASSUME TypeOK,
         \A id \in TaskId : journal[id].receipt # NoReceipt
                              => journal'[id].receipt = journal[id].receipt
  PROVE  /\ AgreedUp \subseteq AgreedUp'
         /\ AgreedDown \subseteq AgreedDown'
         /\ \A r \in Receipt : Journaled(r) => Journaled(r)'
<1>1. \A r \in Receipt : Journaled(r) => Journaled(r)'
  BY DEF Journaled
<1>2. AgreedUp \subseteq AgreedUp'
  BY <1>1, MessageFields DEF AgreedUp
<1>3. AgreedDown \subseteq AgreedDown'
  BY <1>1, MessageFields DEF AgreedDown
<1> QED
  BY <1>1, <1>2, <1>3

\* A step of a handler of the Relay keeps agreement.
LEMMA HubAgrees ==
  ASSUME TypeOK, Agreement, NEW c \in Conn, HubStep(c)
  PROVE  Agreement'
<1> USE DEF Agreement
<1>w. /\ up \in [Conn -> Seq(AgreedUp)]
      /\ down \in [Conn -> Seq(AgreedDown)]
      /\ pending \in Seq(AgreedDown)
  BY DEF WiresAgree
<1>j. UNCHANGED <<journal, snapshot, session>>
  BY DEF HubStep, HubAuthenticate, HubSendState, HubFetch, HubDeliver,
         HubRecvAccept, HubRecvReceipt, HubRecvReceiptAck, HubEnd
<1>s. /\ AgreedUp' = AgreedUp
      /\ AgreedDown' = AgreedDown
      /\ \A r : Journaled(r)' <=> Journaled(r)
  BY <1>j, AgreedSame
<1>n. NodeAgrees'
  BY <1>j, <1>s DEF NodeAgrees, session
<1>q. \A t \in Task : (snapshot.stored[t] # NoReceipt => Journaled(snapshot.stored[t]))'
  BY <1>j, <1>s DEF RowsAgree
<1>t. pending' = pending
  BY <1>j DEF session
<1>u. JournalAgrees'
  BY <1>j DEF JournalAgrees
<1> SUFFICES /\ up' \in [Conn -> Seq(AgreedUp)]
             /\ down' \in [Conn -> Seq(AgreedDown)]
             /\ \A t \in Task : stored'[t] # NoReceipt => Journaled(stored'[t])
  BY <1>w, <1>s, <1>n, <1>q, <1>t, <1>u DEF RowsAgree, WiresAgree
<1>r. \A t \in Task : stored[t] # NoReceipt => Journaled(stored[t]) /\ stored[t] \in Receipt
  BY DEF RowsAgree, TypeOK, RelayTypeOK
<1>1. CASE HubAuthenticate(c)
  <2>1. Cardinality(StoredRows) \in Nat
    BY CountIsNat DEF StoredRows, Queued
  <2>2. down' \in [Conn -> Seq(AgreedDown)]
    BY <1>1, <1>w, <2>1, AgreedMessages, ReplyQueues DEF HubAuthenticate
  <2>3. up' \in [Conn -> Seq(AgreedUp)]
    BY <1>1, <1>w, QueueParts DEF HubAuthenticate
  <2> QED
    BY <1>1, <1>r, <2>2, <2>3 DEF HubAuthenticate, rows
<1>2. CASE HubSendState(c)
  <2>1. PICK t \in states[c] : Reply(c, [type |-> "receipt_state", receipt |-> stored[t]])
    BY <1>2 DEF HubSendState
  <2>2. stored[t] \in Receipt /\ Journaled(stored[t])
    BY <1>r DEF TypeOK, HubTypeOK
  <2>3. down' \in [Conn -> Seq(AgreedDown)]
    BY <1>w, <2>1, <2>2, AgreedMessages, ReplyQueues
  <2> QED
    BY <1>2, <1>w, <1>r, <2>3 DEF HubSendState, rows
<1>3. CASE HubFetch(c)
  BY <1>3, <1>w, <1>r DEF HubFetch, rows
<1>4. CASE HubDeliver(c)
  <2>1. PICK t \in batch[c] : Reply(c, [type |-> "task", task |-> t])
    BY <1>4 DEF HubDeliver
  <2>2. t \in Task
    BY DEF TypeOK, HubTypeOK
  <2>3. down' \in [Conn -> Seq(AgreedDown)]
    BY <1>w, <2>1, <2>2, AgreedMessages, ReplyQueues
  <2> QED
    BY <1>4, <1>w, <1>r, <2>3 DEF HubDeliver, rows
<1>5. CASE HubRecvAccept(c)
  <2>1. Receives(c, "accept")
    BY <1>5 DEF HubRecvAccept
  <2>2. up' \in [Conn -> Seq(AgreedUp)]
    BY <1>w, <2>1, ReceivesQueues
  <2>3. down' \in [Conn -> Seq(AgreedDown)]
    BY <1>5, <1>w, AgreedMessages, ReplyQueues DEF HubRecvAccept
  <2> QED
    BY <1>5, <1>r, <2>2, <2>3 DEF HubRecvAccept
<1>6. CASE HubRecvReceipt(c)
  <2>1. Receives(c, "receipt")
    BY <1>6 DEF HubRecvReceipt
  <2>2. up' \in [Conn -> Seq(AgreedUp)]
    BY <1>w, <2>1, ReceivesQueues
  <2>3. Head(up[c]).receipt \in Receipt /\ Journaled(Head(up[c]).receipt)
    BY <1>w, <2>1, ReceivesQueues, AgreedFields, MessageFields
  <2>4. down' \in [Conn -> Seq(AgreedDown)]
    BY <1>6, <1>w, <2>3, AgreedMessages, ReceiptFields, ReplyQueues DEF HubRecvReceipt
  <2>5. \A t \in Task : stored'[t] \in {stored[t], Head(up[c]).receipt}
    BY <1>6 DEF HubRecvReceipt
  <2> QED
    BY <1>r, <2>2, <2>3, <2>4, <2>5
<1>7. CASE HubRecvReceiptAck(c)
  <2>1. Receives(c, "receipt_ack")
    BY <1>7 DEF HubRecvReceiptAck
  <2>2. up' \in [Conn -> Seq(AgreedUp)] /\ Head(up[c]).id \in TaskId
    BY <1>w, <2>1, ReceivesQueues, AgreedFields, MessageFields
  <2>3. down' \in [Conn -> Seq(AgreedDown)]
    BY <1>7, <1>w, <2>2, AgreedMessages, ReplyQueues DEF HubRecvReceiptAck
  <2> QED
    BY <1>7, <1>r, <2>2, <2>3 DEF HubRecvReceiptAck
<1>8. CASE HubEnd(c)
  <2>1. up' \in [Conn -> Seq(AgreedUp)]
    BY <1>8, <1>w, QueueParts DEF HubEnd
  <2> QED
    BY <1>8, <1>w, <1>r, <2>1 DEF HubEnd, rows
<1> QED
  BY <1>1, <1>2, <1>3, <1>4, <1>5, <1>6, <1>7, <1>8 DEF HubStep

\* A session that ends without touching the journal keeps agreement.
LEMMA LeaveAgrees ==
  ASSUME TypeOK, Agreement, NEW next \in {"idle", "down", "done", "failed", "aborted"},
         LeaveSession(next), UNCHANGED <<rows, snapshot, up, journal>>,
         receipts' \subseteq receipts
  PROVE  Agreement'
<1>1. /\ AgreedUp' = AgreedUp
      /\ AgreedDown' = AgreedDown
      /\ \A r : Journaled(r)' <=> Journaled(r)
  BY AgreedSame
<1>2. down' \in [Conn -> Seq(AgreedDown)] /\ pending' \in Seq(AgreedDown)
  BY LeaveQueues DEF Agreement, WiresAgree
<1>3. WiresAgree'
  BY <1>1, <1>2 DEF Agreement, WiresAgree
<1>4. RowsAgree' /\ JournalAgrees'
  BY <1>1 DEF Agreement, RowsAgree, JournalAgrees, rows
<1>5. NodeAgrees'
  BY <1>1 DEF Agreement, NodeAgrees, LeaveSession
<1> QED
  BY <1>3, <1>4, <1>5 DEF Agreement

\* The node's messages about an agreed receipt agree.
LEMMA AcknowledgeAgrees ==
  ASSUME TypeOK, Agreement, NEW r \in Receipt, Journaled(r), Acknowledge(r),
         UNCHANGED journal
  PROVE  /\ up' \in [Conn -> Seq(AgreedUp)]
         /\ NodeAgrees'
<1>1. \A s : Journaled(s)' <=> Journaled(s)
  BY AgreedSame
<1>2. <<[type |-> "receipt_ack", id |-> r.id]>> \in Seq(AgreedUp)
  BY AgreedMessages, ReceiptFields, QueueParts
<1>3. up' \in [Conn -> Seq(AgreedUp)]
  BY <1>2, EmitQueues DEF Acknowledge, Agreement, WiresAgree
<1>4. NodeAgrees'
  BY <1>1 DEF Acknowledge, Record, Agreement, NodeAgrees
<1> QED
  BY <1>3, <1>4

\* A step of the node's session keeps agreement, and its journal is final.
LEMMA NodeKeepsAgreement ==
  ASSUME TypeOK, TypeOK', Agreement, NodeStep
  PROVE  /\ Agreement'
         /\ \A id \in TaskId :
              /\ journal[id].receipt # NoReceipt => journal'[id] = journal[id]
              /\ journal[id].task # NoTask => journal'[id].task = journal[id].task
<1> DEFINE Final(id) ==
      /\ journal[id].receipt # NoReceipt => journal'[id] = journal[id]
      /\ journal[id].task # NoTask => journal'[id].task = journal[id].task
<1>w. /\ up \in [Conn -> Seq(AgreedUp)]
      /\ down \in [Conn -> Seq(AgreedDown)]
      /\ pending \in Seq(AgreedDown)
  BY DEF Agreement, WiresAgree
<1>r. UNCHANGED <<rows, snapshot>>
  BY DEF NodeStep, Connect, RecvAuthenticated, RecvReceiptState, RecvTask, Execute,
         SetAside, RecvAck, RecvConfirmed, RecvError, Finish, SeesClose,
         IdleTimeout, Retry
<1>k. ASSUME UNCHANGED journal
      PROVE  /\ AgreedUp' = AgreedUp
             /\ AgreedDown' = AgreedDown
             /\ \A r : Journaled(r)' <=> Journaled(r)
             /\ RowsAgree'
             /\ JournalAgrees'
             /\ \A id \in TaskId : Final(id)
  <2>1. /\ AgreedUp' = AgreedUp
        /\ AgreedDown' = AgreedDown
        /\ \A r : Journaled(r)' <=> Journaled(r)
    BY <1>k, AgreedSame
  <2> QED
    BY <1>k, <1>r, <2>1 DEF Agreement, RowsAgree, JournalAgrees, rows
<1>1. CASE Connect
  <2>1. up' \in [Conn -> Seq(AgreedUp)]
    BY <1>1, <1>w, QueueParts, AgreedMessages DEF Connect
  <2>2. WiresAgree'
    BY <1>1, <1>w, <1>k, <2>1 DEF Connect, WiresAgree
  <2>3. NodeAgrees'
    BY <1>1, <1>k DEF Connect, NodeAgrees, Agreement
  <2> QED
    BY <1>1, <1>k, <2>2, <2>3 DEF Connect, Agreement
<1>2. CASE RecvAuthenticated
  <2>1. OnWire("authenticated") /\ TakeWire /\ conn \in Conn
    BY <1>2 DEF RecvAuthenticated, TypeOK, SessionTypeOK, InSession
  <2>2. down' \in [Conn -> Seq(AgreedDown)]
    BY <1>w, <2>1, WireQueues
  <2>3. WiresAgree'
    BY <1>2, <1>w, <1>k, <2>2 DEF RecvAuthenticated, WiresAgree
  <2>4. NodeAgrees'
    BY <1>2, <1>k DEF RecvAuthenticated, NodeAgrees, Agreement
  <2> QED
    BY <1>2, <1>k, <2>3, <2>4 DEF RecvAuthenticated, Agreement
<1>3. CASE RecvReceiptState
  <2>1. HasMessage /\ conn \in Conn /\ Message.type = "receipt_state"
        /\ UNCHANGED journal
    BY <1>3 DEF RecvReceiptState, TypeOK, SessionTypeOK, InSession
  <2>2. Message \in AgreedDown
    BY <1>w, <2>1, MessageQueues
  <2>3. Message.receipt \in Receipt /\ Journaled(Message.receipt)
    BY <2>1, <2>2, AgreedFields, MessageFields
  <2>4. TakeMessage /\ Acknowledge(Message.receipt)
    BY <1>3, <2>3 DEF RecvReceiptState, Journaled
  <2>5. down' \in [Conn -> Seq(AgreedDown)] /\ pending' \in Seq(AgreedDown)
    BY <1>w, <2>1, <2>4, MessageQueues
  <2>6. up' \in [Conn -> Seq(AgreedUp)] /\ NodeAgrees'
    BY <2>1, <2>3, <2>4, AcknowledgeAgrees
  <2>7. WiresAgree'
    BY <1>k, <2>1, <2>5, <2>6 DEF WiresAgree
  <2> QED
    BY <1>k, <2>1, <2>6, <2>7 DEF Agreement
<1>4. CASE RecvTask
  <2> DEFINE t == Message.task
             id == idOf[t]
             r == KnownReceipt(t)
             accept == [type |-> "accept", id |-> id]
  <2>1. HasMessage /\ conn \in Conn /\ Message.type = "task"
    BY <1>4 DEF RecvTask, TypeOK, SessionTypeOK, InSession
  <2>2. t \in Task /\ id \in TaskId
    BY <1>w, <2>1, MessageQueues, AgreedFields, MessageFields
  <2>3. CASE t \in expired \/ Replayed(t)
    <3>1. Abort /\ UNCHANGED <<up, journal>>
      BY <1>4, <2>3 DEF RecvTask
    <3> QED
      BY <1>r, <1>k, <3>1, LeaveAgrees DEF Abort
  <2>4. CASE ~(t \in expired \/ Replayed(t))
    <3>1. /\ TakeMessage
          /\ journal' = [journal EXCEPT ![id] = [task |-> t, receipt |-> r]]
          /\ UNCHANGED receipts
      BY <1>4, <2>4 DEF RecvTask
    <3>2. journal[id].task \in {t, NoTask}
      BY <2>4 DEF Replayed
    <3>3. r = journal[id].receipt /\ r \in Receipt \cup {NoReceipt}
      BY <2>2 DEF KnownReceipt, TypeOK, JournalTypeOK
    <3> HIDE DEF r, id, t
    <3>4. \A i \in TaskId : journal'[i].receipt = journal[i].receipt
      BY <2>2, <3>1, <3>3 DEF TypeOK, JournalTypeOK
    <3>5. /\ AgreedUp \subseteq AgreedUp'
          /\ AgreedDown \subseteq AgreedDown'
          /\ \A s \in Receipt : Journaled(s) => Journaled(s)'
      BY <3>4, AgreedGrows
    <3>6. RowsAgree'
      BY <1>r, <3>5 DEF RowsAgree, Agreement, TypeOK, RelayTypeOK, rows
    <3>7. JournalAgrees'
      <4>1. t # NoTask
        BY <2>2
      <4> QED
        BY <2>2, <3>1, <3>3, <4>1 DEF JournalAgrees, Agreement, TypeOK, JournalTypeOK
    <3>8. \A i \in TaskId : Final(i)
      <4>1. journal[id].receipt # NoReceipt => journal[id].task = t
        BY <2>2, <3>2 DEF JournalAgrees, Agreement
      <4>2. journal[id] \in [task : Task \cup {NoTask}, receipt : Receipt \cup {NoReceipt}]
        BY <2>2 DEF TypeOK, JournalTypeOK
      <4>3. journal'[id] = [task |-> t, receipt |-> r]
        BY <2>2, <3>1 DEF TypeOK, JournalTypeOK
      <4>4. Final(id)
        BY <3>2, <3>3, <4>1, <4>2, <4>3
      <4>5. \A i \in TaskId : i # id => journal'[i] = journal[i]
        BY <3>1 DEF TypeOK, JournalTypeOK
      <4> QED
        BY <4>4, <4>5
    <3>9. down' \in [Conn -> Seq(AgreedDown)] /\ pending' \in Seq(AgreedDown)
      BY <1>w, <2>1, <3>1, MessageQueues
    <3>10. down' \in [Conn -> Seq(AgreedDown')] /\ pending' \in Seq(AgreedDown')
      BY <3>5, <3>9, QueueMono
    <3>11. \A s \in receipts : Journaled(s)'
      BY <3>5 DEF Agreement, NodeAgrees, TypeOK, SessionTypeOK
    <3>12. accept \in AgreedUp
      BY <2>2, AgreedMessages DEF id
    <3>13. CASE r # NoReceipt
      <4>1. PICK s \in Receipt : s = r
        BY <3>3, <3>13
      <4>2. Emit(<<accept, [type |-> "receipt", receipt |-> s]>>) /\ held' = s /\ pc' = "await"
        BY <1>4, <2>4, <3>13, <4>1 DEF RecvTask, r, id, t
      <4>3. Journaled(s) /\ Journaled(s)'
        BY <2>2, <3>3, <3>5, <4>1 DEF Journaled, JournalAgrees, Agreement
      <4>4. <<accept, [type |-> "receipt", receipt |-> s]>> \in Seq(AgreedUp)
        BY <3>12, <4>3, AgreedMessages, QueueParts
      <4>5. up' \in [Conn -> Seq(AgreedUp)]
        BY <1>w, <4>2, <4>4, EmitQueues
      <4>6. up' \in [Conn -> Seq(AgreedUp')]
        BY <3>5, <4>5, QueueMono
      <4>7. NodeAgrees'
        BY <3>1, <3>11, <4>2, <4>3 DEF NodeAgrees
      <4> QED
        BY <3>6, <3>7, <3>8, <3>10, <4>6, <4>7 DEF Agreement, WiresAgree
    <3>14. CASE r = NoReceipt
      <4>1. Emit(<<accept>>) /\ cur' = t /\ pc' = "exec" /\ UNCHANGED held
        BY <1>4, <2>4, <3>14 DEF RecvTask, r, id, t
      <4>2. <<accept>> \in Seq(AgreedUp)
        BY <3>12, QueueParts
      <4>3. up' \in [Conn -> Seq(AgreedUp)]
        BY <1>w, <4>1, <4>2, EmitQueues
      <4>4. up' \in [Conn -> Seq(AgreedUp')]
        BY <3>5, <4>3, QueueMono
      <4>5. held = NoReceipt
        BY <1>4 DEF RecvTask, TypeOK, SessionTypeOK
      <4>6. journal'[idOf[t]] = [task |-> t, receipt |-> NoReceipt]
        BY <2>2, <3>1, <3>14 DEF id, TypeOK, JournalTypeOK
      <4>7. NodeAgrees'
        BY <3>1, <3>11, <4>1, <4>5, <4>6 DEF NodeAgrees
      <4> QED
        BY <3>6, <3>7, <3>8, <3>10, <4>4, <4>7 DEF Agreement, WiresAgree
    <3> QED
      BY <3>13, <3>14
  <2> QED
    BY <2>3, <2>4
<1>5. CASE Execute
  <2>1. cur \in Task /\ idOf[cur] \in TaskId /\ runs + 1 \in 1 .. MaxRuns
    BY <1>5 DEF Execute, TypeOK, SessionTypeOK, CounterTypeOK
  <2>2. \A status \in {"completed", "rejected"} :
          [id |-> idOf[cur], status |-> status, run |-> runs + 1] \in Receipt
    BY <2>1, ReceiptFields
  <2>3. PICK r \in Receipt :
          /\ r.id = idOf[cur]
          /\ SaveReceipt(r)
          /\ held' = r
          /\ Emit(<<[type |-> "receipt", receipt |-> r]>>)
    BY <1>5, <2>2 DEF Execute
  <2>5. journal[r.id] = [task |-> cur, receipt |-> NoReceipt]
    BY <1>5, <2>3 DEF Execute, Agreement, NodeAgrees
  <2>6. journal' = [journal EXCEPT ![r.id].receipt = r] /\ r.id \in TaskId
    BY <2>1, <2>3 DEF SaveReceipt
  <2>7. /\ journal'[r.id] = [task |-> cur, receipt |-> r]
        /\ \A i \in TaskId : i # r.id => journal'[i] = journal[i]
    BY <2>5, <2>6 DEF TypeOK, JournalTypeOK
  <2>8. /\ AgreedUp \subseteq AgreedUp'
        /\ AgreedDown \subseteq AgreedDown'
        /\ \A s \in Receipt : Journaled(s) => Journaled(s)'
    BY <2>5, <2>6, <2>7, AgreedGrows
  <2>9. Journaled(r)'
    BY <2>6, <2>7 DEF Journaled
  <2>10. RowsAgree'
    BY <1>r, <2>8 DEF RowsAgree, Agreement, TypeOK, RelayTypeOK, rows
  <2>11. JournalAgrees'
    BY <2>1, <2>6, <2>7 DEF JournalAgrees, Agreement
  <2>12. \A i \in TaskId : Final(i)
    BY <2>5, <2>6, <2>7
  <2>13. up' \in [Conn -> Seq(AgreedUp')]
    <3>1. up \in [Conn -> Seq(AgreedUp')]
      BY <1>w, <2>8, QueueMono
    <3>2. [type |-> "receipt", receipt |-> r] \in AgreedUp'
      BY <2>9, MessageTypes DEF AgreedUp
    <3>3. <<[type |-> "receipt", receipt |-> r]>> \in Seq(AgreedUp')
      BY <3>2, QueueParts
    <3> QED
      BY <2>3, <3>1, <3>3, EmitQueues
  <2>14. down' \in [Conn -> Seq(AgreedDown')] /\ pending' \in Seq(AgreedDown')
    BY <1>5, <1>w, <2>8, QueueMono DEF Execute
  <2>15. NodeAgrees'
    BY <1>5, <2>3, <2>8, <2>9 DEF Execute, NodeAgrees, Agreement, TypeOK, SessionTypeOK
  <2> QED
    BY <2>10, <2>11, <2>12, <2>13, <2>14, <2>15 DEF Agreement, WiresAgree
<1>6. CASE SetAside
  <2>1. conn \in Conn /\ TakeWire /\ \E type \in {"task", "receipt_state"} : OnWire(type)
    BY <1>6 DEF SetAside, TypeOK, SessionTypeOK, InSession
  <2>2. down' \in [Conn -> Seq(AgreedDown)] /\ Head(down[conn]) \in AgreedDown
    BY <1>w, <2>1, WireQueues
  <2>3. pending' \in Seq(AgreedDown)
    BY <1>6, <1>w, <2>2 DEF SetAside
  <2>4. WiresAgree'
    BY <1>6, <1>w, <1>k, <2>2, <2>3 DEF SetAside, WiresAgree
  <2>5. NodeAgrees'
    BY <1>6, <1>k DEF SetAside, NodeAgrees, Agreement
  <2> QED
    BY <1>6, <1>k, <2>4, <2>5 DEF SetAside, Agreement
<1>7. CASE RecvAck
  <2>1. /\ conn \in Conn /\ TakeWire /\ OnWire("ack")
        /\ Acknowledge(held) /\ held \in Receipt /\ Journaled(held)
        /\ UNCHANGED <<journal, pending>>
    BY <1>7 DEF RecvAck, TypeOK, SessionTypeOK, InSession, Agreement, NodeAgrees
  <2>2. down' \in [Conn -> Seq(AgreedDown)]
    BY <1>w, <2>1, WireQueues
  <2>3. up' \in [Conn -> Seq(AgreedUp)] /\ NodeAgrees'
    BY <2>1, AcknowledgeAgrees
  <2>4. WiresAgree'
    BY <1>w, <1>k, <2>1, <2>2, <2>3 DEF WiresAgree
  <2> QED
    BY <1>k, <2>1, <2>3, <2>4 DEF Agreement
<1>8. CASE RecvConfirmed
  <2>1. conn \in Conn /\ TakeWire /\ OnWire("receipt_confirmed")
    BY <1>8 DEF RecvConfirmed, TypeOK, SessionTypeOK, InSession
  <2>2. down' \in [Conn -> Seq(AgreedDown)]
    BY <1>w, <2>1, WireQueues
  <2>3. WiresAgree'
    BY <1>8, <1>w, <1>k, <2>2 DEF RecvConfirmed, WiresAgree
  <2>4. NodeAgrees'
    BY <1>8, <1>k DEF RecvConfirmed, NodeAgrees, Agreement
  <2> QED
    BY <1>8, <1>k, <2>3, <2>4 DEF RecvConfirmed, Agreement
<1>9. CASE RecvError \/ Finish \/ SeesClose \/ IdleTimeout
  <2>1. \E next \in {"idle", "down", "done", "failed", "aborted"} : LeaveSession(next)
    BY <1>9 DEF RecvError, Finish, SeesClose, IdleTimeout, Abort, Retry
  <2>2. UNCHANGED <<up, journal>> /\ receipts' \subseteq receipts
    BY <1>9 DEF RecvError, Finish, SeesClose, IdleTimeout, Abort, Retry
  <2> QED
    BY <1>r, <1>k, <2>1, <2>2, LeaveAgrees
<1> QED
  BY <1>1, <1>2, <1>3, <1>4, <1>5, <1>6, <1>7, <1>8, <1>9 DEF NodeStep

\* A step of the environment keeps agreement and does not touch the journal: a
\* snapshot holds rows that agree and brings them back.
LEMMA EnvironmentAgrees ==
  ASSUME TypeOK, Agreement,
         (\E t \in Task : Submit(t) \/ Expire(t)) \/ StartProcess \/ Fault
  PROVE  Agreement' /\ UNCHANGED journal
<1>j. UNCHANGED journal
  BY DEF Submit, Expire, StartProcess, Fault, ConnectFails, CutLink, Crash,
         HubRestart, TakeSnapshot, RestoreSnapshot, HubStops
<1>s. /\ AgreedUp' = AgreedUp
      /\ AgreedDown' = AgreedDown
      /\ \A r : Journaled(r)' <=> Journaled(r)
  BY <1>j, AgreedSame
<1>u. JournalAgrees'
  BY <1>j DEF JournalAgrees, Agreement
<1>w. /\ up \in [Conn -> Seq(AgreedUp)]
      /\ down \in [Conn -> Seq(AgreedDown)]
      /\ pending \in Seq(AgreedDown)
  BY DEF Agreement, WiresAgree
<1>1. CASE (\E t \in Task : Submit(t) \/ Expire(t)) \/ StartProcess \/ ConnectFails \/ CutLink
  <2>1. UNCHANGED <<stored, snapshot, up, down, pending, held, cur>>
    BY <1>1 DEF Submit, Expire, StartProcess, ConnectFails, CutLink, session, rows
  <2>2. receipts' \subseteq receipts /\ (pc' = "exec" => pc = "exec")
    BY <1>1 DEF Submit, Expire, StartProcess, ConnectFails, CutLink, session
  <2>3. RowsAgree' /\ WiresAgree' /\ NodeAgrees'
    BY <1>j, <1>s, <2>1, <2>2 DEF Agreement, RowsAgree, WiresAgree, NodeAgrees
  <2> QED
    BY <1>j, <1>u, <2>3 DEF Agreement
<1>2. CASE Crash
  <2>1. LeaveSession("down") /\ receipts' \subseteq receipts
        /\ UNCHANGED <<rows, snapshot, up>>
    BY <1>2 DEF Crash
  <2> QED
    BY <1>j, <2>1, LeaveAgrees
<1>3. CASE HubRestart \/ RestoreSnapshot
  <2>1. up' \in [Conn -> Seq(AgreedUp)]
    <3>1. <<>> \in Seq(AgreedUp)
      BY QueueParts
    <3> QED
      BY <1>3, <3>1 DEF HubRestart, RestoreSnapshot, HubStops
  <2>2. UNCHANGED <<snapshot, down, session>> /\ stored' \in {stored, snapshot.stored}
    BY <1>3 DEF HubRestart, RestoreSnapshot, HubStops, rows
  <2>3. RowsAgree'
    BY <1>s, <2>2 DEF RowsAgree, Agreement
  <2>4. WiresAgree' /\ NodeAgrees'
    BY <1>j, <1>s, <1>w, <2>1, <2>2 DEF WiresAgree, NodeAgrees, Agreement, session
  <2> QED
    BY <1>j, <1>u, <2>3, <2>4 DEF Agreement
<1>4. CASE TakeSnapshot
  <2>1. UNCHANGED <<rows, up, down, session>> /\ snapshot'.stored = stored
    BY <1>4 DEF TakeSnapshot, Columns
  <2>2. RowsAgree'
    BY <1>s, <2>1 DEF RowsAgree, Agreement, rows
  <2>3. WiresAgree' /\ NodeAgrees'
    BY <1>j, <1>s, <1>w, <2>1 DEF WiresAgree, NodeAgrees, Agreement, session
  <2> QED
    BY <1>j, <1>u, <2>2, <2>3 DEF Agreement
<1> QED
  BY <1>1, <1>2, <1>3, <1>4 DEF Fault

\* The first state agrees: there is no receipt.
LEMMA InitAgrees == Init => Agreement
<1> SUFFICES ASSUME Init PROVE Agreement
  OBVIOUS
<1>1. RowsAgree
  BY DEF Init, RowsAgree, Columns
<1>2. WiresAgree
  BY QueueParts DEF Init, WiresAgree
<1>3. NodeAgrees /\ JournalAgrees
  BY DEF Init, NodeAgrees, JournalAgrees, NoEntry
<1> QED
  BY <1>1, <1>2, <1>3 DEF Agreement

\* Every step keeps agreement, and the journal is final in it.
LEMMA NextAgrees ==
  ASSUME TypeOK, TypeOK', Agreement, [Next]_vars
  PROVE  /\ Agreement'
         /\ \A id \in TaskId :
              /\ journal[id].receipt # NoReceipt => journal'[id] = journal[id]
              /\ journal[id].task # NoTask => journal'[id].task = journal[id].task
<1>1. CASE (\E t \in Task : Submit(t) \/ Expire(t)) \/ StartProcess \/ Fault
  BY <1>1, EnvironmentAgrees
<1>2. ASSUME NEW c \in Conn, HubStep(c)
      PROVE  Agreement' /\ UNCHANGED journal
  <2>1. UNCHANGED journal
    BY <1>2 DEF HubStep, HubAuthenticate, HubSendState, HubFetch, HubDeliver,
                HubRecvAccept, HubRecvReceipt, HubRecvReceiptAck, HubEnd
  <2> QED
    BY <1>2, <2>1, HubAgrees
<1>3. CASE NodeStep
  BY <1>3, NodeKeepsAgreement
<1>4. CASE UNCHANGED vars
  <2>1. UNCHANGED journal
    BY <1>4 DEF vars
  <2>2. /\ AgreedUp' = AgreedUp
        /\ AgreedDown' = AgreedDown
        /\ \A r : Journaled(r)' <=> Journaled(r)
    BY <2>1, AgreedSame
  <2>3. Agreement'
    BY <1>4, <2>2 DEF vars, rows, session, Agreement, RowsAgree, WiresAgree,
                      NodeAgrees, JournalAgrees
  <2> QED
    BY <2>1, <2>3
<1> QED
  BY <1>1, <1>2, <1>3, <1>4 DEF Next

\* The inductive invariant of the receipts.
LEMMA AgreementInvariant == Spec => [](TypeOK /\ Agreement)
<1>1. Init => TypeOK /\ Agreement
  BY InitTypes, InitAgrees
<1>2. TypeOK /\ Agreement /\ [Next]_vars => TypeOK' /\ Agreement'
  BY NextTypes, NextAgrees
<1> QED
  BY <1>1, <1>2, PTL DEF Spec

\* Every copy of a receipt, in the Relay's rows, in a snapshot, on the wire and
\* in the node's memory, is the one the node's journal holds.
THEOREM Agreed == Spec => []ReceiptsAgree
<1>1. Agreement => ReceiptsAgree
  <2> SUFFICES ASSUME Agreement PROVE ReceiptsAgree
    OBVIOUS
  <2>1. \A c \in Conn : \A i \in DOMAIN up[c] : up[c][i] \in AgreedUp
    BY DEF Agreement, WiresAgree
  <2>2. \A c \in Conn : \A i \in DOMAIN down[c] : down[c][i] \in AgreedDown
    BY DEF Agreement, WiresAgree
  <2>3. \A i \in DOMAIN pending : pending[i] \in AgreedDown
    BY DEF Agreement, WiresAgree
  <2> QED
    BY <2>1, <2>2, <2>3, AgreedFields
       DEF Agreement, RowsAgree, NodeAgrees, ReceiptsAgree
<1> QED
  BY <1>1, AgreementInvariant, PTL

\* A task whose receipt is journaled is never executed again, and no other task
\* takes its entry.
THEOREM JournalIsFinal == Spec => JournalFinal
<1>1. TypeOK /\ Agreement /\ (TypeOK /\ Agreement)' /\ [Next]_vars
        => [\A id \in TaskId :
              /\ journal[id].receipt # NoReceipt => journal'[id] = journal[id]
              /\ journal[id].task # NoTask => journal'[id].task = journal[id].task]_vars
  BY NextAgrees
<1> QED
  BY <1>1, AgreementInvariant, PTL DEF Spec, JournalFinal

-----------------------------------------------------------------------------
(* The protocol implements TaskReceipts                                    *)

\* What the rows say of the tasks they are for, in relay.sqlite and in the
\* snapshot: the receipt is one of the row's id, and a confirmed row has one.
RowsMatch ==
    /\ \A t \in Task : stored[t] # NoReceipt => stored[t].id = idOf[t]
    /\ \A t \in Task :
         snapshot.stored[t] # NoReceipt => snapshot.stored[t].id = idOf[t]
    /\ \A t \in confirmed : stored[t] # NoReceipt
    /\ \A t \in snapshot.confirmed : snapshot.stored[t] # NoReceipt

SignedNow == {journal[id].receipt : id \in TaskId} \ {NoReceipt}
PublishedNow == {stored[t] : t \in Task} \ {NoReceipt}
ConfirmedNow == {stored[t] : t \in confirmed}

\* The steps of TaskReceipts, in terms of the three sets.
LEMMA AbstractSteps ==
  /\ (SignedNow' = SignedNow /\ PublishedNow' = PublishedNow /\ ConfirmedNow' = ConfirmedNow)
       => UNCHANGED Receipts!vars
  /\ \A r \in Receipt :
       /\ (/\ \A s \in SignedNow : s.id # r.id
           /\ SignedNow' = SignedNow \cup {r}
           /\ PublishedNow' = PublishedNow
           /\ ConfirmedNow' = ConfirmedNow) => Receipts!Next
       /\ (/\ r \in SignedNow
           /\ PublishedNow' = PublishedNow \cup {r}
           /\ SignedNow' = SignedNow
           /\ ConfirmedNow' = ConfirmedNow) => Receipts!Next
       /\ (/\ r \in PublishedNow
           /\ ConfirmedNow' = ConfirmedNow \cup {r}
           /\ SignedNow' = SignedNow
           /\ PublishedNow' = PublishedNow) => Receipts!Next
  /\ (/\ PublishedNow' \subseteq SignedNow
      /\ ConfirmedNow' \subseteq PublishedNow'
      /\ SignedNow' = SignedNow) => Receipts!Next
<1> USE DEF SignedNow, PublishedNow, ConfirmedNow
<1>1. (SignedNow' = SignedNow /\ PublishedNow' = PublishedNow /\ ConfirmedNow' = ConfirmedNow)
        => UNCHANGED Receipts!vars
  BY DEF Receipts!vars
<1>2. ASSUME NEW r \in Receipt
      PROVE  /\ (/\ \A s \in SignedNow : s.id # r.id
                 /\ SignedNow' = SignedNow \cup {r}
                 /\ PublishedNow' = PublishedNow
                 /\ ConfirmedNow' = ConfirmedNow) => Receipts!Next
             /\ (/\ r \in SignedNow
                 /\ PublishedNow' = PublishedNow \cup {r}
                 /\ SignedNow' = SignedNow
                 /\ ConfirmedNow' = ConfirmedNow) => Receipts!Next
             /\ (/\ r \in PublishedNow
                 /\ ConfirmedNow' = ConfirmedNow \cup {r}
                 /\ SignedNow' = SignedNow
                 /\ PublishedNow' = PublishedNow) => Receipts!Next
  BY DEF Receipts!Next, Receipts!Sign, Receipts!Publish, Receipts!Confirm
<1>3. (/\ PublishedNow' \subseteq SignedNow
       /\ ConfirmedNow' \subseteq PublishedNow'
       /\ SignedNow' = SignedNow) => Receipts!Next
  BY DEF Receipts!Next, Receipts!Restore
<1> QED
  BY <1>1, <1>2, <1>3

\* A step that touches neither the rows nor a receipt of the journal changes
\* nothing TaskReceipts can see.
LEMMA Unseen ==
  ASSUME UNCHANGED <<stored, confirmed>>,
         \A id \in TaskId : journal'[id].receipt = journal[id].receipt
  PROVE  UNCHANGED Receipts!vars
  BY AbstractSteps DEF SignedNow, PublishedNow, ConfirmedNow

\* Of the handlers, one publishes a receipt and one confirms a receipt.
LEMMA HubImplements ==
  ASSUME TypeOK, Agreement, RowsMatch, NEW c \in Conn, HubStep(c)
  PROVE  RowsMatch' /\ [Receipts!Next]_Receipts!vars
<1>j. UNCHANGED <<journal, snapshot>>
  BY DEF HubStep, HubAuthenticate, HubSendState, HubFetch, HubDeliver,
         HubRecvAccept, HubRecvReceipt, HubRecvReceiptAck, HubEnd
<1>s. SignedNow' = SignedNow
  BY <1>j DEF SignedNow
<1>1. CASE HubRecvReceipt(c)
  <2> DEFINE r == Head(up[c]).receipt
             open == {t \in RowsFor(r.id) : t \in accepted /\ stored[t] = NoReceipt}
  <2>1. Receives(c, "receipt") /\ UNCHANGED confirmed
    BY <1>1 DEF HubRecvReceipt
  <2>2. r \in Receipt /\ Journaled(r)
    BY <2>1, ReceivesQueues, AgreedFields, MessageFields DEF Agreement, WiresAgree
  <2>3. \/ UNCHANGED stored
        \/ /\ open # {}
           /\ stored' = [t \in Task |-> IF t \in open THEN r ELSE stored[t]]
    BY <1>1 DEF HubRecvReceipt
  <2>4. \A t \in open : t \in Task /\ idOf[t] = r.id /\ stored[t] = NoReceipt
    BY DEF RowsFor, Queued
  <2> HIDE DEF r, open
  <2>5. CASE UNCHANGED stored
    <3>1. RowsMatch'
      BY <1>j, <2>1, <2>5 DEF RowsMatch
    <3> QED
      BY <1>j, <2>1, <2>5, <3>1, Unseen
  <2>6. CASE /\ open # {}
             /\ stored' = [t \in Task |-> IF t \in open THEN r ELSE stored[t]]
    <3>1. r # NoReceipt
      BY <2>2
    <3>2. RowsMatch'
      BY <1>j, <2>1, <2>4, <2>6, <3>1 DEF RowsMatch, TypeOK, RelayTypeOK
    <3>3. confirmed \subseteq Task /\ \A t \in confirmed : stored[t] # NoReceipt
      BY DEF RowsMatch, TypeOK, RelayTypeOK
    <3>4. \A t \in confirmed : stored'[t] = stored[t]
      BY <2>4, <2>6, <3>3
    <3>5. ConfirmedNow' = ConfirmedNow
      BY <2>1, <3>4 DEF ConfirmedNow
    <3>6. PublishedNow' = PublishedNow \cup {r}
      <4>1. \A t \in Task : stored'[t] = IF t \in open THEN r ELSE stored[t]
        BY <2>6
      <4>2. PICK u \in open : u \in Task
        BY <2>4, <2>6
      <4> QED
        BY <2>4, <3>1, <4>1, <4>2 DEF PublishedNow
    <3>7. r \in SignedNow
      BY <2>2, <3>1 DEF SignedNow, Journaled
    <3> QED
      BY <1>s, <2>2, <3>2, <3>5, <3>6, <3>7, AbstractSteps
  <2> QED
    BY <2>3, <2>5, <2>6
<1>2. CASE HubRecvReceiptAck(c)
  <2> DEFINE id == Head(up[c]).id
             open == RowsFor(id) \cap StoredRows
  <2>1. UNCHANGED stored
    BY <1>2 DEF HubRecvReceiptAck
  <2>2. \/ UNCHANGED confirmed
        \/ open # {} /\ confirmed' = confirmed \cup open
    BY <1>2 DEF HubRecvReceiptAck
  <2>3. \A t \in open : t \in Task /\ idOf[t] = id /\ stored[t] # NoReceipt
    BY DEF RowsFor, StoredRows, Queued
  <2> HIDE DEF id, open
  <2>4. CASE UNCHANGED confirmed
    <3>1. RowsMatch'
      BY <1>j, <2>1, <2>4 DEF RowsMatch
    <3> QED
      BY <1>j, <2>1, <2>4, <3>1, Unseen
  <2>5. CASE open # {} /\ confirmed' = confirmed \cup open
    <3>1. RowsMatch'
      BY <1>j, <2>1, <2>3, <2>5 DEF RowsMatch
    <3>2. PICK u \in open : u \in Task /\ stored[u] \in Receipt
      BY <2>3, <2>5 DEF TypeOK, RelayTypeOK
    <3>3. \A t \in open : stored[t] = journal[id].receipt
      BY <2>3 DEF Agreement, RowsAgree, Journaled, RowsMatch
    <3>4. \A t \in open : stored[t] = stored[u]
      BY <3>2, <3>3
    <3>5. ConfirmedNow' = ConfirmedNow \cup {stored[u]}
      BY <2>1, <2>5, <3>2, <3>4 DEF ConfirmedNow
    <3>6. PublishedNow' = PublishedNow /\ stored[u] \in PublishedNow
      BY <2>1, <2>3, <3>2 DEF PublishedNow
    <3> QED
      BY <1>s, <3>1, <3>2, <3>5, <3>6, AbstractSteps
  <2> QED
    BY <2>2, <2>4, <2>5
<1>3. CASE ~HubRecvReceipt(c) /\ ~HubRecvReceiptAck(c)
  <2>1. UNCHANGED <<stored, confirmed>>
    BY <1>3 DEF HubStep, HubAuthenticate, HubSendState, HubFetch, HubDeliver,
                HubRecvAccept, HubEnd, rows
  <2>2. RowsMatch'
    BY <1>j, <2>1 DEF RowsMatch
  <2> QED
    BY <1>j, <2>1, <2>2, Unseen
<1> QED
  BY <1>1, <1>2, <1>3

\* Of the steps of the node, one signs a receipt: that of a task that has none.
LEMMA NodeImplements ==
  ASSUME TypeOK, Agreement, RowsMatch, NodeStep
  PROVE  RowsMatch' /\ [Receipts!Next]_Receipts!vars
<1>r. UNCHANGED <<rows, snapshot>>
  BY DEF NodeStep, Connect, RecvAuthenticated, RecvReceiptState, RecvTask, Execute,
         SetAside, RecvAck, RecvConfirmed, RecvError, Finish, SeesClose,
         IdleTimeout, Retry
<1>m. RowsMatch'
  BY <1>r DEF RowsMatch, rows
<1>1. CASE Execute
  <2>1. cur \in Task /\ idOf[cur] \in TaskId /\ runs + 1 \in 1 .. MaxRuns
    BY <1>1 DEF Execute, TypeOK, SessionTypeOK, CounterTypeOK
  <2>2. PICK r \in Receipt : r.id = idOf[cur] /\ SaveReceipt(r)
    BY <1>1, <2>1, ReceiptFields DEF Execute
  <2>3. journal[r.id].receipt = NoReceipt /\ r # NoReceipt
    BY <1>1, <2>2 DEF Execute, Agreement, NodeAgrees
  <2>4. \A id \in TaskId :
          journal'[id].receipt = IF id = r.id THEN r ELSE journal[id].receipt
    BY <2>2 DEF SaveReceipt, TypeOK, JournalTypeOK
  <2>5. SignedNow' = SignedNow \cup {r}
    BY <2>1, <2>2, <2>3, <2>4 DEF SignedNow
  <2>6. \A s \in SignedNow : s.id # r.id
    <3>1. \A id \in TaskId : journal[id].receipt # NoReceipt
                               => journal[id].receipt.id = id
      BY DEF Agreement, JournalAgrees
    <3> QED
      BY <2>3, <3>1 DEF SignedNow
  <2>7. PublishedNow' = PublishedNow /\ ConfirmedNow' = ConfirmedNow
    BY <1>r DEF PublishedNow, ConfirmedNow, rows
  <2> QED
    BY <1>m, <2>5, <2>6, <2>7, AbstractSteps
<1>2. CASE RecvTask
  <2>1. \A id \in TaskId : journal'[id].receipt = journal[id].receipt
    <3>1. CASE UNCHANGED journal
      BY <3>1
    <3>2. CASE \E t \in Task :
                 journal' = [journal EXCEPT ![idOf[t]] =
                               [task |-> t, receipt |-> journal[idOf[t]].receipt]]
      BY <3>2 DEF TypeOK, JournalTypeOK
    <3>3. HasMessage /\ conn \in Conn /\ Message.type = "task"
      BY <1>2 DEF RecvTask, TypeOK, SessionTypeOK, InSession
    <3>4. Message.task \in Task
      BY <3>3, MessageQueues, AgreedFields, MessageFields DEF Agreement, WiresAgree
    <3> QED
      BY <1>2, <3>1, <3>2, <3>4 DEF RecvTask, KnownReceipt
  <2> QED
    BY <1>r, <1>m, <2>1, Unseen DEF rows
<1>3. CASE ~Execute /\ ~RecvTask
  <2>1. UNCHANGED journal
    BY <1>3 DEF NodeStep, Connect, RecvAuthenticated, RecvReceiptState, SetAside,
                RecvAck, RecvConfirmed, RecvError, Finish, SeesClose, IdleTimeout,
                Retry
  <2> QED
    BY <1>r, <1>m, <2>1, Unseen DEF rows
<1> QED
  BY <1>1, <1>2, <1>3

\* Of the other steps, restoring a snapshot is seen as what it is.
LEMMA EnvironmentImplements ==
  ASSUME TypeOK, Agreement, RowsMatch,
         (\E t \in Task : Submit(t) \/ Expire(t)) \/ StartProcess \/ Fault
  PROVE  RowsMatch' /\ [Receipts!Next]_Receipts!vars
<1>j. UNCHANGED journal
  BY DEF Submit, Expire, StartProcess, Fault, ConnectFails, CutLink, Crash,
         HubRestart, HubStops, TakeSnapshot, RestoreSnapshot
<1>1. CASE RestoreSnapshot
  <2>1. /\ stored' = snapshot.stored
        /\ confirmed' = snapshot.confirmed
        /\ UNCHANGED snapshot
    BY <1>1 DEF RestoreSnapshot
  <2>2. RowsMatch'
    BY <2>1 DEF RowsMatch
  <2>3. PublishedNow' \subseteq SignedNow
    BY <2>1 DEF PublishedNow, SignedNow, Agreement, RowsAgree, Journaled
  <2>4. ConfirmedNow' \subseteq PublishedNow'
    <3>1. snapshot.confirmed \subseteq Task
      BY DEF TypeOK, RelayTypeOK
    <3> QED
      BY <2>1, <3>1 DEF ConfirmedNow, PublishedNow, RowsMatch
  <2>5. SignedNow' = SignedNow
    BY <1>j DEF SignedNow
  <2> QED
    BY <2>2, <2>3, <2>4, <2>5, AbstractSteps
<1>2. CASE TakeSnapshot
  <2>1. /\ UNCHANGED <<stored, confirmed>>
        /\ snapshot' = Columns
    BY <1>2 DEF TakeSnapshot, rows
  <2>2. RowsMatch'
    BY <2>1 DEF RowsMatch, Columns
  <2> QED
    BY <1>j, <2>1, <2>2, Unseen
<1>3. CASE ~RestoreSnapshot /\ ~TakeSnapshot
  <2>1. UNCHANGED <<stored, confirmed, snapshot>>
    BY <1>3 DEF Submit, Expire, StartProcess, Fault, ConnectFails, CutLink, Crash,
                HubRestart, rows
  <2>2. RowsMatch'
    BY <2>1 DEF RowsMatch
  <2> QED
    BY <1>j, <2>1, <2>2, Unseen
<1> QED
  BY <1>1, <1>2, <1>3

\* Relay and node together implement TaskReceipts, for every value of the
\* constants: one receipt is signed per task, none is published that was not
\* signed and none confirmed that was not published, whatever is restored.
THEOREM Implements == Spec => ImplementsReceipts
<1>1. Init => RowsMatch /\ Receipts!Init
  <2> SUFFICES ASSUME Init PROVE RowsMatch /\ Receipts!Init
    OBVIOUS
  <2>1. RowsMatch
    BY DEF Init, RowsMatch, Columns
  <2>2. SignedNow = {} /\ PublishedNow = {} /\ ConfirmedNow = {}
    BY DEF Init, SignedNow, PublishedNow, ConfirmedNow, NoEntry
  <2> QED
    BY <2>1, <2>2 DEF Receipts!Init, SignedNow, PublishedNow, ConfirmedNow
<1>2. TypeOK /\ Agreement /\ RowsMatch /\ [Next]_vars
        => RowsMatch' /\ [Receipts!Next]_Receipts!vars
  <2> SUFFICES ASSUME TypeOK, Agreement, RowsMatch, [Next]_vars
               PROVE  RowsMatch' /\ [Receipts!Next]_Receipts!vars
    OBVIOUS
  <2>1. CASE (\E t \in Task : Submit(t) \/ Expire(t)) \/ StartProcess \/ Fault
    BY <2>1, EnvironmentImplements
  <2>2. CASE \E c \in Conn : HubStep(c)
    BY <2>2, HubImplements
  <2>3. CASE NodeStep
    BY <2>3, NodeImplements
  <2>4. CASE UNCHANGED vars
    <3>1. UNCHANGED <<stored, confirmed, snapshot, journal>>
      BY <2>4 DEF vars, rows
    <3>2. RowsMatch'
      BY <3>1 DEF RowsMatch
    <3> QED
      BY <3>1, <3>2, Unseen
  <2> QED
    BY <2>1, <2>2, <2>3, <2>4 DEF Next
<1> QED
  BY <1>1, <1>2, AgreementInvariant, PTL DEF Spec, ImplementsReceipts, Receipts!Spec

-----------------------------------------------------------------------------
(* A row's receipt belongs to its task                                     *)

\* A task identifier names at most one row, in relay.sqlite and in a snapshot.
RowsUnique ==
    /\ \A t, u \in Task :
         rowid[t] > 0 /\ rowid[u] > 0 /\ idOf[t] = idOf[u] => t = u
    /\ \A t, u \in Task :
         snapshot.rowid[t] > 0 /\ snapshot.rowid[u] > 0 /\ idOf[t] = idOf[u] => t = u

\* The node has claimed every task a row says it accepted or answered.
RowsClaimed ==
    /\ \A t \in Task :
         t \in accepted \/ stored[t] # NoReceipt => journal[idOf[t]].task = t
    /\ \A t \in Task :
         t \in snapshot.accepted \/ snapshot.stored[t] # NoReceipt
           => journal[idOf[t]].task = t

\* The journal's entry of an id is about a task of that id.
JournalNames ==
    \A id \in TaskId : journal[id].task # NoTask => idOf[journal[id].task] = id

\* Messages that name a task the Relay has a row for.
OwnedUp == {m \in UpMsg : m.type = "accept" => journal[m.id].task \in Queued}
KnownDown == {m \in DownMsg : m.type = "task" => m.task \in Queued}

\* The node may still be heard on its connection.
Heard == InSession /\ hub[conn] \in {"waiting", "open"}

\* A handler delivers rows that exist, the node accepts what was delivered on
\* its connection, and only the current connection holds undelivered messages:
\* rows disappear only when a snapshot is restored, which ends every handler.
WiresKnown ==
    /\ \A c \in Conn : batch[c] \subseteq Queued
    /\ up \in [Conn -> Seq(OwnedUp)]
    /\ \A c \in Conn : c # conn => down[c] = <<>>
    /\ ~InSession => pending = <<>>
    /\ Heard => down \in [Conn -> Seq(KnownDown)] /\ pending \in Seq(KnownDown)

Belonging == RowsUnique /\ RowsClaimed /\ JournalNames /\ WiresKnown

\* The messages the two sides send, told apart by what they say of a task.
LEMMA KnownMessages ==
  /\ \A n \in Nat : [type |-> "authenticated", count |-> n] \in KnownDown
  /\ \A r \in Receipt : [type |-> "receipt_state", receipt |-> r] \in KnownDown
  /\ \A t \in Queued : [type |-> "task", task |-> t] \in KnownDown
  /\ \A id \in TaskId : [type |-> "ack", id |-> id] \in KnownDown
  /\ \A id \in TaskId : [type |-> "receipt_confirmed", id |-> id] \in KnownDown
  /\ [type |-> "error"] \in KnownDown
  /\ [type |-> "authenticate"] \in OwnedUp
  /\ \A id \in TaskId :
       journal[id].task \in Queued => [type |-> "accept", id |-> id] \in OwnedUp
  /\ \A id \in TaskId : [type |-> "receipt_ack", id |-> id] \in OwnedUp
  /\ \A r \in Receipt : [type |-> "receipt", receipt |-> r] \in OwnedUp
  BY MessageTypes DEF KnownDown, OwnedUp, Queued

\* What such a message says.
LEMMA KnownFields ==
  /\ \A m \in KnownDown : m \in DownMsg /\ (m.type = "task" => m.task \in Queued)
  /\ \A m \in OwnedUp :
       m \in UpMsg /\ (m.type = "accept" => journal[m.id].task \in Queued)
  BY DEF KnownDown, OwnedUp

\* As long as rows and journal only grow, the messages keep their meaning.
LEMMA KnownGrows ==
  ASSUME Queued \subseteq Queued',
         \A id \in TaskId : journal[id].task # NoTask
                              => journal'[id].task = journal[id].task
  PROVE  OwnedUp \subseteq OwnedUp' /\ KnownDown \subseteq KnownDown'
<1>1. NoTask \notin Queued
  BY DEF Queued
<1>2. OwnedUp \subseteq OwnedUp'
  BY <1>1, MessageFields DEF OwnedUp
<1>3. KnownDown \subseteq KnownDown'
  BY DEF KnownDown
<1> QED
  BY <1>2, <1>3

\* What a handler sends is read on the current connection only.
LEMMA ReplyKnown ==
  ASSUME TypeOK, WiresKnown, NEW c \in Conn, NEW m \in KnownDown, Reply(c, m)
  PROVE  /\ \A d \in Conn : d # conn => down'[d] = <<>>
         /\ Heard => down' \in [Conn -> Seq(KnownDown)]
<1>1. \A d \in Conn : d # conn => down'[d] = <<>>
  BY DEF Reply, WiresKnown, TypeOK, WireTypeOK
<1>2. Heard => down' \in [Conn -> Seq(KnownDown)]
  BY ReplyQueues DEF WiresKnown
<1> QED
  BY <1>1, <1>2

\* A step of a handler of the Relay: a row accepts only a task the node claimed,
\* and only an accepted row takes a receipt.
LEMMA HubBelongs ==
  ASSUME TypeOK, Belonging, NEW c \in Conn, HubStep(c)
  PROVE  Belonging'
<1> USE DEF Belonging
<1>j. UNCHANGED <<rowid, journal, snapshot, session>>
  BY DEF HubStep, HubAuthenticate, HubSendState, HubFetch, HubDeliver,
         HubRecvAccept, HubRecvReceipt, HubRecvReceiptAck, HubEnd, rows
<1>s. Queued' = Queued /\ OwnedUp' = OwnedUp /\ KnownDown' = KnownDown
  BY <1>j DEF Queued, OwnedUp, KnownDown
<1>h. Heard' => Heard
  <2>1. InSession' = InSession /\ conn' = conn
    BY <1>j DEF session, InSession
  <2>2. ASSUME NEW d \in Conn, hub'[d] \in {"waiting", "open"}
        PROVE  hub[d] \in {"waiting", "open"}
    BY <2>2 DEF TypeOK, HubTypeOK, HubStep, HubAuthenticate, HubSendState, HubFetch,
                HubDeliver, HubRecvAccept, HubRecvReceipt, HubRecvReceiptAck, HubEnd,
                hubVars
  <2>3. InSession => conn \in Conn
    BY DEF TypeOK, SessionTypeOK
  <2> QED
    BY <2>1, <2>2, <2>3 DEF Heard
<1>w. /\ \A d \in Conn : batch[d] \subseteq Queued
      /\ up \in [Conn -> Seq(OwnedUp)]
      /\ \A d \in Conn : d # conn => down[d] = <<>>
      /\ Heard => down \in [Conn -> Seq(KnownDown)]
  BY DEF WiresKnown
<1> SUFFICES /\ \A t \in Task : t \in accepted' \/ stored'[t] # NoReceipt
                                  => journal[idOf[t]].task = t
             /\ \A d \in Conn : batch'[d] \subseteq Queued
             /\ up' \in [Conn -> Seq(OwnedUp)]
             /\ \A d \in Conn : d # conn => down'[d] = <<>>
             /\ Heard => down' \in [Conn -> Seq(KnownDown)]
  <2>1. RowsUnique' /\ JournalNames'
    BY <1>j DEF RowsUnique, JournalNames
  <2>2. RowsClaimed'
    BY <1>j DEF RowsClaimed
  <2>3. WiresKnown'
    BY <1>j, <1>s, <1>h DEF WiresKnown, session, InSession
  <2> QED
    BY <2>1, <2>2, <2>3
<1>r. \A t \in Task : t \in accepted \/ stored[t] # NoReceipt
                        => journal[idOf[t]].task = t
  BY DEF RowsClaimed
<1>1. CASE HubAuthenticate(c)
  <2>1. Cardinality(StoredRows) \in Nat
    BY CountIsNat DEF StoredRows, Queued
  <2>2. /\ \A d \in Conn : d # conn => down'[d] = <<>>
        /\ Heard => down' \in [Conn -> Seq(KnownDown)]
    BY <1>1, <2>1, KnownMessages, ReplyKnown DEF HubAuthenticate
  <2>3. up' \in [Conn -> Seq(OwnedUp)]
    BY <1>1, <1>w, QueueParts DEF HubAuthenticate
  <2> QED
    BY <1>1, <1>r, <1>w, <2>2, <2>3 DEF HubAuthenticate, rows
<1>2. CASE HubSendState(c)
  <2>1. PICK t \in states[c] : Reply(c, [type |-> "receipt_state", receipt |-> stored[t]])
    BY <1>2 DEF HubSendState
  <2>2. stored[t] \in Receipt
    BY DEF TypeOK, HubTypeOK, RelayTypeOK
  <2>3. /\ \A d \in Conn : d # conn => down'[d] = <<>>
        /\ Heard => down' \in [Conn -> Seq(KnownDown)]
    BY <2>1, <2>2, KnownMessages, ReplyKnown
  <2> QED
    BY <1>2, <1>w, <1>r, <2>3 DEF HubSendState, rows
<1>3. CASE HubFetch(c)
  <2>1. \A d \in Conn : batch'[d] \subseteq Queued
    BY <1>3, <1>w DEF HubFetch, PendingRows, TypeOK, HubTypeOK
  <2> QED
    BY <1>3, <1>w, <1>r, <2>1 DEF HubFetch, rows
<1>4. CASE HubDeliver(c)
  <2>1. PICK t \in batch[c] :
          /\ batch' = [batch EXCEPT ![c] = @ \ {t}]
          /\ Reply(c, [type |-> "task", task |-> t])
    BY <1>4 DEF HubDeliver
  <2>2. [type |-> "task", task |-> t] \in KnownDown
    BY <1>w, KnownMessages
  <2>3. /\ \A d \in Conn : d # conn => down'[d] = <<>>
        /\ Heard => down' \in [Conn -> Seq(KnownDown)]
    BY <2>1, <2>2, ReplyKnown
  <2>4. \A d \in Conn : batch'[d] \subseteq Queued
    BY <1>w, <2>1 DEF TypeOK, HubTypeOK
  <2> QED
    BY <1>4, <1>w, <1>r, <2>3, <2>4 DEF HubDeliver, rows
<1>5. CASE HubRecvAccept(c)
  <2>1. Receives(c, "accept")
    BY <1>5 DEF HubRecvAccept
  <2>2. up' \in [Conn -> Seq(OwnedUp)]
    BY <1>w, <2>1, ReceivesQueues
  <2>3. /\ \A d \in Conn : d # conn => down'[d] = <<>>
        /\ Heard => down' \in [Conn -> Seq(KnownDown)]
    <3>1. CASE UNCHANGED down
      BY <1>w, <3>1
    <3>2. CASE Reply(c, [type |-> "error"])
      BY <3>2, KnownMessages, ReplyKnown
    <3> QED
      BY <1>5, <3>1, <3>2 DEF HubRecvAccept
  <2>4. \A t \in Task : t \in accepted' => journal[idOf[t]].task = t
    <3> DEFINE id == Head(up[c]).id
    <3>1. id \in TaskId /\ journal[id].task \in Queued
      BY <1>w, <2>1, ReceivesQueues, KnownFields, MessageFields
    <3>2. idOf[journal[id].task] = id
      BY <3>1 DEF JournalNames, Queued
    <3>3. \A t \in RowsFor(id) : t = journal[id].task /\ idOf[t] = id
      BY <3>1, <3>2 DEF RowsFor, Queued, RowsUnique
    <3> HIDE DEF id
    <3>4. accepted' \subseteq accepted \cup RowsFor(id)
      BY <1>5 DEF HubRecvAccept, id
    <3> QED
      BY <1>r, <3>3, <3>4
  <2> QED
    BY <1>5, <1>w, <1>r, <2>2, <2>3, <2>4 DEF HubRecvAccept, hubVars
<1>6. CASE HubRecvReceipt(c)
  <2>1. Receives(c, "receipt")
    BY <1>6 DEF HubRecvReceipt
  <2>2. up' \in [Conn -> Seq(OwnedUp)]
    BY <1>w, <2>1, ReceivesQueues
  <2>3. Head(up[c]).receipt \in Receipt
    BY <1>w, <2>1, ReceivesQueues, KnownFields, MessageFields
  <2>4. /\ \A d \in Conn : d # conn => down'[d] = <<>>
        /\ Heard => down' \in [Conn -> Seq(KnownDown)]
    <3>1. CASE UNCHANGED down
      BY <1>w, <3>1
    <3>2. CASE \E m \in KnownDown : Reply(c, m)
      BY <3>2, ReplyKnown
    <3> QED
      BY <1>6, <2>3, <3>1, <3>2, KnownMessages, ReceiptFields DEF HubRecvReceipt
  <2>5. \A t \in Task : stored'[t] # NoReceipt => t \in accepted \/ stored[t] # NoReceipt
    BY <1>6 DEF HubRecvReceipt
  <2>6. UNCHANGED <<accepted, batch>>
    BY <1>6 DEF HubRecvReceipt
  <2> QED
    BY <1>w, <1>r, <2>2, <2>4, <2>5, <2>6
<1>7. CASE HubRecvReceiptAck(c)
  <2>1. Receives(c, "receipt_ack")
    BY <1>7 DEF HubRecvReceiptAck
  <2>2. up' \in [Conn -> Seq(OwnedUp)] /\ Head(up[c]).id \in TaskId
    BY <1>w, <2>1, ReceivesQueues, KnownFields, MessageFields
  <2>3. /\ \A d \in Conn : d # conn => down'[d] = <<>>
        /\ Heard => down' \in [Conn -> Seq(KnownDown)]
    BY <1>7, <2>2, KnownMessages, ReplyKnown DEF HubRecvReceiptAck
  <2> QED
    BY <1>7, <1>w, <1>r, <2>2, <2>3 DEF HubRecvReceiptAck, hubVars
<1>8. CASE HubEnd(c)
  <2>1. up' \in [Conn -> Seq(OwnedUp)]
    BY <1>8, <1>w, QueueParts DEF HubEnd
  <2>2. \A d \in Conn : batch'[d] \subseteq Queued
    BY <1>8, <1>w DEF HubEnd, TypeOK, HubTypeOK
  <2> QED
    BY <1>8, <1>w, <1>r, <2>1, <2>2 DEF HubEnd, rows
<1> QED
  BY <1>1, <1>2, <1>3, <1>4, <1>5, <1>6, <1>7, <1>8 DEF HubStep

\* What the node sends joins the queue of a connection on which it is heard.
LEMMA EmitKnown ==
  ASSUME TypeOK, WiresKnown, NEW msgs, Emit(msgs), Heard => msgs \in Seq(OwnedUp),
         InSession
  PROVE  up' \in [Conn -> Seq(OwnedUp)]
<1>1. up \in [Conn -> Seq(OwnedUp)]
  BY DEF WiresKnown
<1>2. CASE Heard
  BY <1>1, <1>2, EmitQueues
<1>3. CASE ~Heard
  BY <1>1, <1>3 DEF Emit, Heard
<1> QED
  BY <1>2, <1>3

\* A session that ends leaves nothing undelivered.
LEMMA LeaveKnown ==
  ASSUME TypeOK, Belonging, InSession,
         NEW next \in {"idle", "down", "done", "failed", "aborted"},
         LeaveSession(next), UNCHANGED <<rows, snapshot, hubVars, up, journal>>
  PROVE  Belonging'
<1> USE DEF Belonging
<1>1. Queued' = Queued /\ OwnedUp' = OwnedUp
  BY DEF Queued, OwnedUp, rows
<1>2. RowsUnique' /\ RowsClaimed' /\ JournalNames'
  BY DEF RowsUnique, RowsClaimed, JournalNames, rows
<1>3. ~InSession' /\ ~Heard'
  BY DEF LeaveSession, InSession, Heard
<1>4. conn \in Conn /\ conn' = 0
  BY DEF LeaveSession, TypeOK, SessionTypeOK
<1>5. \A c \in Conn : down'[c] = <<>>
  BY <1>4 DEF LeaveSession, WiresKnown, TypeOK, WireTypeOK
<1>6. WiresKnown'
  BY <1>1, <1>3, <1>5 DEF WiresKnown, LeaveSession, hubVars
<1> QED
  BY <1>2, <1>6

\* A step of the session that only reads a message and answers it.
LEMMA AnswerKnown ==
  ASSUME TypeOK, Belonging, InSession, InSession',
         UNCHANGED <<rows, snapshot, hubVars, conn, journal>>,
         up' \in [Conn -> Seq(OwnedUp)],
         \A c \in Conn : c # conn => down'[c] = down[c],
         Heard => down' \in [Conn -> Seq(KnownDown)] /\ pending' \in Seq(KnownDown)
  PROVE  Belonging'
<1> USE DEF Belonging
<1>1. Queued' = Queued /\ OwnedUp' = OwnedUp /\ KnownDown' = KnownDown
  BY DEF Queued, OwnedUp, KnownDown, rows
<1>2. RowsUnique' /\ RowsClaimed' /\ JournalNames'
  BY DEF RowsUnique, RowsClaimed, JournalNames, rows
<1>3. Heard' => Heard
  BY DEF Heard, hubVars
<1>4. WiresKnown'
  BY <1>1, <1>3 DEF WiresKnown, hubVars
<1> QED
  BY <1>2, <1>4

\* A step of the node: it claims a task before it accepts it, and accepts a task
\* only on the connection that delivered it.
LEMMA NodeBelongs ==
  ASSUME TypeOK, TypeOK', Agreement, Belonging, NodeStep
  PROVE  Belonging'
<1>r. UNCHANGED <<rows, snapshot>>
  BY DEF NodeStep, Connect, RecvAuthenticated, RecvReceiptState, RecvTask, Execute,
         SetAside, RecvAck, RecvConfirmed, RecvError, Finish, SeesClose,
         IdleTimeout, Retry
<1>w. /\ up \in [Conn -> Seq(OwnedUp)]
      /\ Heard => down \in [Conn -> Seq(KnownDown)] /\ pending \in Seq(KnownDown)
      /\ \A c \in Conn : c # conn => down[c] = <<>>
  BY DEF Belonging, WiresKnown
<1>t. /\ down \in [Conn -> Seq(DownMsg)]
      /\ pending \in Seq(DownMsg)
      /\ InSession => conn \in Conn
  BY DEF TypeOK, WireTypeOK, SessionTypeOK
<1>x. \A c \in Conn : /\ TakeWire /\ c # conn => down'[c] = down[c]
                      /\ TakeMessage /\ c # conn => down'[c] = down[c]
  BY <1>t DEF TakeWire, TakeMessage
<1>1. CASE Connect
  <2>1. ~InSession /\ conn = 0 /\ UNCHANGED <<batch, down, pending, journal>>
    BY <1>1 DEF Connect, InSession, TypeOK, SessionTypeOK
  <2>2. Queued' = Queued /\ OwnedUp' = OwnedUp /\ KnownDown' = KnownDown
    BY <1>r, <2>1 DEF Queued, OwnedUp, KnownDown, rows
  <2>3. \A c \in Conn : down[c] = <<>>
    BY <1>w, <2>1 DEF Conn
  <2>4. down \in [Conn -> Seq(KnownDown)] /\ pending \in Seq(KnownDown)
    BY <1>t, <2>1, <2>3, QueueParts DEF Belonging, WiresKnown
  <2>5. up' \in [Conn -> Seq(OwnedUp)]
    BY <1>1, <1>w, QueueParts, KnownMessages DEF Connect
  <2>6. WiresKnown'
    BY <1>1, <2>1, <2>2, <2>3, <2>4, <2>5
       DEF Connect, Belonging, WiresKnown, InSession
  <2> QED
    BY <1>r, <2>1, <2>6 DEF Belonging, RowsUnique, RowsClaimed, JournalNames, rows
<1>2. CASE RecvAuthenticated
  <2>1. /\ InSession /\ InSession' /\ OnWire("authenticated") /\ TakeWire
        /\ UNCHANGED <<rows, snapshot, hubVars, conn, journal, up, pending>>
    BY <1>2 DEF RecvAuthenticated, InSession
  <2>2. Heard => down' \in [Conn -> Seq(KnownDown)]
    BY <1>w, <1>t, <2>1, WireQueues
  <2> QED
    BY <1>w, <1>x, <2>1, <2>2, AnswerKnown
<1>3. CASE RecvReceiptState
  <2>1. HasMessage /\ InSession /\ Message.type = "receipt_state"
    BY <1>3 DEF RecvReceiptState, InSession
  <2>2. Message \in DownMsg /\ Message.receipt \in Receipt
    BY <1>t, <2>1, MessageQueues, MessageFields
  <2>3. CASE journal[Message.receipt.id].receipt = Message.receipt
    <3>1. TakeMessage /\ Acknowledge(Message.receipt)
      BY <1>3, <2>3 DEF RecvReceiptState
    <3>2. UNCHANGED <<rows, snapshot, hubVars, conn, journal>>
      BY <1>3, <2>3 DEF RecvReceiptState
    <3>3. InSession' /\ Emit(<<[type |-> "receipt_ack", id |-> Message.receipt.id]>>)
      BY <3>1 DEF Acknowledge, InSession
    <3>4. <<[type |-> "receipt_ack", id |-> Message.receipt.id]>> \in Seq(OwnedUp)
      BY <2>2, KnownMessages, ReceiptFields, QueueParts
    <3>5. up' \in [Conn -> Seq(OwnedUp)]
      BY <2>1, <3>3, <3>4, EmitKnown DEF Belonging
    <3>6. Heard => down' \in [Conn -> Seq(KnownDown)] /\ pending' \in Seq(KnownDown)
      BY <1>w, <1>t, <2>1, <3>1, MessageQueues
    <3> QED
      BY <1>x, <2>1, <3>1, <3>2, <3>3, <3>5, <3>6, AnswerKnown
  <2>4. CASE journal[Message.receipt.id].receipt # Message.receipt
    <3>1. LeaveSession("aborted") /\ UNCHANGED <<rows, snapshot, hubVars, up, journal>>
      BY <1>3, <2>4 DEF RecvReceiptState, Abort
    <3> QED
      BY <2>1, <3>1, LeaveKnown
  <2> QED
    BY <2>3, <2>4
<1>4. CASE RecvTask
  <2> DEFINE t == Message.task
             id == idOf[t]
             r == KnownReceipt(t)
             accept == [type |-> "accept", id |-> id]
  <2>1. HasMessage /\ InSession /\ Message.type = "task"
    BY <1>4 DEF RecvTask, InSession
  <2>2. t \in Task /\ id \in TaskId
    BY <1>t, <2>1, MessageQueues, MessageFields
  <2>3. CASE t \in expired \/ Replayed(t)
    <3>1. LeaveSession("aborted") /\ UNCHANGED <<rows, snapshot, hubVars, up, journal>>
      BY <1>4, <2>3 DEF RecvTask, Abort
    <3> QED
      BY <2>1, <3>1, LeaveKnown
  <2>4. CASE ~(t \in expired \/ Replayed(t))
    <3>1. /\ TakeMessage
          /\ journal' = [journal EXCEPT ![id] = [task |-> t, receipt |-> r]]
          /\ UNCHANGED <<rows, snapshot, hubVars, conn>>
          /\ InSession'
      BY <1>4, <2>4 DEF RecvTask, InSession
    <3>2. journal[id].task \in {t, NoTask}
      BY <2>4 DEF Replayed
    <3>3. /\ journal'[id].task = t
          /\ \A i \in TaskId : i # id => journal'[i] = journal[i]
      BY <2>2, <3>1 DEF TypeOK, JournalTypeOK
    <3>4. Heard => t \in Queued
      BY <1>w, <1>t, <2>1, MessageQueues, KnownFields
    <3>5. Heard => down' \in [Conn -> Seq(KnownDown)] /\ pending' \in Seq(KnownDown)
      BY <1>w, <1>t, <2>1, <3>1, MessageQueues
    <3>6. \E msgs : Emit(msgs) /\ \/ msgs = <<accept>>
                                  \/ r # NoReceipt /\ msgs = <<accept, [type |-> "receipt", receipt |-> r]>>
      BY <1>4, <2>4 DEF RecvTask
    <3>7. r # NoReceipt => r \in Receipt
      BY <2>2 DEF KnownReceipt, TypeOK, JournalTypeOK
    <3>8. idOf[t] = id
      OBVIOUS
    <3> HIDE DEF r, id, t
    <3>9. \A i \in TaskId : journal[i].task # NoTask => journal'[i].task = journal[i].task
      BY <3>2, <3>3
    <3>10. Queued' = Queued
      BY <3>1 DEF Queued, rows
    <3>11. OwnedUp \subseteq OwnedUp' /\ KnownDown' = KnownDown
      BY <3>9, <3>10, KnownGrows DEF KnownDown
    <3>12. RowsUnique'
      BY <1>r DEF Belonging, RowsUnique, rows
    <3>13. RowsClaimed'
      <4>1. \A u \in Task : journal[idOf[u]].task = u => journal'[idOf[u]].task = u
        BY <3>9
      <4> QED
        BY <1>r, <4>1 DEF Belonging, RowsClaimed, rows
    <3>14. JournalNames'
      BY <3>3, <3>8 DEF Belonging, JournalNames
    <3>15. up' \in [Conn -> Seq(OwnedUp')]
      <4>1. up \in [Conn -> Seq(OwnedUp')]
        BY <1>w, <3>11, QueueMono
      <4>2. CASE Heard
        <5>1. accept \in OwnedUp'
          BY <2>2, <3>3, <3>4, <3>10, <4>2, MessageTypes DEF OwnedUp, id
        <5>2. r # NoReceipt => [type |-> "receipt", receipt |-> r] \in OwnedUp'
          BY <3>7, MessageTypes DEF OwnedUp
        <5>3. PICK msgs \in Seq(OwnedUp') : Emit(msgs)
          BY <3>6, <5>1, <5>2, QueueParts
        <5> QED
          BY <4>1, <5>3, EmitQueues
      <4>3. CASE ~Heard
        BY <2>1, <3>6, <4>1, <4>3 DEF Emit, Heard
      <4> QED
        BY <4>2, <4>3
    <3>16. Heard' => Heard
      BY <2>1, <3>1 DEF Heard, hubVars
    <3>17. WiresKnown'
      BY <1>w, <1>x, <3>1, <3>5, <3>10, <3>11, <3>15, <3>16
         DEF Belonging, WiresKnown, hubVars
    <3> QED
      BY <3>12, <3>13, <3>14, <3>17 DEF Belonging
  <2> QED
    BY <2>3, <2>4
<1>5. CASE Execute
  <2>1. cur \in Task /\ idOf[cur] \in TaskId /\ runs + 1 \in 1 .. MaxRuns /\ InSession
    BY <1>5 DEF Execute, TypeOK, SessionTypeOK, CounterTypeOK, InSession
  <2>2. PICK r \in Receipt :
          /\ SaveReceipt(r)
          /\ Emit(<<[type |-> "receipt", receipt |-> r]>>)
    BY <1>5, <2>1, ReceiptFields DEF Execute
  <2>3. \A id \in TaskId : journal'[id].task = journal[id].task
    BY <2>2 DEF SaveReceipt, TypeOK, JournalTypeOK
  <2>4. Queued' = Queued
    BY <1>r DEF Queued, rows
  <2>5. OwnedUp' = OwnedUp /\ KnownDown' = KnownDown
    BY <2>3, <2>4, MessageFields DEF OwnedUp, KnownDown
  <2>6. RowsUnique' /\ RowsClaimed' /\ JournalNames'
    BY <1>r, <2>3 DEF Belonging, RowsUnique, RowsClaimed, JournalNames, rows
  <2>7. <<[type |-> "receipt", receipt |-> r]>> \in Seq(OwnedUp)
    BY KnownMessages, QueueParts
  <2>8. up' \in [Conn -> Seq(OwnedUp)]
    BY <2>1, <2>2, <2>7, EmitKnown DEF Belonging
  <2>9. InSession' /\ UNCHANGED <<hubVars, down, conn, pending>>
    BY <1>5 DEF Execute, InSession
  <2>10. Heard' => Heard
    BY <2>1, <2>9 DEF Heard, hubVars
  <2>11. WiresKnown'
    BY <1>w, <2>4, <2>5, <2>8, <2>9, <2>10 DEF Belonging, WiresKnown, hubVars
  <2> QED
    BY <2>6, <2>11 DEF Belonging
<1>6. CASE SetAside
  <2>1. /\ InSession /\ InSession' /\ TakeWire
        /\ \E type \in {"task", "receipt_state"} : OnWire(type)
        /\ pending' = Append(pending, Head(down[conn]))
        /\ UNCHANGED <<rows, snapshot, hubVars, conn, journal, up>>
    BY <1>6 DEF SetAside, InSession
  <2>2. Heard => down' \in [Conn -> Seq(KnownDown)] /\ Head(down[conn]) \in KnownDown
    BY <1>w, <1>t, <2>1, WireQueues
  <2>3. Heard => pending' \in Seq(KnownDown)
    BY <1>w, <2>1, <2>2
  <2> QED
    BY <1>w, <1>x, <2>1, <2>2, <2>3, AnswerKnown
<1>7. CASE RecvAck
  <2>1. /\ InSession /\ TakeWire /\ OnWire("ack") /\ Acknowledge(held)
        /\ held \in Receipt
        /\ UNCHANGED <<rows, snapshot, hubVars, conn, journal, pending>>
    BY <1>7 DEF RecvAck, InSession, TypeOK, SessionTypeOK
  <2>2. InSession' /\ Emit(<<[type |-> "receipt_ack", id |-> held.id]>>)
    BY <2>1 DEF Acknowledge, InSession
  <2>3. <<[type |-> "receipt_ack", id |-> held.id]>> \in Seq(OwnedUp)
    BY <2>1, KnownMessages, ReceiptFields, QueueParts
  <2>4. up' \in [Conn -> Seq(OwnedUp)]
    BY <2>1, <2>2, <2>3, EmitKnown DEF Belonging
  <2>5. Heard => down' \in [Conn -> Seq(KnownDown)]
    BY <1>w, <1>t, <2>1, WireQueues
  <2> QED
    BY <1>w, <1>x, <2>1, <2>2, <2>4, <2>5, AnswerKnown
<1>8. CASE RecvConfirmed
  <2>1. /\ InSession /\ InSession' /\ OnWire("receipt_confirmed") /\ TakeWire
        /\ UNCHANGED <<rows, snapshot, hubVars, conn, journal, up, pending>>
    BY <1>8 DEF RecvConfirmed, InSession
  <2>2. Heard => down' \in [Conn -> Seq(KnownDown)]
    BY <1>w, <1>t, <2>1, WireQueues
  <2> QED
    BY <1>w, <1>x, <2>1, <2>2, AnswerKnown
<1>9. CASE RecvError \/ Finish \/ SeesClose \/ IdleTimeout
  <2>1. \E next \in {"idle", "down", "done", "failed", "aborted"} : LeaveSession(next)
    BY <1>9 DEF RecvError, Finish, SeesClose, IdleTimeout, Abort, Retry
  <2>2. UNCHANGED <<rows, snapshot, hubVars, up, journal>> /\ InSession
    BY <1>9 DEF RecvError, Finish, SeesClose, IdleTimeout, Abort, Retry, InSession
  <2> QED
    BY <2>1, <2>2, LeaveKnown
<1> QED
  BY <1>1, <1>2, <1>3, <1>4, <1>5, <1>6, <1>7, <1>8, <1>9 DEF NodeStep

\* A step of the environment: a new row has a fresh identifier, and restored rows
\* are those of a snapshot, which were true when it was taken and still are, for
\* the journal is final.
LEMMA EnvironmentBelongs ==
  ASSUME TypeOK, Belonging,
         (\E t \in Task : Submit(t) \/ Expire(t)) \/ StartProcess \/ Fault
  PROVE  Belonging'
<1> USE DEF Belonging
<1>j. UNCHANGED journal
  BY DEF Submit, Expire, StartProcess, Fault, ConnectFails, CutLink, Crash,
         HubRestart, TakeSnapshot, RestoreSnapshot, HubStops
<1>n. JournalNames'
  BY <1>j DEF JournalNames
<1>1. CASE \E t \in Task : Submit(t)
  <2>1. PICK t \in Task : Submit(t)
    BY <1>1
  <2>2. /\ \A u \in Task : u # t => rowid'[u] = rowid[u]
        /\ \A u \in Queued : idOf[u] # idOf[t]
        /\ UNCHANGED <<accepted, stored, snapshot, hub, batch, up, down, conn, pc, pending>>
    BY <2>1 DEF Submit, Fresh, TypeOK, RelayTypeOK, hubVars, session
  <2>3. Queued \subseteq Queued'
    BY <2>2 DEF Queued
  <2>4. OwnedUp \subseteq OwnedUp' /\ KnownDown \subseteq KnownDown'
    BY <1>j, <2>3, KnownGrows
  <2>5. RowsUnique' /\ RowsClaimed'
    BY <1>j, <2>2 DEF RowsUnique, RowsClaimed, Queued
  <2>6. up' \in [Conn -> Seq(OwnedUp')]
    BY <2>2, <2>4, QueueMono DEF WiresKnown
  <2>7. Heard' = Heard /\ InSession' = InSession
    BY <2>2 DEF Heard, InSession
  <2>8. Heard => down' \in [Conn -> Seq(KnownDown')] /\ pending' \in Seq(KnownDown')
    BY <2>2, <2>4, QueueMono DEF WiresKnown
  <2>9. WiresKnown'
    BY <2>2, <2>3, <2>6, <2>7, <2>8 DEF WiresKnown
  <2> QED
    BY <1>n, <2>5, <2>9
<1>2. CASE (\E t \in Task : Expire(t)) \/ StartProcess \/ ConnectFails \/ CutLink
  <2>1. UNCHANGED <<rows, snapshot, hub, batch, up, down, conn, pending>>
    BY <1>2 DEF Expire, StartProcess, ConnectFails, CutLink, session, hubVars
  <2>2. InSession' = InSession
    BY <1>2 DEF Expire, StartProcess, ConnectFails, CutLink, session, InSession
  <2>3. Queued' = Queued /\ OwnedUp' = OwnedUp /\ KnownDown' = KnownDown
    BY <1>j, <2>1 DEF Queued, OwnedUp, KnownDown, rows
  <2>4. Heard' = Heard
    BY <2>1, <2>2 DEF Heard
  <2>5. WiresKnown'
    BY <2>1, <2>2, <2>3, <2>4 DEF WiresKnown
  <2> QED
    BY <1>j, <1>n, <2>1, <2>5 DEF RowsUnique, RowsClaimed, rows
<1>3. CASE Crash
  <2>1. InSession /\ LeaveSession("down") /\ UNCHANGED <<rows, snapshot, hubVars, up>>
    BY <1>3 DEF Crash
  <2> QED
    BY <1>j, <2>1, LeaveKnown
<1>4. CASE HubRestart \/ RestoreSnapshot
  <2>1. /\ \A c \in Conn : hub'[c] \in {"unused", "gone"}
        /\ \A c \in Conn : batch'[c] = {}
        /\ up' = [c \in Conn |-> <<>>]
        /\ UNCHANGED <<down, conn, pc, pending, snapshot>>
    BY <1>4 DEF HubRestart, RestoreSnapshot, HubStops, session
  <2>2. ~Heard'
    BY <2>1 DEF Heard, InSession, TypeOK, SessionTypeOK
  <2>3. up' \in [Conn -> Seq(OwnedUp')]
    BY <2>1, QueueParts
  <2>4. WiresKnown'
    BY <2>1, <2>2, <2>3 DEF WiresKnown, InSession
  <2>5. RowsUnique' /\ RowsClaimed'
    <3>1. CASE UNCHANGED rows
      BY <1>j, <2>1, <3>1 DEF RowsUnique, RowsClaimed, rows
    <3>2. CASE RestoreSnapshot
      BY <1>j, <2>1, <3>2 DEF RestoreSnapshot, RowsUnique, RowsClaimed
    <3> QED
      BY <1>4, <3>1, <3>2 DEF HubRestart
  <2> QED
    BY <1>n, <2>4, <2>5
<1>5. CASE TakeSnapshot
  <2>1. UNCHANGED <<rows, hub, batch, up, down, conn, pc, pending>> /\ snapshot' = Columns
    BY <1>5 DEF TakeSnapshot, session, hubVars
  <2>2. Queued' = Queued /\ OwnedUp' = OwnedUp /\ KnownDown' = KnownDown
    BY <1>j, <2>1 DEF Queued, OwnedUp, KnownDown, rows
  <2>3. WiresKnown'
    BY <2>1, <2>2 DEF WiresKnown, Heard, InSession
  <2>4. RowsUnique' /\ RowsClaimed'
    BY <1>j, <2>1 DEF RowsUnique, RowsClaimed, Columns, rows
  <2> QED
    BY <1>n, <2>3, <2>4
<1> QED
  BY <1>1, <1>2, <1>3, <1>4, <1>5 DEF Fault

\* The inductive invariant of the rows.
LEMMA BelongingInvariant == Spec => [](TypeOK /\ Agreement /\ Belonging)
<1>1. Init => Belonging
  <2> SUFFICES ASSUME Init PROVE Belonging
    OBVIOUS
  <2>1. RowsUnique /\ RowsClaimed /\ JournalNames
    BY DEF Init, RowsUnique, RowsClaimed, JournalNames, Columns, NoEntry
  <2>2. ~InSession /\ ~Heard
    BY DEF Init, InSession, Heard
  <2>3. WiresKnown
    BY <2>2, QueueParts DEF Init, WiresKnown
  <2> QED
    BY <2>1, <2>3 DEF Belonging
<1>2. TypeOK /\ TypeOK' /\ Agreement /\ Belonging /\ [Next]_vars => Belonging'
  <2> SUFFICES ASSUME TypeOK, TypeOK', Agreement, Belonging, [Next]_vars
               PROVE  Belonging'
    OBVIOUS
  <2>1. CASE (\E t \in Task : Submit(t) \/ Expire(t)) \/ StartProcess \/ Fault
    BY <2>1, EnvironmentBelongs
  <2>2. CASE \E c \in Conn : HubStep(c)
    BY <2>2, HubBelongs
  <2>3. CASE NodeStep
    BY <2>3, NodeBelongs
  <2>4. CASE UNCHANGED vars
    <3>1. Queued' = Queued /\ OwnedUp' = OwnedUp /\ KnownDown' = KnownDown
      BY <2>4 DEF vars, rows, Queued, OwnedUp, KnownDown
    <3>2. UNCHANGED <<hub, batch, up, down, conn, pc, pending>>
      BY <2>4 DEF vars, hubVars, session
    <3>3. Heard' = Heard /\ InSession' = InSession
      BY <3>2 DEF Heard, InSession
    <3>4. WiresKnown'
      BY <3>1, <3>2, <3>3 DEF Belonging, WiresKnown
    <3> QED
      BY <2>4, <3>4
         DEF vars, rows, Belonging, RowsUnique, RowsClaimed, JournalNames
  <2> QED
    BY <2>1, <2>2, <2>3, <2>4 DEF Next
<1> QED
  BY <1>1, <1>2, AgreementInvariant, PTL DEF Spec

\* The Relay's row of a task holds a receipt of that task, even when the snapshot
\* it was restored from had given its id to another task.
THEOREM ReceiptsBelong == Spec => []ReceiptBelongsToTask
<1>1. Init => RowsMatch
  BY DEF Init, RowsMatch, Columns
<1>2. TypeOK /\ Agreement /\ RowsMatch /\ [Next]_vars => RowsMatch'
  <2> SUFFICES ASSUME TypeOK, Agreement, RowsMatch, [Next]_vars PROVE RowsMatch'
    OBVIOUS
  <2>1. CASE UNCHANGED vars
    BY <2>1 DEF vars, rows, RowsMatch
  <2> QED
    BY <2>1, EnvironmentImplements, HubImplements, NodeImplements DEF Next
<1>3. Spec => []RowsMatch
  BY <1>1, <1>2, AgreementInvariant, PTL DEF Spec
<1>4. RowsMatch /\ Belonging => ReceiptBelongsToTask
  BY DEF RowsMatch, Belonging, RowsClaimed, ReceiptBelongsToTask
<1> QED
  BY <1>3, <1>4, BelongingInvariant, PTL

-----------------------------------------------------------------------------
(* RelayHub.connected                                                      *)

\* When the Relay sees each connection end before the next one, one handler at a
\* time serves the node: the flag it shares with the others is then its own.
OneServes ==
    /\ \A c, d \in Conn : /\ hub[c] \in {"waiting", "open"}
                          /\ hub[d] \in {"waiting", "open"}
                          => c = d
    /\ connected <=> \E c \in Conn : hub[c] = "open"

\* It is an invariant: the handler of the next connection finds every other gone.
LEMMA OneServesInvariant ==
  ASSUME PromptClose
  PROVE  Spec => []OneServes
<1>1. Init => OneServes
  BY DEF Init, OneServes
<1>2. TypeOK /\ OneServes /\ [Next]_vars => OneServes'
  <2> SUFFICES ASSUME TypeOK, OneServes, [Next]_vars PROVE OneServes'
    OBVIOUS
  <2> USE DEF OneServes, TypeOK, HubTypeOK
  <2>1. CASE UNCHANGED <<hub, connected>>
    BY <2>1
  <2>2. ASSUME NEW c \in Conn, HubStep(c)
        PROVE  OneServes'
    <3>1. CASE HubAuthenticate(c)
      BY <3>1 DEF HubAuthenticate
    <3>2. CASE HubRecvReceipt(c) \/ HubEnd(c)
      <4>1. UNCHANGED <<hub, connected>> \/ /\ hub' = [hub EXCEPT ![c] = "gone"]
                                            /\ Discard(c)
                                            /\ hub[c] \in {"waiting", "open"}
        BY <3>2 DEF HubRecvReceipt, Receives, HubEnd
      <4>2. hub[c] = "waiting" => ~connected
        OBVIOUS
      <4> QED
        BY <2>1, <4>1, <4>2 DEF Discard
    <3>3. CASE ~HubAuthenticate(c) /\ ~HubRecvReceipt(c) /\ ~HubEnd(c)
      BY <2>1, <2>2, <3>3 DEF HubStep, HubSendState, HubFetch, HubDeliver,
         HubRecvAccept, HubRecvReceiptAck, hubVars
    <3> QED
      BY <3>1, <3>2, <3>3
  <2>3. CASE Connect
    <3>1. \A c \in Conn : hub[c] \in {"unused", "gone"}
      BY <2>3 DEF Connect
    <3> QED
      BY <2>3, <3>1 DEF Connect
  <2>4. CASE HubRestart \/ RestoreSnapshot
    BY <2>4 DEF HubRestart, RestoreSnapshot, HubStops
  <2>5. CASE NodeStep /\ ~Connect
    BY <2>1, <2>5 DEF NodeStep, RecvAuthenticated, RecvReceiptState, RecvTask,
       Execute, SetAside, RecvAck, RecvConfirmed, RecvError, Finish, SeesClose,
       IdleTimeout, Retry, hubVars
  <2>6. CASE (\E t \in Task : Submit(t) \/ Expire(t)) \/ StartProcess
             \/ ConnectFails \/ CutLink \/ Crash \/ TakeSnapshot
    BY <2>1, <2>6 DEF Submit, Expire, StartProcess, ConnectFails, CutLink, Crash,
       TakeSnapshot, hubVars
  <2>7. CASE UNCHANGED vars
    BY <2>1, <2>7 DEF vars, hubVars
  <2> QED
    BY <2>2, <2>3, <2>4, <2>5, <2>6, <2>7 DEF Next, Fault
<1> QED
  BY <1>1, <1>2, Typing, PTL DEF Spec

\* A node that counts as connected has a handler; the next connection has none.
ConnectedHasHandler == connected => \E c \in Conn : hub[c] = "open"

HandlersInv ==
    /\ ConnectedHasHandler
    /\ \A c \in Conn : c > conns => hub[c] = "unused"

LEMMA NextHandlers == TypeOK /\ HandlersInv /\ [Next]_vars => HandlersInv'
<1> SUFFICES ASSUME TypeOK, HandlersInv, [Next]_vars PROVE HandlersInv'
  OBVIOUS
<1> USE DEF HandlersInv, ConnectedHasHandler, TypeOK, HubTypeOK
<1>1. CASE UNCHANGED <<hub, connected, conns>>
  BY <1>1
<1>2. ASSUME NEW c \in Conn, HubStep(c)
      PROVE  HandlersInv'
  <2>1. conns' = conns
    BY <1>2 DEF HubStep, HubAuthenticate, HubSendState, HubFetch, HubDeliver,
       HubRecvAccept, HubRecvReceipt, HubRecvReceiptAck, HubEnd, counters
  <2>2. CASE HubAuthenticate(c)
    BY <2>1, <2>2 DEF HubAuthenticate
  <2>3. CASE HubRecvReceipt(c) \/ HubEnd(c)
    <3>1. \/ UNCHANGED <<hub, connected>>
          \/ /\ hub' = [hub EXCEPT ![c] = "gone"] /\ hub[c] # "unused"
             /\ Discard(c)
      BY <2>3 DEF HubRecvReceipt, Receives, HubEnd
    <3>2. CASE /\ hub' = [hub EXCEPT ![c] = "gone"] /\ hub[c] # "unused"
               /\ Discard(c)
      <4>1. connected' => connected /\ hub[c] = "waiting"
        BY <3>2 DEF Discard
      <4>2. connected' => \E d \in Conn \ {c} : hub[d] = "open"
        BY <4>1
      <4> QED
        BY <2>1, <3>2, <4>2
    <3> QED
      BY <1>1, <2>1, <3>1, <3>2
  <2>4. CASE ~HubAuthenticate(c) /\ ~HubRecvReceipt(c) /\ ~HubEnd(c)
    BY <1>1, <1>2, <2>1, <2>4 DEF HubStep, HubSendState, HubFetch, HubDeliver,
       HubRecvAccept, HubRecvReceiptAck, hubVars
  <2> QED
    BY <2>2, <2>3, <2>4
<1>3. CASE Connect
  <2>1. /\ conns \in Nat /\ conns' = conns + 1 /\ connected' = connected
        /\ hub' = [hub EXCEPT ![conns + 1] = "waiting"]
        /\ conns + 1 \in Conn
    BY <1>3, ConstantsAssumption DEF Connect, Conn, CounterTypeOK
  <2>2. hub[conns + 1] = "unused"
    BY <2>1 DEF Conn
  <2>3. \A c \in Conn : c > conns' => hub'[c] = "unused"
    BY <2>1 DEF Conn
  <2>4. \A c \in Conn : hub[c] = "open" => hub'[c] = "open"
    BY <2>1, <2>2
  <2> QED
    BY <2>1, <2>3, <2>4
<1>4. CASE HubRestart \/ RestoreSnapshot
  BY <1>4 DEF HubRestart, RestoreSnapshot, HubStops
<1>5. CASE NodeStep /\ ~Connect
  BY <1>1, <1>5 DEF NodeStep, RecvAuthenticated, RecvReceiptState, RecvTask,
     Execute, SetAside, RecvAck, RecvConfirmed, RecvError, Finish, SeesClose,
     IdleTimeout, Retry, hubVars, counters
<1>6. CASE (\E t \in Task : Submit(t) \/ Expire(t)) \/ StartProcess
           \/ ConnectFails \/ CutLink \/ Crash \/ TakeSnapshot
  BY <1>1, <1>6 DEF Submit, Expire, StartProcess, ConnectFails, CutLink, Crash,
     TakeSnapshot, hubVars, counters
<1>7. CASE UNCHANGED vars
  BY <1>1, <1>7 DEF vars, hubVars, counters
<1> QED
  BY <1>2, <1>3, <1>4, <1>5, <1>6, <1>7 DEF Next, Fault

\* The count of connected nodes never exceeds what is served, however handlers
\* overlap and end: each removes the node as it ends, and one that comes later adds
\* it as it opens. The other direction fails where they overlap, for the handler
\* that ends late removes the node another one is serving.
THEOREM ConnectedAreServed == Spec => []ConnectedHasHandler
<1>1. Init => HandlersInv
  BY DEF Init, HandlersInv, ConnectedHasHandler
<1>2. HandlersInv => ConnectedHasHandler
  BY DEF HandlersInv
<1> QED
  BY <1>1, <1>2, NextHandlers, Typing, PTL DEF Spec

-----------------------------------------------------------------------------
(* What a session that reports success has confirmed                       *)

\* What is on its way to the session, the messages it set aside first.
Wire == pending \o down[conn]

\* A queue announces a receipt, and none of them twice.
Announces(q, r) ==
    \E i \in DOMAIN q : q[i].type = "receipt_state" /\ q[i].receipt = r
Once(q) ==
    \A i, j \in DOMAIN q :
      /\ q[i].type = "receipt_state"
      /\ q[j].type = "receipt_state"
      /\ q[i].receipt = q[j].receipt
      => i = j

\* Messages that are right about the rows.
ToldDown ==
    {m \in DownMsg :
       /\ m.type = "receipt_state" => \E t \in Task : stored[t] = m.receipt
       /\ m.type = "ack" => \E t \in Task : stored[t] # NoReceipt /\ idOf[t] = m.id
       /\ m.type = "receipt_confirmed" => \E t \in confirmed : idOf[t] = m.id}

\* A receipt the process has recorded and the Relay does not hold as confirmed,
\* but for the one that is being confirmed.
Unconfirmed(t) ==
    /\ t \notin confirmed
    /\ stored[t] \in receipts
    /\ ~(pc = "confirm" /\ stored[t] = held)

\* The tasks whose receipts the session must still confirm before it may end:
\* those it has recorded, and those the Relay has announced or is about to.
OwedTasks ==
    {t \in Task : /\ stored[t] # NoReceipt
                  /\ \/ Unconfirmed(t)
                     \/ t \in states[conn]
                     \/ Announces(Wire, stored[t])}

\* As long as no snapshot is restored, a receipt stays in its row, and a process
\* has recorded only receipts that are in a row.
ReceiptsKept ==
    /\ \A t \in Task : stored[t] # NoReceipt => rowid[t] > 0
    /\ \A t \in confirmed : stored[t] # NoReceipt
    /\ \A r \in receipts : \E t \in Task : stored[t] = r

\* A connection has a number of its own, and its handler has read nothing before
\* it authenticates the node.
ConnectionsNew ==
    /\ conn <= conns
    /\ \A c \in Conn : c > conns => hub[c] = "unused"
    /\ \A c \in Conn : hub[c] \in {"unused", "waiting"} => states[c] = {}

\* The count that the session waits for is at least that of the receipts it must
\* confirm: it is announced before anything else, and each announcement that is
\* served stands for one of them.
CountCovers ==
    InSession =>
      /\ Wire \in Seq(ToldDown)
      /\ Once(Wire)
      /\ \A t \in states[conn] : ~Announces(Wire, stored[t])
      /\ pc = "auth" =>
           /\ pending = <<>>
           /\ hub[conn] = "waiting" => Wire = <<>>
           /\ Wire # <<>> /\ Head(Wire).type = "authenticated"
                => Cardinality(OwedTasks) <= Head(Wire).count
      /\ pc # "auth" => /\ hub[conn] # "waiting"
                        /\ Cardinality(OwedTasks) <= owed

Confirming == ReceiptsKept /\ ConnectionsNew /\ CountCovers /\ DoneIsConfirmed

\* A part of a finite set is no larger, and smaller without an element.
LEMMA OwedCount ==
  ASSUME NEW S \in SUBSET Task, NEW T \in SUBSET Task
  PROVE  /\ Cardinality(T) \in Nat
         /\ T = {} <=> Cardinality(T) = 0
         /\ S \subseteq T => Cardinality(S) <= Cardinality(T)
         /\ \A t \in T : S \subseteq T \ {t} => Cardinality(S) + 1 <= Cardinality(T)
<1>1. IsFiniteSet(S) /\ IsFiniteSet(T)
  BY FS_Subset
<1>2. Cardinality(S) \in Nat /\ Cardinality(T) \in Nat
  BY <1>1, FS_CardinalityType
<1>3. ASSUME S \subseteq T PROVE Cardinality(S) <= Cardinality(T)
  BY <1>1, <1>3, FS_Subset
<1>4. ASSUME NEW t \in T, S \subseteq T \ {t} PROVE Cardinality(S) + 1 <= Cardinality(T)
  <2>1. IsFiniteSet(T \ {t}) /\ Cardinality(T \ {t}) = Cardinality(T) - 1
    BY <1>1, FS_RemoveElement
  <2>2. Cardinality(S) <= Cardinality(T \ {t})
    BY <1>4, <2>1, FS_Subset
  <2> QED
    BY <1>2, <2>1, <2>2
<1>5. T = {} <=> Cardinality(T) = 0
  BY <1>1, FS_EmptySet
<1> QED
  BY <1>2, <1>3, <1>4, <1>5

\* The queues of the session, as one: what joins its end, what leaves its head,
\* and what is set aside.
LEMMA WireAppends ==
  ASSUME NEW S, NEW p \in Seq(S), NEW d \in Seq(S), NEW m \in S
  PROVE  p \o Append(d, m) = Append(p \o d, m)
OBVIOUS

LEMMA WireHeads ==
  ASSUME NEW S, NEW p \in Seq(S), NEW d \in Seq(S), p # <<>>
  PROVE  Head(p \o d) = Head(p) /\ Tail(p \o d) = Tail(p) \o d /\ p \o d # <<>>
OBVIOUS

LEMMA WireEmpty ==
  ASSUME NEW S, NEW d \in Seq(S)
  PROVE  <<>> \o d = d
OBVIOUS

LEMMA WireMoves ==
  ASSUME NEW S, NEW p \in Seq(S), NEW d \in Seq(S), d # <<>>
  PROVE  Append(p, Head(d)) \o Tail(d) = p \o d
<1> DEFINE l == Append(p, Head(d)) \o Tail(d)
<1>1. /\ Len(d) \in Nat \ {0} /\ Len(p) \in Nat
      /\ Head(d) = d[1] /\ Tail(d) \in Seq(S) /\ Len(Tail(d)) = Len(d) - 1
      /\ \A i \in 1 .. (Len(d) - 1) : Tail(d)[i] = d[i + 1]
      /\ Append(p, Head(d)) \in Seq(S) /\ Len(Append(p, Head(d))) = Len(p) + 1
  OBVIOUS
<1>2. l \in Seq(S) /\ p \o d \in Seq(S)
  BY <1>1
<1>3. Len(l) = Len(p) + Len(d) /\ Len(p \o d) = Len(p) + Len(d)
  BY <1>1
<1>4. ASSUME NEW i \in 1 .. (Len(p) + Len(d)) PROVE l[i] = (p \o d)[i]
  <2>1. CASE i <= Len(p)
    BY <1>1, <2>1
  <2>2. CASE i = Len(p) + 1
    BY <1>1, <2>2
  <2>3. CASE i > Len(p) + 1
    <3>1. i - (Len(p) + 1) \in 1 .. (Len(d) - 1)
      BY <1>1, <2>3
    <3>2. l[i] = Tail(d)[i - (Len(p) + 1)]
      BY <1>1, <2>3
    <3>3. l[i] = d[i - Len(p)]
      BY <1>1, <3>1, <3>2
    <3> QED
      BY <1>1, <2>3, <3>3
  <2> QED
    BY <1>1, <2>1, <2>2, <2>3
<1> HIDE DEF l
<1>5. l = p \o d
  BY <1>2, <1>3, <1>4, SeqEqual
<1> QED
  BY <1>5 DEF l

\* A message that joins a queue.
LEMMA WireGrows ==
  ASSUME NEW S, NEW q \in Seq(S), NEW m \in S
  PROVE  /\ \A r : Announces(Append(q, m), r)
                     <=> Announces(q, r) \/ (m.type = "receipt_state" /\ m.receipt = r)
         /\ Once(q) /\ (m.type = "receipt_state" => ~Announces(q, m.receipt))
              => Once(Append(q, m))
<1>1. /\ DOMAIN q = 1 .. Len(q) /\ Len(q) \in Nat
      /\ DOMAIN Append(q, m) = 1 .. (Len(q) + 1)
      /\ \A i \in 1 .. Len(q) : Append(q, m)[i] = q[i]
      /\ Append(q, m)[Len(q) + 1] = m
  OBVIOUS
<1>2. DOMAIN Append(q, m) = DOMAIN q \cup {Len(q) + 1} /\ Len(q) + 1 \notin DOMAIN q
  BY <1>1
<1>3. \A r : Announces(Append(q, m), r)
               <=> Announces(q, r) \/ (m.type = "receipt_state" /\ m.receipt = r)
  BY <1>1, <1>2 DEF Announces
<1>4. Once(q) /\ (m.type = "receipt_state" => ~Announces(q, m.receipt))
        => Once(Append(q, m))
  BY <1>1, <1>2 DEF Announces, Once
<1> QED
  BY <1>3, <1>4

\* A message that leaves it.
LEMMA WireShrinks ==
  ASSUME NEW S, NEW q \in Seq(S), q # <<>>
  PROVE  /\ \A r : Announces(Tail(q), r) => Announces(q, r)
         /\ Once(q) => Once(Tail(q))
         /\ Head(q).type = "receipt_state" => Announces(q, Head(q).receipt)
         /\ Head(q).type = "receipt_state" /\ Once(q) => ~Announces(Tail(q), Head(q).receipt)
<1>1. /\ Len(q) \in Nat \ {0} /\ DOMAIN q = 1 .. Len(q) /\ Head(q) = q[1]
      /\ DOMAIN Tail(q) = 1 .. (Len(q) - 1)
      /\ \A i \in 1 .. (Len(q) - 1) : Tail(q)[i] = q[i + 1]
  OBVIOUS
<1>2. \A i \in DOMAIN Tail(q) : i + 1 \in DOMAIN q /\ i + 1 # 1
  BY <1>1
<1>3. 1 \in DOMAIN q
  BY <1>1
<1>4. \A r : Announces(Tail(q), r) => Announces(q, r)
  BY <1>1, <1>2 DEF Announces
<1>5. Once(q) => Once(Tail(q))
  <2> SUFFICES ASSUME Once(q), NEW i \in DOMAIN Tail(q), NEW j \in DOMAIN Tail(q),
                      Tail(q)[i].type = "receipt_state",
                      Tail(q)[j].type = "receipt_state",
                      Tail(q)[i].receipt = Tail(q)[j].receipt
               PROVE  i = j
    BY DEF Once
  <2>1. i + 1 = j + 1
    BY <1>1, <1>2 DEF Once
  <2> QED
    BY <1>1, <2>1
<1>6. Head(q).type = "receipt_state" => Announces(q, Head(q).receipt)
  BY <1>1, <1>3 DEF Announces
<1>7. Head(q).type = "receipt_state" /\ Once(q) => ~Announces(Tail(q), Head(q).receipt)
  BY <1>1, <1>2, <1>3 DEF Announces, Once
<1> QED
  BY <1>4, <1>5, <1>6, <1>7

\* What the invariants proved so far say of the receipts in the rows.
Grounds == TypeOK /\ Agreement /\ Belonging /\ ReceiptBelongsToTask

\* A receipt is in one row, that of its task, and the row of a recorded or
\* announced receipt is found by its identifier.
LEMMA StoredOnce ==
  ASSUME Grounds
  PROVE  /\ \A t, u \in Task : stored[t] # NoReceipt /\ stored[t] = stored[u] => t = u
         /\ \A t \in Task, r \in Receipt :
              stored[t] # NoReceipt /\ Journaled(r) /\ r.id = idOf[t] => stored[t] = r
<1>1. \A t \in Task : stored[t] # NoReceipt =>
        /\ stored[t].id = idOf[t]
        /\ journal[idOf[t]].task = t
        /\ journal[idOf[t]].receipt = stored[t]
  BY DEF Grounds, ReceiptBelongsToTask, Agreement, RowsAgree, Journaled
<1> QED
  BY <1>1 DEF Journaled

\* As long as receipts stay where they are, what was told stays right.
LEMMA ToldGrows ==
  ASSUME \A t \in Task : stored[t] # NoReceipt => stored'[t] = stored[t],
         confirmed \subseteq confirmed'
  PROVE  ToldDown \subseteq ToldDown'
<1> SUFFICES ASSUME NEW m \in ToldDown PROVE m \in ToldDown'
  OBVIOUS
<1>1. m \in DownMsg
  BY DEF ToldDown
<1>2. ASSUME m.type = "receipt_state" PROVE \E t \in Task : stored'[t] = m.receipt
  <2>1. m.receipt # NoReceipt
    BY <1>1, <1>2, MessageFields
  <2> QED
    BY <1>2, <2>1 DEF ToldDown
<1>3. ASSUME m.type = "ack"
      PROVE  \E t \in Task : stored'[t] # NoReceipt /\ idOf[t] = m.id
  BY <1>3 DEF ToldDown
<1>4. ASSUME m.type = "receipt_confirmed" PROVE \E t \in confirmed' : idOf[t] = m.id
  BY <1>4 DEF ToldDown
<1> QED
  BY <1>1, <1>2, <1>3, <1>4 DEF ToldDown

\* What is told of the rows in a queue.
LEMMA ToldQueue ==
  ASSUME NEW q \in Seq(ToldDown), NEW r, Announces(q, r)
  PROVE  r \in Receipt /\ \E t \in Task : stored[t] = r
<1>1. PICK i \in DOMAIN q : q[i].type = "receipt_state" /\ q[i].receipt = r
  BY DEF Announces
<1>2. q[i] \in ToldDown
  OBVIOUS
<1> QED
  BY <1>1, <1>2, MessageFields DEF ToldDown

\* A receipt that is stored anew is neither recorded nor announced: the tasks
\* that are owed are about receipts that were there.
LEMMA OwedBefore ==
  ASSUME Grounds, Grounds', ReceiptsKept,
         \A t \in Task : stored[t] # NoReceipt => stored'[t] = stored[t],
         confirmed \subseteq confirmed',
         UNCHANGED <<pc, held, receipts>>, NEW u \in Task, stored'[u] # NoReceipt
  PROVE  /\ Unconfirmed(u)' => Unconfirmed(u) /\ stored'[u] = stored[u]
         /\ \A q \in Seq(ToldDown) : Announces(q, stored'[u]) => stored'[u] = stored[u]
<1>1. ASSUME \E t \in Task : stored[t] = stored'[u] PROVE stored'[u] = stored[u]
  <2>1. PICK t \in Task : stored[t] = stored'[u]
    BY <1>1
  <2>2. stored'[t] = stored'[u] /\ stored'[t] # NoReceipt
    BY <2>1
  <2>3. t = u
    <3>1. \A v \in Task : stored'[v] # NoReceipt
                           => stored'[v].id = idOf[v] /\ journal'[idOf[v]].task = v
      BY DEF Grounds, ReceiptBelongsToTask
    <3> QED
      BY <2>2, <3>1
  <2> QED
    BY <2>1, <2>3
<1>2. Unconfirmed(u)' => Unconfirmed(u) /\ stored'[u] = stored[u]
  <2> SUFFICES ASSUME Unconfirmed(u)' PROVE Unconfirmed(u) /\ stored'[u] = stored[u]
    OBVIOUS
  <2>1. u \notin confirmed' /\ stored'[u] \in receipts
        /\ ~(pc = "confirm" /\ stored'[u] = held)
    BY DEF Unconfirmed
  <2>2. stored'[u] = stored[u]
    BY <1>1, <2>1 DEF ReceiptsKept
  <2> QED
    BY <2>1, <2>2 DEF Unconfirmed
<1>3. \A q \in Seq(ToldDown) : Announces(q, stored'[u]) => stored'[u] = stored[u]
  BY <1>1, ToldQueue
<1> QED
  BY <1>2, <1>3

\* A step of another actor than the session, which tells it nothing new of the
\* receipts it must confirm, keeps the count.
LEMMA CoverKept ==
  ASSUME Grounds, Grounds', ReceiptsKept, CountCovers,
         \A t \in Task : stored[t] # NoReceipt => stored'[t] = stored[t],
         confirmed \subseteq confirmed',
         UNCHANGED <<pc, held, receipts, conn, owed, pending>>,
         InSession =>
           /\ states'[conn] \subseteq states[conn]
           /\ hub'[conn] = "waiting" => hub[conn] = "waiting" /\ Wire' = Wire
           /\ \/ Wire' = Wire
              \/ \E m \in ToldDown' :
                   /\ Wire' = Append(Wire, m)
                   /\ m.type \notin {"receipt_state", "authenticated"}
  PROVE  CountCovers'
<1> SUFFICES ASSUME InSession PROVE CountCovers'
  BY DEF CountCovers, InSession
<1>0. InSession' /\ conn \in Conn /\ conn' = conn
  BY DEF InSession, Grounds, TypeOK, SessionTypeOK
<1>1. /\ Wire \in Seq(ToldDown)
      /\ Once(Wire)
      /\ \A t \in states[conn] : ~Announces(Wire, stored[t])
  BY DEF CountCovers
<1>2. ToldDown \subseteq ToldDown'
  BY ToldGrows
<1>3. /\ Wire' \in Seq(ToldDown')
      /\ Once(Wire')
      /\ \A r : Announces(Wire', r) <=> Announces(Wire, r)
      /\ Wire' # <<>> /\ Head(Wire').type = "authenticated"
           => Wire # <<>> /\ Head(Wire') = Head(Wire)
  <2>1. Wire \in Seq(ToldDown')
    BY <1>1, <1>2, QueueMono
  <2>2. CASE Wire' = Wire
    BY <1>1, <2>1, <2>2
  <2>3. ASSUME NEW m \in ToldDown', Wire' = Append(Wire, m),
               m.type \notin {"receipt_state", "authenticated"}
        PROVE  <1>3
    <3>1. Wire' \in Seq(ToldDown')
      BY <2>1, <2>3
    <3>2. Once(Wire') /\ \A r : Announces(Wire', r) <=> Announces(Wire, r)
      BY <1>1, <2>1, <2>3, WireGrows
    <3>3. Wire = <<>> => Head(Wire') = m
      BY <2>1, <2>3
    <3>4. Wire # <<>> => Head(Wire') = Head(Wire)
      BY <2>1, <2>3
    <3> QED
      BY <2>3, <3>1, <3>2, <3>3, <3>4
  <2> QED
    BY <2>2, <2>3
<1>4. OwedTasks' \subseteq OwedTasks
  <2> SUFFICES ASSUME NEW u \in OwedTasks' PROVE u \in OwedTasks
    OBVIOUS
  <2>1. /\ u \in Task
        /\ stored'[u] # NoReceipt
        /\ \/ Unconfirmed(u)'
           \/ u \in states[conn]
           \/ Announces(Wire', stored'[u])
    BY <1>0 DEF OwedTasks
  <2>2. u \in states[conn] => stored[u] # NoReceipt
    BY <1>0 DEF Grounds, TypeOK, HubTypeOK
  <2> QED
    BY <1>1, <1>3, <2>1, <2>2, OwedBefore DEF OwedTasks
<1>5. Cardinality(OwedTasks') <= Cardinality(OwedTasks) /\ Cardinality(OwedTasks) \in Nat
      /\ Cardinality(OwedTasks') \in Nat
  BY <1>4, OwedCount DEF OwedTasks
<1>6. \A t \in states'[conn] : ~Announces(Wire', stored'[t])
  <2> SUFFICES ASSUME NEW t \in states'[conn] PROVE ~Announces(Wire', stored'[t])
    OBVIOUS
  <2>1. t \in states[conn] /\ t \in Task /\ stored[t] # NoReceipt
    BY <1>0 DEF Grounds, TypeOK, HubTypeOK
  <2> QED
    BY <1>1, <1>3, <2>1
<1>7. owed' = owed /\ pc' = pc /\ pending' = pending /\ owed \in Nat
  BY DEF Grounds, TypeOK, CounterTypeOK
<1>8. ASSUME Wire' # <<>>, Head(Wire').type = "authenticated"
      PROVE  Head(Wire').count \in Nat /\ Head(Wire') = Head(Wire)
  <2>1. Head(Wire') \in ToldDown'
    BY <1>3, <1>8, QueueParts
  <2> QED
    BY <1>3, <1>8, <2>1, MessageFields DEF ToldDown
<1>9. (pc = "auth" =>
        /\ pending = <<>>
        /\ hub[conn] = "waiting" => Wire = <<>>
        /\ Wire # <<>> /\ Head(Wire).type = "authenticated"
             => Cardinality(OwedTasks) <= Head(Wire).count)'
  BY <1>0, <1>3, <1>5, <1>7, <1>8 DEF CountCovers
<1>10. (pc # "auth" => hub[conn] # "waiting" /\ Cardinality(OwedTasks) <= owed)'
  BY <1>0, <1>5, <1>7 DEF CountCovers
<1> QED
  BY <1>0, <1>3, <1>6, <1>9, <1>10 DEF CountCovers

\* What a handler sends joins the queue of its session, if it is the current one.
LEMMA ReplyJoins ==
  ASSUME TypeOK, InSession, UNCHANGED <<pending, conn>>, NEW c \in Conn, NEW m \in DownMsg,
         Reply(c, m)
  PROVE  \/ Wire' = Wire
         \/ c = conn /\ Wire' = Append(Wire, m)
<1>1. pending \in Seq(DownMsg) /\ down[conn] \in Seq(DownMsg) /\ conn \in Conn
      /\ down \in [Conn -> Seq(DownMsg)]
  BY DEF TypeOK, WireTypeOK, SessionTypeOK
<1>2. CASE c = conn /\ c \notin cut
  <2>1. down'[conn] = Append(down[conn], m)
    BY <1>1, <1>2 DEF Reply
  <2>2. pending \o Append(down[conn], m) = Append(pending \o down[conn], m)
    BY SMTT(30), <1>1, WireAppends
  <2> QED
    BY <1>1, <1>2, <2>1, <2>2 DEF Wire
<1>3. CASE ~(c = conn /\ c \notin cut)
  <2>1. down'[conn] = down[conn]
    BY <1>1, <1>3 DEF Reply
  <2> QED
    BY <2>1 DEF Wire
<1> QED
  BY <1>2, <1>3

\* A handler's step keeps every receipt and every confirmation.
LEMMA HubGrows ==
  ASSUME TypeOK, ReceiptsKept, NEW c \in Conn, HubStep(c)
  PROVE  /\ \A t \in Task : stored[t] # NoReceipt => stored'[t] = stored[t]
         /\ \A t \in Task : stored'[t] # stored[t] => rowid[t] > 0
         /\ confirmed \subseteq confirmed'
         /\ \A t \in confirmed' : stored'[t] # NoReceipt
         /\ UNCHANGED <<rowid, conns>>
         /\ UNCHANGED session
<1> USE DEF TypeOK, RelayTypeOK, ReceiptsKept
<1>1. CASE HubRecvReceipt(c)
  BY <1>1 DEF HubRecvReceipt, RowsFor, Queued, counters
<1>2. CASE HubRecvReceiptAck(c)
  BY <1>2 DEF HubRecvReceiptAck, RowsFor, Queued, StoredRows, counters
<1>3. CASE ~HubRecvReceipt(c) /\ ~HubRecvReceiptAck(c)
  <2>1. UNCHANGED <<stored, confirmed, rowid, session, conns>>
    BY <1>3 DEF HubStep, HubAuthenticate, HubSendState, HubFetch, HubDeliver,
                HubRecvAccept, HubEnd, rows, counters
  <2> QED
    BY <2>1
<1> QED
  BY <1>1, <1>2, <1>3

\* A handler authenticates the session: the count it announces is that of all the
\* receipts which are not confirmed, and these are all the session will owe.
LEMMA AuthenticateCovers ==
  ASSUME Grounds, ReceiptsKept, ConnectionsNew, CountCovers, InSession,
         HubAuthenticate(conn)
  PROVE  CountCovers'
<1>0. conn \in Conn /\ conn \in DOMAIN hub /\ hub[conn] = "waiting"
      /\ UNCHANGED <<pc, conn, pending, held, receipts, owed, stored, confirmed, rowid>>
  BY DEF HubAuthenticate, Grounds, TypeOK, SessionTypeOK, HubTypeOK, session, rows
<1>1. InSession' /\ pc = "auth" /\ pending = <<>> /\ Wire = <<>> /\ pc' = "auth"
  BY <1>0 DEF CountCovers, InSession
<1> DEFINE m == [type |-> "authenticated", count |-> Cardinality(StoredRows)]
<1>2. StoredRows \in SUBSET Task /\ Cardinality(StoredRows) \in Nat
  BY CountIsNat DEF StoredRows, Queued
<1>3. m \in DownMsg /\ m \in ToldDown' /\ m.type = "authenticated"
      /\ m.count = Cardinality(StoredRows)
  BY <1>2, MessageTypes DEF ToldDown
<1>4. Reply(conn, m) /\ states'[conn] = StoredRows /\ hub'[conn] = "open"
  BY <1>0 DEF HubAuthenticate, Grounds, TypeOK, HubTypeOK
<1> HIDE DEF m
<1>5. Wire' = <<>> \/ Wire' = <<m>>
  <2>1. Wire' = Wire \/ Wire' = Append(Wire, m)
    BY <1>0, <1>3, <1>4, ReplyJoins DEF Grounds
  <2> QED
    BY <1>1, <2>1
<1>6. /\ Wire' \in Seq(ToldDown')
      /\ Once(Wire')
      /\ \A r : ~Announces(Wire', r)
      /\ Wire' # <<>> => Head(Wire') = m
  <2>1. /\ <<>> \in Seq(ToldDown') /\ <<m>> \in Seq(ToldDown') /\ Head(<<m>>) = m
        /\ DOMAIN <<m>> = {1} /\ <<m>>[1] = m
    BY <1>3
  <2>2. CASE Wire' = <<>>
    BY <2>1, <2>2 DEF Once, Announces
  <2>3. CASE Wire' = <<m>>
    BY <1>3, <2>1, <2>3 DEF Once, Announces
  <2> QED
    BY <1>5, <2>2, <2>3
<1>7. OwedTasks' \subseteq StoredRows
  <2> SUFFICES ASSUME NEW u \in OwedTasks' PROVE u \in StoredRows
    OBVIOUS
  <2>1. u \in Task /\ stored[u] # NoReceipt /\ (Unconfirmed(u)' \/ u \in StoredRows)
    BY <1>0, <1>4, <1>6 DEF OwedTasks
  <2>2. rowid[u] > 0
    BY <2>1 DEF ReceiptsKept
  <2> QED
    BY <1>0, <2>1, <2>2 DEF Unconfirmed, StoredRows, Queued
<1>8. Cardinality(OwedTasks') <= Cardinality(StoredRows)
  BY <1>2, <1>7, OwedCount
<1> QED
  BY <1>0, <1>1, <1>3, <1>4, <1>6, <1>8 DEF CountCovers

\* A handler announces a receipt it has read: the session owed it already.
LEMMA SendStateCovers ==
  ASSUME Grounds, ReceiptsKept, CountCovers, InSession, HubSendState(conn)
  PROVE  CountCovers'
<1>0. conn \in Conn /\ hub[conn] = "open"
      /\ UNCHANGED <<pc, conn, pending, held, receipts, owed, stored, confirmed, hub>>
  BY DEF HubSendState, Grounds, TypeOK, SessionTypeOK, session, rows
<1>1. PICK t \in states[conn] :
        /\ states' = [states EXCEPT ![conn] = @ \ {t}]
        /\ Reply(conn, [type |-> "receipt_state", receipt |-> stored[t]])
  BY DEF HubSendState
<1> DEFINE m == [type |-> "receipt_state", receipt |-> stored[t]]
<1>2. t \in Task /\ stored[t] # NoReceipt /\ stored[t] \in Receipt
      /\ states'[conn] = states[conn] \ {t} /\ states[conn] \subseteq Task
      /\ \A u \in states[conn] : stored[u] # NoReceipt
  BY <1>0, <1>1 DEF Grounds, TypeOK, HubTypeOK, RelayTypeOK
<1>3. /\ m \in DownMsg /\ m \in ToldDown /\ m.type = "receipt_state"
      /\ m.receipt = stored[t] /\ Reply(conn, m)
  BY <1>1, <1>2, MessageTypes DEF ToldDown
<1> HIDE DEF m
<1>4. InSession' /\ ToldDown' = ToldDown
  BY <1>0 DEF InSession, ToldDown
<1>5. /\ Wire \in Seq(ToldDown)
      /\ Once(Wire)
      /\ \A u \in states[conn] : ~Announces(Wire, stored[u])
  BY DEF CountCovers
<1>6. /\ Wire' \in Seq(ToldDown)
      /\ Once(Wire')
      /\ \A r : Announces(Wire', r) => Announces(Wire, r) \/ r = stored[t]
      /\ Wire' # <<>> /\ Head(Wire').type = "authenticated"
           => Wire # <<>> /\ Head(Wire') = Head(Wire)
  <2>1. CASE Wire' = Wire
    BY <1>5, <2>1
  <2>2. CASE Wire' = Append(Wire, m)
    <3>1. ~Announces(Wire, m.receipt)
      BY <1>3, <1>5
    <3>2. Wire' \in Seq(ToldDown)
      BY <1>3, <1>5, <2>2
    <3>3. Once(Wire') /\ \A r : Announces(Wire', r) => Announces(Wire, r) \/ r = stored[t]
      BY <1>3, <1>5, <2>2, <3>1, WireGrows
    <3>4. Wire = <<>> => Head(Wire') = m
      BY <1>3, <1>5, <2>2
    <3>5. Wire # <<>> => Head(Wire') = Head(Wire)
      BY <1>3, <1>5, <2>2
    <3> QED
      BY <1>3, <3>2, <3>3, <3>4, <3>5
  <2>3. Wire' = Wire \/ Wire' = Append(Wire, m)
    BY <1>0, <1>3, ReplyJoins DEF Grounds
  <2> QED
    BY <2>1, <2>2, <2>3
<1>7. \A u \in Task : stored[u] = stored[t] => u = t
  BY <1>2, StoredOnce
<1>8. OwedTasks' \subseteq OwedTasks
  <2> SUFFICES ASSUME NEW u \in OwedTasks' PROVE u \in OwedTasks
    OBVIOUS
  <2>1. /\ u \in Task /\ stored[u] # NoReceipt
        /\ \/ Unconfirmed(u)
           \/ u \in states[conn]
           \/ Announces(Wire', stored[u])
    BY <1>0, <1>2 DEF OwedTasks, Unconfirmed
  <2> QED
    BY <1>6, <1>7, <2>1 DEF OwedTasks
<1>9. Cardinality(OwedTasks') <= Cardinality(OwedTasks) /\ Cardinality(OwedTasks) \in Nat
      /\ Cardinality(OwedTasks') \in Nat
  BY <1>8, OwedCount DEF OwedTasks
<1>10. \A u \in states'[conn] : ~Announces(Wire', stored'[u])
  BY <1>0, <1>2, <1>5, <1>6, <1>7
<1>11. ASSUME Wire' # <<>>, Head(Wire').type = "authenticated"
       PROVE  Head(Wire').count \in Nat /\ Head(Wire') = Head(Wire)
  <2>1. Head(Wire') \in ToldDown
    BY <1>6, <1>11, QueueParts
  <2> QED
    BY <1>6, <1>11, <2>1, MessageFields DEF ToldDown
<1>12. owed \in Nat
  BY DEF Grounds, TypeOK, CounterTypeOK
<1> QED
  BY <1>0, <1>4, <1>6, <1>9, <1>10, <1>11, <1>12 DEF CountCovers

\* A handler's step.
LEMMA HubConfirms ==
  ASSUME Grounds, Grounds', Confirming, NEW c \in Conn, HubStep(c)
  PROVE  Confirming'
<1> USE DEF Confirming
<1>1. /\ \A t \in Task : stored[t] # NoReceipt => stored'[t] = stored[t]
      /\ \A t \in Task : stored'[t] # stored[t] => rowid[t] > 0
      /\ confirmed \subseteq confirmed'
      /\ \A t \in confirmed' : stored'[t] # NoReceipt
      /\ UNCHANGED <<rowid, conns, pc, held, receipts, conn, owed, pending>>
  BY HubGrows DEF Grounds, session
<1>t. TypeOK /\ TypeOK'
  BY DEF Grounds
<1>2. \A r \in receipts, t \in Task : stored[t] = r => stored'[t] = r
  BY <1>1, <1>t DEF TypeOK, SessionTypeOK
<1>3. ReceiptsKept'
  BY <1>1, <1>2 DEF ReceiptsKept
<1>4. DoneIsConfirmed'
  <2>1. confirmed \subseteq Task
    BY <1>t DEF TypeOK, RelayTypeOK
  <2> QED
    BY <1>1, <1>2, <2>1 DEF DoneIsConfirmed
<1>5. ConnectionsNew'
  <2>1. /\ \A d \in Conn : hub'[d] # hub[d] => hub[d] \in {"waiting", "open"} /\ hub'[d] \in {"open", "gone"}
        /\ \A d \in Conn : states'[d] # states[d] => hub'[d] \in {"open", "gone"}
    BY <1>t DEF HubStep, HubAuthenticate, HubSendState, HubFetch, HubDeliver, HubRecvAccept,
       HubRecvReceipt, HubRecvReceiptAck, HubEnd, Receives, hubVars, TypeOK, HubTypeOK
  <2> QED
    BY <1>1, <2>1 DEF ConnectionsNew
<1>6. CountCovers'
  <2> SUFFICES ASSUME InSession PROVE CountCovers'
    BY <1>1 DEF CountCovers, InSession
  <2>c. conn \in Conn
    BY <1>t DEF TypeOK, SessionTypeOK
  <2>1. CASE c = conn /\ HubAuthenticate(c)
    BY <2>1, AuthenticateCovers
  <2>2. CASE c = conn /\ HubSendState(c)
    BY <2>2, SendStateCovers
  <2>3. CASE ~(c = conn /\ (HubAuthenticate(c) \/ HubSendState(c)))
    <3>1. states'[conn] \subseteq states[conn]
      BY <2>3, <2>c, <1>t DEF HubStep, HubAuthenticate, HubSendState, HubFetch, HubDeliver,
         HubRecvAccept, HubRecvReceipt, HubRecvReceiptAck, HubEnd, hubVars, TypeOK, HubTypeOK
    <3>2. hub'[conn] = "waiting" => hub[conn] = "waiting"
      BY <2>3, <2>c, <1>t DEF HubStep, HubAuthenticate, HubSendState, HubFetch, HubDeliver,
         HubRecvAccept, HubRecvReceipt, HubRecvReceiptAck, HubEnd, Receives, hubVars,
         TypeOK, HubTypeOK
    <3> DEFINE Joins == \E m \in ToldDown' : /\ c = conn
                                             /\ Wire' = Append(Wire, m)
                                             /\ m.type \notin {"receipt_state", "authenticated"}
    <3>3. ASSUME NEW m \in ToldDown', Reply(c, m),
                 c = conn => m.type \notin {"receipt_state", "authenticated"}
          PROVE  Wire' = Wire \/ Joins
      <4>1. m \in DownMsg
        BY <3>3 DEF ToldDown
      <4> QED
        BY <1>1, <1>t, <3>3, <4>1, ReplyJoins
    <3>e. [type |-> "error"] \in ToldDown'
      BY MessageTypes DEF ToldDown
    <3>4. Wire' = Wire \/ Joins
      <4> HIDE DEF Joins
      <4>1. CASE down' = down
        BY <1>1, <4>1 DEF Wire
      <4>2. CASE HubDeliver(c)
        <5>1. PICK t \in batch[c] : Reply(c, [type |-> "task", task |-> t])
          BY <4>2 DEF HubDeliver
        <5>2. t \in Task
          BY <1>t, <5>1 DEF TypeOK, HubTypeOK
        <5>3. [type |-> "task", task |-> t] \in ToldDown'
          BY <5>2, MessageTypes DEF ToldDown
        <5> QED
          BY <3>3, <5>1, <5>3
      <4>3. CASE HubRecvAccept(c)
        BY <3>3, <3>e, <4>1, <4>3 DEF HubRecvAccept
      <4>4. CASE HubRecvReceipt(c)
        <5> DEFINE r == Head(up[c]).receipt
                   open == {t \in RowsFor(r.id) : t \in accepted /\ stored[t] = NoReceipt}
        <5>1. r \in Receipt /\ r.id \in TaskId
          <6>1. Head(up[c]) \in UpMsg /\ Head(up[c]).type = "receipt"
            BY <1>t, <4>4, ReceivesQueues DEF HubRecvReceipt, TypeOK, WireTypeOK
          <6> QED
            BY <6>1, MessageFields, ReceiptFields
        <5>2. \/ down' = down
              \/ Reply(c, [type |-> "error"])
              \/ /\ Reply(c, [type |-> "ack", id |-> r.id])
                 /\ open # {}
                 /\ stored' = [t \in Task |-> IF t \in open THEN r ELSE stored[t]]
          BY <4>4 DEF HubRecvReceipt
        <5>3. CASE /\ Reply(c, [type |-> "ack", id |-> r.id])
                   /\ open # {}
                   /\ stored' = [t \in Task |-> IF t \in open THEN r ELSE stored[t]]
          <6>1. PICK t \in open : TRUE
            BY <5>3
          <6>2. t \in Task /\ idOf[t] = r.id
            BY <6>1 DEF RowsFor, Queued
          <6>3. stored'[t] # NoReceipt
            BY <5>1, <5>3, <6>1, <6>2
          <6>4. [type |-> "ack", id |-> r.id] \in ToldDown'
            BY <5>1, <6>2, <6>3, MessageTypes DEF ToldDown
          <6> QED
            BY <3>3, <5>3, <6>4
        <5> QED
          BY <3>3, <3>e, <4>1, <5>2, <5>3
      <4>5. CASE HubRecvReceiptAck(c)
        <5> DEFINE id == Head(up[c]).id
                   open == RowsFor(id) \cap StoredRows
        <5>1. id \in TaskId
          <6>1. Head(up[c]) \in UpMsg /\ Head(up[c]).type = "receipt_ack"
            BY <1>t, <4>5, ReceivesQueues DEF HubRecvReceiptAck, TypeOK, WireTypeOK
          <6> QED
            BY <6>1, MessageFields
        <5>2. \/ Reply(c, [type |-> "error"])
              \/ /\ Reply(c, [type |-> "receipt_confirmed", id |-> id])
                 /\ open # {}
                 /\ confirmed' = confirmed \cup open
          BY <4>5 DEF HubRecvReceiptAck
        <5>3. CASE /\ Reply(c, [type |-> "receipt_confirmed", id |-> id])
                   /\ open # {}
                   /\ confirmed' = confirmed \cup open
          <6>1. \E t \in confirmed' : idOf[t] = id
            BY <5>3 DEF RowsFor
          <6>2. [type |-> "receipt_confirmed", id |-> id] \in ToldDown'
            BY <5>1, <6>1, MessageTypes DEF ToldDown
          <6> QED
            BY <3>3, <5>3, <6>2
        <5> QED
          BY <3>3, <3>e, <5>2, <5>3
      <4>6. CASE c # conn /\ (HubAuthenticate(c) \/ HubSendState(c))
        <5>1. \A m : Reply(c, m) => down' [conn] = down[conn]
          BY <4>6, <2>c, <1>t DEF Reply, TypeOK, WireTypeOK
        <5>2. down'[conn] = down[conn]
          BY <4>6, <5>1 DEF HubAuthenticate, HubSendState
        <5> QED
          BY <1>1, <5>2 DEF Wire
      <4>7. HubFetch(c) \/ HubEnd(c) => down' = down
        BY DEF HubFetch, HubEnd
      <4> QED
        BY <2>3, <4>1, <4>2, <4>3, <4>4, <4>5, <4>6, <4>7 DEF HubStep
    <3>5. hub'[conn] = "waiting" => Wire' = Wire
      <4> SUFFICES ASSUME hub'[conn] = "waiting", Joins PROVE FALSE
        BY <3>4
      <4>1. c = conn /\ hub[c] = "waiting"
        BY <3>2
      <4>2. HubEnd(c)
        BY <2>3, <4>1 DEF HubStep, HubAuthenticate, HubSendState, HubFetch, HubDeliver,
           HubRecvAccept, HubRecvReceipt, HubRecvReceiptAck, Receives
      <4>3. hub'[c] = "gone"
        BY <4>2, <1>t DEF HubEnd, TypeOK, HubTypeOK
      <4> QED
        BY <4>1, <4>3
    <3> QED
      BY <1>1, <3>1, <3>2, <3>4, <3>5, CoverKept
  <2> QED
    BY <2>1, <2>2, <2>3
<1> QED
  BY <1>3, <1>4, <1>5, <1>6

\* The parts of a queue hold what it holds.
LEMMA QueueSplit ==
  ASSUME NEW S, NEW T, NEW p \in Seq(S), NEW d \in Seq(S), p \o d \in Seq(T)
  PROVE  p \in Seq(T) /\ d \in Seq(T)
<1>1. /\ Len(p) \in Nat /\ Len(d) \in Nat /\ Len(p \o d) = Len(p) + Len(d)
      /\ DOMAIN p = 1 .. Len(p) /\ DOMAIN d = 1 .. Len(d)
      /\ \A i \in 1 .. Len(p) : (p \o d)[i] = p[i]
      /\ \A i \in 1 .. Len(d) : (p \o d)[Len(p) + i] = d[i]
      /\ \A i \in 1 .. (Len(p) + Len(d)) : (p \o d)[i] \in T
  BY SMTT(30)
<1>2. \A i \in 1 .. Len(p) : p[i] \in T
  BY <1>1
<1>3. \A i \in 1 .. Len(d) : d[i] \in T
  <2> SUFFICES ASSUME NEW i \in 1 .. Len(d) PROVE d[i] \in T
    OBVIOUS
  <2>1. Len(p) + i \in 1 .. (Len(p) + Len(d))
    BY <1>1
  <2> QED
    BY <1>1, <2>1
<1> QED
  BY <1>1, <1>2, <1>3

\* A message taken from the wire past those that were set aside.
LEMMA WireDrops ==
  ASSUME NEW S, NEW p \in Seq(S), NEW d \in Seq(S), d # <<>>
  PROVE  /\ p \o Tail(d) \in Seq(S)
         /\ \A r : Announces(p \o Tail(d), r) => Announces(p \o d, r)
         /\ Once(p \o d) => Once(p \o Tail(d))
<1> DEFINE q == p \o d
           s == p \o Tail(d)
           Old(i) == IF i <= Len(p) THEN i ELSE i + 1
<1>1. /\ Len(p) \in Nat /\ Len(d) \in Nat \ {0} /\ Tail(d) \in Seq(S)
      /\ Len(Tail(d)) = Len(d) - 1
      /\ \A i \in 1 .. (Len(d) - 1) : Tail(d)[i] = d[i + 1]
  OBVIOUS
<1>2. /\ DOMAIN q = 1 .. (Len(p) + Len(d))
      /\ DOMAIN s = 1 .. (Len(p) + Len(d) - 1)
      /\ s \in Seq(S)
  BY <1>1
<1>p. /\ \A i \in 1 .. Len(p) : q[i] = p[i]
      /\ \A i \in 1 .. (Len(p) + Len(d)) : i > Len(p) => q[i] = d[i - Len(p)]
  BY <1>1
<1>s. /\ \A i \in 1 .. Len(p) : s[i] = p[i]
      /\ \A i \in 1 .. (Len(p) + Len(d) - 1) : i > Len(p) => s[i] = Tail(d)[i - Len(p)]
  BY <1>1
<1> HIDE DEF q, s
<1>3. ASSUME NEW i \in DOMAIN s PROVE Old(i) \in DOMAIN q /\ s[i] = q[Old(i)]
  <2>1. CASE i <= Len(p)
    BY <1>1, <1>2, <1>p, <1>s, <2>1
  <2>2. CASE i > Len(p)
    <3>1. i - Len(p) \in 1 .. (Len(d) - 1) /\ i + 1 - Len(p) = i - Len(p) + 1
      BY SMTT(30), <1>1, <1>2, <2>2
    <3>2. s[i] = Tail(d)[i - Len(p)]
      BY <1>1, <1>2, <1>s, <2>2
    <3>3. q[i + 1] = d[i + 1 - Len(p)] /\ i + 1 \in DOMAIN q
      <4>1. i + 1 \in 1 .. (Len(p) + Len(d)) /\ i + 1 > Len(p)
        BY <1>1, <1>2, <2>2
      <4> QED
        BY <1>2, <1>p, <4>1
    <3>4. Tail(d)[i - Len(p)] = d[i - Len(p) + 1]
      BY <1>1, <3>1
    <3>5. s[i] = q[i + 1]
      BY <3>1, <3>2, <3>3, <3>4
    <3>6. Old(i) = i + 1
      BY <1>1, <1>2, <2>2
    <3> QED
      BY <3>3, <3>5, <3>6
  <2> QED
    BY <1>1, <1>2, <2>1, <2>2
<1>4. \A i, j \in DOMAIN s : Old(i) = Old(j) => i = j
  BY <1>1, <1>2
<1> HIDE DEF Old
<1>5. \A r : Announces(s, r) => Announces(q, r)
  BY <1>3 DEF Announces
<1>6. Once(q) => Once(s)
  BY <1>3, <1>4 DEF Once
<1> QED
  BY <1>2, <1>5, <1>6 DEF q, s

\* What the session takes from its queue: the next message, a message from the
\* wire, or one that it sets aside.
LEMMA WireTaken ==
  ASSUME TypeOK, CountCovers, InSession, conn' = conn
  PROVE  /\ pending \in Seq(ToldDown) /\ down[conn] \in Seq(ToldDown)
         /\ HasMessage /\ TakeMessage =>
              /\ Wire # <<>> /\ Message = Head(Wire) /\ Wire' = Tail(Wire)
         /\ down[conn] # <<>> /\ TakeWire =>
              /\ pending' = Append(pending, Head(down[conn])) => Wire' = Wire
              /\ pending' = pending => /\ Wire' \in Seq(ToldDown)
                                       /\ Once(Wire')
                                       /\ \A r : Announces(Wire', r) => Announces(Wire, r)
<1>1. /\ conn \in Conn /\ down \in [Conn -> Seq(DownMsg)]
      /\ pending \in Seq(DownMsg) /\ down[conn] \in Seq(DownMsg)
  BY DEF TypeOK, WireTypeOK, SessionTypeOK
<1>2. pending \in Seq(ToldDown) /\ down[conn] \in Seq(ToldDown) /\ Once(Wire)
  BY <1>1, QueueSplit DEF CountCovers, Wire
<1>3. ASSUME HasMessage, TakeMessage
      PROVE  Wire # <<>> /\ Message = Head(Wire) /\ Wire' = Tail(Wire)
  <2>1. CASE pending # <<>>
    <3>1. pending' = Tail(pending) /\ down' = down /\ Message = Head(pending)
      BY <1>3, <2>1 DEF TakeMessage, Message
    <3>2. Head(pending \o down[conn]) = Head(pending)
          /\ Tail(pending \o down[conn]) = Tail(pending) \o down[conn]
          /\ pending \o down[conn] # <<>>
      BY <1>1, <2>1, WireHeads
    <3> QED
      BY <3>1, <3>2 DEF Wire
  <2>2. CASE pending = <<>>
    <3>1. down[conn] # <<>> /\ down'[conn] = Tail(down[conn]) /\ pending' = <<>>
      BY <1>1, <1>3, <2>2 DEF HasMessage, TakeMessage
    <3>2. Tail(down[conn]) \in Seq(DownMsg)
      BY <1>1, <3>1, QueueParts
    <3>3. Wire = down[conn] /\ Wire' = Tail(down[conn])
      <4>1. /\ <<>> \o down[conn] = down[conn]
            /\ <<>> \o Tail(down[conn]) = Tail(down[conn])
        BY <1>1, <3>2, WireEmpty
      <4> QED
        BY <2>2, <3>1, <4>1 DEF Wire
    <3> QED
      BY <2>2, <3>1, <3>3 DEF Message
  <2> QED
    BY <2>1, <2>2
<1>4. ASSUME down[conn] # <<>>, TakeWire
      PROVE  /\ pending' = Append(pending, Head(down[conn])) => Wire' = Wire
             /\ pending' = pending => /\ Wire' \in Seq(ToldDown)
                                      /\ Once(Wire')
                                      /\ \A r : Announces(Wire', r) => Announces(Wire, r)
  <2>1. down'[conn] = Tail(down[conn])
    BY <1>1, <1>4 DEF TakeWire
  <2>2. Append(pending, Head(down[conn])) \o Tail(down[conn]) = pending \o down[conn]
    BY <1>1, <1>4, WireMoves
  <2>3. /\ pending \o Tail(down[conn]) \in Seq(ToldDown)
        /\ Once(pending \o Tail(down[conn]))
        /\ \A r : Announces(pending \o Tail(down[conn]), r) => Announces(Wire, r)
    BY <1>2, <1>4, WireDrops DEF Wire
  <2> QED
    BY <2>1, <2>2, <2>3 DEF Wire
<1> QED
  BY <1>2, <1>3, <1>4

\* A session that goes on, past its authentication.
LEMMA CoverGoesOn ==
  ASSUME InSession', pc' # "auth", UNCHANGED <<conn, stored, confirmed, hub, states>>,
         CountCovers, InSession, hub[conn] # "waiting",
         Wire' \in Seq(ToldDown), Once(Wire'),
         \A r : Announces(Wire', r) => Announces(Wire, r),
         Cardinality(OwedTasks') <= owed'
  PROVE  CountCovers'
<1>1. ToldDown' = ToldDown
  BY DEF ToldDown
<1> QED
  BY <1>1 DEF CountCovers

\* A session that ends forgets what it owed; what it recorded remains.
LEMMA LeaveConfirms ==
  ASSUME Grounds, Confirming, NEW next, LeaveSession(next),
         next \in {"down", "idle", "failed", "aborted"},
         receipts' \subseteq receipts,
         UNCHANGED <<rowid, stored, confirmed, hub, states, conns>>
  PROVE  Confirming'
<1>1. ReceiptsKept'
  BY DEF Confirming, ReceiptsKept
<1>2. conns \in Nat
  BY DEF Grounds, TypeOK, CounterTypeOK
<1>3. ConnectionsNew'
  BY <1>2 DEF Confirming, ConnectionsNew, LeaveSession
<1>4. pc' = next
  BY DEF LeaveSession
<1>5. CountCovers' /\ DoneIsConfirmed'
  BY <1>4 DEF CountCovers, InSession, DoneIsConfirmed
<1> QED
  BY <1>1, <1>3, <1>5 DEF Confirming

\* A connection is new: nothing is on its way and nothing was read for it.
LEMMA ConnectConfirms ==
  ASSUME Grounds, Confirming, Connect
  PROVE  Confirming'
<1>t. TypeOK /\ WiresKnown
  BY DEF Grounds, Belonging
<1>1. /\ conn = 0 /\ pending = <<>> /\ conns \in Nat /\ conns + 1 \in Conn
      /\ down[conns + 1] = <<>> /\ hub[conns + 1] = "unused"
  <2>1. ~InSession /\ conns < MaxConn
    BY DEF Connect, InSession
  <2>2. conn = 0 /\ conns \in 0 .. MaxConn
    BY <1>t, <2>1 DEF TypeOK, SessionTypeOK, CounterTypeOK
  <2>3. conns + 1 \in Conn /\ conns + 1 # 0
    BY <2>1, <2>2 DEF Conn
  <2> QED
    BY <1>t, <2>1, <2>2, <2>3 DEF WiresKnown, Confirming, ConnectionsNew
<1>2. /\ conn' = conns + 1 /\ conns' = conns + 1 /\ pc' = "auth"
      /\ hub' = [hub EXCEPT ![conns + 1] = "waiting"]
      /\ UNCHANGED <<rows, states, down, pending, receipts>>
  BY DEF Connect
<1>3. ReceiptsKept' /\ DoneIsConfirmed'
  BY <1>2 DEF Confirming, ReceiptsKept, DoneIsConfirmed, rows
<1>4. ConnectionsNew'
  BY <1>t, <1>1, <1>2 DEF Confirming, ConnectionsNew, TypeOK, HubTypeOK, Conn
<1>5. Wire' = <<>>
  BY <1>1, <1>2 DEF Wire
<1>6. states'[conns + 1] = {}
  BY <1>1, <1>2 DEF Confirming, ConnectionsNew
<1>7. CountCovers'
  BY <1>1, <1>2, <1>5, <1>6 DEF CountCovers, Once
<1> QED
  BY <1>3, <1>4, <1>7 DEF Confirming

\* The session learns how many receipts it owes.
LEMMA AuthenticatedConfirms ==
  ASSUME Grounds, Confirming, RecvAuthenticated
  PROVE  Confirming'
<1>1. /\ pc = "auth" /\ pc' = "serve" /\ owed' = Declared
      /\ down[conn] # <<>> /\ Head(down[conn]).type = "authenticated" /\ TakeWire
      /\ UNCHANGED <<conn, pending, held, receipts, rows, hub, states, conns>>
  BY DEF RecvAuthenticated, OnWire, hubVars, counters
<1>2. InSession /\ InSession'
  BY <1>1 DEF InSession
<1>3. pending = <<>> /\ Wire = down[conn] /\ hub[conn] # "waiting"
      /\ Cardinality(OwedTasks) <= Declared
  <2>1. pending = <<>> /\ down[conn] \in Seq(DownMsg)
    BY <1>1, <1>2 DEF Confirming, CountCovers, Grounds, TypeOK, WireTypeOK, SessionTypeOK
  <2>2. Wire = down[conn]
    BY <2>1, WireEmpty DEF Wire
  <2> QED
    BY <1>1, <1>2, <2>1, <2>2 DEF Confirming, CountCovers, Declared
<1>4. Wire' \in Seq(ToldDown) /\ Once(Wire') /\ \A r : Announces(Wire', r) => Announces(Wire, r)
  BY <1>1, <1>2, WireTaken DEF Confirming, Grounds
<1>5. OwedTasks' \subseteq OwedTasks
  BY <1>1, <1>4 DEF OwedTasks, Unconfirmed, rows
<1>6. Cardinality(OwedTasks') <= owed'
  <2>1. Declared \in Nat
    <3>1. Head(down[conn]) \in DownMsg
      BY <1>1, <1>2, QueueParts DEF Grounds, TypeOK, WireTypeOK, SessionTypeOK
    <3> QED
      BY <1>1, <3>1, MessageFields DEF Declared
  <2>2. Cardinality(OwedTasks') <= Cardinality(OwedTasks) /\ Cardinality(OwedTasks) \in Nat
        /\ Cardinality(OwedTasks') \in Nat
    BY <1>5, OwedCount DEF OwedTasks
  <2> QED
    BY <1>1, <1>3, <2>1, <2>2
<1>7. CountCovers'
  BY <1>1, <1>2, <1>3, <1>4, <1>6, CoverGoesOn DEF Confirming, rows
<1> QED
  BY <1>1, <1>7 DEF Confirming, ReceiptsKept, ConnectionsNew, DoneIsConfirmed, rows

\* The session serves an announced receipt: it is recorded and confirmed, and one
\* less is owed.
LEMMA StateConfirms ==
  ASSUME Grounds, Confirming, RecvReceiptState
  PROVE  Confirming'
<1> DEFINE r == Message.receipt
<1>1. /\ pc = "serve" /\ HasMessage /\ Message.type = "receipt_state"
      /\ UNCHANGED <<rows, hub, states, conns>>
  BY DEF RecvReceiptState, hubVars, counters
<1>2. InSession /\ pc # "auth"
  BY <1>1 DEF InSession
<1>3. CASE Abort
  BY <1>1, <1>3, LeaveConfirms DEF Abort, rows
<1>4. CASE journal[r.id].receipt = r
  <2>1. /\ TakeMessage /\ conn' = conn /\ receipts' = receipts \cup {r} /\ held' = r
        /\ pc' = "confirm"
        /\ owed' = IF owed > 0 THEN owed - 1 ELSE 0
    BY <1>4 DEF RecvReceiptState, Acknowledge, Record
  <2>2. Wire # <<>> /\ Message = Head(Wire) /\ Wire' = Tail(Wire)
    BY <1>1, <1>2, <2>1, WireTaken DEF Confirming, Grounds
  <2>3. Wire \in Seq(ToldDown) /\ Once(Wire) /\ hub[conn] # "waiting"
        /\ Cardinality(OwedTasks) <= owed
        /\ \A t \in states[conn] : ~Announces(Wire, stored[t])
    BY <1>2 DEF Confirming, CountCovers
  <2>4. /\ Wire' \in Seq(ToldDown) /\ Once(Wire')
        /\ \A s : Announces(Wire', s) => Announces(Wire, s)
        /\ Announces(Wire, r) /\ ~Announces(Wire', r)
    BY <1>1, <2>2, <2>3, WireShrinks, QueueParts
  <2>5. PICK t \in Task : stored[t] = r /\ stored[t] # NoReceipt
    BY <2>3, <2>4, ToldQueue
  <2>6. t \in OwedTasks
    BY <2>4, <2>5 DEF OwedTasks
  <2>7. OwedTasks' \subseteq OwedTasks \ {t}
    <3> SUFFICES ASSUME NEW u \in OwedTasks' PROVE u \in OwedTasks /\ u # t
      OBVIOUS
    <3>1. /\ u \in Task /\ stored[u] # NoReceipt
          /\ \/ u \notin confirmed /\ stored[u] \in receipts \cup {r} /\ stored[u] # r
             \/ u \in states[conn]
             \/ Announces(Wire', stored[u])
      BY <1>1, <2>1 DEF OwedTasks, Unconfirmed, rows
    <3>2. u # t
      BY <2>3, <2>4, <2>5, <3>1
    <3>3. u \in OwedTasks
      BY <1>1, <2>4, <3>1 DEF OwedTasks, Unconfirmed
    <3> QED
      BY <3>2, <3>3
  <2>8. Cardinality(OwedTasks') <= owed'
    <3>1. Cardinality(OwedTasks') + 1 <= Cardinality(OwedTasks)
          /\ Cardinality(OwedTasks) \in Nat /\ Cardinality(OwedTasks') \in Nat
      BY <2>6, <2>7, OwedCount DEF OwedTasks
    <3>2. owed \in Nat
      BY DEF Grounds, TypeOK, CounterTypeOK
    <3> QED
      BY <2>1, <2>3, <3>1, <3>2
  <2>9. InSession' /\ pc' # "auth"
    BY <2>1 DEF InSession
  <2>10. CountCovers'
    BY <1>1, <1>2, <2>1, <2>3, <2>4, <2>8, <2>9, CoverGoesOn DEF Confirming, rows
  <2>11. ReceiptsKept'
    BY <1>1, <2>1, <2>5 DEF Confirming, ReceiptsKept, rows
  <2> QED
    BY <1>1, <2>1, <2>10, <2>11 DEF Confirming, ConnectionsNew, DoneIsConfirmed
<1> QED
  BY <1>3, <1>4 DEF RecvReceiptState

\* The session takes a task: nothing that it owes.
LEMMA TaskConfirms ==
  ASSUME Grounds, Confirming, RecvTask
  PROVE  Confirming'
<1>1. /\ pc = "serve" /\ HasMessage /\ UNCHANGED <<rows, hub, states, conns>>
  BY DEF RecvTask, hubVars, counters
<1>2. InSession /\ pc # "auth"
  BY <1>1 DEF InSession
<1>3. CASE Abort
  BY <1>1, <1>3, LeaveConfirms DEF Abort, rows
<1>4. CASE ~Abort
  <2>1. /\ TakeMessage /\ UNCHANGED <<conn, owed, receipts>>
        /\ pc' \in {"await", "exec"}
    BY <1>4 DEF RecvTask
  <2>2. Wire # <<>> /\ Wire' = Tail(Wire)
    BY <1>1, <1>2, <2>1, WireTaken DEF Confirming, Grounds
  <2>3. Wire \in Seq(ToldDown) /\ Once(Wire) /\ hub[conn] # "waiting"
        /\ Cardinality(OwedTasks) <= owed
    BY <1>2 DEF Confirming, CountCovers
  <2>4. /\ Wire' \in Seq(ToldDown) /\ Once(Wire')
        /\ \A s : Announces(Wire', s) => Announces(Wire, s)
    BY <2>2, <2>3, WireShrinks, QueueParts
  <2>5. OwedTasks' \subseteq OwedTasks
    BY <1>1, <2>1, <2>4 DEF OwedTasks, Unconfirmed, rows
  <2>6. Cardinality(OwedTasks') <= owed'
    BY SMTT(30), <2>1, <2>3, <2>5, OwedCount DEF OwedTasks, Grounds, TypeOK, CounterTypeOK
  <2>7. InSession' /\ pc' # "auth"
    BY <2>1 DEF InSession
  <2>8. CountCovers'
    BY <1>1, <1>2, <2>1, <2>3, <2>4, <2>6, <2>7, CoverGoesOn DEF Confirming, rows
  <2> QED
    BY <1>1, <2>1, <2>8 DEF Confirming, ReceiptsKept, ConnectionsNew, DoneIsConfirmed, rows
<1> QED
  BY <1>3, <1>4

\* The session executes a task, or sets a message aside.
LEMMA WorkConfirms ==
  ASSUME Grounds, Confirming, Execute \/ SetAside
  PROVE  Confirming'
<1>1. /\ pc \in {"exec", "await", "confirm"} /\ pc' \in {"await", pc} /\ (pc = "confirm" => pc' = pc)
      /\ pc' = "confirm" => held' = held
      /\ UNCHANGED <<conn, owed, receipts, rows, hub, states, conns>>
  BY DEF Execute, SetAside, hubVars, counters, rows
<1>2. InSession /\ pc # "auth" /\ InSession' /\ pc' # "auth"
  BY <1>1 DEF InSession
<1>3. Wire' = Wire
  <2>1. CASE Execute
    BY <2>1 DEF Execute, Wire
  <2>2. CASE SetAside
    BY <1>1, <1>2, <2>2, WireTaken DEF SetAside, OnWire, Confirming, Grounds
  <2> QED
    BY <2>1, <2>2
<1>4. Wire \in Seq(ToldDown) /\ Once(Wire) /\ hub[conn] # "waiting"
      /\ Cardinality(OwedTasks) <= owed
  BY <1>2 DEF Confirming, CountCovers
<1>5. OwedTasks' \subseteq OwedTasks
  BY <1>1, <1>3 DEF OwedTasks, Unconfirmed, rows
<1>6. Cardinality(OwedTasks') <= owed'
  BY SMTT(30), <1>1, <1>4, <1>5, OwedCount DEF OwedTasks, Grounds, TypeOK, CounterTypeOK
<1>7. CountCovers'
  BY <1>1, <1>2, <1>3, <1>4, <1>6, CoverGoesOn DEF Confirming, rows
<1> QED
  BY <1>1, <1>7 DEF Confirming, ReceiptsKept, ConnectionsNew, DoneIsConfirmed, rows

\* The Relay answers: it has stored the receipt, or holds it as confirmed.
LEMMA AnswerConfirms ==
  ASSUME Grounds, Confirming, RecvAck \/ RecvConfirmed
  PROVE  Confirming'
<1>1. /\ pc \in {"await", "confirm"} /\ down[conn] # <<>> /\ TakeWire
      /\ Head(down[conn]).id = held.id
      /\ UNCHANGED <<conn, owed, pending, rows, hub, states, conns>>
  BY DEF RecvAck, RecvConfirmed, OnWire, hubVars, counters
<1>2. InSession /\ pc # "auth"
  BY <1>1 DEF InSession
<1>3. /\ Wire' \in Seq(ToldDown) /\ Once(Wire')
      /\ \A s : Announces(Wire', s) => Announces(Wire, s)
      /\ Head(down[conn]) \in ToldDown
  BY <1>1, <1>2, WireTaken, QueueParts DEF Confirming, Grounds
<1>4. hub[conn] # "waiting" /\ Cardinality(OwedTasks) <= owed
  BY <1>2 DEF Confirming, CountCovers
<1>5. held \in Receipt /\ Journaled(held)
  BY <1>1 DEF Grounds, TypeOK, SessionTypeOK, Agreement, NodeAgrees
<1>6. CASE RecvAck
  <2>1. pc = "await" /\ pc' = "confirm" /\ receipts' = receipts \cup {held} /\ held' = held
        /\ Head(down[conn]).type = "ack"
    BY <1>6 DEF RecvAck, OnWire, Acknowledge, Record
  <2>2. PICK t \in Task : stored[t] # NoReceipt /\ idOf[t] = held.id
    BY <1>1, <1>3, <2>1 DEF ToldDown
  <2>3. stored[t] = held
    BY <1>5, <2>2, StoredOnce
  <2>4. OwedTasks' \subseteq OwedTasks
    BY <1>1, <1>3, <2>1 DEF OwedTasks, Unconfirmed, rows
  <2>5. Cardinality(OwedTasks') <= owed'
    BY SMTT(30), <1>1, <1>4, <2>4, OwedCount DEF OwedTasks, Grounds, TypeOK, CounterTypeOK
  <2>6. InSession' /\ pc' # "auth"
    BY <2>1 DEF InSession
  <2>7. CountCovers'
    BY <1>1, <1>2, <1>3, <1>4, <2>5, <2>6, CoverGoesOn DEF Confirming, rows
  <2>8. ReceiptsKept'
    BY <1>1, <2>1, <2>3 DEF Confirming, ReceiptsKept, rows
  <2> QED
    BY <1>1, <2>1, <2>7, <2>8 DEF Confirming, ConnectionsNew, DoneIsConfirmed
<1>7. CASE RecvConfirmed
  <2>1. pc = "confirm" /\ pc' = "serve" /\ receipts' = receipts
        /\ Head(down[conn]).type = "receipt_confirmed"
    BY <1>7 DEF RecvConfirmed, OnWire
  <2>2. PICK t \in confirmed : idOf[t] = held.id
    BY <1>1, <1>3, <2>1 DEF ToldDown
  <2>3. t \in Task /\ stored[t] # NoReceipt
    BY DEF Confirming, ReceiptsKept, Grounds, TypeOK, RelayTypeOK
  <2>4. stored[t] = held
    BY <1>5, <2>2, <2>3, StoredOnce
  <2>5. OwedTasks' \subseteq OwedTasks
    <3> SUFFICES ASSUME NEW u \in OwedTasks' PROVE u \in OwedTasks
      OBVIOUS
    <3>1. /\ u \in Task /\ stored[u] # NoReceipt
          /\ \/ u \notin confirmed /\ stored[u] \in receipts
             \/ u \in states[conn]
             \/ Announces(Wire', stored[u])
      BY <1>1, <2>1 DEF OwedTasks, Unconfirmed, rows
    <3>2. stored[u] = held => u = t
      BY <2>3, <2>4, <3>1, StoredOnce
    <3> QED
      BY <1>3, <3>1, <3>2 DEF OwedTasks, Unconfirmed
  <2>6. Cardinality(OwedTasks') <= owed'
    BY SMTT(30), <1>1, <1>4, <2>5, OwedCount DEF OwedTasks, Grounds, TypeOK, CounterTypeOK
  <2>7. InSession' /\ pc' # "auth"
    BY <2>1 DEF InSession
  <2>8. CountCovers'
    BY <1>1, <1>2, <1>3, <1>4, <2>6, <2>7, CoverGoesOn DEF Confirming, rows
  <2> QED
    BY <1>1, <2>1, <2>8 DEF Confirming, ReceiptsKept, ConnectionsNew, DoneIsConfirmed, rows
<1> QED
  BY <1>6, <1>7

\* The session reports success: it owes nothing, so all it recorded is confirmed.
LEMMA FinishConfirms ==
  ASSUME Grounds, Confirming, Finish
  PROVE  Confirming'
<1>1. /\ pc = "serve" /\ owed = 0 /\ pc' = "done" /\ conn' = 0
      /\ UNCHANGED <<receipts, rows, hub, states, conns>>
  BY DEF Finish, LeaveSession, hubVars, counters
<1>2. InSession /\ pc # "auth"
  BY <1>1 DEF InSession
<1>3. OwedTasks = {}
  <2>1. Cardinality(OwedTasks) <= 0
    BY <1>1, <1>2 DEF Confirming, CountCovers
  <2> QED
    BY <2>1, OwedCount DEF OwedTasks
<1>4. \A r \in receipts : \E t \in confirmed : stored[t] = r
  <2> SUFFICES ASSUME NEW r \in receipts PROVE \E t \in confirmed : stored[t] = r
    OBVIOUS
  <2>1. PICK t \in Task : stored[t] = r
    BY DEF Confirming, ReceiptsKept
  <2>2. stored[t] # NoReceipt
    BY <2>1 DEF Grounds, TypeOK, SessionTypeOK
  <2>3. t \in confirmed
    BY <1>1, <1>3, <2>1, <2>2 DEF OwedTasks, Unconfirmed
  <2> QED
    BY <2>1, <2>3
<1>5. conns \in Nat
  BY DEF Grounds, TypeOK, CounterTypeOK
<1>6. ~InSession'
  BY <1>1 DEF InSession
<1> QED
  BY <1>1, <1>4, <1>5, <1>6
     DEF Confirming, ReceiptsKept, ConnectionsNew, CountCovers, DoneIsConfirmed, rows

\* Tasks, processes and faults. Rows are only lost when a snapshot is restored.
LEMMA EnvironmentConfirms ==
  ASSUME Grounds, Grounds', Confirming,
         (\E t \in Task : Submit(t) \/ Expire(t)) \/ StartProcess \/ Fault,
         ~RestoreSnapshot
  PROVE  Confirming'
<1>t. TypeOK
  BY DEF Grounds
<1> DEFINE Aside ==
      /\ UNCHANGED <<stored, confirmed, conn, conns, held, pending, owed, down>>
      /\ UNCHANGED <<pc, receipts>>
      /\ \A t \in Task : rowid[t] > 0 => rowid'[t] > 0
      /\ \/ UNCHANGED <<hub, states>>
         \/ /\ hub' = [c \in Conn |-> IF hub[c] = "unused" THEN "unused" ELSE "gone"]
            /\ states' = [c \in Conn |-> {}]
<1>1. CASE Aside
  <2>1. ReceiptsKept' /\ DoneIsConfirmed'
    BY <1>1 DEF Confirming, ReceiptsKept, DoneIsConfirmed
  <2>2. ConnectionsNew'
    BY <1>1 DEF Confirming, ConnectionsNew
  <2>3. Wire' = Wire
    BY <1>1 DEF Wire
  <2>4. InSession => /\ states'[conn] \subseteq states[conn]
                     /\ hub'[conn] = "waiting" => hub[conn] = "waiting" /\ Wire' = Wire
    BY <1>1, <1>t, <2>3 DEF TypeOK, SessionTypeOK
  <2>5. CountCovers'
    BY <1>1, <2>3, <2>4, CoverKept DEF Confirming
  <2> QED
    BY <2>1, <2>2, <2>5 DEF Confirming
<1>2. ASSUME NEW t \in Task, Submit(t) \/ Expire(t) PROVE Confirming'
  <2>1. \A u \in Task : rowid[u] > 0 => rowid'[u] > 0
    <3>1. Cardinality(Queued) \in Nat /\ rowid \in [Task -> Nat]
      BY <1>t, CountIsNat DEF Queued, TypeOK, RelayTypeOK
    <3>2. rowid' = rowid \/ rowid' = [rowid EXCEPT ![t] = 1 + Cardinality(Queued)]
      BY <1>2 DEF Submit, Expire, rows
    <3> QED
      BY <3>1, <3>2
  <2> QED
    BY <1>1, <1>2, <2>1 DEF Submit, Expire, rows, hubVars, session, counters
<1>3. CASE StartProcess \/ ConnectFails
  <2>1. /\ UNCHANGED <<rows, hub, states, conn, conns>>
        /\ pc' \in {"idle", "failed"} /\ receipts' \subseteq receipts
    BY <1>3 DEF StartProcess, ConnectFails, hubVars
  <2>2. ReceiptsKept' /\ DoneIsConfirmed' /\ ConnectionsNew'
    BY <2>1 DEF Confirming, ReceiptsKept, DoneIsConfirmed, ConnectionsNew, rows
  <2>3. CountCovers'
    BY <2>1 DEF CountCovers, InSession
  <2> QED
    BY <2>2, <2>3 DEF Confirming
<1>4. CASE CutLink \/ TakeSnapshot
  BY <1>1, <1>4 DEF CutLink, TakeSnapshot, rows, hubVars, session, counters
<1>5. CASE HubRestart
  BY <1>1, <1>5 DEF HubRestart, HubStops, rows, session
<1>6. CASE Crash
  BY <1>6, LeaveConfirms DEF Crash, rows, hubVars, counters
<1> QED
  BY <1>2, <1>3, <1>4, <1>5, <1>6 DEF Fault

\* A step of the node.
LEMMA NodeConfirms ==
  ASSUME Grounds, Confirming, NodeStep
  PROVE  Confirming'
<1>1. CASE RecvError \/ SeesClose \/ IdleTimeout
  <2>1. \E next \in {"idle", "failed", "aborted"} : LeaveSession(next)
    BY <1>1 DEF RecvError, SeesClose, IdleTimeout, Retry, Abort
  <2>2. UNCHANGED <<receipts, rowid, stored, confirmed, hub, states, conns>>
    BY <1>1 DEF RecvError, SeesClose, IdleTimeout, Retry, Abort, rows, hubVars, counters
  <2> QED
    BY <2>1, <2>2, LeaveConfirms
<1> QED
  BY <1>1, ConnectConfirms, AuthenticatedConfirms, StateConfirms, TaskConfirms,
     WorkConfirms, AnswerConfirms, FinishConfirms DEF NodeStep

\* It holds as long as no snapshot was restored.
LEMMA ConfirmingInvariant == Spec => [](Grounds /\ (restores = 0 => Confirming))
<1> DEFINE Guarded == restores = 0 => Confirming
<1>1. Init => Guarded
  <2> SUFFICES ASSUME Init PROVE Confirming
    OBVIOUS
  <2>1. ~InSession
    BY DEF Init, InSession
  <2> QED
    BY <2>1 DEF Init, Confirming, ReceiptsKept, ConnectionsNew, CountCovers,
                DoneIsConfirmed, Conn
<1>2. Grounds /\ Grounds' /\ Guarded /\ [Next]_vars => Guarded'
  <2> SUFFICES ASSUME Grounds, Grounds', Guarded, [Next]_vars, restores' = 0
               PROVE  Confirming'
    OBVIOUS
  <2>r. restores \in Nat
    BY DEF Grounds, TypeOK, CounterTypeOK
  <2>1. CASE RestoreSnapshot
    BY <2>1, <2>r DEF RestoreSnapshot
  <2>2. CASE ~RestoreSnapshot
    <3>1. restores = 0
      BY <2>2 DEF Next, HubStep, NodeStep, Fault, Submit, Expire, StartProcess,
         HubAuthenticate, HubSendState, HubFetch, HubDeliver, HubRecvAccept,
         HubRecvReceipt, HubRecvReceiptAck, HubEnd, Connect, RecvAuthenticated,
         RecvReceiptState, RecvTask, Execute, SetAside, RecvAck, RecvConfirmed,
         RecvError, Finish, SeesClose, IdleTimeout, Retry, ConnectFails, CutLink,
         Crash, HubRestart, HubStops, TakeSnapshot, counters, vars
    <3>2. Confirming
      BY <3>1
    <3>3. CASE (\E t \in Task : Submit(t) \/ Expire(t)) \/ StartProcess \/ Fault
      BY <2>2, <3>2, <3>3, EnvironmentConfirms
    <3>4. CASE \E c \in Conn : HubStep(c)
      BY <3>2, <3>4, HubConfirms
    <3>5. CASE NodeStep
      BY <3>2, <3>5, NodeConfirms
    <3>6. CASE UNCHANGED vars
      <4>1. UNCHANGED <<rowid, stored, confirmed, conn, conns, held, pending, owed, down,
                        pc, receipts, hub, states>>
        BY <3>6 DEF vars, rows, hubVars, session, counters
      <4>2. Wire' = Wire /\ ToldDown' = ToldDown /\ InSession' = InSession
        BY <4>1 DEF Wire, ToldDown, InSession
      <4>3. OwedTasks' = OwedTasks
        BY <4>1, <4>2 DEF OwedTasks, Unconfirmed
      <4>4. CountCovers'
        BY <3>2, <4>1, <4>2, <4>3 DEF Confirming, CountCovers
      <4> QED
        BY <3>2, <4>1, <4>4
           DEF Confirming, ReceiptsKept, ConnectionsNew, DoneIsConfirmed
    <3> QED
      BY <3>3, <3>4, <3>5, <3>6 DEF Next
  <2> QED
    BY <2>1, <2>2
<1> HIDE DEF Guarded
<1>3. Spec => []Grounds
  BY BelongingInvariant, ReceiptsBelong, PTL DEF Grounds
<1>4. Spec => [](Grounds /\ Guarded)
  BY <1>1, <1>2, <1>3, PTL DEF Spec
<1> QED
  BY <1>4 DEF Guarded

\* A session that reports success has every receipt it returns confirmed by the
\* Relay, whatever broke, crashed or was confirmed twice in between: as long as no
\* snapshot was restored under it.
THEOREM SuccessIsConfirmed == Spec => [](restores = 0 => DoneIsConfirmed)
<1>1. (restores = 0 => Confirming) => (restores = 0 => DoneIsConfirmed)
  BY DEF Confirming
<1> QED
  BY <1>1, ConfirmingInvariant, PTL

-----------------------------------------------------------------------------
(* The conversation of a session                                           *)

\* The messages a queue has of some types, by their places.
At(q, types) == {i \in DOMAIN q : q[i].type \in types}

AnswerTypes == {"authenticated", "ack", "receipt_confirmed", "error"}
Answers == At(down[conn], AnswerTypes)

Announced == At(Wire, {"receipt_state"})

\* A task is on its way to the session, and no task twice.
Offers(q, t) == \E i \in DOMAIN q : q[i].type = "task" /\ q[i].task = t
OffersOnce(q) ==
    \A i, j \in DOMAIN q :
      /\ q[i].type = "task"
      /\ q[j].type = "task"
      /\ q[i].task = q[j].task
      => i = j

Hello == [type |-> "authenticate"]
Accept(id) == [type |-> "accept", id |-> id]
Signed(r) == [type |-> "receipt", receipt |-> r]
Confirm(id) == [type |-> "receipt_ack", id |-> id]

\* What the node has sent and its handler has not read, by where the node is: it
\* asks for one thing at a time, unless the link broke between two messages.
Asks ==
    /\ pc = "auth" => up[conn] \in {<<>>, <<Hello>>}
    /\ pc = "serve" => up[conn] = <<>>
    /\ pc = "exec" => up[conn] \in {<<>>, <<Accept(idOf[cur])>>}
    /\ pc = "await" => up[conn] \in {<<>>, <<Accept(held.id)>>, <<Signed(held)>>,
                                     <<Accept(held.id), Signed(held)>>}
    /\ pc = "confirm" => up[conn] \in {<<>>, <<Confirm(held.id)>>}

\* The answers to it.
Fits(m) ==
    \/ pc = "auth" /\ m.type = "authenticated"
    \/ pc = "await" /\ (m.type = "error" \/ (m.type = "ack" /\ m.id = held.id))
    \/ pc = "confirm" /\ (m.type = "error" \/ (m.type = "receipt_confirmed" /\ m.id = held.id))

\* One answer at a time, and none before all was read.
AnswersFit ==
    /\ \A i \in Answers : Fits(down[conn][i])
    /\ Answers # {} => up[conn] = <<>>
    /\ \A i, j \in Answers : i = j

\* What the handler has delivered on this connection.
Delivered ==
    /\ \A t \in Task : Offers(Wire, t) => idOf[t] \in starts[conn]
    /\ pc = "exec" => idOf[cur] \in starts[conn]
    /\ pc = "await" => held.id \in starts[conn]

\* The node counts the announcements that are still to come.
AnnouncementsCounted ==
    /\ pc = "auth" =>
         \A i \in Answers :
            Cardinality(Announced) + Cardinality(states[conn]) <= down[conn][i].count
    /\ pc # "auth" => Cardinality(Announced) + Cardinality(states[conn]) <= owed
    /\ pc \in {"exec", "await"} => owed = 0

\* A handler begins with nothing: it has read no rows and said nothing.
BeginsEmpty ==
    hub[conn] = "waiting" =>
        pc = "auth" /\ pending = <<>> /\ down[conn] = <<>> /\ states[conn] = {}

HandlersNew ==
    /\ conn <= conns
    /\ \A c \in Conn : c > conns => hub[c] = "unused"
    /\ \A c \in Conn : hub[c] \in {"unused", "waiting"} => states[c] = {} /\ batch[c] = {}

\* The inductive invariant of the conversation.
Dialogue == Asks /\ AnswersFit /\ Delivered /\ AnnouncementsCounted /\ BeginsEmpty
Conversation == HandlersNew /\ (InSession => Dialogue)

\* What was said, by its fields.
LEMMA SaidFields ==
  /\ Hello.type = "authenticate"
  /\ \A id : Accept(id).type = "accept" /\ Accept(id).id = id
  /\ \A r : Signed(r).type = "receipt" /\ Signed(r).receipt = r
  /\ \A id : Confirm(id).type = "receipt_ack" /\ Confirm(id).id = id
  BY DEF Hello, Accept, Signed, Confirm

\* Queues of one and of two messages.
LEMMA ShortQueues ==
  ASSUME NEW a, NEW b
  PROVE  /\ <<a>> # <<>> /\ Head(<<a>>) = a /\ Tail(<<a>>) = <<>>
         /\ <<a, b>> # <<>> /\ Head(<<a, b>>) = a /\ Tail(<<a, b>>) = <<b>>
         /\ <<>> \o <<a>> = <<a>> /\ <<>> \o <<a, b>> = <<a, b>>
         /\ <<a>> \o <<b>> = <<a, b>>
<1>1. <<a>> # <<>> /\ Head(<<a>>) = a /\ Tail(<<a>>) = <<>>
  OBVIOUS
<1>2. <<a, b>> # <<>> /\ Head(<<a, b>>) = a /\ Tail(<<a, b>>) = <<b>>
  OBVIOUS
<1>3. <<>> \o <<a>> = <<a>>
  <2>1. <<a>> \in Seq({a})
    OBVIOUS
  <2> QED
    BY <2>1, WireEmpty
<1>5. <<a>> \o <<b>> = <<a, b>>
  <2> DEFINE l == <<a>> \o <<b>>
  <2>1. <<a>> \in Seq({a, b}) /\ <<b>> \in Seq({a, b}) /\ <<a, b>> \in Seq({a, b})
    OBVIOUS
  <2>2. l \in Seq({a, b}) /\ Len(l) = 2 /\ l[1] = a /\ l[2] = b
    BY <2>1
  <2>3. Len(<<a, b>>) = 2 /\ <<a, b>>[1] = a /\ <<a, b>>[2] = b
    OBVIOUS
  <2> HIDE DEF l
  <2>4. l = <<a, b>>
    BY <2>1, <2>2, <2>3
  <2> QED
    BY <2>4 DEF l
<1>4. <<>> \o <<a, b>> = <<a, b>>
  <2>1. <<a, b>> \in Seq({a, b})
    OBVIOUS
  <2> QED
    BY <2>1, WireEmpty
<1> QED
  BY <1>1, <1>2, <1>3, <1>4, <1>5

\* The places of a queue that a message joins, and leaves.
LEMMA PlacesGrow ==
  ASSUME NEW S, NEW q \in Seq(S), NEW m
  PROVE  /\ Len(q) \in Nat /\ Len(q) + 1 \notin DOMAIN q
         /\ DOMAIN Append(q, m) = DOMAIN q \cup {Len(q) + 1}
         /\ \A i \in DOMAIN q : Append(q, m)[i] = q[i]
         /\ Append(q, m)[Len(q) + 1] = m
  OBVIOUS

LEMMA PlacesShrink ==
  ASSUME NEW S, NEW q \in Seq(S), q # <<>>
  PROVE  /\ 1 \in DOMAIN q /\ Head(q) = q[1]
         /\ \A i \in DOMAIN Tail(q) :
              i \in Nat /\ i + 1 # 1 /\ i + 1 \in DOMAIN q /\ Tail(q)[i] = q[i + 1]
<1>1. /\ Len(q) \in Nat \ {0} /\ DOMAIN q = 1 .. Len(q) /\ Head(q) = q[1]
      /\ DOMAIN Tail(q) = 1 .. (Len(q) - 1)
      /\ \A i \in 1 .. (Len(q) - 1) : Tail(q)[i] = q[i + 1]
  OBVIOUS
<1> QED
  BY <1>1

\* The messages of one queue are among those of another, at places of their own.
Embeds(s, q) == \E f \in [DOMAIN s -> DOMAIN q] :
                  /\ \A i \in DOMAIN s : s[i] = q[f[i]]
                  /\ \A i, j \in DOMAIN s : f[i] = f[j] => i = j

\* Those of a queue that loses the head of its second part.
LEMMA PlacesDrop ==
  ASSUME NEW S, NEW p \in Seq(S), NEW d \in Seq(S), d # <<>>
  PROVE  Embeds(p \o Tail(d), p \o d)
<1> DEFINE q == p \o d
           s == p \o Tail(d)
           f == [i \in DOMAIN s |-> IF i <= Len(p) THEN i ELSE i + 1]
<1>1. /\ Len(p) \in Nat /\ Len(d) \in Nat \ {0} /\ Tail(d) \in Seq(S)
      /\ Len(Tail(d)) = Len(d) - 1
      /\ \A i \in 1 .. (Len(d) - 1) : Tail(d)[i] = d[i + 1]
  OBVIOUS
<1>2. /\ DOMAIN q = 1 .. (Len(p) + Len(d))
      /\ DOMAIN s = 1 .. (Len(p) + Len(d) - 1)
  BY <1>1
<1>p. /\ \A i \in 1 .. Len(p) : q[i] = p[i]
      /\ \A i \in 1 .. (Len(p) + Len(d)) : i > Len(p) => q[i] = d[i - Len(p)]
  BY <1>1
<1>s. /\ \A i \in 1 .. Len(p) : s[i] = p[i]
      /\ \A i \in 1 .. (Len(p) + Len(d) - 1) : i > Len(p) => s[i] = Tail(d)[i - Len(p)]
  BY <1>1
<1> HIDE DEF q, s
<1>3. ASSUME NEW i \in DOMAIN s PROVE f[i] \in DOMAIN q /\ s[i] = q[f[i]]
  <2>1. CASE i <= Len(p)
    BY <1>1, <1>2, <1>p, <1>s, <2>1
  <2>2. CASE i > Len(p)
    <3>1. i - Len(p) \in 1 .. (Len(d) - 1) /\ i + 1 - Len(p) = i - Len(p) + 1
      BY <1>1, <1>2, <2>2
    <3>2. s[i] = Tail(d)[i - Len(p)]
      BY <1>1, <1>2, <1>s, <2>2
    <3>3. q[i + 1] = d[i + 1 - Len(p)] /\ i + 1 \in DOMAIN q
      <4>1. i + 1 \in 1 .. (Len(p) + Len(d)) /\ i + 1 > Len(p)
        BY <1>1, <1>2, <2>2
      <4> QED
        BY <1>2, <1>p, <4>1
    <3>4. Tail(d)[i - Len(p)] = d[i - Len(p) + 1]
      BY <1>1, <3>1
    <3>5. s[i] = q[i + 1]
      BY <3>1, <3>2, <3>3, <3>4
    <3>6. f[i] = i + 1
      BY <1>1, <1>2, <2>2
    <3> QED
      BY <3>3, <3>5, <3>6
  <2> QED
    BY <1>1, <1>2, <2>1, <2>2
<1>4. \A i, j \in DOMAIN s : f[i] = f[j] => i = j
  BY <1>1, <1>2
<1>5. f \in [DOMAIN s -> DOMAIN q]
  BY <1>3
<1> HIDE DEF f
<1>6. \E g \in [DOMAIN s -> DOMAIN q] :
         /\ \A i \in DOMAIN s : s[i] = q[g[i]]
         /\ \A i, j \in DOMAIN s : g[i] = g[j] => i = j
  BY <1>3, <1>4, <1>5
<1> QED
  BY <1>6 DEF q, s, Embeds

\* Those of its second part.
LEMMA SecondPart ==
  ASSUME NEW S, NEW p \in Seq(S), NEW d \in Seq(S), NEW i \in DOMAIN d
  PROVE  Len(p) + i \in DOMAIN (p \o d) /\ (p \o d)[Len(p) + i] = d[i]
<1>1. Len(p) \in Nat /\ Len(d) \in Nat /\ i \in 1 .. Len(d)
  OBVIOUS
<1>2. Len(p) + i \in 1 .. (Len(p) + Len(d)) /\ Len(p) + i > Len(p)
      /\ Len(p) + i - Len(p) = i
  BY <1>1
<1>3. /\ DOMAIN (p \o d) = 1 .. (Len(p) + Len(d))
      /\ \A j \in 1 .. (Len(p) + Len(d)) : j > Len(p) => (p \o d)[j] = d[j - Len(p)]
  BY <1>1
<1> QED
  BY <1>2, <1>3

\* The number of places is one.
LEMMA PlacesCount ==
  ASSUME NEW S, NEW q \in Seq(S), NEW types
  PROVE  IsFiniteSet(At(q, types)) /\ Cardinality(At(q, types)) \in Nat
<1>1. IsFiniteSet(DOMAIN q)
  <2>1. DOMAIN q = 1 .. Len(q) /\ Len(q) \in Nat
    OBVIOUS
  <2> QED
    BY <2>1, FS_Interval
<1> QED
  BY <1>1, FS_Subset, FS_CardinalityType DEF At

LEMMA NoMorePlaces ==
  ASSUME NEW S, NEW T, IsFiniteSet(T), NEW f \in [S -> T],
         \A i, j \in S : f[i] = f[j] => i = j
  PROVE  Cardinality(S) <= Cardinality(T)
<1>1. f \in Injection(S, T)
  BY DEF Injection, IsInjective
<1> QED
  BY <1>1, FS_Injection

\* A message that joins a queue leaves the places of the other types alone.
LEMMA AtKeeps ==
  ASSUME NEW S, NEW q \in Seq(S), NEW m, NEW types, m.type \notin types
  PROVE  /\ At(Append(q, m), types) = At(q, types)
         /\ \A i \in At(q, types) : Append(q, m)[i] = q[i]
  BY PlacesGrow DEF At

\* A message that joins a queue.
LEMMA AtGrows ==
  ASSUME NEW S, NEW q \in Seq(S), NEW m
  PROVE  /\ \A types :
              /\ m.type \notin types =>
                   /\ At(Append(q, m), types) = At(q, types)
                   /\ \A i \in At(q, types) : Append(q, m)[i] = q[i]
              /\ m.type \in types =>
                   /\ At(Append(q, m), types) = At(q, types) \cup {Len(q) + 1}
                   /\ Append(q, m)[Len(q) + 1] = m
                   /\ Cardinality(At(Append(q, m), types)) = Cardinality(At(q, types)) + 1
         /\ \A t : Offers(Append(q, m), t) <=> Offers(q, t) \/ (m.type = "task" /\ m.task = t)
         /\ OffersOnce(q) /\ (m.type = "task" => ~Offers(q, m.task)) => OffersOnce(Append(q, m))
<1>1. ASSUME NEW types, m.type \notin types
      PROVE  /\ At(Append(q, m), types) = At(q, types)
             /\ \A i \in At(q, types) : Append(q, m)[i] = q[i]
  BY <1>1, AtKeeps
<1>2. ASSUME NEW types, m.type \in types
      PROVE  /\ At(Append(q, m), types) = At(q, types) \cup {Len(q) + 1}
             /\ Append(q, m)[Len(q) + 1] = m
             /\ Cardinality(At(Append(q, m), types)) = Cardinality(At(q, types)) + 1
  <2>1. At(Append(q, m), types) = At(q, types) \cup {Len(q) + 1}
    BY <1>2, PlacesGrow DEF At
  <2>2. Len(q) + 1 \notin At(q, types)
    BY PlacesGrow DEF At
  <2> QED
    BY <2>1, <2>2, PlacesGrow, PlacesCount, FS_AddElement
<1>3. ASSUME NEW t
      PROVE  Offers(Append(q, m), t) <=> Offers(q, t) \/ (m.type = "task" /\ m.task = t)
  <2>1. ASSUME Offers(q, t) PROVE Offers(Append(q, m), t)
    BY <2>1, PlacesGrow DEF Offers
  <2>2. ASSUME m.type = "task", m.task = t PROVE Offers(Append(q, m), t)
    BY <2>2, PlacesGrow DEF Offers
  <2>3. ASSUME Offers(Append(q, m), t)
        PROVE  Offers(q, t) \/ (m.type = "task" /\ m.task = t)
    BY <2>3, PlacesGrow DEF Offers
  <2> QED
    BY <2>1, <2>2, <2>3
<1>4. OffersOnce(q) /\ (m.type = "task" => ~Offers(q, m.task)) => OffersOnce(Append(q, m))
  BY PlacesGrow DEF Offers, OffersOnce
<1> QED
  BY <1>1, <1>2, <1>3, <1>4

\* A message that leaves it.
LEMMA AtShrinks ==
  ASSUME NEW S, NEW q \in Seq(S), q # <<>>
  PROVE  /\ \A types :
              /\ \A i \in At(Tail(q), types) : i + 1 \in At(q, types) /\ Tail(q)[i] = q[i + 1]
              /\ (\A i, j \in At(q, types) : i = j) =>
                   /\ \A i, j \in At(Tail(q), types) : i = j
                   /\ Head(q).type \in types => At(Tail(q), types) = {}
              /\ At(q, types) = {} => At(Tail(q), types) = {}
              /\ Cardinality(At(Tail(q), types)) <= Cardinality(At(q, types))
              /\ Head(q).type \in types =>
                   Cardinality(At(Tail(q), types)) + 1 <= Cardinality(At(q, types))
         /\ \A t : Offers(Tail(q), t) => Offers(q, t)
         /\ Head(q).type = "task" => Offers(q, Head(q).task)
         /\ OffersOnce(q) => /\ OffersOnce(Tail(q))
                             /\ Head(q).type = "task" => ~Offers(Tail(q), Head(q).task)
<1>1. ASSUME NEW types, NEW i \in At(Tail(q), types)
      PROVE  i \in Nat /\ i + 1 # 1 /\ i + 1 \in At(q, types) /\ Tail(q)[i] = q[i + 1]
  BY PlacesShrink DEF At
<1>2. ASSUME NEW types, Head(q).type \in types PROVE 1 \in At(q, types)
  BY <1>2, PlacesShrink DEF At
<1>3. ASSUME NEW types, \A i, j \in At(q, types) : i = j
      PROVE  /\ \A i, j \in At(Tail(q), types) : i = j
             /\ Head(q).type \in types => At(Tail(q), types) = {}
  <2>1. ASSUME NEW i \in At(Tail(q), types), NEW j \in At(Tail(q), types) PROVE i = j
    <3>1. i + 1 = j + 1 /\ i \in Nat /\ j \in Nat
      BY <1>1, <1>3
    <3> QED
      BY <3>1
  <2>2. ASSUME Head(q).type \in types, NEW i \in At(Tail(q), types) PROVE FALSE
    BY <1>1, <1>2, <1>3, <2>2
  <2> QED
    BY <2>1, <2>2
<1>4. ASSUME NEW types
      PROVE  /\ Cardinality(At(Tail(q), types)) <= Cardinality(At(q, types))
             /\ Head(q).type \in types =>
                  Cardinality(At(Tail(q), types)) + 1 <= Cardinality(At(q, types))
  <2> DEFINE f == [i \in At(Tail(q), types) |-> i + 1]
  <2>1. IsFiniteSet(At(q, types)) /\ Cardinality(At(q, types)) \in Nat
    BY PlacesCount
  <2>2. /\ f \in [At(Tail(q), types) -> At(q, types)]
        /\ f \in [At(Tail(q), types) -> At(q, types) \ {1}]
        /\ \A i, j \in At(Tail(q), types) : f[i] = f[j] => i = j
    BY <1>1
  <2>3. Cardinality(At(Tail(q), types)) <= Cardinality(At(q, types))
    BY <2>1, <2>2, NoMorePlaces
  <2>4. ASSUME Head(q).type \in types
        PROVE  Cardinality(At(Tail(q), types)) + 1 <= Cardinality(At(q, types))
    <3>1. /\ IsFiniteSet(At(q, types) \ {1})
          /\ Cardinality(At(q, types) \ {1}) = Cardinality(At(q, types)) - 1
      BY <1>2, <2>1, <2>4, FS_RemoveElement
    <3>2. Cardinality(At(Tail(q), types)) <= Cardinality(At(q, types) \ {1})
      BY <2>2, <3>1, NoMorePlaces
    <3>3. Tail(q) \in Seq(S)
      BY QueueParts
    <3>4. Cardinality(At(Tail(q), types)) \in Nat
      BY <3>3, PlacesCount
    <3> QED
      BY <2>1, <3>1, <3>2, <3>4
  <2> QED
    BY <2>3, <2>4
<1>5. \A t : Offers(Tail(q), t) => Offers(q, t)
  BY PlacesShrink DEF Offers
<1>6. Head(q).type = "task" => Offers(q, Head(q).task)
  BY PlacesShrink DEF Offers
<1>7. ASSUME OffersOnce(q)
      PROVE  /\ OffersOnce(Tail(q))
             /\ Head(q).type = "task" => ~Offers(Tail(q), Head(q).task)
  <2>1. ASSUME NEW i \in DOMAIN Tail(q), NEW j \in DOMAIN Tail(q),
               Tail(q)[i].type = "task", Tail(q)[j].type = "task",
               Tail(q)[i].task = Tail(q)[j].task
        PROVE  i = j
    <3>1. i + 1 = j + 1 /\ i \in Nat /\ j \in Nat
      BY <1>7, <2>1, PlacesShrink DEF OffersOnce
    <3> QED
      BY <3>1
  <2>2. OffersOnce(Tail(q))
    BY <2>1 DEF OffersOnce
  <2>3. Head(q).type = "task" => ~Offers(Tail(q), Head(q).task)
    BY <1>7, PlacesShrink DEF Offers, OffersOnce
  <2> QED
    BY <2>2, <2>3
<1> QED
  BY <1>1, <1>3, <1>4, <1>5, <1>6, <1>7

\* A message that leaves the second part of it.
LEMMA AtDrops ==
  ASSUME NEW S, NEW p \in Seq(S), NEW d \in Seq(S), d # <<>>
  PROVE  /\ \A types : Cardinality(At(p \o Tail(d), types)) <= Cardinality(At(p \o d, types))
         /\ \A t : Offers(p \o Tail(d), t) => Offers(p \o d, t)
         /\ OffersOnce(p \o d) => OffersOnce(p \o Tail(d))
<1> DEFINE q == p \o d
           s == p \o Tail(d)
<1>0. Embeds(s, q)
  BY PlacesDrop
<1>2. q \in Seq(S)
  BY QueueParts
<1> HIDE DEF q, s
<1>1. PICK f \in [DOMAIN s -> DOMAIN q] :
           /\ \A i \in DOMAIN s : s[i] = q[f[i]]
           /\ \A i, j \in DOMAIN s : f[i] = f[j] => i = j
  BY <1>0 DEF Embeds
<1>3. ASSUME NEW types PROVE Cardinality(At(s, types)) <= Cardinality(At(q, types))
  <2> DEFINE g == [i \in At(s, types) |-> f[i]]
  <2>1. /\ g \in [At(s, types) -> At(q, types)]
        /\ \A i, j \in At(s, types) : g[i] = g[j] => i = j
    BY <1>1 DEF At
  <2>2. IsFiniteSet(At(q, types))
    BY <1>2, PlacesCount
  <2> HIDE DEF g
  <2> QED
    BY <2>1, <2>2, NoMorePlaces
<1>4. \A t : Offers(s, t) => Offers(q, t)
  BY <1>1 DEF Offers
<1>5. OffersOnce(q) => OffersOnce(s)
  BY <1>1 DEF OffersOnce
<1> QED
  BY <1>3, <1>4, <1>5 DEF q, s

\* What the handler reads next tells where the node is.
LEMMA HandlerReads ==
  ASSUME InSession, Asks, up[conn] # <<>>
  PROVE  /\ Head(up[conn]).type = "authenticate" => pc = "auth" /\ up[conn] = <<Hello>>
         /\ Head(up[conn]).type = "accept" =>
              \/ pc = "exec" /\ up[conn] = <<Accept(idOf[cur])>>
              \/ pc = "await" /\ up[conn] = <<Accept(held.id)>>
              \/ pc = "await" /\ up[conn] = <<Accept(held.id), Signed(held)>>
         /\ Head(up[conn]).type = "receipt" => pc = "await" /\ up[conn] = <<Signed(held)>>
         /\ Head(up[conn]).type = "receipt_ack" =>
              pc = "confirm" /\ up[conn] = <<Confirm(held.id)>>
<1> DEFINE u == up[conn]
<1>1. \/ pc = "auth" /\ u = <<Hello>>
      \/ pc = "exec" /\ u = <<Accept(idOf[cur])>>
      \/ pc = "await" /\ u = <<Accept(held.id)>>
      \/ pc = "await" /\ u = <<Signed(held)>>
      \/ pc = "await" /\ u = <<Accept(held.id), Signed(held)>>
      \/ pc = "confirm" /\ u = <<Confirm(held.id)>>
  BY DEF InSession, Asks
<1>2. \A a, b : Head(<<a>>) = a /\ Head(<<a, b>>) = a
  OBVIOUS
<1> HIDE DEF u
<1>3. CASE pc = "auth" /\ u = <<Hello>>
  <2>1. Head(u) = Hello
    BY <1>2, <1>3
  <2> QED
    BY <1>3, <2>1, SaidFields DEF u
<1>4. CASE pc = "exec" /\ u = <<Accept(idOf[cur])>>
  <2>1. Head(u) = Accept(idOf[cur])
    BY <1>2, <1>4
  <2> QED
    BY <1>4, <2>1, SaidFields DEF u
<1>5. CASE pc = "await" /\ (u = <<Accept(held.id)>> \/ u = <<Accept(held.id), Signed(held)>>)
  <2>1. Head(u) = Accept(held.id)
    BY <1>2, <1>5
  <2> QED
    BY <1>5, <2>1, SaidFields DEF u
<1>6. CASE pc = "await" /\ u = <<Signed(held)>>
  <2>1. Head(u) = Signed(held)
    BY <1>2, <1>6
  <2> QED
    BY <1>6, <2>1, SaidFields DEF u
<1>7. CASE pc = "confirm" /\ u = <<Confirm(held.id)>>
  <2>1. Head(u) = Confirm(held.id)
    BY <1>2, <1>7
  <2> QED
    BY <1>7, <2>1, SaidFields DEF u
<1> QED
  BY <1>1, <1>3, <1>4, <1>5, <1>6, <1>7

\* A part of the rows is no more than all of them.
LEMMA StatesCount ==
  ASSUME TypeOK, conn \in Conn
  PROVE  /\ states[conn] \subseteq Task
         /\ Cardinality(states[conn]) \in Nat
         /\ Cardinality(states[conn]) = 0 <=> states[conn] = {}
         /\ \A S \in SUBSET Task :
              /\ Cardinality(S) \in Nat
              /\ S \subseteq states[conn] => Cardinality(S) <= Cardinality(states[conn])
              /\ \A t \in states[conn] :
                   S = states[conn] \ {t} => Cardinality(S) + 1 <= Cardinality(states[conn])
<1>1. states[conn] \subseteq Task
  BY DEF TypeOK, HubTypeOK
<1> QED
  BY <1>1, OwedCount

\* What is on its way to the session, as queues of messages.
LEMMA SessionQueues ==
  ASSUME TypeOK, InSession
  PROVE  /\ conn \in Conn /\ down \in [Conn -> Seq(DownMsg)] /\ up \in [Conn -> Seq(UpMsg)]
         /\ pending \in Seq(DownMsg) /\ down[conn] \in Seq(DownMsg) /\ Wire \in Seq(DownMsg)
         /\ Cardinality(Announced) \in Nat
         /\ owed \in Nat
<1>1. /\ conn \in Conn /\ down \in [Conn -> Seq(DownMsg)] /\ up \in [Conn -> Seq(UpMsg)]
      /\ pending \in Seq(DownMsg) /\ down[conn] \in Seq(DownMsg) /\ owed \in Nat
  BY DEF TypeOK, WireTypeOK, SessionTypeOK, CounterTypeOK
<1>2. Wire \in Seq(DownMsg)
  BY <1>1, QueueParts DEF Wire
<1> QED
  BY <1>1, <1>2, PlacesCount DEF Announced

\* An answer to a node that authenticates has a count.
LEMMA AnswerCounts ==
  ASSUME TypeOK, InSession, AnswersFit, pc = "auth", NEW i \in Answers
  PROVE  down[conn][i].type = "authenticated" /\ down[conn][i].count \in Nat
<1>1. down[conn] \in Seq(DownMsg)
  BY SessionQueues
<1>2. i \in DOMAIN down[conn] /\ down[conn][i].type = "authenticated"
  BY DEF Answers, At, AnswersFit, Fits
<1>3. down[conn][i] \in DownMsg
  BY <1>1, <1>2
<1> QED
  BY <1>2, <1>3, MessageFields

\* A step of another actor that tells the session nothing; its handler may read
\* what it sent, or lose it.
LEMMA Unsaid ==
  ASSUME TypeOK, InSession, Dialogue, UNCHANGED session,
         down'[conn] = down[conn],
         Asks', up[conn] = <<>> => up'[conn] = <<>>,
         states'[conn] \subseteq states[conn], starts[conn] \subseteq starts'[conn],
         hub'[conn] = "waiting" => hub[conn] = "waiting"
  PROVE  Dialogue'
<1>0. UNCHANGED <<pc, conn, held, cur, pending, owed>> /\ conn \in Conn
  BY SessionQueues DEF session
<1>1. Wire' = Wire /\ Answers' = Answers /\ Announced' = Announced
      /\ \A m : Fits(m)' <=> Fits(m)
  BY <1>0 DEF Wire, Answers, Announced, Fits
<1>2. AnswersFit'
  BY <1>0, <1>1 DEF Dialogue, AnswersFit
<1>3. Delivered'
  BY <1>0, <1>1 DEF Dialogue, Delivered
<1>4. Cardinality(states'[conn]) \in Nat
      /\ Cardinality(states'[conn]) <= Cardinality(states[conn])
      /\ Cardinality(states[conn]) \in Nat /\ Cardinality(Announced) \in Nat /\ owed \in Nat
  BY <1>0, StatesCount, SessionQueues
<1>5. AnnouncementsCounted'
  <2>1. ASSUME pc = "auth", NEW i \in Answers
        PROVE  Cardinality(Announced) + Cardinality(states'[conn]) <= down[conn][i].count
    <3>1. down[conn][i].count \in Nat
      BY <2>1, AnswerCounts DEF Dialogue
    <3>2. Cardinality(Announced) + Cardinality(states[conn]) <= down[conn][i].count
      BY <2>1 DEF Dialogue, AnnouncementsCounted
    <3> QED
      BY <1>4, <3>1, <3>2
  <2>2. pc # "auth" => Cardinality(Announced) + Cardinality(states'[conn]) <= owed
    <3>1. pc # "auth" => Cardinality(Announced) + Cardinality(states[conn]) <= owed
      BY DEF Dialogue, AnnouncementsCounted
    <3> QED
      BY <1>4, <3>1
  <2>3. pc \in {"exec", "await"} => owed = 0
    BY DEF Dialogue, AnnouncementsCounted
  <2> QED
    BY <1>0, <1>1, <2>1, <2>2, <2>3 DEF AnnouncementsCounted
<1>6. BeginsEmpty'
  BY <1>0 DEF Dialogue, BeginsEmpty
<1> QED
  BY <1>2, <1>3, <1>5, <1>6 DEF Dialogue

\* Its handler tells it something: a task, a receipt it has read, or the answer to
\* what it has just read.
LEMMA Said ==
  ASSUME TypeOK, InSession, Dialogue, UNCHANGED session, UNCHANGED cut,
         NEW m \in DownMsg, Reply(conn, m), m.type # "authenticated",
         Asks', up[conn] = <<>> => up'[conn] = <<>>,
         m.type \in AnswerTypes => Fits(m) /\ Answers = {} /\ up'[conn] = <<>>,
         starts[conn] \subseteq starts'[conn],
         m.type = "task" => idOf[m.task] \in starts'[conn],
         states'[conn] \subseteq states[conn],
         m.type = "receipt_state" => \E t \in states[conn] : states'[conn] = states[conn] \ {t},
         hub'[conn] # "waiting"
  PROVE  Dialogue'
<1>0. /\ UNCHANGED <<pc, conn, held, cur, pending, owed>> /\ conn \in Conn
      /\ down[conn] \in Seq(DownMsg) /\ pending \in Seq(DownMsg) /\ Wire \in Seq(DownMsg)
      /\ down \in [Conn -> Seq(DownMsg)] /\ owed \in Nat /\ Cardinality(Announced) \in Nat
  BY SessionQueues DEF session
<1>1. CASE conn \in cut
  <2>1. down'[conn] = down[conn]
    BY <1>0, <1>1 DEF Reply
  <2> QED
    BY <2>1, Unsaid
<1>2. CASE conn \notin cut
  <2>1. down'[conn] = Append(down[conn], m)
    BY <1>0, <1>2 DEF Reply
  <2>2. Wire' = Append(Wire, m)
    <3>1. pending \o Append(down[conn], m) = Append(pending \o down[conn], m)
      BY <1>0, WireAppends
    <3> QED
      BY <1>0, <2>1, <3>1 DEF Wire
  <2>g. m.type \notin AnswerTypes =>
          /\ At(Append(down[conn], m), AnswerTypes) = At(down[conn], AnswerTypes)
          /\ \A i \in At(down[conn], AnswerTypes) : Append(down[conn], m)[i] = down[conn][i]
    <3> DEFINE d == down[conn]
    <3>1. d \in Seq(DownMsg)
      BY <1>0
    <3> HIDE DEF d
    <3>2. ASSUME m.type \notin AnswerTypes
          PROVE  /\ At(Append(d, m), AnswerTypes) = At(d, AnswerTypes)
                 /\ \A i \in At(d, AnswerTypes) : Append(d, m)[i] = d[i]
      BY <3>1, <3>2, PlacesGrow DEF At
    <3> QED
      BY <3>2 DEF d
  <2>f. \A n : Fits(n)' <=> Fits(n)
    BY <1>0 DEF Fits
  <2>3. AnswersFit'
    <3>1. CASE m.type \notin AnswerTypes
      <4>1. Answers' = Answers /\ \A i \in Answers : down'[conn][i] = down[conn][i]
        BY <1>0, <2>1, <2>g, <3>1 DEF Answers
      <4> QED
        BY <1>0, <2>f, <4>1 DEF Dialogue, AnswersFit
    <3>2. CASE m.type \in AnswerTypes
      <4>1. Answers' = {Len(down[conn]) + 1} /\ down'[conn][Len(down[conn]) + 1] = m
        <5>1. /\ At(Append(down[conn], m), AnswerTypes)
                   = At(down[conn], AnswerTypes) \cup {Len(down[conn]) + 1}
              /\ Append(down[conn], m)[Len(down[conn]) + 1] = m
          BY <1>0, <3>2, AtGrows
        <5> QED
          BY <1>0, <2>1, <3>2, <5>1 DEF Answers
      <4> QED
        BY <1>0, <2>f, <3>2, <4>1 DEF AnswersFit
    <3> QED
      BY <3>1, <3>2
  <2>4. Delivered'
    <3>1. \A t : Offers(Wire', t) => Offers(Wire, t) \/ (m.type = "task" /\ m.task = t)
      BY <1>0, <2>2, AtGrows
    <3> QED
      BY <1>0, <3>1 DEF Dialogue, Delivered
  <2>5. /\ Cardinality(Announced') + Cardinality(states'[conn])
              <= Cardinality(Announced) + Cardinality(states[conn])
        /\ Cardinality(Announced') \in Nat /\ Cardinality(states'[conn]) \in Nat
        /\ Cardinality(states[conn]) \in Nat
    <3>1. /\ m.type # "receipt_state" => Announced' = Announced
          /\ m.type = "receipt_state" => Cardinality(Announced') = Cardinality(Announced) + 1
      BY <1>0, <2>2, AtGrows DEF Announced
    <3>2. /\ Cardinality(states'[conn]) \in Nat /\ Cardinality(states[conn]) \in Nat
          /\ Cardinality(states'[conn]) <= Cardinality(states[conn])
          /\ m.type = "receipt_state"
               => Cardinality(states'[conn]) + 1 <= Cardinality(states[conn])
      <4>1. states'[conn] \in SUBSET Task
        BY <1>0, StatesCount
      <4> QED
        BY <1>0, <4>1, StatesCount
    <3> QED
      BY <1>0, <3>1, <3>2
  <2>6. AnnouncementsCounted'
    <3>1. ASSUME pc = "auth", NEW i \in Answers'
          PROVE  Cardinality(Announced') + Cardinality(states'[conn]) <= down'[conn][i].count
      <4>1. m.type \notin AnswerTypes
        BY <3>1 DEF Fits
      <4>2. i \in Answers /\ down'[conn][i] = down[conn][i]
        BY <1>0, <2>1, <2>g, <3>1, <4>1 DEF Answers
      <4>3. down[conn][i].count \in Nat
        BY <3>1, <4>2, AnswerCounts DEF Dialogue
      <4>4. Cardinality(Announced) + Cardinality(states[conn]) <= down[conn][i].count
        BY <3>1, <4>2 DEF Dialogue, AnnouncementsCounted
      <4> QED
        BY <1>0, <2>5, <4>2, <4>3, <4>4
    <3>2. pc # "auth" => Cardinality(Announced') + Cardinality(states'[conn]) <= owed
      <4>1. pc # "auth" => Cardinality(Announced) + Cardinality(states[conn]) <= owed
        BY DEF Dialogue, AnnouncementsCounted
      <4> QED
        BY <1>0, <2>5, <4>1
    <3>3. pc \in {"exec", "await"} => owed = 0
      BY DEF Dialogue, AnnouncementsCounted
    <3> QED
      BY <1>0, <3>1, <3>2, <3>3 DEF AnnouncementsCounted
  <2>7. BeginsEmpty'
    BY <1>0 DEF BeginsEmpty
  <2> QED
    BY <2>3, <2>4, <2>6, <2>7 DEF Dialogue
<1> QED
  BY <1>1, <1>2

\* Handlers begin with nothing, whatever the others do.
LEMMA HandlersStayNew ==
  ASSUME TypeOK, HandlersNew, NEW c \in Conn, HubStep(c)
  PROVE  HandlersNew'
<1>1. UNCHANGED <<conn, conns>>
  BY DEF HubStep, HubAuthenticate, HubSendState, HubFetch, HubDeliver, HubRecvAccept,
         HubRecvReceipt, HubRecvReceiptAck, HubEnd, session, counters
<1>2. \A d \in Conn : hub'[d] # hub[d]
        => hub[d] \in {"waiting", "open"} /\ hub'[d] \in {"open", "gone"}
  BY DEF HubStep, HubAuthenticate, HubSendState, HubFetch, HubDeliver, HubRecvAccept,
         HubRecvReceipt, HubRecvReceiptAck, HubEnd, Receives, hubVars, TypeOK, HubTypeOK
<1>3. \A d \in Conn : states'[d] # states[d] \/ batch'[d] # batch[d]
        => hub'[d] \in {"open", "gone"}
  BY DEF HubStep, HubAuthenticate, HubSendState, HubFetch, HubDeliver, HubRecvAccept,
         HubRecvReceipt, HubRecvReceiptAck, HubEnd, hubVars, TypeOK, HubTypeOK
<1> QED
  BY <1>1, <1>2, <1>3 DEF HandlersNew

\* A handler of another connection neither reads what the session says nor tells
\* it anything.
LEMMA OthersApart ==
  ASSUME TypeOK, InSession, NEW c \in Conn, c # conn, HubStep(c)
  PROVE  /\ up'[conn] = up[conn] /\ down'[conn] = down[conn]
         /\ hub'[conn] = hub[conn] /\ states'[conn] = states[conn]
         /\ starts'[conn] = starts[conn] /\ batch'[conn] = batch[conn]
<1>0. conn \in Conn /\ down \in [Conn -> Seq(DownMsg)] /\ up \in [Conn -> Seq(UpMsg)]
  BY SessionQueues
<1>1. \A m : Reply(c, m) => down'[conn] = down[conn]
  BY <1>0 DEF Reply
<1>2. down'[conn] = down[conn]
  BY <1>1 DEF HubStep, HubAuthenticate, HubSendState, HubFetch, HubDeliver, HubRecvAccept,
         HubRecvReceipt, HubRecvReceiptAck, HubEnd
<1>3. up'[conn] = up[conn]
  BY <1>0 DEF HubStep, HubAuthenticate, HubSendState, HubFetch, HubDeliver, HubRecvAccept,
         HubRecvReceipt, HubRecvReceiptAck, HubEnd, Receives
<1>4. /\ hub'[conn] = hub[conn] /\ states'[conn] = states[conn]
      /\ starts'[conn] = starts[conn] /\ batch'[conn] = batch[conn]
  BY <1>0 DEF HubStep, HubAuthenticate, HubSendState, HubFetch, HubDeliver, HubRecvAccept,
         HubRecvReceipt, HubRecvReceiptAck, HubEnd, hubVars, TypeOK, HubTypeOK
<1> QED
  BY <1>2, <1>3, <1>4

\* A handler of the session that is read what it sent: nothing is left of it but
\* the receipt that was sent with an accept.
LEMMA HandlerHasRead ==
  ASSUME TypeOK, InSession, Asks, UNCHANGED session, up[conn] # <<>>,
         up'[conn] = Tail(up[conn])
  PROVE  /\ Asks'
         /\ Head(up[conn]).type # "accept" => up'[conn] = <<>>
         /\ pc # "await" => up'[conn] = <<>>
         /\ pc = "await" /\ Head(up[conn]).type = "accept" =>
              \/ up[conn] = <<Accept(held.id)>> /\ up'[conn] = <<>>
              \/ up[conn] = <<Accept(held.id), Signed(held)>> /\ up'[conn] = <<Signed(held)>>
<1>0. UNCHANGED <<pc, conn, held, cur>>
  BY DEF session
<1>1. \A a, b : Tail(<<a>>) = <<>> /\ Tail(<<a, b>>) = <<b>> /\ Head(<<a>>) = a
  OBVIOUS
<1>2. \/ pc = "auth" /\ up[conn] = <<Hello>>
      \/ pc = "exec" /\ up[conn] = <<Accept(idOf[cur])>>
      \/ pc = "await" /\ up[conn] = <<Accept(held.id)>>
      \/ pc = "await" /\ up[conn] = <<Signed(held)>>
      \/ pc = "await" /\ up[conn] = <<Accept(held.id), Signed(held)>>
      \/ pc = "confirm" /\ up[conn] = <<Confirm(held.id)>>
  BY DEF InSession, Asks
<1>3. \/ up'[conn] = <<>>
      \/ /\ pc = "await" /\ up[conn] = <<Accept(held.id), Signed(held)>>
         /\ up'[conn] = <<Signed(held)>>
  BY <1>1, <1>2
<1>4. Asks'
  BY <1>0, <1>3 DEF Asks
<1>5. pc = "await" /\ up[conn] = <<Accept(held.id), Signed(held)>>
        => Head(up[conn]).type = "accept"
  <2>1. \A a, b : Head(<<a, b>>) = a
    OBVIOUS
  <2> QED
    BY <2>1, SaidFields
<1>6. pc = "await" /\ Head(up[conn]).type = "accept" => up[conn] # <<Signed(held)>>
  BY <1>1, SaidFields
<1>7. ASSUME pc = "await", Head(up[conn]).type = "accept"
      PROVE  \/ up[conn] = <<Accept(held.id)>> /\ up'[conn] = <<>>
             \/ up[conn] = <<Accept(held.id), Signed(held)>> /\ up'[conn] = <<Signed(held)>>
  <2>1. up[conn] \in {<<Accept(held.id)>>, <<Accept(held.id), Signed(held)>>}
    BY <1>2, <1>6, <1>7
  <2> QED
    BY <1>1, <2>1
<1>8. Head(up[conn]).type # "accept" => up'[conn] = <<>>
  BY <1>3, <1>5
<1>9. pc # "await" => up'[conn] = <<>>
  BY <1>3
<1> QED
  BY <1>4, <1>7, <1>8, <1>9

\* The handler of the session authenticates it.
LEMMA AuthenticateConverses ==
  ASSUME TypeOK, InSession, Dialogue, HubAuthenticate(conn)
  PROVE  Dialogue'
<1>0. /\ UNCHANGED <<pc, conn, held, cur, pending, owed>> /\ conn \in Conn
      /\ hub[conn] = "waiting" /\ up[conn] # <<>> /\ starts' = starts
      /\ down \in [Conn -> Seq(DownMsg)]
  BY SessionQueues DEF HubAuthenticate, session
<1>1. up'[conn] = Tail(up[conn]) /\ hub'[conn] = "open" /\ states'[conn] = StoredRows
  BY <1>0 DEF HubAuthenticate, TypeOK, HubTypeOK, WireTypeOK
<1>2. pc = "auth" /\ pending = <<>> /\ down[conn] = <<>>
  BY <1>0 DEF Dialogue, BeginsEmpty
<1>3. Asks' /\ up'[conn] = <<>>
  BY <1>0, <1>1, <1>2, HandlerHasRead DEF Dialogue, HubAuthenticate
<1> DEFINE m == [type |-> "authenticated", count |-> Cardinality(StoredRows)]
<1>4. m \in DownMsg /\ m.type = "authenticated" /\ m.count = Cardinality(StoredRows)
      /\ Cardinality(StoredRows) \in Nat
  BY CountIsNat, MessageTypes DEF StoredRows, Queued
<1>5. Reply(conn, m)
  BY DEF HubAuthenticate
<1> HIDE DEF m
<1>6. down'[conn] = <<>> \/ down'[conn] = <<m>>
  <2>1. Append(<<>>, m) = <<m>>
    OBVIOUS
  <2> QED
    BY <1>0, <1>2, <1>5, <2>1 DEF Reply
<1>7. /\ DOMAIN <<m>> = {1} /\ <<m>>[1] = m
      /\ \A q \in Seq(DownMsg) : <<>> \o q = q
      /\ <<>> \in Seq(DownMsg) /\ <<m>> \in Seq(DownMsg)
  BY <1>4
<1>8. Wire' = down'[conn]
  BY <1>0, <1>2, <1>6, <1>7 DEF Wire
<1>9. \A i \in DOMAIN down'[conn] : i = 1 /\ down'[conn][i] = m
  BY <1>6, <1>7
<1>10. Announced' = {} /\ \A t : ~Offers(Wire', t)
  BY <1>4, <1>8, <1>9 DEF Announced, At, Offers
<1>11. \A i \in Answers' : i = 1 /\ down'[conn][i] = m
  BY <1>0, <1>9 DEF Answers, At
<1>12. AnswersFit'
  BY <1>0, <1>2, <1>3, <1>4, <1>11 DEF AnswersFit, Fits
<1>13. AnnouncementsCounted'
  <2>1. Cardinality(Announced') = 0
    BY <1>10, FS_EmptySet
  <2> QED
    BY <1>0, <1>1, <1>2, <1>4, <1>11, <2>1 DEF AnnouncementsCounted
<1>14. Delivered'
  BY <1>0, <1>2, <1>10 DEF Delivered
<1>15. BeginsEmpty'
  BY <1>0, <1>1 DEF BeginsEmpty
<1> QED
  BY <1>3, <1>12, <1>13, <1>14, <1>15 DEF Dialogue

\* A handler's step.
LEMMA HubConverses ==
  ASSUME TypeOK, Conversation, NEW c \in Conn, HubStep(c)
  PROVE  Conversation'
<1>0. UNCHANGED session /\ UNCHANGED cut
  BY DEF HubStep, HubAuthenticate, HubSendState, HubFetch, HubDeliver, HubRecvAccept,
         HubRecvReceipt, HubRecvReceiptAck, HubEnd
<1>1. HandlersNew'
  BY HandlersStayNew DEF Conversation
<1> SUFFICES ASSUME InSession PROVE Dialogue'
  BY <1>0, <1>1 DEF Conversation, InSession, session
<1>u. UNCHANGED <<pc, conn, held, cur, pending, owed>>
  BY <1>0 DEF session
<1>d. Dialogue /\ Asks
  BY DEF Conversation, Dialogue
<1>t. conn \in Conn /\ up \in [Conn -> Seq(UpMsg)] /\ down \in [Conn -> Seq(DownMsg)]
      /\ hub \in [Conn -> {"unused", "waiting", "open", "gone"}]
      /\ starts \in [Conn -> SUBSET TaskId] /\ states \in [Conn -> SUBSET Task]
      /\ batch \in [Conn -> SUBSET Task]
  BY SessionQueues DEF TypeOK, HubTypeOK
<1>e. [type |-> "error"] \in DownMsg
  BY MessageTypes
<1>2. CASE c # conn
  <2>1. Asks'
    BY <1>2, <1>u, <1>d, OthersApart DEF Asks
  <2> QED
    BY <1>0, <1>2, <1>d, <2>1, OthersApart, Unsaid
<1>3. CASE c = conn /\ HubAuthenticate(c)
  BY <1>3, <1>d, AuthenticateConverses
<1>4. CASE c = conn /\ HubSendState(c)
  <2>1. /\ hub' = hub /\ starts' = starts /\ up' = up /\ hub[conn] = "open"
    BY <1>4 DEF HubSendState
  <2>2. PICK t \in states[conn] :
          /\ states' = [states EXCEPT ![conn] = @ \ {t}]
          /\ Reply(conn, [type |-> "receipt_state", receipt |-> stored[t]])
    BY <1>4 DEF HubSendState
  <2>3. states'[conn] = states[conn] \ {t}
    BY <1>t, <2>2
  <2>4. stored[t] \in Receipt
    BY <1>t, <2>2 DEF TypeOK, HubTypeOK, RelayTypeOK
  <2> DEFINE m == [type |-> "receipt_state", receipt |-> stored[t]]
  <2>5. m \in DownMsg /\ m.type = "receipt_state" /\ m.type \notin AnswerTypes /\ Reply(conn, m)
    BY <2>2, <2>4, MessageTypes DEF AnswerTypes
  <2> HIDE DEF m
  <2>6. Asks' /\ (up[conn] = <<>> => up'[conn] = <<>>)
    BY <1>u, <1>d, <2>1 DEF Asks
  <2>7. \E u \in states[conn] : states'[conn] = states[conn] \ {u}
    BY <2>3
  <2>8. starts[conn] \subseteq starts'[conn] /\ states'[conn] \subseteq states[conn]
        /\ hub'[conn] # "waiting" /\ m.type # "authenticated" /\ m.type # "task"
    BY <2>1, <2>3, <2>5
  <2> QED
    BY <1>0, <1>d, <2>5, <2>6, <2>7, <2>8, Said
<1>5. CASE c = conn /\ HubFetch(c)
  <2>1. UNCHANGED <<hub, states, starts, up, down>>
    BY <1>5 DEF HubFetch
  <2>2. Asks'
    BY <1>u, <1>d, <2>1 DEF Asks
  <2> QED
    BY <1>0, <1>d, <2>1, <2>2, Unsaid
<1>6. CASE c = conn /\ HubDeliver(c)
  <2>1. /\ hub' = hub /\ states' = states /\ up' = up /\ hub[conn] = "open"
    BY <1>6 DEF HubDeliver
  <2>2. PICK t \in batch[conn] :
          /\ starts' = [starts EXCEPT ![conn] = @ \cup {idOf[t]}]
          /\ Reply(conn, [type |-> "task", task |-> t])
    BY <1>6 DEF HubDeliver
  <2>3. starts'[conn] = starts[conn] \cup {idOf[t]} /\ t \in Task
    BY <1>t, <2>2
  <2> DEFINE m == [type |-> "task", task |-> t]
  <2>4. m \in DownMsg /\ m.type = "task" /\ m.type \notin AnswerTypes /\ m.task = t
        /\ Reply(conn, m)
    BY <2>2, <2>3, MessageTypes DEF AnswerTypes
  <2> HIDE DEF m
  <2>5. Asks' /\ (up[conn] = <<>> => up'[conn] = <<>>)
    BY <1>u, <1>d, <2>1 DEF Asks
  <2>6. starts[conn] \subseteq starts'[conn] /\ states'[conn] \subseteq states[conn]
        /\ hub'[conn] # "waiting" /\ m.type # "authenticated" /\ m.type # "receipt_state"
        /\ idOf[m.task] \in starts'[conn]
    BY <2>1, <2>3, <2>4
  <2> QED
    BY <1>0, <1>d, <2>4, <2>5, <2>6, Said
<1>7. CASE c = conn /\ HubRecvAccept(c)
  <2>1. /\ hub[conn] = "open" /\ up[conn] # <<>> /\ Head(up[conn]).type = "accept"
        /\ up'[conn] = Tail(up[conn]) /\ UNCHANGED <<hub, states, starts>>
    BY <1>7, <1>t DEF HubRecvAccept, Receives, hubVars
  <2>2. Asks'
    BY <1>0, <1>d, <2>1, HandlerHasRead
  <2>3. Head(up[conn]).id \in starts[conn]
    <3>1. \A a, b : Head(<<a>>) = a /\ Head(<<a, b>>) = a
      OBVIOUS
    <3>2. \/ pc = "exec" /\ Head(up[conn]) = Accept(idOf[cur])
          \/ pc = "await" /\ Head(up[conn]) = Accept(held.id)
      BY <1>d, <2>1, <3>1, HandlerReads
    <3> QED
      BY <1>d, <3>2, SaidFields DEF Dialogue, Delivered
  <2>4. down' = down
    BY <1>7, <2>3 DEF HubRecvAccept
  <2> QED
    BY <1>0, <1>d, <2>1, <2>2, <2>4, Unsaid
<1>8. CASE c = conn /\ HubRecvReceipt(c)
  <2>1. /\ hub[conn] = "open" /\ up[conn] # <<>> /\ Head(up[conn]).type = "receipt"
        /\ up'[conn] = Tail(up[conn]) /\ UNCHANGED <<states, starts>>
    BY <1>8, <1>t DEF HubRecvReceipt, Receives
  <2>2. Asks' /\ up'[conn] = <<>>
    BY <1>0, <1>d, <2>1, HandlerHasRead
  <2>3. pc = "await" /\ Head(up[conn]).receipt = held /\ held.id \in TaskId
    <3>1. \A a : Head(<<a>>) = a
      OBVIOUS
    <3>2. pc = "await" /\ Head(up[conn]) = Signed(held)
      BY <1>d, <2>1, <3>1, HandlerReads
    <3> QED
      BY <3>2, SaidFields, ReceiptFields DEF TypeOK, SessionTypeOK
  <2>4. Answers = {}
    BY <1>d, <2>1 DEF Dialogue, AnswersFit
  <2>5. /\ hub'[conn] \in {"open", "gone"}
        /\ \/ down' = down
           \/ Reply(conn, [type |-> "ack", id |-> held.id])
           \/ Reply(conn, [type |-> "error"])
    BY <1>8, <1>t, <2>1, <2>3 DEF HubRecvReceipt
  <2>6. [type |-> "ack", id |-> held.id] \in DownMsg
    BY <2>3, MessageTypes
  <2>7. CASE down' = down
    BY <1>0, <1>d, <2>1, <2>2, <2>5, <2>7, Unsaid
  <2>a. ASSUME NEW m \in DownMsg, Reply(conn, m), m.type \in {"ack", "error"}, Fits(m)
        PROVE  Dialogue'
    <3>1. starts[conn] \subseteq starts'[conn] /\ states'[conn] \subseteq states[conn]
          /\ hub'[conn] # "waiting" /\ m.type # "authenticated" /\ m.type # "receipt_state"
          /\ m.type # "task"
      BY <2>1, <2>5, <2>a
    <3> QED
      BY <1>0, <1>d, <2>2, <2>4, <2>a, <3>1, Said
  <2>8. CASE Reply(conn, [type |-> "ack", id |-> held.id])
    <3>1. Fits([type |-> "ack", id |-> held.id])
      BY <2>3 DEF Fits
    <3> QED
      BY <2>6, <2>8, <2>a, <3>1
  <2>9. CASE Reply(conn, [type |-> "error"])
    <3>1. Fits([type |-> "error"])
      BY <2>3 DEF Fits
    <3> QED
      BY <1>e, <2>9, <2>a, <3>1
  <2> QED
    BY <2>5, <2>7, <2>8, <2>9
<1>9. CASE c = conn /\ HubRecvReceiptAck(c)
  <2>1. /\ hub[conn] = "open" /\ up[conn] # <<>> /\ Head(up[conn]).type = "receipt_ack"
        /\ up'[conn] = Tail(up[conn]) /\ UNCHANGED <<states, starts, hub>>
    BY <1>9, <1>t DEF HubRecvReceiptAck, Receives, hubVars
  <2>2. Asks' /\ up'[conn] = <<>>
    BY <1>0, <1>d, <2>1, HandlerHasRead
  <2>3. pc = "confirm" /\ Head(up[conn]).id = held.id /\ held.id \in TaskId
    <3>1. \A a : Head(<<a>>) = a
      OBVIOUS
    <3>2. pc = "confirm" /\ Head(up[conn]) = Confirm(held.id)
      BY <1>d, <2>1, <3>1, HandlerReads
    <3> QED
      BY <3>2, SaidFields, ReceiptFields DEF TypeOK, SessionTypeOK
  <2>4. Answers = {}
    BY <1>d, <2>1 DEF Dialogue, AnswersFit
  <2>5. \/ Reply(conn, [type |-> "receipt_confirmed", id |-> held.id])
        \/ Reply(conn, [type |-> "error"])
    BY <1>9, <2>3 DEF HubRecvReceiptAck
  <2>6. [type |-> "receipt_confirmed", id |-> held.id] \in DownMsg
    BY <2>3, MessageTypes
  <2>a. ASSUME NEW m \in DownMsg, Reply(conn, m), m.type \in {"receipt_confirmed", "error"},
               Fits(m)
        PROVE  Dialogue'
    <3>1. starts[conn] \subseteq starts'[conn] /\ states'[conn] \subseteq states[conn]
          /\ hub'[conn] # "waiting" /\ m.type # "authenticated" /\ m.type # "receipt_state"
          /\ m.type # "task"
      BY <2>1, <2>a
    <3> QED
      BY <1>0, <1>d, <2>2, <2>4, <2>a, <3>1, Said
  <2>7. CASE Reply(conn, [type |-> "receipt_confirmed", id |-> held.id])
    <3>1. Fits([type |-> "receipt_confirmed", id |-> held.id])
      BY <2>3 DEF Fits
    <3> QED
      BY <2>6, <2>7, <2>a, <3>1
  <2>8. CASE Reply(conn, [type |-> "error"])
    <3>1. Fits([type |-> "error"])
      BY <2>3 DEF Fits
    <3> QED
      BY <1>e, <2>8, <2>a, <3>1
  <2> QED
    BY <2>5, <2>7, <2>8
<1>10. CASE c = conn /\ HubEnd(c)
  <2>1. /\ up'[conn] = <<>> /\ states'[conn] = {} /\ hub'[conn] = "gone"
        /\ UNCHANGED <<starts, down>>
    BY <1>10, <1>t DEF HubEnd
  <2>2. Asks'
    BY <1>u, <2>1 DEF Asks
  <2> QED
    BY <1>0, <1>d, <2>1, <2>2, Unsaid
<1> QED
  BY <1>2, <1>3, <1>4, <1>5, <1>6, <1>7, <1>8, <1>9, <1>10 DEF HubStep

\* The session takes a message, or sets it aside.
LEMMA Taken ==
  ASSUME TypeOK, InSession, conn' = conn
  PROVE  /\ HasMessage /\ TakeMessage =>
              /\ Wire # <<>> /\ Message = Head(Wire) /\ Wire' = Tail(Wire)
              /\ \/ down'[conn] = down[conn]
                 \/ down[conn] # <<>> /\ down'[conn] = Tail(down[conn])
         /\ down[conn] # <<>> /\ TakeWire =>
              /\ down'[conn] = Tail(down[conn])
              /\ pending' = Append(pending, Head(down[conn])) => Wire' = Wire
              /\ pending' = pending => Wire' = pending \o Tail(down[conn])
<1>1. /\ conn \in Conn /\ down \in [Conn -> Seq(DownMsg)]
      /\ pending \in Seq(DownMsg) /\ down[conn] \in Seq(DownMsg)
  BY SessionQueues
<1>2. ASSUME HasMessage, TakeMessage, pending # <<>>
      PROVE  /\ Wire # <<>> /\ Message = Head(Wire) /\ Wire' = Tail(Wire)
             /\ down'[conn] = down[conn]
  <2>1. pending' = Tail(pending) /\ down' = down /\ Message = Head(pending)
    BY <1>2 DEF TakeMessage, Message
  <2>2. Head(pending \o down[conn]) = Head(pending)
        /\ Tail(pending \o down[conn]) = Tail(pending) \o down[conn]
        /\ pending \o down[conn] # <<>>
    BY <1>1, <1>2, WireHeads
  <2> QED
    BY <2>1, <2>2 DEF Wire
<1>3. ASSUME HasMessage, TakeMessage, pending = <<>>
      PROVE  /\ Wire # <<>> /\ Message = Head(Wire) /\ Wire' = Tail(Wire)
             /\ down[conn] # <<>> /\ down'[conn] = Tail(down[conn])
  <2>1. down[conn] # <<>> /\ down'[conn] = Tail(down[conn]) /\ pending' = <<>>
    BY <1>1, <1>3 DEF HasMessage, TakeMessage
  <2>2. Tail(down[conn]) \in Seq(DownMsg)
    BY <1>1, <2>1, QueueParts
  <2>3. /\ <<>> \o down[conn] = down[conn]
        /\ <<>> \o Tail(down[conn]) = Tail(down[conn])
    BY <1>1, <2>2, WireEmpty
  <2>4. Wire = down[conn] /\ Wire' = Tail(down[conn])
    BY <1>3, <2>1, <2>3 DEF Wire
  <2> QED
    BY <1>3, <2>1, <2>4 DEF Message
<1>4. ASSUME down[conn] # <<>>, TakeWire
      PROVE  /\ down'[conn] = Tail(down[conn])
             /\ pending' = Append(pending, Head(down[conn])) => Wire' = Wire
             /\ pending' = pending => Wire' = pending \o Tail(down[conn])
  <2>1. down'[conn] = Tail(down[conn])
    BY <1>1, <1>4 DEF TakeWire
  <2>2. Append(pending, Head(down[conn])) \o Tail(down[conn]) = pending \o down[conn]
    BY <1>1, <1>4, WireMoves
  <2> QED
    BY <2>1, <2>2 DEF Wire
<1> QED
  BY <1>2, <1>3, <1>4

\* What is on the wire when a message has left it.
LEMMA WireLess ==
  ASSUME TypeOK, InSession,
         \/ Wire # <<>> /\ Wire' = Tail(Wire)
         \/ down[conn] # <<>> /\ Wire' = pending \o Tail(down[conn])
  PROVE  /\ Wire' \in Seq(DownMsg)
         /\ \A t : Offers(Wire', t) => Offers(Wire, t)
         /\ OffersOnce(Wire) => OffersOnce(Wire')
         /\ Cardinality(Announced') \in Nat
         /\ Cardinality(Announced') <= Cardinality(Announced)
         /\ Wire' = Tail(Wire) /\ Wire # <<>> /\ Head(Wire).type = "receipt_state"
              => Cardinality(Announced') + 1 <= Cardinality(Announced)
<1>1. pending \in Seq(DownMsg) /\ down[conn] \in Seq(DownMsg) /\ Wire \in Seq(DownMsg)
  BY SessionQueues
<1>2. Wire' \in Seq(DownMsg)
  <2>1. CASE Wire # <<>> /\ Wire' = Tail(Wire)
    BY <1>1, <2>1, QueueParts
  <2>2. CASE down[conn] # <<>> /\ Wire' = pending \o Tail(down[conn])
    <3>1. Tail(down[conn]) \in Seq(DownMsg)
      BY <1>1, <2>2, QueueParts
    <3> QED
      BY <1>1, <2>2, <3>1, QueueParts
  <2> QED
    BY <2>1, <2>2
<1>3. Cardinality(Announced') \in Nat
  BY <1>2, PlacesCount DEF Announced
<1>4. CASE Wire # <<>> /\ Wire' = Tail(Wire)
  <2>1. /\ \A t : Offers(Tail(Wire), t) => Offers(Wire, t)
        /\ OffersOnce(Wire) => OffersOnce(Tail(Wire))
        /\ Cardinality(At(Tail(Wire), {"receipt_state"}))
             <= Cardinality(At(Wire, {"receipt_state"}))
        /\ Head(Wire).type \in {"receipt_state"} =>
             Cardinality(At(Tail(Wire), {"receipt_state"})) + 1
               <= Cardinality(At(Wire, {"receipt_state"}))
    BY <1>1, <1>4, AtShrinks
  <2> QED
    BY <1>2, <1>3, <1>4, <2>1 DEF Announced
<1>5. CASE down[conn] # <<>> /\ Wire' = pending \o Tail(down[conn]) /\ ~(Wire # <<>> /\ Wire' = Tail(Wire))
  <2>1. /\ Cardinality(At(pending \o Tail(down[conn]), {"receipt_state"}))
             <= Cardinality(At(pending \o down[conn], {"receipt_state"}))
        /\ \A t : Offers(pending \o Tail(down[conn]), t) => Offers(pending \o down[conn], t)
        /\ OffersOnce(pending \o down[conn]) => OffersOnce(pending \o Tail(down[conn]))
    BY <1>1, <1>5, AtDrops
  <2> QED
    BY <1>2, <1>3, <1>5, <2>1 DEF Announced, Wire
<1> QED
  BY <1>4, <1>5

\* The answers to the session when a message has left the queue.
LEMMA AnswersLess ==
  ASSUME TypeOK, InSession, AnswersFit, conn' = conn, down[conn] # <<>>,
         down'[conn] = Tail(down[conn])
  PROVE  /\ Head(down[conn]).type \in AnswerTypes
              => Fits(Head(down[conn])) /\ up[conn] = <<>> /\ Answers' = {}
         /\ Answers = {} => Answers' = {}
         /\ \A i \in Answers' : i + 1 \in Answers /\ down'[conn][i] = down[conn][i + 1]
         /\ \A i, j \in Answers' : i = j
<1>1. down[conn] \in Seq(DownMsg)
  BY SessionQueues
<1>2. Answers = At(down[conn], AnswerTypes) /\ Answers' = At(Tail(down[conn]), AnswerTypes)
  BY DEF Answers
<1>3. \A i, j \in At(down[conn], AnswerTypes) : i = j
  BY <1>2 DEF AnswersFit
<1>4. Head(down[conn]).type \in AnswerTypes
        => 1 \in Answers /\ Head(down[conn]) = down[conn][1]
  BY <1>1, <1>2, PlacesShrink DEF At
<1>5. LET Left == At(Tail(down[conn]), AnswerTypes) IN
        /\ \A i \in Left : /\ i + 1 \in At(down[conn], AnswerTypes)
                           /\ Tail(down[conn])[i] = down[conn][i + 1]
        /\ \A i, j \in Left : i = j
        /\ Head(down[conn]).type \in AnswerTypes => Left = {}
        /\ At(down[conn], AnswerTypes) = {} => Left = {}
  BY <1>1, <1>3, AtShrinks
<1>6. Head(down[conn]).type \in AnswerTypes => Fits(Head(down[conn])) /\ up[conn] = <<>>
  BY <1>4 DEF AnswersFit
<1> QED
  BY <1>2, <1>5, <1>6

\* A node that serves or executes has no answer to wait for.
LEMMA NothingAnswered ==
  ASSUME InSession, AnswersFit, pc \in {"serve", "exec"}
  PROVE  Answers = {}
  BY DEF AnswersFit, Fits

\* What the node sends joins the queue to its handler, or is lost.
LEMMA EmitSays ==
  ASSUME TypeOK, InSession, NEW msgs, Emit(msgs)
  PROVE  /\ up'[conn] = up[conn] \/ up'[conn] = up[conn] \o msgs
         /\ conn \notin cut /\ hub[conn] \in {"waiting", "open"}
              => up'[conn] = up[conn] \o msgs
<1>1. conn \in Conn /\ up \in [Conn -> Seq(UpMsg)]
  BY SessionQueues
<1> QED
  BY <1>1 DEF Emit

\* A session that ends has nothing to say.
LEMMA LeaveConverses ==
  ASSUME TypeOK, Conversation, NEW next \in {"down", "idle", "done", "failed", "aborted"},
         LeaveSession(next), UNCHANGED <<hub, states, batch, conns>>
  PROVE  Conversation'
<1>1. conns \in Nat /\ conn' = 0 /\ ~InSession'
  BY DEF TypeOK, CounterTypeOK, LeaveSession, InSession
<1> QED
  BY <1>1 DEF Conversation, HandlersNew

\* A session begins: its connection is new.
LEMMA ConnectConverses ==
  ASSUME TypeOK, Belonging, Conversation, Connect
  PROVE  Conversation'
<1>1. ~InSession /\ conns \in 0 .. MaxConn /\ conns < MaxConn
  BY DEF Connect, InSession, TypeOK, CounterTypeOK
<1>2. conn = 0 /\ pending = <<>> /\ conns + 1 \in Conn /\ conns + 1 # 0
  BY <1>1 DEF TypeOK, SessionTypeOK, Belonging, WiresKnown, Conn
<1>3. down[conns + 1] = <<>> /\ hub[conns + 1] = "unused" /\ states[conns + 1] = {}
  BY <1>1, <1>2 DEF Belonging, WiresKnown, Conversation, HandlersNew
<1>4. /\ conn' = conns + 1 /\ conns' = conns + 1 /\ pc' = "auth"
      /\ hub' = [hub EXCEPT ![conns + 1] = "waiting"]
      /\ up'[conns + 1] = <<Hello>>
      /\ UNCHANGED <<states, batch, starts, down, pending>>
  BY <1>2 DEF Connect, Hello, TypeOK, WireTypeOK
<1>5. HandlersNew'
  BY <1>1, <1>2, <1>4 DEF Conversation, HandlersNew, TypeOK, HubTypeOK, Conn
<1>6. <<>> \o <<>> = <<>> /\ DOMAIN <<>> = {}
  OBVIOUS
<1>7. Wire' = <<>> /\ down'[conn'] = <<>>
  BY <1>2, <1>3, <1>4, <1>6 DEF Wire
<1>8. Answers' = {} /\ \A t : ~Offers(Wire', t)
  BY <1>6, <1>7 DEF Answers, At, Offers
<1>9. Asks' /\ AnswersFit' /\ Delivered' /\ AnnouncementsCounted'
  BY <1>4, <1>8 DEF Asks, AnswersFit, Delivered, AnnouncementsCounted
<1>10. BeginsEmpty'
  BY <1>2, <1>3, <1>4 DEF BeginsEmpty
<1> QED
  BY <1>5, <1>9, <1>10 DEF Conversation, Dialogue

\* The session goes on: where the node now is, and what it says and awaits there.
LEMMA GoesOn ==
  ASSUME Conversation, InSession, hub[conn] # "waiting", pc' # "auth",
         UNCHANGED <<conn, conns, hub, states, batch, starts>>,
         Asks', AnswersFit',
         \A t : Offers(Wire', t) => Offers(Wire, t),
         pc' = "exec" => idOf[cur'] \in starts[conn],
         pc' = "await" => held'.id \in starts[conn],
         Cardinality(Announced') + Cardinality(states[conn]) <= owed',
         pc' \in {"exec", "await"} => owed' = 0
  PROVE  Conversation'
<1>1. HandlersNew'
  BY DEF Conversation, HandlersNew
<1>2. Delivered' /\ AnnouncementsCounted' /\ BeginsEmpty'
  BY DEF Conversation, Dialogue, Delivered, AnnouncementsCounted, BeginsEmpty
<1> QED
  BY <1>1, <1>2 DEF Conversation, Dialogue

\* The node learns how many receipts it owes.
LEMMA AuthenticatedConverses ==
  ASSUME TypeOK, Conversation, RecvAuthenticated
  PROVE  Conversation'
<1>1. /\ pc = "auth" /\ pc' = "serve" /\ owed' = Head(down[conn]).count
      /\ down[conn] # <<>> /\ Head(down[conn]).type = "authenticated" /\ TakeWire
      /\ UNCHANGED <<conn, conns, pending, up, hub, states, batch, starts>>
  BY DEF RecvAuthenticated, OnWire, Declared, hubVars, counters
<1>2. InSession /\ Dialogue /\ AnswersFit
  BY <1>1 DEF InSession, Conversation, Dialogue
<1>3. down'[conn] = Tail(down[conn]) /\ Wire' = pending \o Tail(down[conn])
  BY <1>1, <1>2, Taken
<1>4. up[conn] = <<>> /\ Answers' = {}
  BY <1>1, <1>2, <1>3, AnswersLess DEF AnswerTypes
<1>5. Asks' /\ AnswersFit'
  BY <1>1, <1>4 DEF Asks, AnswersFit
<1>6. hub[conn] # "waiting"
  BY <1>1, <1>2 DEF Dialogue, BeginsEmpty
<1>7. Cardinality(Announced') + Cardinality(states[conn]) <= owed'
  <2>1. down[conn] \in Seq(DownMsg) /\ conn \in Conn /\ Cardinality(Announced) \in Nat
    BY <1>2, SessionQueues
  <2>2. 1 \in Answers /\ down[conn][1] = Head(down[conn])
    BY <1>1, <2>1, PlacesShrink DEF Answers, At, AnswerTypes
  <2>3. Cardinality(Announced) + Cardinality(states[conn]) <= owed' /\ owed' \in Nat
    BY <1>1, <1>2, <2>2, AnswerCounts DEF Dialogue, AnnouncementsCounted
  <2>4. Cardinality(Announced') \in Nat /\ Cardinality(Announced') <= Cardinality(Announced)
    BY <1>1, <1>2, <1>3, WireLess
  <2>5. Cardinality(states[conn]) \in Nat
    BY <2>1, StatesCount
  <2> QED
    BY <2>1, <2>3, <2>4, <2>5
<1>8. \A t : Offers(Wire', t) => Offers(Wire, t)
  BY <1>1, <1>2, <1>3, WireLess
<1> QED
  BY <1>1, <1>2, <1>5, <1>6, <1>7, <1>8, GoesOn

\* The node serves a receipt that was announced: it asks for its confirmation.
LEMMA StateConverses ==
  ASSUME TypeOK, Conversation, RecvReceiptState
  PROVE  Conversation'
<1> DEFINE r == Message.receipt
<1>1. /\ pc = "serve" /\ HasMessage /\ Message.type = "receipt_state"
      /\ UNCHANGED <<conns, hub, states, batch, starts>>
  BY DEF RecvReceiptState, hubVars, counters
<1>2. InSession /\ Dialogue /\ AnswersFit /\ Asks
  BY <1>1 DEF InSession, Conversation, Dialogue
<1>3. CASE Abort
  BY <1>1, <1>3, LeaveConverses DEF Abort
<1>4. CASE ~Abort
  <2>1. /\ TakeMessage /\ conn' = conn /\ held' = r /\ pc' = "confirm"
        /\ Emit(<<[type |-> "receipt_ack", id |-> r.id]>>)
        /\ owed' = IF owed > 0 THEN owed - 1 ELSE 0
    BY <1>4 DEF RecvReceiptState, Acknowledge
  <2>2. /\ Wire # <<>> /\ Message = Head(Wire) /\ Wire' = Tail(Wire)
        /\ \/ down'[conn] = down[conn]
           \/ down[conn] # <<>> /\ down'[conn] = Tail(down[conn])
    BY <1>1, <1>2, <2>1, Taken
  <2>3. Answers' = {}
    <3>1. Answers = {}
      BY <1>1, <1>2, NothingAnswered
    <3>2. CASE down'[conn] = down[conn]
      BY <2>1, <3>1, <3>2 DEF Answers
    <3> QED
      BY <1>2, <2>1, <2>2, <3>1, <3>2, AnswersLess
  <2>4. up'[conn] \in {<<>>, <<Confirm(held'.id)>>}
    <3>1. up[conn] = <<>>
      BY <1>1, <1>2 DEF Asks
    <3> QED
      BY <1>2, <2>1, <3>1, EmitSays, ShortQueues DEF Confirm
  <2>5. Asks' /\ AnswersFit'
    BY <2>1, <2>3, <2>4 DEF Asks, AnswersFit
  <2>6. hub[conn] # "waiting"
    BY <1>1, <1>2 DEF Dialogue, BeginsEmpty
  <2>7. Cardinality(Announced') + Cardinality(states[conn]) <= owed'
    <3>1. /\ Cardinality(Announced) \in Nat /\ conn \in Conn /\ owed \in Nat
          /\ Cardinality(Announced) + Cardinality(states[conn]) <= owed
      BY <1>1, <1>2, SessionQueues DEF Dialogue, AnnouncementsCounted
    <3>2. Cardinality(states[conn]) \in Nat
      BY <3>1, StatesCount
    <3>3. /\ Cardinality(Announced') \in Nat
          /\ Cardinality(Announced') + 1 <= Cardinality(Announced)
      BY <1>1, <1>2, <2>2, WireLess
    <3> QED
      BY <2>1, <3>1, <3>2, <3>3
  <2>8. \A t : Offers(Wire', t) => Offers(Wire, t)
    BY <1>2, <2>2, WireLess
  <2> QED
    BY <1>1, <1>2, <2>1, <2>5, <2>6, <2>7, <2>8, GoesOn
<1> QED
  BY <1>3, <1>4

\* The node takes a task that its handler has delivered, and accepts it.
LEMMA TaskConverses ==
  ASSUME TypeOK, Agreement, Conversation, RecvTask
  PROVE  Conversation'
<1> DEFINE t == Message.task
           r == KnownReceipt(t)
<1>1. /\ pc = "serve" /\ owed = 0 /\ HasMessage /\ Message.type = "task"
      /\ UNCHANGED <<conns, hub, states, batch, starts>>
  BY DEF RecvTask, hubVars, counters
<1>2. InSession /\ Dialogue /\ AnswersFit /\ Asks
  BY <1>1 DEF InSession, Conversation, Dialogue
<1>3. CASE Abort
  BY <1>1, <1>3, LeaveConverses DEF Abort
<1>4. CASE ~Abort
  <2>1. /\ TakeMessage /\ conn' = conn /\ owed' = 0
        /\ \/ /\ r # NoReceipt /\ held' = r /\ pc' = "await"
              /\ Emit(<<Accept(idOf[t]), Signed(r)>>)
           \/ /\ cur' = t /\ pc' = "exec"
              /\ Emit(<<Accept(idOf[t])>>)
    BY <1>1, <1>4 DEF RecvTask, Accept, Signed
  <2>2. /\ Wire # <<>> /\ Message = Head(Wire) /\ Wire' = Tail(Wire)
        /\ \/ down'[conn] = down[conn]
           \/ down[conn] # <<>> /\ down'[conn] = Tail(down[conn])
    BY <1>1, <1>2, <2>1, Taken
  <2>w. Wire \in Seq(DownMsg)
    BY <1>2, SessionQueues
  <2>3. Answers' = {}
    <3>1. Answers = {}
      BY <1>1, <1>2, NothingAnswered
    <3>2. CASE down'[conn] = down[conn]
      BY <2>1, <3>1, <3>2 DEF Answers
    <3> QED
      BY <1>2, <2>1, <2>2, <3>1, <3>2, AnswersLess
  <2>4. t \in Task /\ idOf[t] \in starts[conn]
    <3>1. Offers(Wire, t)
      BY <1>1, <2>2, <2>w, AtShrinks
    <3>2. t \in Task
      BY <1>1, <2>2, <2>w, QueueParts, MessageFields
    <3> QED
      BY <1>2, <3>1, <3>2 DEF Dialogue, Delivered
  <2>5. r # NoReceipt => r.id = idOf[t]
    BY <2>4 DEF KnownReceipt, Agreement, JournalAgrees
  <2>6. Asks'
    <3>1. up[conn] = <<>>
      BY <1>1, <1>2 DEF Asks
    <3>2. \/ pc' = "await" /\ up'[conn] \in {<<>>, <<Accept(held'.id), Signed(held')>>}
          \/ pc' = "exec" /\ up'[conn] \in {<<>>, <<Accept(idOf[cur'])>>}
      BY <1>2, <2>1, <2>5, <3>1, EmitSays, ShortQueues
    <3> QED
      BY <2>1, <3>2 DEF Asks
  <2>7. AnswersFit'
    BY <2>3 DEF AnswersFit
  <2>8. hub[conn] # "waiting"
    BY <1>1, <1>2 DEF Dialogue, BeginsEmpty
  <2>9. Cardinality(Announced') + Cardinality(states[conn]) <= owed'
    <3>1. /\ Cardinality(Announced) \in Nat /\ conn \in Conn
          /\ Cardinality(Announced) + Cardinality(states[conn]) <= 0
      BY <1>1, <1>2, SessionQueues DEF Dialogue, AnnouncementsCounted
    <3>2. Cardinality(states[conn]) \in Nat
      BY <3>1, StatesCount
    <3>3. /\ Cardinality(Announced') \in Nat
          /\ Cardinality(Announced') <= Cardinality(Announced)
      BY <1>2, <2>2, WireLess
    <3> QED
      BY <2>1, <3>1, <3>2, <3>3
  <2>10. \A u : Offers(Wire', u) => Offers(Wire, u)
    BY <1>2, <2>2, WireLess
  <2> QED
    BY <1>1, <1>2, <2>1, <2>4, <2>5, <2>6, <2>7, <2>8, <2>9, <2>10, GoesOn
<1> QED
  BY <1>3, <1>4

\* The execution ends and its receipt is sent.
LEMMA ExecuteConverses ==
  ASSUME TypeOK, Conversation, Execute
  PROVE  Conversation'
<1>1. /\ pc = "exec" /\ pc' = "await"
      /\ held'.id = idOf[cur] /\ Emit(<<Signed(held')>>)
      /\ UNCHANGED <<conn, conns, owed, pending, down, hub, states, batch, starts>>
  BY DEF Execute, Signed, hubVars
<1>2. InSession /\ Dialogue /\ AnswersFit /\ Asks
  BY <1>1 DEF InSession, Conversation, Dialogue
<1>3. Wire' = Wire /\ Answers' = {} /\ Announced' = Announced
  BY <1>1, <1>2, NothingAnswered DEF Wire, Answers, Announced
<1>4. Asks'
  <2>1. up[conn] \in {<<>>, <<Accept(idOf[cur])>>}
    BY <1>1, <1>2 DEF Asks
  <2>2. up'[conn] \in {<<>>, <<Accept(held'.id)>>, <<Signed(held')>>,
                       <<Accept(held'.id), Signed(held')>>}
    <3>1. up'[conn] = up[conn] \/ up'[conn] = up[conn] \o <<Signed(held')>>
      BY <1>1, <1>2, EmitSays
    <3>2. <<>> \o <<Signed(held')>> = <<Signed(held')>>
      BY ShortQueues
    <3>3. <<Accept(held'.id)>> \o <<Signed(held')>> = <<Accept(held'.id), Signed(held')>>
      BY ShortQueues
    <3> QED
      BY <1>1, <2>1, <3>1, <3>2, <3>3
  <2> QED
    BY <1>1, <2>2 DEF Asks
<1>5. AnswersFit'
  BY <1>3 DEF AnswersFit
<1>6. hub[conn] # "waiting" /\ idOf[cur] \in starts[conn]
  BY <1>1, <1>2 DEF Dialogue, BeginsEmpty, Delivered
<1>7. Cardinality(Announced) + Cardinality(states[conn]) <= owed /\ owed = 0
  BY <1>1, <1>2 DEF Dialogue, AnnouncementsCounted
<1> QED
  BY <1>1, <1>2, <1>3, <1>4, <1>5, <1>6, <1>7, GoesOn

\* The node sets a message aside.
LEMMA SetAsideConverses ==
  ASSUME TypeOK, Conversation, SetAside
  PROVE  Conversation'
<1>1. /\ pc \in {"exec", "await", "confirm"} /\ pc' = pc
      /\ down[conn] # <<>> /\ TakeWire /\ pending' = Append(pending, Head(down[conn]))
      /\ UNCHANGED <<conn, conns, owed, held, cur, up, hub, states, batch, starts>>
  BY DEF SetAside, OnWire, hubVars, counters
<1>2. InSession /\ Dialogue /\ AnswersFit /\ Asks
  BY <1>1 DEF InSession, Conversation, Dialogue
<1>3. Wire' = Wire /\ down'[conn] = Tail(down[conn])
  BY <1>1, <1>2, Taken
<1>4. AnswersFit'
  <2>1. \A m : Fits(m)' <=> Fits(m)
    BY <1>1 DEF Fits
  <2> QED
    BY <1>1, <1>2, <1>3, <2>1, AnswersLess DEF AnswersFit
<1>5. Asks'
  BY <1>1, <1>2 DEF Asks
<1>6. hub[conn] # "waiting" /\ Announced' = Announced
  BY <1>1, <1>2, <1>3 DEF Dialogue, BeginsEmpty, Announced
<1>7. /\ pc = "exec" => idOf[cur] \in starts[conn]
      /\ pc = "await" => held.id \in starts[conn]
      /\ Cardinality(Announced) + Cardinality(states[conn]) <= owed
      /\ pc \in {"exec", "await"} => owed = 0
  BY <1>1, <1>2 DEF Dialogue, Delivered, AnnouncementsCounted
<1> QED
  BY <1>1, <1>2, <1>3, <1>4, <1>5, <1>6, <1>7, GoesOn

\* The node has its answer.
LEMMA AnswerConverses ==
  ASSUME TypeOK, Conversation, RecvAck \/ RecvConfirmed
  PROVE  Conversation'
<1>1. /\ pc \in {"await", "confirm"} /\ down[conn] # <<>> /\ TakeWire
      /\ Head(down[conn]).type \in AnswerTypes
      /\ UNCHANGED <<conn, conns, owed, pending, hub, states, batch, starts>>
      /\ \/ /\ pc' = "confirm" /\ held' = held
            /\ Emit(<<Confirm(held.id)>>)
         \/ pc' = "serve" /\ up' = up
  BY DEF RecvAck, RecvConfirmed, Acknowledge, OnWire, AnswerTypes, Confirm, hubVars, counters
<1>2. InSession /\ Dialogue /\ AnswersFit
  BY <1>1 DEF InSession, Conversation, Dialogue
<1>3. down'[conn] = Tail(down[conn]) /\ Wire' = pending \o Tail(down[conn])
  BY <1>1, <1>2, Taken
<1>4. up[conn] = <<>> /\ Answers' = {}
  BY <1>1, <1>2, <1>3, AnswersLess
<1>5. Asks'
  <2>1. \/ pc' = "confirm" /\ up'[conn] \in {<<>>, <<Confirm(held'.id)>>}
        \/ pc' = "serve" /\ up'[conn] = <<>>
    BY <1>1, <1>2, <1>4, EmitSays, ShortQueues
  <2> QED
    BY <1>1, <2>1 DEF Asks
<1>6. AnswersFit'
  BY <1>4 DEF AnswersFit
<1>7. hub[conn] # "waiting"
  BY <1>1, <1>2 DEF Dialogue, BeginsEmpty
<1>8. Cardinality(Announced') + Cardinality(states[conn]) <= owed'
  <2>1. /\ Cardinality(Announced) \in Nat /\ conn \in Conn /\ owed \in Nat
        /\ Cardinality(Announced) + Cardinality(states[conn]) <= owed
    BY <1>1, <1>2, SessionQueues DEF Dialogue, AnnouncementsCounted
  <2>2. Cardinality(states[conn]) \in Nat
    BY <2>1, StatesCount
  <2>3. Cardinality(Announced') \in Nat /\ Cardinality(Announced') <= Cardinality(Announced)
    BY <1>1, <1>2, <1>3, WireLess
  <2> QED
    BY <1>1, <2>1, <2>2, <2>3
<1>9. \A t : Offers(Wire', t) => Offers(Wire, t)
  BY <1>1, <1>2, <1>3, WireLess
<1>10. pc' \notin {"auth", "exec", "await"}
  BY <1>1
<1> QED
  BY <1>1, <1>2, <1>5, <1>6, <1>7, <1>8, <1>9, <1>10, GoesOn

\* A step of the node.
LEMMA NodeConverses ==
  ASSUME TypeOK, Agreement, Belonging, Conversation, NodeStep
  PROVE  Conversation'
<1>1. CASE RecvError \/ Finish \/ SeesClose \/ IdleTimeout
  <2>1. \E next \in {"idle", "failed", "aborted", "done"} : LeaveSession(next)
    BY <1>1 DEF RecvError, Finish, SeesClose, IdleTimeout, Retry, Abort
  <2>2. UNCHANGED <<hub, states, batch, conns>>
    BY <1>1 DEF RecvError, Finish, SeesClose, IdleTimeout, Retry, hubVars, counters
  <2> QED
    BY <2>1, <2>2, LeaveConverses
<1> QED
  BY <1>1, ConnectConverses, AuthenticatedConverses, StateConverses, TaskConverses,
     ExecuteConverses, SetAsideConverses, AnswerConverses DEF NodeStep

\* Tasks, processes and faults: what ends a handler loses what it had not read.
LEMMA EnvironmentConverses ==
  ASSUME TypeOK, Conversation,
         (\E t \in Task : Submit(t) \/ Expire(t)) \/ StartProcess \/ Fault \/ UNCHANGED vars
  PROVE  Conversation'
<1>1. CASE /\ UNCHANGED session
           /\ UNCHANGED <<conns, down, starts>>
           /\ \/ UNCHANGED <<hub, states, batch, up>>
              \/ HubStops
  <2>1. UNCHANGED <<pc, conn, held, cur>>
    BY <1>1 DEF session
  <2>2. HandlersNew'
    BY <1>1, <2>1 DEF Conversation, HandlersNew, HubStops
  <2>3. ASSUME InSession PROVE Dialogue'
    <3>1. conn \in Conn /\ Dialogue
      BY <2>3, SessionQueues DEF Conversation
    <3>2. up'[conn] = up[conn] \/ up'[conn] = <<>>
      BY <1>1, <3>1 DEF HubStops
    <3>3. Asks'
      BY <2>1, <3>1, <3>2 DEF Dialogue, Asks
    <3>4. states'[conn] \subseteq states[conn]
          /\ (hub'[conn] = "waiting" => hub[conn] = "waiting")
      BY <1>1, <3>1 DEF HubStops
    <3> QED
      BY <1>1, <2>3, <3>1, <3>2, <3>3, <3>4, Unsaid
  <2> QED
    BY <2>1, <2>2, <2>3 DEF Conversation, InSession
<1>2. CASE (\E t \in Task : Submit(t) \/ Expire(t)) \/ CutLink \/ TakeSnapshot
           \/ HubRestart \/ RestoreSnapshot \/ UNCHANGED vars
  <2>1. UNCHANGED session /\ UNCHANGED <<conns, down, starts>>
    BY <1>2 DEF Submit, Expire, CutLink, TakeSnapshot, HubRestart, RestoreSnapshot, HubStops,
                vars, hubVars, counters
  <2>2. UNCHANGED <<hub, states, batch, up>> \/ HubStops
    BY <1>2 DEF Submit, Expire, CutLink, TakeSnapshot, HubRestart, RestoreSnapshot,
                vars, hubVars
  <2> QED
    BY <1>1, <2>1, <2>2
<1>3. CASE StartProcess \/ ConnectFails
  <2>1. UNCHANGED <<hub, states, batch, conn, conns>> /\ pc' \in {"idle", "failed"}
    BY <1>3 DEF StartProcess, ConnectFails, hubVars
  <2> QED
    BY <2>1 DEF Conversation, HandlersNew, InSession
<1>4. CASE Crash
  BY <1>4, LeaveConverses DEF Crash, hubVars, counters
<1> QED
  BY <1>2, <1>3, <1>4 DEF Fault

\* The conversation of every session.
LEMMA ConversationInvariant == Spec => []Conversation
<1>1. Init => Conversation
  BY DEF Init, Conversation, HandlersNew, InSession, Conn
<1>2. TypeOK /\ Agreement /\ Belonging /\ Conversation /\ [Next]_vars => Conversation'
  BY HubConverses, NodeConverses, EnvironmentConverses DEF Next
<1> QED
  BY <1>1, <1>2, BelongingInvariant, PTL DEF Spec

\* The loops of the session ignore some messages and fail on others: none of those
\* ever arrives, whatever breaks and however late a handler is.
THEOREM AnswersAreMatched == Spec => []AnswersMatch
<1>1. TypeOK /\ Conversation => AnswersMatch
  <2> SUFFICES ASSUME TypeOK, Conversation, InSession, NEW i \in DOMAIN down[conn]
               PROVE  LET m == down[conn][i] IN
                        CASE pc = "auth"    -> m.type \in {"authenticated", "receipt_state", "task"}
                          [] pc = "serve"   -> m.type \in {"receipt_state", "task"}
                          [] pc = "exec"    -> m.type = "task"
                          [] pc = "await"   -> \/ m.type \in {"task", "error"}
                                               \/ m.type = "ack" /\ m.id = held.id
                          [] pc = "confirm" -> \/ m.type \in {"receipt_state", "task", "error"}
                                               \/ m.type = "receipt_confirmed" /\ m.id = held.id
    BY DEF AnswersMatch
  <2> DEFINE m == down[conn][i]
  <2>1. /\ down[conn] \in Seq(DownMsg) /\ pending \in Seq(DownMsg) /\ Wire \in Seq(DownMsg)
        /\ conn \in Conn /\ Cardinality(Announced) \in Nat
    BY SessionQueues
  <2>2. m \in DownMsg
    BY <2>1
  <2>3. m.type \in AnswerTypes \cup {"receipt_state", "task"}
    BY <2>2 DEF DownMsg, AnswerTypes
  <2>4. m.type \in AnswerTypes => Fits(m)
    BY DEF Conversation, Dialogue, AnswersFit, Answers, At
  <2>5. pc \in {"exec", "await"} => m.type # "receipt_state"
    <3> SUFFICES ASSUME pc \in {"exec", "await"}, m.type = "receipt_state" PROVE FALSE
      OBVIOUS
    <3>1. Cardinality(Announced) + Cardinality(states[conn]) <= 0
          /\ Cardinality(states[conn]) \in Nat
      BY <2>1, StatesCount DEF Conversation, Dialogue, AnnouncementsCounted
    <3>2. Cardinality(Announced) = 0
      BY <2>1, <3>1
    <3>3. Announced = {}
      BY <2>1, <3>2, PlacesCount, FS_EmptySet DEF Announced
    <3>4. /\ Len(pending) + i \in DOMAIN (pending \o down[conn])
          /\ (pending \o down[conn])[Len(pending) + i] = down[conn][i]
      <4>1. pending \in Seq(DownMsg) /\ down[conn] \in Seq(DownMsg) /\ i \in DOMAIN down[conn]
        BY <2>1
      <4> QED
        BY <4>1, SecondPart
    <3> QED
      BY <3>3, <3>4 DEF Announced, At, Wire
  <2> HIDE DEF m
  <2>6. CASE pc = "auth"
    BY <2>3, <2>4, <2>6 DEF Fits, m
  <2>7. CASE pc = "serve"
    BY <2>3, <2>4, <2>7 DEF Fits, m
  <2>8. CASE pc = "exec"
    BY <2>3, <2>4, <2>5, <2>8 DEF Fits, m
  <2>9. CASE pc = "await"
    BY <2>3, <2>4, <2>5, <2>9 DEF Fits, AnswerTypes, m
  <2>10. CASE pc = "confirm"
    BY <2>3, <2>4, <2>10 DEF Fits, AnswerTypes, m
  <2> QED
    BY <2>6, <2>7, <2>8, <2>9, <2>10 DEF InSession
<1> QED
  BY <1>1, ConversationInvariant, Typing, PTL

-----------------------------------------------------------------------------
(* No session ends with an error                                           *)

\* The node has claimed only tasks the Relay has a row for, and no two rows have
\* one nonce.
Named == \A id \in TaskId : journal[id].task # NoTask => journal[id].task \in Queued
NoncesUnique == \A t, u \in Queued : nonceOf[t] = nonceOf[u] => t = u

\* A task whose row waits for its receipt.
Waits(t) == t \in Queued /\ stored[t] = NoReceipt

\* The node and its handler hear each other.
Talks == InSession /\ conn \notin cut /\ hub[conn] \in {"waiting", "open"}

\* The task the node works on, and the one whose receipt it confirms.
WorksOn(id) == (pc = "exec" /\ idOf[cur] = id) \/ (pc = "await" /\ held.id = id)
Confirms(id) == pc = "confirm" /\ held.id = id

\* The tasks fetched and offered wait for a receipt, each of them once.
TasksWait ==
    /\ \A t \in batch[conn] : Waits(t) /\ idOf[t] \notin starts[conn]
    /\ \A t \in Task : Offers(Wire, t) => Waits(t) /\ ~WorksOn(idOf[t])
    /\ OffersOnce(Wire)

\* The receipts read and announced are still to be confirmed.
ReceiptsWait ==
    /\ \A t \in states[conn] : t \in StoredRows /\ ~Confirms(idOf[t])
    /\ \A t \in Task :
         stored[t] # NoReceipt /\ Announces(Wire, stored[t])
           => t \in StoredRows /\ ~Confirms(idOf[t])

\* There is a row for what the node has sent, in the state its handler asks for.
RowServes ==
    /\ pc = "exec" => Waits(cur) /\ (up[conn] = <<>> => cur \in accepted)
    /\ pc = "await" =>
         \E t \in RowsFor(held.id) :
           \/ /\ up[conn] = <<Accept(held.id), Signed(held)>>
              /\ stored[t] = NoReceipt
           \/ /\ up[conn] = <<Signed(held)>>
              /\ stored[t] = NoReceipt
              /\ t \in accepted
           \/ up[conn] = <<>> /\ t \in StoredRows
    /\ pc = "confirm" /\ up[conn] # <<>> => RowsFor(held.id) \cap StoredRows # {}

\* No error and no task without a row is on its way to the node.
NoErrorSent ==
    /\ At(down[conn], {"error"}) = {}
    /\ \A t \in Task : Offers(Wire, t) => t \in Queued

\* The inductive invariant, while no deadline passes and no snapshot is restored.
InStep == TasksWait /\ ReceiptsWait /\ RowServes
Untroubled ==
    /\ Named /\ NoncesUnique
    /\ NoAbort
    /\ InSession => NoErrorSent
    /\ Talks => InStep

\* All that is known of the states before a step.
Given == /\ Grounds /\ Confirming /\ Conversation /\ OneServes /\ Untroubled

\* A row is found by its identifier and holds a receipt of that identifier.
LEMMA RowsApart ==
  ASSUME Grounds
  PROVE  /\ \A t, u \in Queued : idOf[t] = idOf[u] => t = u
         /\ \A t \in Task : stored[t] # NoReceipt => stored[t].id = idOf[t]
         /\ Queued \subseteq Task
<1>1. \A t, u \in Queued : idOf[t] = idOf[u] => t = u
  BY DEF Grounds, Belonging, RowsUnique, Queued
<1> QED
  BY <1>1 DEF Grounds, ReceiptBelongsToTask, Queued

\* The journal does not refuse a task that the Relay has a row for.
LEMMA NeverReplayed ==
  ASSUME Grounds, Named, NoncesUnique, NEW t \in Queued
  PROVE  ~Replayed(t)
<1>1. t \in Task /\ t # NoTask /\ idOf[t] \in TaskId
  BY DEF Queued
<1>2. \A id \in TaskId : journal[id].task # NoTask =>
        journal[id].task \in Queued /\ idOf[journal[id].task] = id
  BY DEF Named, Grounds, Belonging, JournalNames
<1>3. journal[idOf[t]].task \in {t, NoTask}
  BY <1>1, <1>2, RowsApart
<1>4. ~ReplayedNonce(t)
  <2> SUFFICES ASSUME journal[idOf[t]].task = NoTask, NEW id \in TaskId,
                      journal[id].task # NoTask, nonceOf[journal[id].task] = nonceOf[t]
               PROVE  FALSE
    BY DEF ReplayedNonce
  <2>1. journal[id].task = t
    BY <1>2 DEF NoncesUnique
  <2> QED
    BY <1>1, <1>2, <2>1
<1> QED
  BY <1>3, <1>4 DEF Replayed

\* No announcement is on its way while the node has a task or waits for the
\* answer to its receipt.
LEMMA NothingAnnounced ==
  ASSUME TypeOK, Conversation, pc \in {"exec", "await"}
  PROVE  states[conn] = {} /\ \A r : ~Announces(Wire, r)
<1>1. InSession /\ Dialogue
  BY DEF InSession, Conversation
<1>2. /\ conn \in Conn /\ Wire \in Seq(DownMsg) /\ Cardinality(Announced) \in Nat
      /\ states[conn] \in SUBSET Task
  BY <1>1, SessionQueues DEF TypeOK, HubTypeOK
<1>3. Cardinality(states[conn]) \in Nat
  BY <1>2, StatesCount
<1>4. Cardinality(Announced) + Cardinality(states[conn]) <= 0
  BY <1>1 DEF Dialogue, AnnouncementsCounted
<1>5. Cardinality(Announced) = 0 /\ Cardinality(states[conn]) = 0
  BY <1>2, <1>3, <1>4
<1>6. states[conn] = {}
  BY <1>2, <1>5, OwedCount
<1>7. Announced = {}
  BY <1>2, <1>5, PlacesCount, FS_EmptySet DEF Announced
<1>8. \A r : ~Announces(Wire, r)
  BY <1>7 DEF Announced, Announces, At
<1> QED
  BY <1>6, <1>8

\* A message that the handler sends, and that is no error.
LEMMA SaysMore ==
  ASSUME TypeOK, InSession, UNCHANGED <<pending, conn>>, NEW m \in DownMsg,
         Reply(conn, m), m.type # "error", At(down[conn], {"error"}) = {}
  PROVE  /\ At(down'[conn], {"error"}) = {}
         /\ \A t : Offers(Wire', t) => Offers(Wire, t) \/ (m.type = "task" /\ t = m.task)
         /\ OffersOnce(Wire) /\ (m.type = "task" => ~Offers(Wire, m.task))
              => OffersOnce(Wire')
         /\ \A r : Announces(Wire', r)
                     => Announces(Wire, r) \/ (m.type = "receipt_state" /\ r = m.receipt)
<1>0. /\ conn \in Conn /\ down \in [Conn -> Seq(DownMsg)] /\ down[conn] \in Seq(DownMsg)
      /\ Wire \in Seq(DownMsg)
  BY SessionQueues
<1>1. At(down'[conn], {"error"}) = {}
  <2> DEFINE d == down[conn]
  <2>1. d \in Seq(DownMsg) /\ At(d, {"error"}) = {}
    BY <1>0
  <2>2. down'[conn] = d \/ down'[conn] = Append(d, m)
    BY <1>0 DEF Reply
  <2> HIDE DEF d
  <2>3. At(Append(d, m), {"error"}) = {}
    BY <2>1, PlacesGrow DEF At
  <2> QED
    BY <2>1, <2>2, <2>3
<1>2. Wire' = Wire \/ Wire' = Append(Wire, m)
  BY <1>0, ReplyJoins
<1>3. CASE Wire' = Wire
  BY <1>1, <1>3
<1>4. CASE Wire' = Append(Wire, m)
  <2>1. /\ \A t : Offers(Append(Wire, m), t)
                    <=> Offers(Wire, t) \/ (m.type = "task" /\ m.task = t)
        /\ OffersOnce(Wire) /\ (m.type = "task" => ~Offers(Wire, m.task))
             => OffersOnce(Append(Wire, m))
    BY <1>0, AtGrows
  <2>2. \A r : Announces(Append(Wire, m), r)
                 <=> Announces(Wire, r) \/ (m.type = "receipt_state" /\ m.receipt = r)
    BY <1>0, WireGrows
  <2> QED
    BY <1>1, <1>4, <2>1, <2>2
<1> QED
  BY <1>2, <1>3, <1>4

\* What a step of the node leaves on its wire, when it has read a message.
LEMMA ReadsOne ==
  ASSUME TypeOK, InSession, conn' = conn,
         \/ HasMessage /\ TakeMessage
         \/ down[conn] # <<>> /\ TakeWire /\ pending' = pending,
         At(down[conn], {"error"}) = {}
  PROVE  /\ At(down'[conn], {"error"}) = {}
         /\ \A t : Offers(Wire', t) => Offers(Wire, t)
         /\ OffersOnce(Wire) => OffersOnce(Wire')
         /\ \A r : Announces(Wire', r) => Announces(Wire, r)
<1>1. /\ \/ Wire # <<>> /\ Wire' = Tail(Wire)
         \/ down[conn] # <<>> /\ Wire' = pending \o Tail(down[conn])
      /\ \/ down'[conn] = down[conn]
         \/ down[conn] # <<>> /\ down'[conn] = Tail(down[conn])
  BY Taken
<1>2. down[conn] \in Seq(DownMsg) /\ pending \in Seq(DownMsg) /\ Wire \in Seq(DownMsg)
  BY SessionQueues
<1>3. At(down'[conn], {"error"}) = {}
  <2> DEFINE d == down[conn]
  <2>1. d \in Seq(DownMsg) /\ At(d, {"error"}) = {}
    BY <1>2
  <2>2. down'[conn] = d \/ (d # <<>> /\ down'[conn] = Tail(d))
    BY <1>1
  <2> HIDE DEF d
  <2>3. d # <<>> => At(Tail(d), {"error"}) = {}
    BY <2>1, PlacesShrink DEF At
  <2> QED
    BY <2>1, <2>2, <2>3
<1>4. \A r : Announces(Wire', r) => Announces(Wire, r)
  <2>1. CASE Wire # <<>> /\ Wire' = Tail(Wire)
    BY <1>2, <2>1, WireShrinks
  <2>2. CASE down[conn] # <<>> /\ Wire' = pending \o Tail(down[conn])
    <3>1. \A r : Announces(pending \o Tail(down[conn]), r)
                   => Announces(pending \o down[conn], r)
      BY <1>2, <2>2, WireDrops
    <3> QED
      BY <2>2, <3>1 DEF Wire
  <2> QED
    BY <1>1, <2>1, <2>2
<1> QED
  BY <1>1, <1>3, <1>4, WireLess

\* What the node has sent is served as before when the rows only grow.
LEMMA RowServesSame ==
  ASSUME RowServes, UNCHANGED <<pc, cur, held, stored, confirmed>>, up'[conn'] = up[conn],
         Queued \subseteq Queued', accepted \subseteq accepted'
  PROVE  RowServes'
<1>1. \A id : Accept(id)' = Accept(id) /\ \A r : Signed(r)' = Signed(r)
  BY DEF Accept, Signed
<1>2. \A id : RowsFor(id) \subseteq RowsFor(id)'
  BY DEF RowsFor
<1>3. StoredRows \subseteq StoredRows'
  BY DEF StoredRows
<1>4. \A t : Waits(t) => Waits(t)'
  BY DEF Waits
<1> QED
  BY <1>1, <1>2, <1>3, <1>4 DEF RowServes, Accept, Signed

\* A handler's step leaves the node and the set of rows as they are.
LEMMA HubKeeps ==
  ASSUME Given, NEW c \in Conn, HubStep(c)
  PROVE  /\ UNCHANGED <<pc, conn, held, cur, pending, receipts>>
         /\ UNCHANGED cut /\ UNCHANGED journal /\ UNCHANGED rowid
         /\ Queued' = Queued /\ InSession' = InSession
         /\ Named' /\ NoncesUnique' /\ NoAbort'
<1>1. UNCHANGED <<session, cut, journal, rowid>>
  BY DEF HubStep, HubAuthenticate, HubSendState, HubFetch, HubDeliver, HubRecvAccept,
         HubRecvReceipt, HubRecvReceiptAck, HubEnd, rows
<1>2. UNCHANGED <<pc, conn, held, cur, pending, receipts>>
  BY <1>1 DEF session
<1>3. Queued' = Queued /\ InSession' = InSession
  BY <1>1, <1>2 DEF Queued, InSession
<1> QED
  BY <1>1, <1>2, <1>3 DEF Given, Untroubled, Named, NoncesUnique, NoAbort

\* No other handler serves the node that hears one.
LEMMA HubAlone ==
  ASSUME Given, NEW c \in Conn, HubStep(c), Talks
  PROVE  c = conn
<1>1. conn \in Conn
  BY SessionQueues DEF Given, Grounds, Talks
<1>2. hub[c] \in {"waiting", "open"}
  BY DEF HubStep, HubAuthenticate, HubSendState, HubFetch, HubDeliver, HubRecvAccept,
         HubRecvReceipt, HubRecvReceiptAck, HubEnd, Receives
<1> QED
  BY <1>1, <1>2 DEF Given, OneServes, Talks

\* A handler that the node does not hear tells it nothing.
LEMMA HubUnheard ==
  ASSUME Given, NEW c \in Conn, HubStep(c), InSession, ~Talks
  PROVE  down'[conn] = down[conn] /\ Wire' = Wire /\ ~Talks'
<1>1. TypeOK /\ conn \in Conn /\ down \in [Conn -> Seq(DownMsg)]
  BY SessionQueues DEF Given, Grounds
<1>2. UNCHANGED <<conn, cut, pending>>
  BY HubKeeps
<1>3. CASE c # conn
  BY <1>1, <1>2, <1>3, OthersApart, HubKeeps DEF Talks, Wire
<1>4. CASE c = conn
  <2>1. hub[conn] \in {"waiting", "open"}
    BY <1>4 DEF HubStep, HubAuthenticate, HubSendState, HubFetch, HubDeliver, HubRecvAccept,
           HubRecvReceipt, HubRecvReceiptAck, HubEnd, Receives
  <2>2. conn \in cut
    BY <2>1 DEF Talks
  <2>3. \A m : Reply(conn, m) => down'[conn] = down[conn]
    BY <1>1, <2>2 DEF Reply
  <2>4. down'[conn] = down[conn]
    BY <1>4, <2>3 DEF HubStep, HubAuthenticate, HubSendState, HubFetch, HubDeliver,
           HubRecvAccept, HubRecvReceipt, HubRecvReceiptAck, HubEnd
  <2> QED
    BY <1>2, <2>2, <2>4 DEF Talks, Wire
<1> QED
  BY <1>3, <1>4

\* The facts of a session in which the two sides hear each other.
LEMMA TalkFacts ==
  ASSUME Given, Talks
  PROVE  /\ TypeOK /\ Conversation /\ Grounds /\ InSession /\ conn \in Conn
         /\ Dialogue /\ InStep /\ NoErrorSent /\ CountCovers /\ ReceiptsKept /\ HandlersNew
         /\ up \in [Conn -> Seq(UpMsg)] /\ batch \in [Conn -> SUBSET Task]
         /\ states \in [Conn -> SUBSET Task] /\ starts \in [Conn -> SUBSET TaskId]
         /\ hub \in [Conn -> {"unused", "waiting", "open", "gone"}]
         /\ batch[conn] \subseteq Task /\ states[conn] \subseteq Task
<1>1. TypeOK /\ Conversation /\ Grounds /\ InSession /\ conn \in Conn
  BY SessionQueues DEF Given, Grounds, Talks
<1> QED
  BY <1>1 DEF Given, Untroubled, Confirming, Conversation, Talks, TypeOK, HubTypeOK, WireTypeOK

\* The handler authenticates the node and reads the receipts to be confirmed.
LEMMA AuthenticateInStep ==
  ASSUME Given, Talks, HubAuthenticate(conn)
  PROVE  NoErrorSent' /\ InStep'
<1> DEFINE m == [type |-> "authenticated", count |-> Cardinality(StoredRows)]
<1>0. /\ UNCHANGED <<pc, conn, held, cur, pending, receipts>>
      /\ UNCHANGED rowid /\ Queued' = Queued /\ InSession
  BY HubKeeps, TalkFacts DEF HubStep
<1>1. /\ hub[conn] = "waiting" /\ Reply(conn, m) /\ states'[conn] = StoredRows
      /\ UNCHANGED <<stored, accepted, confirmed, starts, batch>>
  BY TalkFacts DEF HubAuthenticate, rows
<1>2. m \in DownMsg /\ m.type = "authenticated"
  <2>1. Cardinality(StoredRows) \in Nat
    BY CountIsNat DEF StoredRows, Queued
  <2> QED
    BY <2>1, MessageTypes
<1>3. pc = "auth" /\ pending = <<>> /\ down[conn] = <<>>
  BY <1>1, TalkFacts DEF Dialogue, BeginsEmpty
<1>4. batch[conn] = {}
  BY <1>1, TalkFacts DEF HandlersNew
<1> HIDE DEF m
<1>5. /\ At(down'[conn], {"error"}) = {}
      /\ \A t : Offers(Wire', t) => Offers(Wire, t)
      /\ OffersOnce(Wire')
      /\ \A r : Announces(Wire', r) => Announces(Wire, r)
  BY <1>0, <1>1, <1>2, TalkFacts, SaysMore DEF NoErrorSent, InStep, TasksWait
<1>6. \A t : ~Offers(Wire, t)
  <2>1. Wire = <<>>
    BY <1>3, WireEmpty DEF Wire
  <2> QED
    BY <2>1 DEF Offers
<1>7. \A r : ~Announces(Wire, r)
  <2>1. Wire = <<>>
    BY <1>3, WireEmpty DEF Wire
  <2> QED
    BY <2>1 DEF Announces
<1>8. NoErrorSent'
  BY <1>0, <1>5, <1>6 DEF NoErrorSent
<1>9. TasksWait'
  <2>1. batch'[conn'] = {} /\ \A t : ~Offers(Wire', t)
    BY <1>0, <1>1, <1>4, <1>5, <1>6
  <2> QED
    BY <1>5, <2>1 DEF TasksWait
<1>10. ReceiptsWait'
  BY <1>0, <1>1, <1>3, <1>5, <1>7 DEF ReceiptsWait, Confirms, StoredRows
<1>11. RowServes'
  BY <1>0, <1>3 DEF RowServes
<1> QED
  BY <1>8, <1>9, <1>10, <1>11 DEF InStep

\* It announces one of them.
LEMMA SendStateInStep ==
  ASSUME Given, Talks, HubSendState(conn)
  PROVE  NoErrorSent' /\ InStep'
<1>0. /\ UNCHANGED <<pc, conn, held, cur, pending, receipts>>
      /\ UNCHANGED rowid /\ Queued' = Queued /\ InSession
  BY HubKeeps, TalkFacts DEF HubStep
<1>1. UNCHANGED <<stored, accepted, confirmed, starts, batch, up>>
  BY DEF HubSendState, rows
<1>2. PICK t \in states[conn] :
        /\ states' = [states EXCEPT ![conn] = @ \ {t}]
        /\ Reply(conn, [type |-> "receipt_state", receipt |-> stored[t]])
  BY DEF HubSendState
<1>3. states'[conn] = states[conn] \ {t} /\ t \in Task
  BY <1>2, TalkFacts
<1>4. stored[t] \in Receipt /\ t \in StoredRows /\ ~Confirms(idOf[t])
  BY <1>3, TalkFacts DEF TypeOK, RelayTypeOK, InStep, ReceiptsWait, StoredRows
<1> DEFINE m == [type |-> "receipt_state", receipt |-> stored[t]]
<1>5. m \in DownMsg /\ m.type = "receipt_state" /\ m.receipt = stored[t] /\ Reply(conn, m)
  BY <1>2, <1>4, MessageTypes
<1> HIDE DEF m
<1>6. /\ At(down'[conn], {"error"}) = {}
      /\ \A u : Offers(Wire', u) => Offers(Wire, u)
      /\ OffersOnce(Wire')
      /\ \A r : Announces(Wire', r) => Announces(Wire, r) \/ r = stored[t]
  BY <1>0, <1>5, TalkFacts, SaysMore DEF NoErrorSent, InStep, TasksWait
<1>7. NoErrorSent'
  BY <1>0, <1>6, TalkFacts DEF NoErrorSent
<1>8. TasksWait'
  BY <1>0, <1>1, <1>6, TalkFacts DEF InStep, TasksWait, Waits, WorksOn
<1>9. ReceiptsWait'
  <2>1. StoredRows' = StoredRows /\ \A id : Confirms(id)' <=> Confirms(id)
    BY <1>0, <1>1 DEF StoredRows, Confirms
  <2>2. \A u \in Task : stored[u] # NoReceipt /\ stored[u] = stored[t] => u = t
    BY <1>3, TalkFacts, StoredOnce
  <2>3. ASSUME NEW u \in Task, stored'[u] # NoReceipt, Announces(Wire', stored'[u])
        PROVE  u \in StoredRows /\ ~Confirms(idOf[u])
    <3>1. stored[u] # NoReceipt /\ (Announces(Wire, stored[u]) \/ stored[u] = stored[t])
      BY <1>1, <1>6, <2>3
    <3> QED
      BY <1>4, <2>2, <3>1, TalkFacts DEF InStep, ReceiptsWait
  <2> QED
    BY <1>0, <1>1, <1>3, <2>1, <2>3, TalkFacts DEF InStep, ReceiptsWait
<1>10. RowServes'
  BY <1>0, <1>1, TalkFacts, RowServesSame DEF InStep
<1> QED
  BY <1>7, <1>8, <1>9, <1>10 DEF InStep

\* It fetches the rows it will deliver, and delivers one of them.
LEMMA DeliverInStep ==
  ASSUME Given, Talks, HubFetch(conn) \/ HubDeliver(conn)
  PROVE  NoErrorSent' /\ InStep'
<1>0. /\ UNCHANGED <<pc, conn, held, cur, pending, receipts>>
      /\ UNCHANGED rowid /\ Queued' = Queued /\ InSession
  BY HubKeeps, TalkFacts DEF HubStep
<1>1. UNCHANGED <<stored, accepted, confirmed, states, up>>
  BY DEF HubFetch, HubDeliver, rows
<1>2. /\ StoredRows' = StoredRows /\ \A id : Confirms(id)' <=> Confirms(id)
      /\ \A t : Waits(t)' <=> Waits(t)
      /\ \A id : WorksOn(id)' <=> WorksOn(id)
  BY <1>0, <1>1 DEF StoredRows, Confirms, Waits, WorksOn
<1>3. RowServes'
  BY <1>0, <1>1, TalkFacts, RowServesSame DEF InStep
<1>4. CASE HubFetch(conn)
  <2>1. /\ UNCHANGED <<down, starts>> /\ Wire' = Wire
        /\ batch'[conn] = PendingRows(starts[conn])
    BY <1>0, <1>4, TalkFacts DEF HubFetch, Wire
  <2>2. NoErrorSent' /\ ReceiptsWait'
    BY <1>0, <1>1, <1>2, <2>1, TalkFacts DEF NoErrorSent, InStep, ReceiptsWait
  <2>3. TasksWait'
    BY <1>0, <1>1, <1>2, <2>1, TalkFacts DEF InStep, TasksWait, PendingRows, Waits
  <2> QED
    BY <1>3, <2>2, <2>3 DEF InStep
<1>5. CASE HubDeliver(conn)
  <2>1. PICK t \in batch[conn] :
          /\ batch' = [batch EXCEPT ![conn] = @ \ {t}]
          /\ starts' = [starts EXCEPT ![conn] = @ \cup {idOf[t]}]
          /\ Reply(conn, [type |-> "task", task |-> t])
    BY <1>5 DEF HubDeliver
  <2>2. /\ batch'[conn] = batch[conn] \ {t} /\ t \in Task
        /\ starts'[conn] = starts[conn] \cup {idOf[t]}
    BY <2>1, TalkFacts
  <2>3. Waits(t) /\ idOf[t] \notin starts[conn]
    BY TalkFacts DEF InStep, TasksWait
  <2> DEFINE m == [type |-> "task", task |-> t]
  <2>4. m \in DownMsg /\ m.type = "task" /\ m.task = t /\ Reply(conn, m)
    BY <2>1, <2>2, MessageTypes
  <2> HIDE DEF m
  <2>5. ~Offers(Wire, t) /\ ~WorksOn(idOf[t])
    BY <2>2, <2>3, TalkFacts DEF Dialogue, Delivered, WorksOn
  <2>6. /\ At(down'[conn], {"error"}) = {}
        /\ \A u : Offers(Wire', u) => Offers(Wire, u) \/ u = t
        /\ OffersOnce(Wire')
        /\ \A r : Announces(Wire', r) => Announces(Wire, r)
    BY <1>0, <2>4, <2>5, TalkFacts, SaysMore DEF NoErrorSent, InStep, TasksWait
  <2>7. NoErrorSent'
    BY <1>0, <2>3, <2>6, TalkFacts DEF NoErrorSent, Waits
  <2>8. ReceiptsWait'
    BY <1>0, <1>1, <1>2, <2>6, TalkFacts DEF InStep, ReceiptsWait
  <2>9. \A u \in batch'[conn] : Waits(u) /\ idOf[u] \notin starts'[conn]
    <3> SUFFICES ASSUME NEW u \in batch'[conn] PROVE Waits(u) /\ idOf[u] \notin starts'[conn]
      OBVIOUS
    <3>1. u # t /\ Waits(u) /\ idOf[u] \notin starts[conn]
      BY <2>2, TalkFacts DEF InStep, TasksWait
    <3>2. idOf[u] # idOf[t]
      BY <2>3, <3>1, TalkFacts, RowsApart DEF Waits
    <3> QED
      BY <2>2, <3>1, <3>2
  <2>10. \A u \in Task : Offers(Wire', u) => Waits(u) /\ ~WorksOn(idOf[u])
    BY <2>3, <2>5, <2>6, TalkFacts DEF InStep, TasksWait
  <2>11. TasksWait'
    BY <1>0, <1>2, <2>6, <2>9, <2>10 DEF TasksWait
  <2> QED
    BY <1>3, <2>7, <2>8, <2>11 DEF InStep
<1> QED
  BY <1>4, <1>5

\* What the handler reads when the two sides hear each other: the node's messages
\* in the order it sent them.
LEMMA TalkReads ==
  ASSUME Given, Talks, up[conn] # <<>>
  PROVE  /\ Head(up[conn]).type = "accept" =>
              \/ pc = "exec" /\ up[conn] = <<Accept(idOf[cur])>> /\ Tail(up[conn]) = <<>>
              \/ /\ pc = "await" /\ up[conn] = <<Accept(held.id), Signed(held)>>
                 /\ Tail(up[conn]) = <<Signed(held)>>
         /\ Head(up[conn]).type = "receipt" =>
              /\ pc = "await" /\ up[conn] = <<Signed(held)>> /\ Tail(up[conn]) = <<>>
              /\ Head(up[conn]).receipt = held
         /\ Head(up[conn]).type = "receipt_ack" =>
              /\ pc = "confirm" /\ up[conn] = <<Confirm(held.id)>> /\ Tail(up[conn]) = <<>>
              /\ Head(up[conn]).id = held.id
         /\ Head(up[conn]).type = "accept" =>
              Head(up[conn]).id = IF pc = "exec" THEN idOf[cur] ELSE held.id
<1>1. InSession /\ Asks /\ RowServes
  BY TalkFacts DEF Dialogue, InStep
<1>2. up[conn] # <<Accept(held.id)>> \/ pc # "await"
  <2> SUFFICES ASSUME up[conn] = <<Accept(held.id)>>, pc = "await" PROVE FALSE
    OBVIOUS
  <2>1. <<Accept(held.id)>> # <<>> /\ <<Accept(held.id)>> # <<Accept(held.id), Signed(held)>>
    OBVIOUS
  <2>2. <<Accept(held.id)>> # <<Signed(held)>>
    <3>1. Head(<<Accept(held.id)>>) # Head(<<Signed(held)>>)
      BY SaidFields, ShortQueues
    <3> QED
      BY <3>1
  <2> QED
    BY <1>1, <2>1, <2>2 DEF RowServes
<1>3. Head(up[conn]).type = "accept" =>
        \/ pc = "exec" /\ up[conn] = <<Accept(idOf[cur])>>
        \/ pc = "await" /\ up[conn] = <<Accept(held.id), Signed(held)>>
  BY <1>1, <1>2, HandlerReads
<1>4. /\ Head(up[conn]).type = "receipt" => pc = "await" /\ up[conn] = <<Signed(held)>>
      /\ Head(up[conn]).type = "receipt_ack" => pc = "confirm" /\ up[conn] = <<Confirm(held.id)>>
  BY <1>1, HandlerReads
<1>5. \A a, b : /\ Head(<<a>>) = a /\ Tail(<<a>>) = <<>>
                /\ Head(<<a, b>>) = a /\ Tail(<<a, b>>) = <<b>>
  BY ShortQueues
<1> DEFINE u == up[conn]
<1>6. CASE pc = "exec" /\ u = <<Accept(idOf[cur])>>
  <2>1. Head(u) = Accept(idOf[cur]) /\ Tail(u) = <<>>
    BY <1>5, <1>6
  <2> QED
    BY <1>3, <1>4, <1>6, <2>1, SaidFields
<1>7. CASE pc = "await" /\ u = <<Accept(held.id), Signed(held)>>
  <2>1. Head(u) = Accept(held.id) /\ Tail(u) = <<Signed(held)>>
    BY <1>5, <1>7
  <2> QED
    BY <1>7, <2>1, SaidFields
<1>8. CASE pc = "await" /\ u = <<Signed(held)>>
  <2>1. Head(u) = Signed(held) /\ Tail(u) = <<>>
    BY <1>5, <1>8
  <2> QED
    BY <1>8, <2>1, SaidFields
<1>9. CASE pc = "confirm" /\ u = <<Confirm(held.id)>>
  <2>1. Head(u) = Confirm(held.id) /\ Tail(u) = <<>>
    BY <1>5, <1>9
  <2> QED
    BY <1>9, <2>1, SaidFields
<1> QED
  BY <1>3, <1>4, <1>6, <1>7, <1>8, <1>9

\* The node accepts its task.
LEMMA AcceptInStep ==
  ASSUME Given, Talks, HubRecvAccept(conn)
  PROVE  NoErrorSent' /\ InStep'
<1>0. /\ UNCHANGED <<pc, conn, held, cur, pending, receipts>>
      /\ UNCHANGED rowid /\ Queued' = Queued /\ InSession
  BY HubKeeps, TalkFacts DEF HubStep
<1>1. /\ up[conn] # <<>> /\ Head(up[conn]).type = "accept" /\ up'[conn] = Tail(up[conn])
      /\ UNCHANGED <<stored, confirmed, states, starts, batch>>
  BY TalkFacts DEF HubRecvAccept, Receives, hubVars
<1> DEFINE id == Head(up[conn]).id
<1>2. \/ /\ pc = "exec" /\ id = idOf[cur] /\ up'[conn] = <<>>
      \/ /\ pc = "await" /\ id = held.id
         /\ up[conn] = <<Accept(held.id), Signed(held)>> /\ up'[conn] = <<Signed(held)>>
  BY <1>1, TalkReads
<1>3. id \in starts[conn]
  BY <1>2, TalkFacts DEF Dialogue, Delivered
<1>4. accepted' = accepted \cup RowsFor(id) /\ down' = down
  BY <1>3 DEF HubRecvAccept
<1> HIDE DEF id
<1>5. Wire' = Wire /\ NoErrorSent'
  BY <1>0, <1>4, TalkFacts DEF Wire, NoErrorSent
<1>6. TasksWait' /\ ReceiptsWait'
  BY <1>0, <1>1, <1>5, TalkFacts
     DEF InStep, TasksWait, ReceiptsWait, Waits, WorksOn, Confirms, StoredRows
<1>7. RowServes'
  <2>1. CASE pc = "exec"
    <3>1. Waits(cur) /\ cur \in RowsFor(id)
      BY <1>2, <2>1, TalkFacts DEF InStep, RowServes, Waits, RowsFor
    <3>2. Waits(cur)'
      BY <1>0, <1>1, <3>1 DEF Waits
    <3> QED
      BY <1>0, <1>4, <2>1, <3>1, <3>2 DEF RowServes
  <2>2. CASE pc = "await"
    <3>1. \E t \in RowsFor(held.id) : stored[t] = NoReceipt
      <4>1. up[conn] # <<>>
        BY <1>1
      <4> QED
        BY <2>2, <4>1, TalkFacts DEF InStep, RowServes
    <3>2. PICK t \in RowsFor(held.id) : stored[t] = NoReceipt
      BY <3>1
    <3>3. /\ t \in RowsFor(held.id)' /\ stored'[t] = NoReceipt /\ t \in accepted'
          /\ up'[conn'] = <<Signed(held)>>
      BY <1>0, <1>1, <1>2, <1>4, <2>2, <3>2 DEF RowsFor
    <3>4. Signed(held)' = Signed(held)
      BY <1>0 DEF Signed
    <3> QED
      BY <1>0, <2>2, <3>3, <3>4 DEF RowServes
  <2> QED
    BY <1>2, <2>1, <2>2
<1> QED
  BY <1>5, <1>6, <1>7 DEF InStep

\* The node sends its receipt: the row of its task is there to take it.
LEMMA ReceiptInStep ==
  ASSUME Given, Talks, HubRecvReceipt(conn)
  PROVE  NoErrorSent' /\ (Talks' => InStep')
<1>0. /\ UNCHANGED <<pc, conn, held, cur, pending, receipts>>
      /\ UNCHANGED rowid /\ Queued' = Queued /\ InSession
  BY HubKeeps, TalkFacts DEF HubStep
<1>1. /\ up[conn] # <<>> /\ Head(up[conn]).type = "receipt" /\ up'[conn] = Tail(up[conn])
      /\ UNCHANGED <<accepted, confirmed, states, starts, batch>>
  BY TalkFacts DEF HubRecvReceipt, Receives
<1>2. /\ pc = "await" /\ up[conn] = <<Signed(held)>> /\ up'[conn] = <<>>
      /\ Head(up[conn]).receipt = held
  BY <1>1, TalkReads
<1>3. held \in Receipt /\ held.id \in TaskId /\ held # NoReceipt
  BY <1>2, TalkFacts, ReceiptFields DEF TypeOK, SessionTypeOK
<1>4. PICK t \in RowsFor(held.id) : stored[t] = NoReceipt /\ t \in accepted
  <2>1. <<Signed(held)>> # <<>> /\ <<Signed(held)>> # <<Accept(held.id), Signed(held)>>
    OBVIOUS
  <2> QED
    BY <1>2, <2>1, TalkFacts DEF InStep, RowServes
<1>5. t \in Queued /\ t \in Task /\ idOf[t] = held.id
  BY <1>4 DEF RowsFor, Queued
<1> DEFINE open == {u \in RowsFor(held.id) : u \in accepted /\ stored[u] = NoReceipt}
<1>6. open = {t}
  BY <1>4, <1>5, TalkFacts, RowsApart DEF RowsFor
<1>7. held.id \in starts[conn]
  BY <1>2, TalkFacts DEF Dialogue, Delivered
<1>8. /\ stored' = [u \in Task |-> IF u \in open THEN held ELSE stored[u]]
      /\ \/ hub' = [hub EXCEPT ![conn] = "gone"] /\ down' = down
         \/ Reply(conn, [type |-> "ack", id |-> held.id])
  BY <1>2, <1>6, <1>7 DEF HubRecvReceipt
<1>9. /\ stored'[t] = held
      /\ \A u \in Task : u # t => stored'[u] = stored[u]
  BY <1>5, <1>6, <1>8
<1> HIDE DEF open
<1>10. states[conn] = {} /\ \A r : ~Announces(Wire, r)
  BY <1>2, TalkFacts, NothingAnnounced
<1>11. /\ At(down'[conn], {"error"}) = {}
       /\ \A u : Offers(Wire', u) => Offers(Wire, u)
       /\ OffersOnce(Wire')
       /\ \A r : ~Announces(Wire', r)
  <2>1. CASE down' = down
    <3>1. Wire' = Wire
      BY <1>0, <2>1 DEF Wire
    <3> QED
      BY <1>10, <2>1, <3>1, TalkFacts DEF NoErrorSent, InStep, TasksWait
  <2>2. CASE Reply(conn, [type |-> "ack", id |-> held.id])
    <3> DEFINE m == [type |-> "ack", id |-> held.id]
    <3>1. m \in DownMsg /\ m.type = "ack" /\ Reply(conn, m)
      BY <1>3, <2>2, MessageTypes
    <3> HIDE DEF m
    <3> QED
      BY <1>0, <1>10, <3>1, TalkFacts, SaysMore DEF NoErrorSent, InStep, TasksWait
  <2> QED
    BY <1>8, <2>1, <2>2
<1>12. NoErrorSent'
  BY <1>0, <1>11, TalkFacts DEF NoErrorSent
<1>13. TasksWait'
  <2>1. \A u \in Task : Waits(u) /\ idOf[u] # held.id => Waits(u)'
    BY <1>0, <1>5, <1>9 DEF Waits
  <2>2. \A u \in batch[conn] : Waits(u)' /\ idOf[u] \notin starts[conn]
    BY <1>7, <2>1, TalkFacts DEF InStep, TasksWait
  <2>3. \A u \in Task : Offers(Wire', u) => Waits(u)' /\ ~WorksOn(idOf[u])
    BY <1>2, <1>11, <2>1, TalkFacts DEF InStep, TasksWait, WorksOn
  <2>4. \A id : WorksOn(id)' <=> WorksOn(id)
    BY <1>0 DEF WorksOn
  <2> QED
    BY <1>0, <1>1, <1>11, <2>2, <2>3, <2>4 DEF TasksWait
<1>14. ReceiptsWait'
  BY <1>0, <1>1, <1>10, <1>11 DEF ReceiptsWait
<1>15. RowServes'
  <2>1. t \in RowsFor(held.id)'
    BY <1>0, <1>5 DEF RowsFor
  <2>2. t \notin confirmed
    BY <1>4, TalkFacts DEF ReceiptsKept
  <2>3. t \in StoredRows'
    BY <1>0, <1>1, <1>3, <1>5, <1>9, <2>2 DEF StoredRows
  <2> QED
    BY <1>0, <1>2, <2>1, <2>3 DEF RowServes
<1> QED
  BY <1>12, <1>13, <1>14, <1>15 DEF InStep

\* The node confirms a receipt that is in its row.
LEMMA ConfirmInStep ==
  ASSUME Given, Talks, HubRecvReceiptAck(conn)
  PROVE  NoErrorSent' /\ InStep'
<1>0. /\ UNCHANGED <<pc, conn, held, cur, pending, receipts>>
      /\ UNCHANGED rowid /\ Queued' = Queued /\ InSession
  BY HubKeeps, TalkFacts DEF HubStep
<1>1. /\ up[conn] # <<>> /\ Head(up[conn]).type = "receipt_ack" /\ up'[conn] = Tail(up[conn])
      /\ UNCHANGED <<accepted, stored, states, starts, batch>>
  BY TalkFacts DEF HubRecvReceiptAck, Receives, hubVars
<1>2. pc = "confirm" /\ up'[conn] = <<>> /\ Head(up[conn]).id = held.id
  BY <1>1, TalkReads
<1>3. RowsFor(held.id) \cap StoredRows # {}
  BY <1>1, <1>2, TalkFacts DEF InStep, RowServes
<1>4. /\ confirmed' = confirmed \cup (RowsFor(held.id) \cap StoredRows)
      /\ Reply(conn, [type |-> "receipt_confirmed", id |-> held.id])
  BY <1>2, <1>3 DEF HubRecvReceiptAck
<1> DEFINE m == [type |-> "receipt_confirmed", id |-> held.id]
<1>5. m \in DownMsg /\ m.type = "receipt_confirmed" /\ Reply(conn, m)
  <2>1. held.id \in TaskId
    BY <1>2, TalkFacts, ReceiptFields DEF TypeOK, SessionTypeOK
  <2> QED
    BY <1>4, <2>1, MessageTypes
<1> HIDE DEF m
<1>6. /\ At(down'[conn], {"error"}) = {}
      /\ \A t : Offers(Wire', t) => Offers(Wire, t)
      /\ OffersOnce(Wire')
      /\ \A r : Announces(Wire', r) => Announces(Wire, r)
  BY <1>0, <1>5, TalkFacts, SaysMore DEF NoErrorSent, InStep, TasksWait
<1>7. NoErrorSent'
  BY <1>0, <1>6, TalkFacts DEF NoErrorSent
<1>8. TasksWait'
  BY <1>0, <1>1, <1>6, TalkFacts DEF InStep, TasksWait, Waits, WorksOn
<1>9. ReceiptsWait'
  <2>1. \A id : Confirms(id)' <=> Confirms(id)
    BY <1>0 DEF Confirms
  <2>2. \A t \in StoredRows : ~Confirms(idOf[t]) => t \in StoredRows'
    BY <1>0, <1>1, <1>2, <1>4 DEF StoredRows, Confirms, RowsFor
  <2>3. \A t \in states[conn] : t \in StoredRows' /\ ~Confirms(idOf[t])
    BY <2>2, TalkFacts DEF InStep, ReceiptsWait
  <2>4. \A t \in Task : stored[t] # NoReceipt /\ Announces(Wire', stored[t])
                          => t \in StoredRows' /\ ~Confirms(idOf[t])
    BY <1>6, <2>2, TalkFacts DEF InStep, ReceiptsWait
  <2> QED
    BY <1>0, <1>1, <2>1, <2>3, <2>4 DEF ReceiptsWait
<1>10. RowServes'
  BY <1>0, <1>2 DEF RowServes
<1> QED
  BY <1>7, <1>8, <1>9, <1>10 DEF InStep

\* A handler's step.
LEMMA HubUntroubled ==
  ASSUME Given, NEW c \in Conn, HubStep(c)
  PROVE  Untroubled'
<1>1. /\ Named' /\ NoncesUnique' /\ NoAbort'
      /\ UNCHANGED <<conn, cut>> /\ InSession' = InSession /\ Queued' = Queued
  BY HubKeeps
<1>2. CASE ~InSession
  BY <1>1, <1>2 DEF Untroubled, Talks
<1>3. CASE InSession /\ ~Talks
  <2>1. down'[conn] = down[conn] /\ Wire' = Wire /\ ~Talks'
    BY <1>3, HubUnheard
  <2>2. NoErrorSent'
    BY <1>1, <1>3, <2>1 DEF Given, Untroubled, NoErrorSent
  <2> QED
    BY <1>1, <2>1, <2>2 DEF Untroubled
<1>4. CASE Talks
  <2>1. c = conn
    BY <1>4, HubAlone
  <2>2. ~HubEnd(conn)
    BY <1>4 DEF HubEnd, Talks
  <2>3. NoErrorSent' /\ (Talks' => InStep')
    BY <1>4, <2>1, <2>2, AuthenticateInStep, SendStateInStep, DeliverInStep, AcceptInStep,
       ReceiptInStep, ConfirmInStep DEF HubStep
  <2> QED
    BY <1>1, <2>3 DEF Untroubled
<1> QED
  BY <1>2, <1>3, <1>4

\* The node ends its session.
LEMMA LeaveUntroubled ==
  ASSUME Given, Named', pc' # "aborted", ~InSession', Queued' = Queued, nonceOf' = nonceOf
  PROVE  Untroubled'
<1>1. NoncesUnique'
  BY DEF Given, Untroubled, NoncesUnique
<1> QED
  BY <1>1 DEF Untroubled, NoAbort, Talks

\* It goes on with it: the rows and the handler stay as they are.
LEMMA NodeUntroubled ==
  ASSUME Given, InSession, InSession', Named', pc' # "aborted",
         UNCHANGED <<rowid, accepted, stored, confirmed>>,
         UNCHANGED <<conn, cut, hub, states, starts, batch>>,
         At(down'[conn], {"error"}) = {},
         \A t : Offers(Wire', t) => Offers(Wire, t),
         OffersOnce(Wire) => OffersOnce(Wire'),
         \A r : Announces(Wire', r) => Announces(Wire, r),
         Talks => /\ \A t \in Task : Offers(Wire', t) => ~WorksOn(idOf[t])'
                  /\ \A t \in Task :
                       t \in states[conn]
                         \/ (stored[t] # NoReceipt /\ Announces(Wire', stored[t]))
                         => ~Confirms(idOf[t])'
                  /\ RowServes'
  PROVE  Untroubled'
<1>1. /\ Queued' = Queued /\ StoredRows' = StoredRows /\ (Talks' => Talks)
      /\ \A t : Waits(t)' <=> Waits(t)
  BY DEF Queued, StoredRows, Talks, Waits
<1>2. NoncesUnique' /\ NoErrorSent'
  BY <1>1 DEF Given, Untroubled, NoncesUnique, NoErrorSent
<1>3. ASSUME Talks PROVE InStep'
  <2>1. TasksWait'
    BY <1>1, <1>3, TalkFacts DEF InStep, TasksWait
  <2>2. ReceiptsWait'
    BY <1>1, <1>3, TalkFacts DEF InStep, ReceiptsWait
  <2> QED
    BY <1>3, <2>1, <2>2 DEF InStep
<1> QED
  BY <1>1, <1>2, <1>3 DEF Untroubled, NoAbort

\* A new session begins with an empty conversation.
LEMMA ConnectUntroubled ==
  ASSUME Given, Connect
  PROVE  Untroubled'
<1>0. TypeOK /\ Belonging /\ HandlersNew /\ Named /\ NoncesUnique
  BY DEF Given, Grounds, Conversation, Untroubled
<1>1. /\ pc = "idle" /\ ~InSession /\ conn = 0 /\ conns \in Nat /\ conns + 1 \in Conn
  BY <1>0 DEF Connect, InSession, TypeOK, SessionTypeOK, CounterTypeOK, Conn
<1>2. /\ pc' = "auth" /\ conn' = conns + 1
      /\ UNCHANGED <<rowid, accepted, stored, confirmed, states, batch, down, pending, journal>>
  BY DEF Connect, rows
<1>3. down[conns + 1] = <<>> /\ pending = <<>>
  BY <1>0, <1>1 DEF Belonging, WiresKnown
<1>4. states[conns + 1] = {} /\ batch[conns + 1] = {}
  BY <1>0, <1>1 DEF HandlersNew
<1>5. Wire' = <<>> /\ down'[conn'] = <<>>
  BY <1>2, <1>3, WireEmpty DEF Wire
<1>6. /\ \A t : ~Offers(Wire', t)
      /\ \A r : ~Announces(Wire', r)
      /\ OffersOnce(Wire')
      /\ At(down'[conn'], {"error"}) = {}
  BY <1>5 DEF Offers, Announces, OffersOnce, At
<1>7. Named' /\ NoncesUnique' /\ NoAbort' /\ NoErrorSent'
  BY <1>0, <1>2, <1>6 DEF Named, NoncesUnique, NoAbort, NoErrorSent, Queued
<1>8. TasksWait' /\ ReceiptsWait' /\ RowServes'
  BY <1>2, <1>4, <1>6 DEF TasksWait, ReceiptsWait, RowServes
<1> QED
  BY <1>7, <1>8 DEF Untroubled, InStep

\* The node reads that it is authenticated, sets a message aside, or reads that
\* its receipt is confirmed.
LEMMA ReadUntroubled ==
  ASSUME Given, RecvAuthenticated \/ SetAside \/ RecvConfirmed
  PROVE  Untroubled'
<1>1. /\ pc \in {"auth", "exec", "await", "confirm"} /\ down[conn] # <<>> /\ TakeWire
      /\ pending' \in {pending, Append(pending, Head(down[conn]))}
      /\ UNCHANGED <<conn, cut, up, hub, states, starts, batch, journal>>
      /\ UNCHANGED <<rowid, accepted, stored, confirmed>>
      /\ pc' = "serve" \/ (pc' = pc /\ held' = held /\ cur' = cur)
  BY DEF RecvAuthenticated, SetAside, RecvConfirmed, OnWire, hubVars, rows
<1>2. TypeOK /\ InSession /\ InSession' /\ NoErrorSent
  BY <1>1 DEF Given, Grounds, Untroubled, InSession
<1>3. /\ At(down'[conn], {"error"}) = {}
      /\ \A t : Offers(Wire', t) => Offers(Wire, t)
      /\ OffersOnce(Wire) => OffersOnce(Wire')
      /\ \A r : Announces(Wire', r) => Announces(Wire, r)
  <2>1. CASE pending' = pending
    BY <1>1, <1>2, <2>1, ReadsOne DEF NoErrorSent
  <2>2. CASE pending' = Append(pending, Head(down[conn]))
    <3>1. Wire' = Wire /\ down'[conn] = Tail(down[conn])
      BY <1>1, <1>2, <2>2, Taken
    <3>2. down[conn] \in Seq(DownMsg) /\ At(down[conn], {"error"}) = {}
      BY <1>2, SessionQueues DEF NoErrorSent
    <3>3. At(Tail(down[conn]), {"error"}) = {}
      BY <1>1, <3>2, AtShrinks
    <3> QED
      BY <3>1, <3>3
  <2> QED
    BY <1>1, <2>1, <2>2
<1>4. Named' /\ pc' # "aborted"
  BY <1>1 DEF Given, Untroubled, Named, Queued
<1>5. ASSUME Talks
      PROVE  /\ \A t \in Task : Offers(Wire', t) => ~WorksOn(idOf[t])'
             /\ \A t \in Task :
                  t \in states[conn] \/ (stored[t] # NoReceipt /\ Announces(Wire', stored[t]))
                    => ~Confirms(idOf[t])'
             /\ RowServes'
  <2>1. InStep
    BY <1>5, TalkFacts
  <2>2. CASE pc' = "serve"
    BY <2>2 DEF WorksOn, Confirms, RowServes
  <2>3. CASE pc' = pc /\ held' = held /\ cur' = cur
    <3>1. \A id : (WorksOn(id)' <=> WorksOn(id)) /\ (Confirms(id)' <=> Confirms(id))
      BY <2>3 DEF WorksOn, Confirms
    <3>2. RowServes'
      BY <1>1, <2>1, <2>3, RowServesSame DEF InStep, Queued
    <3> QED
      BY <1>3, <2>1, <3>1, <3>2 DEF InStep, TasksWait, ReceiptsWait
  <2> QED
    BY <1>1, <2>2, <2>3
<1> QED
  BY <1>1, <1>2, <1>3, <1>4, <1>5, NodeUntroubled

\* What the node reads next is the head of its wire.
LEMMA ReadsHead ==
  ASSUME TypeOK, InSession, HasMessage
  PROVE  Wire # <<>> /\ Message = Head(Wire) /\ Wire \in Seq(DownMsg)
<1>1. /\ conn \in Conn /\ down \in [Conn -> Seq(DownMsg)] /\ pending \in Seq(DownMsg)
      /\ down[conn] \in Seq(DownMsg) /\ Wire \in Seq(DownMsg)
  BY SessionQueues
<1>2. CASE pending # <<>>
  BY <1>1, <1>2, WireHeads DEF Wire, Message
<1>3. CASE pending = <<>>
  <2>1. Wire = down[conn]
    BY <1>1, <1>3, WireEmpty DEF Wire
  <2> QED
    BY <1>1, <1>3, <2>1 DEF HasMessage, Message
<1> QED
  BY <1>2, <1>3

\* The node reads a receipt that its row still holds to be confirmed, and no other
\* announcement is about it.
LEMMA StateUntroubled ==
  ASSUME Given, RecvReceiptState
  PROVE  Untroubled'
<1> DEFINE r == Message.receipt
<1>1. /\ pc = "serve" /\ HasMessage /\ Message.type = "receipt_state"
      /\ UNCHANGED <<cut, hub, states, starts, batch, journal>>
      /\ UNCHANGED <<rowid, accepted, stored, confirmed>>
  BY DEF RecvReceiptState, hubVars, rows
<1>2. /\ TypeOK /\ Grounds /\ InSession /\ NoErrorSent /\ CountCovers /\ Asks
  BY <1>1 DEF Given, Grounds, Untroubled, InSession, Confirming, Conversation, Dialogue
<1>3. Wire # <<>> /\ Message = Head(Wire) /\ Wire \in Seq(DownMsg)
  BY <1>1, <1>2, ReadsHead
<1>4. Announces(Wire, r)
  BY <1>1, <1>3, WireShrinks
<1>5. r \in Receipt /\ \E t \in Task : stored[t] = r
  BY <1>2, <1>4, ToldQueue DEF CountCovers
<1>6. PICK t \in Task : stored[t] = r
  BY <1>5
<1>7. Journaled(r)
  BY <1>2, <1>5, <1>6 DEF Grounds, Agreement, RowsAgree
<1>8. /\ TakeMessage /\ conn' = conn /\ held' = r /\ pc' = "confirm"
      /\ Emit(<<Confirm(r.id)>>)
  BY <1>7 DEF RecvReceiptState, Journaled, Acknowledge, Confirm
<1>9. Wire' = Tail(Wire)
  BY <1>1, <1>2, <1>8, Taken
<1> HIDE DEF r
<1>10. /\ At(down'[conn], {"error"}) = {}
       /\ \A u : Offers(Wire', u) => Offers(Wire, u)
       /\ OffersOnce(Wire) => OffersOnce(Wire')
       /\ \A s : Announces(Wire', s) => Announces(Wire, s)
  BY <1>1, <1>2, <1>8, ReadsOne DEF NoErrorSent
<1>11. ~Announces(Wire', r)
  BY <1>1, <1>2, <1>3, <1>9, WireShrinks DEF CountCovers, r
<1>12. Named' /\ pc' # "aborted" /\ InSession'
  BY <1>1, <1>8 DEF Given, Untroubled, Named, Queued, InSession
<1>13. ASSUME Talks
       PROVE  /\ \A u \in Task : Offers(Wire', u) => ~WorksOn(idOf[u])'
              /\ \A u \in Task :
                   u \in states[conn] \/ (stored[u] # NoReceipt /\ Announces(Wire', stored[u]))
                     => ~Confirms(idOf[u])'
              /\ RowServes'
  <2>1. InStep
    BY <1>13, TalkFacts
  <2>2. stored[t] # NoReceipt /\ r.id = idOf[t]
    BY <1>2, <1>5, <1>6, RowsApart
  <2>3. t \in StoredRows /\ t \in RowsFor(r.id)
    <3>1. t \in StoredRows
      BY <1>4, <1>6, <2>1, <2>2 DEF InStep, ReceiptsWait
    <3> QED
      BY <2>2, <3>1 DEF StoredRows, RowsFor
  <2>4. \A u \in Task : u \in StoredRows /\ stored[u] # r => idOf[u] # r.id
    BY <1>2, <1>6, <2>2, <2>3, RowsApart DEF StoredRows
  <2>5. ASSUME NEW u \in Task,
               u \in states[conn] \/ (stored[u] # NoReceipt /\ Announces(Wire', stored[u]))
        PROVE  ~Confirms(idOf[u])'
    <3>1. u \in StoredRows
      BY <1>10, <2>1, <2>5 DEF InStep, ReceiptsWait
    <3>2. stored[u] # r
      BY <1>2, <1>4, <1>11, <2>5 DEF CountCovers
    <3> QED
      BY <1>8, <2>4, <3>1, <3>2 DEF Confirms
  <2>6. RowServes'
    <3>1. t \in (RowsFor(held.id) \cap StoredRows)'
      BY <1>1, <1>8, <2>3 DEF RowsFor, StoredRows, Queued
    <3> QED
      BY <1>8, <3>1 DEF RowServes
  <2>7. \A id : ~WorksOn(id)'
    BY <1>8 DEF WorksOn
  <2> QED
    BY <2>5, <2>6, <2>7
<1> QED
  BY <1>1, <1>2, <1>8, <1>10, <1>12, <1>13, NodeUntroubled

\* The node takes a task that its row offers: no journal refuses it.
LEMMA TaskUntroubled ==
  ASSUME Given, expired = {}, RecvTask
  PROVE  Untroubled'
<1> DEFINE t == Message.task
           r == KnownReceipt(t)
<1>1. /\ pc = "serve" /\ HasMessage /\ Message.type = "task"
      /\ UNCHANGED <<cut, hub, states, starts, batch>>
      /\ UNCHANGED <<rowid, accepted, stored, confirmed>>
  BY DEF RecvTask, hubVars, rows
<1>2. /\ TypeOK /\ Grounds /\ InSession /\ NoErrorSent /\ Asks /\ Named /\ NoncesUnique
  BY <1>1 DEF Given, Grounds, Untroubled, InSession, Conversation, Dialogue
<1>3. Wire # <<>> /\ Message = Head(Wire) /\ Wire \in Seq(DownMsg)
  BY <1>1, <1>2, ReadsHead
<1>4. Offers(Wire, t)
  BY <1>1, <1>3, AtShrinks
<1>5. t \in Task /\ t \in Queued
  <2>1. t \in Task
    BY <1>1, <1>3, QueueParts, MessageFields
  <2> QED
    BY <1>2, <1>4, <2>1 DEF NoErrorSent
<1>6. ~Replayed(t) /\ idOf[t] \in TaskId
  BY <1>2, <1>5, NeverReplayed
<1>7. /\ TakeMessage /\ conn' = conn
      /\ journal' = [journal EXCEPT ![idOf[t]] = [task |-> t, receipt |-> r]]
      /\ \/ /\ r # NoReceipt /\ held' = r /\ pc' = "await"
            /\ Emit(<<Accept(idOf[t]), Signed(r)>>)
         \/ /\ cur' = t /\ pc' = "exec"
            /\ Emit(<<Accept(idOf[t])>>)
  BY <1>6 DEF RecvTask, Accept, Signed
<1>8. Wire' = Tail(Wire)
  BY <1>1, <1>2, <1>7, Taken
<1>9. /\ At(down'[conn], {"error"}) = {}
      /\ \A u : Offers(Wire', u) => Offers(Wire, u)
      /\ OffersOnce(Wire) => OffersOnce(Wire')
      /\ \A s : Announces(Wire', s) => Announces(Wire, s)
  BY <1>1, <1>2, <1>7, ReadsOne DEF NoErrorSent
<1>10. Named'
  BY <1>1, <1>2, <1>5, <1>6, <1>7 DEF Named, Queued, TypeOK, JournalTypeOK
<1>11. pc' # "aborted" /\ InSession'
  BY <1>7 DEF InSession
<1>12. r # NoReceipt => r.id = idOf[t]
  BY <1>2, <1>6 DEF Grounds, Agreement, JournalAgrees, KnownReceipt
<1>13. ASSUME Talks
       PROVE  /\ \A u \in Task : Offers(Wire', u) => ~WorksOn(idOf[u])'
              /\ \A u \in Task :
                   u \in states[conn] \/ (stored[u] # NoReceipt /\ Announces(Wire', stored[u]))
                     => ~Confirms(idOf[u])'
              /\ RowServes'
  <2>1. InStep
    BY <1>13, TalkFacts
  <2>2. ~Offers(Wire', t)
    BY <1>1, <1>3, <1>8, <2>1, AtShrinks DEF InStep, TasksWait
  <2>3. \A u \in Task : Offers(Wire', u) => idOf[u] # idOf[t]
    BY <1>2, <1>5, <1>9, <2>1, <2>2, RowsApart DEF InStep, TasksWait, Waits
  <2>4. \A u \in Task : Offers(Wire', u) => ~WorksOn(idOf[u])'
    BY <1>7, <1>12, <2>3 DEF WorksOn
  <2>5. \A id : ~Confirms(id)'
    BY <1>7 DEF Confirms
  <2>6. Waits(t)
    BY <1>4, <1>5, <2>1 DEF InStep, TasksWait
  <2>7. up[conn] = <<>>
    BY <1>1, <1>2 DEF Asks
  <2>8. RowServes'
    <3>1. CASE cur' = t /\ pc' = "exec" /\ Emit(<<Accept(idOf[t])>>)
      <4>1. up'[conn] = <<Accept(idOf[t])>>
        BY <1>2, <1>13, <2>7, <3>1, EmitSays, ShortQueues DEF Talks
      <4>2. up'[conn] # <<>>
        BY <4>1, ShortQueues
      <4>3. Waits(cur)'
        BY <1>1, <2>6, <3>1 DEF Waits, Queued
      <4> QED
        BY <1>7, <3>1, <4>2, <4>3 DEF RowServes
    <3>2. CASE /\ r # NoReceipt /\ held' = r /\ pc' = "await"
               /\ Emit(<<Accept(idOf[t]), Signed(r)>>)
      <4>1. up'[conn] = <<Accept(idOf[t]), Signed(r)>>
        BY <1>2, <1>13, <2>7, <3>2, EmitSays, ShortQueues DEF Talks
      <4>2. up'[conn'] = <<Accept(held.id), Signed(held)>>'
        BY <1>7, <1>12, <3>2, <4>1 DEF Accept, Signed
      <4>3. t \in RowsFor(held.id)' /\ stored'[t] = NoReceipt
        BY <1>1, <1>5, <1>12, <2>6, <3>2 DEF RowsFor, Queued, Waits
      <4> QED
        BY <3>2, <4>2, <4>3 DEF RowServes
    <3> QED
      BY <1>7, <3>1, <3>2
  <2> QED
    BY <2>4, <2>5, <2>8
<1> QED
  BY <1>1, <1>2, <1>7, <1>9, <1>10, <1>11, <1>13, NodeUntroubled

\* The node signs and sends its receipt.
LEMMA ExecuteUntroubled ==
  ASSUME Given, Execute
  PROVE  Untroubled'
<1>1. /\ pc = "exec" /\ pc' = "await" /\ held'.id = idOf[cur]
      /\ Emit(<<Signed(held')>>)
      /\ journal' = [journal EXCEPT ![held'.id].receipt = held']
      /\ UNCHANGED <<rowid, accepted, stored, confirmed>>
      /\ UNCHANGED <<conn, cut, hub, states, starts, batch, down, pending>>
  BY DEF Execute, Signed, SaveReceipt, hubVars, rows
<1>2. TypeOK /\ InSession /\ InSession' /\ NoErrorSent /\ Asks
  BY <1>1 DEF Given, Grounds, Untroubled, InSession, Conversation, Dialogue
<1>3. Wire' = Wire
  BY <1>1 DEF Wire
<1>4. Named'
  <2>1. \A id \in TaskId : journal'[id].task = journal[id].task
    BY <1>1, <1>2 DEF TypeOK, JournalTypeOK
  <2> QED
    BY <1>1, <2>1 DEF Given, Untroubled, Named, Queued
<1>5. ASSUME Talks
      PROVE  /\ \A t \in Task : Offers(Wire', t) => ~WorksOn(idOf[t])'
             /\ \A t \in Task :
                  t \in states[conn] \/ (stored[t] # NoReceipt /\ Announces(Wire', stored[t]))
                    => ~Confirms(idOf[t])'
             /\ RowServes'
  <2>1. InStep
    BY <1>5, TalkFacts
  <2>2. \A id : (WorksOn(id)' <=> WorksOn(id)) /\ ~Confirms(id)'
    BY <1>1 DEF WorksOn, Confirms
  <2>3. Waits(cur) /\ (up[conn] = <<>> => cur \in accepted)
    BY <1>1, <2>1 DEF InStep, RowServes
  <2>4. up[conn] \in {<<>>, <<Accept(held'.id)>>}
    BY <1>1, <1>2 DEF Asks
  <2>5. up'[conn] = up[conn] \o <<Signed(held')>>
    BY <1>1, <1>2, <1>5, EmitSays DEF Talks
  <2>6. \/ up'[conn'] = <<Signed(held')>> /\ cur \in accepted
        \/ up'[conn'] = <<Accept(held'.id), Signed(held')>>
    BY <1>1, <2>3, <2>4, <2>5, ShortQueues
  <2>7. cur \in RowsFor(held.id)' /\ stored'[cur] = NoReceipt
    BY <1>1, <2>3 DEF RowsFor, Queued, Waits
  <2>8. \/ up'[conn'] = <<Signed(held)>>' /\ cur \in accepted'
        \/ up'[conn'] = <<Accept(held.id), Signed(held)>>'
    BY <1>1, <2>6 DEF Accept, Signed
  <2>9. RowServes'
    BY <1>1, <2>7, <2>8 DEF RowServes
  <2> QED
    BY <1>3, <2>1, <2>2, <2>9 DEF InStep, TasksWait
<1> QED
  BY <1>1, <1>2, <1>3, <1>4, <1>5, NodeUntroubled DEF NoErrorSent

\* The receipt it is told to be stored is in its row, to be confirmed.
LEMMA AckUntroubled ==
  ASSUME Given, RecvAck
  PROVE  Untroubled'
<1>1. /\ pc = "await" /\ pc' = "confirm" /\ held' = held
      /\ down[conn] # <<>> /\ Head(down[conn]).type = "ack" /\ TakeWire /\ pending' = pending
      /\ Emit(<<Confirm(held.id)>>)
      /\ UNCHANGED <<rowid, accepted, stored, confirmed>>
      /\ UNCHANGED <<conn, cut, hub, states, starts, batch, journal>>
  BY DEF RecvAck, OnWire, Acknowledge, Confirm, hubVars, rows
<1>2. TypeOK /\ InSession /\ InSession' /\ NoErrorSent /\ AnswersFit
  BY <1>1 DEF Given, Grounds, Untroubled, InSession, Conversation, Dialogue
<1>3. /\ At(down'[conn], {"error"}) = {}
      /\ \A t : Offers(Wire', t) => Offers(Wire, t)
      /\ OffersOnce(Wire) => OffersOnce(Wire')
      /\ \A r : Announces(Wire', r) => Announces(Wire, r)
  BY <1>1, <1>2, ReadsOne DEF NoErrorSent
<1>4. up[conn] = <<>>
  <2>1. down'[conn] = Tail(down[conn])
    BY <1>1, <1>2, Taken
  <2> QED
    BY <1>1, <1>2, <2>1, AnswersLess DEF AnswerTypes
<1>5. states[conn] = {} /\ \A r : ~Announces(Wire, r)
  BY <1>1, <1>2, NothingAnnounced DEF Given
<1>6. Named'
  BY <1>1 DEF Given, Untroubled, Named, Queued
<1>7. ASSUME Talks PROVE RowServes'
  <2>1. <<Accept(held.id), Signed(held)>> # <<>> /\ <<Signed(held)>> # <<>>
    OBVIOUS
  <2>2. \E t \in RowsFor(held.id) : t \in StoredRows
    BY <1>1, <1>4, <1>7, <2>1, TalkFacts DEF InStep, RowServes
  <2>3. (RowsFor(held.id) \cap StoredRows)' # {}
    BY <1>1, <2>2 DEF RowsFor, StoredRows, Queued
  <2> QED
    BY <1>1, <2>3 DEF RowServes
<1>8. \A id : ~WorksOn(id)'
  BY <1>1 DEF WorksOn
<1> QED
  BY <1>1, <1>2, <1>3, <1>5, <1>6, <1>7, <1>8, NodeUntroubled

\* A step of the node.
LEMMA NodeStaysUntroubled ==
  ASSUME Given, expired = {}, NodeStep
  PROVE  Untroubled'
<1>1. CASE Finish \/ SeesClose \/ IdleTimeout
  <2>1. pc' \in {"idle", "failed", "done"} /\ UNCHANGED <<rowid, journal>>
    BY <1>1 DEF Finish, SeesClose, IdleTimeout, Retry, LeaveSession, rows
  <2>2. Named' /\ Queued' = Queued
    BY <2>1 DEF Given, Untroubled, Named, Queued
  <2> QED
    BY <2>1, <2>2, LeaveUntroubled DEF InSession
<1>2. ~RecvError
  <2> SUFFICES ASSUME RecvError PROVE FALSE
    OBVIOUS
  <2>1. InSession /\ down[conn] # <<>> /\ Head(down[conn]).type = "error"
    BY DEF RecvError, OnWire, InSession
  <2>2. down[conn] \in Seq(DownMsg) /\ At(down[conn], {"error"}) = {}
    BY <2>1, SessionQueues DEF Given, Grounds, Untroubled, NoErrorSent
  <2> QED
    BY <2>1, <2>2, PlacesShrink DEF At
<1> QED
  BY <1>1, <1>2, ConnectUntroubled, ReadUntroubled, StateUntroubled, TaskUntroubled,
     ExecuteUntroubled, AckUntroubled DEF NodeStep

\* A task that is submitted joins the rows with an identifier and a nonce that no
\* row has.
LEMMA SubmitUntroubled ==
  ASSUME Given, NEW t \in Task, Submit(t)
  PROVE  Untroubled'
<1>1. /\ rowid' = [rowid EXCEPT ![t] = 1 + Cardinality(Queued)] /\ Fresh(t)
      /\ UNCHANGED <<accepted, stored, confirmed, hub, states, starts, batch, up, down, cut>>
      /\ UNCHANGED <<pc, conn, held, cur, pending, journal>>
  BY DEF Submit, hubVars, session
<1>2. Cardinality(Queued) \in Nat /\ rowid \in [Task -> Nat]
  BY CountIsNat DEF Given, Grounds, TypeOK, RelayTypeOK, Queued
<1>3. Queued' = Queued \cup {t}
  BY <1>1, <1>2 DEF Queued
<1>4. StoredRows \subseteq StoredRows' /\ \A u : Waits(u) => Waits(u)'
  BY <1>1, <1>3 DEF StoredRows, Waits
<1>5. /\ Wire' = Wire /\ InSession' = InSession /\ (Talks' <=> Talks)
      /\ \A id : (WorksOn(id)' <=> WorksOn(id)) /\ (Confirms(id)' <=> Confirms(id))
  BY <1>1 DEF Wire, InSession, Talks, WorksOn, Confirms
<1>6. Named'
  BY <1>1, <1>3 DEF Given, Untroubled, Named
<1>7. NoncesUnique'
  BY <1>1, <1>3 DEF Given, Untroubled, NoncesUnique, Fresh
<1>8. NoAbort' /\ (InSession' => NoErrorSent')
  BY <1>1, <1>3, <1>5 DEF Given, Untroubled, NoAbort, NoErrorSent
<1>9. ASSUME Talks PROVE InStep'
  <2>1. RowServes'
    BY <1>1, <1>3, <1>9, TalkFacts, RowServesSame DEF InStep
  <2>2. TasksWait'
    BY <1>1, <1>4, <1>5, <1>9, TalkFacts DEF InStep, TasksWait
  <2>3. ReceiptsWait'
    BY <1>1, <1>4, <1>5, <1>9, TalkFacts DEF InStep, ReceiptsWait
  <2> QED
    BY <2>1, <2>2, <2>3 DEF InStep
<1> QED
  BY <1>5, <1>6, <1>7, <1>8, <1>9 DEF Untroubled

\* A process starts, or something breaks: what is left of a session is no more
\* than it was.
LEMMA EnvironmentUntroubled ==
  ASSUME Given, restores' = 0, StartProcess \/ Fault
  PROVE  Untroubled'
<1>0. ~RestoreSnapshot
  BY DEF RestoreSnapshot, Given, Grounds, TypeOK, CounterTypeOK
<1>1. UNCHANGED <<rowid, journal>>
  BY <1>0 DEF StartProcess, Fault, ConnectFails, CutLink, Crash, HubRestart, HubStops,
     TakeSnapshot, rows
<1>2. Named' /\ Queued' = Queued /\ NoncesUnique'
  BY <1>1 DEF Given, Untroubled, Named, Queued, NoncesUnique
<1>3. CASE StartProcess \/ ConnectFails \/ Crash
  <2>1. pc' \in {"idle", "failed", "down"}
    BY <1>3 DEF StartProcess, ConnectFails, Crash, LeaveSession
  <2> QED
    BY <1>2, <2>1, LeaveUntroubled DEF InSession
<1>4. CASE CutLink \/ HubRestart \/ TakeSnapshot
  <2>1. UNCHANGED <<pc, conn, held, cur, pending, down>>
    BY <1>4 DEF CutLink, HubRestart, HubStops, TakeSnapshot, session
  <2>2. Wire' = Wire /\ InSession' = InSession
    BY <2>1 DEF Wire, InSession
  <2>3. NoAbort' /\ (InSession' => NoErrorSent')
    BY <1>2, <2>1, <2>2 DEF Given, Untroubled, NoAbort, NoErrorSent
  <2>4. CASE TakeSnapshot
    <3>1. UNCHANGED <<rows, hubVars, up, cut>>
      BY <2>4 DEF TakeSnapshot
    <3>2. /\ UNCHANGED <<accepted, stored, confirmed, hub, states, starts, batch>>
          /\ (Talks' <=> Talks) /\ StoredRows' = StoredRows
          /\ \A t : Waits(t)' <=> Waits(t)
          /\ \A id : (WorksOn(id)' <=> WorksOn(id)) /\ (Confirms(id)' <=> Confirms(id))
      BY <1>2, <2>1, <2>2, <3>1 DEF rows, hubVars, Talks, StoredRows, Waits, WorksOn, Confirms
    <3>3. ASSUME Talks PROVE InStep'
      <4>1. RowServes'
        BY <1>2, <2>1, <3>1, <3>2, <3>3, TalkFacts, RowServesSame DEF InStep
      <4> QED
        BY <2>1, <2>2, <3>2, <3>3, <4>1, TalkFacts DEF InStep, TasksWait, ReceiptsWait
    <3> QED
      BY <1>2, <2>3, <3>2, <3>3 DEF Untroubled
  <2>5. CASE CutLink \/ HubRestart
    <3>1. ~Talks'
      <4>1. CASE CutLink
        BY <2>1, <4>1 DEF CutLink, Talks
      <4>2. CASE HubRestart
        <5>1. InSession => conn \in Conn
          BY SessionQueues DEF Given, Grounds
        <5> QED
          BY <2>1, <2>2, <4>2, <5>1 DEF HubRestart, HubStops, Talks
      <4> QED
        BY <2>5, <4>1, <4>2
    <3> QED
      BY <1>2, <2>3, <3>1 DEF Untroubled
  <2> QED
    BY <1>4, <2>4, <2>5
<1> QED
  BY <1>0, <1>3, <1>4 DEF Fault

\* While no deadline passes and no snapshot is restored, no session ends with an
\* error that is not retried, whatever is lost, cut or restarted: each receipt and
\* each confirmation finds a row that takes it, and no task is replayed. The Relay
\* must see a connection end before the next one begins: a handler that is late
\* answers for the node that has left it.
THEOREM NeverAborts ==
  ASSUME PromptClose
  PROVE  Spec => [](expired = {} /\ restores = 0 => NoAbort)
<1> DEFINE Calm == expired = {} /\ restores = 0
           Guarded == restores = 0 => Confirming
           Steady == Calm => Untroubled
           Base == Grounds /\ Guarded /\ Conversation /\ OneServes
<1>1. Init => Steady
  <2> SUFFICES ASSUME Init PROVE Untroubled
    OBVIOUS
  <2>1. ~InSession /\ Queued = {} /\ ~Talks
    BY DEF Init, InSession, Queued, Talks
  <2> QED
    BY <2>1 DEF Init, Untroubled, Named, NoncesUnique, NoAbort, NoEntry
<1>2. Base /\ Steady /\ [Next]_vars => Steady'
  <2> SUFFICES ASSUME Base, Steady, [Next]_vars, expired' = {}, restores' = 0
               PROVE  Untroubled'
    OBVIOUS
  <2>1. expired = {} /\ restores = 0
    <3>r. restores \in Nat
      BY DEF Grounds, TypeOK, CounterTypeOK
    <3>1. ~RestoreSnapshot
      BY <3>r DEF RestoreSnapshot
    <3>3. restores' = restores
      BY <3>1 DEF Next, HubStep, NodeStep, Fault, Submit, Expire, StartProcess,
         HubAuthenticate, HubSendState, HubFetch, HubDeliver, HubRecvAccept,
         HubRecvReceipt, HubRecvReceiptAck, HubEnd, Connect, RecvAuthenticated,
         RecvReceiptState, RecvTask, Execute, SetAside, RecvAck, RecvConfirmed,
         RecvError, Finish, SeesClose, IdleTimeout, Retry, ConnectFails, CutLink,
         Crash, HubRestart, HubStops, TakeSnapshot, counters, vars
    <3>2. expired \subseteq expired'
      BY DEF Next, HubStep, NodeStep, Fault, Submit, Expire,
         StartProcess, HubAuthenticate, HubSendState, HubFetch, HubDeliver, HubRecvAccept,
         HubRecvReceipt, HubRecvReceiptAck, HubEnd, Connect, RecvAuthenticated,
         RecvReceiptState, RecvTask, Execute, SetAside, RecvAck, RecvConfirmed,
         RecvError, Finish, SeesClose, IdleTimeout, Retry, ConnectFails, CutLink,
         Crash, HubRestart, HubStops, RestoreSnapshot, TakeSnapshot, vars
    <3> QED
      BY <3>2, <3>3
  <2>2. Given
    BY <2>1 DEF Given
  <2>3. CASE \E t \in Task : Submit(t) \/ Expire(t)
    <3>1. PICK t \in Task : Submit(t) \/ Expire(t)
      BY <2>3
    <3>2. ~Expire(t)
      BY DEF Expire
    <3> QED
      BY <2>2, <3>1, <3>2, SubmitUntroubled
  <2>4. CASE \E c \in Conn : HubStep(c)
    BY <2>2, <2>4, HubUntroubled
  <2>5. CASE StartProcess \/ Fault
    BY <2>2, <2>5, EnvironmentUntroubled
  <2>6. CASE NodeStep
    BY <2>1, <2>2, <2>6, NodeStaysUntroubled
  <2>7. CASE UNCHANGED vars
    <3>1. /\ UNCHANGED <<rowid, accepted, stored, confirmed, hub, states, starts, batch>>
          /\ UNCHANGED <<up, down, cut, pc, conn, held, cur, pending, journal>>
      BY <2>7 DEF vars, rows, hubVars, session
    <3>2. /\ Queued' = Queued /\ StoredRows' = StoredRows /\ Wire' = Wire
          /\ InSession' = InSession /\ (Talks' <=> Talks)
          /\ \A t : Waits(t)' <=> Waits(t)
          /\ \A id : (WorksOn(id)' <=> WorksOn(id)) /\ (Confirms(id)' <=> Confirms(id))
      BY <3>1 DEF Queued, StoredRows, Wire, InSession, Talks, Waits, WorksOn, Confirms
    <3>3. Named' /\ NoncesUnique' /\ NoAbort' /\ (InSession' => NoErrorSent')
      BY <2>2, <3>1, <3>2 DEF Given, Untroubled, Named, NoncesUnique, NoAbort, NoErrorSent
    <3>4. ASSUME Talks PROVE InStep'
      <4>1. RowServes'
        BY <2>2, <3>1, <3>2, <3>4, TalkFacts, RowServesSame DEF InStep
      <4> QED
        BY <2>2, <3>1, <3>2, <3>4, <4>1, TalkFacts DEF InStep, TasksWait, ReceiptsWait
    <3> QED
      BY <3>2, <3>3, <3>4 DEF Untroubled
  <2> QED
    BY <2>3, <2>4, <2>5, <2>6, <2>7 DEF Next
<1>3. Steady => (expired = {} /\ restores = 0 => NoAbort)
  BY DEF Untroubled
<1> HIDE DEF Calm, Guarded, Steady
<1>4. Spec => []Base
  <2>1. Spec => []OneServes
    BY OneServesInvariant
  <2>2. Spec => [](Grounds /\ Guarded)
    BY ConfirmingInvariant DEF Guarded
  <2> QED
    BY <2>1, <2>2, ConversationInvariant, PTL
<1>5. Spec => []Steady
  BY <1>1, <1>2, <1>4, PTL DEF Spec
<1> QED
  BY <1>3, <1>5, PTL

=============================================================================
