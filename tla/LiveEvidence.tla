---------------------------- MODULE LiveEvidence ----------------------------
(***************************************************************************)
(* The evidence of one live session: the session row, the event log and    *)
(* the bundles of LiveMetadataStore (live.sqlite), the files of            *)
(* LocalArtifactStore, and ObservationCursorStore and observe_live_session *)
(* of the nodes that watch the session through the gateway.                *)
(*                                                                         *)
(* The database has several writers: the gateway (live serve) and the      *)
(* commands live ingest, live close and evidence finalize, each a process  *)
(* that opens the same file. A method of the store uses one connection per *)
(* read and one transaction per write, and other processes run in between. *)
(* Within the gateway a request is served without an await, so a process   *)
(* has one operation at a time; a batch of events is one operation per     *)
(* event. A request that gives sequence and previous_event_hash itself     *)
(* either gives the ones the code would or is refused.                     *)
(***************************************************************************)
EXTENDS Naturals, Sequences, FiniteSets

CONSTANTS
    Writer,        \* processes that write the database
    Ingest,        \* those that run live ingest; the others are gateways
    Observer,      \* consumers of the observation cursors
    EventId, Content,
    Raw,           \* the events the sources send
    Revision,
    NoEvent,
    MaxRequests,   \* bound: requests in all
    MaxCrashes     \* bound: crashes of processes and nodes

ASSUME LiveAssumption ==
    /\ Ingest \subseteq Writer
    /\ Raw \subseteq [id : EventId, content : Content, typed : BOOLEAN]
    /\ {MaxRequests, MaxCrashes} \subseteq Nat

\* What an event hash stands for: the event and, through the hash before it,
\* every event before. A chain of entries is therefore the hash of its last.
Entry == [id : EventId, content : Content]

\* A row of events. previous is the previous_event_hash.
EventRow == [id : EventId, content : Content, sequence : Nat \ {0},
             previous : Seq(Entry)]

ASSUME NoEventAssumption == NoEvent \notin EventRow

Hash(e) == Append(e.previous, [id |-> e.id, content |-> e.content])

\* The row of sessions; status "none" is no row.
Session == [status : {"none", "live", "closed"}, next_sequence : Nat \ {0},
            head : Seq(Entry)]

VARIABLES
    \* live.sqlite and the artifact files
    session, events, bundles, files,
    \* the writers: what each is doing, the event it was sent last and the
    \* answer it gave
    job, sent, answer,
    \* the observers: program counter, cursor (durable), events received and
    \* not yet verified, and the logs their receipts report
    opc, cursor, received, results,
    requests, crashes

store     == <<session, events, bundles, files>>
writers   == <<job, sent, answer>>
observers == <<opc, cursor, received, results>>
vars      == <<store, writers, observers, requests, crashes>>

NoSession == [status |-> "none", next_sequence |-> 1, head |-> <<>>]

NoBundle == [saved |-> FALSE, log |-> <<>>]

Idle == [step |-> "idle", read |-> NoSession, event |-> NoEvent, revision |-> 0,
         log |-> <<>>]

StoredAs(id) == {e \in events : e.id = id}

\* The chain of the events that are stored, by the hash of the last one.
Log ==
    IF events = {} THEN <<>>
    ELSE Hash(CHOOSE e \in events : \A f \in events : f.sequence <= e.sequence)

-----------------------------------------------------------------------------
(* Writers                                                                 *)

At(p, step) == job[p].step = step

Go(p, step) == job' = [job EXCEPT ![p].step = step]

\* The operation of p ends and its caller learns how.
Answer(p, code) ==
    /\ job' = [job EXCEPT ![p] = Idle]
    /\ answer' = [answer EXCEPT ![p] = code]

Request(p) ==
    /\ At(p, "idle")
    /\ requests < MaxRequests
    /\ requests' = requests + 1
    /\ answer' = [answer EXCEPT ![p] = "none"]

\* What the two callers of append_event do before it, in their order.
Steps(p) ==
    IF p \in Ingest THEN [idle |-> "session", session |-> "lookup",
                          lookup |-> "artifact", artifact |-> "append"]
                    ELSE [idle |-> "artifact", artifact |-> "lookup",
                          lookup |-> "session", session |-> "append"]

CreateSession ==
    /\ session.status = "none"
    /\ session' = [session EXCEPT !.status = "live"]
    /\ UNCHANGED <<events, bundles, files, writers, observers, requests, crashes>>

AppendEvent(p, r) ==
    /\ Request(p)
    /\ sent' = [sent EXCEPT ![p] = r]
    /\ Go(p, Steps(p)["idle"])
    /\ UNCHANGED <<store, observers, crashes>>

AnyFile(content) == TRUE

SameFile(content) == files[content] = "whole"

NextAfterPut(p) == Go(p, Steps(p)["artifact"])

\* LocalArtifactStore.put looks for the file of the content, and compares one that
\* is there: other bytes, such as a half of them, are a conflict.
PutArtifact(p) ==
    /\ At(p, "artifact")
    /\ LET content == sent[p].content IN
         \/ /\ files[content] = "none"
            /\ Go(p, "again")
            /\ UNCHANGED answer
         \/ /\ files[content] # "none"
            /\ IF SameFile(content) THEN NextAfterPut(p) /\ UNCHANGED answer
                                    ELSE Answer(p, "artifact_conflict")
    /\ UNCHANGED <<store, sent, observers, requests, crashes>>

\* It looks a second time; a file that another process has made since is taken as
\* it is.
LookAgain(p) ==
    /\ At(p, "again")
    /\ IF files[sent[p].content] = "none" THEN Go(p, "create") ELSE NextAfterPut(p)
    /\ UNCHANGED <<store, sent, answer, observers, requests, crashes>>

\* write_bytes empties the file, whoever has written it meanwhile, ...
CreateArtifact(p) ==
    /\ At(p, "create")
    /\ files' = [files EXCEPT ![sent[p].content] = "torn"]
    /\ Go(p, "write")
    /\ UNCHANGED <<session, events, bundles, sent, answer, observers, requests,
                   crashes>>

\* ... and writes it.
WriteArtifact(p) ==
    /\ At(p, "write")
    /\ files' = [files EXCEPT ![sent[p].content] = "whole"]
    /\ NextAfterPut(p)
    /\ UNCHANGED <<session, events, bundles, sent, answer, observers, requests,
                   crashes>>

\* The event is stored already. The gateway compares source_type as it was
\* sent, and one that was left to its default never equals the stored one.
Known(p) ==
    /\ \E e \in StoredAs(sent[p].id) : e.content = sent[p].content
    /\ p \in Ingest \/ sent[p].typed

LookUp(p) ==
    /\ At(p, "lookup")
    /\ IF Known(p) THEN Answer(p, "duplicate")
                   ELSE Go(p, Steps(p)["lookup"]) /\ UNCHANGED answer
    /\ UNCHANGED <<store, sent, observers, requests, crashes>>

\* The event gets its place in the chain from the session as it is now.
BuildEvent(p) ==
    /\ At(p, "session")
    /\ IF session.status = "none"
       THEN Answer(p, "session_not_found")
       ELSE /\ job' = [job EXCEPT
                         ![p].step = Steps(p)["session"],
                         ![p].event = [id |-> sent[p].id,
                                       content |-> sent[p].content,
                                       sequence |-> session.next_sequence,
                                       previous |-> session.head]]
            /\ UNCHANGED answer
    /\ UNCHANGED <<store, sent, observers, requests, crashes>>

NeverEnded == FALSE

Ended == session.status = "closed"

\* append_event reads the session before its transaction, ...
AppendReads(p) ==
    /\ At(p, "append")
    /\ IF Ended
       THEN Answer(p, "session_closed")
       ELSE /\ job' = [job EXCEPT ![p].step = "check", ![p].read = session]
            /\ UNCHANGED answer
    /\ UNCHANGED <<store, sent, observers, requests, crashes>>

\* ... looks for the event, compares its place with the session as read, ...
AppendChecks(p) ==
    /\ At(p, "check")
    /\ LET e == job[p].event
           stored == StoredAs(e.id)
       IN  \/ stored = {e} /\ Answer(p, "duplicate")
           \/ stored \notin {{}, {e}} /\ Answer(p, "event_conflict")
           \/ /\ stored = {}
              /\ IF /\ e.sequence = job[p].read.next_sequence
                    /\ e.previous = job[p].read.head
                 THEN Go(p, "insert") /\ UNCHANGED answer
                 ELSE Answer(p, "sequence_gap")
    /\ UNCHANGED <<store, sent, observers, requests, crashes>>

NewId(e) == \A f \in events : f.id # e.id

\* PRIMARY KEY (event_id), UNIQUE (session_id, sequence).
FreeRow(e) == \A f \in events : f.id # e.id /\ f.sequence # e.sequence

\* The session as read, moved on by e.
MovedOn(p, e) ==
    [job[p].read EXCEPT !.next_sequence = e.sequence + 1, !.head = Hash(e)]

\* ... and writes the event and the whole session in one transaction.
AppendInserts(p) ==
    /\ At(p, "insert")
    /\ LET e == job[p].event IN
         IF FreeRow(e)
         THEN /\ events' = events \cup {e}
              /\ session' = MovedOn(p, e)
              /\ Answer(p, "accepted")
         ELSE Answer(p, "integrity_error") /\ UNCHANGED <<events, session>>
    /\ UNCHANGED <<bundles, files, sent, observers, requests, crashes>>

\* close_session: the session is read ...
CloseReads(p) ==
    /\ Request(p)
    /\ session.status = "live"
    /\ job' = [job EXCEPT ![p].step = "close", ![p].read = session]
    /\ UNCHANGED <<store, sent, observers, crashes>>

\* ... and written back as closed.
CloseWrites(p) ==
    /\ At(p, "close")
    /\ session' = [job[p].read EXCEPT !.status = "closed"]
    /\ Answer(p, "closed")
    /\ UNCHANGED <<events, bundles, files, sent, observers, requests, crashes>>

LiveToo == session.status # "none"

Finalizable == session.status = "closed"

\* finalize_evidence_bundle: the session is read and must be closed, ...
FinalizeReads(p, revision) ==
    /\ Request(p)
    /\ Finalizable
    /\ job' = [job EXCEPT ![p].step = "list", ![p].read = session,
                          ![p].revision = revision]
    /\ UNCHANGED <<store, sent, observers, crashes>>

\* Every event follows the one before it and has its artifact.
Intact ==
    \A e \in events : /\ e.previous = SubSeq(Log, 1, e.sequence - 1)
                      /\ files[e.content] = "whole"

\* ... the events are listed and verified up to the head, ...
FinalizeLists(p) ==
    /\ At(p, "list")
    /\ IF Intact /\ Log = job[p].read.head
       THEN /\ job' = [job EXCEPT ![p].step = "save", ![p].log = Log]
            /\ UNCHANGED answer
       ELSE Answer(p, "hash_chain_broken")
    /\ UNCHANGED <<store, sent, observers, requests, crashes>>

\* ... and the bundle is saved, unless its revision has another one.
FinalizeSaves(p) ==
    /\ At(p, "save")
    /\ LET saved == bundles[job[p].revision]
           log   == job[p].log
       IN  \/ /\ ~saved.saved
              /\ bundles' = [bundles EXCEPT ![job[p].revision] =
                               [saved |-> TRUE, log |-> log]]
              /\ Answer(p, "finalized")
           \/ /\ saved.saved
              /\ Answer(p, IF saved.log = log THEN "finalized"
                                              ELSE "bundle_revision_conflict")
              /\ UNCHANGED bundles
    /\ UNCHANGED <<session, events, files, sent, observers, requests, crashes>>

\* A process is killed. The file it was writing stays as it is. What it does to the
\* observers is RequestFails.
CrashWriter(p) ==
    /\ ~At(p, "idle")
    /\ crashes < MaxCrashes
    /\ crashes' = crashes + 1
    /\ Answer(p, "crashed")
    /\ UNCHANGED <<store, sent, observers, requests>>

-----------------------------------------------------------------------------
(* Observers                                                               *)

GoOn(o, step) == opc' = [opc EXCEPT ![o] = step]

\* GET stream?after=cursor. Without a session it is an error.
ReadStream(o) ==
    /\ opc[o] = "stream"
    /\ IF session.status = "none"
       THEN GoOn(o, "unavailable") /\ UNCHANGED received
       ELSE /\ received' = [received EXCEPT ![o] =
                              {e \in events : e.sequence > Len(cursor[o])}]
            /\ GoOn(o, "verify")
    /\ UNCHANGED <<store, writers, cursor, results, requests, crashes>>

\* A request for the stream, an artifact, the session or the evidence is not
\* answered in its time or with something else: the gateway is killed or not back
\* yet, the database is busy, the network fails. It ends the observation.
RequestFails(o) ==
    /\ opc[o] \in {"stream", "verify", "evidence"}
    /\ GoOn(o, "unavailable")
    /\ UNCHANGED <<store, writers, cursor, received, results, requests, crashes>>

\* What the observer requires of the event after its cursor.
Follows(e, chain) ==
    /\ e.sequence = Len(chain) + 1
    /\ e.previous = chain
    /\ files[e.content] = "whole"

\* The first event received is verified and the cursor saved on it.
VerifyEvent(o) ==
    /\ opc[o] = "verify"
    /\ \E e \in received[o] :
         /\ \A f \in received[o] : e.sequence <= f.sequence
         /\ IF Follows(e, cursor[o])
            THEN /\ cursor' = [cursor EXCEPT ![o] = Hash(e)]
                 /\ received' = [received EXCEPT ![o] = @ \ {e}]
                 /\ UNCHANGED opc
            ELSE GoOn(o, "failed") /\ UNCHANGED <<cursor, received>>
    /\ UNCHANGED <<store, writers, results, requests, crashes>>

NeverBehind(o) == FALSE

NotAhead(o) == Len(cursor[o]) <= session.next_sequence - 1

\* A closed session may have events the last response did not.
Behind(o) == Len(cursor[o]) < session.next_sequence - 1

\* GET the session: it is read again while it is live or the cursor is behind.
ReadState(o) ==
    /\ opc[o] = "verify"
    /\ received[o] = {}
    /\ GoOn(o, IF session.status = "live" \/ Behind(o) THEN "stream"
               ELSE IF session.head = cursor[o] THEN "evidence" ELSE "failed")
    /\ UNCHANGED <<store, writers, cursor, received, results, requests, crashes>>

\* GET evidence: the latest bundle, once there is one, must be the chain that
\* was observed.
ReadEvidence(o) ==
    /\ opc[o] = "evidence"
    /\ LET saved == {r \in Revision : bundles[r].saved} IN
         \/ /\ saved = {}
            /\ GoOn(o, "stream")
            /\ UNCHANGED results
         \/ \E r \in saved :
              /\ \A s \in saved : s <= r
              /\ IF bundles[r].log = cursor[o]
                 THEN /\ results' = [results EXCEPT ![o] = @ \cup {cursor[o]}]
                      /\ GoOn(o, "done")
                 ELSE GoOn(o, "failed") /\ UNCHANGED results
    /\ UNCHANGED <<store, writers, cursor, received, requests, crashes>>

\* The deadline is looked at once in every round.
ObservationTimeout(o) ==
    /\ opc[o] = "stream"
    /\ GoOn(o, "late")
    /\ UNCHANGED <<store, writers, cursor, received, results, requests, crashes>>

\* The node is killed, or has the task of a later observation, after one that
\* ended in whichever way: it goes on from its cursor.
ObserveAgain(o) ==
    /\ opc[o] # "stream"
    /\ crashes < MaxCrashes
    /\ crashes' = crashes + 1
    /\ received' = [received EXCEPT ![o] = {}]
    /\ GoOn(o, "stream")
    /\ UNCHANGED <<store, writers, cursor, results, requests>>

-----------------------------------------------------------------------------
Init ==
    /\ session = NoSession
    /\ events = {}
    /\ bundles = [r \in Revision |-> NoBundle]
    /\ files = [c \in Content |-> "none"]
    /\ job = [p \in Writer |-> Idle]
    /\ sent = [p \in Writer |-> NoEvent]
    /\ answer = [p \in Writer |-> "none"]
    /\ opc = [o \in Observer |-> "stream"]
    /\ cursor = [o \in Observer |-> <<>>]
    /\ received = [o \in Observer |-> {}]
    /\ results = [o \in Observer |-> {}]
    /\ requests = 0
    /\ crashes = 0

WriterStep(p) ==
    \/ PutArtifact(p)
    \/ LookAgain(p)
    \/ CreateArtifact(p)
    \/ WriteArtifact(p)
    \/ LookUp(p)
    \/ BuildEvent(p)
    \/ AppendReads(p)
    \/ AppendChecks(p)
    \/ AppendInserts(p)
    \/ CloseWrites(p)
    \/ FinalizeLists(p)
    \/ FinalizeSaves(p)

ObserverStep(o) ==
    \/ ReadStream(o)
    \/ VerifyEvent(o)
    \/ ReadState(o)
    \/ ReadEvidence(o)

Next ==
    \/ CreateSession
    \/ \E p \in Writer :
         \/ \E r \in Raw : AppendEvent(p, r)
         \/ CloseReads(p)
         \/ \E revision \in Revision : FinalizeReads(p, revision)
         \/ WriterStep(p)
         \/ CrashWriter(p)
    \/ \E o \in Observer :
         \/ ObserverStep(o)
         \/ RequestFails(o)
         \/ ObservationTimeout(o)
         \/ ObserveAgain(o)

Spec == Init /\ [][Next]_vars

\* An observer goes on with its loop: each request is given up after its time
\* (ClientTimeout), so one that does not fail is answered.
FairSpec == Spec /\ \A o \in Observer : WF_vars(ObserverStep(o))

-----------------------------------------------------------------------------
(* Properties                                                              *)

StoreTypeOK ==
    /\ session \in Session
    /\ session.next_sequence = Len(session.head) + 1
    /\ events \subseteq EventRow
    /\ bundles \in [Revision -> [saved : BOOLEAN, log : Seq(Entry)]]
    /\ files \in [Content -> {"none", "torn", "whole"}]

WriterTypeOK ==
    /\ job \in [Writer -> [step : {"idle", "artifact", "again", "create", "write",
                                   "lookup", "session", "append", "check",
                                   "insert", "close", "list", "save"},
                           read : Session, event : EventRow \cup {NoEvent},
                           revision : Revision \cup {0}, log : Seq(Entry)]]
    /\ sent \in [Writer -> Raw \cup {NoEvent}]
    /\ requests \in 0 .. MaxRequests
    /\ crashes \in 0 .. MaxCrashes

ObserverTypeOK ==
    /\ opc \in [Observer -> {"stream", "verify", "evidence", "done", "failed",
                           "late", "unavailable"}]
    /\ cursor \in [Observer -> Seq(Entry)]
    /\ received \in [Observer -> SUBSET events]
    /\ results \in [Observer -> SUBSET Seq(Entry)]

\* The type invariant.
TypeOK ==
    /\ StoreTypeOK
    /\ WriterTypeOK
    /\ ObserverTypeOK

\* However the processes interleave, the events form one chain: no two have the
\* same identity or place, and each follows the event stored before it.
ChainIntact ==
    \A e \in events :
        /\ e.sequence = Len(e.previous) + 1
        /\ e.previous # <<>> => \E f \in events : Hash(f) = e.previous
        /\ \A f \in events : f.id = e.id \/ f.sequence = e.sequence => f = e

\* An event is stored only with its artifact, though the file of the same content
\* was left half written by a crash. Two writers may break it: one that has seen no
\* file empties the one the other has written and stored an event on.
ArtifactsStored == \A e \in events : files[e.content] = "whole"

\* Closing is terminal: the session does not change any more and no event is
\* added.
ClosedIsTerminal ==
    [][session.status = "closed" => session' = session /\ events' = events]_vars

\* A retry of an event that is stored is accepted as a duplicate; only another
\* content under its id is a conflict.
RetryAccepted ==
    \A p \in Writer :
        answer[p] = "event_conflict" =>
            \E e \in StoredAs(sent[p].id) : e.content # sent[p].content

\* An observer meets no event it must reject and no bundle but its own, though
\* the session is written, closed and sealed between any two of its requests.
ObserversAgree == \A o \in Observer : opc[o] # "failed"

\* The ways in which observe_live_session returns or raises, other than for what it
\* has read.
EndedObservation(o) == opc[o] \in {"done", "late", "unavailable"}

\* Every observation of a session that was sealed ends: it is reported, unless it
\* is out of time or one of its requests fails. None goes on for ever, waiting for
\* a suffix or a bundle it has.
ObserversReport ==
    \A o \in Observer : (\E r \in Revision : bundles[r].saved) ~> EndedObservation(o)

\* With one writer the store is the log of EventLog: closed for ever, sealed as
\* a whole, and reported by observers as it was sealed.
Logs == INSTANCE EventLog WITH
    log      <- Log,
    closed   <- session.status = "closed",
    sealed   <- {bundles[r].log : r \in {r \in Revision : bundles[r].saved}},
    seen     <- [o \in Observer |-> Len(cursor[o])],
    reported <- results

ImplementsEventLog == Logs!Spec
=============================================================================
