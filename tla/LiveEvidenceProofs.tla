------------------------- MODULE LiveEvidenceProofs -------------------------
(***************************************************************************)
(* Proofs about LiveEvidence. With any number of writers: the types, and   *)
(* the chain of events. With one writer: every event has its artifact, the *)
(* log is closed for ever, no observer fails, and the store implements     *)
(* EventLog.                                                               *)
(***************************************************************************)
EXTENDS LiveEvidence, SequenceTheorems, TLAPS

-----------------------------------------------------------------------------
(* The invariant of the store, whoever writes                              *)

Job == [step : {"idle", "artifact", "again", "create", "write", "lookup", "session",
                "append", "check", "insert", "close", "list", "save"},
        read : Session, event : EventRow \cup {NoEvent},
        revision : Revision \cup {0}, log : Seq(Entry)]

\* A chain the store has, by its last event.
StoredIn(rows, chain) == chain = <<>> \/ \E f \in rows : Hash(f) = chain

Appending == {"append", "check", "insert"}

Putting == {"artifact", "again", "create", "write"}

\* What a writer keeps between its steps, with the rows and the artifacts there
\* are: the session it read and its event were places in the chain, the event is
\* the one it was sent, and from append_event on there is a file of its artifact.
JobOK(p, j, raw, rows, artifacts) ==
    /\ j \in Job
    /\ j.read.next_sequence = Len(j.read.head) + 1
    /\ StoredIn(rows, j.read.head)
    /\ j.event # NoEvent => /\ j.step \in {"lookup", "session"} \cup Putting \cup Appending
                            /\ j.event.sequence = Len(j.event.previous) + 1
                            /\ StoredIn(rows, j.event.previous)
                            /\ j.event.id = raw.id
                            /\ j.event.content = raw.content
    /\ j.step \in {"lookup", "session"} \cup Putting \cup Appending => raw \in Raw
    /\ j.step \in Appending => j.event # NoEvent
    /\ p \in Ingest /\ j.step \in {"lookup"} \cup Putting => j.event # NoEvent
    /\ j.step \in Appending => artifacts[raw.content] # "none"
    /\ p \notin Ingest /\ j.step \in {"lookup", "session"} => artifacts[raw.content] # "none"
    /\ j.step \in {"list", "save"} => j.revision \in Revision

WritersOK == \A p \in Writer : JobOK(p, job[p], sent[p], events, files)

\* Whoever writes it, an event has a file of its artifact.
ArtifactsExist == \A e \in events : files[e.content] # "none"

StoreOK ==
    /\ StoreTypeOK
    /\ StoredIn(events, session.head)
    /\ ChainIntact
    /\ ArtifactsExist

\* The inductive invariant of the store.
ChainInv == StoreOK /\ WriterTypeOK /\ WritersOK

\* The raw events are ids and contents.
LEMMA RawTypes ==
  ASSUME NEW r \in Raw
  PROVE  r.id \in EventId /\ r.content \in Content
  BY LiveAssumption

\* An event with its place is a row, and its hash one entry more.
LEMMA HashTypes ==
  ASSUME NEW e \in EventRow
  PROVE  /\ Hash(e) \in Seq(Entry) /\ Len(Hash(e)) = Len(e.previous) + 1
         /\ Hash(e) # <<>>
         /\ Len(e.previous) \in Nat
         /\ \A i \in 1 .. Len(e.previous) : Hash(e)[i] = e.previous[i]
         /\ Hash(e)[Len(e.previous) + 1] = [id |-> e.id, content |-> e.content]
<1>1. /\ e.previous \in Seq(Entry) /\ e.id \in EventId /\ e.content \in Content
  BY DEF EventRow
<1>2. [id |-> e.id, content |-> e.content] \in Entry
  BY <1>1 DEF Entry
<1> QED
  BY <1>1, <1>2 DEF Hash

\* No row and no file is ever removed.
Grows == /\ events \subseteq events'
         /\ \A c \in Content : files[c] # "none" => files'[c] # "none"

\* A writer's work stands, whatever is added.
LEMMA WorkStands ==
  ASSUME NEW p, NEW j, NEW raw, JobOK(p, j, raw, events, files), Grows
  PROVE  JobOK(p, j, raw, events', files')
<1>1. \A chain : StoredIn(events, chain) => StoredIn(events', chain)
  BY DEF StoredIn, Grows
<1>2. raw \in Raw /\ files[raw.content] # "none" => files'[raw.content] # "none"
  BY RawTypes DEF Grows
<1> HIDE DEF Appending, Putting
<1>3. j.step \in Appending => raw \in Raw
  BY DEF JobOK
<1>4. p \notin Ingest /\ j.step \in {"lookup", "session"} => raw \in Raw
  BY DEF JobOK
<1>5. j.step \in Appending => files'[raw.content] # "none"
  BY <1>2, <1>3 DEF JobOK
<1>6. p \notin Ingest /\ j.step \in {"lookup", "session"} => files'[raw.content] # "none"
  BY <1>2, <1>4 DEF JobOK
<1> QED
  BY <1>1, <1>5, <1>6 DEF JobOK

\* A writer that is idle keeps nothing.
LEMMA IdleOK ==
  ASSUME NEW p, NEW raw, NEW rows, NEW artifacts
  PROVE  JobOK(p, Idle, raw, rows, artifacts)
<1>1. <<>> \in Seq(Entry) /\ Len(<<>>) = 0
  OBVIOUS
<1>2. NoSession \in Session /\ NoSession.next_sequence = 1 /\ NoSession.head = <<>>
  BY <1>1 DEF NoSession, Session
<1>3. /\ Idle.step = "idle" /\ Idle.read = NoSession /\ Idle.event = NoEvent
      /\ Idle.revision = 0 /\ Idle.log = <<>>
  BY DEF Idle
<1>4. Idle \in Job
  BY <1>1, <1>2 DEF Idle, Job
<1> QED
  BY <1>1, <1>2, <1>3, <1>4 DEF JobOK, StoredIn, Appending, Putting

\* A step of one writer.
LEMMA OneMoves ==
  ASSUME ChainInv, NEW p \in Writer, NEW j, Grows,
         job' = [job EXCEPT ![p] = j],
         JobOK(p, j, sent'[p], events', files'),
         \/ sent' = sent
         \/ \E r \in Raw : sent' = [sent EXCEPT ![p] = r],
         requests' \in 0 .. MaxRequests, crashes' \in 0 .. MaxCrashes
  PROVE  WriterTypeOK' /\ WritersOK'
<1>1. j \in Job
  BY DEF JobOK
<1>2. job \in [Writer -> Job] /\ sent \in [Writer -> Raw \cup {NoEvent}]
  BY DEF ChainInv, WriterTypeOK, Job
<1>3. job' \in [Writer -> Job] /\ sent' \in [Writer -> Raw \cup {NoEvent}]
  BY <1>1, <1>2
<1>4. WriterTypeOK'
  BY <1>3 DEF WriterTypeOK, Job
<1>5. ASSUME NEW q \in Writer
      PROVE  JobOK(q, job'[q], sent'[q], events', files')
  <2>1. CASE q = p
    BY <1>2, <2>1
  <2>2. CASE q # p
    <3>1. job'[q] = job[q] /\ sent'[q] = sent[q]
      BY <1>2, <2>2
    <3>2. JobOK(q, job[q], sent[q], events, files)
      BY DEF ChainInv, WritersOK
    <3> QED
      BY <3>1, <3>2, WorkStands
  <2> QED
    BY <2>1, <2>2
<1> QED
  BY <1>4, <1>5 DEF WritersOK

\* The end of an operation.
LEMMA OneAnswers ==
  ASSUME ChainInv, NEW p \in Writer, NEW code, Answer(p, code), Grows, sent' = sent,
         requests' \in 0 .. MaxRequests, crashes' \in 0 .. MaxCrashes
  PROVE  WriterTypeOK' /\ WritersOK'
  BY IdleOK, OneMoves DEF Answer

\* A step that keeps the store.
LEMMA StoreSame ==
  ASSUME StoreOK, UNCHANGED store
  PROVE  StoreOK' /\ Grows
<1>1. /\ session' = session /\ events' = events /\ bundles' = bundles /\ files' = files
  BY DEF store
<1> QED
  BY <1>1 DEF StoreOK, StoreTypeOK, StoredIn, ChainIntact, ArtifactsExist, Grows

-----------------------------------------------------------------------------
(* The steps of the writers                                                *)

\* What p is at, with the types of what it keeps.
LEMMA AtWork ==
  ASSUME ChainInv, NEW p \in Writer
  PROVE  /\ job \in [Writer -> Job] /\ job[p] \in Job
         /\ JobOK(p, job[p], sent[p], events, files)
         /\ requests \in 0 .. MaxRequests /\ crashes \in 0 .. MaxCrashes
         /\ MaxRequests \in Nat /\ MaxCrashes \in Nat
         /\ session \in Session /\ session.next_sequence = Len(session.head) + 1
         /\ StoredIn(events, session.head)
  BY LiveAssumption DEF ChainInv, WriterTypeOK, WritersOK, StoreOK, StoreTypeOK, Job

\* A step of p goes on to another step of the same work.
LEMMA GoesOn ==
  ASSUME ChainInv, NEW p \in Writer, NEW step, Go(p, step), Grows, sent' = sent,
         requests' = requests, crashes' = crashes,
         step \in {"lookup", "session"} \cup Putting \cup Appending,
         sent[p] \in Raw,
         step \in Appending => job[p].event # NoEvent,
         p \in Ingest /\ step \in {"lookup"} \cup Putting => job[p].event # NoEvent,
         step \in Appending => files'[sent[p].content] # "none",
         p \notin Ingest /\ step \in {"lookup", "session"}
           => files'[sent[p].content] # "none"
  PROVE  WriterTypeOK' /\ WritersOK'
<1> DEFINE j == [job[p] EXCEPT !.step = step]
<1>1. /\ job \in [Writer -> Job] /\ job[p] \in Job
      /\ JobOK(p, job[p], sent[p], events, files)
      /\ requests' \in 0 .. MaxRequests /\ crashes' \in 0 .. MaxCrashes
  BY AtWork
<1>2. /\ j \in Job /\ j.step = step /\ j.read = job[p].read /\ j.event = job[p].event
  BY <1>1 DEF Job, Appending, Putting
<1>3. JobOK(p, job[p], sent[p], events', files')
  BY <1>1, WorkStands
<1>4. job' = [job EXCEPT ![p] = j]
  BY DEF Go
<1> HIDE DEF j
<1>5. step \notin {"list", "save"}
  BY DEF Appending, Putting
<1>6. JobOK(p, j, sent'[p], events', files')
  BY <1>2, <1>3, <1>5 DEF JobOK, Appending, Putting
<1> QED
  BY <1>1, <1>4, <1>6, OneMoves

LEMMA AppendEventOK ==
  ASSUME ChainInv, NEW p \in Writer, NEW r \in Raw, AppendEvent(p, r)
  PROVE  ChainInv'
<1> DEFINE j == [job[p] EXCEPT !.step = Steps(p)["idle"]]
<1>1. /\ job \in [Writer -> Job] /\ job[p] \in Job
      /\ JobOK(p, job[p], sent[p], events, files)
      /\ requests \in 0 .. MaxRequests /\ crashes \in 0 .. MaxCrashes
      /\ MaxRequests \in Nat
  BY AtWork
<1>2. StoreOK' /\ Grows
  BY StoreSame DEF ChainInv, AppendEvent
<1>3. Steps(p)["idle"] = IF p \in Ingest THEN "session" ELSE "artifact"
  BY DEF Steps
<1>4. /\ j \in Job /\ j.step = Steps(p)["idle"] /\ j.read = job[p].read
      /\ j.event = job[p].event
  BY <1>1, <1>3 DEF Job
<1>5. job' = [job EXCEPT ![p] = j] /\ sent' = [sent EXCEPT ![p] = r]
  BY DEF AppendEvent, Go
<1>6. sent'[p] = r
  BY <1>5 DEF ChainInv, WriterTypeOK
<1>7. requests' \in 0 .. MaxRequests /\ crashes' = crashes
  BY <1>1 DEF AppendEvent, Request
<1>8. job[p].event = NoEvent
  BY <1>1 DEF AppendEvent, Request, At, JobOK, Appending, Putting
<1> HIDE DEF j
<1>9. JobOK(p, j, r, events', files')
  BY <1>1, <1>2, <1>3, <1>4, <1>8, WorkStands DEF JobOK, Appending, Putting
<1> QED
  BY <1>1, <1>2, <1>5, <1>6, <1>7, <1>9, OneMoves DEF ChainInv

\* The rows and the session are as before and a file may be written further.
LEMMA FilesOnly ==
  ASSUME ChainInv, session' = session, events' = events, bundles' = bundles,
         NEW c \in Content, NEW to \in {"torn", "whole"},
         files' = [files EXCEPT ![c] = to]
  PROVE  StoreOK' /\ Grows /\ files'[c] = to
<1>1. files \in [Content -> {"none", "torn", "whole"}]
  BY DEF ChainInv, StoreOK, StoreTypeOK
<1>2. files' \in [Content -> {"none", "torn", "whole"}]
  BY <1>1
<1>3. /\ files'[c] = to /\ \A d \in Content : d # c => files'[d] = files[d]
  BY <1>1
<1>4. Grows
  BY <1>3 DEF Grows
<1>5. \A e \in events : e.content \in Content
  BY DEF ChainInv, StoreOK, StoreTypeOK, EventRow
<1>6. ArtifactsExist'
  BY <1>4, <1>5 DEF ChainInv, StoreOK, ArtifactsExist, Grows
<1>7. StoreTypeOK' /\ StoredIn(events', session'.head) /\ ChainIntact'
  BY <1>2 DEF ChainInv, StoreOK, StoreTypeOK, ChainIntact
<1> QED
  BY <1>3, <1>4, <1>6, <1>7 DEF StoreOK

LEMMA PutArtifactOK ==
  ASSUME ChainInv, NEW p \in Writer, PutArtifact(p)
  PROVE  ChainInv'
<1>1. /\ JobOK(p, job[p], sent[p], events, files) /\ job[p].step = "artifact"
      /\ requests' = requests /\ crashes' = crashes /\ sent' = sent
      /\ requests \in 0 .. MaxRequests /\ crashes \in 0 .. MaxCrashes
      /\ files' = files
  BY AtWork DEF PutArtifact, At, store
<1>2. StoreOK' /\ Grows
  BY StoreSame DEF ChainInv, PutArtifact
<1>3. sent[p] \in Raw /\ (p \in Ingest => job[p].event # NoEvent)
  BY <1>1 DEF JobOK, Putting
<1>4. Steps(p)["artifact"] = IF p \in Ingest THEN "append" ELSE "lookup"
  BY DEF Steps
<1>5. \/ Go(p, "again")
      \/ files[sent[p].content] # "none" /\ Go(p, Steps(p)["artifact"])
      \/ Answer(p, "artifact_conflict")
  BY DEF PutArtifact, NextAfterPut
<1>6. CASE Go(p, "again")
  <2>1. WriterTypeOK' /\ WritersOK'
    BY <1>1, <1>2, <1>3, <1>6, GoesOn DEF Appending, Putting
  <2> QED
    BY <1>2, <2>1 DEF ChainInv
<1>7. CASE files[sent[p].content] # "none" /\ Go(p, Steps(p)["artifact"])
  <2>1. WriterTypeOK' /\ WritersOK'
    BY <1>1, <1>2, <1>3, <1>4, <1>7, GoesOn DEF Appending, Putting
  <2> QED
    BY <1>2, <2>1 DEF ChainInv
<1>8. CASE Answer(p, "artifact_conflict")
  BY <1>1, <1>2, <1>8, OneAnswers DEF ChainInv
<1> QED
  BY <1>5, <1>6, <1>7, <1>8

LEMMA LookAgainOK ==
  ASSUME ChainInv, NEW p \in Writer, LookAgain(p)
  PROVE  ChainInv'
<1>1. /\ JobOK(p, job[p], sent[p], events, files) /\ job[p].step = "again"
      /\ requests' = requests /\ crashes' = crashes /\ sent' = sent
      /\ files' = files
  BY AtWork DEF LookAgain, At, store
<1>2. StoreOK' /\ Grows
  BY StoreSame DEF ChainInv, LookAgain
<1>3. sent[p] \in Raw /\ (p \in Ingest => job[p].event # NoEvent)
  BY <1>1 DEF JobOK, Putting
<1>4. Steps(p)["artifact"] = IF p \in Ingest THEN "append" ELSE "lookup"
  BY DEF Steps
<1>5. CASE files[sent[p].content] = "none" /\ Go(p, "create")
  <2>1. WriterTypeOK' /\ WritersOK'
    BY <1>1, <1>2, <1>3, <1>5, GoesOn DEF Appending, Putting
  <2> QED
    BY <1>2, <2>1 DEF ChainInv
<1>6. CASE files[sent[p].content] # "none" /\ Go(p, Steps(p)["artifact"])
  <2>1. WriterTypeOK' /\ WritersOK'
    BY <1>1, <1>2, <1>3, <1>4, <1>6, GoesOn DEF Appending, Putting
  <2> QED
    BY <1>2, <2>1 DEF ChainInv
<1> QED
  BY <1>5, <1>6 DEF LookAgain, NextAfterPut

LEMMA CreateArtifactOK ==
  ASSUME ChainInv, NEW p \in Writer, CreateArtifact(p)
  PROVE  ChainInv'
<1> DEFINE c == sent[p].content
<1>1. /\ JobOK(p, job[p], sent[p], events, files) /\ job[p].step = "create"
      /\ requests' = requests /\ crashes' = crashes /\ sent' = sent
      /\ session' = session /\ events' = events /\ bundles' = bundles
      /\ files' = [files EXCEPT ![c] = "torn"] /\ Go(p, "write")
  BY AtWork DEF CreateArtifact, At, observers
<1>2. sent[p] \in Raw /\ c \in Content
  BY <1>1, RawTypes DEF JobOK, Putting
<1>3. p \in Ingest => job[p].event # NoEvent
  BY <1>1 DEF JobOK, Putting
<1> HIDE DEF c
<1>4. StoreOK' /\ Grows
  BY <1>1, <1>2, FilesOnly
<1>5. WriterTypeOK' /\ WritersOK'
  BY <1>1, <1>2, <1>3, <1>4, GoesOn DEF Appending, Putting
<1> QED
  BY <1>4, <1>5 DEF ChainInv

LEMMA WriteArtifactOK ==
  ASSUME ChainInv, NEW p \in Writer, WriteArtifact(p)
  PROVE  ChainInv'
<1> DEFINE c == sent[p].content
<1>1. /\ JobOK(p, job[p], sent[p], events, files) /\ job[p].step = "write"
      /\ requests' = requests /\ crashes' = crashes /\ sent' = sent
      /\ session' = session /\ events' = events /\ bundles' = bundles
      /\ files' = [files EXCEPT ![c] = "whole"] /\ Go(p, Steps(p)["artifact"])
  BY AtWork DEF WriteArtifact, NextAfterPut, At, observers
<1>2. sent[p] \in Raw /\ c \in Content
  BY <1>1, RawTypes DEF JobOK, Putting
<1>3. p \in Ingest => job[p].event # NoEvent
  BY <1>1 DEF JobOK, Putting
<1>4. Steps(p)["artifact"] = IF p \in Ingest THEN "append" ELSE "lookup"
  BY DEF Steps
<1> HIDE DEF c
<1>5. StoreOK' /\ Grows /\ files'[c] = "whole"
  BY <1>1, <1>2, FilesOnly
<1>6. files'[sent[p].content] = "whole"
  BY <1>5 DEF c
<1>7. WriterTypeOK' /\ WritersOK'
  BY <1>1, <1>2, <1>3, <1>4, <1>5, <1>6, GoesOn DEF Appending, Putting
<1> QED
  BY <1>5, <1>7 DEF ChainInv

LEMMA LookUpOK ==
  ASSUME ChainInv, NEW p \in Writer, LookUp(p)
  PROVE  ChainInv'
<1>1. /\ JobOK(p, job[p], sent[p], events, files) /\ job[p].step = "lookup"
      /\ requests' = requests /\ crashes' = crashes /\ sent' = sent
      /\ requests \in 0 .. MaxRequests /\ crashes \in 0 .. MaxCrashes
      /\ files' = files
  BY AtWork DEF LookUp, At, store
<1>2. StoreOK' /\ Grows
  BY StoreSame DEF ChainInv, LookUp
<1>3. sent[p] \in Raw
  BY <1>1 DEF JobOK
<1>4. /\ p \in Ingest => job[p].event # NoEvent
      /\ p \notin Ingest => files'[sent[p].content] # "none"
  BY <1>1 DEF JobOK
<1>5. Steps(p)["lookup"] = IF p \in Ingest THEN "artifact" ELSE "session"
  BY DEF Steps
<1>6. CASE Answer(p, "duplicate")
  BY <1>1, <1>2, <1>6, OneAnswers DEF ChainInv
<1>7. CASE Go(p, Steps(p)["lookup"])
  <2>1. WriterTypeOK' /\ WritersOK'
    BY <1>1, <1>2, <1>3, <1>4, <1>5, <1>7, GoesOn DEF Appending, Putting
  <2> QED
    BY <1>2, <2>1 DEF ChainInv
<1> QED
  BY <1>6, <1>7 DEF LookUp

LEMMA BuildEventOK ==
  ASSUME ChainInv, NEW p \in Writer, BuildEvent(p)
  PROVE  ChainInv'
<1> DEFINE e == [id |-> sent[p].id, content |-> sent[p].content,
                 sequence |-> session.next_sequence, previous |-> session.head]
           j == [job[p] EXCEPT !.step = Steps(p)["session"], !.event = e]
<1>1. /\ JobOK(p, job[p], sent[p], events, files) /\ job[p].step = "session"
      /\ requests' = requests /\ crashes' = crashes /\ sent' = sent
      /\ requests \in 0 .. MaxRequests /\ crashes \in 0 .. MaxCrashes
      /\ job[p] \in Job
      /\ session \in Session /\ session.next_sequence = Len(session.head) + 1
      /\ StoredIn(events, session.head)
      /\ events' = events /\ files' = files
  BY AtWork DEF BuildEvent, At, store
<1>2. StoreOK' /\ Grows
  BY StoreSame DEF ChainInv, BuildEvent
<1>3. sent[p] \in Raw
  BY <1>1 DEF JobOK
<1>4. p \notin Ingest => files[sent[p].content] # "none"
  BY <1>1 DEF JobOK
<1>5. Steps(p)["session"] = IF p \in Ingest THEN "lookup" ELSE "append"
  BY DEF Steps
<1>6. e \in EventRow /\ e # NoEvent
  BY <1>1, <1>3, RawTypes, NoEventAssumption DEF EventRow, Session
<1>7. /\ j \in Job /\ j.step = Steps(p)["session"] /\ j.read = job[p].read
      /\ j.event = e
  BY <1>1, <1>5, <1>6 DEF Job
<1>8. /\ e.sequence = Len(e.previous) + 1 /\ StoredIn(events, e.previous)
      /\ e.id = sent[p].id /\ e.content = sent[p].content
  BY <1>1
<1>9. \/ Answer(p, "session_not_found")
      \/ job' = [job EXCEPT ![p] = j]
  BY DEF BuildEvent
<1> HIDE DEF e, j
<1>10. JobOK(p, j, sent[p], events, files)
  BY <1>1, <1>3, <1>4, <1>5, <1>6, <1>7, <1>8 DEF JobOK, Appending, Putting
<1>11. CASE Answer(p, "session_not_found")
  BY <1>1, <1>2, <1>11, OneAnswers DEF ChainInv
<1>12. CASE job' = [job EXCEPT ![p] = j]
  BY <1>1, <1>2, <1>10, <1>12, OneMoves DEF ChainInv
<1> QED
  BY <1>9, <1>11, <1>12

LEMMA AppendReadsOK ==
  ASSUME ChainInv, NEW p \in Writer, AppendReads(p)
  PROVE  ChainInv'
<1> DEFINE j == [job[p] EXCEPT !.step = "check", !.read = session]
<1>1. /\ JobOK(p, job[p], sent[p], events, files) /\ job[p].step = "append"
      /\ requests' = requests /\ crashes' = crashes /\ sent' = sent
      /\ requests \in 0 .. MaxRequests /\ crashes \in 0 .. MaxCrashes
      /\ job[p] \in Job
      /\ session \in Session /\ session.next_sequence = Len(session.head) + 1
      /\ StoredIn(events, session.head)
      /\ events' = events /\ files' = files
  BY AtWork DEF AppendReads, At, store
<1>2. StoreOK' /\ Grows
  BY StoreSame DEF ChainInv, AppendReads
<1>3. /\ j \in Job /\ j.step = "check" /\ j.read = session /\ j.event = job[p].event
  BY <1>1 DEF Job
<1>4. Answer(p, "session_closed") \/ job' = [job EXCEPT ![p] = j]
  BY DEF AppendReads
<1> HIDE DEF j
<1>5. JobOK(p, j, sent[p], events, files)
  BY <1>1, <1>3 DEF JobOK, Appending, Putting
<1>6. CASE Answer(p, "session_closed")
  BY <1>1, <1>2, <1>6, OneAnswers DEF ChainInv
<1>7. CASE job' = [job EXCEPT ![p] = j]
  BY <1>1, <1>2, <1>5, <1>7, OneMoves DEF ChainInv
<1> QED
  BY <1>4, <1>6, <1>7

LEMMA AppendChecksOK ==
  ASSUME ChainInv, NEW p \in Writer, AppendChecks(p)
  PROVE  ChainInv'
<1>1. /\ JobOK(p, job[p], sent[p], events, files) /\ job[p].step = "check"
      /\ requests' = requests /\ crashes' = crashes /\ sent' = sent
      /\ requests \in 0 .. MaxRequests /\ crashes \in 0 .. MaxCrashes
      /\ files' = files
  BY AtWork DEF AppendChecks, At, store
<1>2. StoreOK' /\ Grows
  BY StoreSame DEF ChainInv, AppendChecks
<1>3. /\ sent[p] \in Raw /\ job[p].event # NoEvent
      /\ files'[sent[p].content] # "none"
  BY <1>1 DEF JobOK, Appending, Putting
<1>4. ASSUME NEW code, Answer(p, code)
      PROVE  ChainInv'
  BY <1>1, <1>2, <1>4, OneAnswers DEF ChainInv
<1>5. CASE Go(p, "insert")
  <2>1. WriterTypeOK' /\ WritersOK'
    BY <1>1, <1>2, <1>3, <1>5, GoesOn DEF Appending, Putting
  <2> QED
    BY <1>2, <2>1 DEF ChainInv
<1> QED
  BY <1>4, <1>5 DEF AppendChecks

\* A new row has a place after a row that is stored, and no other has its
\* identity or place; the session moves on to it.
LEMMA RowAdded ==
  ASSUME ChainInv, NEW p \in Writer, job[p].step = "insert",
         FreeRow(job[p].event), events' = events \cup {job[p].event},
         session' = MovedOn(p, job[p].event), bundles' = bundles, files' = files
  PROVE  StoreOK' /\ Grows
<1> DEFINE e == job[p].event
<1>1. /\ JobOK(p, job[p], sent[p], events, files) /\ job[p] \in Job
  BY AtWork
<1>2. /\ e # NoEvent /\ e \in EventRow /\ e.sequence = Len(e.previous) + 1
      /\ StoredIn(events, e.previous) /\ e.content = sent[p].content
      /\ files[sent[p].content] # "none" /\ job[p].read \in Session
  BY <1>1 DEF JobOK, Appending, Putting, Job
<1>3. session' = [job[p].read EXCEPT !.next_sequence = e.sequence + 1, !.head = Hash(e)]
  BY DEF MovedOn
<1> HIDE DEF e
<1>4. Hash(e) \in Seq(Entry) /\ Len(Hash(e)) = e.sequence /\ e.sequence \in Nat \ {0}
  BY <1>2, HashTypes DEF EventRow
<1>5. /\ session' \in Session /\ session'.next_sequence = Len(session'.head) + 1
      /\ session'.head = Hash(e)
  <2> DEFINE read == job[p].read
             n == e.sequence + 1
             chain == Hash(e)
  <2>1. read \in Session /\ n \in Nat \ {0} /\ chain \in Seq(Entry) /\ n = Len(chain) + 1
    BY <1>2, <1>4
  <2>2. session' = [read EXCEPT !.next_sequence = n, !.head = chain]
    BY <1>3
  <2> HIDE DEF read, n, chain
  <2>3. session' \in Session /\ session'.next_sequence = n /\ session'.head = chain
    BY <2>1, <2>2 DEF Session
  <2> QED
    BY <2>1, <2>3 DEF chain
<1>6. events' = events \cup {e} /\ FreeRow(e)
  BY DEF e
<1>7. StoreTypeOK'
  BY <1>2, <1>5, <1>6 DEF ChainInv, StoreOK, StoreTypeOK
<1>8. StoredIn(events', session'.head)
  BY <1>5, <1>6 DEF StoredIn
<1>9. ArtifactsExist'
  BY <1>2, <1>6 DEF ChainInv, StoreOK, ArtifactsExist
<1>10. Grows
  BY <1>6 DEF Grows
<1>11. ChainIntact'
  <2> SUFFICES ASSUME NEW f \in events'
               PROVE  /\ f.sequence = Len(f.previous) + 1
                      /\ f.previous # <<>> => \E g \in events' : Hash(g) = f.previous
                      /\ \A g \in events' : g.id = f.id \/ g.sequence = f.sequence => g = f
    BY DEF ChainIntact
  <2>1. CASE f \in events
    BY <1>6, <2>1 DEF ChainInv, StoreOK, ChainIntact, FreeRow
  <2>2. CASE f = e
    BY <1>2, <1>6, <2>2 DEF StoredIn, FreeRow
  <2> QED
    BY <1>6, <2>1, <2>2
<1> QED
  BY <1>7, <1>8, <1>9, <1>10, <1>11 DEF StoreOK

LEMMA AppendInsertsOK ==
  ASSUME ChainInv, NEW p \in Writer, AppendInserts(p)
  PROVE  ChainInv'
<1>1. /\ job[p].step = "insert" /\ bundles' = bundles /\ files' = files
      /\ requests' = requests /\ crashes' = crashes /\ sent' = sent
      /\ requests \in 0 .. MaxRequests /\ crashes \in 0 .. MaxCrashes
  BY AtWork DEF AppendInserts, At
<1>2. CASE /\ FreeRow(job[p].event)
           /\ events' = events \cup {job[p].event}
           /\ session' = MovedOn(p, job[p].event)
           /\ Answer(p, "accepted")
  BY <1>1, <1>2, RowAdded, OneAnswers DEF ChainInv
<1>3. CASE Answer(p, "integrity_error") /\ UNCHANGED <<events, session>>
  BY <1>1, <1>3, StoreSame, OneAnswers DEF ChainInv, store
<1> QED
  BY <1>2, <1>3 DEF AppendInserts

LEMMA CloseReadsOK ==
  ASSUME ChainInv, NEW p \in Writer, CloseReads(p)
  PROVE  ChainInv'
<1> DEFINE j == [job[p] EXCEPT !.step = "close", !.read = session]
<1>1. /\ JobOK(p, job[p], sent[p], events, files) /\ job[p].step = "idle"
      /\ requests' \in 0 .. MaxRequests /\ crashes' \in 0 .. MaxCrashes /\ sent' = sent
      /\ job[p] \in Job
      /\ session \in Session /\ session.next_sequence = Len(session.head) + 1
      /\ StoredIn(events, session.head)
      /\ events' = events /\ files' = files
  BY AtWork DEF CloseReads, Request, At, store
<1>2. StoreOK' /\ Grows
  BY StoreSame DEF ChainInv, CloseReads
<1>3. /\ j \in Job /\ j.step = "close" /\ j.read = session /\ j.event = job[p].event
  BY <1>1 DEF Job
<1>4. job' = [job EXCEPT ![p] = j]
  BY DEF CloseReads
<1> HIDE DEF j
<1>5. JobOK(p, j, sent[p], events, files)
  BY <1>1, <1>3 DEF JobOK, Appending, Putting
<1> QED
  BY <1>1, <1>2, <1>4, <1>5, OneMoves DEF ChainInv

LEMMA CloseWritesOK ==
  ASSUME ChainInv, NEW p \in Writer, CloseWrites(p)
  PROVE  ChainInv'
<1>1. /\ JobOK(p, job[p], sent[p], events, files) /\ job[p] \in Job
      /\ requests' = requests /\ crashes' = crashes /\ sent' = sent
      /\ requests \in 0 .. MaxRequests /\ crashes \in 0 .. MaxCrashes
      /\ session' = [job[p].read EXCEPT !.status = "closed"]
      /\ events' = events /\ bundles' = bundles /\ files' = files
      /\ Answer(p, "closed")
  BY AtWork DEF CloseWrites
<1>2. /\ session' \in Session /\ session'.next_sequence = Len(session'.head) + 1
      /\ session'.head = job[p].read.head /\ StoredIn(events', session'.head)
  BY <1>1 DEF JobOK, Job, Session
<1>3. StoreOK' /\ Grows
  BY <1>1, <1>2 DEF ChainInv, StoreOK, StoreTypeOK, ChainIntact, ArtifactsExist, Grows
<1> QED
  BY <1>1, <1>3, OneAnswers DEF ChainInv

LEMMA FinalizeReadsOK ==
  ASSUME ChainInv, NEW p \in Writer, NEW r \in Revision, FinalizeReads(p, r)
  PROVE  ChainInv'
<1> DEFINE j == [job[p] EXCEPT !.step = "list", !.read = session, !.revision = r]
<1>1. /\ JobOK(p, job[p], sent[p], events, files) /\ job[p].step = "idle"
      /\ requests' \in 0 .. MaxRequests /\ crashes' \in 0 .. MaxCrashes /\ sent' = sent
      /\ job[p] \in Job
      /\ session \in Session /\ session.next_sequence = Len(session.head) + 1
      /\ StoredIn(events, session.head)
      /\ events' = events /\ files' = files
  BY AtWork DEF FinalizeReads, Request, At, store
<1>2. StoreOK' /\ Grows
  BY StoreSame DEF ChainInv, FinalizeReads
<1>3. /\ j \in Job /\ j.step = "list" /\ j.read = session /\ j.event = job[p].event
      /\ j.revision = r
  BY <1>1 DEF Job
<1>4. job' = [job EXCEPT ![p] = j]
  BY DEF FinalizeReads
<1> HIDE DEF j
<1>5. JobOK(p, j, sent[p], events, files)
  BY <1>1, <1>3 DEF JobOK, Appending, Putting
<1> QED
  BY <1>1, <1>2, <1>4, <1>5, OneMoves DEF ChainInv

LEMMA FinalizeListsOK ==
  ASSUME ChainInv, NEW p \in Writer, FinalizeLists(p)
  PROVE  ChainInv'
<1> DEFINE j == [job[p] EXCEPT !.step = "save", !.log = Log]
<1>1. /\ JobOK(p, job[p], sent[p], events, files) /\ job[p].step = "list"
      /\ requests' = requests /\ crashes' = crashes /\ sent' = sent
      /\ requests \in 0 .. MaxRequests /\ crashes \in 0 .. MaxCrashes
      /\ job[p] \in Job /\ events' = events /\ files' = files
  BY AtWork DEF FinalizeLists, At, store
<1>2. StoreOK' /\ Grows
  BY StoreSame DEF ChainInv, FinalizeLists
<1>3. CASE Answer(p, "hash_chain_broken")
  BY <1>1, <1>2, <1>3, OneAnswers DEF ChainInv
<1>4. CASE Log = job[p].read.head /\ job' = [job EXCEPT ![p] = j]
  <2>1. Log \in Seq(Entry)
    BY <1>1, <1>4 DEF Job, Session
  <2>2. /\ j \in Job /\ j.step = "save" /\ j.read = job[p].read
        /\ j.event = job[p].event /\ j.revision = job[p].revision
    BY <1>1, <2>1 DEF Job
  <2> HIDE DEF j
  <2>3. JobOK(p, j, sent[p], events, files)
    BY <1>1, <2>2 DEF JobOK, Appending, Putting
  <2> QED
    BY <1>1, <1>2, <1>4, <2>3, OneMoves DEF ChainInv
<1> QED
  BY <1>3, <1>4 DEF FinalizeLists

LEMMA FinalizeSavesOK ==
  ASSUME ChainInv, NEW p \in Writer, FinalizeSaves(p)
  PROVE  ChainInv'
<1> DEFINE saved == [saved |-> TRUE, log |-> job[p].log]
<1>1. /\ job[p] \in Job /\ JobOK(p, job[p], sent[p], events, files)
      /\ job[p].step = "save"
      /\ requests' = requests /\ crashes' = crashes /\ sent' = sent
      /\ requests \in 0 .. MaxRequests /\ crashes \in 0 .. MaxCrashes
      /\ session' = session /\ events' = events /\ files' = files
  BY AtWork DEF FinalizeSaves, At
<1>2. saved \in [saved : BOOLEAN, log : Seq(Entry)]
  BY <1>1 DEF Job
<1>3. /\ \/ bundles' = [bundles EXCEPT ![job[p].revision] = saved]
         \/ bundles' = bundles
      /\ \E code : Answer(p, code)
  BY DEF FinalizeSaves
<1> HIDE DEF saved
<1>4. bundles' \in [Revision -> [saved : BOOLEAN, log : Seq(Entry)]]
  BY <1>2, <1>3 DEF ChainInv, StoreOK, StoreTypeOK
<1>5. StoreOK' /\ Grows
  BY <1>1, <1>4 DEF ChainInv, StoreOK, StoreTypeOK, ChainIntact, ArtifactsExist, Grows
<1> QED
  BY <1>1, <1>3, <1>5, OneAnswers DEF ChainInv

LEMMA CrashWriterOK ==
  ASSUME ChainInv, NEW p \in Writer, CrashWriter(p)
  PROVE  ChainInv'
<1>1. /\ requests' \in 0 .. MaxRequests /\ crashes' \in 0 .. MaxCrashes /\ sent' = sent
      /\ Answer(p, "crashed")
  BY AtWork DEF CrashWriter
<1>2. StoreOK' /\ Grows
  BY StoreSame DEF ChainInv, CrashWriter
<1> QED
  BY <1>1, <1>2, OneAnswers DEF ChainInv

\* A new session has no events; observers write nothing.
LEMMA CreateSessionOK ==
  ASSUME ChainInv, CreateSession
  PROVE  ChainInv'
<1>1. /\ session' = [session EXCEPT !.status = "live"]
      /\ events' = events /\ bundles' = bundles /\ files' = files
      /\ job' = job /\ sent' = sent /\ requests' = requests /\ crashes' = crashes
  BY DEF CreateSession, writers
<1>2. /\ session' \in Session /\ session'.head = session.head
      /\ session'.next_sequence = session.next_sequence
  BY <1>1 DEF ChainInv, StoreOK, StoreTypeOK, Session
<1>3. StoreOK'
  BY <1>1, <1>2 DEF ChainInv, StoreOK, StoreTypeOK, ChainIntact, ArtifactsExist
<1>4. WriterTypeOK' /\ WritersOK'
  BY <1>1 DEF ChainInv, WriterTypeOK, WritersOK
<1> QED
  BY <1>3, <1>4 DEF ChainInv

LEMMA OnlyObserved ==
  ASSUME ChainInv, UNCHANGED <<store, writers, requests>>,
         crashes' \in 0 .. MaxCrashes
  PROVE  ChainInv'
<1>1. job' = job /\ sent' = sent /\ events' = events /\ files' = files
  BY DEF writers, store
<1>2. StoreOK'
  BY StoreSame DEF ChainInv
<1>3. WriterTypeOK' /\ WritersOK'
  BY <1>1 DEF ChainInv, WriterTypeOK, WritersOK
<1> QED
  BY <1>2, <1>3 DEF ChainInv

\* What the observers do to the store: nothing.
LEMMA ObserversRead ==
  ASSUME ChainInv, NEW o \in Observer,
         \/ ObserverStep(o) \/ RequestFails(o)
         \/ ObservationTimeout(o) \/ ObserveAgain(o)
  PROVE  UNCHANGED <<store, writers, requests>> /\ crashes' \in 0 .. MaxCrashes
<1>1. crashes \in 0 .. MaxCrashes /\ MaxCrashes \in Nat
  BY LiveAssumption DEF ChainInv, WriterTypeOK
<1> QED
  BY <1>1 DEF ObserverStep, ReadStream, VerifyEvent, ReadState, ReadEvidence,
              RequestFails, ObservationTimeout, ObserveAgain

LEMMA InitChain == Init => ChainInv
<1> SUFFICES ASSUME Init PROVE ChainInv
  OBVIOUS
<1>1. <<>> \in Seq(Entry) /\ Len(<<>>) = 0
  OBVIOUS
<1>2. session = NoSession /\ events = {}
  BY DEF Init
<1>3. NoSession \in Session /\ NoSession.next_sequence = 1 /\ NoSession.head = <<>>
  BY <1>1 DEF NoSession, Session
<1>4. NoBundle \in [saved : BOOLEAN, log : Seq(Entry)]
  BY <1>1 DEF NoBundle
<1>5. StoreTypeOK
  BY <1>1, <1>2, <1>3, <1>4 DEF StoreTypeOK, Init
<1>6. StoreOK
  BY <1>2, <1>3, <1>5 DEF StoreOK, StoredIn, ChainIntact, ArtifactsExist
<1>7. \A p \in Writer : JobOK(p, Idle, NoEvent, events, files) /\ Idle \in Job
  BY IdleOK DEF JobOK
<1>8. job = [p \in Writer |-> Idle] /\ sent = [p \in Writer |-> NoEvent]
  BY DEF Init
<1>9. WriterTypeOK
  BY <1>7, <1>8, LiveAssumption DEF Init, WriterTypeOK, Job
<1>10. WritersOK
  BY <1>7, <1>8 DEF WritersOK
<1> QED
  BY <1>6, <1>9, <1>10 DEF ChainInv

LEMMA NextChain == ChainInv /\ [Next]_vars => ChainInv'
<1> SUFFICES ASSUME ChainInv, [Next]_vars PROVE ChainInv'
  OBVIOUS
<1>1. CASE CreateSession
  BY <1>1, CreateSessionOK
<1>2. ASSUME NEW p \in Writer,
             \/ \E r \in Raw : AppendEvent(p, r)
             \/ CloseReads(p)
             \/ \E revision \in Revision : FinalizeReads(p, revision)
             \/ CrashWriter(p)
      PROVE  ChainInv'
  BY <1>2, AppendEventOK, CloseReadsOK, FinalizeReadsOK, CrashWriterOK
<1>3. ASSUME NEW p \in Writer, WriterStep(p)
      PROVE  ChainInv'
  BY <1>3, PutArtifactOK, LookAgainOK, CreateArtifactOK, WriteArtifactOK, LookUpOK,
     BuildEventOK, AppendReadsOK, AppendChecksOK, AppendInsertsOK, CloseWritesOK,
     FinalizeListsOK, FinalizeSavesOK
     DEF WriterStep
<1>4. ASSUME NEW o \in Observer,
             \/ ObserverStep(o) \/ RequestFails(o)
             \/ ObservationTimeout(o) \/ ObserveAgain(o)
      PROVE  ChainInv'
  BY <1>4, ObserversRead, OnlyObserved
<1>5. CASE UNCHANGED vars
  <2>1. UNCHANGED <<store, writers, requests>> /\ crashes' = crashes
    BY <1>5 DEF vars
  <2> QED
    BY <2>1, OnlyObserved DEF ChainInv, WriterTypeOK
<1> QED
  BY <1>1, <1>2, <1>3, <1>4, <1>5 DEF Next

\* The store keeps its types, whoever writes it, and every writer what it needs.
THEOREM StoreInvariant == Spec => []ChainInv
<1> QED
  BY InitChain, NextChain, PTL DEF Spec

\* However the processes interleave, no two events have the same identity or
\* place, and each follows a stored one: the primary key and the unique place
\* make up for the session that is read before the transaction.
THEOREM ChainIsIntact == Spec => []ChainIntact
<1>1. ChainInv => ChainIntact
  BY DEF ChainInv, StoreOK
<1> QED
  BY <1>1, StoreInvariant, PTL

\* However the processes interleave and are killed, an event is stored only after
\* a file of its artifact was made, and no file goes.
THEOREM ArtifactsAreThere == Spec => []ArtifactsExist
<1>1. ChainInv => ArtifactsExist
  BY DEF ChainInv, StoreOK
<1> QED
  BY <1>1, StoreInvariant, PTL

-----------------------------------------------------------------------------
(* Types of the observers                                                  *)

\* Writers and time leave the observers alone; rows are only added.
LEMMA WritersGrow ==
  ASSUME ChainInv, [Next]_vars
  PROVE  /\ events \subseteq events'
         /\ \/ UNCHANGED observers
            \/ \E o \in Observer : /\ \/ ObserverStep(o) \/ RequestFails(o)
                                      \/ ObservationTimeout(o) \/ ObserveAgain(o)
                                   /\ UNCHANGED <<store, writers, requests>>
<1>1. CASE CreateSession \/ UNCHANGED vars
  BY <1>1 DEF CreateSession, vars, store
<1>2. ASSUME NEW p \in Writer, \E r \in Raw : AppendEvent(p, r)
      PROVE  events \subseteq events' /\ UNCHANGED observers
  BY <1>2 DEF AppendEvent, store
<1>3. ASSUME NEW p \in Writer,
             CloseReads(p) \/ CrashWriter(p) \/ \E r \in Revision : FinalizeReads(p, r)
      PROVE  events \subseteq events' /\ UNCHANGED observers
  BY <1>3 DEF CloseReads, CrashWriter, FinalizeReads, store
<1>4. ASSUME NEW p \in Writer, WriterStep(p)
      PROVE  events \subseteq events' /\ UNCHANGED observers
  BY <1>4 DEF WriterStep, PutArtifact, LookAgain, CreateArtifact, WriteArtifact, LookUp,
              BuildEvent, AppendReads, AppendChecks, AppendInserts, CloseWrites,
              FinalizeLists, FinalizeSaves, store
<1>5. ASSUME NEW o \in Observer,
             \/ ObserverStep(o) \/ RequestFails(o)
             \/ ObservationTimeout(o) \/ ObserveAgain(o)
      PROVE  events' = events /\ UNCHANGED <<store, writers, requests>>
  BY <1>5, ObserversRead DEF store
<1> QED
  BY <1>1, <1>2, <1>3, <1>4, <1>5 DEF Next

LEMMA NextObservers ==
  ChainInv /\ ObserverTypeOK /\ [Next]_vars => ObserverTypeOK'
<1> SUFFICES ASSUME ChainInv, ObserverTypeOK, [Next]_vars PROVE ObserverTypeOK'
  OBVIOUS
<1>1. events \subseteq events' /\ events \subseteq EventRow
  BY WritersGrow DEF ChainInv, StoreOK, StoreTypeOK
<1>2. CASE UNCHANGED observers
  BY <1>1, <1>2 DEF observers, ObserverTypeOK
<1>3. ASSUME NEW o \in Observer, ReadStream(o) \/ ReadState(o)
      PROVE  ObserverTypeOK'
  BY <1>1, <1>3 DEF ReadStream, ReadState, GoOn, ObserverTypeOK, store
<1>4. ASSUME NEW o \in Observer, VerifyEvent(o)
      PROVE  ObserverTypeOK'
  <2>1. PICK e \in received[o] :
          IF Follows(e, cursor[o])
          THEN /\ cursor' = [cursor EXCEPT ![o] = Hash(e)]
               /\ received' = [received EXCEPT ![o] = @ \ {e}]
               /\ UNCHANGED opc
          ELSE GoOn(o, "failed") /\ UNCHANGED <<cursor, received>>
    BY <1>4 DEF VerifyEvent
  <2>2. Hash(e) \in Seq(Entry)
    BY <1>1, HashTypes DEF ObserverTypeOK
  <2>3. results' = results
    BY <1>4 DEF VerifyEvent
  <2> QED
    BY <1>1, <2>1, <2>2, <2>3 DEF GoOn, ObserverTypeOK
<1>5. ASSUME NEW o \in Observer, ReadEvidence(o)
      PROVE  ObserverTypeOK'
  <2>1. /\ cursor' = cursor /\ received' = received
        /\ results' = results \/ results' = [results EXCEPT ![o] = @ \cup {cursor[o]}]
        /\ GoOn(o, "stream") \/ GoOn(o, "done") \/ GoOn(o, "failed")
    BY <1>5 DEF ReadEvidence
  <2>s. results[o] \cup {cursor[o]} \in SUBSET Seq(Entry)
    BY DEF ObserverTypeOK
  <2>2. results' \in [Observer -> SUBSET Seq(Entry)]
    <3> HIDE <1>5
    <3> QED
      BY <2>1, <2>s DEF ObserverTypeOK
  <2> QED
    BY <1>1, <2>1, <2>2 DEF GoOn, ObserverTypeOK
<1>6. ASSUME NEW o \in Observer,
             RequestFails(o) \/ ObservationTimeout(o) \/ ObserveAgain(o)
      PROVE  ObserverTypeOK'
  BY <1>1, <1>6 DEF RequestFails, ObservationTimeout, ObserveAgain, GoOn, ObserverTypeOK
<1> QED
  BY <1>2, <1>3, <1>4, <1>5, <1>6, WritersGrow DEF ObserverStep

\* Every variable of the store, the writers and the observers keeps its type.
THEOREM Typing == Spec => []TypeOK
<1>1. Init => ChainInv /\ ObserverTypeOK
  <2>1. Init => ObserverTypeOK
    BY DEF Init, ObserverTypeOK
  <2> QED
    BY <2>1, InitChain
<1>2. ChainInv /\ ObserverTypeOK /\ [Next]_vars => ChainInv' /\ ObserverTypeOK'
  BY NextChain, NextObservers
<1>3. ChainInv /\ ObserverTypeOK => TypeOK
  BY DEF ChainInv, StoreOK, TypeOK
<1> QED
  BY <1>1, <1>2, <1>3, PTL DEF Spec

-----------------------------------------------------------------------------
(* One writer                                                              *)

\* One gateway has the database to itself.
OneWriter == \A p, q \in Writer : p = q

-----------------------------------------------------------------------------
(* The artifacts of one writer                                             *)

\* What the writer has found its file to be is still so.
FileAsFound(p) ==
    LET step == job[p].step
        file == files[sent[p].content]
    IN  /\ step \in Appending => file = "whole"
        /\ p \notin Ingest /\ step \in {"lookup", "session"} => file = "whole"
        /\ step \in {"again", "create"} => file = "none"
        /\ step = "write" => file = "torn"

FilesInv == ArtifactsStored /\ \A p \in Writer : FileAsFound(p)

\* A step of the writer that keeps the rows and the files.
LEMMA FilesKept ==
  ASSUME OneWriter, FilesInv, NEW p \in Writer,
         events' = events, files' = files, FileAsFound(p)'
  PROVE  FilesInv'
<1>1. ArtifactsStored'
  BY DEF FilesInv, ArtifactsStored
<1>2. ASSUME NEW q \in Writer PROVE FileAsFound(q)'
  <2>1. q = p
    BY DEF OneWriter
  <2> QED
    BY <2>1
<1> QED
  BY <1>1, <1>2 DEF FilesInv

\* The writer is at a step that says nothing of the file, or at one that goes on
\* from one that said it is whole.
LEMMA FilesQuiet ==
  ASSUME OneWriter, FilesInv, NEW p \in Writer, events' = events, files' = files,
         \/ job'[p].step \in {"idle", "artifact", "close", "list", "save"}
         \/ p \in Ingest /\ job'[p].step \in {"lookup", "session"}
         \/ /\ job'[p].step \in {"lookup", "session"} \cup Appending
            /\ files[sent[p].content] = "whole" /\ sent' = sent
  PROVE  FilesInv'
<1>1. FileAsFound(p)'
  BY DEF FileAsFound, Appending
<1> QED
  BY <1>1, FilesKept

\* Where the writer's step is after a step.
LEMMA StepAfter ==
  ASSUME ChainInv, NEW p \in Writer
  PROVE  /\ \A step : Go(p, step) => job'[p].step = step
         /\ \A code : Answer(p, code) => job'[p].step = "idle"
<1>1. job \in [Writer -> Job] /\ job[p] \in Job
  BY AtWork
<1>2. Idle.step = "idle"
  BY DEF Idle
<1> QED
  BY <1>1, <1>2 DEF Go, Answer, Job

LEMMA PuttingFiles ==
  ASSUME OneWriter, ChainInv, FilesInv, NEW p \in Writer,
         PutArtifact(p) \/ LookAgain(p) \/ CreateArtifact(p) \/ WriteArtifact(p)
  PROVE  FilesInv'
<1> DEFINE c == sent[p].content
<1>1. /\ JobOK(p, job[p], sent[p], events, files) /\ FileAsFound(p)
      /\ files \in [Content -> {"none", "torn", "whole"}]
      /\ \A e \in events : e.content \in Content /\ files[e.content] = "whole"
  BY AtWork DEF FilesInv, ArtifactsStored, ChainInv, StoreOK, StoreTypeOK, EventRow
<1>2. job[p].step \in Putting => c \in Content
  BY <1>1, RawTypes DEF JobOK
<1>3. Steps(p)["artifact"] = IF p \in Ingest THEN "append" ELSE "lookup"
  BY DEF Steps
<1>4. sent' = sent /\ events' = events
  BY DEF PutArtifact, LookAgain, CreateArtifact, WriteArtifact, store
<1>5. CASE PutArtifact(p)
  <2>1. files' = files
    BY <1>5 DEF PutArtifact, store
  <2>2. \/ files[c] = "none" /\ job'[p].step = "again"
        \/ files[c] = "whole" /\ job'[p].step = Steps(p)["artifact"]
        \/ job'[p].step = "idle"
    BY <1>5, StepAfter DEF PutArtifact, NextAfterPut, SameFile
  <2>3. FileAsFound(p)'
    BY <1>3, <1>4, <2>1, <2>2 DEF FileAsFound, Appending
  <2> QED
    BY <1>4, <2>1, <2>3, FilesKept
<1>6. CASE LookAgain(p)
  <2>1. files' = files /\ files[c] = "none"
    BY <1>1, <1>6 DEF LookAgain, At, FileAsFound, store
  <2>2. job'[p].step = "create"
    BY <1>6, <2>1, StepAfter DEF LookAgain
  <2>3. FileAsFound(p)'
    BY <1>4, <2>1, <2>2 DEF FileAsFound, Appending
  <2> QED
    BY <1>4, <2>1, <2>3, FilesKept
<1>7. ASSUME NEW to \in {"torn", "whole"}, files' = [files EXCEPT ![c] = to],
             c \in Content, files[c] # "whole",
             FileAsFound(p)'
      PROVE  FilesInv'
  <2>1. ASSUME NEW e \in events PROVE files'[e.content] = "whole"
    <3>1. e.content # c
      BY <1>1, <1>7
    <3> HIDE DEF c
    <3> QED
      BY <1>1, <1>7, <3>1
  <2>2. \A q \in Writer : q = p
    BY DEF OneWriter
  <2> QED
    BY <1>4, <1>7, <2>1, <2>2 DEF FilesInv, ArtifactsStored
<1>8. CASE CreateArtifact(p)
  <2>1. /\ job[p].step = "create" /\ files' = [files EXCEPT ![c] = "torn"]
        /\ job'[p].step = "write"
    BY <1>8, StepAfter DEF CreateArtifact, At
  <2>2. c \in Content /\ files[c] = "none"
    BY <1>1, <1>2, <2>1 DEF Putting, FileAsFound
  <2>3. files'[c] = "torn"
    BY <1>1, <2>1, <2>2
  <2>4. FileAsFound(p)'
    BY <1>4, <2>1, <2>3 DEF FileAsFound, Appending
  <2> QED
    BY <1>7, <2>1, <2>2, <2>4
<1>9. CASE WriteArtifact(p)
  <2>1. /\ job[p].step = "write" /\ files' = [files EXCEPT ![c] = "whole"]
        /\ job'[p].step = Steps(p)["artifact"]
    BY <1>9, StepAfter DEF WriteArtifact, NextAfterPut, At
  <2>2. c \in Content /\ files[c] = "torn"
    BY <1>1, <1>2, <2>1 DEF Putting, FileAsFound
  <2>3. files'[c] = "whole"
    BY <1>1, <2>1, <2>2
  <2>4. FileAsFound(p)'
    BY <1>3, <1>4, <2>1, <2>3 DEF FileAsFound, Appending
  <2> QED
    BY <1>7, <2>1, <2>2, <2>4
<1> QED
  BY <1>5, <1>6, <1>8, <1>9

\* The other steps of the writer: a row is added with a file that is whole.
LEMMA WriterFiles ==
  ASSUME OneWriter, ChainInv, FilesInv, NEW p \in Writer,
         \/ \E r \in Raw : AppendEvent(p, r)
         \/ LookUp(p) \/ BuildEvent(p) \/ AppendReads(p) \/ AppendChecks(p)
         \/ AppendInserts(p) \/ CloseReads(p) \/ CloseWrites(p)
         \/ \E r \in Revision : FinalizeReads(p, r)
         \/ FinalizeLists(p) \/ FinalizeSaves(p) \/ CrashWriter(p)
  PROVE  FilesInv'
<1>1. /\ JobOK(p, job[p], sent[p], events, files) /\ FileAsFound(p)
      /\ job \in [Writer -> Job] /\ job[p] \in Job
  BY AtWork DEF FilesInv
<1>2. /\ Steps(p)["idle"] = IF p \in Ingest THEN "session" ELSE "artifact"
      /\ Steps(p)["lookup"] = IF p \in Ingest THEN "artifact" ELSE "session"
      /\ Steps(p)["session"] = IF p \in Ingest THEN "lookup" ELSE "append"
  BY DEF Steps
<1>3. ASSUME NEW r \in Raw, AppendEvent(p, r) PROVE FilesInv'
  BY <1>2, <1>3, StepAfter, FilesQuiet DEF AppendEvent, store
<1>4. CASE LookUp(p)
  <2>1. p \notin Ingest => files[sent[p].content] = "whole"
    BY <1>1, <1>4 DEF LookUp, At, FileAsFound
  <2> QED
    BY <1>2, <1>4, <2>1, StepAfter, FilesQuiet DEF LookUp, store
<1>5. CASE BuildEvent(p)
  <2>1. p \notin Ingest => files[sent[p].content] = "whole"
    BY <1>1, <1>5 DEF BuildEvent, At, FileAsFound
  <2>2. job'[p].step \in {"idle", Steps(p)["session"]}
    BY <1>1, <1>5, StepAfter DEF BuildEvent, Job
  <2> QED
    BY <1>2, <1>5, <2>1, <2>2, FilesQuiet DEF BuildEvent, store, Appending
<1>6. CASE AppendReads(p) \/ AppendChecks(p)
  <2>1. files[sent[p].content] = "whole"
    BY <1>1, <1>6 DEF AppendReads, AppendChecks, At, FileAsFound, Appending
  <2>2. job'[p].step \in {"idle", "check", "insert"}
    BY <1>1, <1>6, StepAfter DEF AppendReads, AppendChecks, Job
  <2> QED
    BY <1>6, <2>1, <2>2, FilesQuiet DEF AppendReads, AppendChecks, store, Appending
<1>7. CASE AppendInserts(p)
  <2>1. files' = files /\ job'[p].step = "idle"
    BY <1>7, StepAfter DEF AppendInserts
  <2>2. /\ job[p].event # NoEvent /\ job[p].event.content = sent[p].content
        /\ files[sent[p].content] = "whole"
    BY <1>1, <1>7 DEF AppendInserts, At, JobOK, FileAsFound, Appending
  <2>3. events' \subseteq events \cup {job[p].event}
    BY <1>7 DEF AppendInserts
  <2>4. ArtifactsStored'
    BY <2>1, <2>2, <2>3 DEF FilesInv, ArtifactsStored
  <2>5. \A q \in Writer : q = p
    BY DEF OneWriter
  <2> QED
    BY <2>1, <2>4, <2>5 DEF FilesInv, FileAsFound, Appending
<1>8. CASE \/ CloseReads(p) \/ CloseWrites(p) \/ \E r \in Revision : FinalizeReads(p, r)
           \/ FinalizeLists(p) \/ FinalizeSaves(p) \/ CrashWriter(p)
  <2>1. events' = events /\ files' = files
    BY <1>8 DEF CloseReads, CloseWrites, FinalizeReads, FinalizeLists, FinalizeSaves,
                CrashWriter, store
  <2>2. job'[p].step \in {"idle", "close", "list", "save"}
    BY <1>1, <1>8, StepAfter DEF CloseReads, CloseWrites, FinalizeReads, FinalizeLists,
                                 FinalizeSaves, CrashWriter, Job
  <2> QED
    BY <2>1, <2>2, FilesQuiet
<1> QED
  BY <1>3, <1>4, <1>5, <1>6, <1>7, <1>8

LEMMA InitFiles == Init => FilesInv
<1>1. Idle.step = "idle"
  BY DEF Idle
<1> QED
  BY <1>1 DEF Init, FilesInv, ArtifactsStored, FileAsFound, Appending

LEMMA NextFiles ==
  ASSUME OneWriter, ChainInv, FilesInv, [Next]_vars
  PROVE  FilesInv'
<1>1. ASSUME events' = events, files' = files, sent' = sent, job' = job
      PROVE  FilesInv'
  BY <1>1 DEF FilesInv, ArtifactsStored, FileAsFound
<1>2. CASE CreateSession \/ UNCHANGED vars
  BY <1>1, <1>2 DEF CreateSession, vars, store, writers
<1>3. ASSUME NEW o \in Observer,
             \/ ObserverStep(o) \/ RequestFails(o)
             \/ ObservationTimeout(o) \/ ObserveAgain(o)
      PROVE  FilesInv'
  BY <1>1, <1>3, ObserversRead DEF store, writers
<1> QED
  BY <1>2, <1>3, PuttingFiles, WriterFiles DEF Next, WriterStep

-----------------------------------------------------------------------------
(* The history of one writer                                               *)

\* The rows are the chain of the session's head, entry by entry.
RowsAreHead ==
    /\ \A e \in events : /\ e.sequence \in 1 .. Len(session.head)
                         /\ \A i \in 1 .. Len(e.previous) : e.previous[i] = session.head[i]
                         /\ session.head[e.sequence] = [id |-> e.id, content |-> e.content]
    /\ \A i \in 1 .. Len(session.head) : \E e \in events : e.sequence = i

\* What the writer read is still so when it writes.
ReadsCurrent(j, s) ==
    /\ j.event # NoEvent => /\ j.event.sequence = s.next_sequence
                            /\ j.event.previous = s.head
                            /\ s.status # "none"
    /\ j.step \in {"check", "insert", "close"} => j.read = s /\ s.status = "live"
    /\ j.step \in {"list", "save"} => j.read = s /\ s.status = "closed"
    /\ j.step = "save" => j.log = s.head

\* A bundle seals the whole log of a closed session.
SealsHead ==
    \A r \in Revision : bundles[r].saved => /\ session.status = "closed"
                                            /\ bundles[r].log = session.head

\* An observer is somewhere in the log, and what it has received goes on from
\* there without a gap; it looks for the bundle of a log it has seen to the end.
ObserverOK(o) ==
    /\ Len(cursor[o]) <= Len(session.head)
    /\ \A i \in 1 .. Len(cursor[o]) : cursor[o][i] = session.head[i]
    /\ \A e \in received[o] :
         /\ Len(cursor[o]) < e.sequence
         /\ \A f \in events :
              Len(cursor[o]) < f.sequence /\ f.sequence < e.sequence => f \in received[o]
    /\ opc[o] \in {"verify", "evidence"} => session.status # "none"
    /\ opc[o] = "evidence" => session.status = "closed" /\ cursor[o] = session.head
    /\ opc[o] # "failed"

\* The inductive invariant with one writer.
OneInv ==
    /\ RowsAreHead
    /\ \A p \in Writer : ReadsCurrent(job[p], session)
    /\ SealsHead
    /\ \A o \in Observer : ObserverOK(o)

\* A chain is the start of another as long as it is if they are one.
LEMMA SameChain ==
  ASSUME NEW s \in Seq(Entry), NEW t \in Seq(Entry), Len(s) = Len(t),
         \A i \in 1 .. Len(s) : s[i] = t[i]
  PROVE  s = t
  BY SeqEqual

\* What a row's hash is: the log up to the row.
LEMMA RowHash ==
  ASSUME ChainInv, RowsAreHead, NEW e \in events
  PROVE  /\ Hash(e) \in Seq(Entry) /\ Len(Hash(e)) = e.sequence
         /\ e.sequence \in 1 .. Len(session.head)
         /\ Len(session.head) \in Nat
         /\ \A i \in 1 .. e.sequence : Hash(e)[i] = session.head[i]
<1>1. e \in EventRow /\ session \in Session /\ e.sequence = Len(e.previous) + 1
  BY DEF ChainInv, StoreOK, StoreTypeOK, ChainIntact
<1>2. Len(session.head) \in Nat
  BY <1>1 DEF Session
<1>3. /\ e.sequence \in 1 .. Len(session.head)
      /\ \A i \in 1 .. Len(e.previous) : e.previous[i] = session.head[i]
      /\ session.head[e.sequence] = [id |-> e.id, content |-> e.content]
  BY DEF RowsAreHead
<1>4. /\ Hash(e) \in Seq(Entry) /\ Len(Hash(e)) = Len(e.previous) + 1
      /\ Len(e.previous) \in Nat
      /\ \A i \in 1 .. Len(e.previous) : Hash(e)[i] = e.previous[i]
      /\ Hash(e)[Len(e.previous) + 1] = [id |-> e.id, content |-> e.content]
  BY <1>1, HashTypes
<1>5. ASSUME NEW i \in 1 .. e.sequence
      PROVE  Hash(e)[i] = session.head[i]
  <2>1. CASE i \in 1 .. Len(e.previous)
    BY <1>3, <1>4, <2>1
  <2>2. CASE i = e.sequence
    BY <1>1, <1>3, <1>4, <2>2
  <2> QED
    BY <1>1, <1>4, <2>1, <2>2
<1> QED
  BY <1>1, <1>2, <1>3, <1>4, <1>5

\* The log is the chain of the head.
LEMMA LogIsHead ==
  ASSUME ChainInv, RowsAreHead
  PROVE  Log = session.head
<1>1. session.head \in Seq(Entry) /\ Len(session.head) \in Nat
  BY DEF ChainInv, StoreOK, StoreTypeOK, Session
<1>2. CASE events = {}
  <2>1. Len(session.head) = 0
    BY <1>1, <1>2 DEF RowsAreHead
  <2>2. session.head = <<>>
    BY <1>1, <2>1, SameChain
  <2> QED
    BY <1>2, <2>2 DEF Log
<1>3. CASE events # {}
  <2> DEFINE last == CHOOSE e \in events : \A f \in events : f.sequence <= e.sequence
             n == Len(session.head)
  <2>1. \A e \in events : e.sequence \in 1 .. n
    BY DEF RowsAreHead
  <2>2. n \in 1 .. n
    BY <1>1, <1>3, <2>1
  <2>3. PICK e \in events : e.sequence = n
    BY <2>2 DEF RowsAreHead
  <2>4. \A f \in events : f.sequence <= e.sequence
    BY <1>1, <2>1, <2>3
  <2>5. last \in events /\ \A f \in events : f.sequence <= last.sequence
    BY <2>4
  <2> HIDE DEF last
  <2>6. last.sequence = n
    BY <1>1, <2>1, <2>3, <2>5
  <2>7. Hash(last) = session.head
    BY <1>1, <2>5, <2>6, RowHash, SameChain
  <2> QED
    BY <1>3, <2>7 DEF Log, last
<1> QED
  BY <1>2, <1>3

\* With one writer, it reads the session of its own work.
LEMMA Current ==
  ASSUME OneWriter, ChainInv, OneInv, NEW p \in Writer
  PROVE  /\ ReadsCurrent(job[p], session)
         /\ job \in [Writer -> Job] /\ job[p] \in Job
         /\ \A q \in Writer : q = p
  BY AtWork DEF OneInv, OneWriter

\* The session and the rows stay, and the work of the writer is current.
LEMMA WorkIsCurrent ==
  ASSUME OneWriter, OneInv, NEW p \in Writer,
         session' = session, events' = events, bundles' = bundles, UNCHANGED observers,
         ReadsCurrent(job'[p], session')
  PROVE  OneInv'
<1>2. \A q \in Writer : ReadsCurrent(job'[q], session')
  BY DEF OneWriter
<1>3. RowsAreHead' /\ SealsHead'
  BY DEF OneInv, RowsAreHead, SealsHead
<1>4. ASSUME NEW o \in Observer PROVE ObserverOK(o)'
  <2>1. ObserverOK(o)
    BY DEF OneInv
  <2> QED
    BY <2>1 DEF ObserverOK, observers
<1> QED
  BY <1>2, <1>3, <1>4 DEF OneInv

\* A writer that is idle has read nothing.
LEMMA IdleIsCurrent ==
  ASSUME NEW s
  PROVE  ReadsCurrent(Idle, s)
<1>1. Idle.step = "idle" /\ Idle.event = NoEvent
  BY DEF Idle
<1> QED
  BY <1>1 DEF ReadsCurrent

\* A step that writes neither the session nor the rows.
Quiet(p) ==
    \/ \E r \in Raw : AppendEvent(p, r)
    \/ PutArtifact(p)
    \/ LookAgain(p)
    \/ CreateArtifact(p)
    \/ WriteArtifact(p)
    \/ LookUp(p)
    \/ BuildEvent(p)
    \/ AppendReads(p)
    \/ AppendChecks(p)
    \/ CloseReads(p)
    \/ \E revision \in Revision : FinalizeReads(p, revision)
    \/ FinalizeLists(p)
    \/ CrashWriter(p)

LEMMA QuietKeeps ==
  ASSUME NEW p \in Writer, Quiet(p)
  PROVE  /\ session' = session /\ events' = events /\ bundles' = bundles
         /\ UNCHANGED observers
  BY DEF Quiet, AppendEvent, PutArtifact, LookAgain, CreateArtifact, WriteArtifact, LookUp,
         BuildEvent, AppendReads, AppendChecks, CloseReads, FinalizeReads,
         FinalizeLists, CrashWriter, store

LEMMA QuietOne ==
  ASSUME OneWriter, ChainInv, OneInv, NEW p \in Writer, Quiet(p)
  PROVE  OneInv'
<1>k. /\ session' = session /\ events' = events /\ bundles' = bundles
      /\ UNCHANGED observers
  BY QuietKeeps
<1>w. /\ ReadsCurrent(job[p], session)
      /\ job \in [Writer -> Job] /\ job[p] \in Job
  BY Current
<1>s. SUFFICES ReadsCurrent(job'[p], session)
  BY <1>k, WorkIsCurrent
<1>j. JobOK(p, job[p], sent[p], events, files)
  BY AtWork
<1>a. ASSUME NEW code, Answer(p, code)
      PROVE  ReadsCurrent(job'[p], session)
  <2>1. job'[p] = Idle
    BY <1>a, <1>w DEF Answer
  <2> QED
    BY <2>1, IdleIsCurrent
<1>g. ASSUME NEW step \in {"lookup", "session", "append"} \cup Putting, Go(p, step)
      PROVE  ReadsCurrent(job'[p], session)
  <2>1. /\ job'[p].step = step /\ job'[p].event = job[p].event
    BY <1>g, <1>w DEF Go, Job
  <2> QED
    BY <1>w, <2>1 DEF ReadsCurrent, Putting
<1>n. Steps(p)["idle"] \in {"artifact", "session"} /\ Steps(p)["session"] \in {"lookup", "append"}
      /\ Steps(p)["lookup"] \in {"artifact", "session"} /\ Steps(p)["artifact"] \in {"lookup", "append"}
  BY DEF Steps
<1>1. ASSUME NEW r \in Raw, AppendEvent(p, r)
      PROVE  ReadsCurrent(job'[p], session)
  BY <1>1, <1>g, <1>n DEF AppendEvent, Putting
<1>2. CASE PutArtifact(p) \/ LookAgain(p) \/ CreateArtifact(p) \/ WriteArtifact(p) \/ LookUp(p)
  BY <1>2, <1>a, <1>g, <1>n
     DEF PutArtifact, LookAgain, CreateArtifact, WriteArtifact, NextAfterPut, LookUp, Putting
<1>3. CASE BuildEvent(p)
  <2> DEFINE e == [id |-> sent[p].id, content |-> sent[p].content,
                   sequence |-> session.next_sequence, previous |-> session.head]
  <2>1. CASE Answer(p, "session_not_found")
    BY <1>a, <2>1
  <2>2. CASE /\ session.status # "none"
             /\ job' = [job EXCEPT ![p].step = Steps(p)["session"], ![p].event = e]
    <3>1. e.sequence = session.next_sequence /\ e.previous = session.head
      OBVIOUS
    <3> HIDE DEF e
    <3>2. job'[p].step = Steps(p)["session"] /\ job'[p].event = e
      BY <2>2, <1>w DEF Job
    <3> QED
      BY <1>n, <2>2, <3>1, <3>2 DEF ReadsCurrent
  <2> QED
    BY <1>3, <2>1, <2>2 DEF BuildEvent
<1>4. CASE AppendReads(p)
  <2>1. CASE Answer(p, "session_closed")
    BY <1>a, <2>1
  <2>2. CASE /\ ~Ended
             /\ job' = [job EXCEPT ![p].step = "check", ![p].read = session]
    <3>1. job'[p].step = "check" /\ job'[p].event = job[p].event /\ job'[p].read = session
      BY <2>2, <1>w DEF Job
    <3>2. job[p].event # NoEvent
      BY <1>4, <1>j DEF AppendReads, At, JobOK, Appending
    <3>3. session.status = "live"
      BY <1>w, <2>2, <3>2, AtWork DEF ReadsCurrent, Ended, Session
    <3> QED
      BY <1>w, <3>1, <3>3 DEF ReadsCurrent
  <2> QED
    BY <1>4, <2>1, <2>2 DEF AppendReads
<1>5. CASE AppendChecks(p)
  <2>1. CASE Go(p, "insert")
    <3>1. /\ job'[p].step = "insert" /\ job'[p].event = job[p].event
          /\ job'[p].read = job[p].read
      BY <2>1, <1>w DEF Go, Job
    <3> QED
      BY <1>5, <1>w, <3>1 DEF AppendChecks, At, ReadsCurrent
  <2> QED
    BY <1>5, <1>a, <2>1 DEF AppendChecks
<1>6. CASE CloseReads(p)
  <2>1. job'[p].step = "close" /\ job'[p].event = job[p].event /\ job'[p].read = session
    BY <1>6, <1>w DEF CloseReads, Job
  <2>2. session.status = "live"
    BY <1>6 DEF CloseReads
  <2> QED
    BY <1>w, <2>1, <2>2 DEF ReadsCurrent
<1>7. ASSUME NEW r \in Revision, FinalizeReads(p, r)
      PROVE  ReadsCurrent(job'[p], session)
  <2>1. job'[p].step = "list" /\ job'[p].event = job[p].event /\ job'[p].read = session
    BY <1>7, <1>w DEF FinalizeReads, Job
  <2>2. session.status = "closed"
    BY <1>7 DEF FinalizeReads, Finalizable
  <2> QED
    BY <1>w, <2>1, <2>2 DEF ReadsCurrent
<1>8. CASE FinalizeLists(p)
  <2>1. CASE Log = job[p].read.head /\ job' = [job EXCEPT ![p].step = "save", ![p].log = Log]
    <3>1. /\ job'[p].step = "save" /\ job'[p].event = job[p].event
          /\ job'[p].read = job[p].read /\ job'[p].log = Log
      BY <2>1, <1>w DEF Job
    <3>2. Log = session.head
      BY LogIsHead DEF OneInv
    <3> QED
      BY <1>8, <1>w, <3>1, <3>2 DEF FinalizeLists, At, ReadsCurrent
  <2> QED
    BY <1>8, <1>a, <2>1 DEF FinalizeLists
<1>9. CASE CrashWriter(p)
  BY <1>9, <1>a DEF CrashWriter
<1> QED
  BY <1>1, <1>2, <1>3, <1>4, <1>5, <1>6, <1>7, <1>8, <1>9 DEF Quiet

\* What append_event writes: the head one entry longer, with its row.
Added(p) ==
    LET e == job[p].event
        n == Len(session.head)
    IN  /\ session.status = "live" /\ session'.status = "live"
        /\ n \in Nat
        /\ e.sequence = n + 1
        /\ e.previous = session.head
        /\ [id |-> e.id, content |-> e.content] \in Entry
        /\ \A f \in events : f.id # e.id
        /\ events' = events \cup {e}
        /\ session'.head = Append(session.head, [id |-> e.id, content |-> e.content])
        /\ Len(session'.head) = n + 1
        /\ \A i \in 1 .. n : session'.head[i] = session.head[i]
        /\ session'.head[n + 1] = [id |-> e.id, content |-> e.content]
        /\ bundles' = bundles
        /\ job'[p] = Idle
        /\ UNCHANGED observers

LEMMA InsertAdds ==
  ASSUME OneWriter, ChainInv, OneInv, NEW p \in Writer, AppendInserts(p)
  PROVE  \/ Added(p)
         \/ /\ session' = session /\ events' = events /\ bundles' = bundles
            /\ UNCHANGED observers /\ job'[p] = Idle
<1> DEFINE e == job[p].event
           entry == [id |-> e.id, content |-> e.content]
<1>w. /\ ReadsCurrent(job[p], session)
      /\ job \in [Writer -> Job] /\ job[p] \in Job
      /\ JobOK(p, job[p], sent[p], events, files)
      /\ session \in Session /\ session.next_sequence = Len(session.head) + 1
  BY Current, AtWork
<1>1. job[p].step = "insert" /\ bundles' = bundles /\ UNCHANGED observers
  BY DEF AppendInserts, At
<1>2. /\ job[p].read = session /\ session.status = "live" /\ e # NoEvent
      /\ e \in EventRow
      /\ e.sequence = session.next_sequence /\ e.previous = session.head
  BY <1>1, <1>w DEF ReadsCurrent, JobOK, Appending, Job
<1>3. CASE /\ FreeRow(e)
           /\ events' = events \cup {e}
           /\ session' = MovedOn(p, e)
           /\ Answer(p, "accepted")
  <2>1. job'[p] = Idle
    BY <1>3, <1>w DEF Answer
  <2>2. session' = [session EXCEPT !.next_sequence = e.sequence + 1, !.head = Hash(e)]
    BY <1>2, <1>3 DEF MovedOn
  <2>3. session'.status = "live" /\ session'.head = Hash(e)
    <3> HIDE DEF e
    <3> QED
      BY <1>w, <1>2, <2>2 DEF Session
  <2>4. /\ Hash(e) = Append(session.head, entry)
        /\ session.head \in Seq(Entry) /\ entry \in Entry
    BY <1>2, <1>w DEF Hash, EventRow, Entry, Session
  <2>5. /\ Len(session.head) \in Nat /\ Len(session'.head) = Len(session.head) + 1
        /\ \A i \in 1 .. Len(session.head) : session'.head[i] = session.head[i]
        /\ session'.head[Len(session.head) + 1] = entry
    <3> HIDE DEF entry, e
    <3> QED
      BY <2>3, <2>4
  <2>6. \A f \in events : f.id # e.id
    BY <1>3 DEF FreeRow
  <2> QED
    BY <1>1, <1>2, <1>3, <1>w, <2>1, <2>3, <2>4, <2>5, <2>6 DEF Added
<1>4. CASE Answer(p, "integrity_error") /\ UNCHANGED <<events, session>>
  BY <1>1, <1>4, <1>w DEF Answer
<1> QED
  BY <1>3, <1>4 DEF AppendInserts

LEMMA AddedOne ==
  ASSUME OneWriter, ChainInv, ObserverTypeOK, OneInv, NEW p \in Writer, Added(p)
  PROVE  OneInv'
<1> DEFINE e == job[p].event
           n == Len(session.head)
           entry == [id |-> e.id, content |-> e.content]
<1>1. /\ session.status = "live" /\ session'.status = "live"
      /\ n \in Nat /\ e.sequence = n + 1 /\ e.previous = session.head
      /\ events' = events \cup {e}
      /\ Len(session'.head) = n + 1
      /\ \A i \in 1 .. n : session'.head[i] = session.head[i]
      /\ session'.head[n + 1] = entry
      /\ bundles' = bundles /\ job'[p] = Idle
      /\ opc' = opc /\ cursor' = cursor /\ received' = received
  BY DEF Added, observers
<1>2. \A f \in events :
        /\ f.sequence \in 1 .. n /\ f.sequence = Len(f.previous) + 1
        /\ Len(f.previous) \in Nat
        /\ \A i \in 1 .. Len(f.previous) : f.previous[i] = session.head[i]
        /\ session.head[f.sequence] = [id |-> f.id, content |-> f.content]
  <2> TAKE f \in events
  <2>1. f \in EventRow /\ f.sequence = Len(f.previous) + 1
    BY DEF ChainInv, StoreOK, StoreTypeOK, ChainIntact
  <2>2. Len(f.previous) \in Nat
    BY <2>1 DEF EventRow
  <2> QED
    BY <2>1, <2>2 DEF OneInv, RowsAreHead
<1>3. \A i \in 1 .. n : \E f \in events : f.sequence = i
  BY DEF OneInv, RowsAreHead
<1>e. entry = [id |-> e.id, content |-> e.content]
  OBVIOUS
<1> HIDE DEF e, n, entry
<1>4. RowsAreHead'
  <2>1. ASSUME NEW f \in events'
        PROVE  /\ f.sequence \in 1 .. Len(session'.head)
               /\ \A i \in 1 .. Len(f.previous) : f.previous[i] = session'.head[i]
               /\ session'.head[f.sequence] = [id |-> f.id, content |-> f.content]
    <3>1. CASE f \in events
      BY <1>1, <1>2, <3>1
    <3>2. CASE f = e
      BY <1>1, <1>e, <3>2 DEF n
    <3> QED
      BY <1>1, <3>1, <3>2
  <2>2. ASSUME NEW i \in 1 .. Len(session'.head)
        PROVE  \E f \in events' : f.sequence = i
    <3>1. CASE i \in 1 .. n
      BY <1>1, <1>3, <3>1
    <3>2. CASE i = n + 1
      BY <1>1, <3>2
    <3> QED
      BY <1>1, <3>1, <3>2
  <2> QED
    BY <2>1, <2>2 DEF RowsAreHead
<1>5. \A q \in Writer : ReadsCurrent(job'[q], session')
  BY <1>1, IdleIsCurrent DEF OneWriter
<1>6. SealsHead'
  BY <1>1 DEF OneInv, SealsHead
<1>7. ASSUME NEW o \in Observer PROVE ObserverOK(o)'
  <2>1. ObserverOK(o)
    BY DEF OneInv
  <2>2. Len(cursor[o]) \in Nat /\ received[o] \subseteq events
    BY DEF ObserverTypeOK
  <2>3. /\ Len(cursor'[o]) <= Len(session'.head)
        /\ \A i \in 1 .. Len(cursor'[o]) : cursor'[o][i] = session'.head[i]
    BY <1>1, <2>1, <2>2 DEF ObserverOK, n
  <2>4. ASSUME NEW x \in received'[o], NEW f \in events',
               Len(cursor'[o]) < f.sequence, f.sequence < x.sequence
        PROVE  f \in received'[o]
    <3>0. x \in events
      BY <1>1, <2>2
    <3>1. x.sequence \in 1 .. n
      BY <1>2, <3>0
    <3>2. f # e
      BY <1>1, <2>4, <3>1
    <3> QED
      BY <1>1, <2>1, <2>4, <3>2 DEF ObserverOK
  <2>5. \A x \in received'[o] : Len(cursor'[o]) < x.sequence
    BY <1>1, <2>1 DEF ObserverOK
  <2>6. /\ opc'[o] # "failed" /\ opc'[o] # "evidence" /\ session'.status # "none"
    BY <1>1, <2>1 DEF ObserverOK
  <2> QED
    BY <2>3, <2>4, <2>5, <2>6 DEF ObserverOK
<1> QED
  BY <1>4, <1>5, <1>6, <1>7 DEF OneInv

LEMMA InsertOne ==
  ASSUME OneWriter, ChainInv, ObserverTypeOK, OneInv, NEW p \in Writer, AppendInserts(p)
  PROVE  OneInv'
<1>1. CASE /\ session' = session /\ events' = events /\ bundles' = bundles
           /\ UNCHANGED observers /\ job'[p] = Idle
  BY <1>1, IdleIsCurrent, WorkIsCurrent
<1> QED
  BY <1>1, InsertAdds, AddedOne

\* What close_session writes: the status.
LEMMA CloseCloses ==
  ASSUME OneWriter, ChainInv, OneInv, NEW p \in Writer, CloseWrites(p)
  PROVE  /\ session.status = "live" /\ session'.status = "closed"
         /\ session'.head = session.head
         /\ events' = events /\ bundles' = bundles /\ job'[p] = Idle /\ UNCHANGED observers
<1>w. /\ ReadsCurrent(job[p], session) /\ job \in [Writer -> Job]
      /\ session \in Session
  BY Current, AtWork
<1>1. job[p].read = session /\ session.status = "live"
  BY <1>w DEF CloseWrites, At, ReadsCurrent
<1>2. session' = [session EXCEPT !.status = "closed"]
  BY <1>1 DEF CloseWrites
<1>3. session'.status = "closed" /\ session'.head = session.head
  BY <1>2, <1>w DEF Session
<1> QED
  BY <1>1, <1>3, <1>w DEF CloseWrites, Answer

LEMMA CloseOne ==
  ASSUME OneWriter, ChainInv, OneInv, NEW p \in Writer, CloseWrites(p)
  PROVE  OneInv'
<1>1. /\ session.status = "live" /\ session'.status = "closed"
      /\ session'.head = session.head
      /\ events' = events /\ bundles' = bundles /\ job'[p] = Idle
      /\ opc' = opc /\ cursor' = cursor /\ received' = received
  BY CloseCloses DEF observers
<1>2. RowsAreHead' /\ SealsHead'
  BY <1>1 DEF OneInv, RowsAreHead, SealsHead
<1>3. \A q \in Writer : ReadsCurrent(job'[q], session')
  BY <1>1, IdleIsCurrent DEF OneWriter
<1>4. ASSUME NEW o \in Observer PROVE ObserverOK(o)'
  <2>1. ObserverOK(o)
    BY DEF OneInv
  <2> QED
    BY <1>1, <2>1 DEF ObserverOK
<1> QED
  BY <1>2, <1>3, <1>4 DEF OneInv

\* What finalize saves: the whole log of the closed session.
LEMMA SaveSeals ==
  ASSUME OneWriter, ChainInv, OneInv, NEW p \in Writer, FinalizeSaves(p)
  PROVE  /\ session' = session /\ events' = events /\ UNCHANGED observers
         /\ job'[p] = Idle /\ session.status = "closed"
         /\ bundles \in [Revision -> [saved : BOOLEAN, log : Seq(Entry)]]
         /\ \/ bundles' = bundles
            \/ \E r \in Revision :
                 /\ ~bundles[r].saved
                 /\ bundles' = [bundles EXCEPT ![r] = [saved |-> TRUE,
                                                       log |-> session.head]]
<1>w. /\ ReadsCurrent(job[p], session) /\ job \in [Writer -> Job]
      /\ JobOK(p, job[p], sent[p], events, files)
  BY Current, AtWork
<1>1. job[p].step = "save"
  BY DEF FinalizeSaves, At
<1>2. /\ session.status = "closed" /\ job[p].log = session.head
      /\ job[p].revision \in Revision
  BY <1>1, <1>w DEF ReadsCurrent, JobOK
<1>3. job'[p] = Idle
  BY <1>w DEF FinalizeSaves, Answer
<1>4. bundles \in [Revision -> [saved : BOOLEAN, log : Seq(Entry)]]
  BY DEF ChainInv, StoreOK, StoreTypeOK
<1>5. \/ bundles' = bundles
      \/ /\ ~bundles[job[p].revision].saved
         /\ bundles' = [bundles EXCEPT ![job[p].revision] = [saved |-> TRUE,
                                                             log |-> session.head]]
  BY <1>2 DEF FinalizeSaves
<1> QED
  BY <1>2, <1>3, <1>4, <1>5 DEF FinalizeSaves

LEMMA SaveOne ==
  ASSUME OneWriter, ChainInv, OneInv, NEW p \in Writer, FinalizeSaves(p)
  PROVE  OneInv'
<1>1. /\ session' = session /\ events' = events
      /\ opc' = opc /\ cursor' = cursor /\ received' = received
      /\ job'[p] = Idle /\ session.status = "closed"
      /\ bundles \in [Revision -> [saved : BOOLEAN, log : Seq(Entry)]]
  BY SaveSeals DEF observers
<1>2. RowsAreHead'
  BY <1>1 DEF OneInv, RowsAreHead
<1>3. \A q \in Writer : ReadsCurrent(job'[q], session')
  BY <1>1, IdleIsCurrent DEF OneWriter
<1>4. \A o \in Observer : ObserverOK(o)'
  BY <1>1 DEF OneInv, ObserverOK
<1>5. SealsHead'
  <2>1. \/ bundles' = bundles
        \/ \E r \in Revision :
             bundles' = [bundles EXCEPT ![r] = [saved |-> TRUE, log |-> session.head]]
    BY SaveSeals
  <2>2. CASE bundles' = bundles
    BY <1>1, <2>2 DEF OneInv, SealsHead
  <2>3. ASSUME NEW r \in Revision,
               bundles' = [bundles EXCEPT ![r] = [saved |-> TRUE, log |-> session.head]]
        PROVE  SealsHead'
    <3>1. /\ bundles'[r].log = session.head
          /\ \A s \in Revision : s # r => bundles'[s] = bundles[s]
      BY <1>1, <2>3
    <3> QED
      BY <1>1, <3>1 DEF OneInv, SealsHead
  <2> QED
    BY <2>1, <2>2, <2>3
<1> QED
  BY <1>2, <1>3, <1>4, <1>5 DEF OneInv

LEMMA CreateOne ==
  ASSUME ChainInv, OneInv, CreateSession
  PROVE  OneInv'
<1>1. /\ session.status = "none" /\ session' = [session EXCEPT !.status = "live"]
      /\ session \in Session
      /\ events' = events /\ bundles' = bundles /\ job' = job
      /\ opc' = opc /\ cursor' = cursor /\ received' = received
  BY DEF CreateSession, writers, observers, ChainInv, StoreOK, StoreTypeOK
<1>2. session'.status = "live" /\ session'.head = session.head
  BY <1>1 DEF Session
<1>3. RowsAreHead' /\ SealsHead'
  BY <1>1, <1>2 DEF OneInv, RowsAreHead, SealsHead
<1>4. \A q \in Writer : ReadsCurrent(job'[q], session')
  BY <1>1, <1>2 DEF OneInv, ReadsCurrent
<1>5. \A o \in Observer : ObserverOK(o)'
  BY <1>1, <1>2 DEF OneInv, ObserverOK
<1> QED
  BY <1>3, <1>4, <1>5 DEF OneInv

\* A step of one observer, which sees the same store.
LEMMA ObserverMoves ==
  ASSUME OneInv, ObserverTypeOK, NEW o \in Observer, UNCHANGED <<store, writers>>,
         \A other \in Observer \ {o} : /\ opc'[other] = opc[other]
                                       /\ cursor'[other] = cursor[other]
                                       /\ received'[other] = received[other],
         ObserverOK(o)'
  PROVE  OneInv'
<1>1. session' = session /\ events' = events /\ bundles' = bundles /\ job' = job
  BY DEF store, writers
<1>2. RowsAreHead' /\ SealsHead' /\ \A p \in Writer : ReadsCurrent(job'[p], session')
  BY <1>1 DEF OneInv, RowsAreHead, SealsHead
<1>3. ASSUME NEW other \in Observer, other # o PROVE ObserverOK(other)'
  <2>1. ObserverOK(other)
    BY DEF OneInv
  <2>2. /\ opc'[other] = opc[other] /\ cursor'[other] = cursor[other]
        /\ received'[other] = received[other]
    BY <1>3
  <2> QED
    BY <1>1, <2>1, <2>2 DEF ObserverOK
<1> QED
  BY <1>2, <1>3 DEF OneInv

\* The first event received is the next of the log, and follows the cursor.
LEMMA FirstFollows ==
  ASSUME ChainInv, FilesInv, ObserverTypeOK, OneInv, NEW o \in Observer, VerifyEvent(o)
  PROVE  \E e \in received[o] :
           /\ e \in events /\ e.sequence = Len(cursor[o]) + 1
           /\ Hash(e) \in Seq(Entry) /\ Len(Hash(e)) = Len(cursor[o]) + 1
           /\ \A i \in 1 .. Len(Hash(e)) : Hash(e)[i] = session.head[i]
           /\ Len(Hash(e)) <= Len(session.head)
           /\ \A f \in received[o] : e.sequence <= f.sequence
           /\ cursor' = [cursor EXCEPT ![o] = Hash(e)]
           /\ received' = [received EXCEPT ![o] = @ \ {e}]
           /\ opc' = opc
<1>1. PICK e \in received[o] :
        /\ \A f \in received[o] : e.sequence <= f.sequence
        /\ IF Follows(e, cursor[o])
           THEN /\ cursor' = [cursor EXCEPT ![o] = Hash(e)]
                /\ received' = [received EXCEPT ![o] = @ \ {e}]
                /\ UNCHANGED opc
           ELSE GoOn(o, "failed") /\ UNCHANGED <<cursor, received>>
  BY DEF VerifyEvent
<1>2. /\ received[o] \subseteq events /\ e \in events
      /\ cursor[o] \in Seq(Entry) /\ Len(cursor[o]) \in Nat
  BY DEF ObserverTypeOK
<1>3. ObserverOK(o) /\ RowsAreHead
  BY DEF OneInv
<1>4. /\ Hash(e) \in Seq(Entry) /\ Len(Hash(e)) = e.sequence
      /\ e.sequence \in 1 .. Len(session.head) /\ Len(session.head) \in Nat
      /\ \A i \in 1 .. e.sequence : Hash(e)[i] = session.head[i]
  BY <1>2, <1>3, RowHash
<1>5. e.sequence = Len(cursor[o]) + 1
  <2>1. Len(cursor[o]) < e.sequence
    BY <1>3 DEF ObserverOK
  <2>2. Len(cursor[o]) + 1 \in 1 .. Len(session.head)
    BY <1>2, <1>4, <2>1
  <2>3. PICK f \in events : f.sequence = Len(cursor[o]) + 1
    BY <1>3, <2>2 DEF RowsAreHead
  <2>4. CASE f.sequence < e.sequence
    <3>1. f \in received[o]
      BY <1>2, <1>3, <2>3, <2>4 DEF ObserverOK
    <3> QED
      BY <1>1, <1>2, <1>4, <2>3, <2>4, <3>1
  <2> QED
    BY <1>2, <1>4, <2>1, <2>3, <2>4
<1>6. Follows(e, cursor[o])
  <2>1. e \in EventRow /\ e.sequence = Len(e.previous) + 1 /\ files[e.content] = "whole"
    BY <1>2 DEF ChainInv, StoreOK, StoreTypeOK, ChainIntact, FilesInv, ArtifactsStored
  <2>2. e.previous \in Seq(Entry) /\ Len(e.previous) = Len(cursor[o])
    BY <1>2, <1>5, <2>1 DEF EventRow
  <2>3. \A i \in 1 .. Len(e.previous) : e.previous[i] = cursor[o][i]
    BY <1>2, <1>3, <2>2 DEF RowsAreHead, ObserverOK
  <2>4. e.previous = cursor[o]
    BY <1>2, <2>2, <2>3, SameChain
  <2> QED
    BY <1>5, <2>1, <2>4 DEF Follows
<1>7. /\ cursor' = [cursor EXCEPT ![o] = Hash(e)]
      /\ received' = [received EXCEPT ![o] = @ \ {e}]
      /\ opc' = opc
  BY <1>1, <1>6
<1>8. \A f \in received[o] : e.sequence <= f.sequence
  BY <1>1
<1>9. Len(Hash(e)) <= Len(session.head)
  BY <1>4
<1>10. Len(Hash(e)) = Len(cursor[o]) + 1
  BY <1>4, <1>5
<1>11. \A i \in 1 .. Len(Hash(e)) : Hash(e)[i] = session.head[i]
  BY <1>4
<1> HIDE DEF Hash
<1> QED
  BY <1>2, <1>4, <1>5, <1>7, <1>8, <1>9, <1>10, <1>11

LEMMA VerifyOne ==
  ASSUME ChainInv, FilesInv, ObserverTypeOK, OneInv, NEW o \in Observer, VerifyEvent(o)
  PROVE  OneInv'
<1>1. PICK e \in received[o] :
        /\ e \in events /\ e.sequence = Len(cursor[o]) + 1
        /\ Hash(e) \in Seq(Entry) /\ Len(Hash(e)) = Len(cursor[o]) + 1
        /\ \A i \in 1 .. Len(Hash(e)) : Hash(e)[i] = session.head[i]
        /\ Len(Hash(e)) <= Len(session.head)
        /\ \A f \in received[o] : e.sequence <= f.sequence
        /\ cursor' = [cursor EXCEPT ![o] = Hash(e)]
        /\ received' = [received EXCEPT ![o] = @ \ {e}]
        /\ opc' = opc
  BY FirstFollows
<1>2. UNCHANGED <<store, writers>> /\ session' = session /\ events' = events
  BY DEF VerifyEvent, store
<1>t. /\ cursor \in [Observer -> Seq(Entry)] /\ received \in [Observer -> SUBSET events]
      /\ Len(cursor[o]) \in Nat
  BY DEF ObserverTypeOK
<1>r. \A f \in events : /\ f.sequence \in Nat
                        /\ \A g \in events : g.sequence = f.sequence => g = f
  BY DEF ChainInv, StoreOK, StoreTypeOK, ChainIntact, EventRow
<1>3. /\ cursor'[o] = Hash(e) /\ received'[o] = received[o] \ {e}
      /\ \A other \in Observer \ {o} : /\ cursor'[other] = cursor[other]
                                       /\ received'[other] = received[other]
  BY <1>1, <1>t
<1>4. ObserverOK(o)
  BY DEF OneInv
<1>5. opc[o] = "verify"
  BY DEF VerifyEvent
<1>6. \A f \in received'[o] :
        /\ Len(cursor'[o]) < f.sequence
        /\ \A g \in events' :
             Len(cursor'[o]) < g.sequence /\ g.sequence < f.sequence => g \in received'[o]
  <2> TAKE f \in received'[o]
  <2>1. f \in received[o] /\ f \in events /\ f # e
    BY <1>3, <1>t
  <2>2. e.sequence <= f.sequence /\ e.sequence # f.sequence
    BY <1>1, <1>r, <2>1
  <2>3. Len(cursor'[o]) < f.sequence
    BY <1>1, <1>3, <1>r, <1>t, <2>1, <2>2
  <2>4. ASSUME NEW g \in events, Len(cursor'[o]) < g.sequence, g.sequence < f.sequence
        PROVE  g \in received'[o]
    <3>1. Len(cursor[o]) < g.sequence /\ g # e
      BY <1>1, <1>3, <1>r, <1>t, <2>4
    <3>2. g \in received[o]
      BY <1>4, <2>1, <2>4, <3>1 DEF ObserverOK
    <3> QED
      BY <1>3, <3>1, <3>2
  <2> QED
    BY <1>2, <2>3, <2>4
<1>7. ObserverOK(o)'
  BY <1>1, <1>2, <1>3, <1>4, <1>5, <1>6 DEF ObserverOK
<1> QED
  BY <1>1, <1>2, <1>3, <1>7, ObserverMoves

\* A session that is closed and not ahead of the cursor is the chain observed.
LEMMA StateOne ==
  ASSUME ChainInv, ObserverTypeOK, OneInv, NEW o \in Observer, ReadState(o)
  PROVE  OneInv' /\ opc'[o] \in {"stream", "evidence"}
<1>1. /\ UNCHANGED <<store, writers>> /\ session' = session /\ events' = events
      /\ cursor' = cursor /\ received' = received /\ opc[o] = "verify"
  BY DEF ReadState, store
<1>2. ObserverOK(o)
  BY DEF OneInv
<1>t. /\ opc \in [Observer -> {"stream", "verify", "evidence", "done", "failed", "late",
                            "unavailable"}]
      /\ cursor[o] \in Seq(Entry) /\ Len(cursor[o]) \in Nat
      /\ session \in Session /\ session.head \in Seq(Entry) /\ Len(session.head) \in Nat
      /\ session.next_sequence = Len(session.head) + 1
  BY DEF ObserverTypeOK, ChainInv, StoreOK, StoreTypeOK, Session
<1>3. CASE session.status = "live" \/ Behind(o)
  <2>1. opc' = [opc EXCEPT ![o] = "stream"]
    BY <1>3 DEF ReadState, GoOn
  <2>2. /\ opc'[o] = "stream"
        /\ \A other \in Observer \ {o} : opc'[other] = opc[other]
    BY <1>t, <2>1
  <2>3. ObserverOK(o)'
    BY <1>1, <1>2, <2>2 DEF ObserverOK
  <2> QED
    BY <1>1, <2>2, <2>3, ObserverMoves
<1>4. CASE session.status # "live" /\ ~Behind(o)
  <2>1. session.status = "closed"
    BY <1>1, <1>2, <1>4, <1>t DEF ObserverOK, Session
  <2>2. Len(cursor[o]) = Len(session.head)
    BY <1>2, <1>4, <1>t DEF Behind, ObserverOK
  <2>3. cursor[o] = session.head
    BY <1>2, <1>t, <2>2, SameChain DEF ObserverOK
  <2>4. opc' = [opc EXCEPT ![o] = "evidence"]
    BY <1>4, <2>3 DEF ReadState, GoOn
  <2>5. /\ opc'[o] = "evidence"
        /\ \A other \in Observer \ {o} : opc'[other] = opc[other]
    BY <1>t, <2>4
  <2>6. ObserverOK(o)'
    BY <1>1, <1>2, <2>1, <2>3, <2>5 DEF ObserverOK
  <2> QED
    BY <1>1, <2>5, <2>6, ObserverMoves
<1> QED
  BY <1>3, <1>4

\* A bundle that is saved is the chain observed.
LEMMA EvidenceReported ==
  ASSUME ChainInv, ObserverTypeOK, OneInv, NEW o \in Observer, ReadEvidence(o)
  PROVE  \/ opc' = [opc EXCEPT ![o] = "stream"] /\ results' = results
         \/ /\ opc' = [opc EXCEPT ![o] = "done"]
            /\ cursor[o] = session.head
            /\ \E r \in Revision : bundles[r].saved /\ bundles[r].log = session.head
            /\ results' = [results EXCEPT ![o] = @ \cup {cursor[o]}]
<1>1. cursor[o] = session.head
  BY DEF ReadEvidence, OneInv, ObserverOK
<1>2. ASSUME NEW r \in Revision, bundles[r].saved,
             IF bundles[r].log = cursor[o]
             THEN /\ results' = [results EXCEPT ![o] = @ \cup {cursor[o]}]
                  /\ GoOn(o, "done")
             ELSE GoOn(o, "failed") /\ UNCHANGED results
      PROVE  /\ opc' = [opc EXCEPT ![o] = "done"]
             /\ bundles[r].log = session.head
             /\ results' = [results EXCEPT ![o] = @ \cup {cursor[o]}]
  <2>1. bundles[r].log = session.head
    BY <1>2 DEF OneInv, SealsHead
  <2> QED
    BY <1>1, <1>2, <2>1 DEF GoOn
<1> QED
  BY <1>1, <1>2 DEF ReadEvidence, GoOn

LEMMA ObserverOne ==
  ASSUME ChainInv, FilesInv, ObserverTypeOK, OneInv, NEW o \in Observer,
         \/ ObserverStep(o) \/ RequestFails(o)
         \/ ObservationTimeout(o) \/ ObserveAgain(o)
  PROVE  OneInv'
<1>t. /\ opc \in [Observer -> {"stream", "verify", "evidence", "done", "failed", "late",
                            "unavailable"}]
      /\ received \in [Observer -> SUBSET events]
  BY DEF ObserverTypeOK
<1>2. ObserverOK(o)
  BY DEF OneInv
<1>4. ASSUME NEW to \in {"stream", "done", "late", "unavailable"},
             opc' = [opc EXCEPT ![o] = to], cursor' = cursor,
             \/ received' = received
             \/ received' = [received EXCEPT ![o] = {}],
             UNCHANGED <<store, writers>>
      PROVE  OneInv'
  <2>1. /\ opc'[o] = to /\ received'[o] \in {received[o], {}}
        /\ \A other \in Observer \ {o} : /\ opc'[other] = opc[other]
                                         /\ received'[other] = received[other]
    BY <1>4, <1>t
  <2>2. session' = session /\ events' = events
    BY <1>4 DEF store
  <2>3. ObserverOK(o)'
    BY <1>2, <1>4, <2>1, <2>2 DEF ObserverOK
  <2> QED
    BY <1>4, <2>1, <2>3, ObserverMoves
<1>7. CASE ReadStream(o) /\ session.status = "none"
  BY <1>7, <1>4 DEF ReadStream, GoOn
<1>3. CASE ReadStream(o) /\ session.status # "none"
  <2>1. /\ opc' = [opc EXCEPT ![o] = "verify"] /\ session.status # "none"
        /\ received' = [received EXCEPT ![o] = {e \in events : e.sequence > Len(cursor[o])}]
        /\ cursor' = cursor /\ UNCHANGED <<store, writers>>
        /\ session' = session /\ events' = events
    BY <1>3 DEF ReadStream, GoOn, store
  <2>2. /\ opc'[o] = "verify"
        /\ received'[o] = {e \in events : e.sequence > Len(cursor[o])}
        /\ \A other \in Observer \ {o} : /\ opc'[other] = opc[other]
                                         /\ received'[other] = received[other]
    BY <1>t, <2>1
  <2>n. Len(cursor[o]) \in Nat /\ \A e \in events : e.sequence \in Nat
    BY DEF ObserverTypeOK, ChainInv, StoreOK, StoreTypeOK, EventRow
  <2>3. ObserverOK(o)'
    BY <1>2, <2>1, <2>2, <2>n DEF ObserverOK
  <2> QED
    BY <2>1, <2>2, <2>3, ObserverMoves
<1>5. CASE ReadEvidence(o)
  <2>1. cursor' = cursor /\ received' = received /\ UNCHANGED <<store, writers>>
    BY <1>5 DEF ReadEvidence
  <2> QED
    BY <1>4, <1>5, <2>1, EvidenceReported
<1>6. CASE RequestFails(o) \/ ObservationTimeout(o) \/ ObserveAgain(o)
  BY <1>4, <1>6 DEF RequestFails, ObservationTimeout, ObserveAgain, GoOn
<1> QED
  BY <1>3, <1>5, <1>6, <1>7, VerifyOne, StateOne DEF ObserverStep


-----------------------------------------------------------------------------
(* Theorems about one writer                                               *)

LEMMA InitOne == Init => OneInv
<1> SUFFICES ASSUME Init PROVE OneInv
  OBVIOUS
<1>1. /\ session = NoSession /\ events = {} /\ \A r \in Revision : ~bundles[r].saved
      /\ \A p \in Writer : job[p] = Idle
      /\ \A o \in Observer : opc[o] = "stream" /\ cursor[o] = <<>> /\ received[o] = {}
  BY DEF Init, NoBundle
<1>2. session.head = <<>> /\ Len(session.head) = 0 /\ Len(<<>>) = 0
  BY <1>1 DEF NoSession
<1>3. RowsAreHead /\ SealsHead
  BY <1>1, <1>2 DEF RowsAreHead, SealsHead
<1>4. \A p \in Writer : ReadsCurrent(job[p], session)
  BY <1>1, IdleIsCurrent
<1>5. \A o \in Observer : ObserverOK(o)
  BY <1>1, <1>2 DEF ObserverOK
<1> QED
  BY <1>3, <1>4, <1>5 DEF OneInv

\* A step is a quiet one or one that the log can show.
LEMMA StepsAre ==
  ASSUME [Next]_vars
  PROVE  \/ CreateSession
         \/ \E p \in Writer : Quiet(p) \/ AppendInserts(p) \/ CloseWrites(p) \/ FinalizeSaves(p)
         \/ \E o \in Observer : \/ ObserverStep(o) \/ RequestFails(o)
                                \/ ObservationTimeout(o) \/ ObserveAgain(o)
         \/ UNCHANGED vars
  BY DEF Next, WriterStep, Quiet

LEMMA NextOne ==
  ASSUME OneWriter, ChainInv, FilesInv, ObserverTypeOK, OneInv, [Next]_vars
  PROVE  OneInv'
<1>1. CASE CreateSession
  BY <1>1, CreateOne
<1>2. ASSUME NEW p \in Writer,
             Quiet(p) \/ AppendInserts(p) \/ CloseWrites(p) \/ FinalizeSaves(p)
      PROVE  OneInv'
  BY <1>2, QuietOne, InsertOne, CloseOne, SaveOne
<1>3. ASSUME NEW o \in Observer,
             \/ ObserverStep(o) \/ RequestFails(o)
             \/ ObservationTimeout(o) \/ ObserveAgain(o)
      PROVE  OneInv'
  BY <1>3, ObserverOne
<1>4. CASE UNCHANGED vars
  BY <1>4 DEF vars, store, writers, observers, OneInv, RowsAreHead, SealsHead, ObserverOK
<1> QED
  BY <1>1, <1>2, <1>3, <1>4, StepsAre

\* The gateway's session, its rows, its bundles and its observers are one
\* history: all that the invariants of the store say together.
THEOREM OneWriterInvariant ==
  ASSUME OneWriter
  PROVE  Spec => [](ChainInv /\ ObserverTypeOK /\ FilesInv /\ OneInv)
<1>1. Init => ChainInv /\ ObserverTypeOK /\ FilesInv /\ OneInv
  <2>1. Init => ObserverTypeOK
    BY DEF Init, ObserverTypeOK
  <2> QED
    BY <2>1, InitChain, InitFiles, InitOne
<1>2. ChainInv /\ ObserverTypeOK /\ FilesInv /\ OneInv /\ [Next]_vars
      => (ChainInv /\ ObserverTypeOK /\ FilesInv /\ OneInv)'
  BY NextChain, NextObservers, NextFiles, NextOne
<1> QED
  BY <1>1, <1>2, PTL DEF Spec

\* With one writer no event is stored without its whole artifact, though the
\* writer may be killed while it writes the file: the torn file is a conflict
\* until it is repaired.
THEOREM ArtifactsAreStored ==
  ASSUME OneWriter
  PROVE  Spec => []ArtifactsStored
<1>1. FilesInv => ArtifactsStored
  BY DEF FilesInv
<1> QED
  BY <1>1, OneWriterInvariant, PTL

\* An observer rejects nothing, though the session is written, closed and
\* sealed between any two of its requests and it may be killed anywhere: with
\* one writer an event is read only after the one before it.
THEOREM ObserversAgreeWithOneWriter ==
  ASSUME OneWriter
  PROVE  Spec => []ObserversAgree
<1>1. OneInv => ObserversAgree
  BY DEF OneInv, ObserverOK, ObserversAgree
<1> QED
  BY <1>1, OneWriterInvariant, PTL

\* Closing is terminal as long as nobody else writes the session that was read
\* before it was closed.
THEOREM ClosedStaysClosed ==
  ASSUME OneWriter
  PROVE  Spec => ClosedIsTerminal
<1> DEFINE Stays == session.status = "closed" => session' = session /\ events' = events
<1>1. ChainInv /\ ObserverTypeOK /\ OneInv /\ [Next]_vars => [Stays]_vars
  <2> SUFFICES ASSUME ChainInv, ObserverTypeOK, OneInv, [Next]_vars,
                      session.status = "closed"
               PROVE  session' = session /\ events' = events
    OBVIOUS
  <2>1. CASE CreateSession
    BY <2>1 DEF CreateSession
  <2>2. ASSUME NEW p \in Writer, Quiet(p)
        PROVE  session' = session /\ events' = events
    BY <2>2, QuietKeeps
  <2>3. ASSUME NEW p \in Writer, AppendInserts(p)
        PROVE  session' = session /\ events' = events
    BY <2>3, InsertAdds DEF Added
  <2>4. ASSUME NEW p \in Writer, CloseWrites(p)
        PROVE  session' = session /\ events' = events
    BY <2>4, CloseCloses
  <2>5. ASSUME NEW p \in Writer, FinalizeSaves(p)
        PROVE  session' = session /\ events' = events
    BY <2>5, SaveSeals
  <2>6. ASSUME NEW o \in Observer,
               \/ ObserverStep(o) \/ RequestFails(o)
               \/ ObservationTimeout(o) \/ ObserveAgain(o)
        PROVE  session' = session /\ events' = events
    BY <2>6, ObserversRead DEF store
  <2>7. CASE UNCHANGED vars
    BY <2>7 DEF vars, store
  <2> QED
    BY <2>1, <2>2, <2>3, <2>4, <2>5, <2>6, <2>7, StepsAre
<1> QED
  BY <1>1, OneWriterInvariant, PTL DEF Spec, ClosedIsTerminal

-----------------------------------------------------------------------------
(* The store of one writer implements EventLog                             *)

SealedLogs == {bundles[r].log : r \in {r \in Revision : bundles[r].saved}}

\* The log is the chain of the session's head, before and after a step.
LEMMA LogIsHeadNext == ChainInv' /\ RowsAreHead' => Log' = session'.head
<1> DEFINE Same == Log = session.head
<1>1. ChainInv /\ RowsAreHead => Same
  BY LogIsHead
<1>2. ChainInv' /\ RowsAreHead' => Same'
  <2> HIDE DEF Same
  <2> QED
    BY <1>1, PTL
<1> QED
  BY <1>2

\* A step that the log does not show.
LEMMA NothingShows ==
  ASSUME Log' = Log,
         (session'.status = "closed") <=> (session.status = "closed"),
         bundles' = bundles, cursor' = cursor, results' = results
  PROVE  UNCHANGED Logs!vars
  BY DEF Logs!vars

LEMMA AddedAdds ==
  ASSUME OneWriter, ChainInv, OneInv, NEW p \in Writer, Added(p),
         Log = session.head, Log' = session'.head
  PROVE  \E entry \in Entry : Logs!Add(entry)
<1> DEFINE e == job[p].event
           entry == [id |-> e.id, content |-> e.content]
<1>1. /\ session.status = "live" /\ session'.status = "live" /\ entry \in Entry
      /\ \A f \in events : f.id # e.id
      /\ session'.head = Append(session.head, entry)
      /\ bundles' = bundles /\ cursor' = cursor /\ results' = results
  BY DEF Added, observers
<1>2. ASSUME NEW i \in DOMAIN session.head
      PROVE  session.head[i].id # entry.id
  <2>1. session.head \in Seq(Entry)
    BY DEF ChainInv, StoreOK, StoreTypeOK, Session
  <2>2. i \in 1 .. Len(session.head)
    BY <2>1
  <2>3. PICK f \in events : f.sequence = i
    BY <2>2 DEF OneInv, RowsAreHead
  <2>4. session.head[i] = [id |-> f.id, content |-> f.content]
    BY <2>3 DEF OneInv, RowsAreHead
  <2> QED
    BY <1>1, <2>4
<1>3. Logs!Add(entry)
  BY <1>1, <1>2 DEF Logs!Add
<1> QED
  BY <1>1, <1>3

LEMMA SaveIsSeal ==
  ASSUME OneWriter, ChainInv, OneInv, NEW p \in Writer, FinalizeSaves(p),
         Log = session.head, Log' = session'.head
  PROVE  Logs!Seal \/ UNCHANGED Logs!vars
<1>1. /\ session' = session /\ session.status = "closed"
      /\ cursor' = cursor /\ results' = results
      /\ bundles \in [Revision -> [saved : BOOLEAN, log : Seq(Entry)]]
  BY SaveSeals DEF observers
<1>2. CASE bundles' = bundles
  BY <1>1, <1>2, NothingShows
<1>3. ASSUME NEW r \in Revision, ~bundles[r].saved,
             bundles' = [bundles EXCEPT ![r] = [saved |-> TRUE, log |-> session.head]]
      PROVE  Logs!Seal
  <2>1. /\ bundles'[r] = [saved |-> TRUE, log |-> session.head]
        /\ \A q \in Revision \ {r} : bundles'[q] = bundles[q]
    BY <1>1, <1>3
  <2>2. SealedLogs' = SealedLogs \cup {session.head}
    BY <1>3, <2>1 DEF SealedLogs
  <2> QED
    BY <1>1, <2>2 DEF Logs!Seal, SealedLogs
<1> QED
  BY <1>2, <1>3, SaveSeals

LEMMA ObserverImplements ==
  ASSUME ChainInv, FilesInv, ObserverTypeOK, OneInv, NEW o \in Observer,
         \/ ObserverStep(o) \/ RequestFails(o)
         \/ ObservationTimeout(o) \/ ObserveAgain(o),
         Log = session.head, Log' = session'.head
  PROVE  Logs!See(o) \/ Logs!Report(o) \/ UNCHANGED Logs!vars
<1>1. session' = session /\ bundles' = bundles
  BY ObserversRead DEF store
<1>2. CASE \/ ReadStream(o) \/ ReadState(o) \/ RequestFails(o)
           \/ ObservationTimeout(o) \/ ObserveAgain(o)
  <2>1. cursor' = cursor /\ results' = results
    BY <1>2 DEF ReadStream, ReadState, RequestFails, ObservationTimeout, ObserveAgain
  <2> QED
    BY <1>1, <2>1, NothingShows
<1>3. CASE VerifyEvent(o)
  <2>1. PICK e \in received[o] :
          /\ Hash(e) \in Seq(Entry) /\ Len(Hash(e)) = Len(cursor[o]) + 1
          /\ Len(Hash(e)) <= Len(session.head)
          /\ cursor' = [cursor EXCEPT ![o] = Hash(e)]
    BY <1>3, FirstFollows
  <2>2. /\ cursor \in [Observer -> Seq(Entry)] /\ Len(cursor[o]) \in Nat
        /\ Len(session.head) \in Nat /\ results' = results
    BY <1>3 DEF ObserverTypeOK, ChainInv, StoreOK, StoreTypeOK, Session, VerifyEvent
  <2>3. [q \in Observer |-> Len(cursor'[q])]
        = [[q \in Observer |-> Len(cursor[q])] EXCEPT ![o] = @ + 1]
    BY <2>1, <2>2
  <2>4. Len(cursor[o]) < Len(session.head)
    BY <2>1, <2>2
  <2> QED
    BY <1>1, <2>2, <2>3, <2>4 DEF Logs!See
<1>4. CASE ReadEvidence(o)
  <2>1. cursor' = cursor
    BY <1>4 DEF ReadEvidence
  <2>2. CASE results' = results
    BY <1>1, <2>1, <2>2, NothingShows
  <2>3. CASE /\ cursor[o] = session.head
             /\ \E r \in Revision : bundles[r].saved /\ bundles[r].log = session.head
             /\ results' = [results EXCEPT ![o] = @ \cup {cursor[o]}]
    BY <1>1, <2>1, <2>3 DEF Logs!Report
  <2> QED
    BY <1>4, <2>2, <2>3, EvidenceReported
<1> QED
  BY <1>2, <1>3, <1>4 DEF ObserverStep

LEMMA NextImplements ==
  ASSUME OneWriter, ChainInv, FilesInv, ObserverTypeOK, OneInv, [Next]_vars, ChainInv', OneInv'
  PROVE  [Logs!Next]_(Logs!vars)
<1>1. Log = session.head /\ Log' = session'.head
  BY LogIsHead, LogIsHeadNext DEF OneInv
<1>2. CASE CreateSession \/ UNCHANGED vars
  <2>1. /\ session'.head = session.head /\ bundles' = bundles
        /\ cursor' = cursor /\ results' = results
        /\ (session'.status = "closed") <=> (session.status = "closed")
    BY <1>2 DEF CreateSession, vars, store, observers, ChainInv, StoreOK, StoreTypeOK, Session
  <2> QED
    BY <1>1, <2>1, NothingShows
<1>3. ASSUME NEW p \in Writer, Quiet(p)
      PROVE  UNCHANGED Logs!vars
  <2>1. session' = session /\ bundles' = bundles /\ cursor' = cursor /\ results' = results
    BY <1>3, QuietKeeps DEF observers
  <2> QED
    BY <1>1, <2>1, NothingShows
<1>4. ASSUME NEW p \in Writer, AppendInserts(p)
      PROVE  [Logs!Next]_(Logs!vars)
  <2>1. CASE Added(p)
    BY <1>1, <2>1, AddedAdds DEF Logs!Next
  <2>2. CASE /\ session' = session /\ bundles' = bundles /\ UNCHANGED observers
    BY <1>1, <2>2, NothingShows DEF observers
  <2> QED
    BY <1>4, <2>1, <2>2, InsertAdds
<1>5. ASSUME NEW p \in Writer, CloseWrites(p)
      PROVE  Logs!Close
  <2>1. /\ session'.status = "closed" /\ session'.head = session.head
        /\ bundles' = bundles /\ cursor' = cursor /\ results' = results
    BY <1>5, CloseCloses DEF observers
  <2> QED
    BY <1>1, <2>1 DEF Logs!Close
<1>6. ASSUME NEW p \in Writer, FinalizeSaves(p)
      PROVE  Logs!Seal \/ UNCHANGED Logs!vars
  BY <1>1, <1>6, SaveIsSeal
<1>7. ASSUME NEW o \in Observer,
             \/ ObserverStep(o) \/ RequestFails(o)
             \/ ObservationTimeout(o) \/ ObserveAgain(o)
      PROVE  Logs!See(o) \/ Logs!Report(o) \/ UNCHANGED Logs!vars
  BY <1>1, <1>7, ObserverImplements
<1> QED
  BY <1>2, <1>3, <1>4, <1>5, <1>6, <1>7, StepsAre DEF Logs!Next

LEMMA InitImplements == Init => Logs!Init
<1> SUFFICES ASSUME Init PROVE Logs!Init
  OBVIOUS
<1>1. Log = <<>>
  BY DEF Init, Log
<1>2. session.status # "closed"
  BY DEF Init, NoSession
<1>3. SealedLogs = {}
  BY DEF Init, NoBundle, SealedLogs
<1>4. [o \in Observer |-> Len(cursor[o])] = [o \in Observer |-> 0]
  BY DEF Init
<1> QED
  BY <1>1, <1>2, <1>3, <1>4 DEF Init, Logs!Init, SealedLogs

\* With one writer the store, its bundles and the cursors of its observers are
\* the log of EventLog: it grows until it is closed for ever, is sealed as a
\* whole, is seen in order, and is reported as it was sealed.
THEOREM Implements ==
  ASSUME OneWriter
  PROVE  Spec => ImplementsEventLog
<1> DEFINE Inv == ChainInv /\ ObserverTypeOK /\ FilesInv /\ OneInv
<1>1. Inv /\ Inv' /\ [Next]_vars => [Logs!Next]_(Logs!vars)
  BY NextImplements
<1>2. Spec => []Inv
  BY OneWriterInvariant
<1> HIDE DEF Inv
<1> QED
  BY <1>1, <1>2, InitImplements, PTL DEF Spec, ImplementsEventLog, Logs!Spec
=============================================================================
