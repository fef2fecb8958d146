---------------------------- MODULE MCStoredData ----------------------------
(* Model checking of what is kept: the snapshots, the evidence of a session *)
(* with two writers, and the review of a disputed bundle. They share        *)
(* nothing: a behaviour is one, the part.                                   *)
EXTENDS SystemSnapshot, FiniteSets

CONSTANTS
    i1, i2, c1, c2, gateway, cli,
    \* of LiveEvidence
    Writer, Ingest, Observer, EventId, Content, Raw, Revision, NoEvent,
    MaxRequests, MaxCrashes,
    \* of DisputeReview
    Reviewer, Dispute, Critical, MaxRevision, MaxEvents, MaxFailures

ASSUME StoredDataAssumption ==
    /\ Ingest \subseteq Writer
    /\ Raw \subseteq [id : EventId, content : Content, typed : BOOLEAN]
    /\ {MaxRequests, MaxCrashes} \subseteq Nat
    /\ Critical \subseteq Dispute
    /\ IsFiniteSet(Reviewer)
    /\ {MaxRevision, MaxEvents} \subseteq Nat \ {0} /\ MaxFailures \in Nat

VARIABLES
    part,
    session, events, bundles, files, liveJob, sent, answer,
    opc, cursor, received, results, requests, crashes,
    reviewed, sealed, view, opened, review, resolved, plan, failures

snapshotVars == <<live, service, snapshots, job, now, records, faults, lost, mixed>>
liveVars     == <<session, events, bundles, files, liveJob, sent, answer, opc, cursor,
                  received, results, requests, crashes>>
reviewVars   == <<reviewed, sealed, view, opened, review, resolved, plan, failures>>

Event(i, c) == [id |-> i, content |-> c, typed |-> TRUE]

MCRaw == {Event(i1, c1), Event(i1, c2), Event(i2, c1)}

Live == INSTANCE LiveEvidence WITH job <- liveJob

ASSUME NoEventAssumption == NoEvent \notin Live!EventRow

Review == INSTANCE DisputeReview
            WITH session <- reviewed, bundles <- sealed, files <- resolved

MCInit == part \in {"snapshots", "live", "review"} /\ Init /\ Live!Init /\ Review!Init

MCNext ==
    /\ UNCHANGED part
    /\ \/ part = "snapshots" /\ Next /\ UNCHANGED <<liveVars, reviewVars>>
       \/ part = "live" /\ Live!Next /\ UNCHANGED <<snapshotVars, reviewVars>>
       \/ part = "review" /\ Review!Next /\ UNCHANGED <<snapshotVars, liveVars>>

MCSpec == MCInit /\ [][MCNext]_<<part, snapshotVars, liveVars, reviewVars>>

\* The writers of a live session.
ChainIntact == Live!ChainIntact

\* The reviewers of a dispute.
PlanIsReviewed == Review!PlanIsReviewed
=============================================================================
