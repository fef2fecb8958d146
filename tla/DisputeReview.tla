---------------------------- MODULE DisputeReview ----------------------------
(***************************************************************************)
(* The review of disputed evidence: an operator reads the sealed bundle    *)
(* and the session, opens disputes on that bundle and dispatches a task to *)
(* each of the three reviewers; every reviewer reads the bundle, its       *)
(* events and artifacts for itself and signs a verdict; the operator       *)
(* aggregates the reviews and asks the gate for a proposal plan.           *)
(*                                                                         *)
(* Meanwhile the store goes on: an append that overlaps the close brings   *)
(* the session back (LiveEvidence), and another revision may be sealed.    *)
(* The evidence URL has no revision in it: it serves the last one. The     *)
(* operator works with files, so what is aggregated or given to the gate   *)
(* may be older than the store.                                            *)
(***************************************************************************)
EXTENDS Naturals, FiniteSets, Sequences

CONSTANTS
    Reviewer,      \* expected_nodes
    Dispute,
    Critical,      \* the disputes of severity critical
    MaxRevision,   \* bound: revisions of the bundle
    MaxEvents,     \* bound: events of the session
    MaxFailures    \* bound: requests that fail and reviewers that crash

VARIABLES
    session,       \* the session as it is stored: closed, and its events
    bundles,       \* the events that each revision sealed
    view,          \* the bundle and the session as the operator read them
    opened,        \* the bundle that each dispute is about; 0: not opened
    review,        \* the task of each reviewer, and what it has read
    files,         \* the states of each dispute that were written to files
    plan,          \* the proposal plan, and the disputes it was given
    failures

vars == <<session, bundles, view, opened, review, files, plan, failures>>

NoReview == [step |-> "none", revision |-> 0, events |-> 0]

NoPlan == [revision |-> 0, disputes |-> {}]

Latest == Len(bundles)

\* The result of a task whose journal entry has its receipt.
Signed(d) == {r \in Reviewer : review[d][r].step \in {"dismiss", "uphold", "unable"}}

With(d, r, value) == review' = [review EXCEPT ![d][r] = value]

Rejected(d, r) == With(d, r, [review[d][r] EXCEPT !.step = "rejected"])

Failure == failures < MaxFailures /\ failures' = failures + 1

-----------------------------------------------------------------------------
(* The operator opens disputes                                             *)

\* The two requests of _run_evidence_phase; the session is read after the bundle.
ReadBundle ==
    /\ view.revision < Latest
    /\ view' = [revision |-> Latest, closed |-> FALSE]
    /\ UNCHANGED <<session, bundles, opened, review, files, plan, failures>>

ReadSession ==
    /\ view.revision > 0 /\ ~view.closed
    /\ session.closed
    /\ view' = [view EXCEPT !.closed = TRUE]
    /\ UNCHANGED <<session, bundles, opened, review, files, plan, failures>>

OpenDispute(d) ==
    /\ opened[d] = 0
    /\ view.revision > 0
    /\ opened' = [opened EXCEPT ![d] = view.revision]
    /\ files' = [files EXCEPT ![d] = {"open"}]
    /\ UNCHANGED <<session, bundles, view, review, plan, failures>>

\* A task for each reviewer; only a critical dispute needs one.
Dispatch(d) ==
    /\ d \in Critical
    /\ opened[d] > 0
    /\ \A r \in Reviewer : review[d][r] = NoReview
    /\ review' = [review EXCEPT ![d] = [r \in Reviewer |-> [NoReview EXCEPT !.step = "queued"]]]
    /\ UNCHANGED <<session, bundles, view, opened, files, plan, failures>>

-----------------------------------------------------------------------------
(* verify_review_evidence                                                  *)

\* The bundle that is served is the one the signed task names.
Matches(d) == Latest = opened[d]

FetchBundle(d, r) ==
    /\ review[d][r].step = "queued"
    /\ IF Matches(d)
       THEN With(d, r, [step |-> "bundle", revision |-> Latest, events |-> 0])
       ELSE Rejected(d, r)
    /\ UNCHANGED <<session, bundles, view, opened, files, plan, failures>>

\* The events are as many as the task says, and they are those of the bundle.
FetchEvents(d, r) ==
    /\ review[d][r].step = "bundle"
    /\ IF session.events = bundles[opened[d]]
       THEN With(d, r, [review[d][r] EXCEPT !.step = "verified", !.events = session.events])
       ELSE Rejected(d, r)
    /\ UNCHANGED <<session, bundles, view, opened, files, plan, failures>>

\* _review_result with the verdict of the file, and the receipt in the journal.
Sign(d, r) ==
    /\ review[d][r].step = "verified"
    /\ \E verdict \in {"dismiss", "uphold", "unable"} :
         With(d, r, [review[d][r] EXCEPT !.step = verdict])
    /\ UNCHANGED <<session, bundles, view, opened, files, plan, failures>>

\* The server cannot be reached, an artifact is missing, there is no verdict: the
\* error is signed as the result.
ReviewFails(d, r) ==
    /\ review[d][r].step \in {"queued", "bundle", "verified"}
    /\ Failure
    /\ Rejected(d, r)
    /\ UNCHANGED <<session, bundles, view, opened, files, plan>>

\* A claim without a receipt is executed again from the beginning.
Crash(d, r) ==
    /\ review[d][r].step \in {"bundle", "verified"}
    /\ Failure
    /\ With(d, r, [NoReview EXCEPT !.step = "queued"])
    /\ UNCHANGED <<session, bundles, view, opened, files, plan>>

-----------------------------------------------------------------------------
(* aggregate_reviews, build_proposal_plan                                  *)

Count(d, reviewers, verdict) == Cardinality({r \in reviewers : review[d][r].step = verdict})

OfThoseGiven(reviewers) == TRUE

\* All three have reviewed.
Complete(reviewers) == Cardinality(Reviewer) = 3 /\ reviewers = Reviewer

Status(d, reviewers) ==
    IF ~Complete(reviewers) THEN "unresolved"
    ELSE IF Count(d, reviewers, "uphold") >= 2 THEN "upheld"
    ELSE IF Count(d, reviewers, "dismiss") >= 2 THEN "dismissed"
    ELSE "unresolved"

\* The operator may aggregate before every review is there. A receipt of a rejected
\* task is not a review.
Aggregate(d) ==
    /\ opened[d] > 0
    /\ \E reviewers \in SUBSET Signed(d) :
         files' = [files EXCEPT ![d] = @ \cup {Status(d, reviewers)}]
    /\ UNCHANGED <<session, bundles, view, opened, review, plan, failures>>

\* The disputes the operator has on this bundle, each in any of its files.
Given == {d \in Dispute : opened[d] = view.revision}

Blocked(d, status) == d \in Critical /\ status # "dismissed"

BuildPlan ==
    /\ view.closed
    /\ plan = NoPlan
    /\ \A d \in Given : \E status \in files[d] : ~Blocked(d, status)
    /\ plan' = [revision |-> view.revision, disputes |-> Given]
    /\ UNCHANGED <<session, bundles, view, opened, review, files, failures>>

-----------------------------------------------------------------------------
(* The store                                                               *)

\* An append that read the session before it was closed.
Reopen ==
    /\ session.closed
    /\ session.events < MaxEvents
    /\ session' = [closed |-> FALSE, events |-> session.events + 1]
    /\ UNCHANGED <<bundles, view, opened, review, files, plan, failures>>

Close ==
    /\ ~session.closed
    /\ session' = [session EXCEPT !.closed = TRUE]
    /\ UNCHANGED <<bundles, view, opened, review, files, plan, failures>>

\* finalize with the next revision, of the same events or of more.
Finalize ==
    /\ session.closed
    /\ Latest < MaxRevision
    /\ bundles' = Append(bundles, session.events)
    /\ UNCHANGED <<session, view, opened, review, files, plan, failures>>

-----------------------------------------------------------------------------
Init ==
    /\ session = [closed |-> TRUE, events |-> 1]
    /\ bundles = <<>>
    /\ view = [revision |-> 0, closed |-> FALSE]
    /\ opened = [d \in Dispute |-> 0]
    /\ review = [d \in Dispute |-> [r \in Reviewer |-> NoReview]]
    /\ files = [d \in Dispute |-> {}]
    /\ plan = NoPlan
    /\ failures = 0

Next ==
    \/ ReadBundle \/ ReadSession \/ BuildPlan
    \/ Reopen \/ Close \/ Finalize
    \/ \E d \in Dispute :
         \/ OpenDispute(d) \/ Dispatch(d) \/ Aggregate(d)
         \/ \E r \in Reviewer :
              \/ FetchBundle(d, r) \/ FetchEvents(d, r) \/ Sign(d, r)
              \/ ReviewFails(d, r) \/ Crash(d, r)

Spec == Init /\ [][Next]_vars

-----------------------------------------------------------------------------
(* Properties                                                              *)

TypeOK ==
    /\ session \in [closed : BOOLEAN, events : 1 .. MaxEvents]
    /\ bundles \in Seq(1 .. MaxEvents)
    /\ view \in [revision : 0 .. Latest, closed : BOOLEAN]
    /\ opened \in [Dispute -> 0 .. Latest]
    /\ plan.revision \in 0 .. Latest
    /\ plan.disputes \subseteq Dispute

\* Whoever signed a verdict had read the bundle the dispute is about and every event
\* that this bundle sealed, whatever was appended or sealed meanwhile.
VerdictsAreInformed ==
    \A d \in Dispute : \A r \in Signed(d) :
        /\ review[d][r].revision = opened[d]
        /\ review[d][r].events = bundles[opened[d]]

\* A plan whose bundle was disputed as critical was dismissed by two of three
\* reviewers who know that bundle.
PlanIsReviewed ==
    /\ VerdictsAreInformed
    /\ \A d \in plan.disputes \cap Critical :
         /\ opened[d] = plan.revision
         /\ Cardinality(Signed(d)) = 3
         /\ Count(d, Reviewer, "dismiss") >= 2
=============================================================================
