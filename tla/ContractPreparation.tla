------------------------- MODULE ContractPreparation -------------------------
(***************************************************************************)
(* The contracts directory: prepare_contracts installs or refreshes the    *)
(* locked dependencies, builds, and attests what it built from what;       *)
(* install_contract_dependency_bundle fills an empty lib from an archive;  *)
(* verify_prepared_contract_artifacts compares the attestation with what   *)
(* is there before a deployment. The operator changes sources and trees,   *)
(* and a preparation may be killed at any step and started again.          *)
(*                                                                         *)
(* A tree is the locked one, with the host's line endings ("raw") or       *)
(* without ("locked"); some other one ("wrong"); or a piece of one         *)
(* ("partial").                                                            *)
(***************************************************************************)
EXTENDS Naturals, FiniteSets

CONSTANTS
    Dep,           \* CONTRACT_DEPENDENCIES
    NoDep,
    MaxEdits,      \* bound: changes the operator makes
    MaxFaults      \* bound: kills and steps that fail

VARIABLES
    lib,           \* the tree of each dependency
    backup,        \* the tree that a refresh moved aside, in lib too
    source,        \* the version of contracts/src
    built,         \* what the artifacts in out/ were built from
    attested,      \* what the attestation says
    run,           \* the preparation: its step, and what it has still to do
    bundle,        \* the installation of a bundle
    stale,         \* what is attested was changed while Forge built it
    edits, faults

fileVars == <<lib, backup, source, built, attested>>

vars == <<fileVars, run, bundle, stale, edits, faults>>

Tree == {"absent", "partial", "wrong", "raw", "locked"}

Nothing == [source |-> 0, lib |-> [d \in Dep |-> "absent"]]

Unattested == [source |-> 0, lib |-> [d \in Dep |-> "absent"], built |-> Nothing]

Idle == [step |-> "idle", refresh |-> FALSE, todo |-> {}, dep |-> NoDep,
         moved |-> {}, read |-> Nothing, edited |-> FALSE]

Fault == faults < MaxFaults /\ faults' = faults + 1

Step(step) == run.step = step

To(step) == run' = [run EXCEPT !.step = step]

\* The run ends, with an error or not.
Ends == run' = Idle

\* _dependency_matches_lock: the inventory is of normalised files.
Matches(tree) == tree \in {"raw", "locked"}

\* _validate_dependency_layout: a backup is accepted only where it is expected.
OnlyBackups(expected) == \A d \in Dep : backup[d] # "absent" => d \in expected

AllMatch == \A d \in Dep : Matches(lib[d])

-----------------------------------------------------------------------------
(* prepare_contracts: recovery                                             *)

Start(refresh) ==
    /\ Step("idle")
    /\ run' = [Idle EXCEPT !.step = "recover", !.refresh = refresh, !.todo = Dep]
    /\ UNCHANGED <<fileVars, bundle, stale, edits, faults>>

Ignored(d) == UNCHANGED <<lib, backup, faults>>

\* _recover_interrupted_dependency_refresh. A backup is not removed before the
\* tree in its place is the locked one; the removal may be cut short.
Recovered(d) ==
    \/ /\ backup[d] = "absent"
       /\ UNCHANGED <<lib, backup, faults>>
    \/ /\ backup[d] # "absent" /\ lib[d] = "absent"
       /\ lib' = [lib EXCEPT ![d] = backup[d]]
       /\ backup' = [backup EXCEPT ![d] = "absent"]
       /\ UNCHANGED faults
    \/ /\ backup[d] # "absent" /\ Matches(lib[d])
       /\ backup' = [backup EXCEPT ![d] = "absent"]
       /\ UNCHANGED <<lib, faults>>

Blocked(d) == backup[d] # "absent" /\ lib[d] \in {"partial", "wrong"}

Recover ==
    /\ Step("recover")
    /\ \E d \in run.todo :
         \/ /\ ~Blocked(d)
            /\ Recovered(d)
            /\ run' = [run EXCEPT !.todo = @ \ {d}]
         \/ /\ Blocked(d)
            /\ Ends
            /\ UNCHANGED <<lib, backup, faults>>
    /\ UNCHANGED <<source, built, attested, bundle, stale, edits>>

\* _preflight_prepare_paths, the second time: no backup is left.
Preflight ==
    /\ Step("recover")
    /\ run.todo = {}
    /\ IF OnlyBackups({})
       THEN run' = [run EXCEPT !.step = "dependencies", !.todo = Dep]
       ELSE Ends
    /\ UNCHANGED <<fileVars, bundle, stale, edits, faults>>

-----------------------------------------------------------------------------
(* prepare_contracts: dependencies                                         *)

\* A tree that is there and matches stays; another is replaced when the
\* operator asked for it.
Keep(d) ==
    /\ Step("dependencies")
    /\ d \in run.todo
    /\ lib[d] # "absent"
    /\ run' = IF Matches(lib[d])      THEN [run EXCEPT !.todo = @ \ {d}]
              ELSE IF ~run.refresh    THEN Idle
              ELSE [run EXCEPT !.step = "staging", !.dep = d]
    /\ UNCHANGED <<fileVars, bundle, stale, edits, faults>>

\* _install_dependency: Git creates the directory and fills it.
Checkout(d) ==
    /\ Step("dependencies")
    /\ d \in run.todo
    /\ lib[d] = "absent"
    /\ lib' = [lib EXCEPT ![d] = "partial"]
    /\ run' = [run EXCEPT !.step = "checkout", !.dep = d]
    /\ UNCHANGED <<backup, source, built, attested, bundle, stale, edits, faults>>

\* The tree is accepted when it matches the lock, and is removed otherwise.
CheckoutEnds ==
    /\ Step("checkout")
    /\ \/ /\ lib' = [lib EXCEPT ![run.dep] = "locked"]
          /\ run' = [run EXCEPT !.step = "dependencies", !.todo = @ \ {run.dep}]
          /\ UNCHANGED faults
       \/ /\ Fault
          /\ lib' = [lib EXCEPT ![run.dep] = "absent"]
          /\ Ends
    /\ UNCHANGED <<backup, source, built, attested, bundle, stale, edits>>

NotKept(d) == [backup EXCEPT ![d] = "absent"]

MovedAside(d) == [backup EXCEPT ![d] = lib[d]]

\* _refresh_dependency: the new tree is complete, outside lib, and the old one
\* is moved aside.
Stage ==
    /\ Step("staging")
    /\ \/ /\ backup' = MovedAside(run.dep)
          /\ lib' = [lib EXCEPT ![run.dep] = "absent"]
          /\ To("moving")
          /\ UNCHANGED faults
       \/ /\ Fault
          /\ Ends
          /\ UNCHANGED <<lib, backup>>
    /\ UNCHANGED <<source, built, attested, bundle, stale, edits>>

\* The new tree is moved in; if it cannot be, the old one is moved back. A backup
\* counts as moved even when there was no tree left to move.
Replace ==
    /\ Step("moving")
    /\ \/ /\ lib[run.dep] = "absent"
          /\ lib' = [lib EXCEPT ![run.dep] = "locked"]
          /\ run' = [run EXCEPT !.step = "dependencies", !.todo = @ \ {run.dep},
                                !.moved = @ \cup {run.dep}]
          /\ UNCHANGED <<backup, faults>>
       \/ /\ \/ Fault
             \/ lib[run.dep] # "absent" /\ UNCHANGED faults
          /\ IF lib[run.dep] = "absent"
             THEN /\ lib' = [lib EXCEPT ![run.dep] = backup[run.dep]]
                  /\ backup' = [backup EXCEPT ![run.dep] = "absent"]
             ELSE UNCHANGED <<lib, backup>>
          /\ Ends
    /\ UNCHANGED <<source, built, attested, bundle, stale, edits>>

-----------------------------------------------------------------------------
(* prepare_contracts: build and attestation                                *)

\* _normalize_dependency_tree_to_lf, then _dependency_inventories: only the
\* backups of this run may be there.
Normalise ==
    /\ Step("dependencies")
    /\ run.todo = {}
    /\ IF \A d \in Dep : lib[d] # "absent"
       THEN lib' = [d \in Dep |-> IF lib[d] = "raw" THEN "locked" ELSE lib[d]]
       ELSE UNCHANGED lib
    /\ run' = IF AllMatch /\ OnlyBackups(run.moved)
              THEN [run EXCEPT !.step = "build"] ELSE Idle
    /\ UNCHANGED <<backup, source, built, attested, bundle, stale, edits, faults>>

\* Forge reads its inputs.
Build ==
    /\ Step("build")
    /\ run' = [run EXCEPT !.step = "building",
                          !.read = [source |-> source, lib |-> lib]]
    /\ UNCHANGED <<fileVars, bundle, stale, edits, faults>>

\* It writes the artifacts; a failure leaves none that are whole.
BuildEnds ==
    /\ Step("building")
    /\ \/ /\ built' = run.read
          /\ To("cleaning")
          /\ UNCHANGED faults
       \/ /\ Fault
          /\ built' = Nothing
          /\ Ends
    /\ UNCHANGED <<lib, backup, source, attested, bundle, stale, edits>>

\* The backups of this run are removed when the build is there; one that is not
\* there, or not removed as a whole, ends the preparation.
Clean ==
    /\ Step("cleaning")
    /\ \E removed \in SUBSET {d \in run.moved : backup[d] # "absent"} :
         LET left == [d \in Dep |-> IF d \in removed THEN "absent" ELSE backup[d]]
         IN  \/ /\ removed = run.moved
                /\ backup' = left
                /\ To("attest")
                /\ UNCHANGED faults
             \/ \E d \in run.moved \ removed :
                  /\ \/ /\ backup[d] = "absent"
                        /\ backup' = left
                        /\ UNCHANGED faults
                     \/ /\ backup[d] # "absent"
                        /\ Fault
                        /\ backup' = [left EXCEPT ![d] = "partial"]
                  /\ Ends
    /\ UNCHANGED <<lib, source, built, attested, bundle, stale, edits>>

WithoutInputs == [source |-> 0, lib |-> attested.lib, built |-> built]

\* _current_attestation.
Present == [source |-> source, lib |-> lib, built |-> built]

\* _write_attestation, of what is there now.
Attest ==
    /\ Step("attest")
    /\ IF AllMatch /\ OnlyBackups({}) /\ built # Nothing
       THEN attested' = Present /\ stale' = run.edited
       ELSE UNCHANGED <<attested, stale>>
    /\ Ends
    /\ UNCHANGED <<lib, backup, source, built, bundle, edits, faults>>

\* The preparation is killed; Forge may have written its artifacts or some.
Kill ==
    /\ ~Step("idle")
    /\ Fault
    /\ Ends
    /\ built' \in IF Step("building") THEN {built, Nothing, run.read} ELSE {built}
    /\ UNCHANGED <<lib, backup, source, attested, bundle, stale, edits>>

-----------------------------------------------------------------------------
(* install_contract_dependency_bundle, and the operator                    *)

LibEmpty == \A d \in Dep : lib[d] = "absent" /\ backup[d] = "absent"

\* What Forge has read may be changed before it is attested.
Changed ==
    run' = [run EXCEPT !.edited = Step("building") \/ Step("cleaning") \/ Step("attest")]

\* The archive is unpacked and checked beside lib.
StageBundle ==
    /\ bundle = "none"
    /\ LibEmpty
    /\ bundle' = "staged"
    /\ UNCHANGED <<fileVars, run, stale, edits, faults>>

\* A directory that is not empty is not replaced.
PlaceBundle ==
    /\ bundle = "staged"
    /\ bundle' = "ended"
    /\ IF LibEmpty
       THEN lib' = [d \in Dep |-> "locked"] /\ Changed
       ELSE UNCHANGED <<lib, run>>
    /\ UNCHANGED <<backup, source, built, attested, stale, edits, faults>>

Edit ==
    /\ edits < MaxEdits
    /\ edits' = edits + 1
    /\ Changed

EditSource ==
    /\ Edit
    /\ source' = 1 - source
    /\ UNCHANGED <<lib, backup, built, attested, bundle, stale, faults>>

\* The operator puts another tree into lib, or removes one, not the one that Git
\* is filling.
EditTree(d) ==
    /\ Edit
    /\ ~(Step("checkout") /\ run.dep = d)
    /\ \E tree \in {"absent", "wrong", "raw"} : lib' = [lib EXCEPT ![d] = tree]
    /\ UNCHANGED <<backup, source, built, attested, bundle, stale, faults>>

-----------------------------------------------------------------------------
Init ==
    /\ lib \in [Dep -> {"absent", "wrong", "raw"}]
    /\ backup = [d \in Dep |-> "absent"]
    /\ source = 0
    /\ built = Nothing
    /\ attested = Unattested
    /\ run = Idle
    /\ bundle = "none"
    /\ stale = FALSE
    /\ edits = 0
    /\ faults = 0

PrepareStep ==
    \/ Recover \/ Preflight
    \/ \E d \in Dep : Keep(d) \/ Checkout(d)
    \/ CheckoutEnds \/ Stage \/ Replace
    \/ Normalise \/ Build \/ BuildEnds \/ Clean \/ Attest

Next ==
    \/ \E refresh \in BOOLEAN : Start(refresh)
    \/ PrepareStep \/ Kill
    \/ StageBundle \/ PlaceBundle
    \/ EditSource \/ \E d \in Dep : EditTree(d)

Spec == Init /\ [][Next]_vars

\* A preparation goes on, and the operator prepares again, with a refresh.
Fairness == WF_vars(PrepareStep) /\ SF_vars(Start(TRUE))

FairSpec == Spec /\ Fairness

-----------------------------------------------------------------------------
(* Properties                                                              *)

TypeOK ==
    /\ lib \in [Dep -> Tree]
    /\ backup \in [Dep -> Tree]
    /\ source \in 0 .. 1
    /\ run.todo \subseteq Dep /\ run.moved \subseteq Dep
    /\ run.dep \in Dep \cup {NoDep}
    /\ bundle \in {"none", "staged", "ended"}

\* verify_prepared_contract_artifacts.
Verified ==
    /\ AllMatch
    /\ OnlyBackups({})
    /\ built # Nothing
    /\ attested = Present

\* What passes the verification before a deployment was built from the sources
\* and the locked dependencies that are there, whatever was interrupted, edited
\* or restored before: unless what Forge reads was edited, or a bundle was put in
\* its place, between Forge's reading and the attestation, which nothing in the
\* attestation shows.
VerifiedIsBuilt ==
    Verified /\ ~stale => built.source = source /\ built.lib = lib

Owned(d) == {lib[d], backup[d]}

\* A dependency tree the operator had put there is not lost, at whatever step a
\* refresh fails or is killed, before the locked one has been put in its place.
TreeSurvives ==
    [][edits' = edits =>
         \A d \in Dep : "wrong" \in Owned(d) /\ "wrong" \notin {lib'[d], backup'[d]} =>
            Matches(lib'[d]) \/ d \in run.moved]_vars

Prepared == Verified \/ (edits > 0 /\ \E d \in Dep : Blocked(d))

\* However often it was killed, preparing again with a refresh succeeds, unless
\* an operator has changed a tree whose backup is still there.
PreparedAgain == []<>Prepared
=============================================================================
