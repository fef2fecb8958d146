---------------------------- MODULE SkillRegistry ----------------------------
(***************************************************************************)
(* The contract SkillRegistry: the releases of one skill of one publisher. *)
(* Every call is keyed by its sender and the skill, so those of others are *)
(* apart. A package stands for the package and manifest hashes together.   *)
(* A call whose guard is false reverts and changes nothing.                *)
(***************************************************************************)
EXTENDS Naturals, FiniteSets

CONSTANTS Version, Package, NoVersion, NoPackage

ASSUME VersionAssumption == NoVersion \notin Version

VARIABLES
    release,       \* releases[publisher][skill], by version
    current        \* currentVersion[publisher][skill]

registryVars == <<release, current>>

NoRelease == [package |-> NoPackage, previous |-> NoVersion,
              replacement |-> NoVersion, status |-> "none"]

Released(v) == release[v].status # "none"

CanPublish(v, previous) ==
    /\ ~Released(v)
    /\ previous # NoVersion => Released(previous)

publishRelease(v, package, previous) ==
    /\ CanPublish(v, previous)
    /\ release' = [release EXCEPT ![v] = [package |-> package, previous |-> previous,
                                          replacement |-> NoVersion, status |-> "active"]]
    /\ UNCHANGED current

CanBeCurrent(v) == release[v].status = "active"

setCurrentVersion(v) ==
    /\ CanBeCurrent(v)
    /\ current' = v
    /\ UNCHANGED release

AnyChange(v, status, replacement) == Released(v)

CanChange(v, status, replacement) ==
    /\ Released(v)
    /\ release[v].status = "revoked" => status = "revoked"
    /\ replacement # NoVersion => Released(replacement)

\* A version that is no longer active is no longer the current one.
CurrentAfter(v, status) ==
    IF status # "active" /\ current = v THEN NoVersion ELSE current

setReleaseStatus(v, status, replacement) ==
    /\ CanChange(v, status, replacement)
    /\ release' = [release EXCEPT ![v].status = status, ![v].replacement = replacement]
    /\ current' = CurrentAfter(v, status)

RegistryInit ==
    /\ release = [v \in Version |-> NoRelease]
    /\ current = NoVersion

RegistryNext ==
    \E v \in Version, other \in Version \cup {NoVersion} :
       \/ \E package \in Package : publishRelease(v, package, other)
       \/ setCurrentVersion(v)
       \/ \E status \in {"active", "deprecated", "revoked"} :
            setReleaseStatus(v, status, other)

RegistrySpec == RegistryInit /\ [][RegistryNext]_registryVars

-----------------------------------------------------------------------------
(* Properties                                                              *)

RegistryTypeOK ==
    /\ release \in [Version -> [package : Package \cup {NoPackage},
                                previous : Version \cup {NoVersion},
                                replacement : Version \cup {NoVersion},
                                status : {"none", "active", "deprecated", "revoked"}]]
    /\ current \in Version \cup {NoVersion}

\* The version a publisher recommends is one that may be installed: deprecating
\* or revoking it takes the recommendation back.
CurrentIsActive == current # NoVersion => release[current].status = "active"

\* What a release names as its predecessor or its replacement was published.
LinksResolve ==
    \A v \in Version :
       {release[v].previous, release[v].replacement} \subseteq
          {NoVersion} \cup {w \in Version : Released(w)}

\* A version is published once: its package and its predecessor never change,
\* and a revocation is never taken back, by whatever sequence of calls.
HistoryKept ==
    [][\A v \in Version : Released(v) =>
         /\ release'[v].package = release[v].package
         /\ release'[v].previous = release[v].previous
         /\ release[v].status = "revoked" => release'[v].status = "revoked"]_registryVars
=============================================================================
