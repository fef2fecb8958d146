---------------------------- MODULE MCGovernance ----------------------------
(* Model checking of the contracts: those of the witnesses, and the         *)
(* SkillRegistry alone and with the operators who publish into it. They     *)
(* share nothing: a behaviour is one, the part. Witnesses and relayers are  *)
(* interchangeable.                                                         *)
EXTENDS Governance, SkillRegistry, TLC

CONSTANTS Operator, Planned, MaxNonce, MaxFaults

ASSUME PublicationAssumption ==
    /\ Planned \subseteq Version
    /\ {MaxNonce, MaxFaults} \subseteq Nat

VARIABLES
    part,
    operator, pool, receipt, faults

publicationVars == <<operator, pool, receipt, faults>>

Publication == INSTANCE ReleasePublication

MCInit == part \in {"governance", "registry", "publication"} /\ Init /\ Publication!Init

MCNext ==
    /\ UNCHANGED part
    /\ \/ part = "governance" /\ Next /\ UNCHANGED <<registryVars, publicationVars>>
       \/ part = "registry" /\ RegistryNext /\ UNCHANGED <<vars, publicationVars>>
       \/ part = "publication" /\ Publication!Next /\ UNCHANGED vars

MCSpec == MCInit /\ [][MCNext]_<<part, vars, registryVars, publicationVars>>

Symmetry == Permutations(Witness) \cup Permutations(Relayer)

\* The operators who publish.
SubmittedIsPublished == Publication!SubmittedIsPublished
=============================================================================
