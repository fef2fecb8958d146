------------------------- MODULE SkillRegistryProofs -------------------------
(* Theorems about SkillRegistry, for any versions and packages, and about    *)
(* ReleasePublication, for any operators and bounds. The inductive invariant *)
(* of the registry is what its reader relies on: the type, the recommended   *)
(* version is active, and every link leads to a release.                     *)
EXTENDS MCGovernance, FiniteSetTheorems, TLAPS

RegistryInv == RegistryTypeOK /\ CurrentIsActive /\ LinksResolve

\* Once published, a release stays published: LinksResolve needs no more of a
\* step.
LEMMA PublishedStays ==
  ASSUME RegistryTypeOK, RegistryNext
  PROVE  \A v \in Version : Released(v) => Released(v)'
<1>1. ASSUME NEW v \in Version, NEW other \in Version \cup {NoVersion},
             NEW package \in Package, publishRelease(v, package, other)
      PROVE  \A w \in Version : Released(w) => Released(w)'
  BY <1>1 DEF publishRelease, Released, RegistryTypeOK
<1>2. ASSUME NEW v \in Version, setCurrentVersion(v)
      PROVE  \A w \in Version : Released(w) => Released(w)'
  BY <1>2 DEF setCurrentVersion, Released
<1>3. ASSUME NEW v \in Version, NEW other \in Version \cup {NoVersion},
             NEW status \in {"active", "deprecated", "revoked"},
             setReleaseStatus(v, status, other)
      PROVE  \A w \in Version : Released(w) => Released(w)'
  BY <1>3 DEF setReleaseStatus, Released, RegistryTypeOK
<1> QED
  BY <1>1, <1>2, <1>3 DEF RegistryNext

\* An empty registry, and every call, keep the invariant.
LEMMA InvInit == RegistryInit => RegistryInv
  BY DEF RegistryInit, RegistryInv, RegistryTypeOK, CurrentIsActive, LinksResolve, NoRelease

\* One step per function of the contract.
LEMMA InvNext ==
  ASSUME RegistryInv, [RegistryNext]_registryVars
  PROVE  RegistryInv'
<1> USE VersionAssumption
<1>1. ASSUME NEW v \in Version, NEW other \in Version \cup {NoVersion},
             NEW package \in Package, publishRelease(v, package, other)
      PROVE  RegistryInv'
  <2>1. RegistryTypeOK'
    BY <1>1 DEF RegistryInv, RegistryTypeOK, publishRelease
  <2>2. CurrentIsActive'
    \* The version that is published was not there, so it was not the current one.
    BY <1>1 DEF RegistryInv, RegistryTypeOK, CurrentIsActive, publishRelease
  <2>3. LinksResolve'
    <3>1. \A w \in Version : Released(w) => Released(w)'
      BY <1>1, PublishedStays DEF RegistryInv, RegistryNext
    <3>2. Released(v)' /\ release'[v].previous = other /\ release'[v].replacement = NoVersion
      BY <1>1 DEF RegistryInv, RegistryTypeOK, publishRelease, Released
    <3>3. other # NoVersion => Released(other)
      BY <1>1 DEF publishRelease, CanPublish
    <3>4. \A w \in Version \ {v} : release'[w] = release[w]
      BY <1>1 DEF RegistryInv, RegistryTypeOK, publishRelease
    <3> QED
      BY <3>1, <3>2, <3>3, <3>4 DEF RegistryInv, LinksResolve
  <2> QED
    BY <2>1, <2>2, <2>3 DEF RegistryInv
<1>2. ASSUME NEW v \in Version, setCurrentVersion(v)
      PROVE  RegistryInv'
  BY <1>2 DEF RegistryInv, RegistryTypeOK, CurrentIsActive, LinksResolve, Released,
              setCurrentVersion, CanBeCurrent
<1>3. ASSUME NEW v \in Version, NEW other \in Version \cup {NoVersion},
             NEW status \in {"active", "deprecated", "revoked"},
             setReleaseStatus(v, status, other)
      PROVE  RegistryInv'
  <2>1. RegistryTypeOK'
    BY ZenonT(40), <1>3 DEF RegistryInv, RegistryTypeOK, setReleaseStatus, CurrentAfter
  <2>2. CurrentIsActive'
    <3>1. CASE current = v
      BY <1>3, <3>1 DEF RegistryInv, RegistryTypeOK, CurrentIsActive, setReleaseStatus, CurrentAfter
    <3>2. CASE current # v
      BY <1>3, <3>2 DEF RegistryInv, RegistryTypeOK, CurrentIsActive, setReleaseStatus, CurrentAfter
    <3> QED
      BY <3>1, <3>2
  <2>3. LinksResolve'
    <3>1. \A w \in Version : Released(w) => Released(w)'
      BY <1>3, PublishedStays DEF RegistryInv, RegistryNext
    <3>2. release'[v].previous = release[v].previous /\ release'[v].replacement = other
      BY <1>3 DEF RegistryInv, RegistryTypeOK, setReleaseStatus
    <3>3. other # NoVersion => Released(other)
      BY <1>3 DEF setReleaseStatus, CanChange
    <3>4. \A w \in Version \ {v} : release'[w] = release[w]
      BY <1>3 DEF RegistryInv, RegistryTypeOK, setReleaseStatus
    <3> QED
      BY <3>1, <3>2, <3>3, <3>4 DEF RegistryInv, LinksResolve
  <2> QED
    BY <2>1, <2>2, <2>3 DEF RegistryInv
<1>4. CASE UNCHANGED registryVars
  BY <1>4 DEF RegistryInv, RegistryTypeOK, CurrentIsActive, LinksResolve, Released, registryVars
<1> QED
  BY <1>1, <1>2, <1>3, <1>4 DEF RegistryNext

\* The inductive invariant of the registry.
LEMMA Invariant == RegistrySpec => []RegistryInv
  BY InvInit, InvNext, PTL DEF RegistrySpec

\* The version a publisher recommends is active, after any sequence of calls.
THEOREM RecommendedIsActive == RegistrySpec => []CurrentIsActive
<1>1. RegistryInv => CurrentIsActive
  BY DEF RegistryInv
<1> QED
  BY Invariant, <1>1, PTL

\* The predecessor and the replacement that a release names were published.
THEOREM LinksLead == RegistrySpec => []LinksResolve
<1>1. RegistryInv => LinksResolve
  BY DEF RegistryInv
<1> QED
  BY Invariant, <1>1, PTL

\* What a call keeps of a release.
Kept(v) ==
    Released(v) =>
      /\ release'[v].package = release[v].package
      /\ release'[v].previous = release[v].previous
      /\ release[v].status = "revoked" => release'[v].status = "revoked"

LEMMA CallsKeep ==
  ASSUME RegistryInv, RegistryNext
  PROVE  \A v \in Version : Kept(v)
<1>1. ASSUME NEW v \in Version, NEW other \in Version \cup {NoVersion},
             NEW package \in Package, publishRelease(v, package, other)
      PROVE  \A w \in Version : Kept(w)
  BY <1>1 DEF Kept, RegistryInv, RegistryTypeOK, publishRelease, CanPublish, Released
<1>2. ASSUME NEW v \in Version, setCurrentVersion(v)
      PROVE  \A w \in Version : Kept(w)
  BY <1>2 DEF Kept, setCurrentVersion
<1>3. ASSUME NEW v \in Version, NEW other \in Version \cup {NoVersion},
             NEW status \in {"active", "deprecated", "revoked"},
             setReleaseStatus(v, status, other)
      PROVE  \A w \in Version : Kept(w)
  BY <1>3 DEF Kept, RegistryInv, RegistryTypeOK, setReleaseStatus, CanChange, Released
<1> QED
  BY <1>1, <1>2, <1>3 DEF RegistryNext

\* No call changes what was published, or takes a revocation back.
THEOREM HistoryIsKept == RegistrySpec => HistoryKept
<1>1. RegistryInv /\ [RegistryNext]_registryVars =>
        [\A v \in Version : Kept(v)]_registryVars
  BY CallsKeep
<1> QED
  BY Invariant, <1>1, PTL DEF RegistrySpec, HistoryKept, Kept

-----------------------------------------------------------------------------
(* The way of a release into the registry (ReleasePublication)             *)

Call == Publication!Publish \cup Publication!Change

Transaction == [nonce : Nat, call : Call]

PublicationTypes ==
    /\ operator \in [Operator -> [step : {"idle", "signed", "expired", "sending", "waiting",
                                          "included", "submitted", "failed"},
                                  tx : [nonce : Nat, call : Call \cup {Publication!NoCall}]]]
    /\ pool \subseteq Transaction /\ IsFiniteSet(pool)
    /\ receipt \subseteq [tx : Transaction, ok : BOOLEAN] /\ IsFiniteSet(receipt)

\* The registry has the release that the call published.
Published(call) ==
    /\ Released(call.version)
    /\ release[call.version].package = call.package
    /\ release[call.version].previous = call.other

\* The inductive invariant. A nonce is in one block, so there is one receipt for two
\* plans with the same nonce; what is in a block stays, and so does what it published.
PublicationInv ==
    /\ PublicationTypes
    /\ RegistryInv
    /\ \A r \in receipt :
         /\ r.tx.nonce < Cardinality(receipt)
         /\ \A other \in receipt : other.tx.nonce = r.tx.nonce => other = r
         /\ r.ok /\ r.tx.call.op = "publish" => Published(r.tx.call)
    /\ \A o \in Operator :
         /\ operator[o].step # "idle" => operator[o].tx.call \in Publication!Publish
         /\ operator[o].step \in {"included", "submitted"} =>
              \E r \in receipt : r.tx = operator[o].tx /\ r.ok

\* The Cardinality that the instance brings is the one of FiniteSets.
LEMMA SameCount == \A S : Publication!Cardinality(S) = Cardinality(S)
  BY DEF Publication!Cardinality, Cardinality

\* What the node executes is a call of the registry, or nothing.
LEMMA ExecutesACall ==
  ASSUME NEW call \in Call, Publication!Execute(call)
  PROVE  RegistryNext
<1>0. Planned \subseteq Version
  BY PublicationAssumption
<1>1. CASE call.op = "publish"
  <2>1. /\ call.version \in Version /\ call.other \in Version \cup {NoVersion}
        /\ call.package \in Package
    BY <1>0, <1>1 DEF Call, Publication!Publish, Publication!Change
  <2>2. publishRelease(call.version, call.package, call.other)
    BY <1>1 DEF Publication!Execute, Publication!publishRelease, publishRelease,
       Publication!CanPublish, CanPublish, Publication!Released, Released
  <2> QED
    BY <2>1, <2>2 DEF RegistryNext
<1>2. CASE call.op = "current"
  <2>1. call.version \in Version
    BY <1>0 DEF Call, Publication!Publish, Publication!Change
  <2>2. setCurrentVersion(call.version)
    BY <1>2 DEF Publication!Execute, Publication!setCurrentVersion, setCurrentVersion,
       Publication!CanBeCurrent, CanBeCurrent
  <2> QED
    BY <2>1, <2>2 DEF RegistryNext
<1>3. CASE call.op \notin {"publish", "current"}
  <2>1. /\ call.version \in Version /\ call.other \in Version \cup {NoVersion}
        /\ call.op \in {"active", "deprecated", "revoked"}
    BY <1>0, <1>3 DEF Call, Publication!Publish, Publication!Change
  <2>2. setReleaseStatus(call.version, call.op, call.other)
    BY <1>3 DEF Publication!Execute, Publication!setReleaseStatus, setReleaseStatus,
       Publication!CanChange, CanChange, Publication!Released, Released,
       Publication!CurrentAfter, CurrentAfter
  <2> QED
    BY <2>1, <2>2 DEF RegistryNext
<1> QED
  BY <1>1, <1>2, <1>3

\* Every step of the publication is a call of the registry or leaves it alone.
LEMMA StepsOfTheRegistry ==
  ASSUME PublicationTypes, [Publication!Next]_(Publication!vars)
  PROVE  [RegistryNext]_registryVars
<1>1. CASE Publication!Include
  BY <1>1, ExecutesACall
     DEF Publication!Include, PublicationTypes, Transaction, Publication!registryVars, registryVars
<1>2. CASE Publication!Drop \/ Publication!WalletSends \/ UNCHANGED Publication!vars
  BY <1>2 DEF Publication!Drop, Publication!WalletSends, Publication!vars, registryVars
<1>3. ASSUME NEW o \in Operator,
             \/ Publication!Plan(o) \/ Publication!Expire(o) \/ Publication!CheckNonce(o)
             \/ Publication!Send(o) \/ Publication!Await(o) \/ Publication!GiveUp(o)
             \/ Publication!ReadRelease(o) \/ Publication!Retry(o)
      PROVE  UNCHANGED registryVars
  BY <1>3 DEF Publication!Plan, Publication!Expire, Publication!CheckNonce, Publication!Send,
     Publication!Await, Publication!GiveUp, Publication!ReadRelease, Publication!Retry,
     Publication!nodeVars, registryVars
<1> QED
  BY <1>1, <1>2, <1>3 DEF Publication!Next

\* What was published stays published, with its package and its predecessor.
LEMMA PublishedIsKept ==
  ASSUME RegistryInv, [RegistryNext]_registryVars,
         NEW call, call.version \in Version, Published(call)
  PROVE  Published(call)'
<1>1. CASE UNCHANGED registryVars
  BY <1>1 DEF registryVars, Published, Released
<1>2. CASE RegistryNext
  <2>1. Released(call.version)'
    BY <1>2, PublishedStays DEF RegistryInv, Published
  <2>2. /\ release'[call.version].package = release[call.version].package
        /\ release'[call.version].previous = release[call.version].previous
    BY <1>2, CallsKeep DEF Kept, Published
  <2> QED
    BY <2>1, <2>2 DEF Published
<1> QED
  BY <1>1, <1>2

\* An operator goes on; the node and the registry do not.
LEMMA OperatorGoesOn ==
  ASSUME PublicationInv, NEW o \in Operator, NEW to,
         to \in {"signed", "expired", "sending", "waiting", "included", "submitted", "failed"},
         operator' = [operator EXCEPT ![o].step = to],
         operator[o].step # "idle",
         to \in {"included", "submitted"} => \E r \in receipt : r.tx = operator[o].tx /\ r.ok,
         pool' \subseteq Transaction, IsFiniteSet(pool'),
         UNCHANGED <<registryVars, receipt>>
  PROVE  PublicationInv'
<1>1. /\ operator'[o].step = to /\ operator'[o].tx = operator[o].tx
      /\ \A other \in Operator \ {o} : operator'[other] = operator[other]
  BY DEF PublicationInv, PublicationTypes
<1>2. PublicationTypes'
  BY DEF PublicationInv, PublicationTypes
<1>3. RegistryInv'
  BY InvNext DEF PublicationInv
<1>4. \A call : Published(call)' = Published(call)
  BY DEF registryVars, Published, Released
<1> QED
  BY <1>1, <1>2, <1>3, <1>4 DEF PublicationInv

LEMMA OperatorKeeps ==
  ASSUME PublicationInv, NEW o \in Operator,
         \/ Publication!Expire(o) \/ Publication!CheckNonce(o)
         \/ Publication!Send(o) \/ Publication!Await(o) \/ Publication!GiveUp(o)
         \/ Publication!ReadRelease(o) \/ Publication!Retry(o)
  PROVE  PublicationInv'
<1>1. UNCHANGED <<registryVars, receipt>> /\ operator[o].step # "idle"
  BY DEF Publication!Expire, Publication!CheckNonce, Publication!Send, Publication!Await,
     Publication!GiveUp, Publication!ReadRelease, Publication!Retry, Publication!nodeVars,
     Publication!At, registryVars
<1>2. pool' \subseteq Transaction /\ IsFiniteSet(pool')
  <2>1. pool \subseteq Transaction /\ IsFiniteSet(pool)
    BY DEF PublicationInv, PublicationTypes
  <2>2. CASE pool' = pool
    BY <2>1, <2>2
  <2>3. CASE Publication!Send(o)
    <3> DEFINE tx == operator[o].tx
               taken == {other \in pool : other.nonce = tx.nonce}
    <3>1. CASE pool' = (pool \ taken) \cup {tx}
      <4>1. tx \in Transaction
        BY <1>1 DEF PublicationInv, PublicationTypes, Transaction, Call
      <4>2. IsFiniteSet(pool \ taken)
        BY <2>1, FS_Difference
      <4>3. IsFiniteSet((pool \ taken) \cup {tx})
        BY <4>2, FS_AddElement
      <4> QED
        BY <2>1, <3>1, <4>1, <4>3
    <3> QED
      BY <2>2, <2>3, <3>1 DEF Publication!Send
  <2> QED
    BY <2>2, <2>3 DEF Publication!Expire, Publication!CheckNonce, Publication!Await,
       Publication!GiveUp, Publication!ReadRelease, Publication!Retry, Publication!nodeVars
<1>3. \E to \in {"signed", "expired", "sending", "waiting", "included", "submitted", "failed"} :
        /\ operator' = [operator EXCEPT ![o].step = to]
        /\ to \in {"included", "submitted"} => \E r \in receipt : r.tx = operator[o].tx /\ r.ok
  <2>1. CASE Publication!Await(o)
    <3>1. PICK r \in receipt : /\ r.tx = operator[o].tx
                               /\ operator' = [operator EXCEPT ![o].step =
                                                IF r.ok THEN "included" ELSE "failed"]
      BY <2>1 DEF Publication!Await, Publication!ReceiptOf, Publication!To
    <3> QED
      BY <3>1
  <2>2. CASE Publication!ReadRelease(o)
    <3>1. \E r \in receipt : r.tx = operator[o].tx /\ r.ok
      BY <2>2 DEF Publication!ReadRelease, Publication!At, PublicationInv
    <3> QED
      BY <2>2, <3>1 DEF Publication!ReadRelease, Publication!To
  <2>3. CASE \/ Publication!Expire(o) \/ Publication!CheckNonce(o) \/ Publication!Send(o)
             \/ Publication!GiveUp(o) \/ Publication!Retry(o)
    <3>1. \E to \in {"signed", "expired", "sending", "waiting", "failed"} :
            operator' = [operator EXCEPT ![o].step = to]
      BY <2>3 DEF Publication!Expire, Publication!CheckNonce, Publication!Send,
         Publication!GiveUp, Publication!Retry, Publication!To
    <3> QED
      BY <3>1
  <2> QED
    BY <2>1, <2>2, <2>3
<1> QED
  BY <1>1, <1>2, <1>3, OperatorGoesOn

LEMMA PlanIsSigned ==
  ASSUME PublicationInv, NEW o \in Operator, Publication!Plan(o)
  PROVE  PublicationInv'
<1>1. /\ UNCHANGED <<registryVars, receipt, pool>> /\ Cardinality(receipt) \in Nat
      /\ MaxNonce \in Nat
  BY FS_CardinalityType, PublicationAssumption
     DEF Publication!Plan, Publication!nodeVars, registryVars, PublicationInv, PublicationTypes
<1>2. PICK call \in Publication!Publish, nonce \in Nat :
        operator' = [operator EXCEPT ![o] =
                       [step |-> "signed", tx |-> [nonce |-> nonce, call |-> call]]]
  <2>1. PICK call \in Publication!Publish, nonce \in Publication!Count .. MaxNonce - 1 :
          operator' = [operator EXCEPT ![o] =
                         [step |-> "signed", tx |-> [nonce |-> nonce, call |-> call]]]
    BY DEF Publication!Plan
  <2>2. Publication!Count \in Nat
    BY <1>1, SameCount DEF Publication!Count
  <2>3. nonce \in Nat
    BY <1>1, <2>2
  <2> QED
    BY <2>1, <2>3
<1>3. /\ operator'[o] = [step |-> "signed", tx |-> [nonce |-> nonce, call |-> call]]
      /\ \A other \in Operator \ {o} : operator'[other] = operator[other]
  BY <1>2 DEF PublicationInv, PublicationTypes
<1>4. PublicationTypes'
  BY <1>1, <1>2 DEF PublicationInv, PublicationTypes, Call
<1>5. RegistryInv'
  BY <1>1, InvNext DEF PublicationInv
<1>6. \A c : Published(c)' = Published(c)
  BY <1>1 DEF registryVars, Published, Released
<1> QED
  BY <1>1, <1>3, <1>4, <1>5, <1>6 DEF PublicationInv

\* The wallet sends, or the node forgets: only the pool changes.
LEMMA PoolKeeps ==
  ASSUME PublicationInv, Publication!WalletSends \/ Publication!Drop
  PROVE  PublicationInv'
<1>1. UNCHANGED <<registryVars, receipt, operator>>
  BY DEF Publication!WalletSends, Publication!Drop, registryVars
<1>2. pool \subseteq Transaction /\ IsFiniteSet(pool)
  BY DEF PublicationInv, PublicationTypes
<1>3. pool' \subseteq Transaction /\ IsFiniteSet(pool')
  <2>1. CASE Publication!Drop
    <3>1. PICK tx \in pool : pool' = pool \ {tx}
      BY <2>1 DEF Publication!Drop
    <3> QED
      BY <1>2, <3>1, FS_RemoveElement
  <2>2. CASE Publication!WalletSends
    <3>1. PICK call \in Publication!Change :
            pool' = pool \cup {[nonce |-> Publication!PendingCount, call |-> call]}
      BY <2>2 DEF Publication!WalletSends
    <3>2. Publication!PendingCount \in Nat
      BY <1>2, SameCount, FS_CardinalityType
         DEF Publication!PendingCount, Publication!Count, PublicationInv, PublicationTypes
    <3>3. [nonce |-> Publication!PendingCount, call |-> call] \in Transaction
      BY <3>2 DEF Transaction, Call
    <3> QED
      BY <1>2, <3>1, <3>3, FS_AddElement
  <2> QED
    BY <2>1, <2>2
<1>4. PublicationTypes'
  BY <1>1, <1>3 DEF PublicationInv, PublicationTypes
<1>5. RegistryInv'
  BY <1>1, InvNext DEF PublicationInv
<1>6. \A c : Published(c)' = Published(c)
  BY <1>1 DEF registryVars, Published, Released
<1> QED
  BY <1>1, <1>4, <1>5, <1>6 DEF PublicationInv

\* A transaction gets into a block: its nonce is a new one, and if it publishes, the
\* registry has its release from then on.
LEMMA IncludeKeeps ==
  ASSUME PublicationInv, Publication!Include
  PROVE  PublicationInv'
<1>t. /\ receipt \subseteq [tx : Transaction, ok : BOOLEAN] /\ IsFiniteSet(receipt)
      /\ pool \subseteq Transaction /\ IsFiniteSet(pool)
      /\ Cardinality(receipt) \in Nat
  BY FS_CardinalityType DEF PublicationInv, PublicationTypes
<1>1. PICK tx \in pool :
        /\ tx.nonce = Cardinality(receipt)
        /\ \/ Publication!Execute(tx.call)
           \/ ~Publication!Accepts(tx.call) /\ UNCHANGED registryVars
        /\ receipt' = receipt \cup {[tx |-> tx, ok |-> Publication!Accepts(tx.call)]}
        /\ pool' = pool \ {tx} /\ operator' = operator
  BY SameCount DEF Publication!Include, Publication!Count, Publication!registryVars, registryVars
<1> DEFINE ok == Publication!Accepts(tx.call)
           new == [tx |-> tx, ok |-> ok]
<1>2. tx \in Transaction /\ tx.call \in Call /\ tx.nonce \in Nat
  BY <1>t DEF Transaction
<1>3. [RegistryNext]_registryVars
  BY <1>1, <1>2, ExecutesACall
<1>4. RegistryInv'
  BY <1>3, InvNext DEF PublicationInv
<1>5. ok \in BOOLEAN
  BY DEF Publication!Accepts, Publication!CanPublish, Publication!CanBeCurrent,
     Publication!CanChange
<1> HIDE DEF ok
<1>6. /\ new \notin receipt /\ IsFiniteSet(receipt')
      /\ Cardinality(receipt') = Cardinality(receipt) + 1
  <2>1. new \notin receipt
    BY <1>t, <1>1 DEF PublicationInv
  <2> QED
    BY <1>t, <1>1, <2>1, FS_AddElement DEF ok
<1>7. PublicationTypes'
  <2>1. receipt' \subseteq [tx : Transaction, ok : BOOLEAN]
    BY <1>t, <1>1, <1>2, <1>5 DEF ok
  <2>2. pool' \subseteq Transaction /\ IsFiniteSet(pool')
    BY <1>t, <1>1, FS_RemoveElement
  <2> QED
    BY <1>1, <1>6, <2>1, <2>2 DEF PublicationInv, PublicationTypes
<1>8. ASSUME NEW r \in receipt, r.ok, r.tx.call.op = "publish"
      PROVE  Published(r.tx.call)'
  <2>1. r.tx.call.version \in Version
    BY <1>t, PublicationAssumption
       DEF Transaction, Call, Publication!Publish, Publication!Change
  <2> QED
    BY <1>3, <1>8, <2>1, PublishedIsKept DEF PublicationInv
<1>9. ASSUME ok, tx.call.op = "publish"
      PROVE  Published(tx.call)'
  <2>1. publishRelease(tx.call.version, tx.call.package, tx.call.other)
    BY <1>1, <1>9 DEF ok, Publication!Execute, Publication!publishRelease, publishRelease,
       Publication!CanPublish, CanPublish, Publication!Released, Released
  <2>2. tx.call.version \in Version
    BY <1>2, PublicationAssumption DEF Call, Publication!Publish, Publication!Change
  <2> QED
    BY <2>1, <2>2 DEF publishRelease, Published, Released, PublicationInv, RegistryInv,
       RegistryTypeOK
<1>10. ASSUME NEW r \in receipt'
       PROVE  /\ r.tx.nonce < Cardinality(receipt')
              /\ \A other \in receipt' : other.tx.nonce = r.tx.nonce => other = r
              /\ r.ok /\ r.tx.call.op = "publish" => Published(r.tx.call)'
  <2>1. receipt' = receipt \cup {new} /\ new.tx.nonce = Cardinality(receipt)
    BY <1>1 DEF ok
  <2>2. \A s \in receipt : /\ s.tx.nonce < Cardinality(receipt)
                           /\ \A other \in receipt : other.tx.nonce = s.tx.nonce => other = s
    BY DEF PublicationInv
  <2>3. \A s \in receipt : s.tx.nonce \in Nat
    BY <1>t DEF Transaction
  <2>4. r.tx.nonce < Cardinality(receipt')
    BY <1>t, <1>6, <2>1, <2>2, <2>3
  <2>5. \A other \in receipt' : other.tx.nonce = r.tx.nonce => other = r
    BY <1>t, <2>1, <2>2, <2>3
  <2>6. r.ok /\ r.tx.call.op = "publish" => Published(r.tx.call)'
    BY <1>8, <1>9, <2>1
  <2> QED
    BY <2>4, <2>5, <2>6
<1>11. receipt \subseteq receipt'
  BY <1>1
<1> QED
  BY <1>1, <1>4, <1>7, <1>10, <1>11 DEF PublicationInv

LEMMA PublicationBegins == Publication!Init => PublicationInv
<1> SUFFICES ASSUME Publication!Init PROVE PublicationInv
  OBVIOUS
<1>1. RegistryInit
  BY DEF Publication!Init, Publication!RegistryInit, RegistryInit, Publication!NoRelease, NoRelease
<1>2. RegistryInv
  BY <1>1, InvInit
<1>3. /\ operator = [o \in Operator |-> [step |-> "idle", tx |-> Publication!NoTx]]
      /\ pool = {} /\ receipt = {}
  BY DEF Publication!Init
<1>4. PublicationTypes
  BY <1>3, FS_EmptySet, PublicationAssumption DEF PublicationTypes, Publication!NoTx
<1> QED
  BY <1>2, <1>3, <1>4 DEF PublicationInv

LEMMA PublicationNext ==
  PublicationInv /\ [Publication!Next]_(Publication!vars) => PublicationInv'
<1> SUFFICES ASSUME PublicationInv, [Publication!Next]_(Publication!vars)
             PROVE  PublicationInv'
  OBVIOUS
<1>1. CASE UNCHANGED Publication!vars
  <2>1. UNCHANGED <<registryVars, operator, pool, receipt>>
    BY <1>1 DEF Publication!vars, registryVars
  <2>2. RegistryInv'
    BY <2>1, InvNext DEF PublicationInv
  <2>3. \A c : Published(c)' = Published(c)
    BY <2>1 DEF registryVars, Published, Released
  <2> QED
    BY <2>1, <2>2, <2>3 DEF PublicationInv, PublicationTypes
<1>2. CASE Publication!Next
  BY <1>2, PlanIsSigned, OperatorKeeps, PoolKeeps, IncludeKeeps DEF Publication!Next
<1> QED
  BY <1>1, <1>2

\* The publication's inductive invariant holds.
THEOREM PublicationInvariant == Publication!Spec => []PublicationInv
  BY PublicationBegins, PublicationNext, PTL DEF Publication!Spec

\* Operators, the wallet and the node do to the registry what its contract does, so
\* what is proved of the registry holds while releases are published into it.
THEOREM PublicationKeepsTheRegistry == Publication!Spec => RegistrySpec
<1>1. Publication!Init => RegistryInit
  BY DEF Publication!Init, Publication!RegistryInit, RegistryInit, Publication!NoRelease, NoRelease
<1>2. PublicationInv /\ [Publication!Next]_(Publication!vars) => [RegistryNext]_registryVars
  BY StepsOfTheRegistry DEF PublicationInv
<1> QED
  BY <1>1, <1>2, PublicationInvariant, PTL DEF Publication!Spec, RegistrySpec

\* submit_signed_transaction_plan: whoever is told that its release was published has
\* published it, and of two operators with one nonce only one is told so, whatever
\* was retried, replaced, dropped or lost on the way.
THEOREM SubmittedArePublished == Publication!Spec => []SubmittedIsPublished
<1>1. PublicationInv => SubmittedIsPublished
  <2> SUFFICES ASSUME PublicationInv, NEW o \in Operator, Publication!At(o, "submitted")
               PROVE  LET tx == operator[o].tx IN
                      /\ \E r \in receipt : r.tx = tx /\ r.ok
                      /\ release[tx.call.version].package = tx.call.package
                      /\ release[tx.call.version].previous = tx.call.other
                      /\ \A other \in Operator :
                           Publication!At(other, "submitted") /\ operator[other].tx.nonce = tx.nonce =>
                             operator[other].tx = tx
    BY DEF SubmittedIsPublished, Publication!SubmittedIsPublished
  <2>1. ASSUME NEW q \in Operator, Publication!At(q, "submitted")
        PROVE  \E r \in receipt : r.tx = operator[q].tx /\ r.ok
    BY <2>1 DEF PublicationInv, Publication!At
  <2>2. operator[o].tx.call.op = "publish"
    BY DEF PublicationInv, Publication!At, Publication!Publish
  <2> QED
    BY <2>1, <2>2 DEF PublicationInv, Published
<1> QED
  BY <1>1, PublicationInvariant, PTL
=============================================================================
