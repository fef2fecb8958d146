------------------------- MODULE ReleasePublication --------------------------
(***************************************************************************)
(* A release on its way into the SkillRegistry: operators build a plan for *)
(* a transaction, have it signed and submit it; the node keeps it until it *)
(* is in a block; the publisher's wallet sends transactions of its own     *)
(* from the same account. A transaction is identified by its contents.     *)
(***************************************************************************)
EXTENDS SkillRegistry

CONSTANTS
    Operator,
    Planned,       \* the versions they and the wallet work on
    MaxNonce,      \* bound: transactions of the account
    MaxFaults      \* bound: lost answers, dropped transactions and retries

VARIABLES
    operator,      \* each operator's plan, and how far its submission is
    pool,          \* the node's pending transactions
    receipt,       \* transactions in blocks, and whether they were reverted
    faults

vars == <<release, current, operator, pool, receipt, faults>>

nodeVars == <<release, current, pool, receipt>>

Publish == [op : {"publish"}, version : Planned, package : Package,
            other : Version \cup {NoVersion}]

\* What the publisher's wallet calls besides.
Change == [op : {"deprecated", "revoked", "active", "current"}, version : Planned,
           package : {NoPackage}, other : {NoVersion}]

NoCall == [op |-> "none", version |-> NoVersion, package |-> NoPackage, other |-> NoVersion]

NoTx == [nonce |-> MaxNonce, call |-> NoCall]

Count == Cardinality(receipt)

\* get_transaction_count(account, "pending").
PendingCount == Count + Cardinality(pool)

Fault == faults < MaxFaults /\ faults' = faults + 1

At(o, step) == operator[o].step = step

To(o, step) == operator' = [operator EXCEPT ![o].step = step]

-----------------------------------------------------------------------------
(* Operators                                                               *)

\* build_registry_publish_plan and sign_transaction_plan: the nonce is the
\* operator's choice.
Plan(o) ==
    /\ At(o, "idle")
    /\ \E call \in Publish, nonce \in Count .. MaxNonce - 1 :
         operator' = [operator EXCEPT ![o] =
                        [step |-> "signed", tx |-> [nonce |-> nonce, call |-> call]]]
    /\ UNCHANGED <<nodeVars, faults>>

\* validate_transaction_plan: it has expired before it is sent.
Expire(o) ==
    /\ At(o, "signed")
    /\ To(o, "expired")
    /\ UNCHANGED <<nodeVars, faults>>

NextFree(nonce) == nonce = PendingCount

\* submit_signed_transaction_plan, up to the nonce.
CheckNonce(o) ==
    /\ At(o, "signed")
    /\ To(o, IF NextFree(operator[o].tx.nonce) THEN "sending" ELSE "failed")
    /\ UNCHANGED <<nodeVars, faults>>

\* The node refuses a nonce that is used and a transaction it has; one with a
\* nonce that is pending replaces the other or is refused.
Send(o) ==
    /\ At(o, "sending")
    /\ LET tx    == operator[o].tx
           taken == {other \in pool : other.nonce = tx.nonce}
       IN \/ /\ tx.nonce >= Count
             /\ tx \notin pool
             /\ pool' = (pool \ taken) \cup {tx}
             /\ \/ To(o, "waiting") /\ UNCHANGED faults
                \/ To(o, "failed") /\ Fault
          \/ /\ tx.nonce < Count \/ taken # {}
             /\ To(o, "failed")
             /\ UNCHANGED <<pool, faults>>
    /\ UNCHANGED <<release, current, receipt>>

ReceiptsAtNonce(tx) == {r \in receipt : r.tx.nonce = tx.nonce}

\* wait_for_transaction_receipt looks for the transaction, by its hash.
ReceiptOf(tx) == {r \in receipt : r.tx = tx}

Await(o) ==
    /\ At(o, "waiting")
    /\ \E r \in ReceiptOf(operator[o].tx) :
         To(o, IF r.ok THEN "included" ELSE "failed")
    /\ UNCHANGED <<nodeVars, faults>>

\* No receipt in time; of a transaction that was replaced or dropped, never.
GiveUp(o) ==
    /\ At(o, "waiting")
    /\ ReceiptOf(operator[o].tx) = {}
    /\ To(o, "failed")
    /\ UNCHANGED <<nodeVars, faults>>

\* The release in the block of the receipt, in which later transactions may have
\* changed its status already.
ReadRelease(o) ==
    /\ At(o, "included")
    /\ \/ To(o, "submitted")
       \/ ~CanBeCurrent(operator[o].tx.call.version) /\ To(o, "failed")
    /\ UNCHANGED <<nodeVars, faults>>

\* The same signed file is submitted again.
Retry(o) ==
    /\ At(o, "failed")
    /\ Fault
    /\ To(o, "signed")
    /\ UNCHANGED nodeVars

-----------------------------------------------------------------------------
(* The node, the wallet, and who verifies a package                        *)

WalletSends ==
    /\ PendingCount < MaxNonce
    /\ \E call \in Change :
         pool' = pool \cup {[nonce |-> PendingCount, call |-> call]}
    /\ UNCHANGED <<release, current, operator, receipt, faults>>

Execute(call) ==
    CASE call.op = "publish" -> publishRelease(call.version, call.package, call.other)
      [] call.op = "current" -> setCurrentVersion(call.version)
      [] OTHER               -> setReleaseStatus(call.version, call.op, call.other)

Accepts(call) ==
    CASE call.op = "publish" -> CanPublish(call.version, call.other)
      [] call.op = "current" -> CanBeCurrent(call.version)
      [] OTHER               -> CanChange(call.version, call.op, call.other)

\* The next transaction of the account, in a block of its own or in the last.
Include ==
    \E tx \in pool :
       /\ tx.nonce = Count
       /\ \/ Execute(tx.call)
          \/ ~Accepts(tx.call) /\ UNCHANGED registryVars
       /\ receipt' = receipt \cup {[tx |-> tx, ok |-> Accepts(tx.call)]}
       /\ pool' = pool \ {tx}
       /\ UNCHANGED <<operator, faults>>

\* The node forgets the last transaction it has not included.
Drop ==
    /\ Fault
    /\ \E tx \in pool :
         /\ \A other \in pool : other.nonce <= tx.nonce
         /\ pool' = pool \ {tx}
    /\ UNCHANGED <<release, current, operator, receipt>>

-----------------------------------------------------------------------------
Init ==
    /\ RegistryInit
    /\ operator = [o \in Operator |-> [step |-> "idle", tx |-> NoTx]]
    /\ pool = {}
    /\ receipt = {}
    /\ faults = 0

Next ==
    \/ \E o \in Operator :
         \/ Plan(o) \/ Expire(o) \/ CheckNonce(o) \/ Send(o)
         \/ Await(o) \/ GiveUp(o) \/ ReadRelease(o) \/ Retry(o)
    \/ WalletSends \/ Include \/ Drop

Spec == Init /\ [][Next]_vars

-----------------------------------------------------------------------------
(* Properties                                                              *)

\* Two operators who plan with the same nonce are never both told that their
\* release was published; whoever is told so, its own release was the one that
\* got into a block, whatever was retried, replaced or dropped on the way.
SubmittedIsPublished ==
    \A o \in Operator : At(o, "submitted") =>
       LET tx == operator[o].tx IN
       /\ \E r \in receipt : r.tx = tx /\ r.ok
       /\ release[tx.call.version].package = tx.call.package
       /\ release[tx.call.version].previous = tx.call.other
       /\ \A other \in Operator :
            At(other, "submitted") /\ operator[other].tx.nonce = tx.nonce =>
              operator[other].tx = tx
=============================================================================
