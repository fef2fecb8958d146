----------------------------- MODULE Governance -----------------------------
(***************************************************************************)
(* The contracts of the governance lab: WitnessDAO, where registered       *)
(* witnesses vote on a proposal of the corporate admin, CorporateSink, the *)
(* schedule that opens the window for proposals and the compensation       *)
(* ledger, and StreamingEngine, the balance PublicSink shows, which        *)
(* accrues per second at a rate the witnesses set.                         *)
(*                                                                         *)
(* Every action is a transaction. One that reverts changes nothing and has *)
(* no action: neither a batch with one bad item nor a call of anyone but   *)
(* the one it is meant for. What a signature binds (payload, nonce,        *)
(* deadline) only decides whether its item is bad and is left out.         *)
(***************************************************************************)
EXTENDS Integers, Sequences, FiniteSets, Functions

CONSTANTS
    Witness,
    Relayer,                \* who submits the batches
    Hash, NoHash,           \* certificate hashes, and "not uploaded"
    minValidVotes, approvalThresholdBps,
    VotingPeriod,           \* VOTING_PERIOD
    minBroadcastInterval, broadcastWindow,
    ratePerUser, initialUserCount,
    MaxUint,                \* 2^256 - 1: arithmetic beyond it reverts
    UserCount, Amount,      \* what proposals ask for
    GasCost, RefundCap,     \* cost of a batch, maxWeiPerCall
    MaxTime,                \* bound: block.timestamp
    MaxProposals,           \* bound: proposals
    MaxBroadcasts,          \* bound: broadcasts
    MaxFunds                \* bound: the DAO's ether

ASSUME GovernanceAssumption ==
    /\ IsFiniteSet(Witness) /\ IsFiniteSet(Relayer)   \* addresses
    /\ NoHash \notin Hash
    /\ minValidVotes \in Nat \ {0}
    /\ approvalThresholdBps \in 1 .. 10000
    /\ {VotingPeriod, minBroadcastInterval, broadcastWindow, ratePerUser,
        initialUserCount, MaxUint, MaxTime, MaxProposals, MaxBroadcasts, MaxFunds}
         \subseteq Nat
    /\ UNION {UserCount, Amount, GasCost, RefundCap} \subseteq Nat
    /\ initialUserCount * ratePerUser <= MaxUint

ProposalId == 1 .. MaxProposals

Proposal == [kind : {"user_count", "compensation"}, value : Nat, createdAt : Nat,
             totalVotes : Nat, supportVotes : Nat, active : BOOLEAN,
             executed : BOOLEAN]

\* The zero value of a mapping.
NoProposal == [kind |-> "user_count", value |-> 0, createdAt |-> 0,
               totalVotes |-> 0, supportVotes |-> 0, active |-> FALSE,
               executed |-> FALSE]

VARIABLES
    now,                    \* block.timestamp
    \* CorporateSink
    nextBroadcastTime, broadcasts, compensation, sinkDAO,
    \* StreamingEngine
    checkpointTime, baseBalance, rate, engineDAO,
    \* WitnessDAO
    activeProposalId, nextProposalId, proposals, hasVoted, voteNonces,
    registeredWitnesses,
    \* WitnessDAO, refunds of relayers
    refundMax,              \* relayerRefundMaxWeiPerCall, 0 if not allowed
    refundCredits, totalRefundCredits, balance

sink    == <<nextBroadcastTime, broadcasts, sinkDAO>>
engine  == <<checkpointTime, baseBalance, rate>>
ballot  == <<activeProposalId, nextProposalId, proposals, hasVoted, voteNonces>>
refunds == <<refundMax, refundCredits, totalRefundCredits, balance>>
vars    == <<now, sink, compensation, engine, engineDAO, ballot,
             registeredWitnesses, refunds>>

-----------------------------------------------------------------------------
(* StreamingEngine                                                         *)

\* getCurrentBalance, and getTotalUTO of PublicSink.
CurrentBalance == baseBalance + (now - checkpointTime) * rate

UpdateRateOnly(newUserCount) ==
    /\ engineDAO
    /\ rate' = newUserCount * ratePerUser
    /\ UNCHANGED <<baseBalance, checkpointTime>>

UpdateFromBroadcast(newUserCount) ==
    /\ engineDAO
    /\ baseBalance' = CurrentBalance
    /\ checkpointTime' = nextBroadcastTime
    /\ rate' = newUserCount * ratePerUser

\* What has accrued is kept, and the new rate counts from now.
UpdateUserCount(newUserCount) ==
    /\ engineDAO
    /\ CurrentBalance <= MaxUint
    /\ newUserCount * ratePerUser <= MaxUint
    /\ baseBalance' = CurrentBalance
    /\ checkpointTime' = now
    /\ rate' = newUserCount * ratePerUser

-----------------------------------------------------------------------------
(* CorporateSink                                                           *)

RecordCompensation(amount) ==
    /\ sinkDAO
    /\ compensation + amount <= MaxUint
    /\ compensation' = compensation + amount

NotPast(timestamp) == timestamp >= now

\* Neither past nor too soon after the broadcast scheduled last.
MayBroadcast(timestamp) ==
    /\ timestamp >= now
    /\ \/ nextBroadcastTime = 0
       \/ timestamp >= nextBroadcastTime + minBroadcastInterval

ScheduleBroadcast(timestamp) ==
    /\ Len(broadcasts) < MaxBroadcasts
    /\ MayBroadcast(timestamp)
    /\ nextBroadcastTime' = timestamp
    /\ broadcasts' = Append(broadcasts, [timestamp |-> timestamp, certificate |-> NoHash])
    /\ UNCHANGED <<now, sinkDAO, compensation, engine, engineDAO, ballot,
                   registeredWitnesses, refunds>>

UploadCertificate(index, hash) ==
    /\ now >= broadcasts[index].timestamp
    /\ broadcasts[index].certificate = NoHash
    /\ broadcasts' = [broadcasts EXCEPT ![index].certificate = hash]
    /\ UNCHANGED <<now, nextBroadcastTime, sinkDAO, compensation, engine,
                   engineDAO, ballot, registeredWitnesses, refunds>>

BroadcastBegun(timestamp) == nextBroadcastTime # 0 /\ timestamp >= nextBroadcastTime

\* isProposalWindowOpen. A broadcast scheduled for later closes the window of
\* the one before it.
WindowOpen(timestamp) ==
    /\ nextBroadcastTime # 0
    /\ timestamp >= nextBroadcastTime
    /\ timestamp <= nextBroadcastTime + broadcastWindow

\* setWitnessDAO of the two contracts, each once.
SetEngineDAO ==
    /\ ~engineDAO
    /\ engineDAO' = TRUE
    /\ UNCHANGED <<now, sink, compensation, engine, ballot, registeredWitnesses,
                   refunds>>

SetSinkDAO ==
    /\ ~sinkDAO
    /\ sinkDAO' = TRUE
    /\ UNCHANGED <<now, nextBroadcastTime, broadcasts, compensation, engine,
                   engineDAO, ballot, registeredWitnesses, refunds>>

-----------------------------------------------------------------------------
(* WitnessDAO: refunds                                                     *)

WholeBalance == balance

AvailableBalance == balance - totalRefundCredits

Least(m, n) == IF m <= n THEN m ELSE n

\* _creditRelayerRefund: the cost of the batch, within the relayer's cap and
\* what is not credited yet.
CreditRelayerRefund(relayer) ==
    \E cost \in GasCost :
        LET refund == Least(Least(cost, refundMax[relayer]), AvailableBalance) IN
          /\ refundCredits' = [refundCredits EXCEPT ![relayer] = @ + refund]
          /\ totalRefundCredits' = totalRefundCredits + refund
          /\ UNCHANGED <<refundMax, balance>>

SetRelayerRefundPolicy(relayer, max) ==
    /\ refundMax' = [refundMax EXCEPT ![relayer] = max]
    /\ UNCHANGED <<now, sink, compensation, engine, engineDAO, ballot,
                   registeredWitnesses, refundCredits, totalRefundCredits, balance>>

\* The credit is cleared before the ether leaves, so a call made from within
\* the transfer is one made after it.
WithdrawRelayerRefund(relayer) ==
    LET amount == refundCredits[relayer] IN
      /\ amount <= totalRefundCredits
      /\ amount <= balance
      /\ refundCredits' = [refundCredits EXCEPT ![relayer] = 0]
      /\ totalRefundCredits' = totalRefundCredits - amount
      /\ balance' = balance - amount
      /\ UNCHANGED <<now, sink, compensation, engine, engineDAO, ballot,
                     registeredWitnesses, refundMax>>

\* receive().
Receive(amount) ==
    /\ balance + amount <= MaxFunds
    /\ balance' = balance + amount
    /\ UNCHANGED <<now, sink, compensation, engine, engineDAO, ballot,
                   registeredWitnesses, refundMax, refundCredits,
                   totalRefundCredits>>

-----------------------------------------------------------------------------
(* WitnessDAO: registration, proposals and votes                           *)

BatchRegister(relayer, witnesses) ==
    /\ witnesses # {}
    /\ witnesses \cap registeredWitnesses = {}
    /\ registeredWitnesses' = registeredWitnesses \cup witnesses
    /\ CreditRelayerRefund(relayer)
    /\ UNCHANGED <<now, sink, compensation, engine, engineDAO, ballot>>

Exists(id) == id \in ProposalId /\ id < nextProposalId

Open(id) == id \in ProposalId /\ proposals[id].active

VotingDeadline(id) == proposals[id].createdAt + VotingPeriod

AlwaysFree == TRUE

\* Only one proposal is voted on at a time, the expired one included.
NothingOpen == ~Open(activeProposalId)

\* proposeUserCount and proposeCompensation.
Propose(kind, value) ==
    /\ nextProposalId <= MaxProposals
    /\ WindowOpen(now)
    /\ NothingOpen
    /\ nextProposalId' = nextProposalId + 1
    /\ activeProposalId' = nextProposalId
    /\ proposals' = [proposals EXCEPT ![nextProposalId] =
                       [kind |-> kind, value |-> value, createdAt |-> now,
                        totalVotes |-> 0, supportVotes |-> 0, active |-> TRUE,
                        executed |-> FALSE]]
    /\ UNCHANGED <<now, sink, compensation, engine, engineDAO, hasVoted,
                   voteNonces, registeredWitnesses, refunds>>

PassedByMore(p) ==
    /\ p.totalVotes >= minValidVotes
    /\ p.supportVotes * 10000 > p.totalVotes * approvalThresholdBps

Passed(p) ==
    /\ p.totalVotes >= minValidVotes
    /\ p.supportVotes * 10000 >= p.totalVotes * approvalThresholdBps

\* _execute: p is closed, and what it asks for is done in the same transaction.
Execute(id, p) ==
    /\ proposals' = [proposals EXCEPT ![id] = [p EXCEPT !.active = FALSE,
                                                          !.executed = TRUE]]
    /\ activeProposalId' = 0
    /\ \/ /\ p.kind = "user_count"
          /\ UpdateUserCount(p.value)
          /\ UNCHANGED compensation
       \/ /\ p.kind = "compensation"
          /\ RecordCompensation(p.value)
          /\ UNCHANGED engine

Voters(id) == registeredWitnesses

\* Who may vote on a proposal.
NewVoters(id) == registeredWitnesses \ hasVoted[id]

\* The proposal with the votes of a batch, counted before the result is looked
\* at once.
WithVotes(id, support, against) ==
    [proposals[id] EXCEPT
        !.totalVotes = @ + Cardinality(support \cup against),
        !.supportVotes = @ + Cardinality(support)]

BatchVote(relayer, support, against) ==
    LET id == activeProposalId
        voters == support \cup against
    IN  /\ Open(id)
        /\ now <= VotingDeadline(id)
        /\ voters # {}
        /\ support \cap against = {}
        /\ voters \subseteq NewVoters(id)
        /\ hasVoted' = [hasVoted EXCEPT ![id] = @ \cup voters]
        /\ voteNonces' = [w \in Witness |->
                            IF w \in voters THEN voteNonces[w] + 1 ELSE voteNonces[w]]
        /\ LET p == WithVotes(id, support, against) IN
             \/ /\ Passed(p)
                /\ Execute(id, p)
             \/ /\ ~Passed(p)
                /\ proposals' = [proposals EXCEPT ![id] = p]
                /\ UNCHANGED <<activeProposalId, compensation, engine>>
        /\ CreditRelayerRefund(relayer)
        /\ UNCHANGED <<now, sink, engineDAO, nextProposalId, registeredWitnesses>>

\* An expired proposal that failed is closed. The code would execute one that
\* passed, but DecidedByVotes shows that batchVote has left none.
FinalizeProposal(id) ==
    /\ Open(id)
    /\ now > VotingDeadline(id)
    /\ IF Passed(proposals[id])
       THEN Execute(id, proposals[id])
       ELSE /\ proposals' = [proposals EXCEPT ![id].active = FALSE]
            /\ activeProposalId' = 0
            /\ UNCHANGED <<compensation, engine>>
    /\ UNCHANGED <<now, sink, engineDAO, nextProposalId, hasVoted, voteNonces,
                   registeredWitnesses, refunds>>

-----------------------------------------------------------------------------
\* The timestamp of the next block.
Tick ==
    /\ now' \in (now + 1) .. MaxTime
    /\ UNCHANGED <<sink, compensation, engine, engineDAO, ballot,
                   registeredWitnesses, refunds>>

Init ==
    /\ now = 1
    /\ nextBroadcastTime = 0
    /\ broadcasts = <<>>
    /\ compensation = 0
    /\ sinkDAO = FALSE
    /\ checkpointTime = now
    /\ baseBalance = 0
    /\ rate = initialUserCount * ratePerUser
    /\ engineDAO = FALSE
    /\ activeProposalId = 0
    /\ nextProposalId = 1
    /\ proposals = [id \in ProposalId |-> NoProposal]
    /\ hasVoted = [id \in ProposalId |-> {}]
    /\ voteNonces = [w \in Witness |-> 0]
    /\ registeredWitnesses = {}
    /\ refundMax = [r \in Relayer |-> 0]
    /\ refundCredits = [r \in Relayer |-> 0]
    /\ totalRefundCredits = 0
    /\ balance = 0

Next ==
    \/ Tick
    \/ SetEngineDAO
    \/ SetSinkDAO
    \/ \E timestamp \in 1 .. MaxTime : ScheduleBroadcast(timestamp)
    \/ \E index \in DOMAIN broadcasts, hash \in Hash : UploadCertificate(index, hash)
    \/ \E value \in UserCount : Propose("user_count", value)
    \/ \E value \in Amount : Propose("compensation", value)
    \/ \E id \in ProposalId : FinalizeProposal(id)
    \/ \E relayer \in Relayer :
         \/ \E witnesses \in SUBSET Witness : BatchRegister(relayer, witnesses)
         \/ \E support, against \in SUBSET Witness : BatchVote(relayer, support, against)
         \/ \E max \in RefundCap : SetRelayerRefundPolicy(relayer, max)
         \/ WithdrawRelayerRefund(relayer)
    \/ \E amount \in 1 .. MaxFunds : Receive(amount)

Spec == Init /\ [][Next]_vars

-----------------------------------------------------------------------------
(* Properties                                                              *)

SinkTypeOK ==
    /\ now \in Nat
    /\ nextBroadcastTime \in Nat
    /\ broadcasts \in Seq([timestamp : Nat, certificate : Hash \cup {NoHash}])
    /\ compensation \in Nat
    /\ sinkDAO \in BOOLEAN

EngineTypeOK ==
    /\ checkpointTime \in 0 .. now
    /\ baseBalance \in Nat
    /\ rate \in Nat
    /\ engineDAO \in BOOLEAN

BallotTypeOK ==
    /\ activeProposalId \in 0 .. MaxProposals
    /\ nextProposalId \in 1 .. (MaxProposals + 1)
    /\ proposals \in [ProposalId -> Proposal]
    /\ hasVoted \in [ProposalId -> SUBSET Witness]
    /\ voteNonces \in [Witness -> Nat]
    /\ registeredWitnesses \subseteq Witness

RefundTypeOK ==
    /\ refundMax \in [Relayer -> Nat]
    /\ refundCredits \in [Relayer -> Nat]
    /\ totalRefundCredits \in Nat
    /\ balance \in Nat

\* The type invariant.
TypeOK ==
    /\ SinkTypeOK
    /\ EngineTypeOK
    /\ BallotTypeOK
    /\ RefundTypeOK

\* The proposal on which batchVote takes votes is the only one that is open,
\* whatever proposals were executed, failed or left to expire before it.
OneActive ==
    /\ activeProposalId # 0 => Open(activeProposalId)
    /\ \A id \in ProposalId : Open(id) => id = activeProposalId

\* Every vote of a proposal is that of a registered witness who voted on it
\* once, in one of the witness's nonces.
VotesCounted ==
    /\ \A id \in ProposalId :
         /\ hasVoted[id] \subseteq registeredWitnesses
         /\ proposals[id].totalVotes = Cardinality(hasVoted[id])
         /\ proposals[id].supportVotes <= proposals[id].totalVotes
    /\ \A w \in Witness :
         voteNonces[w] = Cardinality({id \in ProposalId : w \in hasVoted[id]})

\* A proposal is executed exactly when its votes reach the quorum and the
\* threshold: none is executed on fewer, and none that reached them is left
\* open, to be voted down, or closed as failed.
DecidedByVotes ==
    \A id \in ProposalId :
        Exists(id) =>
            LET p == proposals[id] IN
              p.executed <=> /\ p.totalVotes >= minValidVotes
                             /\ p.supportVotes * 10000
                                  >= p.totalVotes * approvalThresholdBps

Executed(kind) == {id \in ProposalId : proposals[id].executed /\ proposals[id].kind = kind}

\* What was done is what was decided, once: the ledger holds the compensations
\* of the executed proposals, and the rate is that of the last user count.
EffectsMatch ==
    /\ compensation = SumFunctionOnSet([id \in ProposalId |-> proposals[id].value],
                                       Executed("compensation"))
    /\ rate = IF Executed("user_count") = {}
              THEN initialUserCount * ratePerUser
              ELSE ratePerUser *
                     proposals[CHOOSE id \in Executed("user_count") :
                                 \A other \in Executed("user_count") : other <= id].value

\* Every proposal was made in the window of a broadcast, even one whose window a
\* later broadcast has closed.
ProposedInWindow ==
    \A id \in ProposalId :
        Exists(id) =>
            \E i \in DOMAIN broadcasts :
                /\ proposals[id].createdAt >= broadcasts[i].timestamp
                /\ proposals[id].createdAt <= broadcasts[i].timestamp + broadcastWindow

\* Broadcasts are in order and never closer than the interval; the window that
\* counts is that of the last one.
BroadcastsSpaced ==
    /\ \A i, j \in DOMAIN broadcasts :
         i < j => broadcasts[i].timestamp + minBroadcastInterval <= broadcasts[j].timestamp
    /\ nextBroadcastTime = IF broadcasts = <<>> THEN 0
                           ELSE broadcasts[Len(broadcasts)].timestamp

\* The contract holds the ether of every credit it has granted.
Solvent == totalRefundCredits <= balance

\* The total the contract keeps is the sum of the credits, which is covered: no
\* relayer's withdrawal can fail because of another's.
CreditsCovered ==
    /\ totalRefundCredits = SumFunction(refundCredits)
    /\ Solvent

\* The balance computed from checkpoints is the one that grows every second.
Accrues == INSTANCE Accrual WITH
    InitialRate <- initialUserCount * ratePerUser,
    time        <- now,
    accrued     <- CurrentBalance

ImplementsAccrual == Accrues!Spec
=============================================================================
