-------------------------- MODULE GovernanceProofs --------------------------
(***************************************************************************)
(* Proofs about Governance for every value of its constants: its types, the*)
(* solvency of the refunds and their sum, the votes, what they decide and  *)
(* what is done for it, the schedule of broadcasts, and that the           *)
(* checkpoints of StreamingEngine implement Accrual.                       *)
(***************************************************************************)
EXTENDS Governance, FiniteSetTheorems, SequenceTheorems, WellFoundedInduction, TLAPS

-----------------------------------------------------------------------------
(* Arithmetic                                                              *)

\* Products of natural numbers are natural numbers.
LEMMA TimesNat == \A m, n \in Nat : m * n \in Nat
  OBVIOUS

\* The values proposals and refunds range over are natural numbers.
LEMMA ValuesAreNat ==
  /\ UserCount \subseteq Nat /\ Amount \subseteq Nat
  /\ GasCost \subseteq Nat /\ RefundCap \subseteq Nat
  /\ ratePerUser \in Nat /\ initialUserCount \in Nat /\ MaxUint \in Nat
  /\ MaxTime \in Nat /\ MaxProposals \in Nat /\ MaxBroadcasts \in Nat
  /\ MaxFunds \in Nat /\ VotingPeriod \in Nat /\ minBroadcastInterval \in Nat
  /\ broadcastWindow \in Nat
<1>1. \A S : S \in {UserCount, Amount, GasCost, RefundCap} => S \subseteq Nat
  BY GovernanceAssumption
<1>2. \A n : n \in {ratePerUser, initialUserCount, MaxUint, MaxTime, MaxProposals,
                    MaxBroadcasts, MaxFunds, VotingPeriod, minBroadcastInterval,
                    broadcastWindow} => n \in Nat
  BY GovernanceAssumption
<1> QED
  BY <1>1, <1>2

\* What has accrued is a natural number.
LEMMA BalanceNat ==
  ASSUME TypeOK
  PROVE  CurrentBalance \in Nat
<1>1. baseBalance \in Nat /\ rate \in Nat /\ now - checkpointTime \in Nat
  BY DEF TypeOK, SinkTypeOK, EngineTypeOK
<1>2. (now - checkpointTime) * rate \in Nat
  BY <1>1, TimesNat
<1> QED
  BY <1>1, <1>2 DEF CurrentBalance

-----------------------------------------------------------------------------
(* Sums over finite sets. The fold of SumFunctionOnSet recurses with an    *)
(* element of its own choice: on a finite set the recursion has a solution,*)
(* only one, in which the order does not matter. Induction is on the size  *)
(* of the set, by a least counterexample.                                  *)

\* The order of the numbers, as a set of pairs.
Earlier == {p \in Nat \X Nat : p[1] < p[2]}

LEMMA EarlierIsWellFounded == IsWellFoundedOn(Earlier, Nat)
BY NatLessThanWellFounded DEF OpToRel, Earlier

\* A set of numbers has a least one.
LEMMA NatMin ==
  ASSUME NEW T \in SUBSET Nat, T # {}
  PROVE  \E n \in T : \A m \in T : n <= m
<1>2. \E x \in T : \A y \in T : ~(<<y, x>> \in Earlier)
  BY EarlierIsWellFounded, WFMin
<1>3. \A x, y \in Nat : (<<y, x>> \in Earlier) <=> y < x
  BY DEF Earlier
<1>4. \A x, y \in Nat : y < x \/ x <= y
  OBVIOUS
<1> QED
  BY <1>2, <1>3, <1>4

\* Induction, as a statement about sets of numbers.
LEMMA NatInd ==
  ASSUME NEW S \in SUBSET Nat, 0 \in S, \A n \in S : n + 1 \in S
  PROVE S = Nat
<1> DEFINE T == Nat \ S
<1>1. SUFFICES ASSUME T # {} PROVE FALSE
  OBVIOUS
<1>2. PICK n \in T : \A m \in T : n <= m
  BY <1>1, NatMin
<1>3. n # 0 /\ n - 1 \in Nat
  OBVIOUS
<1>4. n - 1 \in T
  <2>1. n - 1 \notin S
    BY <1>2, <1>3
  <2> QED BY <2>1, <1>3
<1> QED
  BY <1>2, <1>4, <1>3

\* What SumFunctionOnSet recurses with.
AnyOf(s) == CHOOSE x \in s : TRUE

\* What g must say of s, and f on a finite set.
Recursion(f, g, s) == IF s = {} THEN 0 ELSE f[AnyOf(s)] + g[s \ {AnyOf(s)}]

NatOn(f, U) == IsFiniteSet(U) /\ \A x \in U : f[x] \in Nat

\* g solves the recursion on U; the order does not matter; g adds up parts of U.
Solution(f, U, g) == g \in [SUBSET U -> Nat] /\ \A s \in SUBSET U : g[s] = Recursion(f, g, s)

OrderFree(f, U, g) == \A s \in SUBSET U : \A a \in s : g[s] = f[a] + g[s \ {a}]

AddsUp(f, U, g) ==
    /\ g \in [SUBSET U -> Nat]
    /\ \A s \in SUBSET U : SumFunctionOnSet(f, s) = g[s]
    /\ g[{}] = 0
    /\ OrderFree(f, U, g)

\* The recursion takes an element, which leaves a smaller set.
LEMMA Picked == ASSUME NEW s, s # {} PROVE AnyOf(s) \in s
BY DEF AnyOf

LEMMA Smaller ==
  ASSUME NEW s, IsFiniteSet(s), NEW x \in s
  PROVE  /\ IsFiniteSet(s \ {x}) /\ Cardinality(s) \in Nat
         /\ Cardinality(s \ {x}) \in Nat
         /\ Cardinality(s) = Cardinality(s \ {x}) + 1
<1>1. /\ IsFiniteSet(s \ {x}) /\ Cardinality(s \ {x}) = Cardinality(s) - 1
  BY FS_RemoveElement
<1>2. Cardinality(s) \in Nat /\ Cardinality(s \ {x}) \in Nat
  BY <1>1, FS_CardinalityType
<1> QED
  BY <1>1, <1>2

\* The recursion has a solution on the subsets of a finite set.
LEMMA RecursionHasSolution ==
  ASSUME NEW U, NEW f, NatOn(f, U)
  PROVE  \E g : Solution(f, U, g)
<1>u. IsFiniteSet(U) /\ \A x \in U : f[x] \in Nat
  BY DEF NatOn
<1> DEFINE Solves(g, n) == \A s \in SUBSET U : Cardinality(s) <= n => g[s] = Recursion(f, g, s)
           Solved == {n \in Nat : \E g \in [SUBSET U -> Nat] : Solves(g, n)}
<1>f. \A s \in SUBSET U : IsFiniteSet(s) /\ Cardinality(s) \in Nat
  BY <1>u, FS_Subset, FS_CardinalityType
<1>t. ASSUME NEW g \in [SUBSET U -> Nat], NEW s \in SUBSET U
      PROVE  Recursion(f, g, s) \in Nat
  BY <1>u, Picked DEF Recursion
<1>1. 0 \in Solved
  <2> DEFINE g == [s \in SUBSET U |-> 0]
  <2>1. g \in [SUBSET U -> Nat]
    OBVIOUS
  <2>2. ASSUME NEW s \in SUBSET U, Cardinality(s) <= 0 PROVE g[s] = Recursion(f, g, s)
    <3>1. s = {}
      BY <1>f, <2>2, FS_EmptySet
    <3> QED
      BY <3>1 DEF Recursion
  <2>3. Solves(g, 0)
    BY <2>2
  <2> QED
    BY <2>1, <2>3
<1>2. ASSUME NEW n \in Solved PROVE n + 1 \in Solved
  <2>1. PICK g \in [SUBSET U -> Nat] : Solves(g, n)
    OBVIOUS
  <2> DEFINE h == [s \in SUBSET U |-> Recursion(f, g, s)]
  <2>2. h \in [SUBSET U -> Nat]
    BY <1>t
  <2>3. ASSUME NEW s \in SUBSET U, Cardinality(s) <= n + 1 PROVE h[s] = Recursion(f, h, s)
    <3>1. CASE s = {}
      BY <3>1 DEF Recursion
    <3>2. CASE s # {}
      <4> DEFINE r == s \ {AnyOf(s)}
      <4>1. r \in SUBSET U /\ Cardinality(r) <= n
        <5>1. AnyOf(s) \in s
          BY <3>2, Picked
        <5>2. Cardinality(s) = Cardinality(r) + 1 /\ Cardinality(r) \in Nat
          BY <5>1, <1>f, Smaller
        <5> QED
          BY <2>3, <5>2
      <4>2. g[r] = Recursion(f, g, r)
        BY <2>1, <4>1
      <4>3. h[r] = g[r]
        BY <4>1, <4>2
      <4>4. h[s] = f[AnyOf(s)] + g[r] /\ Recursion(f, h, s) = f[AnyOf(s)] + h[r]
        BY <3>2 DEF Recursion
      <4> QED
        BY <4>3, <4>4
    <3> QED
      BY <3>1, <3>2
  <2>4. Solves(h, n + 1)
    BY <2>3
  <2> HIDE DEF h
  <2> QED
    BY <2>2, <2>4
<1>3. Solved = Nat
  BY <1>1, <1>2, NatInd
<1>4. Cardinality(U) \in Solved
  BY <1>u, <1>3, FS_CardinalityType
<1>5. PICK g \in [SUBSET U -> Nat] : Solves(g, Cardinality(U))
  BY <1>4
<1>6. \A s \in SUBSET U : Cardinality(s) <= Cardinality(U)
  BY <1>u, FS_Subset
<1> QED
  BY <1>5, <1>6 DEF Solution

\* and the solution is one, whatever the function is outside.
LEMMA SolutionsAgree ==
  ASSUME NEW U, IsFiniteSet(U), NEW f, NEW e, \A x \in U : f[x] = e[x],
         NEW g, \A s \in SUBSET U : g[s] = Recursion(f, g, s),
         NEW h, \A s \in SUBSET U : h[s] = Recursion(e, h, s)
  PROVE  \A s \in SUBSET U : g[s] = h[s]
<1> DEFINE Same == {n \in Nat : \A s \in SUBSET U : Cardinality(s) <= n => g[s] = h[s]}
<1>f. \A s \in SUBSET U : IsFiniteSet(s) /\ Cardinality(s) \in Nat
  BY FS_Subset, FS_CardinalityType
<1>e. g[{}] = 0 /\ h[{}] = 0
  BY DEF Recursion
<1>1. 0 \in Same
  <2>1. ASSUME NEW s \in SUBSET U, Cardinality(s) <= 0 PROVE s = {}
    BY <1>f, <2>1, FS_EmptySet
  <2> QED
    BY <1>e, <2>1
<1>2. ASSUME NEW n \in Same PROVE n + 1 \in Same
  <2>1. ASSUME NEW s \in SUBSET U, Cardinality(s) <= n + 1 PROVE g[s] = h[s]
    <3>1. CASE s = {}
      BY <1>e, <3>1
    <3>2. CASE s # {}
      <4> DEFINE r == s \ {AnyOf(s)}
      <4>1. AnyOf(s) \in s
        BY <3>2, Picked
      <4>2. Cardinality(s) = Cardinality(r) + 1 /\ Cardinality(r) \in Nat
        BY <4>1, <1>f, Smaller
      <4>3. r \in SUBSET U /\ Cardinality(r) <= n
        BY <2>1, <4>2
      <4>4. g[r] = h[r] /\ f[AnyOf(s)] = e[AnyOf(s)]
        BY <4>1, <4>3
      <4>5. g[s] = f[AnyOf(s)] + g[r] /\ h[s] = e[AnyOf(s)] + h[r]
        BY <3>2 DEF Recursion
      <4> QED
        BY <4>4, <4>5
    <3> QED
      BY <3>1, <3>2
  <2> QED
    BY <2>1
<1>3. Same = Nat
  BY <1>1, <1>2, NatInd
<1> QED
  BY <1>f, <1>3

\* The order in which the elements are picked does not matter.
LEMMA AnyOrder ==
  ASSUME NEW U, NEW f, NatOn(f, U), NEW g, Solution(f, U, g)
  PROVE  OrderFree(f, U, g)
<1> DEFINE Free == {n \in Nat : \A s \in SUBSET U : Cardinality(s) <= n =>
                                  \A a \in s : g[s] = f[a] + g[s \ {a}]}
<1>u. /\ IsFiniteSet(U) /\ \A x \in U : f[x] \in Nat
      /\ g \in [SUBSET U -> Nat] /\ \A s \in SUBSET U : g[s] = Recursion(f, g, s)
  BY DEF NatOn, Solution
<1>f. \A s \in SUBSET U : IsFiniteSet(s) /\ Cardinality(s) \in Nat
  BY <1>u, FS_Subset, FS_CardinalityType
<1>1. 0 \in Free
  <2>1. ASSUME NEW s \in SUBSET U, Cardinality(s) <= 0 PROVE s = {}
    BY <1>f, <2>1, FS_EmptySet
  <2> QED
    BY <2>1
<1>2. ASSUME NEW n \in Free PROVE n + 1 \in Free
  <2>i. \A s \in SUBSET U : Cardinality(s) <= n => \A a \in s : g[s] = f[a] + g[s \ {a}]
    OBVIOUS
  <2>1. ASSUME NEW s \in SUBSET U, Cardinality(s) <= n + 1, NEW a \in s
        PROVE  g[s] = f[a] + g[s \ {a}]
    <3> DEFINE x == AnyOf(s)
               r == s \ {x}
               t == s \ {a}
               b == s \ {x, a}
    <3>1. x \in s /\ g[s] = f[x] + g[r]
      BY <1>u, Picked DEF Recursion
    <3>2. CASE x = a
      BY <3>1, <3>2
    <3>3. CASE x # a
      <4>1. Cardinality(r) <= n /\ Cardinality(t) <= n
        <5>1. /\ Cardinality(s) = Cardinality(r) + 1 /\ Cardinality(r) \in Nat
              /\ Cardinality(s) = Cardinality(t) + 1 /\ Cardinality(t) \in Nat
          BY <3>1, <1>f, Smaller
        <5> QED
          BY <2>1, <5>1
      <4>2. r \in SUBSET U /\ t \in SUBSET U /\ b \in SUBSET U
        OBVIOUS
      <4>3. a \in r /\ r \ {a} = b /\ x \in t /\ t \ {x} = b
        BY <3>1, <3>3
      <4>4. g[r] = f[a] + g[b]
        <5> HIDE DEF r, b
        <5> QED
          BY <2>i, <4>1, <4>2, <4>3
      <4>5. g[t] = f[x] + g[b]
        <5> HIDE DEF x, t, b
        <5> QED
          BY <2>i, <4>1, <4>2, <4>3
      <4>6. f[x] \in Nat /\ f[a] \in Nat /\ g[b] \in Nat
        BY <1>u, <3>1, <4>2
      <4> HIDE DEF x, r, t, b
      <4>7. g[s] = f[a] + g[t]
        BY <3>1, <4>4, <4>5, <4>6
      <4> QED
        BY <4>7 DEF t
    <3> QED
      BY <3>2, <3>3
  <2> QED
    BY <2>1
<1>3. Free = Nat
  BY <1>1, <1>2, NatInd
<1>4. \A s \in SUBSET U : Cardinality(s) \in Free
  BY <1>f, <1>3
<1>5. ASSUME NEW s \in SUBSET U
      PROVE  \A a \in s : g[s] = f[a] + g[s \ {a}]
  <2>1. Cardinality(s) \in Nat /\ Cardinality(s) <= Cardinality(s)
    BY <1>f
  <2> QED
    BY <1>4, <2>1
<1> QED
  BY <1>5 DEF OrderFree

\* The fold chooses a solution.
LEMMA SumRecurses ==
  ASSUME NEW U, NEW f, NatOn(f, U), NEW g, Solution(f, U, g)
  PROVE  SumFunctionOnSet(f, U) = g[U]
<1> DEFINE h == CHOOSE k : k = [s \in SUBSET U |-> Recursion(f, k, s)]
<1>1. SumFunctionOnSet(f, U) = h[U]
  BY DEF SumFunctionOnSet, FoldFunctionOnSet, MapThenFoldSet, Recursion, AnyOf
<1>2. g = [s \in SUBSET U |-> Recursion(f, g, s)]
  BY DEF Solution
<1>3. h = [s \in SUBSET U |-> Recursion(f, h, s)]
  BY <1>2
<1> HIDE DEF h
<1>4. \A s \in SUBSET U : h[s] = Recursion(f, h, s)
  BY <1>3
<1>5. \A s \in SUBSET U : h[s] = g[s]
  BY <1>4, SolutionsAgree DEF Solution, NatOn
<1> QED
  BY <1>1, <1>5

\* All sums over parts of a set are in one solution.
LEMMA SumsOver ==
  ASSUME NEW U, NEW f, NatOn(f, U)
  PROVE  \E g : AddsUp(f, U, g)
<1>1. PICK g : Solution(f, U, g)
  BY RecursionHasSolution
<1>s. g \in [SUBSET U -> Nat] /\ \A s \in SUBSET U : g[s] = Recursion(f, g, s)
  BY <1>1 DEF Solution
<1>2. ASSUME NEW S \in SUBSET U
      PROVE  SumFunctionOnSet(f, S) = g[S]
  <2> DEFINE k == [s \in SUBSET S |-> g[s]]
  <2>1. NatOn(f, S)
    BY FS_Subset DEF NatOn
  <2>2. k \in [SUBSET S -> Nat]
    BY <1>s
  <2>3. \A s \in SUBSET S : k[s] = Recursion(f, k, s)
    <3>1. ASSUME NEW s \in SUBSET S PROVE Recursion(f, k, s) = Recursion(f, g, s)
      BY DEF Recursion
    <3> QED
      BY <1>s, <3>1
  <2>4. k[S] = g[S]
    OBVIOUS
  <2> HIDE DEF k
  <2>5. SumFunctionOnSet(f, S) = k[S]
    BY <2>1, <2>2, <2>3, SumRecurses DEF Solution
  <2> QED
    BY <2>4, <2>5
<1>3. g[{}] = 0
  BY <1>s DEF Recursion
<1>4. OrderFree(f, U, g)
  BY <1>1, AnyOrder
<1> QED
  BY <1>s, <1>2, <1>3, <1>4 DEF AddsUp

\* The sum over nothing, over one element more, and of two functions that agree.
LEMMA SumOfNone ==
  ASSUME NEW f
  PROVE  SumFunctionOnSet(f, {}) = 0
<1>1. NatOn(f, {})
  BY FS_EmptySet DEF NatOn
<1>2. PICK g : AddsUp(f, {}, g)
  BY <1>1, SumsOver
<1> QED
  BY <1>2 DEF AddsUp

LEMMA SumOfOneMore ==
  ASSUME NEW S, NEW a, a \notin S, NEW f, NatOn(f, S \cup {a})
  PROVE  /\ SumFunctionOnSet(f, S) \in Nat
         /\ SumFunctionOnSet(f, S \cup {a}) = f[a] + SumFunctionOnSet(f, S)
<1> DEFINE U == S \cup {a}
<1>1. PICK g : AddsUp(f, U, g)
  BY SumsOver
<1>2. U \ {a} = S /\ a \in U /\ S \in SUBSET U /\ U \in SUBSET U
  OBVIOUS
<1> HIDE DEF U
<1>3. g[U] = f[a] + g[S]
  BY <1>1, <1>2 DEF AddsUp, OrderFree
<1>4. /\ SumFunctionOnSet(f, S) = g[S] /\ SumFunctionOnSet(f, U) = g[U]
      /\ g[S] \in Nat
  BY <1>1, <1>2 DEF AddsUp
<1> QED
  BY <1>3, <1>4 DEF U

LEMMA SumOfTheSame ==
  ASSUME NEW S, NEW f, NEW e, NatOn(f, S), \A x \in S : e[x] = f[x]
  PROVE  SumFunctionOnSet(f, S) = SumFunctionOnSet(e, S)
<1>1. PICK g : Solution(f, S, g)
  BY RecursionHasSolution
<1>2. Solution(e, S, g)
  <2>1. ASSUME NEW s \in SUBSET S PROVE Recursion(f, g, s) = Recursion(e, g, s)
    BY Picked DEF Recursion
  <2> QED
    BY <1>1, <2>1 DEF Solution
<1>3. SumFunctionOnSet(f, S) = g[S]
  BY <1>1, SumRecurses
<1>4. NatOn(e, S)
  BY DEF NatOn
<1>5. SumFunctionOnSet(e, S) = g[S]
  BY <1>2, <1>4, SumRecurses
<1> QED
  BY <1>3, <1>5

-----------------------------------------------------------------------------
(* Types and solvency                                                      *)

LEMMA InitTypes == Init => TypeOK /\ Solvent
<1> SUFFICES ASSUME Init PROVE TypeOK /\ Solvent
  OBVIOUS
<1>i. /\ now = 1 /\ nextBroadcastTime = 0 /\ broadcasts = <<>> /\ compensation = 0
      /\ sinkDAO = FALSE /\ checkpointTime = now /\ baseBalance = 0 /\ engineDAO = FALSE
  BY DEF Init
<1>n. <<>> \in Seq([timestamp : Nat, certificate : Hash \cup {NoHash}])
  OBVIOUS
<1>1. SinkTypeOK
  BY <1>i, <1>n DEF SinkTypeOK
<1>r. rate \in Nat
  BY ValuesAreNat, TimesNat DEF Init
<1>e. engineDAO \in BOOLEAN
  BY DEF Init
<1>c. checkpointTime \in 0 .. now /\ baseBalance \in Nat
  BY DEF Init
<1>2. EngineTypeOK
  BY <1>c, <1>e, <1>r DEF EngineTypeOK
<1>3. NoProposal \in Proposal
  BY DEF NoProposal, Proposal
<1>4. BallotTypeOK
  BY <1>3, ValuesAreNat DEF Init, BallotTypeOK
<1>5. RefundTypeOK /\ Solvent
  BY DEF Init, RefundTypeOK, Solvent
<1> QED
  BY <1>1, <1>2, <1>4, <1>5 DEF TypeOK

\* A refund is credited out of what is not credited yet.
LEMMA CreditTypes ==
  ASSUME TypeOK, Solvent, NEW relayer \in Relayer, CreditRelayerRefund(relayer)
  PROVE  RefundTypeOK' /\ Solvent'
<1>1. PICK cost \in GasCost :
        LET refund == Least(Least(cost, refundMax[relayer]), AvailableBalance) IN
          /\ refundCredits' = [refundCredits EXCEPT ![relayer] = @ + refund]
          /\ totalRefundCredits' = totalRefundCredits + refund
          /\ UNCHANGED <<refundMax, balance>>
  BY DEF CreditRelayerRefund
<1> DEFINE refund == Least(Least(cost, refundMax[relayer]), AvailableBalance)
<1>2. cost \in Nat /\ refundMax[relayer] \in Nat /\ AvailableBalance \in Nat
  BY ValuesAreNat DEF TypeOK, RefundTypeOK, Solvent, AvailableBalance
<1>3. refund \in Nat /\ refund <= AvailableBalance
  BY <1>2 DEF Least
<1>4. /\ refundCredits' = [refundCredits EXCEPT ![relayer] = @ + refund]
      /\ totalRefundCredits' = totalRefundCredits + refund
      /\ UNCHANGED <<refundMax, balance>>
  BY <1>1
<1> HIDE DEF refund
<1> QED
  BY <1>3, <1>4 DEF TypeOK, RefundTypeOK, Solvent, AvailableBalance

\* Execution changes a proposal, and the engine or the ledger.
LEMMA ExecuteTypes ==
  ASSUME TypeOK, NEW id \in ProposalId, NEW p \in Proposal, Execute(id, p)
  PROVE  /\ compensation' \in Nat
         /\ checkpointTime' \in 0 .. now
         /\ baseBalance' \in Nat
         /\ rate' \in Nat
         /\ proposals' \in [ProposalId -> Proposal]
         /\ activeProposalId' \in 0 .. MaxProposals
<1>1. p.value \in Nat
  BY DEF Proposal
<1>2. [p EXCEPT !.active = FALSE, !.executed = TRUE] \in Proposal
  BY DEF Proposal
<1>3. /\ proposals' \in [ProposalId -> Proposal]
      /\ activeProposalId' \in 0 .. MaxProposals
  BY <1>2, ValuesAreNat DEF Execute, TypeOK, BallotTypeOK
<1>4. CASE UpdateUserCount(p.value) /\ UNCHANGED compensation
  <2>1. p.value * ratePerUser \in Nat
    BY <1>1, TimesNat, ValuesAreNat
  <2> QED
    BY <1>3, <1>4, <2>1, BalanceNat
       DEF UpdateUserCount, TypeOK, EngineTypeOK, SinkTypeOK
<1>5. CASE RecordCompensation(p.value) /\ UNCHANGED engine
  BY <1>1, <1>3, <1>5 DEF RecordCompensation, engine, TypeOK, SinkTypeOK, EngineTypeOK
<1> QED
  BY <1>4, <1>5 DEF Execute

\* Counting votes leaves a proposal a proposal.
LEMMA CountedProposal ==
  ASSUME NEW p \in Proposal, NEW total \in Nat, NEW support \in Nat
  PROVE  [p EXCEPT !.totalVotes = total, !.supportVotes = support] \in Proposal
  BY DEF Proposal

\* A proposal with its new votes is a proposal.
LEMMA VotedProposal ==
  ASSUME TypeOK, NEW id \in ProposalId,
         NEW support \in SUBSET Witness, NEW against \in SUBSET Witness
  PROVE  /\ WithVotes(id, support, against) \in Proposal
         /\ Cardinality(support) \in Nat
         /\ Cardinality(support \cup against) \in Nat
         /\ Cardinality(support) <= Cardinality(support \cup against)
<1>1. support \cup against \subseteq Witness
  OBVIOUS
<1>2. IsFiniteSet(support \cup against) /\ IsFiniteSet(support)
  BY <1>1, GovernanceAssumption, FS_Subset
<1>3. /\ Cardinality(support) \in Nat
      /\ Cardinality(support \cup against) \in Nat
  BY <1>2, FS_CardinalityType
<1>4. Cardinality(support) <= Cardinality(support \cup against)
  BY <1>2, FS_Subset
<1>5. proposals[id] \in Proposal
  BY DEF TypeOK, BallotTypeOK
<1>6. WithVotes(id, support, against) \in Proposal
  <2> DEFINE total == proposals[id].totalVotes + Cardinality(support \cup against)
             votes == proposals[id].supportVotes + Cardinality(support)
  <2>0. proposals[id].totalVotes \in Nat /\ proposals[id].supportVotes \in Nat
    BY <1>5 DEF Proposal
  <2>1. total \in Nat /\ votes \in Nat
    BY <1>3, <2>0
  <2>2. WithVotes(id, support, against)
          = [proposals[id] EXCEPT !.totalVotes = total, !.supportVotes = votes]
    BY DEF WithVotes
  <2> HIDE DEF total, votes
  <2> QED
    BY <2>1, <2>2, <1>5, CountedProposal
<1> QED
  BY <1>3, <1>4, <1>6

\* Every transaction keeps the types, and the contract solvent.
LEMMA NextTypes == TypeOK /\ Solvent /\ [Next]_vars => TypeOK' /\ Solvent'
<1> SUFFICES ASSUME TypeOK, Solvent, [Next]_vars PROVE TypeOK' /\ Solvent'
  OBVIOUS
<1> USE ValuesAreNat
<1>t. SinkTypeOK /\ EngineTypeOK /\ BallotTypeOK /\ RefundTypeOK
  BY DEF TypeOK
<1>d. NoHash \in Hash \cup {NoHash}
  OBVIOUS
<1>1. CASE Tick
  BY <1>1, <1>t DEF Tick, TypeOK, SinkTypeOK, EngineTypeOK, BallotTypeOK, RefundTypeOK,
                    Solvent, sink, engine, ballot, refunds
<1>2. CASE SetEngineDAO \/ SetSinkDAO
  BY <1>2, <1>t DEF SetEngineDAO, SetSinkDAO, TypeOK, SinkTypeOK, EngineTypeOK,
                    BallotTypeOK, RefundTypeOK, Solvent, sink, engine, ballot, refunds
<1>3. ASSUME NEW timestamp \in 1 .. MaxTime, ScheduleBroadcast(timestamp)
      PROVE  TypeOK' /\ Solvent'
  <2>1. [timestamp |-> timestamp, certificate |-> NoHash]
          \in [timestamp : Nat, certificate : Hash \cup {NoHash}]
    OBVIOUS
  <2>2. broadcasts' \in Seq([timestamp : Nat, certificate : Hash \cup {NoHash}])
    BY <1>3, <1>t, <2>1 DEF ScheduleBroadcast, SinkTypeOK
  <2> QED
    BY <1>3, <1>t, <2>2 DEF ScheduleBroadcast, TypeOK, SinkTypeOK, EngineTypeOK,
          BallotTypeOK, RefundTypeOK, Solvent, engine, ballot, refunds
<1>4. ASSUME NEW index \in DOMAIN broadcasts, NEW hash \in Hash,
             UploadCertificate(index, hash)
      PROVE  TypeOK' /\ Solvent'
  <2> DEFINE Broadcast == [timestamp : Nat, certificate : Hash \cup {NoHash}]
  <2>b. broadcasts \in Seq(Broadcast) /\ index \in 1 .. Len(broadcasts)
    BY <1>t DEF SinkTypeOK
  <2>c. broadcasts[index] \in Broadcast
    <3> HIDE DEF Broadcast
    <3> QED BY <2>b
  <2>e. [broadcasts[index] EXCEPT !.certificate = hash] \in Broadcast
    BY <2>c
  <2>f. broadcasts' = [broadcasts EXCEPT
                         ![index] = [broadcasts[index] EXCEPT !.certificate = hash]]
    BY <1>4 DEF UploadCertificate
  <2>1. broadcasts' \in Seq(Broadcast)
    <3> HIDE DEF Broadcast
    <3> QED BY <2>b, <2>e, <2>f, ExceptSeq
  <2> QED
    BY <1>4, <1>t, <2>1 DEF UploadCertificate, TypeOK, SinkTypeOK, EngineTypeOK,
          BallotTypeOK, RefundTypeOK, Solvent, engine, ballot, refunds
<1>5. ASSUME NEW kind \in {"user_count", "compensation"}, NEW value \in Nat,
             Propose(kind, value)
      PROVE  TypeOK' /\ Solvent'
  <2>1. [kind |-> kind, value |-> value, createdAt |-> now, totalVotes |-> 0,
         supportVotes |-> 0, active |-> TRUE, executed |-> FALSE] \in Proposal
    BY <1>t DEF Proposal, SinkTypeOK
  <2>2. BallotTypeOK'
    BY <1>5, <1>t, <2>1 DEF Propose, BallotTypeOK, ProposalId
  <2> QED
    BY <1>5, <1>t, <2>2 DEF Propose, TypeOK, SinkTypeOK, EngineTypeOK, RefundTypeOK,
                            Solvent, sink, engine, refunds
<1>6. ASSUME NEW id \in ProposalId, FinalizeProposal(id)
      PROVE  TypeOK' /\ Solvent'
  <2>1. proposals[id] \in Proposal
    BY <1>t DEF BallotTypeOK
  <2>2. CASE Execute(id, proposals[id])
    <3>1. /\ compensation' \in Nat
          /\ checkpointTime' \in 0 .. now
          /\ baseBalance' \in Nat
          /\ rate' \in Nat
          /\ proposals' \in [ProposalId -> Proposal]
          /\ activeProposalId' \in 0 .. MaxProposals
      BY <2>1, <2>2, ExecuteTypes
    <3> QED
      BY <1>6, <1>t, <3>1 DEF FinalizeProposal, TypeOK, SinkTypeOK, EngineTypeOK,
                  BallotTypeOK, RefundTypeOK, Solvent, sink, refunds
  <2>3. CASE /\ proposals' = [proposals EXCEPT ![id].active = FALSE]
             /\ activeProposalId' = 0
             /\ UNCHANGED <<compensation, engine>>
    <3>1. [proposals[id] EXCEPT !.active = FALSE] \in Proposal
      BY <2>1 DEF Proposal
    <3>2. proposals' \in [ProposalId -> Proposal]
      BY <1>t, <2>3, <3>1 DEF BallotTypeOK
    <3>3. UNCHANGED <<now, sink, compensation, engine, engineDAO, nextProposalId,
                      hasVoted, voteNonces, registeredWitnesses, refunds>>
      BY <1>6, <2>3 DEF FinalizeProposal
    <3>4. activeProposalId' \in 0 .. MaxProposals
      BY <2>3
    <3>5. SinkTypeOK' /\ EngineTypeOK'
      BY <1>t, <3>3 DEF SinkTypeOK, EngineTypeOK, sink, engine
    <3>6. BallotTypeOK'
      BY <1>t, <3>2, <3>3, <3>4 DEF BallotTypeOK
    <3>7. RefundTypeOK' /\ Solvent'
      BY <1>t, <3>3 DEF RefundTypeOK, Solvent, refunds
    <3> QED
      BY <3>5, <3>6, <3>7 DEF TypeOK
  <2> QED
    BY <1>6, <2>2, <2>3 DEF FinalizeProposal
<1>7. ASSUME NEW relayer \in Relayer, NEW witnesses \in SUBSET Witness,
             BatchRegister(relayer, witnesses)
      PROVE  TypeOK' /\ Solvent'
  <2>1. RefundTypeOK' /\ Solvent'
    BY <1>7, CreditTypes DEF BatchRegister
  <2> QED
    BY <1>7, <1>t, <2>1 DEF BatchRegister, TypeOK, SinkTypeOK, EngineTypeOK,
                BallotTypeOK, sink, engine, ballot
<1>8. ASSUME NEW relayer \in Relayer, NEW support \in SUBSET Witness,
             NEW against \in SUBSET Witness, BatchVote(relayer, support, against)
      PROVE  TypeOK' /\ Solvent'
  <2> DEFINE id == activeProposalId
             voters == support \cup against
             p == WithVotes(id, support, against)
  <2>1. id \in ProposalId
    BY <1>8 DEF BatchVote, Open
  <2>2. RefundTypeOK' /\ Solvent'
    BY <1>8, CreditTypes DEF BatchVote
  <2>3. p \in Proposal
    BY <2>1, VotedProposal
  <2>4. /\ hasVoted' = [hasVoted EXCEPT ![id] = @ \cup voters]
        /\ voteNonces' = [w \in Witness |->
                            IF w \in voters THEN voteNonces[w] + 1 ELSE voteNonces[w]]
        /\ UNCHANGED <<now, sink, engineDAO, nextProposalId, registeredWitnesses>>
        /\ \/ Execute(id, p)
           \/ /\ proposals' = [proposals EXCEPT ![id] = p]
              /\ UNCHANGED <<activeProposalId, compensation, engine>>
    BY <1>8 DEF BatchVote
  <2> HIDE DEF id, p
  <2>5. /\ hasVoted' \in [ProposalId -> SUBSET Witness]
        /\ voteNonces' \in [Witness -> Nat]
    <3>1. hasVoted \in [ProposalId -> SUBSET Witness] /\ voters \in SUBSET Witness
      BY <1>t DEF BallotTypeOK
    <3>2. hasVoted' \in [ProposalId -> SUBSET Witness]
      BY <2>4, <3>1
    <3>3. voteNonces' \in [Witness -> Nat]
      BY <1>t, <2>4 DEF BallotTypeOK
    <3> QED
      BY <3>2, <3>3
  <2>6. CASE Execute(id, p)
    <3>1. /\ compensation' \in Nat
          /\ checkpointTime' \in 0 .. now
          /\ baseBalance' \in Nat
          /\ rate' \in Nat
          /\ proposals' \in [ProposalId -> Proposal]
          /\ activeProposalId' \in 0 .. MaxProposals
      BY <2>1, <2>3, <2>6, ExecuteTypes
    <3> QED
      BY <1>t, <2>2, <2>4, <2>5, <3>1 DEF TypeOK, SinkTypeOK, EngineTypeOK,
                                          BallotTypeOK, sink
  <2>7. CASE /\ proposals' = [proposals EXCEPT ![id] = p]
             /\ UNCHANGED <<activeProposalId, compensation, engine>>
    BY <1>t, <2>2, <2>3, <2>4, <2>5, <2>7 DEF TypeOK, SinkTypeOK, EngineTypeOK,
                                              BallotTypeOK, sink, engine
  <2> QED
    BY <2>4, <2>6, <2>7
<1>9. ASSUME NEW relayer \in Relayer,
             (\E max \in RefundCap : SetRelayerRefundPolicy(relayer, max))
               \/ WithdrawRelayerRefund(relayer)
      PROVE  TypeOK' /\ Solvent'
  <2>1. RefundTypeOK' /\ Solvent'
    BY <1>9, <1>t DEF SetRelayerRefundPolicy, WithdrawRelayerRefund, RefundTypeOK, Solvent
  <2> QED
    BY <1>9, <1>t, <2>1 DEF SetRelayerRefundPolicy, WithdrawRelayerRefund, TypeOK,
                SinkTypeOK, EngineTypeOK, BallotTypeOK, sink, engine, ballot
<1>10. ASSUME NEW amount \in 1 .. MaxFunds, Receive(amount)
       PROVE  TypeOK' /\ Solvent'
  BY <1>10, <1>t DEF Receive, TypeOK, SinkTypeOK, EngineTypeOK, BallotTypeOK,
                     RefundTypeOK, Solvent, sink, engine, ballot
<1>11. CASE UNCHANGED vars
  BY <1>11, <1>t DEF vars, TypeOK, SinkTypeOK, EngineTypeOK, BallotTypeOK,
                     RefundTypeOK, Solvent, sink, engine, ballot, refunds
<1>12. CASE \E value \in UserCount : Propose("user_count", value)
  BY <1>5, <1>12
<1>13. CASE \E value \in Amount : Propose("compensation", value)
  BY <1>5, <1>13
<1> QED
  BY <1>1, <1>2, <1>3, <1>4, <1>6, <1>7, <1>8, <1>9, <1>10, <1>11, <1>12, <1>13
     DEF Next

\* The variables of the four contracts keep their types: the checkpoint is
\* never ahead of the block, and no refund is taken from credited ether, so that
\* no subtraction goes below zero.
THEOREM Typing == Spec => []TypeOK
<1>1. Init => TypeOK /\ Solvent
  BY InitTypes
<1>2. TypeOK /\ Solvent /\ [Next]_vars => TypeOK' /\ Solvent'
  BY NextTypes
<1> QED
  BY <1>1, <1>2, PTL DEF Spec

-----------------------------------------------------------------------------
(* The refunds add up                                                      *)

\* A sum of zeros is zero.
LEMMA SumOfZeros ==
  ASSUME NEW S, IsFiniteSet(S), NEW f, \A x \in S : f[x] = 0
  PROVE  SumFunctionOnSet(f, S) = 0
<1> DEFINE g == [s \in SUBSET S |-> 0]
<1>1. NatOn(f, S)
  BY DEF NatOn
<1>2. Solution(f, S, g)
  <2>1. ASSUME NEW s \in SUBSET S PROVE Recursion(f, g, s) = 0
    BY Picked DEF Recursion
  <2> QED
    BY <2>1 DEF Solution
<1>3. g[S] = 0
  OBVIOUS
<1> HIDE DEF g
<1> QED
  BY <1>1, <1>2, <1>3, SumRecurses

\* What changing one value does to a sum.
LEMMA SumChanged ==
  ASSUME NEW S, IsFiniteSet(S), NEW f \in [S -> Nat], NEW a \in S, NEW v \in Nat
  PROVE  /\ SumFunction(f) \in Nat /\ f[a] <= SumFunction(f)
         /\ SumFunction([f EXCEPT ![a] = v]) = SumFunction(f) - f[a] + v
<1> DEFINE e == [f EXCEPT ![a] = v]
           rest == S \ {a}
<1>1. /\ e \in [S -> Nat] /\ e[a] = v /\ f[a] \in Nat
      /\ \A x \in rest : e[x] = f[x]
      /\ DOMAIN e = S /\ DOMAIN f = S
  OBVIOUS
<1>2. a \notin rest /\ rest \cup {a} = S /\ IsFiniteSet(rest)
  BY FS_Subset
<1> HIDE DEF e, rest
<1>3. NatOn(f, rest \cup {a}) /\ NatOn(e, rest \cup {a}) /\ NatOn(f, rest)
  BY <1>1, <1>2 DEF NatOn
<1>4. /\ SumFunctionOnSet(f, rest) \in Nat
      /\ SumFunctionOnSet(f, S) = f[a] + SumFunctionOnSet(f, rest)
  BY <1>2, <1>3, SumOfOneMore
<1>5. SumFunctionOnSet(e, S) = v + SumFunctionOnSet(e, rest)
  BY <1>1, <1>2, <1>3, SumOfOneMore
<1>6. SumFunctionOnSet(f, rest) = SumFunctionOnSet(e, rest)
  BY <1>1, <1>3, SumOfTheSame
<1>7. SumFunction(f) = SumFunctionOnSet(f, S) /\ SumFunction(e) = SumFunctionOnSet(e, S)
  BY <1>1 DEF SumFunction
<1>8. SumFunction(e) = SumFunction(f) - f[a] + v
  BY <1>1, <1>4, <1>5, <1>6, <1>7
<1>9. SumFunction(f) \in Nat /\ f[a] <= SumFunction(f)
  BY <1>1, <1>4, <1>7
<1> QED
  BY <1>8, <1>9 DEF e

\* A batch credits its relayer and the total with the same refund.
LEMMA CreditSums ==
  ASSUME TypeOK, CreditsCovered, NEW relayer \in Relayer, CreditRelayerRefund(relayer)
  PROVE  totalRefundCredits' = SumFunction(refundCredits')
<1>1. PICK cost \in GasCost :
        LET refund == Least(Least(cost, refundMax[relayer]), AvailableBalance) IN
          /\ refundCredits' = [refundCredits EXCEPT ![relayer] = @ + refund]
          /\ totalRefundCredits' = totalRefundCredits + refund
  BY DEF CreditRelayerRefund
<1> DEFINE refund == Least(Least(cost, refundMax[relayer]), AvailableBalance)
           v == refundCredits[relayer] + refund
<1>2. /\ cost \in Nat /\ refundMax[relayer] \in Nat /\ AvailableBalance \in Nat
      /\ refundCredits \in [Relayer -> Nat] /\ refundCredits[relayer] \in Nat
      /\ totalRefundCredits \in Nat
      /\ totalRefundCredits = SumFunction(refundCredits)
  BY ValuesAreNat DEF TypeOK, RefundTypeOK, CreditsCovered, Solvent, AvailableBalance
<1>3. refund \in Nat /\ v \in Nat
  BY <1>2 DEF Least
<1>4. /\ refundCredits' = [refundCredits EXCEPT ![relayer] = v]
      /\ totalRefundCredits' = totalRefundCredits + refund
  BY <1>1
<1>5. SumFunction(refundCredits')
        = SumFunction(refundCredits) - refundCredits[relayer] + v
  <2> HIDE DEF refund, v
  <2>1. IsFiniteSet(Relayer)
    BY GovernanceAssumption
  <2>2. SumFunction([refundCredits EXCEPT ![relayer] = v])
          = SumFunction(refundCredits) - refundCredits[relayer] + v
    BY ONLY <2>1, <1>2, <1>3, SumChanged
  <2> QED
    BY <2>2, <1>4
<1> HIDE DEF refund
<1> QED
  BY <1>2, <1>3, <1>4, <1>5

\* A withdrawal takes the relayer's credit out of both.
LEMMA WithdrawSums ==
  ASSUME TypeOK, CreditsCovered, NEW relayer \in Relayer, WithdrawRelayerRefund(relayer)
  PROVE  totalRefundCredits' = SumFunction(refundCredits')
<1>1. /\ refundCredits' = [refundCredits EXCEPT ![relayer] = 0]
      /\ totalRefundCredits' = totalRefundCredits - refundCredits[relayer]
  BY DEF WithdrawRelayerRefund
<1>2. /\ refundCredits \in [Relayer -> Nat] /\ refundCredits[relayer] \in Nat
      /\ totalRefundCredits \in Nat
      /\ totalRefundCredits = SumFunction(refundCredits)
  BY DEF TypeOK, RefundTypeOK, CreditsCovered
<1>3. SumFunction(refundCredits')
        = SumFunction(refundCredits) - refundCredits[relayer] + 0
  <2>1. IsFiniteSet(Relayer) /\ 0 \in Nat
    BY GovernanceAssumption
  <2>2. SumFunction([refundCredits EXCEPT ![relayer] = 0])
          = SumFunction(refundCredits) - refundCredits[relayer] + 0
    BY ONLY <2>1, <1>2, SumChanged
  <2> QED
    BY <2>2, <1>1
<1> QED
  BY <1>1, <1>2, <1>3

LEMMA NextCredits ==
  TypeOK /\ CreditsCovered /\ [Next]_vars => CreditsCovered'
<1> SUFFICES ASSUME TypeOK, CreditsCovered, [Next]_vars PROVE CreditsCovered'
  OBVIOUS
<1>0. SUFFICES totalRefundCredits' = SumFunction(refundCredits')
  BY NextTypes DEF CreditsCovered
<1>s. refundCredits' = refundCredits /\ totalRefundCredits' = totalRefundCredits
        => totalRefundCredits' = SumFunction(refundCredits')
  BY DEF CreditsCovered
<1>1. CASE Tick \/ SetEngineDAO \/ SetSinkDAO
  BY <1>1, <1>s DEF Tick, SetEngineDAO, SetSinkDAO, refunds
<1>2. CASE \/ \E timestamp \in 1 .. MaxTime : ScheduleBroadcast(timestamp)
           \/ \E index \in DOMAIN broadcasts, hash \in Hash : UploadCertificate(index, hash)
           \/ \E value \in UserCount : Propose("user_count", value)
           \/ \E value \in Amount : Propose("compensation", value)
           \/ \E id \in ProposalId : FinalizeProposal(id)
           \/ \E amount \in 1 .. MaxFunds : Receive(amount)
  BY <1>2, <1>s DEF ScheduleBroadcast, UploadCertificate, Propose, FinalizeProposal,
                    Receive, refunds
<1>3. ASSUME NEW relayer \in Relayer,
             \/ \E witnesses \in SUBSET Witness : BatchRegister(relayer, witnesses)
             \/ \E support, against \in SUBSET Witness : BatchVote(relayer, support, against)
      PROVE  totalRefundCredits' = SumFunction(refundCredits')
  BY <1>3, CreditSums DEF BatchRegister, BatchVote
<1>4. ASSUME NEW relayer \in Relayer, NEW max \in RefundCap,
             SetRelayerRefundPolicy(relayer, max)
      PROVE  totalRefundCredits' = SumFunction(refundCredits')
  BY <1>4, <1>s DEF SetRelayerRefundPolicy
<1>5. ASSUME NEW relayer \in Relayer, WithdrawRelayerRefund(relayer)
      PROVE  totalRefundCredits' = SumFunction(refundCredits')
  BY <1>5, WithdrawSums
<1>6. CASE UNCHANGED vars
  BY <1>6, <1>s DEF vars, refunds
<1> QED
  BY <1>1, <1>2, <1>3, <1>4, <1>5, <1>6 DEF Next

LEMMA InitCredits == Init => CreditsCovered
<1> SUFFICES ASSUME Init PROVE CreditsCovered
  OBVIOUS
<1>1. /\ DOMAIN refundCredits = Relayer
      /\ \A r \in Relayer : refundCredits[r] = 0
      /\ totalRefundCredits = 0
  BY DEF Init
<1>2. SumFunction(refundCredits) = 0
  BY <1>1, SumOfZeros, GovernanceAssumption DEF SumFunction
<1> QED
  BY <1>1, <1>2, InitTypes DEF CreditsCovered

\* The total that batches credit and withdrawals debit is the sum of the
\* relayers' credits, and the contract holds that ether.
THEOREM AreCreditsCovered == Spec => []CreditsCovered
<1>1. Init => TypeOK /\ Solvent /\ CreditsCovered
  BY InitTypes, InitCredits
<1>2. TypeOK /\ Solvent /\ CreditsCovered /\ [Next]_vars
        => TypeOK' /\ Solvent' /\ CreditsCovered'
  BY NextTypes, NextCredits
<1> QED
  BY <1>1, <1>2, PTL DEF Spec

\* No subtraction of the refunds is below zero and no transfer is of more than the
\* contract holds: what is left for new refunds (address(this).balance -
\* totalRefundCredits), the total less the credit that is withdrawn, and the ether
\* that pays it.
Payable ==
    /\ AvailableBalance >= 0
    /\ \A relayer \in Relayer : /\ refundCredits[relayer] <= totalRefundCredits
                               /\ refundCredits[relayer] <= balance

\* Every relayer can withdraw its credit at any time, whatever batches were
\* refunded and whoever else has withdrawn: its credit is part of the total, and
\* the total is covered.
THEOREM RefundsArePayable == Spec => []Payable
<1>1. TypeOK /\ CreditsCovered => Payable
  <2> SUFFICES ASSUME TypeOK, CreditsCovered PROVE Payable
    OBVIOUS
  <2>1. /\ refundCredits \in [Relayer -> Nat] /\ IsFiniteSet(Relayer)
        /\ totalRefundCredits \in Nat /\ balance \in Nat
        /\ totalRefundCredits = SumFunction(refundCredits)
        /\ totalRefundCredits <= balance
    BY ValuesAreNat, GovernanceAssumption
       DEF TypeOK, RefundTypeOK, CreditsCovered, Solvent
  <2>2. ASSUME NEW relayer \in Relayer
        PROVE  refundCredits[relayer] <= SumFunction(refundCredits)
    BY ONLY <2>1, SumChanged
  <2>3. AvailableBalance >= 0
    BY <2>1 DEF AvailableBalance
  <2>4. ASSUME NEW relayer \in Relayer
        PROVE  /\ refundCredits[relayer] <= totalRefundCredits
               /\ refundCredits[relayer] <= balance
    BY <2>1, <2>2
  <2> QED
    BY <2>3, <2>4 DEF Payable
<1> QED
  BY <1>1, Typing, AreCreditsCovered, PTL

-----------------------------------------------------------------------------
(* The ballot                                                              *)

\* A number no proposal has yet stands for nothing.
Unused ==
    \A id \in ProposalId : id >= nextProposalId => /\ proposals[id] = NoProposal
                                                   /\ hasVoted[id] = {}

\* An open proposal was not executed.
OpenUndecided == \A id \in ProposalId : Open(id) => ~proposals[id].executed

\* The inductive invariant of proposals and votes.
BallotInv ==
    /\ OneActive
    /\ Unused
    /\ OpenUndecided
    /\ VotesCounted
    /\ DecidedByVotes

\* What is not a proposal, a vote or a finalization leaves the ballot alone.
LEMMA BallotSteps ==
  ASSUME [Next]_vars
  PROVE  \/ /\ UNCHANGED ballot
            /\ registeredWitnesses \subseteq registeredWitnesses'
         \/ \E kind \in {"user_count", "compensation"}, value \in Nat : Propose(kind, value)
         \/ \E id \in ProposalId : FinalizeProposal(id)
         \/ \E relayer \in Relayer, support, against \in SUBSET Witness :
               BatchVote(relayer, support, against)
<1>1. CASE Tick \/ SetEngineDAO \/ SetSinkDAO
  BY <1>1 DEF Tick, SetEngineDAO, SetSinkDAO
<1>2. CASE \/ \E timestamp \in 1 .. MaxTime : ScheduleBroadcast(timestamp)
           \/ \E index \in DOMAIN broadcasts, hash \in Hash : UploadCertificate(index, hash)
  BY <1>2 DEF ScheduleBroadcast, UploadCertificate
<1>3. CASE \E relayer \in Relayer :
             \/ \E witnesses \in SUBSET Witness : BatchRegister(relayer, witnesses)
             \/ \E max \in RefundCap : SetRelayerRefundPolicy(relayer, max)
             \/ WithdrawRelayerRefund(relayer)
  BY <1>3 DEF BatchRegister, SetRelayerRefundPolicy, WithdrawRelayerRefund
<1>4. CASE \E amount \in 1 .. MaxFunds : Receive(amount)
  BY <1>4 DEF Receive
<1>5. CASE UNCHANGED vars
  BY <1>5 DEF vars
<1>6. CASE \/ \E value \in UserCount : Propose("user_count", value)
           \/ \E value \in Amount : Propose("compensation", value)
  <2>1. \E kind \in {"user_count", "compensation"}, value \in Nat : Propose(kind, value)
    BY <1>6, ValuesAreNat
  <2> QED
    BY <2>1
<1>7. CASE \E relayer \in Relayer, support, against \in SUBSET Witness :
               BatchVote(relayer, support, against)
  BY <1>7
<1>8. CASE \E id \in ProposalId : FinalizeProposal(id)
  BY <1>8
<1> QED
  BY <1>1, <1>2, <1>3, <1>4, <1>5, <1>6, <1>7, <1>8 DEF Next

\* A proposal that is open exists, and is the one batchVote takes votes on.
LEMMA OpenExists ==
  ASSUME TypeOK, BallotInv, NEW id, Open(id)
  PROVE  id \in ProposalId /\ Exists(id) /\ id = activeProposalId
<1>1. id \in ProposalId /\ proposals[id].active
  BY DEF Open
<1>2. ~ NoProposal.active
  BY DEF NoProposal
<1>3. ~ (id >= nextProposalId)
  BY <1>1, <1>2 DEF BallotInv, Unused
<1>4. id \in Nat /\ nextProposalId \in Nat
  BY <1>1, ValuesAreNat DEF ProposalId, TypeOK, BallotTypeOK
<1>5. id < nextProposalId
  BY <1>3, <1>4
<1> QED
  BY <1>1, <1>5 DEF Exists, BallotInv, OneActive

LEMMA InitBallot == Init => BallotInv
<1> SUFFICES ASSUME Init PROVE BallotInv
  OBVIOUS
<1>1. \A id \in ProposalId : /\ proposals[id] = NoProposal /\ hasVoted[id] = {}
                             /\ ~proposals[id].active /\ ~proposals[id].executed
                             /\ proposals[id].totalVotes = 0
                             /\ proposals[id].supportVotes = 0
  BY DEF Init, NoProposal
<1>2. OneActive
  <2>1. \A id : ~Open(id)
    BY <1>1 DEF Open
  <2> QED
    BY <2>1 DEF OneActive, Init
<1>3. Unused /\ OpenUndecided
  BY <1>1 DEF Unused, OpenUndecided
<1>4. VotesCounted
  <2>1. \A w \in Witness : {id \in ProposalId : w \in hasVoted[id]} = {}
    BY <1>1
  <2>2. Cardinality({}) = 0
    BY FS_EmptySet
  <2>3. \A w \in Witness : voteNonces[w] = 0
    BY DEF Init
  <2>4. \A w \in Witness :
          voteNonces[w] = Cardinality({id \in ProposalId : w \in hasVoted[id]})
    BY <2>1, <2>2, <2>3
  <2>5. \A id \in ProposalId :
          /\ hasVoted[id] \subseteq registeredWitnesses
          /\ proposals[id].totalVotes = Cardinality(hasVoted[id])
          /\ proposals[id].supportVotes <= proposals[id].totalVotes
    BY <1>1, <2>2
  <2> QED
    BY <2>4, <2>5 DEF VotesCounted
<1>5. DecidedByVotes
  <2>1. \A id \in ProposalId : ~Exists(id)
    BY ValuesAreNat DEF Exists, Init, ProposalId
  <2> QED
    BY <2>1 DEF DecidedByVotes
<1> QED
  BY <1>2, <1>3, <1>4, <1>5 DEF BallotInv

\* Steps that leave the ballot alone.
LEMMA BallotSame ==
  ASSUME BallotInv, UNCHANGED ballot, registeredWitnesses \subseteq registeredWitnesses'
  PROVE  BallotInv'
<1>1. OneActive' /\ Unused' /\ OpenUndecided'
  BY DEF BallotInv, OneActive, Unused, OpenUndecided, Open, ballot
<1>2. VotesCounted'
  BY DEF BallotInv, VotesCounted, ballot
<1>3. DecidedByVotes'
  BY DEF BallotInv, DecidedByVotes, Exists, ballot
<1> QED
  BY <1>1, <1>2, <1>3 DEF BallotInv

\* A new proposal is the only open one and has no votes.
LEMMA ProposeBallot ==
  ASSUME TypeOK, BallotInv,
         NEW kind \in {"user_count", "compensation"}, NEW value \in Nat,
         Propose(kind, value)
  PROVE  BallotInv'
<1> DEFINE new == [kind |-> kind, value |-> value, createdAt |-> now, totalVotes |-> 0,
                   supportVotes |-> 0, active |-> TRUE, executed |-> FALSE]
<1>t. /\ nextProposalId \in Nat \ {0} /\ MaxProposals \in Nat
      /\ proposals \in [ProposalId -> Proposal]
      /\ nextProposalId <= MaxProposals
  BY ValuesAreNat DEF TypeOK, BallotTypeOK, Propose
<1>n. nextProposalId \in ProposalId
  BY <1>t DEF ProposalId
<1>s. /\ nextProposalId' = nextProposalId + 1
      /\ activeProposalId' = nextProposalId
      /\ proposals' = [proposals EXCEPT ![nextProposalId] = new]
      /\ UNCHANGED <<hasVoted, voteNonces, registeredWitnesses>>
  BY DEF Propose
<1>0. /\ new.active /\ ~new.executed /\ new.totalVotes = 0 /\ new.supportVotes = 0
  OBVIOUS
<1> HIDE DEF new
<1>1. /\ proposals'[nextProposalId] = new
      /\ \A id \in ProposalId : id # nextProposalId => proposals'[id] = proposals[id]
  BY <1>t, <1>n, <1>s
<1>2. \A id \in ProposalId : ~ Open(id)
  BY DEF Propose, NothingOpen, BallotInv, OneActive
<1>3. OneActive'
  BY <1>0, <1>1, <1>2, <1>n, <1>s DEF OneActive, Open
<1>4. Unused'
  <2> SUFFICES ASSUME NEW id \in ProposalId, id >= nextProposalId'
               PROVE  proposals'[id] = NoProposal /\ hasVoted'[id] = {}
    BY DEF Unused
  <2>1. id >= nextProposalId /\ id # nextProposalId
    BY <1>s, <1>t DEF ProposalId
  <2> QED
    BY <2>1, <1>1, <1>s DEF BallotInv, Unused
<1>5. OpenUndecided'
  BY <1>0, <1>1, <1>2 DEF OpenUndecided, Open
<1>6. VotesCounted'
  <2>1. hasVoted[nextProposalId] = {}
    BY <1>n, <1>t DEF BallotInv, Unused
  <2>2. Cardinality({}) = 0
    BY FS_EmptySet
  <2>3. \A id \in ProposalId :
          /\ hasVoted'[id] \subseteq registeredWitnesses'
          /\ proposals'[id].totalVotes = Cardinality(hasVoted'[id])
          /\ proposals'[id].supportVotes <= proposals'[id].totalVotes
    <3> TAKE id \in ProposalId
    <3>1. CASE id = nextProposalId
      BY <3>1, <1>0, <1>1, <1>s, <2>1, <2>2
    <3>2. CASE id # nextProposalId
      BY <3>2, <1>1, <1>s DEF BallotInv, VotesCounted
    <3> QED
      BY <3>1, <3>2
  <2>4. \A w \in Witness :
          voteNonces'[w] = Cardinality({id \in ProposalId : w \in hasVoted'[id]})
    BY <1>s DEF BallotInv, VotesCounted
  <2> QED
    BY <2>3, <2>4 DEF VotesCounted
<1>7. DecidedByVotes'
  <2> SUFFICES ASSUME NEW id \in ProposalId, Exists(id)'
               PROVE  proposals'[id].executed
                        <=> /\ proposals'[id].totalVotes >= minValidVotes
                            /\ proposals'[id].supportVotes * 10000
                                 >= proposals'[id].totalVotes * approvalThresholdBps
    BY DEF DecidedByVotes
  <2>1. CASE id = nextProposalId
    <3>1. ~ (0 >= minValidVotes)
      BY GovernanceAssumption
    <3> QED
      BY <2>1, <3>1, <1>0, <1>1
  <2>2. CASE id # nextProposalId
    <3>1. Exists(id)
      BY <2>2, <1>s, <1>t DEF Exists, ProposalId
    <3> QED
      BY <2>2, <3>1, <1>1 DEF BallotInv, DecidedByVotes
  <2> QED
    BY <2>1, <2>2
<1> QED
  BY <1>3, <1>4, <1>5, <1>6, <1>7 DEF BallotInv

\* A proposal that is finalized failed: batchVote has executed every other one.
LEMMA FinalizedFailed ==
  ASSUME TypeOK, BallotInv, NEW id \in ProposalId, FinalizeProposal(id)
  PROVE  /\ Exists(id) /\ id = activeProposalId
         /\ ~ Passed(proposals[id])
         /\ proposals' = [proposals EXCEPT ![id].active = FALSE]
         /\ activeProposalId' = 0
         /\ UNCHANGED <<compensation, engine, nextProposalId, hasVoted, voteNonces,
                        registeredWitnesses>>
<1>1. Open(id)
  BY DEF FinalizeProposal
<1>2. Exists(id) /\ id = activeProposalId
  BY <1>1, OpenExists
<1>3. ~ proposals[id].executed
  BY <1>1 DEF BallotInv, OpenUndecided
<1>4. ~ Passed(proposals[id])
  BY <1>2, <1>3 DEF BallotInv, DecidedByVotes, Passed
<1> QED
  BY <1>2, <1>4 DEF FinalizeProposal

LEMMA FinalizeBallot ==
  ASSUME TypeOK, BallotInv, NEW id \in ProposalId, FinalizeProposal(id)
  PROVE  BallotInv'
<1>1. /\ Exists(id) /\ id = activeProposalId
      /\ proposals' = [proposals EXCEPT ![id].active = FALSE]
      /\ activeProposalId' = 0
      /\ UNCHANGED <<nextProposalId, hasVoted, voteNonces, registeredWitnesses>>
  BY FinalizedFailed
<1>2. proposals \in [ProposalId -> Proposal]
  BY DEF TypeOK, BallotTypeOK
<1>3. proposals[id] \in Proposal
  BY <1>2
<1>4. /\ ~proposals'[id].active
      /\ proposals'[id].executed = proposals[id].executed
      /\ proposals'[id].totalVotes = proposals[id].totalVotes
      /\ proposals'[id].supportVotes = proposals[id].supportVotes
  BY <1>1, <1>2, <1>3 DEF Proposal
<1>5. \A other \in ProposalId : other # id => proposals'[other] = proposals[other]
  BY <1>1, <1>2
<1>6. \A other \in ProposalId : ~ Open(other)'
  BY <1>1, <1>4, <1>5 DEF Open, BallotInv, OneActive
<1>7. OneActive' /\ OpenUndecided'
  BY <1>1, <1>6 DEF OneActive, OpenUndecided
<1>8. Unused'
  <2>1. ~ (id >= nextProposalId)
    BY <1>1, ValuesAreNat DEF Exists, ProposalId, TypeOK, BallotTypeOK
  <2> QED
    BY <2>1, <1>1, <1>5 DEF BallotInv, Unused
<1>9. VotesCounted'
  BY <1>1, <1>4, <1>5 DEF BallotInv, VotesCounted
<1>10. DecidedByVotes'
  BY <1>1, <1>4, <1>5 DEF BallotInv, DecidedByVotes, Exists
<1> QED
  BY <1>7, <1>8, <1>9, <1>10 DEF BallotInv

\* What a batch changes: the votes of the open proposal and of its voters, and,
\* when they pass it, the proposal itself.
VotesTaken(id, support, against) ==
    LET voters == support \cup against
        p == WithVotes(id, support, against)
    IN  /\ id = activeProposalId
        /\ Exists(id) /\ Open(id)
        /\ voters \subseteq registeredWitnesses
        /\ voters \cap hasVoted[id] = {}
        /\ hasVoted' = [hasVoted EXCEPT ![id] = @ \cup voters]
        /\ voteNonces' = [w \in Witness |-> IF w \in voters THEN voteNonces[w] + 1
                                                             ELSE voteNonces[w]]
        /\ UNCHANGED <<nextProposalId, registeredWitnesses>>
        /\ \A other \in ProposalId \ {id} : proposals'[other] = proposals[other]
        /\ proposals'[id].totalVotes = p.totalVotes
        /\ proposals'[id].supportVotes = p.supportVotes
        /\ proposals'[id].executed <=> Passed(p)
        /\ proposals'[id].active <=> ~Passed(p)
        /\ activeProposalId' = IF Passed(p) THEN 0 ELSE id

LEMMA VotedBallot ==
  ASSUME TypeOK, BallotInv,
         NEW relayer \in Relayer,
         NEW support \in SUBSET Witness, NEW against \in SUBSET Witness,
         BatchVote(relayer, support, against)
  PROVE  \E id \in ProposalId : VotesTaken(id, support, against)
<1> SUFFICES ASSUME NEW id, id = activeProposalId
             PROVE  id \in ProposalId /\ VotesTaken(id, support, against)
  OBVIOUS
<1> DEFINE voters == support \cup against
           p == WithVotes(id, support, against)
<1>1. Open(id)
  BY DEF BatchVote
<1>2. id \in ProposalId /\ Exists(id)
  BY <1>1, OpenExists
<1>3. proposals \in [ProposalId -> Proposal] /\ proposals[id] \in Proposal
  BY <1>2 DEF TypeOK, BallotTypeOK
<1>4. ~proposals[id].executed /\ proposals[id].active
  BY <1>1, <1>2 DEF BallotInv, OpenUndecided, Open
<1>5. p \in Proposal
  BY <1>2, VotedProposal
<1>6. ~p.executed /\ p.active
  BY <1>3, <1>4 DEF WithVotes, Proposal
<1>7. /\ voters \subseteq registeredWitnesses
      /\ voters \cap hasVoted[id] = {}
  BY DEF BatchVote, NewVoters
<1>8. /\ hasVoted' = [hasVoted EXCEPT ![id] = @ \cup voters]
      /\ voteNonces' = [w \in Witness |-> IF w \in voters THEN voteNonces[w] + 1
                                                           ELSE voteNonces[w]]
      /\ UNCHANGED <<nextProposalId, registeredWitnesses>>
  BY DEF BatchVote
<1>9. \/ Passed(p) /\ Execute(id, p)
      \/ /\ ~Passed(p)
         /\ proposals' = [proposals EXCEPT ![id] = p]
         /\ UNCHANGED activeProposalId
  BY DEF BatchVote
<1> HIDE DEF p
<1>10. CASE Passed(p) /\ Execute(id, p)
  <2> DEFINE q == [p EXCEPT !.active = FALSE, !.executed = TRUE]
  <2>1. /\ q.totalVotes = p.totalVotes
        /\ q.supportVotes = p.supportVotes
        /\ q.executed /\ ~q.active
    BY <1>5 DEF Proposal
  <2>2. proposals' = [proposals EXCEPT ![id] = q] /\ activeProposalId' = 0
    BY <1>10 DEF Execute
  <2> HIDE DEF q
  <2>3. proposals'[id] = q
    BY <1>2, <1>3, <2>2
  <2>4. \A other \in ProposalId \ {id} : proposals'[other] = proposals[other]
    BY <1>2, <1>3, <2>2
  <2> QED
    BY <1>1, <1>2, <1>7, <1>8, <1>10, <2>1, <2>2, <2>3, <2>4 DEF p, VotesTaken
<1>11. CASE /\ ~Passed(p)
            /\ proposals' = [proposals EXCEPT ![id] = p]
            /\ UNCHANGED activeProposalId
  <2>1. proposals'[id] = p
    BY <1>2, <1>3, <1>11
  <2>2. \A other \in ProposalId \ {id} : proposals'[other] = proposals[other]
    BY <1>2, <1>3, <1>11
  <2> QED
    BY <1>1, <1>2, <1>6, <1>7, <1>8, <1>11, <2>1, <2>2 DEF p, VotesTaken
<1> QED
  BY <1>9, <1>10, <1>11

\* The votes of one proposal are those of distinct witnesses, before and after a
\* batch.
LEMMA VotesAdded ==
  ASSUME TypeOK, BallotInv, NEW id \in ProposalId,
         NEW support \in SUBSET Witness, NEW against \in SUBSET Witness,
         (support \cup against) \cap hasVoted[id] = {}
  PROVE  LET p == WithVotes(id, support, against) IN
         /\ p.totalVotes = Cardinality(hasVoted[id] \cup (support \cup against))
         /\ p.supportVotes <= p.totalVotes
<1> DEFINE voters == support \cup against
           p == WithVotes(id, support, against)
<1>1. proposals[id] \in Proposal /\ hasVoted[id] \in SUBSET Witness
  BY DEF TypeOK, BallotTypeOK
<1>2. IsFiniteSet(hasVoted[id]) /\ IsFiniteSet(voters)
  BY <1>1, GovernanceAssumption, FS_Subset
<1>3. /\ Cardinality(support) \in Nat /\ Cardinality(voters) \in Nat
      /\ Cardinality(support) <= Cardinality(voters)
  BY VotedProposal
<1>4. /\ proposals[id].totalVotes \in Nat /\ proposals[id].supportVotes \in Nat
  BY <1>1 DEF Proposal
<1>5. /\ proposals[id].totalVotes = Cardinality(hasVoted[id])
      /\ proposals[id].supportVotes <= proposals[id].totalVotes
  BY DEF BallotInv, VotesCounted
<1>6. /\ p.totalVotes = proposals[id].totalVotes + Cardinality(voters)
      /\ p.supportVotes = proposals[id].supportVotes + Cardinality(support)
  BY <1>1 DEF WithVotes, Proposal
<1>7. hasVoted[id] \cap voters = {}
  OBVIOUS
<1>8. Cardinality(hasVoted[id] \cup voters)
        = Cardinality(hasVoted[id]) + Cardinality(voters)
  <2>1. Cardinality(hasVoted[id] \cup voters)
          = Cardinality(hasVoted[id]) + Cardinality(voters)
              - Cardinality(hasVoted[id] \cap voters)
    BY <1>2, FS_Union
  <2>2. Cardinality(hasVoted[id] \cap voters) = 0
    BY <1>7, FS_EmptySet
  <2>3. Cardinality(hasVoted[id]) \in Nat
    BY <1>2, FS_CardinalityType
  <2> HIDE DEF voters
  <2> QED
    BY <2>1, <2>2, <2>3, <1>3
<1> HIDE DEF voters, p
<1>10. p.totalVotes = Cardinality(hasVoted[id] \cup voters)
  BY <1>5, <1>6, <1>8
<1>11. p.supportVotes <= p.totalVotes
  BY <1>3, <1>4, <1>5, <1>6
<1> QED
  BY <1>10, <1>11 DEF p, voters

LEMMA VoteBallot ==
  ASSUME TypeOK, BallotInv,
         NEW relayer \in Relayer,
         NEW support \in SUBSET Witness, NEW against \in SUBSET Witness,
         BatchVote(relayer, support, against)
  PROVE  BallotInv'
<1>p. PICK id \in ProposalId : VotesTaken(id, support, against)
  BY VotedBallot
<1> DEFINE voters == support \cup against
           p == WithVotes(id, support, against)
<1>1. /\ id = activeProposalId /\ Exists(id) /\ Open(id)
      /\ voters \subseteq registeredWitnesses
      /\ voters \cap hasVoted[id] = {}
      /\ hasVoted' = [hasVoted EXCEPT ![id] = @ \cup voters]
      /\ voteNonces' = [w \in Witness |-> IF w \in voters THEN voteNonces[w] + 1
                                                           ELSE voteNonces[w]]
      /\ UNCHANGED <<nextProposalId, registeredWitnesses>>
  BY <1>p DEF VotesTaken
<1>2. /\ \A other \in ProposalId \ {id} : proposals'[other] = proposals[other]
      /\ proposals'[id].totalVotes = p.totalVotes
      /\ proposals'[id].supportVotes = p.supportVotes
      /\ proposals'[id].executed <=> Passed(p)
      /\ proposals'[id].active <=> ~Passed(p)
      /\ activeProposalId' = IF Passed(p) THEN 0 ELSE id
  BY <1>p DEF VotesTaken
<1>3. /\ hasVoted \in [ProposalId -> SUBSET Witness]
      /\ voteNonces \in [Witness -> Nat]
      /\ 0 \notin ProposalId
      /\ id \in Nat /\ nextProposalId \in Nat
      /\ MaxProposals \in Nat
  BY <1>1, ValuesAreNat DEF TypeOK, BallotTypeOK, ProposalId
<1>v. /\ p.totalVotes = Cardinality(hasVoted[id] \cup voters)
      /\ p.supportVotes <= p.totalVotes
  <2>1. (support \cup against) \cap hasVoted[id] = {}
    BY <1>1
  <2> QED
    BY <2>1, VotesAdded
<1> HIDE DEF p, voters
<1>4. /\ hasVoted'[id] = hasVoted[id] \cup voters
      /\ \A other \in ProposalId \ {id} : hasVoted'[other] = hasVoted[other]
  BY <1>1, <1>3
<1>5. \A other \in ProposalId \ {id} : ~ Open(other) /\ ~ Open(other)'
  BY <1>2, <1>1 DEF BallotInv, OneActive, Open
<1>6. OneActive'
  <2>1. Open(id)' <=> ~Passed(p)
    BY <1>1, <1>2 DEF Open
  <2> QED
    BY <2>1, <1>1, <1>2, <1>3, <1>5 DEF OneActive
<1>7. OpenUndecided'
  BY <1>2, <1>5 DEF OpenUndecided, Open
<1>8. Unused'
  <2>1. ~ (id >= nextProposalId)
    BY <1>1, <1>3 DEF Exists
  <2> QED
    BY <2>1, <1>1, <1>2, <1>4 DEF BallotInv, Unused
<1>9. VotesCounted'
  <2>1. \A other \in ProposalId :
          /\ hasVoted'[other] \subseteq registeredWitnesses'
          /\ proposals'[other].totalVotes = Cardinality(hasVoted'[other])
          /\ proposals'[other].supportVotes <= proposals'[other].totalVotes
    <3> TAKE other \in ProposalId
    <3>1. CASE other = id
      BY <3>1, <1>1, <1>2, <1>4, <1>v DEF BallotInv, VotesCounted
    <3>2. CASE other # id
      BY <3>2, <1>1, <1>2, <1>4 DEF BallotInv, VotesCounted
    <3> QED
      BY <3>1, <3>2
  <2>2. ASSUME NEW w \in Witness
        PROVE  voteNonces'[w] = Cardinality({n \in ProposalId : w \in hasVoted'[n]})
    <3> DEFINE Voted == {n \in ProposalId : w \in hasVoted[n]}
    <3>1. voteNonces[w] = Cardinality(Voted)
      BY DEF BallotInv, VotesCounted
    <3>2. CASE w \in voters
      <4>1. {n \in ProposalId : w \in hasVoted'[n]} = Voted \cup {id}
        BY <3>2, <1>1, <1>4
      <4>2. id \notin Voted
        BY <3>2, <1>1
      <4>3. IsFiniteSet(Voted)
        <5>1. IsFiniteSet(ProposalId)
          BY <1>3, FS_Interval DEF ProposalId
        <5>2. Voted \in SUBSET ProposalId
          OBVIOUS
        <5> QED
          BY ONLY <5>1, <5>2, FS_Subset
      <4>4. Cardinality(Voted \cup {id}) = Cardinality(Voted) + 1
        BY <4>2, <4>3, FS_AddElement
      <4> QED
        BY <3>1, <3>2, <4>1, <4>4, <1>1
    <3>3. CASE w \notin voters
      <4>1. {n \in ProposalId : w \in hasVoted'[n]} = Voted
        BY <3>3, <1>1, <1>4
      <4> QED
        BY <3>1, <3>3, <4>1, <1>1
    <3> QED
      BY <3>2, <3>3
  <2> QED
    BY <2>1, <2>2 DEF VotesCounted
<1>10. DecidedByVotes'
  <2> SUFFICES ASSUME NEW other \in ProposalId, Exists(other)'
               PROVE  proposals'[other].executed
                        <=> /\ proposals'[other].totalVotes >= minValidVotes
                            /\ proposals'[other].supportVotes * 10000
                                 >= proposals'[other].totalVotes * approvalThresholdBps
    BY DEF DecidedByVotes
  <2>1. CASE other = id
    BY <2>1, <1>2 DEF Passed
  <2>2. CASE other # id
    <3>1. Exists(other)
      BY <1>1 DEF Exists
    <3> QED
      BY <2>2, <3>1, <1>2 DEF BallotInv, DecidedByVotes
  <2> QED
    BY <2>1, <2>2
<1> QED
  BY <1>6, <1>7, <1>8, <1>9, <1>10 DEF BallotInv

LEMMA NextBallot == TypeOK /\ BallotInv /\ [Next]_vars => BallotInv'
  BY BallotSteps, BallotSame, ProposeBallot, FinalizeBallot, VoteBallot

LEMMA Balloting == Spec => [](TypeOK /\ BallotInv)
<1>1. Init => TypeOK /\ Solvent /\ BallotInv
  BY InitTypes, InitBallot
<1>2. TypeOK /\ Solvent /\ BallotInv /\ [Next]_vars => TypeOK' /\ Solvent' /\ BallotInv'
  BY NextTypes, NextBallot
<1> QED
  BY <1>1, <1>2, PTL DEF Spec

\* batchVote takes votes on the only open proposal.
THEOREM IsOneActive == Spec => []OneActive
<1>1. BallotInv => OneActive
  BY DEF BallotInv
<1> QED
  BY <1>1, Balloting, PTL

\* A vote of a proposal is one of a registered witness, counted once, and takes
\* one of the witness's nonces.
THEOREM AreVotesCounted == Spec => []VotesCounted
<1>1. BallotInv => VotesCounted
  BY DEF BallotInv
<1> QED
  BY <1>1, Balloting, PTL

\* A proposal is executed exactly when its votes reach the quorum and the
\* threshold, so finalizeProposal only ever closes one that failed.
THEOREM AreDecidedByVotes == Spec => []DecidedByVotes
<1>1. BallotInv => DecidedByVotes
  BY DEF BallotInv
<1> QED
  BY <1>1, Balloting, PTL

-----------------------------------------------------------------------------
(* What was decided is what was done                                       *)

\* The open proposal is the last one made.
OpenIsLast == \A id \in ProposalId : Open(id) => nextProposalId = id + 1

\* What the ledger adds up.
Values == [id \in ProposalId |-> proposals[id].value]

LedgerMatches == compensation = SumFunctionOnSet(Values, Executed("compensation"))

\* The rate is the first, or the one of the last user count.
RateMatches ==
    \/ /\ Executed("user_count") = {}
       /\ rate = initialUserCount * ratePerUser
    \/ \E id \in Executed("user_count") :
         /\ \A other \in Executed("user_count") : other <= id
         /\ rate = ratePerUser * proposals[id].value

\* The inductive invariant of the ledger and the rate.
EffectsInv == OpenIsLast /\ LedgerMatches /\ RateMatches

LEMMA TimesCommutes == \A m, n \in Nat : m * n = n * m
  OBVIOUS

\* The values of any proposals can be added up.
LEMMA ValuesOn ==
  ASSUME TypeOK, NEW S, S \subseteq ProposalId
  PROVE  NatOn(Values, S)
<1>1. IsFiniteSet(ProposalId)
  BY ValuesAreNat, FS_Interval DEF ProposalId
<1>2. IsFiniteSet(S)
  BY <1>1, FS_Subset
<1>3. \A id \in S : Values[id] \in Nat
  <2>1. \A id \in ProposalId : proposals[id] \in Proposal
    BY DEF TypeOK, BallotTypeOK
  <2> QED
    BY <2>1 DEF Values, Proposal
<1> QED
  BY <1>2, <1>3 DEF NatOn

\* The last user count is the one EffectsMatch chooses.
LEMMA EffectsFollow == TypeOK /\ EffectsInv => EffectsMatch
<1> SUFFICES ASSUME TypeOK, EffectsInv PROVE EffectsMatch
  OBVIOUS
<1> DEFINE done == Executed("user_count")
<1>1. compensation = SumFunctionOnSet([id \in ProposalId |-> proposals[id].value],
                                      Executed("compensation"))
  BY DEF EffectsInv, LedgerMatches, Values
<1>2. CASE done = {} /\ rate = initialUserCount * ratePerUser
  BY <1>1, <1>2 DEF EffectsMatch
<1>3. ASSUME NEW id \in done, \A other \in done : other <= id,
             rate = ratePerUser * proposals[id].value
      PROVE  EffectsMatch
  <2> DEFINE last == CHOOSE n \in done : \A other \in done : other <= n
  <2>1. done \subseteq Nat
    BY ValuesAreNat DEF Executed, ProposalId
  <2> HIDE DEF done
  <2>2. last \in done /\ \A other \in done : other <= last
    BY <1>3
  <2> HIDE DEF last
  <2>3. last = id
    BY <1>3, <2>1, <2>2
  <2>4. done # {} /\ rate = ratePerUser * proposals[last].value
    BY <1>3, <2>3
  <2> QED
    BY <1>1, <2>4 DEF EffectsMatch, last, done
<1> QED
  BY <1>2, <1>3 DEF EffectsInv, RateMatches

\* What is done to proposals that were not executed, and executes none, leaves
\* the ledger and the rate right.
LEMMA EffectsKept ==
  ASSUME TypeOK, LedgerMatches, RateMatches,
         compensation' = compensation, rate' = rate,
         \A id \in ProposalId :
           /\ proposals'[id].executed <=> proposals[id].executed
           /\ proposals[id].executed => /\ proposals'[id].kind = proposals[id].kind
                                        /\ proposals'[id].value = proposals[id].value
  PROVE  LedgerMatches' /\ RateMatches'
<1>1. \A kind : Executed(kind)' = Executed(kind)
  BY DEF Executed
<1>2. \A kind : \A id \in Executed(kind) :
        id \in ProposalId /\ proposals'[id].value = proposals[id].value
  BY DEF Executed
<1>3. \A id \in Executed("compensation") : Values'[id] = Values[id]
  BY <1>2 DEF Values
<1>4. NatOn(Values, Executed("compensation"))
  BY ValuesOn DEF Executed
<1>5. SumFunctionOnSet(Values, Executed("compensation"))
        = SumFunctionOnSet(Values', Executed("compensation"))
  BY <1>3, <1>4, SumOfTheSame
<1>6. LedgerMatches'
  BY <1>1, <1>5 DEF LedgerMatches
<1>7. RateMatches'
  BY <1>1, <1>2 DEF RateMatches
<1> QED
  BY <1>6, <1>7

\* A batch that passes a proposal does what it asks for.
LEMMA EffectsDone ==
  ASSUME TypeOK, BallotInv, EffectsInv, NEW id \in ProposalId, Open(id),
         NEW p \in Proposal, Execute(id, p),
         p.kind = proposals[id].kind, p.value = proposals[id].value
  PROVE  LedgerMatches' /\ RateMatches'
<1> DEFINE q == [p EXCEPT !.active = FALSE, !.executed = TRUE]
<1>t. proposals \in [ProposalId -> Proposal]
  BY DEF TypeOK, BallotTypeOK
<1>1. q.executed /\ q.kind = p.kind /\ q.value = p.value
  BY DEF Proposal
<1>2. proposals' = [proposals EXCEPT ![id] = q]
  BY DEF Execute
<1> HIDE DEF q
<1>3. /\ proposals'[id] = q
      /\ \A other \in ProposalId : other # id => proposals'[other] = proposals[other]
  BY <1>t, <1>2
<1>4. ~proposals[id].executed
  BY DEF BallotInv, OpenUndecided
<1>5. \A kind : id \notin Executed(kind) /\ Executed(kind) \subseteq ProposalId
  BY <1>4 DEF Executed
<1>6. \A kind : Executed(kind)' = IF kind = p.kind THEN Executed(kind) \cup {id}
                                                   ELSE Executed(kind)
  BY <1>1, <1>3, <1>4 DEF Executed
<1>7. \A other \in ProposalId : Values'[other] = Values[other]
  BY <1>1, <1>3 DEF Values
<1>8. CASE /\ p.kind = "user_count"
           /\ UpdateUserCount(p.value)
           /\ UNCHANGED compensation
  <2>1. Executed("compensation")' = Executed("compensation")
    BY <1>6, <1>8
  <2>2. NatOn(Values, Executed("compensation"))
    BY <1>5, ValuesOn
  <2>3. SumFunctionOnSet(Values, Executed("compensation"))
          = SumFunctionOnSet(Values', Executed("compensation"))
    BY <1>5, <1>7, <2>2, SumOfTheSame
  <2>4. LedgerMatches'
    BY <1>8, <2>1, <2>3 DEF EffectsInv, LedgerMatches
  <2>5. Executed("user_count")' = Executed("user_count") \cup {id}
    BY <1>6, <1>8
  <2>6. \A other \in Executed("user_count") : other <= id
    <3> TAKE other \in Executed("user_count")
    <3>1. other \in ProposalId /\ proposals[other].executed
      BY DEF Executed
    <3>2. ~ NoProposal.executed
      BY DEF NoProposal
    <3>3. ~ (other >= nextProposalId)
      BY <3>1, <3>2 DEF BallotInv, Unused
    <3>4. nextProposalId = id + 1
      BY DEF EffectsInv, OpenIsLast
    <3>5. other \in Nat /\ id \in Nat
      BY <3>1, ValuesAreNat DEF ProposalId
    <3> QED
      BY <3>3, <3>4, <3>5
  <2>7. rate' = ratePerUser * proposals'[id].value
    <3>1. rate' = p.value * ratePerUser
      BY <1>8 DEF UpdateUserCount
    <3>2. p.value \in Nat
      BY DEF Proposal
    <3> QED
      BY <1>1, <1>3, <3>1, <3>2, TimesCommutes, ValuesAreNat
  <2>8. id <= id
    BY ValuesAreNat DEF ProposalId
  <2>9. RateMatches'
    BY <2>5, <2>6, <2>7, <2>8 DEF RateMatches
  <2> QED
    BY <2>4, <2>9
<1>9. CASE /\ p.kind = "compensation"
           /\ RecordCompensation(p.value)
           /\ UNCHANGED engine
  <2> DEFINE paid == Executed("compensation")
  <2>1. paid' = paid \cup {id} /\ id \notin paid
    BY <1>5, <1>6, <1>9
  <2>2. paid \cup {id} \subseteq ProposalId /\ paid \subseteq ProposalId
    BY <1>5
  <2>3. NatOn(Values, paid \cup {id})
    <3> HIDE DEF paid
    <3> QED
      BY <2>2, ValuesOn
  <2>4. /\ SumFunctionOnSet(Values, paid) \in Nat
        /\ SumFunctionOnSet(Values, paid \cup {id})
             = Values[id] + SumFunctionOnSet(Values, paid)
    <3> HIDE DEF paid
    <3> QED
      BY <2>1, <2>3, SumOfOneMore
  <2>5. SumFunctionOnSet(Values, paid \cup {id}) = SumFunctionOnSet(Values', paid \cup {id})
    <3>1. \A x \in paid \cup {id} : Values'[x] = Values[x]
      BY <1>7, <2>2
    <3> HIDE DEF paid
    <3> QED
      BY <2>3, <3>1, SumOfTheSame
  <2>6. compensation' = compensation + Values[id]
    BY <1>9 DEF RecordCompensation, Values
  <2>7. compensation = SumFunctionOnSet(Values, paid)
    BY DEF EffectsInv, LedgerMatches
  <2>8. Values[id] \in Nat
    BY <2>3 DEF NatOn
  <2>9. LedgerMatches'
    <3> HIDE DEF paid
    <3>1. compensation' = SumFunctionOnSet(Values', paid \cup {id})
      BY <2>4, <2>5, <2>6, <2>7, <2>8
    <3> QED
      BY <3>1, <2>1 DEF LedgerMatches, paid
  <2>10. Executed("user_count")' = Executed("user_count")
    BY <1>6, <1>9
  <2>11. \A other \in Executed("user_count") : proposals'[other].value = proposals[other].value
    BY <1>3, <1>5
  <2>12. rate' = rate
    BY <1>9 DEF engine
  <2>13. RateMatches'
    BY <2>10, <2>11, <2>12 DEF EffectsInv, RateMatches
  <2> QED
    BY <2>9, <2>13
<1> QED
  BY <1>8, <1>9 DEF Execute

\* A batch counts its votes, and executes the proposal if they pass it.
LEMMA VoteEffects ==
  ASSUME TypeOK, BallotInv, EffectsInv, NEW relayer \in Relayer,
         NEW support \in SUBSET Witness, NEW against \in SUBSET Witness,
         BatchVote(relayer, support, against)
  PROVE  EffectsInv'
<1> DEFINE id == activeProposalId
           p == WithVotes(id, support, against)
<1>1. Open(id) /\ id \in ProposalId
  BY DEF BatchVote, Open
<1>2. proposals \in [ProposalId -> Proposal] /\ proposals[id] \in Proposal
  BY <1>1 DEF TypeOK, BallotTypeOK
<1>3. p \in Proposal
  BY <1>1, VotedProposal
<1>4. /\ p.kind = proposals[id].kind /\ p.value = proposals[id].value
      /\ p.executed = proposals[id].executed /\ p.active = proposals[id].active
  BY <1>2 DEF WithVotes, Proposal
<1>5. \/ Execute(id, p)
      \/ /\ proposals' = [proposals EXCEPT ![id] = p]
         /\ UNCHANGED <<compensation, engine>>
  BY DEF BatchVote
<1>6. UNCHANGED nextProposalId
  BY DEF BatchVote
<1> HIDE DEF id, p
<1>7. OpenIsLast'
  <2>1. \A other \in ProposalId : other # id => proposals'[other] = proposals[other]
    BY <1>2, <1>5 DEF Execute
  <2> QED
    BY <1>1, <1>6, <2>1 DEF EffectsInv, OpenIsLast, Open
<1>8. CASE Execute(id, p)
  BY <1>1, <1>3, <1>4, <1>7, <1>8, EffectsDone DEF EffectsInv
<1>9. CASE /\ proposals' = [proposals EXCEPT ![id] = p]
           /\ UNCHANGED <<compensation, engine>>
  <2>1. \A other \in ProposalId :
          /\ proposals'[other].executed <=> proposals[other].executed
          /\ proposals'[other].kind = proposals[other].kind
          /\ proposals'[other].value = proposals[other].value
    BY <1>2, <1>4, <1>9
  <2> QED
    BY <1>7, <1>9, <2>1, EffectsKept DEF EffectsInv, engine
<1> QED
  BY <1>5, <1>8, <1>9

\* A new proposal takes a number nothing was executed under.
LEMMA ProposeEffects ==
  ASSUME TypeOK, BallotInv, EffectsInv,
         NEW kind \in {"user_count", "compensation"}, NEW value \in Nat,
         Propose(kind, value)
  PROVE  EffectsInv'
<1> DEFINE new == [kind |-> kind, value |-> value, createdAt |-> now, totalVotes |-> 0,
                   supportVotes |-> 0, active |-> TRUE, executed |-> FALSE]
<1>1. /\ nextProposalId \in ProposalId
      /\ proposals \in [ProposalId -> Proposal]
  BY ValuesAreNat DEF TypeOK, BallotTypeOK, Propose, ProposalId
<1>2. /\ proposals' = [proposals EXCEPT ![nextProposalId] = new]
      /\ nextProposalId' = nextProposalId + 1
      /\ UNCHANGED <<compensation, engine>>
  BY DEF Propose
<1>3. ~new.executed
  OBVIOUS
<1> HIDE DEF new
<1>4. /\ proposals'[nextProposalId] = new
      /\ \A id \in ProposalId : id # nextProposalId => proposals'[id] = proposals[id]
  BY <1>1, <1>2
<1>5. ~proposals[nextProposalId].executed
  <2>1. nextProposalId >= nextProposalId /\ ~NoProposal.executed
    BY <1>1, ValuesAreNat DEF ProposalId, NoProposal
  <2> QED
    BY <1>1, <2>1 DEF BallotInv, Unused
<1>6. \A id \in ProposalId : ~Open(id)
  BY DEF Propose, NothingOpen, BallotInv, OneActive
<1>7. OpenIsLast'
  BY <1>2, <1>4, <1>6 DEF OpenIsLast, Open
<1>8. \A id \in ProposalId :
        /\ proposals'[id].executed <=> proposals[id].executed
        /\ proposals[id].executed => /\ proposals'[id].kind = proposals[id].kind
                                     /\ proposals'[id].value = proposals[id].value
  BY <1>3, <1>4, <1>5
<1> QED
  BY <1>2, <1>7, <1>8, EffectsKept DEF EffectsInv, engine

\* A proposal that is finalized is only closed.
LEMMA FinalizeEffects ==
  ASSUME TypeOK, BallotInv, EffectsInv, NEW id \in ProposalId, FinalizeProposal(id)
  PROVE  EffectsInv'
<1>1. /\ proposals' = [proposals EXCEPT ![id].active = FALSE]
      /\ UNCHANGED <<compensation, engine, nextProposalId>>
  BY FinalizedFailed
<1>2. proposals \in [ProposalId -> Proposal] /\ proposals[id] \in Proposal
  BY DEF TypeOK, BallotTypeOK
<1>3. /\ ~proposals'[id].active
      /\ \A other \in ProposalId :
           /\ other # id => proposals'[other] = proposals[other]
           /\ proposals'[other].executed = proposals[other].executed
           /\ proposals'[other].kind = proposals[other].kind
           /\ proposals'[other].value = proposals[other].value
  BY <1>1, <1>2 DEF Proposal
<1>4. OpenIsLast'
  BY <1>1, <1>3 DEF EffectsInv, OpenIsLast, Open
<1> QED
  BY <1>1, <1>3, <1>4, EffectsKept DEF EffectsInv, engine

\* Everything else leaves the proposals, the ledger and the rate alone.
LEMMA EffectSteps ==
  ASSUME TypeOK, BallotInv, [Next]_vars
  PROVE  \/ UNCHANGED <<ballot, compensation, engine>>
         \/ \E kind \in {"user_count", "compensation"}, value \in Nat : Propose(kind, value)
         \/ \E id \in ProposalId : FinalizeProposal(id)
         \/ \E relayer \in Relayer, support, against \in SUBSET Witness :
               BatchVote(relayer, support, against)
<1>1. CASE Tick \/ SetEngineDAO \/ SetSinkDAO
  BY <1>1 DEF Tick, SetEngineDAO, SetSinkDAO
<1>2. CASE \/ \E timestamp \in 1 .. MaxTime : ScheduleBroadcast(timestamp)
           \/ \E index \in DOMAIN broadcasts, hash \in Hash : UploadCertificate(index, hash)
  BY <1>2 DEF ScheduleBroadcast, UploadCertificate
<1>3. CASE \E relayer \in Relayer :
             \/ \E witnesses \in SUBSET Witness : BatchRegister(relayer, witnesses)
             \/ \E max \in RefundCap : SetRelayerRefundPolicy(relayer, max)
             \/ WithdrawRelayerRefund(relayer)
  BY <1>3 DEF BatchRegister, SetRelayerRefundPolicy, WithdrawRelayerRefund
<1>4. CASE \E amount \in 1 .. MaxFunds : Receive(amount)
  BY <1>4 DEF Receive
<1>5. CASE UNCHANGED vars
  BY <1>5 DEF vars
<1>6. CASE \/ \E value \in UserCount : Propose("user_count", value)
           \/ \E value \in Amount : Propose("compensation", value)
  BY <1>6, ValuesAreNat
<1>7. CASE \/ \E id \in ProposalId : FinalizeProposal(id)
           \/ \E relayer \in Relayer, support, against \in SUBSET Witness :
                BatchVote(relayer, support, against)
  BY <1>7
<1> QED
  BY <1>1, <1>2, <1>3, <1>4, <1>5, <1>6, <1>7 DEF Next

LEMMA NextEffects ==
  TypeOK /\ BallotInv /\ EffectsInv /\ [Next]_vars => EffectsInv'
<1> SUFFICES ASSUME TypeOK, BallotInv, EffectsInv, [Next]_vars PROVE EffectsInv'
  OBVIOUS
<1>1. CASE UNCHANGED <<ballot, compensation, engine>>
  <2>1. /\ proposals' = proposals /\ nextProposalId' = nextProposalId
        /\ compensation' = compensation /\ rate' = rate
    BY <1>1 DEF ballot, engine
  <2>2. OpenIsLast'
    BY <2>1 DEF EffectsInv, OpenIsLast, Open
  <2> QED
    BY <2>1, <2>2, EffectsKept DEF EffectsInv
<1> QED
  BY <1>1, EffectSteps, ProposeEffects, FinalizeEffects, VoteEffects

LEMMA InitEffects == Init => EffectsInv
<1> SUFFICES ASSUME Init PROVE EffectsInv
  OBVIOUS
<1>1. \A id \in ProposalId : proposals[id] = NoProposal
  BY DEF Init
<1>2. ~NoProposal.active /\ ~NoProposal.executed
  BY DEF NoProposal
<1>3. OpenIsLast /\ \A kind : Executed(kind) = {}
  BY <1>1, <1>2 DEF OpenIsLast, Open, Executed
<1>4. compensation = 0 /\ rate = initialUserCount * ratePerUser
  BY DEF Init
<1>5. SumFunctionOnSet(Values, {}) = 0
  BY SumOfNone
<1> QED
  BY <1>3, <1>4, <1>5 DEF EffectsInv, LedgerMatches, RateMatches

\* The ledger of CorporateSink holds the compensations of the executed proposals
\* and nothing else, and the rate of StreamingEngine is that of the last user
\* count that was executed: no proposal takes effect twice, or without its votes.
THEOREM DoEffectsMatch == Spec => []EffectsMatch
<1>1. Init => TypeOK /\ BallotInv /\ Solvent /\ EffectsInv
  BY InitTypes, InitBallot, InitEffects
<1>2. TypeOK /\ Solvent /\ BallotInv /\ EffectsInv /\ [Next]_vars
        => TypeOK' /\ Solvent' /\ BallotInv' /\ EffectsInv'
  BY NextTypes, NextBallot, NextEffects
<1>3. TypeOK /\ EffectsInv => EffectsMatch
  BY EffectsFollow
<1> QED
  BY <1>1, <1>2, <1>3, PTL DEF Spec

-----------------------------------------------------------------------------
(* The schedule                                                            *)

\* A broadcast that is scheduled has a time.
Timed == \A i \in DOMAIN broadcasts : broadcasts[i].timestamp \in Nat \ {0}

\* The inductive invariant of the schedule and of the window proposals are
\* made in.
ScheduleInv ==
    /\ Timed
    /\ BroadcastsSpaced
    /\ ProposedInWindow

\* What an upload does to the schedule.
TimesKept ==
    /\ DOMAIN broadcasts' = DOMAIN broadcasts
    /\ Len(broadcasts') = Len(broadcasts)
    /\ (broadcasts' = <<>>) = (broadcasts = <<>>)
    /\ \A i \in DOMAIN broadcasts : broadcasts'[i].timestamp = broadcasts[i].timestamp
    /\ UNCHANGED nextBroadcastTime

\* Only scheduleBroadcast gives the schedule a new time.
LEMMA ScheduleSteps ==
  ASSUME TypeOK, [Next]_vars
  PROVE  \/ TimesKept
         \/ \E timestamp \in 1 .. MaxTime : ScheduleBroadcast(timestamp)
<1>k. UNCHANGED <<broadcasts, nextBroadcastTime>> => TimesKept
  BY DEF TimesKept
<1>1. CASE Tick \/ SetEngineDAO \/ SetSinkDAO
  BY <1>1, <1>k DEF Tick, SetEngineDAO, SetSinkDAO, sink
<1>2. CASE \E timestamp \in 1 .. MaxTime : ScheduleBroadcast(timestamp)
  BY <1>2
<1>3. ASSUME NEW index \in DOMAIN broadcasts, NEW hash \in Hash,
             UploadCertificate(index, hash)
      PROVE  TimesKept
  <2> DEFINE Broadcast == [timestamp : Nat, certificate : Hash \cup {NoHash}]
             changed == [broadcasts[index] EXCEPT !.certificate = hash]
  <2>1. broadcasts \in Seq(Broadcast) /\ index \in 1 .. Len(broadcasts)
    BY DEF TypeOK, SinkTypeOK
  <2>2. broadcasts[index] \in Broadcast
    <3> HIDE DEF Broadcast
    <3> QED BY <2>1
  <2>3. changed \in Broadcast /\ changed.timestamp = broadcasts[index].timestamp
    BY <2>2
  <2>4. broadcasts' = [broadcasts EXCEPT ![index] = changed] /\ UNCHANGED nextBroadcastTime
    BY <1>3 DEF UploadCertificate
  <2> HIDE DEF Broadcast, changed
  <2>5. /\ Len(broadcasts') = Len(broadcasts)
        /\ broadcasts' \in Seq(Broadcast)
        /\ \A j \in 1 .. Len(broadcasts) :
             broadcasts'[j] = IF j = index THEN changed ELSE broadcasts[j]
    BY <2>1, <2>3, <2>4, ExceptSeq
  <2>6. DOMAIN broadcasts' = DOMAIN broadcasts /\ DOMAIN broadcasts = 1 .. Len(broadcasts)
    BY <2>1, <2>5
  <2>7. broadcasts' # <<>> /\ broadcasts # <<>>
    BY <2>1, <2>5
  <2> QED
    BY <2>3, <2>4, <2>5, <2>6, <2>7 DEF TimesKept
<1>4. CASE \E kind \in {"user_count", "compensation"}, value \in UserCount \cup Amount :
             Propose(kind, value)
  BY <1>4, <1>k DEF Propose, sink
<1>5. CASE \E id \in ProposalId : FinalizeProposal(id)
  BY <1>5, <1>k DEF FinalizeProposal, sink
<1>6. CASE \E relayer \in Relayer :
             \/ \E witnesses \in SUBSET Witness : BatchRegister(relayer, witnesses)
             \/ \E support, against \in SUBSET Witness : BatchVote(relayer, support, against)
             \/ \E max \in RefundCap : SetRelayerRefundPolicy(relayer, max)
             \/ WithdrawRelayerRefund(relayer)
  BY <1>6, <1>k DEF BatchRegister, BatchVote, SetRelayerRefundPolicy,
                    WithdrawRelayerRefund, sink
<1>7. CASE \E amount \in 1 .. MaxFunds : Receive(amount)
  BY <1>7, <1>k DEF Receive, sink
<1>8. CASE UNCHANGED vars
  BY <1>8, <1>k DEF vars, sink
<1> QED
  BY <1>1, <1>2, <1>3, <1>4, <1>5, <1>6, <1>7, <1>8 DEF Next

\* A broadcast is scheduled after the last by the interval, hence after all.
LEMMA ScheduledLast ==
  ASSUME TypeOK, ScheduleInv, NEW timestamp \in 1 .. MaxTime,
         ScheduleBroadcast(timestamp)
  PROVE  /\ Timed' /\ BroadcastsSpaced'
         /\ DOMAIN broadcasts \subseteq DOMAIN broadcasts'
         /\ \A i \in DOMAIN broadcasts : broadcasts'[i] = broadcasts[i]
<1> DEFINE Broadcast == [timestamp : Nat, certificate : Hash \cup {NoHash}]
           new == [timestamp |-> timestamp, certificate |-> NoHash]
           n == Len(broadcasts)
<1>1. /\ broadcasts \in Seq(Broadcast)
      /\ timestamp \in Nat \ {0} /\ minBroadcastInterval \in Nat
      /\ nextBroadcastTime \in Nat
  BY ValuesAreNat DEF TypeOK, SinkTypeOK
<1>2. new \in Broadcast /\ new.timestamp = timestamp
  BY <1>1
<1>3. broadcasts' = Append(broadcasts, new) /\ nextBroadcastTime' = timestamp
  BY DEF ScheduleBroadcast
<1>m. nextBroadcastTime = 0 \/ timestamp >= nextBroadcastTime + minBroadcastInterval
  BY DEF ScheduleBroadcast, MayBroadcast
<1> HIDE DEF Broadcast, new
<1>4. /\ n \in Nat
      /\ DOMAIN broadcasts = 1 .. n /\ DOMAIN broadcasts' = 1 .. (n + 1)
      /\ Len(broadcasts') = n + 1
      /\ broadcasts'[n + 1] = new
      /\ \A i \in 1 .. n : broadcasts'[i] = broadcasts[i]
  BY <1>1, <1>2, <1>3
<1>5. Timed'
  <2> SUFFICES ASSUME NEW i \in 1 .. (n + 1)
               PROVE  broadcasts'[i].timestamp \in Nat \ {0}
    BY <1>4 DEF Timed
  <2>1. CASE i \in 1 .. n
    BY <2>1, <1>4 DEF ScheduleInv, Timed
  <2>2. CASE i = n + 1
    BY <2>2, <1>1, <1>2, <1>4
  <2> QED
    BY <2>1, <2>2, <1>4
<1>6. \A i \in 1 .. n : broadcasts[i].timestamp + minBroadcastInterval <= timestamp
  <2> TAKE i \in 1 .. n
  <2>1. n \in 1 .. n /\ broadcasts # <<>>
    BY <1>1, <1>4
  <2>2. nextBroadcastTime = broadcasts[n].timestamp
    BY <2>1 DEF ScheduleInv, BroadcastsSpaced
  <2>3. broadcasts[n].timestamp \in Nat \ {0} /\ broadcasts[i].timestamp \in Nat
    BY <2>1, <1>4 DEF ScheduleInv, Timed
  <2>4. timestamp >= broadcasts[n].timestamp + minBroadcastInterval
    BY <1>m, <2>2, <2>3
  <2>5. CASE i = n
    BY <2>3, <2>4, <2>5, <1>1
  <2>6. CASE i # n
    <3>0. i \in Nat /\ n \in Nat /\ i <= n
      BY <1>4
    <3>1. i < n
      BY ONLY <3>0, <2>6
    <3>2. broadcasts[i].timestamp + minBroadcastInterval <= broadcasts[n].timestamp
      BY <3>1, <2>1, <1>4 DEF ScheduleInv, BroadcastsSpaced
    <3> QED
      BY <3>2, <2>3, <2>4, <1>1
  <2> QED
    BY <2>5, <2>6
<1>7. BroadcastsSpaced'
  <2>1. \A i, j \in 1 .. (n + 1) :
          i < j => broadcasts'[i].timestamp + minBroadcastInterval
                     <= broadcasts'[j].timestamp
    <3> TAKE i, j \in 1 .. (n + 1)
    <3> HAVE i < j
    <3>1. i \in 1 .. n
      BY <1>4
    <3>2. CASE j \in 1 .. n
      BY <3>1, <3>2, <1>4 DEF ScheduleInv, BroadcastsSpaced
    <3>3. CASE j = n + 1
      BY <3>1, <3>3, <1>2, <1>4, <1>6
    <3> QED
      BY <3>2, <3>3, <1>4
  <2>2. broadcasts' # <<>> /\ broadcasts'[Len(broadcasts')].timestamp = timestamp
    BY <1>1, <1>2, <1>3, <1>4
  <2> QED
    BY <2>1, <2>2, <1>3, <1>4 DEF BroadcastsSpaced
<1> QED
  BY <1>4, <1>5, <1>7

\* A proposal is only made in a window; its time never changes.
LEMMA CreatedSteps ==
  ASSUME TypeOK, BallotInv, [Next]_vars,
         NEW id \in ProposalId, Exists(id)'
  PROVE  \/ Exists(id) /\ proposals'[id].createdAt = proposals[id].createdAt
         \/ WindowOpen(now) /\ proposals'[id].createdAt = now /\ UNCHANGED broadcasts
<1>t. /\ proposals \in [ProposalId -> Proposal] /\ proposals[id] \in Proposal
      /\ nextProposalId \in Nat /\ id \in Nat
      /\ MaxProposals \in Nat
  BY ValuesAreNat DEF TypeOK, BallotTypeOK, ProposalId
<1>1. CASE UNCHANGED ballot
  BY <1>1 DEF ballot, Exists
<1>2. ASSUME NEW kind \in {"user_count", "compensation"}, NEW value \in Nat,
             Propose(kind, value)
      PROVE  \/ Exists(id) /\ proposals'[id].createdAt = proposals[id].createdAt
             \/ WindowOpen(now) /\ proposals'[id].createdAt = now /\ UNCHANGED broadcasts
  <2> DEFINE new == [kind |-> kind, value |-> value, createdAt |-> now, totalVotes |-> 0,
                     supportVotes |-> 0, active |-> TRUE, executed |-> FALSE]
  <2>1. /\ WindowOpen(now) /\ UNCHANGED broadcasts
        /\ nextProposalId' = nextProposalId + 1
        /\ proposals' = [proposals EXCEPT ![nextProposalId] = new]
    BY <1>2 DEF Propose, sink
  <2>2. new.createdAt = now
    OBVIOUS
  <2> HIDE DEF new
  <2>3. CASE id = nextProposalId
    BY <2>1, <2>2, <2>3, <1>t
  <2>4. CASE id # nextProposalId
    <3>1. Exists(id)
      BY <2>1, <2>4, <1>t DEF Exists
    <3>2. proposals'[id] = proposals[id]
      BY <2>1, <2>4, <1>t
    <3> QED
      BY <3>1, <3>2
  <2> QED
    BY <2>3, <2>4
<1>3. ASSUME NEW other \in ProposalId, FinalizeProposal(other)
      PROVE  Exists(id) /\ proposals'[id].createdAt = proposals[id].createdAt
  <2>1. /\ proposals' = [proposals EXCEPT ![other].active = FALSE]
        /\ UNCHANGED nextProposalId
    BY <1>3, FinalizedFailed
  <2>2. Exists(id)
    BY <2>1 DEF Exists
  <2>3. CASE id = other
    BY <2>1, <2>2, <2>3, <1>t DEF Proposal
  <2>4. CASE id # other
    BY <2>1, <2>2, <2>4, <1>t
  <2> QED
    BY <2>2, <2>3, <2>4
<1>4. ASSUME NEW relayer \in Relayer,
             NEW support \in SUBSET Witness, NEW against \in SUBSET Witness,
             BatchVote(relayer, support, against)
      PROVE  Exists(id) /\ proposals'[id].createdAt = proposals[id].createdAt
  <2> DEFINE p == WithVotes(activeProposalId, support, against)
             q == [p EXCEPT !.active = FALSE, !.executed = TRUE]
  <2>1. activeProposalId \in ProposalId
    BY <1>4 DEF BatchVote, Open
  <2>2. proposals[activeProposalId] \in Proposal
    BY <1>t, <2>1
  <2>3. p \in Proposal
    BY <2>1, VotedProposal
  <2>4. p.createdAt = proposals[activeProposalId].createdAt
    BY <2>2 DEF WithVotes, Proposal
  <2>5. UNCHANGED nextProposalId
    BY <1>4 DEF BatchVote
  <2>6. \/ proposals' = [proposals EXCEPT ![activeProposalId] = p]
        \/ proposals' = [proposals EXCEPT ![activeProposalId] = q]
    BY <1>4 DEF BatchVote, Execute
  <2> HIDE DEF p
  <2>7. q.createdAt = p.createdAt
    BY <2>3 DEF Proposal
  <2> HIDE DEF q
  <2>8. Exists(id)
    BY <2>5 DEF Exists
  <2>9. proposals'[id].createdAt = proposals[id].createdAt
    BY <1>t, <2>1, <2>4, <2>6, <2>7
  <2> QED
    BY <2>8, <2>9
<1> QED
  BY <1>1, <1>2, <1>3, <1>4, BallotSteps

LEMMA InitSchedule == Init => ScheduleInv
<1> SUFFICES ASSUME Init PROVE ScheduleInv
  OBVIOUS
<1>1. broadcasts = <<>> /\ nextBroadcastTime = 0
  BY DEF Init
<1>2. Timed /\ BroadcastsSpaced
  BY <1>1 DEF Timed, BroadcastsSpaced
<1>3. \A id \in ProposalId : ~Exists(id)
  BY ValuesAreNat DEF Exists, Init, ProposalId
<1> QED
  BY <1>2, <1>3 DEF ScheduleInv, ProposedInWindow

LEMMA NextSchedule ==
  TypeOK /\ BallotInv /\ ScheduleInv /\ [Next]_vars => ScheduleInv'
<1> SUFFICES ASSUME TypeOK, BallotInv, ScheduleInv, [Next]_vars PROVE ScheduleInv'
  OBVIOUS
<1>1. /\ Timed' /\ BroadcastsSpaced'
      /\ DOMAIN broadcasts \subseteq DOMAIN broadcasts'
      /\ \A i \in DOMAIN broadcasts : broadcasts'[i].timestamp = broadcasts[i].timestamp
  <2>1. CASE TimesKept
    <3>1. Timed'
      BY <2>1 DEF TimesKept, ScheduleInv, Timed
    <3>2. \A i, j \in DOMAIN broadcasts' :
            i < j => broadcasts'[i].timestamp + minBroadcastInterval
                       <= broadcasts'[j].timestamp
      BY <2>1 DEF TimesKept, ScheduleInv, BroadcastsSpaced
    <3>3. nextBroadcastTime' = IF broadcasts' = <<>> THEN 0
                               ELSE broadcasts'[Len(broadcasts')].timestamp
      <4>1. CASE broadcasts = <<>>
        BY <4>1, <2>1 DEF TimesKept, ScheduleInv, BroadcastsSpaced
      <4>2. CASE broadcasts # <<>>
        <5>1. Len(broadcasts) \in DOMAIN broadcasts
          BY <4>2 DEF TypeOK, SinkTypeOK
        <5> QED
          BY <4>2, <5>1, <2>1 DEF TimesKept, ScheduleInv, BroadcastsSpaced
      <4> QED
        BY <4>1, <4>2
    <3> QED
      BY <2>1, <3>1, <3>2, <3>3 DEF TimesKept, BroadcastsSpaced
  <2>2. ASSUME NEW timestamp \in 1 .. MaxTime, ScheduleBroadcast(timestamp)
        PROVE  /\ Timed' /\ BroadcastsSpaced'
               /\ DOMAIN broadcasts \subseteq DOMAIN broadcasts'
               /\ \A i \in DOMAIN broadcasts :
                    broadcasts'[i].timestamp = broadcasts[i].timestamp
    BY <2>2, ScheduledLast
  <2> QED
    BY <2>1, <2>2, ScheduleSteps
<1>2. ASSUME NEW id \in ProposalId, Exists(id)'
      PROVE  \E i \in DOMAIN broadcasts' :
               /\ proposals'[id].createdAt >= broadcasts'[i].timestamp
               /\ proposals'[id].createdAt <= broadcasts'[i].timestamp + broadcastWindow
  <2>1. CASE Exists(id) /\ proposals'[id].createdAt = proposals[id].createdAt
    <3>1. PICK i \in DOMAIN broadcasts :
            /\ proposals[id].createdAt >= broadcasts[i].timestamp
            /\ proposals[id].createdAt <= broadcasts[i].timestamp + broadcastWindow
      BY <2>1 DEF ScheduleInv, ProposedInWindow
    <3> QED
      BY <1>1, <2>1, <3>1
  <2>2. CASE WindowOpen(now) /\ proposals'[id].createdAt = now /\ UNCHANGED broadcasts
    <3>1. nextBroadcastTime # 0
      BY <2>2 DEF WindowOpen
    <3>2. /\ broadcasts # <<>>
          /\ nextBroadcastTime = broadcasts[Len(broadcasts)].timestamp
      BY <3>1 DEF ScheduleInv, BroadcastsSpaced
    <3>3. Len(broadcasts) \in DOMAIN broadcasts
      BY <3>2 DEF TypeOK, SinkTypeOK
    <3> QED
      BY <2>2, <3>2, <3>3 DEF WindowOpen
  <2> QED
    BY <1>2, <2>1, <2>2, CreatedSteps
<1> QED
  BY <1>1, <1>2 DEF ScheduleInv, ProposedInWindow

LEMMA Scheduling == Spec => []ScheduleInv
<1>1. Init => TypeOK /\ Solvent /\ BallotInv /\ ScheduleInv
  BY InitTypes, InitBallot, InitSchedule
<1>2. TypeOK /\ Solvent /\ BallotInv /\ ScheduleInv /\ [Next]_vars
        => TypeOK' /\ Solvent' /\ BallotInv' /\ ScheduleInv'
  BY NextTypes, NextBallot, NextSchedule
<1> QED
  BY <1>1, <1>2, PTL DEF Spec

\* Every proposal was made in the window of a broadcast.
THEOREM WereProposedInWindow == Spec => []ProposedInWindow
<1>1. ScheduleInv => ProposedInWindow
  BY DEF ScheduleInv
<1> QED
  BY <1>1, Scheduling, PTL

\* The time is in the window that the i-th broadcast opens.
InWindow(i, time) == /\ time >= broadcasts[i].timestamp
                     /\ time <= broadcasts[i].timestamp + broadcastWindow

ProposedInOneWindow ==
    \A id \in ProposalId :
        Exists(id) =>
            \E i \in DOMAIN broadcasts :
                /\ InWindow(i, proposals[id].createdAt)
                /\ \A j \in DOMAIN broadcasts :
                     InWindow(j, proposals[id].createdAt) => j = i

\* Where the window is shorter than the interval between two broadcasts, which
\* the constructor of CorporateSink leaves to the deployment, a proposal belongs to
\* one broadcast: no time is in the windows of two.
THEOREM ProposalsHaveOneBroadcast ==
  ASSUME broadcastWindow < minBroadcastInterval
  PROVE  Spec => []ProposedInOneWindow
<1>1. TypeOK /\ ScheduleInv => ProposedInOneWindow
  <2> SUFFICES ASSUME TypeOK, ScheduleInv, NEW id \in ProposalId, Exists(id)
               PROVE  \E i \in DOMAIN broadcasts :
                        /\ InWindow(i, proposals[id].createdAt)
                        /\ \A j \in DOMAIN broadcasts :
                             InWindow(j, proposals[id].createdAt) => j = i
    BY DEF ProposedInOneWindow
  <2> DEFINE time == proposals[id].createdAt
  <2>1. PICK i \in DOMAIN broadcasts : InWindow(i, time)
    BY DEF ScheduleInv, ProposedInWindow, InWindow
  <2>2. /\ minBroadcastInterval \in Nat /\ broadcastWindow \in Nat
        /\ \A n \in DOMAIN broadcasts : broadcasts[n].timestamp \in Nat
        /\ DOMAIN broadcasts \subseteq Nat
    <3>1. DOMAIN broadcasts = 1 .. Len(broadcasts)
      BY DEF TypeOK, SinkTypeOK
    <3> QED
      BY <3>1, GovernanceAssumption DEF ScheduleInv, Timed
  <2>3. time \in Nat
    BY DEF TypeOK, BallotTypeOK, Proposal
  <2>4. \A m, n \in DOMAIN broadcasts :
          m < n => broadcasts[m].timestamp + minBroadcastInterval
                     <= broadcasts[n].timestamp
    BY DEF ScheduleInv, BroadcastsSpaced
  <2> HIDE DEF time
  <2>5. ASSUME NEW j \in DOMAIN broadcasts, InWindow(j, time), j # i
        PROVE  FALSE
    <3>1. CASE i < j
      BY <2>1, <2>2, <2>3, <2>4, <2>5, <3>1 DEF InWindow
    <3>2. CASE j < i
      BY <2>1, <2>2, <2>3, <2>4, <2>5, <3>2 DEF InWindow
    <3> QED
      BY <2>2, <2>5, <3>1, <3>2
  <2> QED
    BY <2>1, <2>5 DEF time
<1> QED
  BY <1>1, Typing, Scheduling, PTL

-----------------------------------------------------------------------------
(* The checkpoints of StreamingEngine implement Accrual                    *)

\* A product distributes over the time that has passed before and after a block.
LEMMA Distributes ==
  ASSUME NEW a \in Int, NEW b \in Int, NEW c \in Int
  PROVE  (a + b) * c = a * c + b * c
  OBVIOUS

\* Only an executed proposal touches the engine, and time is no part of it.
LEMMA EngineSteps ==
  ASSUME TypeOK, BallotInv, [Next]_vars
  PROVE  \/ UNCHANGED <<now, engine>>
         \/ now' > now /\ now' \in Nat /\ UNCHANGED engine
         \/ /\ UNCHANGED now
            /\ \E n \in Nat : UpdateUserCount(n)
<1>1. CASE Tick
  <2>1. now' > now /\ now' \in Nat
    BY <1>1, ValuesAreNat DEF Tick, TypeOK, SinkTypeOK
  <2> QED
    BY <2>1, <1>1 DEF Tick
<1>2. CASE SetEngineDAO \/ SetSinkDAO
  BY <1>2 DEF SetEngineDAO, SetSinkDAO
<1>3. CASE \/ \E timestamp \in 1 .. MaxTime : ScheduleBroadcast(timestamp)
           \/ \E index \in DOMAIN broadcasts, hash \in Hash : UploadCertificate(index, hash)
  BY <1>3 DEF ScheduleBroadcast, UploadCertificate
<1>4. CASE \E kind \in {"user_count", "compensation"}, value \in UserCount \cup Amount :
             Propose(kind, value)
  BY <1>4 DEF Propose
<1>5. ASSUME NEW id \in ProposalId, FinalizeProposal(id)
      PROVE  UNCHANGED <<now, engine>>
  BY <1>5, FinalizedFailed DEF FinalizeProposal
<1>6. ASSUME NEW relayer \in Relayer,
             NEW support \in SUBSET Witness, NEW against \in SUBSET Witness,
             BatchVote(relayer, support, against)
      PROVE  \/ UNCHANGED <<now, engine>>
             \/ UNCHANGED now /\ \E n \in Nat : UpdateUserCount(n)
  <2> DEFINE p == WithVotes(activeProposalId, support, against)
  <2>1. activeProposalId \in ProposalId
    BY <1>6 DEF BatchVote, Open
  <2>2. p.value \in Nat
    BY <2>1, VotedProposal DEF Proposal
  <2>3. UNCHANGED now
    BY <1>6 DEF BatchVote
  <2>4. UNCHANGED engine \/ UpdateUserCount(p.value)
    BY <1>6 DEF BatchVote, Execute
  <2> HIDE DEF p
  <2> QED
    BY <2>2, <2>3, <2>4
<1>7. CASE \E relayer \in Relayer :
             \/ \E witnesses \in SUBSET Witness : BatchRegister(relayer, witnesses)
             \/ \E max \in RefundCap : SetRelayerRefundPolicy(relayer, max)
             \/ WithdrawRelayerRefund(relayer)
  BY <1>7 DEF BatchRegister, SetRelayerRefundPolicy, WithdrawRelayerRefund
<1>8. CASE \E amount \in 1 .. MaxFunds : Receive(amount)
  BY <1>8 DEF Receive
<1>9. CASE UNCHANGED vars
  BY <1>9 DEF vars
<1> QED
  BY <1>1, <1>2, <1>3, <1>4, <1>5, <1>6, <1>7, <1>8, <1>9 DEF Next

LEMMA InitAccrues == Init => Accrues!Init
<1> SUFFICES ASSUME Init PROVE Accrues!Init
  OBVIOUS
<1>1. /\ now = 1 /\ checkpointTime = now /\ baseBalance = 0
      /\ rate = initialUserCount * ratePerUser
  BY DEF Init
<1>2. rate \in Nat
  BY <1>1, TimesNat, ValuesAreNat
<1>3. 0 * rate = 0
  BY <1>2
<1>4. CurrentBalance = 0
  BY <1>1, <1>3 DEF CurrentBalance
<1> QED
  BY <1>1, <1>4 DEF Accrues!Init

LEMMA NextAccrues ==
  TypeOK /\ BallotInv /\ [Next]_vars => [Accrues!Next]_(Accrues!vars)
<1> SUFFICES ASSUME TypeOK, BallotInv, [Next]_vars
             PROVE  [Accrues!Next]_(Accrues!vars)
  OBVIOUS
<1>t. /\ now \in Nat /\ checkpointTime \in Nat /\ baseBalance \in Nat /\ rate \in Nat
  BY DEF TypeOK, SinkTypeOK, EngineTypeOK
<1>1. CASE UNCHANGED <<now, engine>>
  <2>1. UNCHANGED <<now, rate, CurrentBalance>>
    BY <1>1 DEF engine, CurrentBalance
  <2> QED
    BY <2>1 DEF Accrues!vars
<1>2. CASE now' > now /\ now' \in Nat /\ UNCHANGED engine
  <2>1. now' - checkpointTime = (now - checkpointTime) + (now' - now)
    BY <1>2, <1>t
  <2>2. (now' - checkpointTime) * rate
          = (now - checkpointTime) * rate + (now' - now) * rate
    BY <2>1, <1>2, <1>t, Distributes
  <2>3. /\ (now - checkpointTime) * rate \in Int
        /\ (now' - now) * rate \in Int
    BY <1>2, <1>t
  <2>4. CurrentBalance' = CurrentBalance + (now' - now) * rate
    <3>1. CurrentBalance' = baseBalance + (now' - checkpointTime) * rate
      BY <1>2 DEF engine, CurrentBalance
    <3> QED
      BY <3>1, <2>2, <2>3, <1>t DEF CurrentBalance
  <2>5. UNCHANGED rate
    BY <1>2 DEF engine
  <2>6. now' = now + (now' - now)
    <3>1. \A m, n \in Nat : n = m + (n - m)
      OBVIOUS
    <3> QED
      BY <1>2, <1>t, <3>1
  <2>7. Accrues!Pass(now' - now)
    BY ONLY <2>4, <2>5, <2>6 DEF Accrues!Pass
  <2> QED
    BY <1>2, <2>7 DEF Accrues!Next
<1>3. CASE UNCHANGED now /\ \E n \in Nat : UpdateUserCount(n)
  <2>1. PICK n \in Nat : UpdateUserCount(n)
    BY <1>3
  <2>2. /\ baseBalance' = CurrentBalance /\ checkpointTime' = now
        /\ rate' = n * ratePerUser
    BY <2>1 DEF UpdateUserCount
  <2>3. rate' \in Nat
    BY <2>2, ValuesAreNat, TimesNat
  <2>4. (now' - checkpointTime') * rate' = 0
    BY <1>3, <1>t, <2>2, <2>3
  <2>5. CurrentBalance' = baseBalance' + (now' - checkpointTime') * rate'
    BY DEF CurrentBalance
  <2>6. CurrentBalance' = CurrentBalance
    BY <2>2, <2>4, <2>5, BalanceNat
  <2> QED
    BY <1>3, <2>6 DEF Accrues!Next, Accrues!SetRate
<1> QED
  BY <1>1, <1>2, <1>3, EngineSteps

\* The balance StreamingEngine computes from its last checkpoint is the one that
\* grows by the rate every second, through every change of rate.
THEOREM Implements == Spec => ImplementsAccrual
<1>1. Init => Accrues!Init
  BY InitAccrues
<1>2. TypeOK /\ BallotInv /\ [Next]_vars => [Accrues!Next]_(Accrues!vars)
  BY NextAccrues
<1> QED
  BY <1>1, <1>2, Balloting, PTL DEF Spec, ImplementsAccrual, Accrues!Spec
=============================================================================
