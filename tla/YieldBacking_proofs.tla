------------------------- MODULE YieldBacking_proofs -------------------------
(* Where the assets are: the properties of YieldBacking and the refinement of  *)
(* FundLedger, from the phases of YieldPhases, for any deployment and with     *)
(* every log and report replayable for ever.                                   *)
EXTENDS YieldBacking, YieldPhases_proofs, SumsAndQuotients

----------------------------------------------------------------------------
(* The sums. *)

\* The index sets of the sums are finite.
LEMMA FiniteDeployment == IsFiniteSet(Chains) /\ IsFiniteSet(Strategies)
<1>1. IsFiniteSet({ParentChain}) /\ IsFiniteSet(Chains)
  BY FS_Singleton, FS_Union, FiniteAssumption DEF Chains
<1>2. IsFiniteSet(Protocols \X Chains)
  BY <1>1, FS_Product, FiniteAssumption
<1> DEFINE f == [x \in Protocols \X Chains |-> Strategy(x[1], x[2])]
<1>3. f \in [Protocols \X Chains -> Strategies]
  BY DEF Strategies, Strategy
<1>4. ASSUME NEW s \in Strategies
      PROVE  \E x \in Protocols \X Chains : f[x] = s
  <2>1. <<s.protocolId, s.chainSelector>> \in Protocols \X Chains
    BY StrategyFacts
  <2>2. f[<<s.protocolId, s.chainSelector>>] = s
    BY <2>1, StrategyFacts
  <2> QED
    BY <2>1, <2>2
<1> HIDE DEF f
<1>5. f \in Surjection(Protocols \X Chains, Strategies)
  BY <1>3, <1>4 DEF Surjection
<1>6. IsFiniteSet(Strategies)
  BY <1>2, <1>5, FS_Surjection
<1> QED
  BY <1>1, <1>6

\* The amounts the sums run over are naturals.
LEMMA BackingTypes ==
    ASSUME TypeInv
    PROVE  /\ position \in [Strategies -> Nat]
           /\ recovery \in [Chains -> Recoveries]
           /\ \A c \in Chains : HeldInRecovery(c) \in Nat /\ recovery[c].amount \in Nat
           /\ ccip \subseteq Messages
           /\ \A m \in ccip : m.amount \in Nat
           /\ InAdapters \in Nat /\ InRecovery \in Nat
<1>1. /\ position \in [Strategies -> Nat]
      /\ recovery \in [Chains -> Recoveries]
      /\ ccip \subseteq Messages
  BY Zenon DEF TypeInv, TypeOK, BaseVaultTypeOK
<1>2. \A c \in Chains : HeldInRecovery(c) \in Nat /\ recovery[c].amount \in Nat
  BY <1>1 DEF HeldInRecovery, Recoveries
<1>3. \A m \in ccip : m.amount \in Nat
  BY <1>1 DEF Messages
<1>4. InAdapters \in Nat
  <2>1. PICK f \in [Strategies -> Nat] : f = position
    BY <1>1
  <2> QED
    BY <2>1, FiniteDeployment, TotalNat DEF InAdapters
<1>5. InRecovery \in Nat
  <2>1. PICK f \in [Chains -> Nat] : f = [c \in Chains |-> HeldInRecovery(c)]
    BY <1>2
  <2> QED
    BY <2>1, FiniteDeployment, TotalNat DEF InRecovery
<1> QED
  BY <1>1, <1>2, <1>3, <1>4, <1>5

\* So are those after a step.
LEMMA TypesAfter ==
    ASSUME TypeInv'
    PROVE  /\ position' \in [Strategies -> Nat] /\ recovery' \in [Chains -> Recoveries]
           /\ \A c \in Chains : HeldInRecovery(c)' \in Nat
           /\ InAdapters' \in Nat /\ InRecovery' \in Nat
<1>1. position' \in [Strategies -> Nat] /\ recovery' \in [Chains -> Recoveries]
  BY DEF TypeInv, TypeOK, BaseVaultTypeOK
<1>2. \A c \in Chains : HeldInRecovery(c)' \in Nat
  BY <1>1 DEF HeldInRecovery, Recoveries
<1>3. PICK f \in [Strategies -> Nat], g \in [Chains -> Nat] :
        f = position' /\ g = [c \in Chains |-> HeldInRecovery(c)']
  BY <1>1, <1>2
<1>4. SumFunction(f) \in Nat /\ SumFunction(g) \in Nat
  BY FiniteDeployment, TotalNat
<1> QED
  BY <1>1, <1>2, <1>3, <1>4 DEF InAdapters, InRecovery

\* What a step does to one position it does to the sum of them ...
LEMMA AdaptersDiffer ==
    ASSUME TypeInv, TypeInv', NEW s \in Strategies,
           \A t \in Strategies : t # s => position'[t] = position[t]
    PROVE  InAdapters' + position[s] = InAdapters + position'[s]
<1>1. PICK f \in [Strategies -> Nat] : f = position
  BY BackingTypes
<1>2. PICK g \in [Strategies -> Nat] : g = position'
  BY TypesAfter
<1>3. SumFunction(g) + f[s] = SumFunction(f) + g[s]
  BY <1>1, <1>2, FiniteDeployment, TotalUpdate
<1> QED
  BY <1>1, <1>2, <1>3 DEF InAdapters

\* ... and to one recovery to what all of them hold.
LEMMA RecoveriesDiffer ==
    ASSUME TypeInv, TypeInv', NEW c \in Chains,
           \A d \in Chains : d # c => recovery'[d] = recovery[d]
    PROVE  InRecovery' + HeldInRecovery(c) = InRecovery + HeldInRecovery(c)'
<1>1. PICK f \in [Chains -> Nat] : f = [d \in Chains |-> HeldInRecovery(d)]
  BY BackingTypes
<1>2. PICK g \in [Chains -> Nat] : g = [d \in Chains |-> HeldInRecovery(d)']
  BY TypesAfter
<1>3. \A d \in Chains : d # c => g[d] = f[d]
  BY <1>1, <1>2 DEF HeldInRecovery
<1>4. SumFunction(g) + f[c] = SumFunction(f) + g[c]
  BY <1>3, FiniteDeployment, TotalUpdate
<1>5. f[c] = HeldInRecovery(c) /\ g[c] = HeldInRecovery(c)'
  BY <1>1, <1>2
<1> QED
  BY <1>1, <1>2, <1>4, <1>5 DEF InRecovery

\* With no message there is nothing in the lanes.
LEMMA EmptyLanes ==
    /\ ccip = {} => InLanes = 0
    /\ ccip' = {} => InLanes' = 0
<1>1. /\ ccip = {} => DOMAIN [m \in ccip |-> m.amount] = {}
      /\ ccip' = {} => DOMAIN [m \in ccip' |-> m.amount] = {}
  OBVIOUS
<1> QED
  BY <1>1, SumEmpty DEF InLanes, SumFunction

\* With one there is its amount.
LEMMA OneMessage ==
    ASSUME NEW m, m.amount \in Nat
    PROVE  /\ ccip = {m} => InLanes = m.amount
           /\ ccip' = {m} => InLanes' = m.amount
<1>1. PICK f : f = [x \in {m} |-> x.amount]
  OBVIOUS
<1>2. f \in [{m} -> Nat] /\ f[m] = m.amount
  BY <1>1
<1>3. SumFunction(f) = f[m]
  BY <1>2, FS_Singleton, TotalOfOne
<1> QED
  BY <1>1, <1>2, <1>3 DEF InLanes

\* With one adapter set, every position is under it.
LEMMA OnePosition ==
    ASSUME TypeInv, PositionsUnderAdapter, NEW s \in Strategies, AdapterOnlyAt(s)
    PROVE  InAdapters = position[s] /\ \A t \in Strategies : t # s => position[t] = 0
<1>1. PICK f \in [Strategies -> Nat] : f = position
  BY BackingTypes
<1>2. ASSUME NEW t \in Strategies, t # s
      PROVE  f[t] = 0
  <2>1. ASSUME f[t] # 0 PROVE FALSE
    <3>1. t.protocolId = activeAdapter[t.chainSelector]
      BY <1>1, <2>1 DEF PositionsUnderAdapter
    <3>2. t.chainSelector = s.chainSelector /\ t.protocolId = s.protocolId
      BY <3>1, StrategyFacts DEF AdapterOnlyAt
    <3> QED
      BY <1>2, <3>2, StrategyFacts
  <2> QED
    BY <2>1
<1>3. SumFunction(f) = f[s]
  BY <1>2, FiniteDeployment, TotalOfOne
<1> QED
  BY <1>1, <1>2, <1>3 DEF InAdapters

\* With none set there is no position.
LEMMA NoPosition ==
    ASSUME TypeInv, PositionsUnderAdapter, NoAdapters
    PROVE  InAdapters = 0 /\ \A t \in Strategies : position[t] = 0
<1>1. PICK f \in [Strategies -> Nat] : f = position
  BY BackingTypes
<1>2. \A t \in Strategies : f[t] = 0
  BY <1>1, StrategyFacts DEF PositionsUnderAdapter, NoAdapters
<1>3. SumFunction(f) = 0
  BY <1>2, FiniteDeployment, TotalZero
<1> QED
  BY <1>1, <1>2, <1>3 DEF InAdapters

\* What one recovery holds is all that is held.
LEMMA OneRecoveryHolds ==
    ASSUME TypeInv, NEW c \in Chains, \A d \in Chains : d # c => recovery[d] = NoRecovery
    PROVE  InRecovery = HeldInRecovery(c)
<1>1. PICK f \in [Chains -> Nat] : f = [d \in Chains |-> HeldInRecovery(d)]
  BY BackingTypes
<1>2. \A d \in Chains : d # c => f[d] = 0
  BY <1>1 DEF HeldInRecovery, NoRecovery
<1>3. SumFunction(f) = f[c]
  BY <1>2, FiniteDeployment, TotalOfOne
<1> QED
  BY <1>1, <1>3 DEF InRecovery

\* With no recovery nothing is held.
LEMMA NothingHeld ==
    ASSUME TypeInv, NoRecoveries
    PROVE  InRecovery = 0
<1>1. ParentChain \in Chains
  BY ChainFacts
<1>2. InRecovery = HeldInRecovery(ParentChain)
  BY <1>1, OneRecoveryHolds DEF NoRecoveries
<1> QED
  BY <1>1, <1>2 DEF HeldInRecovery, NoRecoveries, NoRecovery

----------------------------------------------------------------------------
(* No value is counted twice. *)

\* At most one vault has anything: an adapter, with a recovery that is not an unsent
\* rebalance if there is one, or no adapter and an unsent rebalance.
LEMMA OneVault ==
    ASSUME TypeInv, Phase
    PROVE  \/ NoAdapters /\ NoRecoveries
           \/ \E s \in Strategies :
                /\ AdapterOnlyAt(s)
                /\ \A d \in Chains : d # s.chainSelector => recovery[d] = NoRecovery
                /\ LET r == recovery[s.chainSelector]
                   IN  r.mode = "CCIP_SEND" => r.ccipTx = "EPOCH_NET_WITHDRAW"
           \/ /\ NoAdapters
              /\ \E c \in Chains :
                   /\ \A d \in Chains : d # c => recovery[d] = NoRecovery
                   /\ recovery[c].mode = "CCIP_SEND" /\ recovery[c].ccipTx = "REBALANCE"
<1>1. ASSUME NEW s \in Strategies, AdapterOnlyAt(s), NoRecoveries
      PROVE  /\ \A d \in Chains : d # s.chainSelector => recovery[d] = NoRecovery
             /\ recovery[s.chainSelector].mode # "CCIP_SEND"
  BY <1>1, StrategyFacts DEF NoRecoveries, NoRecovery
<1>2. ASSUME NEW s \in Strategies, AdapterOnlyAt(s), NEW r, Recovering(s.chainSelector, r)
      PROVE  /\ \A d \in Chains : d # s.chainSelector => recovery[d] = NoRecovery
             /\ recovery[s.chainSelector] = r
  BY <1>2, StrategyFacts DEF Recovering
<1>3. CASE Undeployed \/ (BetweenPhase /\ RebalanceInFlight)
  BY <1>3, Zenon DEF Undeployed, Calm, RebalanceInFlight, InFlight
<1>4. CASE /\ ActiveStrategy \in Strategies /\ AdapterOnlyAt(ActiveStrategy)
           /\ Calm \/ DepositInFlight \/ WithdrawInFlight
  <2>1. NoRecoveries
    BY <1>4, Zenon DEF Calm, DepositInFlight, WithdrawInFlight, InFlight
  <2> QED
    BY <1>1, <1>4, <2>1
<1>5. CASE Rebalancing /\ RebalanceDeposited
  BY <1>1, <1>5 DEF Rebalancing, RebalanceDeposited, Calm
<1>6. CASE Rebalancing /\ RebalanceDepositing
  <2>1. recovery[PendingChain].mode = "REBALANCE_DEPOSIT"
    <3>1. PICK r : Recovering(PendingChain, r) /\ r.mode = "REBALANCE_DEPOSIT"
      BY <1>6, RecoveryFields DEF RebalanceDepositing
    <3> QED
      BY <1>6, <3>1, StrategyFacts DEF Recovering, Rebalancing, PendingChain
  <2>2. /\ PendingStrategy \in Strategies /\ AdapterOnlyAt(PendingStrategy)
        /\ PendingChain = PendingStrategy.chainSelector
    BY <1>6 DEF Rebalancing, RebalanceDepositing, PendingChain
  <2>3. \A d \in Chains : d # PendingChain => recovery[d] = NoRecovery
    BY <1>6 DEF RebalanceDepositing, Recovering
  <2> QED
    BY <2>1, <2>2, <2>3
<1>7. CASE BetweenPhase /\ RebalanceUnsent
  <2>1. ActiveChain \in Chains
    BY <1>7, ChainFacts DEF RebalanceUnsent
  <2>2. recovery[ActiveChain].mode = "CCIP_SEND" /\ recovery[ActiveChain].ccipTx = "REBALANCE"
    BY <1>7, <2>1, RecoveryFields DEF RebalanceUnsent, Recovering
  <2> QED
    BY <1>7, <2>1, <2>2 DEF RebalanceUnsent, Recovering
<1>8. ASSUME ActiveStrategy \in Strategies, AdapterOnlyAt(ActiveStrategy),
             \/ DepositRecovering \/ WithdrawRecovering \/ WithdrawUnsent
             \/ RebalanceWithdrawing
      PROVE  \E s \in Strategies :
                /\ AdapterOnlyAt(s)
                /\ \A d \in Chains : d # s.chainSelector => recovery[d] = NoRecovery
                /\ LET r == recovery[s.chainSelector]
                   IN  r.mode = "CCIP_SEND" => r.ccipTx = "EPOCH_NET_WITHDRAW"
  <2>1. PICK r : /\ Recovering(ActiveChain, r)
                 /\ r.mode = "CCIP_SEND" => r.ccipTx = "EPOCH_NET_WITHDRAW"
    BY <1>8, RecoveryFields DEF DepositRecovering, WithdrawRecovering, WithdrawUnsent,
                                RebalanceWithdrawing
  <2>2. ActiveChain = ActiveStrategy.chainSelector
    BY DEF ActiveChain, ActiveStrategy
  <2> QED
    BY <1>2, <1>8, <2>1, <2>2
<1>9. /\ Executing => ActiveStrategy \in Strategies /\ AdapterOnlyAt(ActiveStrategy)
      /\ Rebalancing => ActiveStrategy \in Strategies
      /\ RebalanceWaiting \/ RebalanceWithdrawing => AdapterOnlyAt(ActiveStrategy)
      /\ RebalanceWaiting \/ DepositDone \/ WithdrawWaiting => Calm
      /\ Quiet => Calm /\ AdapterOnlyAt(ActiveStrategy)
  BY DEF Executing, Rebalancing, RebalanceWaiting, RebalanceWithdrawing, DepositDone,
         WithdrawWaiting, Quiet
<1> QED
  <2> DEFINE Waits == Calm \/ DepositInFlight \/ WithdrawInFlight
             Recovers == \/ DepositRecovering \/ WithdrawRecovering \/ WithdrawUnsent
                         \/ RebalanceWithdrawing
  <2>1. \/ Undeployed
        \/ BetweenPhase /\ RebalanceInFlight
        \/ /\ ActiveStrategy \in Strategies /\ AdapterOnlyAt(ActiveStrategy)
           /\ Waits \/ Recovers
        \/ Rebalancing /\ (RebalanceDeposited \/ RebalanceDepositing)
        \/ BetweenPhase /\ RebalanceUnsent
    BY PhaseCases, <1>9, Zenon DEF DepositPhase, WithdrawPhase, OutgoingPhase
  <2> QED
    BY <2>1, <1>3, <1>4, <1>5, <1>6, <1>7, <1>8, Zenon

\* What is in the lanes is a natural amount.
LEMMA LanesNat ==
    ASSUME TypeInv, Phase
    PROVE  InLanes \in Nat
<1>1. CASE ccip = {}
  BY <1>1, EmptyLanes
<1>2. CASE ccip # {}
  <2>1. PICK m \in ccip : ccip = {m}
    BY <1>2, InFlightPhase
  <2> QED
    BY <2>1, OneMessage, BackingTypes
<1> QED
  BY <1>1, <1>2

\* In each phase, the terms of the two sums are the same.
LEMMA CountedOnceNow == TypeInv /\ PhaseInv => TvlCountedOnce
<1>1. ASSUME TypeInv, PhaseInv
      PROVE  TvlCountedOnce
  <2> DEFINE T(c) == GetTVL(c)
             U(c) == UnsentWithdrawal(c)
             H(c) == HeldInRecovery(c)
  <2>0. \A c \in Chains : T(c) \in Nat /\ U(c) \in Nat /\ H(c) \in Nat
    <3>1. BaseVaultTypeOK
      BY <1>1 DEF TypeInv, TypeOK
    <3> QED
      BY <1>1, <3>1, GetTVLType, BackingTypes DEF UnsentWithdrawal
  <2>1. SUFFICES SumFunction([c \in Chains |-> T(c)])
                   + SumFunction([c \in Chains |-> U(c)]) = InAdapters + InRecovery
    <3>1. PICK t \in [Chains -> Nat], u \in [Chains -> Nat] :
            t = [c \in Chains |-> T(c)] /\ u = [c \in Chains |-> U(c)]
      BY <2>0
    <3>2. SumFunction(t) \in Nat /\ SumFunction(u) \in Nat
      BY FiniteDeployment, TotalNat
    <3>3. InLanes \in Nat /\ InAdapters \in Nat /\ InRecovery \in Nat
      BY <1>1, BackingTypes, LanesNat DEF PhaseInv
    <3> QED
      BY <2>1, <3>1, <3>2, <3>3 DEF TvlCountedOnce, Deployed
  <2>2. ASSUME NEW k \in Chains,
               \A d \in Chains : d # k => ~HasAdapter(d) /\ recovery[d] = NoRecovery
        PROVE  /\ SumFunction([c \in Chains |-> T(c)]) = T(k)
               /\ SumFunction([c \in Chains |-> U(c)]) = U(k)
               /\ InRecovery = H(k)
    <3>1. PICK t \in [Chains -> Nat], u \in [Chains -> Nat] :
            t = [c \in Chains |-> T(c)] /\ u = [c \in Chains |-> U(c)]
      BY <2>0
    <3>2. \A d \in Chains : d # k => T(d) = 0 /\ U(d) = 0
      BY <2>2 DEF GetTVL, UnsentWithdrawal, NoRecovery
    <3>3. \A d \in Chains : d # k => t[d] = 0 /\ u[d] = 0
      BY <3>1, <3>2
    <3>4. SumFunction(t) = t[k] /\ SumFunction(u) = u[k]
      BY <3>3, FiniteDeployment, TotalOfOne
    <3>5. t[k] = T(k) /\ u[k] = U(k)
      BY <3>1
    <3> QED
      BY <1>1, <2>2, <3>1, <3>4, <3>5, OneRecoveryHolds
  <2>3. ASSUME NoAdapters, NEW k \in Chains,
               \A d \in Chains : d # k => recovery[d] = NoRecovery,
               \/ recovery[k] = NoRecovery
               \/ recovery[k].mode = "CCIP_SEND" /\ recovery[k].ccipTx = "REBALANCE"
        PROVE  SumFunction([c \in Chains |-> T(c)])
                 + SumFunction([c \in Chains |-> U(c)]) = InAdapters + InRecovery
    <3>1. InAdapters = 0
      BY <1>1, <2>3, NoPosition DEF PhaseInv
    <3>2. T(k) = H(k) /\ U(k) = 0
      BY <2>3 DEF GetTVL, UnsentWithdrawal, HeldInRecovery, HasAdapter, NoAdapters, NoRecovery
    <3>3. \A d \in Chains : ~HasAdapter(d)
      BY <2>3 DEF HasAdapter, NoAdapters
    <3> QED
      BY <2>0, <2>2, <2>3, <3>1, <3>2, <3>3
  <2>4. CASE NoAdapters /\ NoRecoveries
    BY <2>3, <2>4, ChainFacts DEF NoRecoveries
  <2>5. ASSUME NEW s \in Strategies, AdapterOnlyAt(s),
               \A d \in Chains : d # s.chainSelector => recovery[d] = NoRecovery,
               LET r == recovery[s.chainSelector]
               IN  r.mode = "CCIP_SEND" => r.ccipTx = "EPOCH_NET_WITHDRAW"
        PROVE  SumFunction([c \in Chains |-> T(c)])
                 + SumFunction([c \in Chains |-> U(c)]) = InAdapters + InRecovery
    <3>1. InAdapters = position[s]
      BY <1>1, <2>5, OnePosition DEF PhaseInv
    <3>2. PICK k \in Chains : k = s.chainSelector
      BY StrategyFacts
    <3>3. HasAdapter(k) /\ ActiveOn(k) = s /\ \A d \in Chains : d # k => ~HasAdapter(d)
      BY <2>5, <3>2, AdapterFacts
    <3>4. recovery[k].amount \in Nat /\ position[s] \in Nat
      BY <1>1, BackingTypes
    <3>5. T(k) + U(k) = position[s] + H(k)
      BY <2>5, <3>2, <3>3, <3>4 DEF GetTVL, UnsentWithdrawal, HeldInRecovery
    <3> HIDE DEF T, U, H
    <3> QED
      BY <2>2, <2>5, <3>1, <3>2, <3>3, <3>5
  <2> HIDE DEF T, U
  <2> QED
    BY <1>1, <2>3, <2>4, <2>5, OneVault DEF PhaseInv
<1> QED
  BY <1>1

\* Whatever phase an operation is in, the vaults' TVLs, the lanes and an unsent
\* withdrawal together are exactly what is deployed, with any losses on the way.
THEOREM ValueIsCountedOnce == Spec => []TvlCountedOnce
BY CountedOnceNow, TypeInvariance, PhaseCorrect, PTL

----------------------------------------------------------------------------
(* What the vaults' operations do to the sums. *)

\* The assets a recovery holds.
Holds(r) ==
    IF r.mode \in {"EPOCH_DEPOSIT", "REBALANCE_DEPOSIT", "CCIP_SEND"} THEN r.amount ELSE 0

\* A withdrawal that has not been made holds nothing.
LEMMA HoldsFields ==
    /\ \A c : HeldInRecovery(c) = Holds(recovery[c])
    /\ Holds(NoRecovery) = 0
    /\ \A n, a : Holds(EpochDepositRecovery(n, a)) = a
    /\ \A n, a : Holds(EpochWithdrawRecovery(n, a)) = 0
    /\ \A n, s : Holds(RebalanceWithdrawRecovery(n, s)) = 0
    /\ \A n, a : Holds(RebalanceDepositRecovery(n, a)) = a
    /\ \A tx, d, n, p, a : Holds(CcipSendRecovery(tx, d, n, p, a)) = a
BY DEF Holds, HeldInRecovery, EpochDepositRecovery, EpochWithdrawRecovery,
   RebalanceWithdrawRecovery, RebalanceDepositRecovery, CcipSendRecovery, NoRecovery

\* A vault without a recovery holds nothing in one.
LEMMA HoldsNothing ==
    ASSUME NEW c \in Chains, RequireNoRecovery(c)
    PROVE  Holds(recovery[c]) = 0
BY DEF Holds, RequireNoRecovery

\* Storing or clearing a recovery.
LEMMA RecoverySet ==
    ASSUME TypeInv, TypeInv', NEW c \in Chains, NEW r,
           recovery' = [recovery EXCEPT ![c] = r]
    PROVE  /\ InRecovery' + Holds(recovery[c]) = InRecovery + Holds(r)
           /\ Holds(r) \in Nat /\ InRecovery \in Nat /\ InRecovery' \in Nat
           /\ Holds(recovery[c]) \in Nat
<1>1. recovery \in [Chains -> Recoveries] /\ recovery' \in [Chains -> Recoveries]
  BY DEF TypeInv, TypeOK, BaseVaultTypeOK
<1>2. recovery'[c] = r /\ \A d \in Chains : d # c => recovery'[d] = recovery[d]
  BY <1>1
<1>3. HeldInRecovery(c) = Holds(recovery[c]) /\ HeldInRecovery(c)' = Holds(r)
  BY <1>2 DEF Holds, HeldInRecovery
<1>4. Holds(recovery[c]) \in Nat /\ Holds(r) \in Nat
  BY <1>1, <1>2 DEF Holds, Recoveries
<1>5. InRecovery \in Nat
  BY BackingTypes
<1>6. InRecovery' + HeldInRecovery(c) = InRecovery + HeldInRecovery(c)'
  BY <1>2, RecoveriesDiffer
<1>7. InRecovery' \in Nat
  BY TypesAfter
<1> QED
  BY <1>3, <1>4, <1>5, <1>6, <1>7

\* A deposit into one adapter.
LEMMA DepositAdds ==
    ASSUME NEW held \in [Strategies -> Nat], NEW s \in Strategies, NEW a \in Nat
    PROVE  /\ Deposited(held, s, a) \in [Strategies -> Nat]
           /\ SumFunction(Deposited(held, s, a)) = SumFunction(held) + a
           /\ Deposited(held, s, a)[s] = held[s] + a
           /\ \A t \in Strategies : t # s => Deposited(held, s, a)[t] = held[t]
<1>1. PICK g : g = Deposited(held, s, a)
  OBVIOUS
<1>2. /\ g \in [Strategies -> Nat] /\ g[s] = held[s] + a
      /\ \A t \in Strategies : t # s => g[t] = held[t]
  BY <1>1 DEF Deposited
<1>3. SumFunction(g) + held[s] = SumFunction(held) + g[s]
  BY <1>2, FiniteDeployment, TotalUpdate
<1>4. SumFunction(g) \in Nat /\ SumFunction(held) \in Nat
  BY <1>2, FiniteDeployment, TotalNat
<1> QED
  BY <1>1, <1>2, <1>3, <1>4

\* A withdrawal from the active one.
LEMMA WithdrawTakes ==
    ASSUME TypeInv, NEW c \in Chains, NEW a \in Nat, CanWithdraw(c, a)
    PROVE  /\ ActiveOn(c) \in Strategies
           /\ Withdrawn(c, a) \in [Strategies -> Nat]
           /\ SumFunction(Withdrawn(c, a)) + a = InAdapters
           /\ Withdrawn(c, a)[ActiveOn(c)] = position[ActiveOn(c)] - a
           /\ \A t \in Strategies : t # ActiveOn(c) => Withdrawn(c, a)[t] = position[t]
<1>1. PICK f \in [Strategies -> Nat] : f = position
  BY BackingTypes
<1>2. PICK s \in Strategies : s = ActiveOn(c)
  BY ActiveOnType DEF CanWithdraw, TypeInv, TypeOK
<1>3. f[s] \in Nat /\ a <= f[s]
  BY <1>1, <1>2 DEF CanWithdraw
<1>4. PICK g : g = Withdrawn(c, a)
  OBVIOUS
<1>5. /\ g \in [Strategies -> Nat] /\ g[s] = f[s] - a
      /\ \A t \in Strategies : t # s => g[t] = f[t]
  BY <1>1, <1>2, <1>3, <1>4 DEF Withdrawn
<1>6. SumFunction(g) + f[s] = SumFunction(f) + g[s]
  BY <1>5, FiniteDeployment, TotalUpdate
<1>7. SumFunction(g) \in Nat /\ SumFunction(f) \in Nat
  BY <1>5, FiniteDeployment, TotalNat
<1>8. SumFunction(g) + a = SumFunction(f)
  BY <1>3, <1>5, <1>6, <1>7
<1> QED
  BY <1>1, <1>2, <1>4, <1>5, <1>8 DEF InAdapters

\* A send puts the amount into the lane or into a recovery.
LEMMA SendKeeps ==
    ASSUME TypeInv, TypeInv', NEW c \in Chains, NEW tx, NEW dest, NEW n, NEW p, NEW a \in Nat,
           ccip = {}, CcipSend(c, tx, dest, n, p, a)
    PROVE  /\ InLanes' + InRecovery' + Holds(recovery[c]) = InLanes + InRecovery + a
           /\ InLanes = 0 /\ InLanes' \in Nat
<1>1. InLanes = 0
  BY EmptyLanes
<1>2. CASE /\ ccip' = {Message(tx, c, dest, n, p, a)}
           /\ recovery' = [recovery EXCEPT ![c] = NoRecovery]
  <2>0. Message(tx, c, dest, n, p, a).amount = a
    BY DEF Message
  <2>1. PICK m : m = Message(tx, c, dest, n, p, a) /\ m.amount = a
    BY <2>0
  <2>2. InLanes' = a
    BY <1>2, <2>1, OneMessage
  <2>3. PICK x \in Nat, y \in Nat, h \in Nat :
          x = InRecovery /\ y = InRecovery' /\ h = Holds(recovery[c]) /\ y + h = x + 0
    BY <1>2, RecoverySet, HoldsFields
  <2>4. a + y + h = 0 + x + a
    BY <2>3
  <2> QED
    BY <1>1, <2>2, <2>3, <2>4
<1>3. CASE /\ ccip' = {}
           /\ recovery' = [recovery EXCEPT ![c] = CcipSendRecovery(tx, dest, n, p, a)]
  <2>1. InLanes' = 0
    BY <1>3, EmptyLanes
  <2>2. PICK r : r = CcipSendRecovery(tx, dest, n, p, a) /\ Holds(r) = a
    BY HoldsFields
  <2>3. PICK x \in Nat, y \in Nat, h \in Nat :
          x = InRecovery /\ y = InRecovery' /\ h = Holds(recovery[c]) /\ y + h = x + a
    BY <1>3, <2>2, RecoverySet
  <2>4. 0 + y + h = 0 + x + a
    BY <2>3
  <2> QED
    BY <1>1, <2>1, <2>3, <2>4
<1> QED
  BY <1>2, <1>3 DEF CcipSend

\* The deposit of a rebalance puts the amount into an adapter or into a recovery.
LEMMA ActivationKeeps ==
    ASSUME TypeInv, TypeInv', NEW c \in Chains, NEW n, NEW p, NEW a \in Nat,
           NEW held \in [Strategies -> Nat], NEW success \in BOOLEAN,
           ActivateAndDeposit(c, n, p, a, held, success)
    PROVE  /\ InAdapters' + InRecovery' + Holds(recovery[c])
                = SumFunction(held) + InRecovery + a
           /\ Strategy(p, c) \in Strategies
           /\ \A t \in Strategies : t # Strategy(p, c) => position'[t] = held[t]
           /\ position'[Strategy(p, c)] = held[Strategy(p, c)]
                + (IF success THEN a ELSE 0)
<1>1. PICK s \in Strategies : s = Strategy(p, c)
  BY StrategyType DEF ActivateAndDeposit
<1>2. SumFunction(held) \in Nat /\ held[s] \in Nat
  BY FiniteDeployment, TotalNat
<1>3. CASE success = TRUE
  <2>1. /\ position' = Deposited(held, s, a)
        /\ recovery' = [recovery EXCEPT ![c] = NoRecovery]
    BY <1>1, <1>3 DEF ActivateAndDeposit
  <2>2. InRecovery' + Holds(recovery[c]) = InRecovery + 0 /\ InRecovery \in Nat
        /\ Holds(recovery[c]) \in Nat /\ InRecovery' \in Nat
    BY <2>1, RecoverySet, HoldsFields
  <2>3. InAdapters' = SumFunction(held) + a
    BY <2>1, DepositAdds DEF InAdapters
  <2>4. /\ position'[s] = held[s] + a
        /\ \A t \in Strategies : t # s => position'[t] = held[t]
    BY <2>1, DepositAdds
  <2> QED
    BY <1>1, <1>2, <1>3, <2>2, <2>3, <2>4
<1>4. CASE success = FALSE
  <2>1. /\ position' = held
        /\ recovery' = [recovery EXCEPT ![c] = RebalanceDepositRecovery(n, a)]
    BY <1>4 DEF ActivateAndDeposit
  <2>2. PICK r : r = RebalanceDepositRecovery(n, a) /\ Holds(r) = a
    BY HoldsFields
  <2>3. PICK x \in Nat, y \in Nat, h \in Nat :
          x = InRecovery /\ y = InRecovery' /\ h = Holds(recovery[c]) /\ y + h = x + a
    BY <2>1, <2>2, RecoverySet
  <2>4. InAdapters' = SumFunction(held)
    BY <2>1 DEF InAdapters
  <2>5. SumFunction(held) + y + h = SumFunction(held) + x + a
    BY <1>2, <2>3
  <2> QED
    BY <1>1, <1>2, <1>4, <2>1, <2>3, <2>4, <2>5
<1> QED
  BY <1>3, <1>4

----------------------------------------------------------------------------
(* What each operation of a vault does to what is deployed. *)

\* What is deployed is a natural amount.
LEMMA DeployedNat ==
    ASSUME TypeInv, Phase
    PROVE  /\ InAdapters \in Nat /\ InLanes \in Nat /\ InRecovery \in Nat
           /\ Deployed \in Nat /\ Deployed = InAdapters + InLanes + InRecovery
BY BackingTypes, LanesNat DEF Deployed

\* A step that touches no position, message or recovery changes nothing.
LEMMA Untouched ==
    ASSUME UNCHANGED <<position, ccip, recovery>>
    PROVE  Deployed' = Deployed
BY DEF Deployed, InAdapters, InLanes, InRecovery, HeldInRecovery

\* The parts a step does not touch.
LEMMA PartsUntouched ==
    /\ UNCHANGED position => InAdapters' = InAdapters
    /\ UNCHANGED ccip => InLanes' = InLanes
    /\ UNCHANGED recovery => InRecovery' = InRecovery
BY DEF InAdapters, InLanes, InRecovery, HeldInRecovery

\* A deposit into the active adapter of a vault.
LEMMA DepositKeeps ==
    ASSUME TypeInv, NEW c \in Chains, HasAdapter(c), NEW a \in Nat,
           position' = Deposited(position, ActiveOn(c), a)
    PROVE  InAdapters' = InAdapters + a
<1>1. PICK s \in Strategies : s = ActiveOn(c)
  BY ActiveOnType DEF TypeInv, TypeOK
<1>2. PICK f \in [Strategies -> Nat] : f = position
  BY BackingTypes
<1>3. SumFunction(Deposited(f, s, a)) = SumFunction(f) + a
  BY DepositAdds
<1>4. position' = Deposited(f, s, a)
  BY <1>1, <1>2 DEF Deposited
<1> QED
  BY <1>2, <1>3, <1>4 DEF InAdapters

\* A withdrawal from it.
LEMMA WithdrawKeeps ==
    ASSUME TypeInv, NEW c \in Chains, NEW a \in Nat, CanWithdraw(c, a),
           position' = Withdrawn(c, a)
    PROVE  InAdapters' + a = InAdapters
BY WithdrawTakes DEF InAdapters

\* A message taken off the lane was the only one, and carried what is off it.
LEMMA Delivered ==
    ASSUME TypeInv, Phase, NEW m \in ccip, ccip' = ccip \ {m}
    PROVE  /\ m.amount \in Nat /\ InLanes = m.amount /\ InLanes' = 0
           /\ InRecovery = 0 /\ \A c \in Chains : Holds(recovery[c]) = 0
<1>1. ccip = {m} /\ NoRecoveries
  BY InFlightPhase
<1>2. m.amount \in Nat
  BY BackingTypes
<1>3. ccip' = {}
  BY <1>1
<1>4. \A c \in Chains : Holds(recovery[c]) = 0
  BY <1>1, HoldsFields DEF NoRecoveries
<1> QED
  BY <1>1, <1>2, <1>3, <1>4, EmptyLanes, OneMessage, NothingHeld

\* A transfer that loses nothing delivers what was sent.
LEMMA WholeDelivery ==
    ASSUME MaxLoss = 0, NEW m, m.amount \in Nat, NEW d \in Deliveries(m)
    PROVE  d = m.amount
BY DEF Deliveries

\* Rebalanced funds that arrive were in the lane and are in an adapter or a recovery.
LEMMA ReceiveRebalanceKeeps ==
    ASSUME TypeInv, TypeInv', Phase, NEW m \in ccip, ccip' = ccip \ {m}, NEW c \in Chains,
           NEW success \in BOOLEAN,
           ActivateAndDeposit(c, m.nonce, m.protocolId, m.amount, position, success)
    PROVE  Deployed' = Deployed
<1>1. PICK f \in [Strategies -> Nat] : f = position
  BY BackingTypes
<1>2. PICK a \in Nat : a = m.amount
  BY Delivered
<1>3. ActivateAndDeposit(c, m.nonce, m.protocolId, a, f, success)
  BY <1>1, <1>2
<1>4. InAdapters' + InRecovery' + Holds(recovery[c]) = SumFunction(f) + InRecovery + a
  BY <1>3, ActivationKeeps
<1>5. SumFunction(f) = InAdapters
  BY <1>1 DEF InAdapters
<1>6. InAdapters' \in Nat /\ InRecovery' \in Nat /\ InAdapters \in Nat
  BY BackingTypes, TypesAfter
<1> QED
  BY <1>2, <1>4, <1>5, <1>6, Delivered DEF Deployed

\* So are those of a net deposit that arrives ...
LEMMA ReceiveDepositKeeps ==
    ASSUME TypeInv, TypeInv', Phase, NEW m \in ccip, NEW c \in Chains,
           ReceiveEpochNetDeposit(c, m, m.amount)
    PROVE  Deployed' = Deployed
<1>1. ccip' = ccip \ {m} /\ HasAdapter(c)
  BY DEF ReceiveEpochNetDeposit, EpochDepositReceivable
<1>2. PICK a \in Nat, x \in Nat : a = m.amount /\ x = InAdapters
  BY <1>1, Delivered, BackingTypes
<1>3. InLanes = a /\ InLanes' = 0 /\ InRecovery = 0 /\ Holds(recovery[c]) = 0
  BY <1>1, <1>2, Delivered
<1>4. CASE position' = Deposited(position, ActiveOn(c), m.amount) /\ recovery' = recovery
  <2>1. InAdapters' = x + a
    BY <1>1, <1>2, <1>4, DepositKeeps
  <2>2. InRecovery' = 0
    BY <1>3, <1>4, PartsUntouched
  <2>3. (x + a) + 0 + 0 = x + a + 0
    OBVIOUS
  <2> QED
    BY <1>2, <1>3, <2>1, <2>2, <2>3 DEF Deployed
<1>5. CASE /\ recovery' = [recovery EXCEPT ![c] = EpochDepositRecovery(m.nonce, m.amount)]
           /\ UNCHANGED position
  <2>1. PICK r : r = EpochDepositRecovery(m.nonce, a) /\ Holds(r) = a
    BY HoldsFields
  <2>a. recovery' = [recovery EXCEPT ![c] = r]
    BY <1>2, <1>5, <2>1
  <2>b. InRecovery' + Holds(recovery[c]) = InRecovery + Holds(r) /\ InRecovery' \in Nat
    BY <2>a, RecoverySet, Zenon
  <2>2. PICK y \in Nat : y = InRecovery' /\ y + 0 = 0 + a
    BY <1>3, <2>1, <2>b
  <2>3. InAdapters' = x
    BY <1>2, <1>5, PartsUntouched
  <2>f. y + 0 = 0 + a
    BY <2>2
  <2>4. y = a
    BY <2>f
  <2>5. x + a + 0 = x + 0 + a
    OBVIOUS
  <2> QED
    BY <1>2, <1>3, <2>2, <2>3, <2>4, <2>5 DEF Deployed
<1> QED
  BY <1>4, <1>5 DEF ReceiveEpochNetDeposit

\* ... and the proceeds of a withdrawal leave the fund.
LEMMA ReceiveWithdrawKeeps ==
    ASSUME TypeInv, Phase, NEW m \in ccip, NEW d, ReceiveEpochNetWithdraw(m, d)
    PROVE  Deployed' + m.amount = Deployed
<1>1. ccip' = ccip \ {m} /\ UNCHANGED <<position, recovery>>
  BY DEF ReceiveEpochNetWithdraw
<1>2. PICK a \in Nat, x \in Nat, y \in Nat :
        a = m.amount /\ x = InAdapters /\ y = InRecovery
  BY <1>1, Delivered, BackingTypes
<1>3. InLanes = a /\ InLanes' = 0 /\ InAdapters' = x /\ InRecovery' = y
  BY <1>1, <1>2, Delivered, PartsUntouched
<1>4. x + 0 + y + a = x + a + y
  OBVIOUS
<1> QED
  BY <1>2, <1>3, <1>4 DEF Deployed

\* A withdrawal that is sent home is in the lane or in a recovery.
LEMMA WithdrawAndSendKeeps ==
    ASSUME TypeInv, TypeInv', NEW c \in Chains, NEW n, NEW a \in Nat, ccip = {},
           Holds(recovery[c]) = 0, WithdrawAndSend(c, n, a)
    PROVE  Deployed' = Deployed /\ InLanes' + InRecovery' = InRecovery + a
<1>1. InAdapters' + a = InAdapters
  BY WithdrawKeeps DEF WithdrawAndSend
<1>2. /\ InLanes' + InRecovery' + 0 = 0 + InRecovery + a
      /\ InLanes = 0 /\ InLanes' \in Nat
  BY SendKeeps DEF WithdrawAndSend
<1>3. PICK p \in Nat, q \in Nat, x \in Nat, y \in Nat, l \in Nat :
        /\ p = InAdapters /\ q = InAdapters' /\ x = InRecovery /\ y = InRecovery'
        /\ l = InLanes'
  BY <1>2, BackingTypes, TypesAfter
<1>4. q + a = p /\ l + y + 0 = 0 + x + a
  BY <1>1, <1>2, <1>3
<1>5. q + l + y = p + 0 + x /\ l + y = x + a
  BY <1>4
<1> QED
  BY <1>2, <1>3, <1>5 DEF Deployed

\* A position that is moved is in another adapter, in the lane or in a recovery.
LEMMA MoveKeeps ==
    ASSUME TypeInv, TypeInv', NEW c \in Chains, NEW n, NEW s, ccip = {},
           Holds(recovery[c]) = 0, WithdrawAllAndMove(c, n, s)
    PROVE  Deployed' = Deployed
<1>1. CanWithdraw(c, position[ActiveOn(c)])
  BY DEF WithdrawAllAndMove
<1>2. PICK a \in Nat : a = position[ActiveOn(c)]
  BY <1>1, BackingTypes, ActiveOnType DEF CanWithdraw, TypeInv, TypeOK
<1>3. PICK held \in [Strategies -> Nat] :
        held = Withdrawn(c, a) /\ SumFunction(held) + a = InAdapters
  BY <1>1, <1>2, WithdrawTakes
<1>4. SumFunction(held) \in Nat
  BY FiniteDeployment, TotalNat
<1>5. PICK p \in Nat, q \in Nat, x \in Nat, y \in Nat, h \in Nat :
        /\ p = InAdapters /\ q = InAdapters' /\ x = InRecovery /\ y = InRecovery'
        /\ h = SumFunction(held) /\ h + a = p
  BY <1>3, <1>4, BackingTypes, TypesAfter
<1>6. CASE MoveWithinChain(c, n, a, s)
  <2>1. PICK success \in BOOLEAN : ActivateAndDeposit(c, n, s.protocolId, a, held, success)
    BY <1>3, <1>6 DEF MoveWithinChain
  <2>2. InAdapters' + InRecovery' + 0 = SumFunction(held) + InRecovery + a
    BY <2>1, ActivationKeeps
  <2>3. InLanes = 0 /\ InLanes' = 0
    BY <1>6, EmptyLanes DEF MoveWithinChain
  <2>4. q + y + 0 = h + x + a
    BY <1>5, <2>2
  <2>5. h + a = p
    BY <1>5
  <2>6. q + 0 + y = p + 0 + x
    BY <2>4, <2>5
  <2> QED
    BY <1>5, <2>3, <2>6 DEF Deployed
<1>7. CASE MoveToOtherChain(c, n, a, s)
  <2>1. /\ InLanes' + InRecovery' + 0 = 0 + InRecovery + a
        /\ InLanes = 0 /\ InLanes' \in Nat
    BY <1>7, SendKeeps DEF MoveToOtherChain
  <2>2. q = h
    BY <1>3, <1>5, <1>7 DEF MoveToOtherChain, InAdapters
  <2>3. PICK l \in Nat : l = InLanes' /\ l + y + 0 = 0 + x + a
    BY <1>5, <2>1
  <2>5. h + a = p /\ l + y + 0 = 0 + x + a
    BY <1>5, <2>3
  <2>4. q + l + y = p + 0 + x
    BY <2>2, <2>5
  <2> QED
    BY <1>5, <2>1, <2>3, <2>4 DEF Deployed
<1> QED
  BY <1>2, <1>6, <1>7 DEF WithdrawAllAndMove

\* A deposit that is made up for was held in the recovery.
LEMMA DepositRecovered ==
    ASSUME TypeInv, TypeInv', NEW c \in Chains, HasAdapter(c),
           recovery[c].mode \in {"EPOCH_DEPOSIT", "REBALANCE_DEPOSIT"},
           position' = Deposited(position, ActiveOn(c), recovery[c].amount),
           recovery' = [recovery EXCEPT ![c] = NoRecovery], ccip = {}, ccip' = {}
    PROVE  Deployed' = Deployed
<1>1. PICK a \in Nat : a = recovery[c].amount
  BY BackingTypes
<1>2. InAdapters' = InAdapters + a
  BY <1>1, DepositKeeps
<1>3. Holds(recovery[c]) = a
  BY <1>1 DEF Holds
<1>4. PICK x \in Nat, y \in Nat, p \in Nat :
        x = InRecovery /\ y = InRecovery' /\ p = InAdapters /\ y + a = x + 0
  BY <1>3, RecoverySet, HoldsFields, BackingTypes
<1>5. InLanes = 0 /\ InLanes' = 0
  BY EmptyLanes
<1>f. y + a = x + 0
  BY <1>4
<1>6. (p + a) + 0 + y = p + 0 + x
  BY <1>f
<1> QED
  BY <1>2, <1>4, <1>5, <1>6 DEF Deployed

\* A message that is sent again was held in the recovery.
LEMMA SendRecovered ==
    ASSUME TypeInv, TypeInv', NEW c \in Chains, ccip = {}, RecoverCcipSend(c)
    PROVE  Deployed' = Deployed
<1>1. PICK a \in Nat : a = recovery[c].amount
  BY BackingTypes
<1>2. Holds(recovery[c]) = a
  BY <1>1 DEF Holds, RecoverCcipSend
<1>3. PICK x \in Nat, y \in Nat, p \in Nat :
        /\ x = InRecovery /\ y = InRecovery' /\ p = InAdapters /\ p = InAdapters'
        /\ y + a = x + 0
  BY <1>2, RecoverySet, HoldsFields, BackingTypes, PartsUntouched DEF RecoverCcipSend
<1>4. PICK m : m.amount = a /\ ccip' = {m}
  BY <1>1 DEF RecoverCcipSend, Message
<1>5. InLanes = 0 /\ InLanes' = a
  BY <1>4, EmptyLanes, OneMessage
<1>f. y + a = x + 0
  BY <1>3
<1>6. p + a + y = p + 0 + x
  BY <1>f
<1> QED
  BY <1>3, <1>5, <1>6 DEF Deployed

\* The five recoveries of a child vault ...
LEMMA ChildRecoveryKeeps ==
    ASSUME TypeInv, TypeInv', Phase, NEW c \in Chains, ExecuteRecoveryOnChild(c)
    PROVE  Deployed' = Deployed
<1>1. ~RequireNoRecovery(c)
  BY DEF ExecuteRecoveryOnChild, RecoverRebalanceDeposit, RecoverEpochDeposit,
     RecoverEpochWithdraw, RecoverRebalanceWithdraw, RecoverCcipSend, RequireNoRecovery
<1>2. ccip = {} /\ recovery[c].amount \in Nat
  BY <1>1, RecoveringPhase, BackingTypes
<1>3. CASE RecoverRebalanceDeposit(c) \/ RecoverEpochDeposit(c)
  BY <1>2, <1>3, DepositRecovered DEF RecoverRebalanceDeposit, RecoverEpochDeposit
<1>4. CASE RecoverEpochWithdraw(c)
  <2>1. PICK a, n : a \in Nat /\ a = recovery[c].amount /\ n = recovery[c].nonce
    BY <1>2
  <2>2. Holds(recovery[c]) = 0 /\ WithdrawAndSend(c, n, a)
    BY <1>4, <2>1 DEF RecoverEpochWithdraw, Holds
  <2> QED
    BY <1>2, <2>1, <2>2, WithdrawAndSendKeeps
<1>5. CASE RecoverRebalanceWithdraw(c)
  <2>1. PICK s, n : s = recovery[c].target /\ n = recovery[c].nonce
    OBVIOUS
  <2>2. Holds(recovery[c]) = 0 /\ WithdrawAllAndMove(c, n, s)
    BY <1>5, <2>1 DEF RecoverRebalanceWithdraw, Holds
  <2> QED
    BY <1>2, <2>2, MoveKeeps
<1>6. CASE RecoverCcipSend(c)
  BY <1>2, <1>6, SendRecovered
<1> QED
  BY <1>3, <1>4, <1>5, <1>6 DEF ExecuteRecoveryOnChild

\* ... and the one of the parent.
LEMMA ParentRecoveryKeeps ==
    ASSUME TypeInv, TypeInv', Phase, ParentRecovers
    PROVE  Deployed' = Deployed
<1>1. RecoverRebalanceDeposit(ParentChain) /\ ParentChain \in Chains
  BY ChainFacts DEF ParentRecovers, ExecuteRecoveryOnParent
<1>2. ~RequireNoRecovery(ParentChain)
  BY <1>1 DEF RecoverRebalanceDeposit, RequireNoRecovery
<1>3. ccip = {}
  BY <1>1, <1>2, RecoveringPhase
<1> QED
  BY <1>1, <1>3, DepositRecovered DEF RecoverRebalanceDeposit

\* Storing a withdrawal to be made up for.
LEMMA StoredKeeps ==
    ASSUME TypeInv, TypeInv', NEW c \in Chains, RequireNoRecovery(c), NEW r, Holds(r) = 0,
           recovery' = [recovery EXCEPT ![c] = r], UNCHANGED <<position, ccip>>
    PROVE  Deployed' = Deployed
<1>1. Holds(recovery[c]) = 0
  BY HoldsNothing
<1>2. PICK x \in Nat, y \in Nat : x = InRecovery /\ y = InRecovery' /\ y + 0 = x + 0
  BY <1>1, RecoverySet
<1>3. y + 0 = x + 0
  BY <1>2
<1>4. y = x
  BY <1>3
<1> QED
  BY <1>2, <1>4, PartsUntouched DEF Deployed

\* executeEpochWithdraw.
LEMMA ExecuteEpochWithdrawKeeps ==
    ASSUME TypeInv, TypeInv', PhaseInv, NEW c \in ChildChains, NEW n \in Nat, NEW a \in Nat,
           ExecuteEpochWithdraw(c, n, a), WithdrawFits(c, n, a)
    PROVE  Deployed' = Deployed
<1>1. /\ c \in Chains /\ RequireNoRecovery(c) /\ Holds(recovery[c]) = 0
      /\ n > lastHandledEpochNonce[c]
  BY ChainFacts, HoldsNothing DEF ExecuteEpochWithdraw, ExecuteEpochWithdrawGuard,
     FreshEpochNonce
<1>2. /\ n = PreviousNonce /\ c = ActiveChain /\ previousEpoch.status = "EXECUTING"
      /\ previousEpoch.withdrawClaim = previousEpoch.deposit + a /\ a # 0
  BY <1>1 DEF WithdrawFits
<1>3. ccip = {}
  BY <1>1, <1>2, WithdrawAwaited DEF PhaseInv, FreshEpochNonce, WithdrawWaiting, Calm
<1>4. PICK r : r = EpochWithdrawRecovery(n, a) /\ Holds(r) = 0
  BY HoldsFields
<1> QED
  BY <1>1, <1>3, <1>4, WithdrawAndSendKeeps, StoredKeeps DEF ExecuteEpochWithdraw

\* executeRebalance.
LEMMA ExecuteRebalanceKeeps ==
    ASSUME TypeInv, TypeInv', PhaseInv, NEW c \in ChildChains, NEW n \in Nat, NEW s,
           ExecuteRebalance(c, n, s), ExecutionFits(c, n, s)
    PROVE  Deployed' = Deployed
<1>1. /\ c \in Chains /\ RequireNoRecovery(c) /\ Holds(recovery[c]) = 0
      /\ n > lastHandledRebalanceNonce[c]
  BY ChainFacts, HoldsNothing DEF ExecuteRebalance, ExecuteRebalanceGuard,
     FreshRebalanceNonce
<1>2. n = rebalance.nonce /\ c = ActiveChain /\ rebalance.state = "REBALANCING"
  BY <1>1 DEF ExecutionFits
<1>3. ccip = {}
  BY <1>1, <1>2, RebalanceAwaited DEF PhaseInv, FreshRebalanceNonce, RebalanceWaiting, Calm
<1>4. PICK r : r = RebalanceWithdrawRecovery(n, s) /\ Holds(r) = 0
  BY HoldsFields
<1> QED
  BY <1>1, <1>3, <1>4, MoveKeeps, StoredKeeps DEF ExecuteRebalance

\* initiateRebalance.
LEMMA InitiateRebalanceKeeps ==
    ASSUME TypeInv, TypeInv', PhaseInv, NEW n, NEW s, InitiateRebalance(n, s)
    PROVE  Deployed' = Deployed
<1>1. /\ s \in Strategies /\ s # ActiveStrategy /\ epochNonce # 1
      /\ rebalance.state = "NONE" /\ previousEpoch.status # "EXECUTING"
  BY DEF InitiateRebalance, InitiateRebalanceGuard, ActiveStrategy
<1>2. ccip = {} /\ ParentChain \in Chains
  BY <1>1, RestPhase, ChainFacts DEF PhaseInv, Undeployed, AtRest, Quiet, Calm
<1>3. CASE RebalanceFromRemote(s)
  BY <1>3, Untouched DEF RebalanceFromRemote
<1>4. ASSUME NEW c \in Chains, c = ParentChain,
             RebalanceLocalToLocal(s) \/ RebalanceLocalToRemote(s)
      PROVE  Deployed' = Deployed
  <2>1. CanWithdraw(c, position[ActiveOn(c)])
    BY <1>4 DEF RebalanceLocalToLocal, RebalanceLocalToRemote
  <2>2. PICK a \in Nat : a = position[ActiveOn(c)]
    BY <2>1, BackingTypes, ActiveOnType DEF CanWithdraw, TypeInv, TypeOK
  <2>3. PICK held \in [Strategies -> Nat] :
          held = Withdrawn(c, a) /\ SumFunction(held) + a = InAdapters
    BY <2>1, <2>2, WithdrawTakes
  <2>4. InRecovery' = InRecovery /\ InLanes = 0
    BY <1>2, <1>4, PartsUntouched, EmptyLanes DEF RebalanceLocalToLocal,
       RebalanceLocalToRemote
  <2>5. CASE RebalanceLocalToLocal(s)
    <3>1. position' = Deposited(held, s, a) /\ ccip' = {}
      BY <1>2, <1>4, <2>2, <2>3, <2>5 DEF RebalanceLocalToLocal
    <3>2. InAdapters' = SumFunction(held) + a
      BY <1>1, <3>1, DepositAdds DEF InAdapters
    <3>3. InLanes' = 0
      BY <3>1, EmptyLanes
    <3> QED
      BY <2>3, <2>4, <3>2, <3>3 DEF Deployed
  <2>6. CASE RebalanceLocalToRemote(s)
    <3>1. position' = held
      BY <1>4, <2>2, <2>3, <2>6 DEF RebalanceLocalToRemote
    <3>0. PICK m : m = Message("REBALANCE", ParentChain, s.chainSelector, rebalance.nonce,
                               s.protocolId, a)
      OBVIOUS
    <3>2. ccip' = {m} /\ m.amount = a
      <4>1. ccip' = ccip \union {m}
        BY <1>4, <2>2, <2>6, <3>0 DEF RebalanceLocalToRemote
      <4> QED
        BY <1>2, <3>0, <4>1 DEF Message
    <3>3. InLanes' = a
      BY <3>2, OneMessage
    <3>4. PICK h \in Nat, x \in Nat : h = SumFunction(held) /\ x = InRecovery
      BY FiniteDeployment, TotalNat, BackingTypes
    <3>5. h + a + x = (h + a) + 0 + x
      OBVIOUS
    <3>6. InAdapters' = h /\ InAdapters = h + a
      BY <2>3, <3>1, <3>4 DEF InAdapters
    <3> QED
      BY <2>4, <3>3, <3>4, <3>5, <3>6 DEF Deployed
  <2> QED
    BY <1>4, <2>5, <2>6
<1> QED
  BY <1>2, <1>3, <1>4 DEF InitiateRebalance

\* closeEpoch: the settlement takes in or pays out the net amount, unless that is
\* still to be fetched.
LEMMA SettleMoves ==
    ASSUME TypeInv, AtRest, NEW deposit \in Nat, NEW withdraw \in Nat,
           NEW shareMint
    PROVE  /\ SettleNetZero(deposit, withdraw, shareMint)
                \/ SettleRemoteWithdraw(deposit, withdraw, shareMint)
              => Deployed' = Deployed
           /\ SettleLocalDeposit(deposit, withdraw, shareMint)
                \/ SettleRemoteDeposit(deposit, withdraw, shareMint)
              => Deployed' = Deployed + (deposit - withdraw)
           /\ SettleLocalWithdraw(deposit, withdraw, shareMint)
              => Deployed' + (withdraw - deposit) = Deployed
<1>1. ccip = {} /\ ParentChain \in Chains /\ InLanes = 0
  BY ChainFacts, EmptyLanes DEF AtRest, Quiet, Calm
<1>2. PICK x \in Nat, y \in Nat : x = InAdapters /\ y = InRecovery
  BY BackingTypes
<1>3. ASSUME SettleNetZero(deposit, withdraw, shareMint)
               \/ SettleRemoteWithdraw(deposit, withdraw, shareMint)
      PROVE  Deployed' = Deployed
  BY <1>3, Untouched DEF SettleNetZero, SettleRemoteWithdraw, baseVars
<1>4. ASSUME SettleLocalDeposit(deposit, withdraw, shareMint)
      PROVE  Deployed' = Deployed + (deposit - withdraw)
  <2>1. PICK a \in Nat : a = deposit - withdraw
    BY <1>4 DEF SettleLocalDeposit
  <2>2. InAdapters' = x + a
    BY <1>1, <1>2, <1>4, <2>1, DepositKeeps DEF SettleLocalDeposit, IsLocalStrategy
  <2>3. InLanes' = 0 /\ InRecovery' = y
    BY <1>1, <1>2, <1>4, PartsUntouched DEF SettleLocalDeposit
  <2>4. (x + a) + 0 + y = (x + 0 + y) + a
    OBVIOUS
  <2> QED
    BY <1>1, <1>2, <2>1, <2>2, <2>3, <2>4 DEF Deployed
<1>5. ASSUME SettleRemoteDeposit(deposit, withdraw, shareMint)
      PROVE  Deployed' = Deployed + (deposit - withdraw)
  <2>1. PICK a \in Nat : a = deposit - withdraw
    BY <1>5 DEF SettleRemoteDeposit
  <2>2. PICK m : m = Message("EPOCH_NET_DEPOSIT", ParentChain,
                        rebalance.activeStrategy.chainSelector, epochNonce, NoProtocol, a)
    OBVIOUS
  <2>3. ccip' = ccip \union {m}
    BY <1>5, <2>1, <2>2 DEF SettleRemoteDeposit
  <2>4. ccip' = {m} /\ m.amount = a
    BY <1>1, <2>2, <2>3 DEF Message
  <2>5. InLanes' = a /\ InAdapters' = x /\ InRecovery' = y
    BY <1>2, <1>5, <2>4, OneMessage, PartsUntouched DEF SettleRemoteDeposit
  <2>6. x + a + y = (x + 0 + y) + a
    OBVIOUS
  <2> QED
    BY <1>1, <1>2, <2>1, <2>5, <2>6 DEF Deployed
<1>6. ASSUME SettleLocalWithdraw(deposit, withdraw, shareMint)
      PROVE  Deployed' + (withdraw - deposit) = Deployed
  <2>1. PICK a \in Nat : a = withdraw - deposit
    BY <1>6 DEF SettleLocalWithdraw
  <2>2. InAdapters' + a = x
    BY <1>1, <1>2, <1>6, <2>1, WithdrawKeeps DEF SettleLocalWithdraw
  <2>3. InLanes' = 0 /\ InRecovery' = y
    BY <1>1, <1>2, <1>6, PartsUntouched DEF SettleLocalWithdraw
  <2>4. InAdapters' \in Nat
    <3>1. CanWithdraw(ParentChain, a) /\ position' = Withdrawn(ParentChain, a)
      BY <1>6, <2>1 DEF SettleLocalWithdraw
    <3>2. position' \in [Strategies -> Nat]
      BY <1>1, <3>1, WithdrawTakes
    <3>3. PICK f \in [Strategies -> Nat] : f = position'
      BY <3>2
    <3> QED
      BY <3>3, FiniteDeployment, TotalNat DEF InAdapters
  <2>5. PICK z \in Nat : z = InAdapters' /\ z + a = x
    BY <2>2, <2>4
  <2>6. z + a = x
    BY <2>5
  <2>7. (z + 0 + y) + a = x + 0 + y
    BY <2>6
  <2> QED
    BY <1>1, <1>2, <2>1, <2>3, <2>5, <2>7 DEF Deployed
<1> QED
  BY <1>3, <1>4, <1>5, <1>6

\* What a delivery moves is what was sent, and only the proceeds of a withdrawal
\* leave the fund.
LEMMA DeliveryKeeps ==
    ASSUME MaxLoss = 0, TypeInv, TypeInv', PhaseInv, NEW m \in ccip,
           DeliverToParent(m) \/ DeliverToChild(m)
    PROVE  \/ ReceiveEpochNetWithdraw(m, m.amount) /\ UNCHANGED <<childVars, creVars>>
           \/ ReceiveRebalanceOnParent(m, m.amount) /\ UNCHANGED <<childVars, creVars>>
                /\ Deployed' = Deployed
           \/ \E c \in ChildChains :
                /\ ReceiveEpochNetDeposit(c, m, m.amount)
                     \/ ReceiveRebalanceOnChild(c, m, m.amount)
                /\ UNCHANGED <<parentVars, creVars>>
                /\ Deployed' = Deployed
<1> USE DEF PhaseInv
<1>1. m.amount \in Nat /\ \A d \in Deliveries(m) : d = m.amount
  BY BackingTypes, WholeDelivery
<1>2. ASSUME NEW c \in ChildChains, ReceiveEpochNetDeposit(c, m, m.amount)
      PROVE  Deployed' = Deployed
  BY <1>2, ReceiveDepositKeeps, ChainFacts
<1>3. ASSUME NEW c \in ChildChains, ReceiveRebalanceOnChild(c, m, m.amount)
      PROVE  Deployed' = Deployed
  BY <1>3, ReceiveRebalanceKeeps, ChainFacts DEF ReceiveRebalanceOnChild
<1>4. ASSUME ReceiveRebalanceOnParent(m, m.amount)
      PROVE  Deployed' = Deployed
  BY <1>4, ReceiveRebalanceKeeps, ChainFacts DEF ReceiveRebalanceOnParent
<1>5. CASE DeliverToParent(m)
  BY <1>1, <1>4, <1>5 DEF DeliverToParent
<1>6. CASE DeliverToChild(m)
  BY <1>1, <1>2, <1>3, <1>6 DEF DeliverToChild
<1> QED
  BY <1>5, <1>6

----------------------------------------------------------------------------
(* What every step does to the fund. *)

\* The three steps that settle an epoch, as the workflow and CCIP bring them about.
Closes(r) ==
    /\ r.call = "closeEpoch" /\ CloseEpoch(r.nonce, r.amount)
    /\ UNCHANGED <<childVars, closeSnapshot>> /\ reports' \subseteq reports

Completes(r) ==
    /\ r.call = "completeEpochDeposit" /\ CompleteEpochDeposit(r.nonce, r.amount)
    /\ UNCHANGED <<childVars, closeSnapshot>> /\ reports' \subseteq reports

Returns(m) ==
    ReceiveEpochNetWithdraw(m, m.amount) /\ UNCHANGED <<childVars, creVars>>

\* Every other step leaves the epochs and what is deployed alone, and changes the
\* share count by a management fee at most.
Keeps ==
    /\ Deployed' = Deployed
    /\ UNCHANGED <<epochNonce, previousEpoch>>
    /\ totalShares' = totalShares \/ \E s : FinalizeRebalance(s)

\* A step that moves no assets and leaves the parent's books alone.
LEMMA NothingMoves ==
    ASSUME UNCHANGED <<position, ccip, recovery, epochNonce, previousEpoch, totalShares>>
    PROVE  Keeps
BY Untouched DEF Keeps

\* Forwarding a report.
LEMMA ForwardKeeps ==
    ASSUME TypeInv, TypeInv', PhaseInv, NEW r \in reports,
           ForwardToParent(r) \/ ForwardToChild(r)
    PROVE  Closes(r) \/ Completes(r) \/ Keeps
<1>1. r.nonce \in Nat /\ r.amount \in Nat /\ ReportFits(r)
  BY DEF TypeInv, TypeOK, CreWorkflowTypeOK, Reports, PhaseInv
<1>2. reports' \subseteq reports
  BY UseUpShrinks DEF ForwardToParent, ForwardToChild
<1>3. CASE ForwardToParent(r)
  <2>1. CASE r.call = "closeEpoch" /\ CloseEpoch(r.nonce, r.amount)
    BY <1>2, <1>3, <2>1 DEF ForwardToParent, Closes
  <2>2. CASE r.call = "completeEpochDeposit" /\ CompleteEpochDeposit(r.nonce, r.amount)
    BY <1>2, <1>3, <2>2 DEF ForwardToParent, Completes
  <2>3. CASE InitiateRebalance(r.nonce, r.strategy)
    <3>1. Deployed' = Deployed
      BY <2>3, InitiateRebalanceKeeps
    <3>2. UNCHANGED <<epochNonce, previousEpoch>>
      BY <2>3 DEF InitiateRebalance, RebalanceLocalToLocal, RebalanceLocalToRemote,
         RebalanceFromRemote, FinalizeRebalance, MarkRebalancing
    <3>3. totalShares' = totalShares \/ \E s : FinalizeRebalance(s)
      BY <2>3, Zenon DEF InitiateRebalance, RebalanceLocalToLocal, RebalanceLocalToRemote,
         RebalanceFromRemote, MarkRebalancing
    <3> QED
      BY <3>1, <3>2, <3>3 DEF Keeps
  <2>4. CASE CompleteRebalance(r.nonce)
    <3>1. FinalizeRebalance(rebalance.pendingStrategy) /\ UNCHANGED baseVars
      BY <2>4 DEF CompleteRebalance
    <3>2. Deployed' = Deployed
      BY <3>1, Untouched DEF baseVars
    <3> QED
      BY <3>1, <3>2 DEF Keeps, FinalizeRebalance
  <2> QED
    BY <1>3, <2>1, <2>2, <2>3, <2>4 DEF ForwardToParent
<1>4. CASE ForwardToChild(r)
  <2>1. Deployed' = Deployed
    BY <1>1, <1>4, ExecuteEpochWithdrawKeeps, ExecuteRebalanceKeeps DEF ForwardToChild,
       ReportFits
  <2> QED
    BY <1>4, <2>1 DEF ForwardToChild, Keeps, parentVars
<1> QED
  BY <1>3, <1>4

\* Every step of the deployment.
LEMMA StepKeeps ==
    ASSUME MaxLoss = 0, TypeInv, TypeInv', PhaseInv, [Next]_vars
    PROVE  \/ \E r \in reports : Closes(r) \/ Completes(r)
           \/ \E m \in ccip : Returns(m)
           \/ Keeps
<1>1. CASE ForwardReport
  BY <1>1, ForwardKeeps DEF ForwardReport
<1>2. CASE DeliverMessage
  <2>1. PICK m \in ccip : DeliverToParent(m) \/ DeliverToChild(m)
    BY <1>2 DEF DeliverMessage
  <2>2. CASE ReceiveEpochNetWithdraw(m, m.amount) /\ UNCHANGED <<childVars, creVars>>
    BY <2>2 DEF Returns
  <2>3. CASE ReceiveRebalanceOnParent(m, m.amount) /\ Deployed' = Deployed
    <3>1. UNCHANGED parentVars \/ \E s : FinalizeRebalance(s)
      BY <2>3, Zenon DEF ReceiveRebalanceOnParent
    <3> QED
      BY <2>3, <3>1 DEF Keeps, parentVars, FinalizeRebalance
  <2>4. CASE UNCHANGED parentVars /\ Deployed' = Deployed
    BY <2>4 DEF Keeps, parentVars
  <2> QED
    BY <2>1, <2>2, <2>3, <2>4, DeliveryKeeps
<1>3. CASE ChildRecovers
  BY <1>3, ChildRecoveryKeeps, ChainFacts DEF ChildRecovers, PhaseInv, Keeps, parentVars
<1>4. CASE ParentRecovers
  <2>1. \E s : FinalizeRebalance(s)
    BY <1>4, Zenon DEF ParentRecovers, ExecuteRecoveryOnParent
  <2> QED
    BY <1>4, <2>1, ParentRecoveryKeeps DEF PhaseInv, Keeps, FinalizeRebalance
<1>5. CASE AdminSetsAdapter
  BY <1>5, NothingMoves DEF AdminSetsAdapter, SetInitialActiveProtocolAdapter
<1>6. CASE TimePasses \/ PauserActs
  BY <1>6, NothingMoves DEF TimePasses, EpochAges, RebalanceAges, PauserActs, Pause, Unpause,
     baseVars, parentVars
<1>7. CASE EpochCronReadsParent \/ EpochCronReadsChildren \/ RebalanceCronRuns
  BY <1>7, NothingMoves DEF EpochCronReadsParent, EpochCronReadsChildren, RebalanceCronRuns,
     RebalanceCron, baseVars, parentVars
<1>8. CASE WorkflowHandlesLog
  BY <1>8, NothingMoves DEF WorkflowHandlesLog, HandleLog, parentVars
<1>9. CASE UNCHANGED vars
  BY <1>9, NothingMoves DEF vars, baseVars, parentVars
<1> QED
  BY <1>1, <1>2, <1>3, <1>4, <1>5, <1>6, <1>7, <1>8, <1>9 DEF Next

----------------------------------------------------------------------------
(* Readings of the TVL. *)

\* While no epoch executes, a vault's TVL is the whole position or nothing.
LEMMA WholeOrNothing ==
    ASSUME TypeInv, PhaseInv, previousEpoch.status # "EXECUTING", NEW c \in Chains
    PROVE  GetTVL(c) \in {0, Deployed}
<1> USE DEF PhaseInv
<1>1. CASE NoAdapters /\ NoRecoveries
  BY <1>1 DEF NoAdapters, NoRecoveries, NoRecovery, GetTVL, HasAdapter
<1>2. ASSUME NEW s \in Strategies, AdapterOnlyAt(s),
             \A d \in Chains : d # s.chainSelector => recovery[d] = NoRecovery
      PROVE  GetTVL(c) \in {0, Deployed}
  <2>1. PICK k \in Chains : k = s.chainSelector
    BY StrategyFacts
  <2>2. HasAdapter(k) /\ ActiveOn(k) = s /\ \A d \in Chains : d # k => ~HasAdapter(d)
    BY <1>2, <2>1, AdapterFacts
  <2>3. InLanes = 0
    <3>1. ASSUME NEW m \in ccip PROVE FALSE
      <4>1. NoAdapters
        BY <3>1, InFlightPhase DEF DepositPhase, WithdrawPhase, Executing, RebalanceInFlight
      <4> QED
        BY <2>2, <4>1 DEF NoAdapters, HasAdapter
    <3> QED
      BY <3>1, EmptyLanes
  <2>4. recovery[k].mode # "CCIP_SEND"
    <3>1. ASSUME recovery[k].mode = "CCIP_SEND" PROVE FALSE
      <4>1. ~RequireNoRecovery(k)
        BY <3>1 DEF RequireNoRecovery
      <4>2. Executing \/ NoAdapters
        BY <3>1, <4>1, RecoveringPhase, RecoveryFields DEF DepositPhase, WithdrawPhase,
           RebalanceUnsent
      <4> QED
        BY <2>2, <4>2 DEF NoAdapters, HasAdapter, Executing
    <3> QED
      BY <3>1
  <2>5. InAdapters = position[s] /\ InRecovery = HeldInRecovery(k)
    BY <1>2, <2>1, OnePosition, OneRecoveryHolds
  <2>6. position[s] \in Nat /\ recovery[k].amount \in Nat
    BY BackingTypes
  <2>7. GetTVL(k) = position[s] + 0 + HeldInRecovery(k)
    BY <2>2, <2>4, <2>6 DEF GetTVL, HeldInRecovery
  <2>8. c # k => GetTVL(c) = 0
    BY <1>2, <2>1, <2>2 DEF GetTVL, NoRecovery
  <2> QED
    BY <2>3, <2>5, <2>7, <2>8 DEF Deployed
<1>3. ASSUME NoAdapters, NEW k \in Chains,
             \A d \in Chains : d # k => recovery[d] = NoRecovery,
             recovery[k].mode = "CCIP_SEND", recovery[k].ccipTx = "REBALANCE"
      PROVE  GetTVL(c) \in {0, Deployed}
  <2>1. InLanes = 0
    BY <1>3, RecoveringPhase, EmptyLanes DEF RequireNoRecovery
  <2>2. InAdapters = 0 /\ InRecovery = HeldInRecovery(k) /\ recovery[k].amount \in Nat
    BY <1>3, NoPosition, OneRecoveryHolds, BackingTypes
  <2>3. GetTVL(k) = recovery[k].amount /\ HeldInRecovery(k) = recovery[k].amount
    BY <1>3 DEF GetTVL, HeldInRecovery, NoAdapters, HasAdapter
  <2>4. c # k => GetTVL(c) = 0
    BY <1>3 DEF GetTVL, NoRecovery, NoAdapters, HasAdapter
  <2> QED
    BY <2>1, <2>2, <2>3, <2>4 DEF Deployed
<1> QED
  BY <1>1, <1>2, <1>3, OneVault

\* A reading that was right when it was made stays right as long as it is of use: a
\* step of an executing epoch leaves no reading of it, and other steps keep the fund.
LEMMA ReadingStays ==
    ASSUME TypeInv, NEW n \in Nat, NEW tvl, ReadingOf(n, tvl),
           \/ epochNonce' = epochNonce + 1
           \/ previousEpoch.status = "EXECUTING" /\ epochNonce' = epochNonce
           \/ Keeps
    PROVE  ReadingOf(n, tvl)'
<1>1. epochNonce \in Nat
  BY PhaseTypes
<1>2. CASE epochNonce' = epochNonce + 1
  BY <1>1, <1>2 DEF ReadingOf
<1>3. CASE previousEpoch.status = "EXECUTING" /\ epochNonce' = epochNonce
  BY <1>1, <1>3 DEF ReadingOf
<1>4. CASE Keeps
  BY <1>4 DEF Keeps, ReadingOf
<1> QED
  BY <1>2, <1>3, <1>4

\* So it is after any step of the deployment.
LEMMA ReadingKept ==
    ASSUME MaxLoss = 0, TypeInv, TypeInv', PhaseInv, [Next]_vars, NEW n \in Nat, NEW tvl,
           ReadingOf(n, tvl)
    PROVE  ReadingOf(n, tvl)'
<1>1. ASSUME NEW r, Closes(r) PROVE epochNonce' = epochNonce + 1
  BY <1>1 DEF Closes, CloseEpoch, SettleNetZero, SettleLocalDeposit, SettleRemoteDeposit,
     SettleLocalWithdraw, SettleRemoteWithdraw, OpenNextEpoch
<1>2. ASSUME NEW r, Completes(r)
      PROVE  previousEpoch.status = "EXECUTING" /\ epochNonce' = epochNonce
  BY <1>2 DEF Completes, CompleteEpochDeposit, CompleteEpochDepositGuard
<1>3. ASSUME NEW m, Returns(m)
      PROVE  previousEpoch.status = "EXECUTING" /\ epochNonce' = epochNonce
  BY <1>3 DEF Returns, ReceiveEpochNetWithdraw, NetWithdrawReceivable
<1> QED
  BY <1>1, <1>2, <1>3, StepKeeps, ReadingStays

\* The reports and the reading of the epoch cron after a step are those before it,
\* or what the cron has just read or reported.
LEMMA ReadingsCome ==
    ASSUME [Next]_vars
    PROVE  /\ closeSnapshot' # closeSnapshot => EpochCronReadsParent \/ EpochCronReadsChildren
           /\ \A r \in reports' : r.call = "closeEpoch" =>
                r \in reports \/ EpochCronReadsChildren
<1>1. CASE ForwardReport
  <2>1. PICK r \in reports : ForwardToParent(r) \/ ForwardToChild(r)
    BY <1>1 DEF ForwardReport
  <2> QED
    BY <2>1, UseUpShrinks DEF ForwardToParent, ForwardToChild
<1>2. CASE DeliverMessage
  BY <1>2 DEF DeliverMessage, DeliverToParent, DeliverToChild, creVars
<1>3. CASE ChildRecovers \/ ParentRecovers \/ AdminSetsAdapter \/ TimePasses \/ PauserActs
  BY <1>3 DEF ChildRecovers, ParentRecovers, AdminSetsAdapter, TimePasses, PauserActs, creVars
<1>4. CASE RebalanceCronRuns
  BY <1>4 DEF RebalanceCronRuns, RebalanceCron, Report
<1>5. CASE WorkflowHandlesLog
  BY <1>5 DEF WorkflowHandlesLog, HandleLog, Continuation, Report
<1>6. CASE UNCHANGED vars
  BY <1>6 DEF vars, creVars
<1>7. CASE EpochCronReadsParent
  BY <1>7 DEF EpochCronReadsParent
<1> QED
  BY <1>1, <1>2, <1>3, <1>4, <1>5, <1>6, <1>7 DEF Next

\* Every reading that may still be acted on is of the whole position.
LEMMA NextReadings ==
    ASSUME MaxLoss = 0, TypeInv, TypeInv', PhaseInv, ReadingsAgree, [Next]_vars
    PROVE  ReadingsAgree'
<1>1. /\ closeSnapshot \in Snapshots \union {NoSnapshot} /\ closeSnapshot.nonce \in Nat
      /\ epochNonce \in Nat /\ epochNonce # 0 /\ reports \subseteq Reports
      /\ \A r \in reports : r.nonce \in Nat
  <2>1. closeSnapshot \in Snapshots \union {NoSnapshot} /\ reports \subseteq Reports
    BY Zenon DEF TypeInv, TypeOK, CreWorkflowTypeOK
  <2> QED
    BY <2>1, PhaseTypes DEF Snapshots, NoSnapshot
<1>2. \A n \in Nat : \A tvl : ReadingOf(n, tvl) => ReadingOf(n, tvl)'
  BY ReadingKept
<1>3. /\ closeSnapshot'.chainSelector = ParentChain =>
           ReadingOf(closeSnapshot.nonce, closeSnapshot.tvl)'
      /\ ReadingOf(closeSnapshot.nonce, 0)'
  <2>1. CASE closeSnapshot' = closeSnapshot
    BY <1>1, <1>2, <2>1 DEF ReadingsAgree, ReadingOf
  <2>2. CASE EpochCronReadsParent
    <3>1. previousEpoch.status # "EXECUTING"
      BY <2>2 DEF EpochCronReadsParent, EpochCronReady, PreviousEpochSettled, PhaseInv
    <3>2. GetTVL(ParentChain) \in {0, Deployed}
      BY <3>1, WholeOrNothing, ChainFacts
    <3>3. /\ closeSnapshot'.nonce = epochNonce
          /\ closeSnapshot'.tvl = GetTVL(ParentChain)
      BY <2>2 DEF EpochCronReadsParent
    <3>4. UNCHANGED <<epochNonce, previousEpoch>> /\ Deployed' = Deployed
      BY <2>2, Untouched DEF EpochCronReadsParent, baseVars, parentVars
    <3> QED
      BY <1>1, <3>1, <3>2, <3>3, <3>4 DEF ReadingOf
  <2>3. CASE EpochCronReadsChildren
    <3>1. closeSnapshot' = NoSnapshot /\ epochNonce' = epochNonce
      BY <2>3 DEF EpochCronReadsChildren, parentVars
    <3> QED
      BY <1>1, <3>1, ChainFacts DEF NoSnapshot, ReadingOf
  <2> QED
    BY <2>1, <2>2, <2>3, ReadingsCome
<1>4. ASSUME NEW r \in reports', r.call = "closeEpoch"
      PROVE  ReadingOf(r.nonce, r.amount)'
  <2>1. CASE r \in reports
    BY <1>1, <1>2, <1>4, <2>1 DEF ReadingsAgree
  <2>2. CASE EpochCronReadsChildren /\ r \notin reports
    <3>1. /\ closeSnapshot # NoSnapshot
          /\ r = Report("closeEpoch", ParentChain, closeSnapshot.nonce, SnapshotTVL, NoStrategy)
          /\ UNCHANGED baseVars /\ UNCHANGED parentVars
      BY <1>4, <2>2 DEF EpochCronReadsChildren
    <3>2. r.nonce = closeSnapshot.nonce /\ r.amount = SnapshotTVL
      BY <3>1 DEF Report
    <3>3. ReadingOf(closeSnapshot.nonce, SnapshotTVL)
      <4>1. CASE closeSnapshot.chainSelector = ParentChain
        BY <4>1 DEF ReadingsAgree, SnapshotTVL
      <4>2. CASE closeSnapshot.chainSelector # ParentChain
        <5>1. PICK c \in Chains : c = closeSnapshot.chainSelector
          BY <1>1, <3>1 DEF Snapshots
        <5>2. SnapshotTVL = GetTVL(c)
          BY <4>2, <5>1 DEF SnapshotTVL
        <5>3. previousEpoch.status # "EXECUTING" => GetTVL(c) \in {0, Deployed}
          BY WholeOrNothing
        <5> QED
          BY <5>2, <5>3 DEF ReadingsAgree, ReadingOf
      <4> QED
        BY <4>1, <4>2
    <3>4. PICK n, t : n \in Nat /\ n = closeSnapshot.nonce /\ t = SnapshotTVL
      BY <1>1
    <3> QED
      BY <1>2, <3>2, <3>3, <3>4 DEF ReadingOf
  <2> QED
    BY <1>4, <2>1, <2>2, ReadingsCome
<1> QED
  BY <1>3, <1>4 DEF ReadingsAgree

\* Where transfers arrive whole, ReadingsAgree is an invariant ...
LEMMA ReadingsCorrect ==
    ASSUME MaxLoss = 0
    PROVE  Spec => []ReadingsAgree
<1>1. Init => ReadingsAgree
  BY ChainFacts DEF Init, CreWorkflowInit, ParentVaultInit, NoSnapshot, ReadingsAgree, ReadingOf
<1>2. TypeInv /\ TypeInv' /\ PhaseInv /\ ReadingsAgree /\ [Next]_vars => ReadingsAgree'
  BY NextReadings
<1> QED
  BY <1>1, <1>2, TypeInvariance, PhaseCorrect, PTL DEF Spec

\* ... so a closeEpoch report that the parent would still act on carries the value of
\* the whole deployed position, whatever happened since the cron's two readings.
THEOREM ReportedTvlIsCurrent ==
    ASSUME MaxLoss = 0
    PROVE  Spec => []AcceptedTvlIsCurrent
<1>1. ReadingsAgree => AcceptedTvlIsCurrent
  BY DEF ReadingsAgree, AcceptedTvlIsCurrent, ReadingOf
<1> QED
  BY <1>1, ReadingsCorrect, PTL

----------------------------------------------------------------------------
(* The amounts on their way. *)

\* While an epoch executes, new messages, recoveries, logs and reports carry its net
\* amount.
NewAmountsAgree ==
    /\ \A m \in ccip' : m \in ccip \/ m.amount = NetAmount
    /\ \A c \in Chains : \/ recovery'[c] = recovery[c] \/ recovery'[c] = NoRecovery
                         \/ recovery'[c].amount = NetAmount
    /\ \A l \in logs' : \/ l \in logs \/ l.event # "EpochDepositToStrategySuccess"
                        \/ l.amount = NetAmount
    /\ \A r \in reports' : \/ r \in reports \/ r.call # "completeEpochDeposit"
                           \/ r.amount = NetAmount
                           \/ r.nonce # epochNonce - 1

\* Then all of them still do.
LEMMA AmountsKept ==
    ASSUME previousEpoch.status = "EXECUTING", AmountsAgree, NewAmountsAgree,
           UNCHANGED <<epochNonce, previousEpoch>>
    PROVE  AmountsAgree'
<1>1. NetAmount' = NetAmount
  BY DEF NetAmount
<1>2. NoRecovery.mode = "NONE"
  BY DEF NoRecovery
<1> QED
  BY <1>1, <1>2, Zenon DEF AmountsAgree, NewAmountsAgree, RequireNoRecovery

\* The messages and recoveries of a send carry the amount sent.
LEMMA SentAmounts ==
    ASSUME TypeInv, NEW c \in Chains, NEW tx, NEW dest, NEW n, NEW p, NEW a,
           CcipSend(c, tx, dest, n, p, a)
    PROVE  /\ \A m \in ccip' : m \in ccip \/ m.amount = a
           /\ \A d \in Chains : \/ recovery'[d] = recovery[d] \/ recovery'[d] = NoRecovery
                                \/ recovery'[d].amount = a
<1>1. /\ Message(tx, c, dest, n, p, a).amount = a
      /\ CcipSendRecovery(tx, dest, n, p, a).amount = a
  BY DEF Message, CcipSendRecovery
<1>2. recovery \in [Chains -> Recoveries]
  BY BackingTypes
<1> QED
  BY <1>1, <1>2 DEF CcipSend

\* The net amount of a withdrawal, and of a deposit.
LEMMA NetAmounts ==
    ASSUME TypeInv
    PROVE  /\ NetAmount \in Nat
           /\ \A a \in Nat : previousEpoch.withdrawClaim = previousEpoch.deposit + a
                => NetAmount = a
           /\ previousEpoch.deposit > previousEpoch.withdrawClaim =>
                NetAmount = ExpectedDeposit
BY PhaseTypes DEF NetAmount, ExpectedDeposit

\* The steps of the workflow, the clock, the pauser and the owner.
LEMMA WorkflowAmounts ==
    ASSUME TypeInv, previousEpoch.status = "EXECUTING", AmountsAgree,
           \/ AdminSetsAdapter \/ TimePasses \/ PauserActs
           \/ EpochCronReadsParent \/ EpochCronReadsChildren \/ RebalanceCronRuns
           \/ WorkflowHandlesLog \/ UNCHANGED vars
    PROVE  AmountsAgree'
<1>1. CASE AdminSetsAdapter \/ TimePasses \/ PauserActs \/ UNCHANGED vars
  BY <1>1, AmountsKept DEF AdminSetsAdapter, SetInitialActiveProtocolAdapter, TimePasses,
     EpochAges, RebalanceAges, PauserActs, Pause, Unpause, baseVars, parentVars, childVars,
     creVars, vars, NewAmountsAgree
<1>2. CASE EpochCronReadsParent \/ EpochCronReadsChildren \/ RebalanceCronRuns
  <2>1. /\ UNCHANGED <<ccip, recovery, logs, epochNonce, previousEpoch>>
        /\ \A r \in reports' : r \in reports \/ r.call # "completeEpochDeposit"
    BY <1>2 DEF EpochCronReadsParent, EpochCronReadsChildren, RebalanceCronRuns,
       RebalanceCron, Report, baseVars, parentVars
  <2> QED
    BY <2>1, AmountsKept DEF NewAmountsAgree
<1>3. CASE WorkflowHandlesLog
  <2>1. PICK l \in logs : HandleLog(l)
    BY <1>3 DEF WorkflowHandlesLog
  <2>2. /\ UNCHANGED <<ccip, recovery, epochNonce, previousEpoch>> /\ logs' \subseteq logs
    BY <2>1 DEF HandleLog, parentVars
  <2>3. ASSUME NEW r \in reports', r \notin reports, r.call = "completeEpochDeposit"
        PROVE  r.amount = NetAmount
    <3>1. /\ OnEpochDepositToStrategySuccess(l)
          /\ r = Report("completeEpochDeposit", ParentChain, l.nonce, l.amount, NoStrategy)
      BY <2>1, <2>3 DEF HandleLog, Continuation, Report
    <3>2. r.amount = l.amount /\ l.event = "EpochDepositToStrategySuccess"
          /\ l.nonce = epochNonce - 1
      BY <3>1 DEF OnEpochDepositToStrategySuccess, MatchesExecutingEpoch, Report
    <3> QED
      BY <3>2 DEF AmountsAgree
  <2> QED
    BY <2>2, <2>3, AmountsKept DEF NewAmountsAgree
<1> QED
  BY <1>1, <1>2, <1>3

\* executeEpochWithdraw with the epoch's net amount.
LEMMA ExecuteWithdrawAmounts ==
    ASSUME TypeInv, previousEpoch.status = "EXECUTING", AmountsAgree,
           NEW c \in ChildChains, NEW n \in Nat, NEW a \in Nat, WithdrawFits(c, n, a),
           ExecuteEpochWithdraw(c, n, a),
           reports' \subseteq reports, UNCHANGED <<epochNonce, previousEpoch>>
    PROVE  AmountsAgree'
<1>1. NetAmount = a
  <2>1. n > lastHandledEpochNonce[c]
    BY DEF ExecuteEpochWithdraw, ExecuteEpochWithdrawGuard, FreshEpochNonce
  <2>2. previousEpoch.withdrawClaim = previousEpoch.deposit + a
    BY <2>1 DEF WithdrawFits
  <2> QED
    BY <2>2, NetAmounts
<1>2. UNCHANGED logs /\ c \in Chains
  BY ChainFacts DEF ExecuteEpochWithdraw
<1>3. CASE WithdrawAndSend(c, n, a)
  <2>1. /\ \A m \in ccip' : m \in ccip \/ m.amount = a
        /\ \A d \in Chains : \/ recovery'[d] = recovery[d] \/ recovery'[d] = NoRecovery
                             \/ recovery'[d].amount = a
    BY <1>2, <1>3, SentAmounts DEF WithdrawAndSend
  <2> QED
    BY <1>1, <1>2, <2>1, AmountsKept DEF NewAmountsAgree
<1>4. CASE /\ recovery' = [recovery EXCEPT ![c] = EpochWithdrawRecovery(n, a)]
           /\ UNCHANGED ccip
  <2>1. EpochWithdrawRecovery(n, a).amount = a
    BY DEF EpochWithdrawRecovery, NoRecovery
  <2>2. \A d \in Chains : recovery'[d] = recovery[d] \/ recovery'[d].amount = a
    BY <1>4, <2>1, BackingTypes
  <2> QED
    BY <1>1, <1>2, <1>4, <2>2, AmountsKept DEF NewAmountsAgree
<1> QED
  BY <1>3, <1>4 DEF ExecuteEpochWithdraw

\* A forwarded report.
LEMMA ForwardAmounts ==
    ASSUME TypeInv, PhaseInv, previousEpoch.status = "EXECUTING", AmountsAgree,
           NEW r \in reports, ForwardToParent(r) \/ ForwardToChild(r)
    PROVE  AmountsAgree'
<1>1. r.nonce \in Nat /\ r.amount \in Nat /\ ReportFits(r)
  BY DEF TypeInv, TypeOK, CreWorkflowTypeOK, Reports, PhaseInv
<1>2. reports' \subseteq reports /\ rebalance.state = "NONE"
  BY UseUpShrinks, ExecutingFacts DEF ForwardToParent, ForwardToChild, PhaseInv, Executing
<1>3. CASE ForwardToParent(r)
  <2>1. ~CloseEpoch(r.nonce, r.amount)
    BY DEF CloseEpoch, CloseEpochGuard, PreviousEpochSettled, PhaseInv
  <2>2. ~InitiateRebalance(r.nonce, r.strategy) /\ ~CompleteRebalance(r.nonce)
    BY <1>2 DEF InitiateRebalance, InitiateRebalanceGuard, CompleteRebalance,
       CompleteRebalanceGuard
  <2>3. CompleteEpochDeposit(r.nonce, r.amount)
    BY <1>3, <2>1, <2>2 DEF ForwardToParent
  <2>4. previousEpoch'.status = "CLAIMABLE"
    BY <2>3, PhaseTypes DEF CompleteEpochDeposit, Epochs
  <2> QED
    BY <2>4 DEF AmountsAgree
<1>4. CASE ForwardToChild(r)
  <2>1. PICK c \in ChildChains, a \in Nat : c = r.target /\ a = r.amount
    BY <1>1, <1>4 DEF ForwardToChild
  <2>2. ~ExecuteRebalance(c, r.nonce, r.strategy) \/ r.call # "executeRebalance"
    BY <1>1, <1>2, <2>1 DEF ReportFits, ExecutionFits, ExecuteRebalance,
       ExecuteRebalanceGuard, FreshRebalanceNonce
  <2>3. r.call = "executeEpochWithdraw" /\ ExecuteEpochWithdraw(c, r.nonce, a)
    BY <1>4, <2>1, <2>2 DEF ForwardToChild
  <2>4. WithdrawFits(c, r.nonce, a) /\ UNCHANGED <<epochNonce, previousEpoch>>
    BY <1>1, <1>4, <2>1, <2>3 DEF ReportFits, ForwardToChild, parentVars
  <2> QED
    BY <1>1, <1>2, <2>3, <2>4, ExecuteWithdrawAmounts
<1> QED
  BY <1>3, <1>4

\* A delivery: what arrives whole is deposited, held or confirmed whole.
LEMMA DeliveryAmounts ==
    ASSUME MaxLoss = 0, TypeInv, TypeInv', PhaseInv, previousEpoch.status = "EXECUTING",
           AmountsAgree, NEW m \in ccip, DeliverToParent(m) \/ DeliverToChild(m)
    PROVE  AmountsAgree'
<1>1. m.amount = NetAmount /\ rebalance.state = "NONE"
  BY ExecutingFacts DEF AmountsAgree, PhaseInv, Executing
<1>2. ASSUME ReceiveEpochNetWithdraw(m, m.amount) PROVE AmountsAgree'
  <2>1. previousEpoch'.status = "CLAIMABLE"
    BY <1>2, PhaseTypes DEF ReceiveEpochNetWithdraw, Epochs
  <2> QED
    BY <2>1 DEF AmountsAgree
<1>3. ~ReceiveRebalanceOnParent(m, m.amount)
  BY <1>1 DEF ReceiveRebalanceOnParent, RebalanceReceivable
<1>4. ASSUME NEW c \in ChildChains, ReceiveRebalanceOnChild(c, m, m.amount) PROVE FALSE
  <2>1. m.ccipTx = "REBALANCE"
    BY <1>4 DEF ReceiveRebalanceOnChild, ChildRebalanceReceivable
  <2> QED
    BY <1>1, <2>1, InFlightPhase, MessageFields DEF PhaseInv, BetweenPhase, OutgoingPhase,
       Rebalancing
<1>5. ASSUME NEW c \in ChildChains, ReceiveEpochNetDeposit(c, m, m.amount),
             UNCHANGED <<parentVars, creVars>>
      PROVE  AmountsAgree'
  <2>1. PICK a : a = m.amount /\ a = NetAmount
    BY <1>1
  <2>2. /\ UNCHANGED <<epochNonce, previousEpoch, reports>> /\ ccip' \subseteq ccip
        /\ c \in Chains
    BY <1>5, ChainFacts DEF ReceiveEpochNetDeposit, parentVars, creVars
  <2>3. /\ EpochDepositRecovery(m.nonce, a).amount = a
        /\ EpochDepositLog(c, m.nonce, a).amount = a
    BY DEF EpochDepositRecovery, EpochDepositLog, NoRecovery
  <2>4. CASE logs' = logs \union {EpochDepositLog(c, m.nonce, a)} /\ recovery' = recovery
    BY <2>1, <2>2, <2>3, <2>4, AmountsKept DEF NewAmountsAgree
  <2>5. CASE recovery' = [recovery EXCEPT ![c] = EpochDepositRecovery(m.nonce, a)]
             /\ logs' = logs
    <3>1. \A d \in Chains : recovery'[d] = recovery[d] \/ recovery'[d].amount = a
      BY <2>3, <2>5, BackingTypes
    <3> QED
      BY <2>1, <2>2, <2>5, <3>1, AmountsKept DEF NewAmountsAgree
  <2> QED
    BY <1>5, <2>1, <2>4, <2>5 DEF ReceiveEpochNetDeposit
<1> QED
  BY <1>2, <1>3, <1>4, <1>5, DeliveryKeeps

\* A recovery: what was held is deposited, or sent, whole.
LEMMA RecoveryAmounts ==
    ASSUME TypeInv, PhaseInv, previousEpoch.status = "EXECUTING", AmountsAgree,
           NEW c \in ChildChains, ExecuteRecoveryOnChild(c), UNCHANGED <<parentVars, creVars>>
    PROVE  AmountsAgree'
<1>1. /\ c \in Chains /\ rebalance.state = "NONE" /\ recovery \in [Chains -> Recoveries]
      /\ UNCHANGED <<epochNonce, previousEpoch, reports>>
  BY ChainFacts, ExecutingFacts, BackingTypes DEF PhaseInv, Executing, parentVars, creVars
<1>2. ~RequireNoRecovery(c)
  BY DEF ExecuteRecoveryOnChild, RecoverRebalanceDeposit, RecoverEpochDeposit,
     RecoverEpochWithdraw, RecoverRebalanceWithdraw, RecoverCcipSend, RequireNoRecovery
<1>3. PICK a : a = recovery[c].amount /\ a = NetAmount
  BY <1>1, <1>2 DEF AmountsAgree
<1>4. ~RecoverRebalanceDeposit(c) /\ ~RecoverRebalanceWithdraw(c)
  BY <1>1, <1>2, RecoveryByMode DEF PhaseInv, RecoverRebalanceDeposit,
     RecoverRebalanceWithdraw, OutgoingPhase, Rebalancing
<1>5. CASE RecoverEpochDeposit(c)
  <2>1. EpochDepositLog(c, recovery[c].nonce, a).amount = a
    BY DEF EpochDepositLog
  <2>2. /\ \A l \in logs' : l \in logs \/ l.amount = a
        /\ \A d \in Chains : recovery'[d] = recovery[d] \/ recovery'[d] = NoRecovery
        /\ UNCHANGED ccip
    BY <1>1, <1>3, <1>5, <2>1 DEF RecoverEpochDeposit
  <2> QED
    BY <1>1, <1>3, <2>2, AmountsKept DEF NewAmountsAgree
<1>6. CASE RecoverEpochWithdraw(c)
  <2>1. PICK n : n = recovery[c].nonce
    OBVIOUS
  <2>2. CcipSend(c, "EPOCH_NET_WITHDRAW", ParentChain, n, NoProtocol, a) /\ UNCHANGED logs
    BY <1>3, <1>6, <2>1 DEF RecoverEpochWithdraw, WithdrawAndSend
  <2>3. /\ \A m \in ccip' : m \in ccip \/ m.amount = a
        /\ \A d \in Chains : \/ recovery'[d] = recovery[d] \/ recovery'[d] = NoRecovery
                             \/ recovery'[d].amount = a
    BY <1>1, <2>2, SentAmounts
  <2> QED
    BY <1>1, <1>3, <2>2, <2>3, AmountsKept DEF NewAmountsAgree
<1>7. CASE RecoverCcipSend(c)
  <2>1. PICK m : m = Message(recovery[c].ccipTx, c, recovery[c].target.chainSelector,
                        recovery[c].nonce, recovery[c].target.protocolId, recovery[c].amount)
    OBVIOUS
  <2>2. /\ ccip' = ccip \union {m} /\ recovery' = [recovery EXCEPT ![c] = NoRecovery]
        /\ UNCHANGED logs
    BY <1>7, <2>1 DEF RecoverCcipSend
  <2>3. m.amount = a
    BY <1>3, <2>1 DEF Message
  <2>4. \A d \in Chains : recovery'[d] = recovery[d] \/ recovery'[d] = NoRecovery
    BY <1>1, <2>2
  <2> QED
    BY <1>1, <1>3, <2>2, <2>3, <2>4, AmountsKept DEF NewAmountsAgree
<1> QED
  BY <1>4, <1>5, <1>6, <1>7 DEF ExecuteRecoveryOnChild

\* What a close computes, and that it finds the deployment at rest.
LEMMA CloseParts ==
    ASSUME TypeInv, PhaseInv, NEW r \in reports, Closes(r)
    PROVE  /\ AtRest /\ totalShares \in Nat /\ r.amount \in Nat
           /\ r.nonce = epochNonce /\ UNCHANGED rebalance
           /\ \E deposit \in Nat, burn \in Nat, withdraw \in Nat, shareMint \in Nat :
                /\ burn <= totalShares
                /\ SettlementAllowed(deposit, burn, r.amount, totalShares, IsLocalStrategy)
                /\ withdraw = TotalWithdraw(burn, r.amount, totalShares)
                /\ shareMint = NewShares(deposit, r.amount, totalShares)
                /\ totalShares' = totalShares + shareMint - burn
                /\ \/ SettleNetZero(deposit, withdraw, shareMint)
                   \/ SettleLocalDeposit(deposit, withdraw, shareMint)
                   \/ SettleRemoteDeposit(deposit, withdraw, shareMint)
                   \/ SettleLocalWithdraw(deposit, withdraw, shareMint)
                   \/ SettleRemoteWithdraw(deposit, withdraw, shareMint)
<1>1. totalShares \in Nat /\ reports \subseteq Reports
  BY Zenon DEF TypeInv, TypeOK, ParentVaultTypeOK, CreWorkflowTypeOK
<1>2. r.amount \in Nat /\ r.nonce \in Nat
  BY <1>1 DEF Reports
<1>3. PICK t \in Nat, n \in Nat, shares \in Nat :
        t = r.amount /\ n = r.nonce /\ shares = totalShares
  BY <1>1, <1>2
<1>c. CloseEpoch(n, t)
  BY <1>3 DEF Closes
<1>4. PICK deposit \in 0..MaxDeposit, burn \in 0..shares :
        LET withdraw == TotalWithdraw(burn, t, shares)
            shareMint == NewShares(deposit, t, shares)
        IN  /\ SettlementAllowed(deposit, burn, t, shares, IsLocalStrategy)
            /\ totalShares' = SharesAfterClose(shareMint, burn)
            /\ \/ SettleNetZero(deposit, withdraw, shareMint)
               \/ SettleLocalDeposit(deposit, withdraw, shareMint)
               \/ SettleRemoteDeposit(deposit, withdraw, shareMint)
               \/ SettleLocalWithdraw(deposit, withdraw, shareMint)
               \/ SettleRemoteWithdraw(deposit, withdraw, shareMint)
  BY <1>3, <1>c DEF CloseEpoch
<1>5. deposit \in Nat /\ burn \in Nat /\ burn <= shares
  BY BoundAssumption
<1>6. SettlementAllowed(deposit, burn, t, shares, IsLocalStrategy)
  BY <1>4
<1>7. shares # 0 => t # 0
  BY <1>6 DEF SettlementAllowed
<1>8. PICK withdraw \in Nat, shareMint \in Nat :
        withdraw = TotalWithdraw(burn, t, shares) /\ shareMint = NewShares(deposit, t, shares)
  BY <1>5, <1>7, TotalWithdrawNat, NewSharesNat
<1>9. \/ SettleNetZero(deposit, withdraw, shareMint)
      \/ SettleLocalDeposit(deposit, withdraw, shareMint)
      \/ SettleRemoteDeposit(deposit, withdraw, shareMint)
      \/ SettleLocalWithdraw(deposit, withdraw, shareMint)
      \/ SettleRemoteWithdraw(deposit, withdraw, shareMint)
  BY <1>4, <1>8
<1>10. totalShares' = totalShares + shareMint - burn
  BY <1>4, <1>8 DEF SharesAfterClose
<1>11. /\ rebalance.state = "NONE" /\ previousEpoch.status # "EXECUTING"
       /\ r.nonce = epochNonce /\ UNCHANGED rebalance
  BY DEF Closes, CloseEpoch, CloseEpochGuard, PreviousEpochSettled, PhaseInv
<1>12. AtRest
  <2>1. ASSUME Undeployed PROVE FALSE
    <3>1. shares = 0 => burn = 0 /\ deposit # 0 /\ withdraw = 0
      BY <1>6, <1>8 DEF SettlementAllowed, TotalWithdraw
    <3>2. deposit > withdraw /\ ~IsLocalStrategy /\ ActiveChain \notin Chains
      BY <1>3, <1>5, <2>1, <3>1, ChainFacts DEF Undeployed, NoAdapters, IsLocalStrategy,
         HasAdapter, ActiveStrategy, ActiveChain, NoStrategy
    <3> QED
      BY <1>5, <1>9, <3>2 DEF SettleNetZero, SettleLocalDeposit, SettleRemoteDeposit,
         SettleLocalWithdraw, SettleRemoteWithdraw, ValidateCcipSend, ActiveChain
  <2> QED
    BY <1>11, <2>1, RestPhase DEF PhaseInv
<1> QED
  BY <1>1, <1>2, <1>3, <1>5, <1>6, <1>8, <1>9, <1>10, <1>11, <1>12

\* A close finds the deployment at rest and leaves the epoch executing only with its
\* net amount in the lane, or still to be asked for.
LEMMA CloseAmounts ==
    ASSUME TypeInv, PhaseInv, PhaseInv', NEW r \in reports, Closes(r)
    PROVE  AmountsAgree'
<1>1. PICK deposit \in Nat, withdraw \in Nat, shareMint \in Nat :
        \/ SettleNetZero(deposit, withdraw, shareMint)
        \/ SettleLocalDeposit(deposit, withdraw, shareMint)
        \/ SettleRemoteDeposit(deposit, withdraw, shareMint)
        \/ SettleLocalWithdraw(deposit, withdraw, shareMint)
        \/ SettleRemoteWithdraw(deposit, withdraw, shareMint)
  BY CloseParts
<1>4. Calm
  BY CloseParts DEF AtRest, Quiet
<1>5. /\ epochNonce' - 1 = epochNonce /\ epochNonce \in Nat
      /\ previousEpoch'.deposit = deposit
  BY <1>1, PhaseTypes DEF SettleNetZero, SettleLocalDeposit, SettleRemoteDeposit,
     SettleLocalWithdraw, SettleRemoteWithdraw, OpenNextEpoch
<1>6. \A q \in reports' : q.call = "completeEpochDeposit" => q.nonce # epochNonce' - 1
  <2>1. \A q \in reports : q.call = "completeEpochDeposit" => q.nonce <= epochNonce - 1
    BY DEF PhaseInv, ReportFits, CompletionFits, DepositConfirmable, PreviousNonce
  <2>2. \A q \in reports : q.nonce \in Nat
    BY PhaseTypes
  <2> QED
    BY <1>5, <2>1, <2>2 DEF Closes
<1>7. \A l \in logs : l.event = "EpochDepositToStrategySuccess" => l.nonce # epochNonce' - 1
  <2>1. \A l \in logs : l.event = "EpochDepositToStrategySuccess" => l.nonce <= epochNonce - 1
    BY DEF PhaseInv, LogFits, DepositConfirmable, PreviousNonce
  <2>2. \A l \in logs : l.nonce \in Nat
    BY PhaseTypes
  <2> QED
    BY <1>5, <2>1, <2>2
<1>8. CASE \/ SettleNetZero(deposit, withdraw, shareMint)
           \/ SettleLocalDeposit(deposit, withdraw, shareMint)
           \/ SettleLocalWithdraw(deposit, withdraw, shareMint)
  <2>1. previousEpoch'.status = "CLAIMABLE"
    BY <1>8 DEF SettleNetZero, SettleLocalDeposit, SettleLocalWithdraw, OpenNextEpoch
  <2> QED
    BY <2>1 DEF AmountsAgree
<1>9. CASE SettleRemoteDeposit(deposit, withdraw, shareMint)
  <2>1. PICK a : a = deposit - withdraw
    OBVIOUS
  <2>2. PICK m : m = Message("EPOCH_NET_DEPOSIT", ParentChain,
                        rebalance.activeStrategy.chainSelector, epochNonce, NoProtocol, a)
    OBVIOUS
  <2>3. ccip' = ccip \union {m} /\ deposit > withdraw /\ UNCHANGED <<recovery, logs>>
        /\ previousEpoch'.withdrawClaim = withdraw
    BY <1>9, <2>1, <2>2 DEF SettleRemoteDeposit, OpenNextEpoch
  <2>4. ccip' = {m} /\ m.amount = a
    BY <1>4, <2>2, <2>3 DEF Message, Calm
  <2>5. NetAmount' = a
    BY <1>5, <2>1, <2>3 DEF NetAmount
  <2>6. \A c \in Chains : RequireNoRecovery(c)'
    BY <1>4, <2>3, NoRecoveriesFacts DEF Calm, RequireNoRecovery
  <2> QED
    BY <1>6, <1>7, <2>3, <2>4, <2>5, <2>6 DEF AmountsAgree
<1>10. CASE SettleRemoteWithdraw(deposit, withdraw, shareMint)
  <2>1. /\ UNCHANGED <<recovery, ccip>>
        /\ \A l \in logs' : l \in logs \/ l.event = "EpochWithdrawExecuting"
    BY <1>10 DEF SettleRemoteWithdraw
  <2>2. \A c \in Chains : RequireNoRecovery(c)'
    BY <1>4, <2>1, NoRecoveriesFacts DEF Calm, RequireNoRecovery
  <2> QED
    BY <1>4, <1>6, <1>7, <2>1, <2>2 DEF AmountsAgree, Calm
<1> QED
  BY <1>1, <1>8, <1>9, <1>10

\* Every amount on its way is the net amount of the executing epoch.
LEMMA NextAmounts ==
    ASSUME MaxLoss = 0, TypeInv, TypeInv', PhaseInv, PhaseInv', AmountsAgree, [Next]_vars
    PROVE  AmountsAgree'
<1>1. CASE previousEpoch.status = "EXECUTING"
  <2>1. ~ParentRecovers
    BY <1>1, ExecutingFacts DEF ParentRecovers, ExecuteRecoveryOnParent, PhaseInv, Executing
  <2> QED
    BY <1>1, <2>1, WorkflowAmounts, ForwardAmounts, DeliveryAmounts, RecoveryAmounts
       DEF Next, ForwardReport, DeliverMessage, ChildRecovers
<1>2. CASE previousEpoch.status # "EXECUTING" /\ UNCHANGED previousEpoch
  BY <1>2 DEF AmountsAgree
<1>3. ASSUME previousEpoch.status # "EXECUTING"
      PROVE  (\A r : ~Completes(r)) /\ (\A m : ~Returns(m))
  BY <1>3 DEF Completes, CompleteEpochDeposit, CompleteEpochDepositGuard, Returns,
     ReceiveEpochNetWithdraw, NetWithdrawReceivable
<1> QED
  BY <1>1, <1>2, <1>3, StepKeeps, CloseAmounts DEF Keeps

\* Where transfers arrive whole, AmountsAgree is an invariant.
LEMMA AmountsCorrect ==
    ASSUME MaxLoss = 0
    PROVE  Spec => []AmountsAgree
<1>1. Init => AmountsAgree
  BY DEF Init, ParentVaultInit, AmountsAgree
<1>2. TypeInv /\ TypeInv' /\ PhaseInv /\ PhaseInv' /\ AmountsAgree /\ [Next]_vars
        => AmountsAgree'
  BY NextAmounts
<1> QED
  BY <1>1, <1>2, TypeInvariance, PhaseCorrect, PTL DEF Spec

\* A pending strategy is named only by a rebalance that begins and forgotten when it
\* is finalized.
LEMMA NextPending ==
    TypeInv /\ PendingIffRebalancing /\ [Next]_vars => PendingIffRebalancing'
<1> SUFFICES ASSUME TypeInv, PendingIffRebalancing, [Next]_vars
             PROVE  PendingIffRebalancing'
  OBVIOUS
<1>1. rebalance \in Rebalances
  BY Zenon DEF TypeInv, TypeOK, ParentVaultTypeOK
<1>2. CASE UNCHANGED rebalance
  BY <1>2 DEF PendingIffRebalancing
<1>3. ASSUME NEW s, FinalizeRebalance(s) PROVE PendingIffRebalancing'
  BY <1>3 DEF FinalizeRebalance, PendingIffRebalancing
<1>4. ASSUME NEW s, MarkRebalancing(s) PROVE PendingIffRebalancing'
  BY <1>1, <1>4 DEF MarkRebalancing, Rebalances, PendingIffRebalancing
<1>5. CASE AdminSetsAdapter
  BY <1>1, <1>5 DEF AdminSetsAdapter, SetInitialActiveProtocolAdapter, Rebalances,
     PendingIffRebalancing
<1>6. CASE ForwardReport
  <2>1. PICK r \in reports : ForwardToParent(r) \/ ForwardToChild(r)
    BY <1>6 DEF ForwardReport
  <2>2. CASE InitiateRebalance(r.nonce, r.strategy)
    BY <1>3, <1>4, <2>2 DEF InitiateRebalance, RebalanceLocalToLocal,
       RebalanceLocalToRemote, RebalanceFromRemote
  <2>3. CASE CompleteRebalance(r.nonce)
    BY <1>3, <2>3 DEF CompleteRebalance
  <2>4. CASE CloseEpoch(r.nonce, r.amount) \/ CompleteEpochDeposit(r.nonce, r.amount)
    BY <1>2, <2>4 DEF CloseEpoch, CompleteEpochDeposit
  <2> QED
    BY <1>2, <2>1, <2>2, <2>3, <2>4 DEF ForwardToParent, ForwardToChild, parentVars
<1>7. CASE DeliverMessage
  <2>1. PICK m \in ccip : DeliverToParent(m) \/ DeliverToChild(m)
    BY <1>7 DEF DeliverMessage
  <2> QED
    BY <1>2, <1>3, <2>1 DEF DeliverToParent, DeliverToChild, ReceiveEpochNetWithdraw,
       ReceiveRebalanceOnParent, parentVars
<1>8. CASE ParentRecovers
  BY <1>3, <1>8 DEF ParentRecovers, ExecuteRecoveryOnParent
<1> QED
  BY <1>2, <1>5, <1>6, <1>7, <1>8 DEF Next, TimePasses, EpochAges, RebalanceAges,
     PauserActs, EpochCronReadsParent, EpochCronReadsChildren, RebalanceCronRuns,
     RebalanceCron, WorkflowHandlesLog, HandleLog, ChildRecovers, parentVars, vars

\* So there is none at rest.
LEMMA PendingCorrect == Spec => []PendingIffRebalancing
<1>1. Init => PendingIffRebalancing
  BY DEF Init, ParentVaultInit, PendingIffRebalancing
<1> QED
  BY <1>1, NextPending, TypeInvariance, PTL DEF Spec

\* Where transfers arrive whole, every amount on its way is the net amount of the epoch
\* it belongs to, and every TVL reading that may still be acted on is of the whole
\* position: the inductive invariant behind the accounting of the deployment.
THEOREM BackingCorrect ==
    ASSUME MaxLoss = 0
    PROVE  Spec => []BackingInv
BY AmountsCorrect, ReadingsCorrect, PendingCorrect, PTL DEF BackingInv

----------------------------------------------------------------------------
(* One asset per share. *)

\* A quantity scaled by one over one.
LEMMA MulDivSame ==
    ASSUME NEW x \in Nat, NEW y \in Nat, y # 0
    PROVE  MulDivDown(x, y, y) = x
BY SMT DEF MulDivDown

\* Nothing is deployed at first, or before the first strategy is set.
LEMMA NothingDeployed ==
    ASSUME TypeInv, PhaseInv, NoAdapters, Calm
    PROVE  Deployed = 0
<1>1. InAdapters = 0 /\ InLanes = 0 /\ InRecovery = 0
  BY NoPosition, EmptyLanes, NothingHeld DEF PhaseInv, Calm
<1> QED
  BY <1>1 DEF Deployed

\* What is deployed after a step is a natural amount too.
LEMMA DeployedAfter == TypeInv' /\ PhaseInv' => (Deployed \in Nat)'
<1>1. TypeInv /\ PhaseInv => Deployed \in Nat
  BY DeployedNat DEF PhaseInv
<1> QED
  BY <1>1, PTL

\* What is owed, by the status of the previous epoch.
LEMMA Owed ==
    ASSUME TypeInv
    PROVE  /\ OwedToWithdrawals \in Nat
           /\ previousEpoch.status # "EXECUTING" => OwedToWithdrawals = 0
           /\ previousEpoch.deposit > previousEpoch.withdrawClaim => OwedToWithdrawals = 0
           /\ /\ previousEpoch.status = "EXECUTING"
              /\ previousEpoch.deposit < previousEpoch.withdrawClaim
              => OwedToWithdrawals = NetAmount
BY PhaseTypes DEF OwedToWithdrawals, NetAmount

\* At a price of one asset a share, a close prices every burn and every deposit at one.
LEMMA UnitPrice ==
    ASSUME SharePrecision = AssetPrecision, NEW deposit \in Nat, NEW burn \in Nat,
           NEW shares \in Nat, NEW tvl \in Nat, NEW local,
           SettlementAllowed(deposit, burn, tvl, shares, local), tvl \in {0, shares}
    PROVE  TotalWithdraw(burn, tvl, shares) = burn /\ NewShares(deposit, tvl, shares) = deposit
<1>1. CASE shares = 0
  <2>1. burn = 0
    BY <1>1 DEF SettlementAllowed
  <2>2. MulDivDown(deposit, SharePrecision, AssetPrecision) = deposit
    BY MulDivSame, PrecisionAssumption
  <2> QED
    BY <1>1, <2>1, <2>2 DEF TotalWithdraw, NewShares
<1>2. CASE shares # 0
  <2>1. tvl = shares
    BY <1>2 DEF SettlementAllowed
  <2>2. MulDivDown(burn, tvl, shares) = burn /\ MulDivDown(deposit, shares, tvl) = deposit
    BY <1>2, <2>1, MulDivSame
  <2> QED
    BY <1>2, <2>2 DEF TotalWithdraw, NewShares
<1> QED
  BY <1>1, <1>2

\* closeEpoch.
LEMMA CloseBacks ==
    ASSUME SharePrecision = AssetPrecision, TypeInv, TypeInv', PhaseInv, PhaseInv',
           ReadingsAgree, SharesFullyBacked, NEW r \in reports, Closes(r)
    PROVE  SharesFullyBacked'
<1>1. /\ AtRest /\ totalShares \in Nat /\ r.amount \in Nat /\ r.nonce = epochNonce
      /\ previousEpoch.status # "EXECUTING"
  BY CloseParts DEF AtRest
<1>2. PICK shares \in Nat, tvl \in Nat :
        shares = totalShares /\ tvl = r.amount
  BY <1>1
<1>3. PICK deposit \in Nat, burn \in Nat, withdraw \in Nat, shareMint \in Nat :
        /\ burn <= shares
        /\ SettlementAllowed(deposit, burn, tvl, shares, IsLocalStrategy)
        /\ withdraw = TotalWithdraw(burn, tvl, shares)
        /\ shareMint = NewShares(deposit, tvl, shares)
        /\ totalShares' = shares + shareMint - burn
        /\ \/ SettleNetZero(deposit, withdraw, shareMint)
           \/ SettleLocalDeposit(deposit, withdraw, shareMint)
           \/ SettleRemoteDeposit(deposit, withdraw, shareMint)
           \/ SettleLocalWithdraw(deposit, withdraw, shareMint)
           \/ SettleRemoteWithdraw(deposit, withdraw, shareMint)
  BY <1>2, CloseParts
<1>4. Deployed = shares
  BY <1>1, <1>2, Owed DEF SharesFullyBacked
<1>5. tvl \in {0, shares}
  BY <1>1, <1>2, <1>4 DEF ReadingsAgree, ReadingOf, Closes
<1>6. withdraw = burn /\ shareMint = deposit
  BY <1>3, <1>5, UnitPrice
<1>7. totalShares' = shares + deposit - withdraw /\ withdraw <= shares
  BY <1>3, <1>6
<1>9. CASE SettleNetZero(deposit, withdraw, shareMint)
  <2>1. OwedToWithdrawals' = 0 /\ deposit = withdraw
    BY <1>9 DEF SettleNetZero, OpenNextEpoch, OwedToWithdrawals
  <2>2. Deployed' = shares
    BY <1>1, <1>4, <1>9, SettleMoves
  <2> QED
    BY <1>7, <2>1, <2>2 DEF SharesFullyBacked
<1>10. CASE \/ SettleLocalDeposit(deposit, withdraw, shareMint)
            \/ SettleRemoteDeposit(deposit, withdraw, shareMint)
  <2>1. deposit > withdraw /\ OwedToWithdrawals' = 0
    BY <1>10 DEF SettleLocalDeposit, SettleRemoteDeposit, OpenNextEpoch, OwedToWithdrawals
  <2>2. Deployed' = shares + (deposit - withdraw)
    BY <1>1, <1>4, <1>10, SettleMoves
  <2> QED
    BY <1>7, <2>1, <2>2 DEF SharesFullyBacked
<1>11. CASE SettleLocalWithdraw(deposit, withdraw, shareMint)
  <2>1. withdraw > deposit /\ OwedToWithdrawals' = 0
    BY <1>11 DEF SettleLocalWithdraw, OpenNextEpoch, OwedToWithdrawals
  <2>2. Deployed' + (withdraw - deposit) = shares
    BY <1>1, <1>4, <1>11, SettleMoves
  <2>3. PICK d \in Nat : d = Deployed'
    BY DeployedAfter
  <2>4. d + (withdraw - deposit) = shares /\ withdraw > deposit
    BY <2>1, <2>2, <2>3
  <2>5. d = shares + deposit - withdraw + 0
    BY <2>4
  <2> QED
    BY <1>7, <2>1, <2>3, <2>5 DEF SharesFullyBacked
<1>12. CASE SettleRemoteWithdraw(deposit, withdraw, shareMint)
  <2>1. withdraw > deposit /\ OwedToWithdrawals' = withdraw - deposit
    BY <1>12 DEF SettleRemoteWithdraw, OpenNextEpoch, OwedToWithdrawals
  <2>2. Deployed' = shares
    BY <1>1, <1>4, <1>12, SettleMoves
  <2> QED
    BY <1>7, <2>1, <2>2 DEF SharesFullyBacked
<1> QED
  BY <1>3, <1>9, <1>10, <1>11, <1>12

\* The proceeds of a net withdrawal are what was owed.
LEMMA ReturnBacks ==
    ASSUME TypeInv, TypeInv', PhaseInv, PhaseInv', AmountsAgree, SharesFullyBacked,
           NEW m \in ccip, Returns(m)
    PROVE  SharesFullyBacked'
<1>1. /\ ReceiveEpochNetWithdraw(m, m.amount) /\ UNCHANGED totalShares
      /\ previousEpoch.status = "EXECUTING"
      /\ previousEpoch.deposit < previousEpoch.withdrawClaim
  BY DEF Returns, ReceiveEpochNetWithdraw, NetWithdrawReceivable
<1>2. Deployed' + m.amount = Deployed
  BY <1>1, ReceiveWithdrawKeeps DEF PhaseInv
<1>3. m.amount = NetAmount /\ OwedToWithdrawals = NetAmount /\ NetAmount \in Nat
  BY <1>1, Owed, NetAmounts DEF AmountsAgree
<1>4. previousEpoch'.status = "CLAIMABLE"
  BY <1>1, PhaseTypes DEF ReceiveEpochNetWithdraw, Epochs
<1>5. OwedToWithdrawals' = 0
  BY <1>4 DEF OwedToWithdrawals
<1>6. totalShares \in Nat
  BY Zenon DEF TypeInv, TypeOK, ParentVaultTypeOK
<1>7. PICK d \in Nat, a \in Nat, t \in Nat : d = Deployed' /\ a = NetAmount /\ t = totalShares
  BY <1>3, <1>6, DeployedAfter
<1>8. d + a = t + a
  BY <1>2, <1>3, <1>7 DEF SharesFullyBacked
<1>9. d = t + 0
  BY <1>8
<1> QED
  BY <1>1, <1>5, <1>7, <1>9 DEF SharesFullyBacked

\* A deposit that is confirmed whole takes no share back.
LEMMA ConfirmationBacks ==
    ASSUME TypeInv, SharesFullyBacked, NEW n, NEW a, CompleteEpochDeposit(n, a),
           a = NetAmount
    PROVE  SharesFullyBacked'
<1>1. /\ previousEpoch.status = "EXECUTING"
      /\ previousEpoch.deposit > previousEpoch.withdrawClaim
  BY DEF CompleteEpochDeposit, CompleteEpochDepositGuard
<1>2. a = ExpectedDeposit
  BY <1>1, NetAmounts
<1>3. ReconciledShares(a) = previousEpoch.shareMint
  BY <1>2 DEF ReconciledShares
<1>4. totalShares \in Nat /\ previousEpoch.shareMint \in Nat
  <2>1. totalShares \in Nat /\ previousEpoch \in Epochs
    BY Zenon DEF TypeInv, TypeOK, ParentVaultTypeOK
  <2> QED
    BY <2>1 DEF Epochs
<1>5. totalShares' = totalShares - (previousEpoch.shareMint - previousEpoch.shareMint)
  BY <1>3 DEF CompleteEpochDeposit
<1>6. totalShares' = totalShares
  BY <1>4, <1>5
<1>7. Deployed' = Deployed
  BY Untouched DEF CompleteEpochDeposit, baseVars
<1>8. previousEpoch'.status = "CLAIMABLE"
  BY PhaseTypes DEF CompleteEpochDeposit, Epochs
<1>9. OwedToWithdrawals = 0 /\ OwedToWithdrawals' = 0
  BY <1>1, <1>8, Owed DEF OwedToWithdrawals
<1> QED
  BY <1>6, <1>7, <1>9 DEF SharesFullyBacked

\* The workflow's report confirms it whole.
LEMMA CompleteBacks ==
    ASSUME TypeInv, AmountsAgree, SharesFullyBacked, NEW r \in reports, Completes(r)
    PROVE  SharesFullyBacked'
<1>1. CompleteEpochDeposit(r.nonce, r.amount) /\ r.amount = NetAmount
  BY DEF Completes, CompleteEpochDeposit, CompleteEpochDepositGuard, AmountsAgree
<1> QED
  BY <1>1, ConfirmationBacks

\* Every other step keeps both sides, where there is no fee.
LEMMA KeepsBacking ==
    ASSUME MaxFeeShares = 0, TypeInv, SharesFullyBacked, Keeps
    PROVE  SharesFullyBacked'
<1>1. totalShares \in Nat
  BY Zenon DEF TypeInv, TypeOK, ParentVaultTypeOK
<1>2. totalShares' = totalShares
  BY <1>1 DEF Keeps, FinalizeRebalance
<1>3. OwedToWithdrawals' = OwedToWithdrawals /\ Deployed' = Deployed
  BY DEF Keeps, OwedToWithdrawals
<1> QED
  BY <1>2, <1>3 DEF SharesFullyBacked

\* So any step keeps one asset per share.
LEMMA NextBacks ==
    ASSUME MaxLoss = 0, MaxFeeShares = 0, SharePrecision = AssetPrecision,
           TypeInv, TypeInv', PhaseInv, PhaseInv', ReadingsAgree, AmountsAgree,
           SharesFullyBacked, [Next]_vars
    PROVE  SharesFullyBacked'
BY StepKeeps, CloseBacks, ReturnBacks, CompleteBacks, KeepsBacking

\* No share, no asset at the start.
LEMMA InitBacks == Init => SharesFullyBacked
<1> SUFFICES ASSUME Init PROVE SharesFullyBacked
  OBVIOUS
<1>1. TypeInv /\ PhaseInv
  BY InitTypeInv, InitPhase
<1>2. /\ totalShares = 0 /\ previousEpoch.status = "NONE"
      /\ NoAdapters /\ Calm
  BY DEF Init, ParentVaultInit, BaseVaultInit, NoAdapters, Calm, NoRecoveries
<1>3. Deployed = 0 /\ OwedToWithdrawals = 0
  BY <1>1, <1>2, NothingDeployed, Owed
<1> QED
  BY <1>2, <1>3 DEF SharesFullyBacked

\* Where transfers arrive whole, a share is worth one asset and no fee is taken, there
\* is exactly one asset per share, plus what an executing withdrawal is owed.
THEOREM SharesAreBacked ==
    ASSUME MaxLoss = 0, MaxFeeShares = 0, SharePrecision = AssetPrecision
    PROVE  Spec => []SharesFullyBacked
<1>1. /\ TypeInv /\ TypeInv' /\ PhaseInv /\ PhaseInv' /\ ReadingsAgree /\ AmountsAgree
      /\ SharesFullyBacked /\ [Next]_vars
      => SharesFullyBacked'
  BY NextBacks
<1> QED
  BY <1>1, InitBacks, TypeInvariance, PhaseCorrect, ReadingsCorrect, AmountsCorrect, PTL
     DEF Spec

----------------------------------------------------------------------------
(* One fund: the refinement of FundLedger. *)

\* The strategy has taken a net deposit in, or has paid a net withdrawal out ...
PaidIn ==
    /\ previousEpoch.status = "EXECUTING" /\ previousEpoch.deposit > previousEpoch.withdrawClaim
    /\ Calm
PaidOut ==
    /\ previousEpoch.status = "EXECUTING" /\ previousEpoch.deposit < previousEpoch.withdrawClaim
    /\ ccip # {} \/ \E c \in Chains : recovery[c].mode = "CCIP_SEND"

\* ... or the fund has left the old strategy of a rebalance.
Moved ==
    /\ rebalance.state = "REBALANCING"
    /\ ActiveChain \in ChildChains => HandledRebalance(ActiveChain)
    /\ \A c \in Chains : recovery[c].mode # "REBALANCE_WITHDRAW"

\* The stage of the fund, by the parent's record.
LEMMA StageFacts ==
    TypeInv /\ PhaseInv =>
      /\ Undeployed => FundStage = "undeployed"
      /\ AtRest => FundStage = "idle"
      /\ Executing => FundStage = "settling"
      /\ Rebalancing => FundStage = "moving"
      /\ Undeployed \/ AtRest \/ Executing \/ Rebalancing
<1> SUFFICES ASSUME TypeInv, PhaseInv
             PROVE  /\ Undeployed => FundStage = "undeployed"
                    /\ AtRest => FundStage = "idle"
                    /\ Executing => FundStage = "settling"
                    /\ Rebalancing => FundStage = "moving"
                    /\ Undeployed \/ AtRest \/ Executing \/ Rebalancing
  OBVIOUS
<1>1. Undeployed => rebalance.state = "NONE"
  BY PhaseCases, StrategyFacts, Zenon DEF PhaseInv, Undeployed, DepositPhase, WithdrawPhase,
     BetweenPhase, OutgoingPhase, Rebalancing, Executing
<1>2. NoStrategy \notin Strategies
  BY StrategyFacts
<1>3. Undeployed => FundStage = "undeployed"
  BY <1>1 DEF Undeployed, FundStage, ActiveStrategy
<1>4. AtRest => FundStage = "idle"
  BY <1>2 DEF AtRest, FundStage, ActiveStrategy
<1>5. Executing => FundStage = "settling"
  BY <1>2 DEF Executing, FundStage, ActiveStrategy
<1>6. Rebalancing => FundStage = "moving"
  BY <1>2 DEF Rebalancing, FundStage, ActiveStrategy
<1>7. Undeployed \/ AtRest \/ Executing \/ Rebalancing
  BY PhaseCases, Zenon DEF PhaseInv, DepositPhase, WithdrawPhase, BetweenPhase, OutgoingPhase,
     AtRest
<1> QED
  BY <1>3, <1>4, <1>5, <1>6, <1>7

\* Before the first strategy is set there is nothing, and between operations the whole
\* fund is at the strategy.
LEMMA PlacedAtRest ==
    TypeInv /\ PhaseInv =>
      /\ Undeployed => PlacedAtStrategy = 0 /\ Deployed = 0 /\ OwedToWithdrawals = 0
      /\ AtRest => PlacedAtStrategy = Deployed /\ OwedToWithdrawals = 0
<1> SUFFICES ASSUME TypeInv, PhaseInv
             PROVE  /\ Undeployed => PlacedAtStrategy = 0 /\ Deployed = 0 /\ OwedToWithdrawals = 0
                    /\ AtRest => PlacedAtStrategy = Deployed /\ OwedToWithdrawals = 0
  OBVIOUS
<1>1. ASSUME Undeployed
      PROVE  PlacedAtStrategy = 0 /\ Deployed = 0 /\ OwedToWithdrawals = 0
  BY <1>1, NothingDeployed, Owed DEF Undeployed, PlacedAtStrategy, ActiveStrategy
<1>2. ASSUME AtRest
      PROVE  PlacedAtStrategy = Deployed /\ OwedToWithdrawals = 0
  <2>1. PICK s \in Strategies : s = ActiveStrategy
    BY <1>2 DEF AtRest
  <2>2. AdapterOnlyAt(s) /\ Calm /\ previousEpoch.status # "EXECUTING"
    BY <1>2, <2>1 DEF AtRest, Quiet
  <2>3. InAdapters = position[s] /\ position[s] \in Nat
    BY <2>2, OnePosition, BackingTypes DEF PhaseInv
  <2>4. InLanes = 0 /\ InRecovery = 0
    BY <2>2, EmptyLanes, NothingHeld DEF Calm
  <2>5. PlacedAtStrategy = position[s]
    BY <2>1, StrategyFacts DEF PlacedAtStrategy, ActiveStrategy
  <2> QED
    BY <2>2, <2>3, <2>4, <2>5, Owed DEF Deployed
<1> QED
  BY <1>1, <1>2

\* Once the net amount has been taken in or paid out, the strategy holds the fund
\* without what is owed.
LEMMA PlacedSettled ==
    TypeInv /\ PhaseInv /\ AmountsAgree /\ (PaidIn \/ PaidOut) =>
      PlacedAtStrategy = Deployed - OwedToWithdrawals
<1> SUFFICES ASSUME TypeInv, PhaseInv, AmountsAgree, PaidIn \/ PaidOut
             PROVE  PlacedAtStrategy = Deployed - OwedToWithdrawals
  OBVIOUS
<1>1. Executing
  BY ExecutingFacts DEF PaidIn, PaidOut, PhaseInv
<1>2. PICK s \in Strategies : s = ActiveStrategy
  BY <1>1 DEF Executing
<1>3. InAdapters = position[s] /\ position[s] \in Nat
  BY <1>1, <1>2, OnePosition, BackingTypes DEF PhaseInv, Executing
<1>4. PlacedAtStrategy = position[s]
  BY <1>2, StrategyFacts DEF PlacedAtStrategy, ActiveStrategy
<1>5. CASE PaidIn
  <2>1. InLanes = 0 /\ InRecovery = 0
    BY <1>5, EmptyLanes, NothingHeld DEF Calm, PaidIn
  <2>2. OwedToWithdrawals = 0
    BY <1>5, Owed DEF PaidIn
  <2> QED
    BY <1>3, <1>4, <2>1, <2>2 DEF Deployed
<1>6. CASE PaidOut
  <2>1. OwedToWithdrawals = NetAmount /\ NetAmount \in Nat
    BY <1>6, Owed DEF PaidOut
  <2>2. InLanes + InRecovery = NetAmount
    <3>1. CASE ccip # {}
      <4>1. PICK m : m \in ccip
        BY <3>1
      <4>2. ccip = {m} /\ NoRecoveries /\ m.amount \in Nat
        BY <4>1, InFlightPhase, BackingTypes DEF PhaseInv
      <4>3. m.amount = NetAmount
        BY <1>6, <4>1 DEF AmountsAgree, PaidOut
      <4>4. InLanes = NetAmount /\ InRecovery = 0
        BY <4>2, <4>3, OneMessage, NothingHeld
      <4> QED
        BY <2>1, <4>4
    <3>2. ASSUME NEW c \in Chains, recovery[c].mode = "CCIP_SEND"
          PROVE  InLanes + InRecovery = NetAmount
      <4>1. ~RequireNoRecovery(c)
        BY <3>2 DEF RequireNoRecovery
      <4>2. ccip = {} /\ \A d \in Chains : d # c => recovery[d] = NoRecovery
        BY <4>1, RecoveringPhase DEF PhaseInv
      <4>3. recovery[c].amount = NetAmount
        BY <1>6, <4>1 DEF AmountsAgree, PaidOut
      <4>4. InLanes = 0 /\ InRecovery = NetAmount
        BY <3>2, <4>2, <4>3, EmptyLanes, OneRecoveryHolds DEF HeldInRecovery
      <4> QED
        BY <2>1, <4>4
    <3> QED
      BY <1>6, <3>1, <3>2 DEF PaidOut
  <2>3. InLanes \in Nat /\ InRecovery \in Nat
    BY LanesNat, BackingTypes DEF PhaseInv
  <2>4. PICK x \in Nat, y \in Nat, z \in Nat : x = position[s] /\ y = InLanes /\ z = InRecovery
    BY <1>3, <2>3
  <2>5. x = x + y + z - (y + z)
    OBVIOUS
  <2> QED
    BY <1>3, <1>4, <2>1, <2>2, <2>4, <2>5 DEF Deployed
<1> QED
  BY <1>5, <1>6

\* Once the fund has left the old strategy, nothing of it is there.
LEMMA PlacedMoved ==
    TypeInv /\ PhaseInv /\ Moved => PlacedAtStrategy = 0
<1> SUFFICES ASSUME TypeInv, PhaseInv, Moved
             PROVE  PlacedAtStrategy = 0
  OBVIOUS
<1>1. Rebalancing
  BY RebalancingFacts DEF PhaseInv, Moved
<1>2. PICK s \in Strategies : s = ActiveStrategy
  BY <1>1 DEF Rebalancing
<1>3. PlacedAtStrategy = position[s]
  BY <1>2, StrategyFacts DEF PlacedAtStrategy, ActiveStrategy
<1>4. ~RebalanceWaiting
  BY DEF RebalanceWaiting, Moved
<1>5. ~RebalanceWithdrawing
  <2>1. ASSUME RebalanceWithdrawing PROVE FALSE
    <3>1. /\ ActiveChain \in Chains
          /\ recovery[ActiveChain] = RebalanceWithdrawRecovery(rebalance.nonce, PendingStrategy)
      BY <2>1, ChainFacts DEF RebalanceWithdrawing, Recovering
    <3> QED
      BY <3>1, RecoveryFields DEF Moved
  <2> QED
    BY <2>1
<1>6. NoAdapters \/ AdapterOnlyAt(PendingStrategy)
  BY <1>1, <1>4, <1>5, PhaseCases, Zenon DEF PhaseInv, Undeployed, Rebalancing, DepositPhase,
     WithdrawPhase, Executing, RebalanceUnsent, RebalanceInFlight, RebalanceDepositing,
     RebalanceDeposited
<1>7. PICK t \in Strategies : t = PendingStrategy /\ t # s
  BY <1>1, <1>2 DEF Rebalancing
<1> QED
  BY <1>3, <1>6, <1>7, NoPosition, OnePosition DEF PhaseInv

\* After a step that leaves no recovery behind, and nothing in the lanes, all is calm.
LEMMA CalmAfter ==
    ASSUME TypeInv, NEW c \in Chains, \A d \in Chains : d # c => recovery[d] = NoRecovery,
           recovery' = [recovery EXCEPT ![c] = NoRecovery], ccip' = {}
    PROVE  Calm'
BY PhaseTypes DEF Calm, NoRecoveries

\* A withdrawal that is sent home, or could not be sent, has been paid out.
LEMMA SendPaysOut ==
    ASSUME TypeInv, NEW c \in Chains, NEW n, NEW a, WithdrawAndSend(c, n, a),
           previousEpoch.status = "EXECUTING",
           previousEpoch.deposit < previousEpoch.withdrawClaim, UNCHANGED previousEpoch
    PROVE  PaidOut'
<1>1. PICK m : m = Message("EPOCH_NET_WITHDRAW", c, ParentChain, n, NoProtocol, a)
  OBVIOUS
<1>2. PICK r : r = CcipSendRecovery("EPOCH_NET_WITHDRAW", ParentChain, n, NoProtocol, a)
  OBVIOUS
<1>3. ccip' = ccip \union {m} \/ recovery' = [recovery EXCEPT ![c] = r]
  BY <1>1, <1>2 DEF WithdrawAndSend, CcipSend
<1>4. r.mode = "CCIP_SEND"
  BY <1>2, RecoveryFields
<1>5. ccip' # {} \/ recovery'[c].mode = "CCIP_SEND"
  BY <1>3, <1>4, PhaseTypes
<1> QED
  BY <1>5 DEF PaidOut

\* A position that is moved leaves no withdrawal to be made up for.
LEMMA MoveLeavesNone ==
    ASSUME TypeInv, NEW c \in Chains, \A d \in Chains : d # c => recovery[d] = NoRecovery,
           NEW n, NEW s, WithdrawAllAndMove(c, n, s)
    PROVE  \A d \in Chains : recovery'[d].mode # "REBALANCE_WITHDRAW"
<1>1. PICK a : a = position[ActiveOn(c)]
  OBVIOUS
<1>2. PICK r : /\ recovery' = [recovery EXCEPT ![c] = r]
               /\ \/ r = NoRecovery
                  \/ r = RebalanceDepositRecovery(n, a)
                  \/ r = CcipSendRecovery("REBALANCE", s.chainSelector, n, s.protocolId, a)
  <2>1. CASE MoveWithinChain(c, n, a, s)
    BY <2>1 DEF MoveWithinChain, ActivateAndDeposit
  <2>2. CASE MoveToOtherChain(c, n, a, s)
    BY <2>2 DEF MoveToOtherChain, CcipSend
  <2> QED
    BY <1>1, <2>1, <2>2 DEF WithdrawAllAndMove
<1>3. r.mode # "REBALANCE_WITHDRAW"
  BY <1>2, RecoveryFields DEF NoRecovery
<1> QED
  BY <1>2, <1>3, PhaseTypes DEF NoRecovery

\* executeEpochWithdraw pays out, or leaves the position for its recovery.
LEMMA ExecuteWithdrawPays ==
    ASSUME TypeInv, previousEpoch.status = "EXECUTING", UNCHANGED previousEpoch,
           NEW c \in ChildChains, NEW n \in Nat, NEW a \in Nat, WithdrawFits(c, n, a),
           ExecuteEpochWithdraw(c, n, a)
    PROVE  UNCHANGED position \/ PaidOut'
<1>1. previousEpoch.withdrawClaim = previousEpoch.deposit + a /\ a # 0 /\ c \in Chains
  BY ChainFacts DEF WithdrawFits, ExecuteEpochWithdraw, ExecuteEpochWithdrawGuard,
     FreshEpochNonce
<1>2. previousEpoch.deposit < previousEpoch.withdrawClaim
  BY <1>1, PhaseTypes
<1> QED
  BY <1>1, <1>2, SendPaysOut DEF ExecuteEpochWithdraw

\* executeRebalance moves the whole position away, or leaves it for its recovery.
LEMMA ExecuteRebalanceMoves ==
    ASSUME TypeInv, PhaseInv, Rebalancing, UNCHANGED rebalance,
           NEW c \in ChildChains, NEW n \in Nat, NEW s, ExecutionFits(c, n, s),
           ExecuteRebalance(c, n, s)
    PROVE  UNCHANGED position \/ Moved'
<1>1. rebalance.state = "REBALANCING" /\ ActiveChain' = ActiveChain
  BY DEF Rebalancing, ActiveChain
<1>2. /\ n = rebalance.nonce /\ c = ActiveChain /\ HandleRebalanceNonce(c, n)
      /\ FreshRebalanceNonce(c, n) /\ c \in Chains
  BY ChainFacts DEF ExecutionFits, ExecuteRebalance, ExecuteRebalanceGuard,
     FreshRebalanceNonce
<1>3. \A d \in Chains : recovery[d] = NoRecovery
  BY <1>1, <1>2, RebalanceAwaited DEF PhaseInv, RebalanceWaiting, Calm, NoRecoveries
<1>4. CASE WithdrawAllAndMove(c, n, s)
  <2>1. \A d \in Chains : recovery'[d].mode # "REBALANCE_WITHDRAW"
    BY <1>2, <1>3, <1>4, MoveLeavesNone
  <2>2. lastHandledRebalanceNonce'[ActiveChain] = rebalance'.nonce
    BY <1>2, PhaseTypes DEF HandleRebalanceNonce
  <2> QED
    BY <1>1, <2>1, <2>2 DEF Moved, HandledRebalance
<1> QED
  BY <1>4 DEF ExecuteRebalance

\* A completion that fits finds the fund away from the old strategy.
LEMMA CompletionEndsMove ==
    ASSUME TypeInv, PhaseInv, NEW n \in Nat, RebalanceConfirmable(n), CompleteRebalance(n)
    PROVE  Rebalancing /\ Moved /\ FinalizeRebalance(PendingStrategy)
<1>1. /\ rebalance.state = "REBALANCING" /\ n = rebalance.nonce
      /\ FinalizeRebalance(PendingStrategy)
  BY DEF CompleteRebalance, CompleteRebalanceGuard, PendingStrategy
<1>2. Rebalancing /\ RebalanceDeposited
  BY <1>1, RebalancingFacts DEF RebalanceConfirmable, PhaseInv
<1>3. Moved
  BY <1>1, <1>2 DEF Moved, RebalanceDeposited, Calm, NoRecoveries, NoRecovery
<1> QED
  BY <1>1, <1>2, <1>3

\* While an epoch executes, only its net amount moves into or out of the strategy ...
LEMMA SettlingMoves ==
    ASSUME MaxLoss = 0, TypeInv, TypeInv', PhaseInv, Executing, UNCHANGED previousEpoch,
           [Next]_vars
    PROVE  UNCHANGED position \/ PaidIn' \/ PaidOut'
<1>1. previousEpoch.status = "EXECUTING" /\ rebalance.state = "NONE"
  BY DEF Executing
<1>2. ASSUME NEW c \in ChildChains, NEW n \in Nat, NEW a \in Nat, WithdrawFits(c, n, a),
             ExecuteEpochWithdraw(c, n, a)
      PROVE  UNCHANGED position \/ PaidOut'
  BY <1>1, <1>2, ExecuteWithdrawPays
<1>3. ASSUME NEW c \in ChildChains, NEW n \in Nat, NEW s, ExecutionFits(c, n, s)
      PROVE  ~ExecuteRebalance(c, n, s)
  BY <1>1, <1>3 DEF ExecutionFits, ExecuteRebalance, ExecuteRebalanceGuard,
     FreshRebalanceNonce
<1>4. CASE ForwardReport
  <2>1. PICK r \in reports : ForwardToParent(r) \/ ForwardToChild(r)
    BY <1>4 DEF ForwardReport
  <2>2. r.nonce \in Nat /\ r.amount \in Nat /\ ReportFits(r)
    BY DEF TypeInv, TypeOK, CreWorkflowTypeOK, Reports, PhaseInv
  <2>3. CASE ForwardToParent(r)
    <3>1. ~CloseEpoch(r.nonce, r.amount) /\ ~InitiateRebalance(r.nonce, r.strategy)
      BY <1>1 DEF CloseEpoch, CloseEpochGuard, PreviousEpochSettled, PhaseInv,
         InitiateRebalance, InitiateRebalanceGuard
    <3> QED
      BY <2>3, <3>1 DEF ForwardToParent, CompleteEpochDeposit, CompleteRebalance, baseVars
  <2>4. CASE ForwardToChild(r)
    BY <1>2, <1>3, <2>2, <2>4 DEF ForwardToChild, ReportFits
  <2> QED
    BY <2>1, <2>3, <2>4
<1>5. CASE DeliverMessage
  <2>1. PICK m \in ccip : DeliverToParent(m) \/ DeliverToChild(m)
    BY <1>5 DEF DeliverMessage
  <2>2. ccip = {m} /\ NoRecoveries /\ ~BetweenPhase
    BY <1>1, InFlightPhase DEF PhaseInv, BetweenPhase, OutgoingPhase, Rebalancing
  <2>3. m.ccipTx # "REBALANCE" /\ (m.ccipTx = "EPOCH_NET_DEPOSIT" => DepositPhase)
    <3>1. PICK a : a = m.amount
      OBVIOUS
    <3>2. \/ /\ DepositPhase
             /\ m = Message("EPOCH_NET_DEPOSIT", ParentChain, ActiveChain, PreviousNonce,
                            NoProtocol, a)
          \/ m = Message("EPOCH_NET_WITHDRAW", ActiveChain, ParentChain, PreviousNonce,
                         NoProtocol, a)
      BY <2>2, <3>1, InFlightPhase DEF PhaseInv
    <3> QED
      BY <3>2 DEF Message
  <2>4. CASE ReceiveEpochNetWithdraw(m, m.amount)
    BY <2>4 DEF ReceiveEpochNetWithdraw
  <2>5. ASSUME NEW c \in ChildChains, ReceiveEpochNetDeposit(c, m, m.amount)
        PROVE  UNCHANGED position \/ PaidIn'
    <3>1. /\ m.ccipTx = "EPOCH_NET_DEPOSIT" /\ ccip' = ccip \ {m}
          /\ UNCHANGED position \/ UNCHANGED recovery
      BY <2>5 DEF ReceiveEpochNetDeposit, EpochDepositReceivable
    <3>2. UNCHANGED recovery => Calm'
      BY <2>2, <3>1 DEF Calm, NoRecoveries
    <3> QED
      BY <1>1, <2>3, <3>1, <3>2 DEF PaidIn, DepositPhase
  <2>6. /\ ~ReceiveRebalanceOnParent(m, m.amount)
        /\ \A c \in ChildChains : ~ReceiveRebalanceOnChild(c, m, m.amount)
    BY <2>3 DEF ReceiveRebalanceOnParent, RebalanceReceivable, ReceiveRebalanceOnChild,
       ChildRebalanceReceivable
  <2> QED
    BY <2>1, <2>4, <2>5, <2>6, DeliveryKeeps
<1>6. CASE ChildRecovers
  <2>1. PICK c \in ChildChains : ExecuteRecoveryOnChild(c)
    BY <1>6 DEF ChildRecovers
  <2>2. c \in Chains /\ ~Rebalancing
    BY <1>1, ChainFacts DEF Rebalancing
  <2>3. CASE RecoverEpochDeposit(c)
    <3>1. ~RequireNoRecovery(c) /\ recovery[c].mode = "EPOCH_DEPOSIT"
      BY <2>3 DEF RecoverEpochDeposit, RequireNoRecovery
    <3>2. DepositPhase /\ ccip = {} /\ \A d \in Chains : d # c => recovery[d] = NoRecovery
      BY <2>2, <3>1, RecoveryByMode, RecoveringPhase DEF PhaseInv
    <3>3. ccip' = {} /\ recovery' = [recovery EXCEPT ![c] = NoRecovery]
      BY <2>3, <3>2 DEF RecoverEpochDeposit
    <3> QED
      BY <2>2, <3>2, <3>3, CalmAfter DEF PaidIn, DepositPhase, Executing
  <2>4. CASE RecoverEpochWithdraw(c)
    <3>1. ~RequireNoRecovery(c) /\ recovery[c].mode = "EPOCH_WITHDRAW"
      BY <2>4 DEF RecoverEpochWithdraw, RequireNoRecovery
    <3>2. WithdrawPhase
      BY <2>2, <3>1, RecoveryByMode DEF PhaseInv
    <3>3. PICK n, a : n = recovery[c].nonce /\ a = recovery[c].amount
      OBVIOUS
    <3>4. WithdrawAndSend(c, n, a)
      BY <2>4, <3>3 DEF RecoverEpochWithdraw
    <3> QED
      BY <1>1, <2>2, <3>2, <3>4, SendPaysOut DEF WithdrawPhase
  <2>5. ~RecoverRebalanceDeposit(c) /\ ~RecoverRebalanceWithdraw(c)
    <3>1. ASSUME recovery[c].mode \in {"REBALANCE_DEPOSIT", "REBALANCE_WITHDRAW"} PROVE FALSE
      <4>1. ~RequireNoRecovery(c)
        BY <3>1 DEF RequireNoRecovery
      <4> QED
        BY <2>2, <3>1, <4>1, RecoveryByMode DEF PhaseInv, OutgoingPhase
    <3> QED
      BY <3>1 DEF RecoverRebalanceDeposit, RecoverRebalanceWithdraw
  <2> QED
    BY <2>1, <2>3, <2>4, <2>5 DEF ExecuteRecoveryOnChild, RecoverCcipSend
<1>7. ~ParentRecovers
  BY <1>1 DEF ParentRecovers, ExecuteRecoveryOnParent
<1> QED
  BY <1>4, <1>5, <1>6, <1>7 DEF Next, AdminSetsAdapter, SetInitialActiveProtocolAdapter,
     TimePasses, EpochAges, RebalanceAges, PauserActs, Pause, Unpause, EpochCronReadsParent,
     EpochCronReadsChildren, RebalanceCronRuns, RebalanceCron, WorkflowHandlesLog, HandleLog,
     baseVars, vars

\* ... and while the fund moves, it leaves the old strategy whole.
LEMMA MovingMoves ==
    ASSUME MaxLoss = 0, TypeInv, TypeInv', PhaseInv, Rebalancing, UNCHANGED rebalance,
           [Next]_vars
    PROVE  UNCHANGED position \/ Moved'
<1>1. /\ previousEpoch.status # "EXECUTING" /\ rebalance.state = "REBALANCING"
      /\ ActiveChain' = ActiveChain
  BY DEF Rebalancing, ActiveChain
<1>2. ASSUME UNCHANGED childVars \/ \E c \in ChildChains : HandleRebalanceNonce(c, rebalance.nonce),
             ActiveChain \in ChildChains => HandledRebalance(ActiveChain),
             \A d \in Chains : recovery'[d].mode # "REBALANCE_WITHDRAW"
      PROVE  Moved'
  <2>1. ActiveChain \in ChildChains =>
          lastHandledRebalanceNonce'[ActiveChain] = rebalance'.nonce
    BY <1>2, PhaseTypes DEF childVars, HandleRebalanceNonce, HandledRebalance
  <2> QED
    BY <1>1, <1>2, <2>1 DEF Moved, HandledRebalance
<1>3. ASSUME NEW c \in ChildChains, NEW n \in Nat, NEW s, ExecutionFits(c, n, s),
             ExecuteRebalance(c, n, s)
      PROVE  UNCHANGED position \/ Moved'
  BY <1>3, ExecuteRebalanceMoves
<1>4. ASSUME NEW c \in ChildChains, NEW n \in Nat, NEW a \in Nat, WithdrawFits(c, n, a)
      PROVE  ~ExecuteEpochWithdraw(c, n, a)
  BY <1>1, <1>4 DEF WithdrawFits, ExecuteEpochWithdraw, ExecuteEpochWithdrawGuard,
     FreshEpochNonce
<1>5. CASE ForwardReport
  <2>1. PICK r \in reports : ForwardToParent(r) \/ ForwardToChild(r)
    BY <1>5 DEF ForwardReport
  <2>2. r.nonce \in Nat /\ r.amount \in Nat /\ ReportFits(r)
    BY DEF TypeInv, TypeOK, CreWorkflowTypeOK, Reports, PhaseInv
  <2>3. CASE ForwardToParent(r)
    <3>1. ~CloseEpoch(r.nonce, r.amount) /\ ~InitiateRebalance(r.nonce, r.strategy)
      BY <1>1 DEF CloseEpoch, CloseEpochGuard, InitiateRebalance, InitiateRebalanceGuard
    <3> QED
      BY <2>3, <3>1 DEF ForwardToParent, CompleteEpochDeposit, CompleteRebalance, baseVars
  <2>4. CASE ForwardToChild(r)
    BY <1>3, <1>4, <2>2, <2>4 DEF ForwardToChild, ReportFits
  <2> QED
    BY <2>1, <2>3, <2>4
<1>6. CASE DeliverMessage
  <2>1. PICK m \in ccip : DeliverToParent(m) \/ DeliverToChild(m)
    BY <1>6 DEF DeliverMessage
  <2>2. /\ NoRecoveries /\ RebalanceInFlight
        /\ m = Message("REBALANCE", ActiveChain, PendingChain, rebalance.nonce,
                       PendingStrategy.protocolId, m.amount)
    BY <1>1, InFlightPhase DEF PhaseInv, DepositPhase, WithdrawPhase, Executing
  <2>3. m.ccipTx = "REBALANCE" /\ m.nonce = rebalance.nonce
    BY <2>2 DEF Message
  <2>4. ASSUME NEW c \in ChildChains, ReceiveRebalanceOnChild(c, m, m.amount)
        PROVE  Moved'
    <3>1. PICK success \in BOOLEAN :
            ActivateAndDeposit(c, m.nonce, m.protocolId, m.amount, position, success)
      BY <2>4 DEF ReceiveRebalanceOnChild
    <3>2. PICK r : /\ recovery' = [recovery EXCEPT ![c] = r]
                   /\ r = NoRecovery \/ r = RebalanceDepositRecovery(m.nonce, m.amount)
      BY <3>1 DEF ActivateAndDeposit
    <3>3. r.mode # "REBALANCE_WITHDRAW"
      BY <3>2, RecoveryFields DEF NoRecovery
    <3>4. \A d \in Chains : recovery'[d].mode # "REBALANCE_WITHDRAW"
      BY <2>2, <3>2, <3>3, PhaseTypes DEF NoRecoveries, NoRecovery
    <3>5. HandleRebalanceNonce(c, rebalance.nonce)
      BY <2>3, <2>4 DEF ReceiveRebalanceOnChild
    <3>6. ActiveChain \in ChildChains => HandledRebalance(ActiveChain)
      BY <2>2 DEF RebalanceInFlight
    <3> QED
      BY <1>2, <3>4, <3>5, <3>6
  <2>5. ASSUME ReceiveRebalanceOnParent(m, m.amount)
        PROVE  UNCHANGED position
    <3>1. ~FinalizeRebalance(Strategy(m.protocolId, ParentChain))
      BY <1>1 DEF FinalizeRebalance
    <3> QED
      BY <2>5, <3>1 DEF ReceiveRebalanceOnParent, ActivateAndDeposit
  <2>6. /\ ~ReceiveEpochNetWithdraw(m, m.amount)
        /\ \A c \in ChildChains : ~ReceiveEpochNetDeposit(c, m, m.amount)
    BY <2>3 DEF ReceiveEpochNetWithdraw, NetWithdrawReceivable, ReceiveEpochNetDeposit,
       EpochDepositReceivable
  <2> QED
    BY <2>1, <2>4, <2>5, <2>6, DeliveryKeeps
<1>7. CASE ChildRecovers
  <2>1. PICK c \in ChildChains : ExecuteRecoveryOnChild(c)
    BY <1>7 DEF ChildRecovers
  <2>2. c \in Chains /\ ~Executing /\ UNCHANGED childVars
    BY <1>1, <2>1, ChainFacts DEF Executing, ExecuteRecoveryOnChild
  <2>3. CASE RecoverRebalanceDeposit(c)
    <3>1. ~RequireNoRecovery(c) /\ recovery[c].mode = "REBALANCE_DEPOSIT"
      BY <2>3 DEF RecoverRebalanceDeposit, RequireNoRecovery
    <3>2. RebalanceDepositing /\ \A d \in Chains : d # c => recovery[d] = NoRecovery
      BY <2>2, <3>1, RecoveryByMode, RecoveringPhase DEF PhaseInv
    <3>3. recovery' = [recovery EXCEPT ![c] = NoRecovery]
      BY <2>3 DEF RecoverRebalanceDeposit
    <3>4. \A d \in Chains : recovery'[d].mode # "REBALANCE_WITHDRAW"
      BY <3>2, <3>3, PhaseTypes DEF NoRecovery
    <3>5. ActiveChain \in ChildChains => HandledRebalance(ActiveChain)
      BY <3>2 DEF RebalanceDepositing
    <3> QED
      BY <1>2, <2>2, <3>4, <3>5
  <2>4. CASE RecoverRebalanceWithdraw(c)
    <3>1. ~RequireNoRecovery(c) /\ recovery[c].mode = "REBALANCE_WITHDRAW"
      BY <2>4 DEF RecoverRebalanceWithdraw, RequireNoRecovery
    <3>2. RebalanceWithdrawing /\ \A d \in Chains : d # c => recovery[d] = NoRecovery
      BY <2>2, <3>1, RecoveryByMode, RecoveringPhase DEF PhaseInv
    <3>3. PICK n, s : n = recovery[c].nonce /\ s = recovery[c].target
      OBVIOUS
    <3>4. WithdrawAllAndMove(c, n, s)
      BY <2>4, <3>3 DEF RecoverRebalanceWithdraw
    <3>5. \A d \in Chains : recovery'[d].mode # "REBALANCE_WITHDRAW"
      BY <2>2, <3>2, <3>4, MoveLeavesNone
    <3>6. HandledRebalance(ActiveChain)
      BY <3>2 DEF RebalanceWithdrawing
    <3> QED
      BY <1>2, <2>2, <3>5, <3>6
  <2>5. ~RecoverEpochDeposit(c) /\ ~RecoverEpochWithdraw(c)
    <3>1. ASSUME recovery[c].mode \in {"EPOCH_DEPOSIT", "EPOCH_WITHDRAW"} PROVE FALSE
      <4>1. ~RequireNoRecovery(c)
        BY <3>1 DEF RequireNoRecovery
      <4> QED
        BY <2>2, <3>1, <4>1, RecoveryByMode DEF PhaseInv, DepositPhase, WithdrawPhase
    <3> QED
      BY <3>1 DEF RecoverEpochDeposit, RecoverEpochWithdraw
  <2> QED
    BY <2>1, <2>3, <2>4, <2>5 DEF ExecuteRecoveryOnChild, RecoverCcipSend
<1>8. ~ParentRecovers
  BY <1>1 DEF ParentRecovers, ExecuteRecoveryOnParent, FinalizeRebalance
<1> QED
  BY <1>5, <1>6, <1>7, <1>8 DEF Next, AdminSetsAdapter, SetInitialActiveProtocolAdapter,
     TimePasses, EpochAges, RebalanceAges, PauserActs, Pause, Unpause, EpochCronReadsParent,
     EpochCronReadsChildren, RebalanceCronRuns, RebalanceCron, WorkflowHandlesLog, HandleLog,
     baseVars, vars

\* What the state says of the ledger, in terms of the parent's record alone.
LedgerFacts ==
    /\ Deployed \in Nat /\ OwedToWithdrawals \in Nat
    /\ rebalance.activeStrategy = NoStrategy =>
         /\ FundStage = "undeployed" /\ epochNonce = 1 /\ rebalance.state = "NONE"
         /\ PlacedAtStrategy = 0 /\ Deployed = 0 /\ OwedToWithdrawals = 0
    /\ /\ rebalance.activeStrategy # NoStrategy /\ rebalance.state = "NONE"
       /\ previousEpoch.status # "EXECUTING"
       => FundStage = "idle" /\ PlacedAtStrategy = Deployed /\ OwedToWithdrawals = 0
    /\ previousEpoch.status = "EXECUTING" => FundStage = "settling"
    /\ rebalance.state = "REBALANCING" => FundStage = "moving" /\ OwedToWithdrawals = 0
    /\ PaidIn \/ PaidOut => PlacedAtStrategy = Deployed - OwedToWithdrawals
    /\ Moved => PlacedAtStrategy = 0

\* They hold in every phase ...
LEMMA LedgerState == TypeInv /\ PhaseInv /\ AmountsAgree => LedgerFacts
<1> SUFFICES ASSUME TypeInv, PhaseInv, AmountsAgree
             PROVE  LedgerFacts
  OBVIOUS
<1>1. Deployed \in Nat /\ OwedToWithdrawals \in Nat
  BY DeployedNat, Owed DEF PhaseInv
<1>2. ASSUME rebalance.activeStrategy = NoStrategy
      PROVE  /\ FundStage = "undeployed" /\ epochNonce = 1 /\ rebalance.state = "NONE"
             /\ PlacedAtStrategy = 0 /\ Deployed = 0 /\ OwedToWithdrawals = 0
  <2>1. Undeployed /\ rebalance.state = "NONE"
    BY <1>2, StrategyFacts DEF PhaseInv, Phase, ActiveStrategy
  <2> QED
    BY <2>1, StageFacts, PlacedAtRest DEF Undeployed
<1>3. ASSUME rebalance.activeStrategy # NoStrategy, rebalance.state = "NONE",
             previousEpoch.status # "EXECUTING"
      PROVE  FundStage = "idle" /\ PlacedAtStrategy = Deployed /\ OwedToWithdrawals = 0
  <2>1. AtRest
    BY <1>3, RestPhase DEF PhaseInv, Undeployed, ActiveStrategy
  <2> QED
    BY <2>1, StageFacts, PlacedAtRest
<1>4. previousEpoch.status = "EXECUTING" => FundStage = "settling"
  BY ExecutingFacts, StageFacts DEF PhaseInv
<1>5. rebalance.state = "REBALANCING" => FundStage = "moving" /\ OwedToWithdrawals = 0
  BY RebalancingFacts, StageFacts, Owed DEF PhaseInv, Rebalancing
<1> QED
  BY <1>1, <1>2, <1>3, <1>4, <1>5, PlacedSettled, PlacedMoved DEF LedgerFacts

\* ... so after a step too.
LEMMA LedgerStateAfter == TypeInv' /\ PhaseInv' /\ AmountsAgree' => LedgerFacts'
BY LedgerState, PTL

\* The parent's record of the strategy changes when the first one is set, when a
\* rebalance begins, and when it is finalized, with the fund away from the old strategy.
LEMMA RecordMoves ==
    ASSUME MaxLoss = 0, TypeInv, TypeInv', PhaseInv, [Next]_vars
    PROVE  \/ UNCHANGED rebalance
           \/ AdminSetsAdapter
           \/ \E n, s : InitiateRebalance(n, s)
           \/ Rebalancing /\ Moved /\ FinalizeRebalance(PendingStrategy)
<1>1. CASE ForwardReport
  <2>1. PICK r \in reports : ForwardToParent(r) \/ ForwardToChild(r)
    BY <1>1 DEF ForwardReport
  <2>2. r.nonce \in Nat /\ ReportFits(r)
    BY PhaseTypes DEF PhaseInv
  <2>3. CASE r.call = "completeRebalance" /\ CompleteRebalance(r.nonce)
    <3>1. RebalanceConfirmable(r.nonce)
      BY <2>2, <2>3 DEF ReportFits
    <3> QED
      BY <2>2, <2>3, <3>1, CompletionEndsMove
  <2>4. CASE CloseEpoch(r.nonce, r.amount) \/ CompleteEpochDeposit(r.nonce, r.amount)
    BY <2>4 DEF CloseEpoch, CompleteEpochDeposit
  <2> QED
    BY <2>1, <2>3, <2>4, Zenon DEF ForwardToParent, ForwardToChild, parentVars
<1>2. CASE DeliverMessage
  <2>1. PICK m \in ccip : DeliverToParent(m) \/ DeliverToChild(m)
    BY <1>2 DEF DeliverMessage
  <2>2. CASE ReceiveRebalanceOnParent(m, m.amount)
    <3>1. \/ UNCHANGED parentVars
          \/ FinalizeRebalance(Strategy(m.protocolId, ParentChain))
      BY <2>2 DEF ReceiveRebalanceOnParent
    <3>2. /\ m.ccipTx = "REBALANCE" /\ rebalance.state = "REBALANCING"
          /\ m.destination = ParentChain
      BY <2>2 DEF ReceiveRebalanceOnParent, RebalanceReceivable, ParentReceivable,
         ReceivableBy
    <3>3. /\ NoRecoveries /\ Rebalancing /\ RebalanceInFlight
          /\ m = Message("REBALANCE", ActiveChain, PendingChain, rebalance.nonce,
                         PendingStrategy.protocolId, m.amount)
      BY <3>2, InFlightPhase, RebalancingFacts DEF PhaseInv, DepositPhase, WithdrawPhase,
         Executing, Rebalancing
    <3>4. Strategy(m.protocolId, ParentChain) = PendingStrategy
      <4>1. m.protocolId = PendingStrategy.protocolId /\ PendingChain = ParentChain
        BY <3>2, <3>3 DEF Message
      <4> QED
        BY <3>3, <4>1, StrategyFacts DEF Rebalancing, PendingChain, Strategy
    <3>5. Moved
      BY <3>2, <3>3 DEF Moved, RebalanceInFlight, NoRecoveries, NoRecovery
    <3> QED
      BY <3>1, <3>3, <3>4, <3>5 DEF parentVars
  <2>3. CASE ReceiveEpochNetWithdraw(m, m.amount)
    BY <2>3 DEF ReceiveEpochNetWithdraw
  <2> QED
    BY <2>1, <2>2, <2>3, DeliveryKeeps DEF parentVars
<1>3. CASE ParentRecovers
  <2>1. /\ recovery[ParentChain].mode = "REBALANCE_DEPOSIT" /\ ParentChain \in Chains
        /\ FinalizeRebalance(PendingStrategy)
    BY <1>3, ChainFacts DEF ParentRecovers, ExecuteRecoveryOnParent, RecoverRebalanceDeposit,
       PendingStrategy
  <2>2. ~RequireNoRecovery(ParentChain)
    BY <2>1 DEF RequireNoRecovery
  <2>3. /\ Rebalancing /\ RebalanceDepositing
        /\ \A d \in Chains : d # ParentChain => recovery[d] = NoRecovery
    BY <2>1, <2>2, RecoveryByMode, RecoveringPhase DEF PhaseInv
  <2>4. Moved
    BY <2>1, <2>3 DEF Moved, Rebalancing, RebalanceDepositing, NoRecovery
  <2> QED
    BY <2>1, <2>3, <2>4
<1> QED
  BY <1>1, <1>2, <1>3 DEF Next, TimePasses, EpochAges, RebalanceAges,
     PauserActs, EpochCronReadsParent, EpochCronReadsChildren, RebalanceCronRuns,
     RebalanceCron, WorkflowHandlesLog, HandleLog, ChildRecovers, parentVars, vars

\* A close settles at once, or begins to settle.
LEMMA CloseSettles ==
    ASSUME TypeInv, TypeInv', PhaseInv, PhaseInv', ReadingsAgree, LedgerFacts, LedgerFacts',
           NEW r \in reports, Closes(r)
    PROVE  Ledger!SettleAtOnce \/ Ledger!BeginSettling
<1>1. /\ AtRest /\ totalShares \in Nat /\ r.amount \in Nat /\ r.nonce = epochNonce
      /\ UNCHANGED rebalance
      /\ rebalance.state = "NONE" /\ previousEpoch.status # "EXECUTING"
      /\ rebalance.activeStrategy # NoStrategy
  BY CloseParts, StrategyFacts DEF AtRest, ActiveStrategy
<1>2. PICK shares \in Nat, tvl \in Nat :
        shares = totalShares /\ tvl = r.amount
  BY <1>1
<1>3. PICK deposit \in Nat, burn \in Nat, withdraw \in Nat, shareMint \in Nat :
        /\ burn <= shares
        /\ SettlementAllowed(deposit, burn, tvl, shares, IsLocalStrategy)
        /\ withdraw = TotalWithdraw(burn, tvl, shares)
        /\ \/ SettleNetZero(deposit, withdraw, shareMint)
           \/ SettleLocalDeposit(deposit, withdraw, shareMint)
           \/ SettleRemoteDeposit(deposit, withdraw, shareMint)
           \/ SettleLocalWithdraw(deposit, withdraw, shareMint)
           \/ SettleRemoteWithdraw(deposit, withdraw, shareMint)
  BY <1>2, CloseParts
<1>4. FundStage = "idle" /\ PlacedAtStrategy = Deployed /\ OwedToWithdrawals = 0
  BY <1>1 DEF LedgerFacts
<1>5. epochNonce' = epochNonce + 1
  BY <1>3 DEF SettleNetZero, SettleLocalDeposit, SettleRemoteDeposit, SettleLocalWithdraw,
     SettleRemoteWithdraw, OpenNextEpoch
<1>6. CASE \/ SettleNetZero(deposit, withdraw, shareMint)
           \/ SettleLocalDeposit(deposit, withdraw, shareMint)
           \/ SettleLocalWithdraw(deposit, withdraw, shareMint)
  <2>1. previousEpoch'.status = "CLAIMABLE"
    BY <1>6 DEF SettleNetZero, SettleLocalDeposit, SettleLocalWithdraw, OpenNextEpoch
  <2>2. /\ FundStage' = "idle" /\ PlacedAtStrategy' = Deployed' /\ OwedToWithdrawals' = 0
        /\ Deployed' \in Nat
    BY <1>1, <2>1 DEF LedgerFacts
  <2> QED
    BY <1>1, <1>4, <1>5, <2>2 DEF Ledger!SettleAtOnce
<1>7. CASE SettleRemoteDeposit(deposit, withdraw, shareMint)
  <2>1. /\ previousEpoch'.status = "EXECUTING" /\ deposit > withdraw /\ UNCHANGED position
        /\ OwedToWithdrawals' = 0
    BY <1>7 DEF SettleRemoteDeposit, OpenNextEpoch, OwedToWithdrawals
  <2>2. FundStage' = "settling"
    BY <2>1 DEF LedgerFacts
  <2>3. PlacedAtStrategy' = PlacedAtStrategy
    BY <1>1, <2>1 DEF PlacedAtStrategy
  <2>4. Deployed' = Deployed + (deposit - withdraw)
    BY <1>1, <1>7, SettleMoves
  <2>5. PICK d \in Nat : d = Deployed
    BY DEF LedgerFacts
  <2>6. d + (deposit - withdraw) > d
    BY <2>1
  <2> QED
    BY <1>1, <1>4, <1>5, <2>1, <2>2, <2>3, <2>4, <2>5, <2>6 DEF Ledger!BeginSettling
<1>8. CASE SettleRemoteWithdraw(deposit, withdraw, shareMint)
  <2>1. /\ previousEpoch'.status = "EXECUTING" /\ withdraw > deposit /\ UNCHANGED position
        /\ OwedToWithdrawals' = withdraw - deposit
    BY <1>8 DEF SettleRemoteWithdraw, OpenNextEpoch, OwedToWithdrawals
  <2>2. FundStage' = "settling"
    BY <2>1 DEF LedgerFacts
  <2>3. PlacedAtStrategy' = PlacedAtStrategy
    BY <1>1, <2>1 DEF PlacedAtStrategy
  <2>4. Deployed' = Deployed
    BY <1>1, <1>8, SettleMoves
  <2>5. PICK d \in Nat : d = Deployed
    BY DEF LedgerFacts
  <2>6. tvl \in {0, d}
    BY <1>1, <1>2, <2>5 DEF ReadingsAgree, ReadingOf, Closes
  <2>7. withdraw <= tvl
    <3>1. shares # 0
      BY <1>3, <2>1 DEF TotalWithdraw
    <3>2. withdraw = (burn * tvl) \div shares
      BY <1>3, <3>1 DEF TotalWithdraw, MulDivDown
    <3> QED
      BY <1>3, <3>1, <3>2, PartOfPool
  <2>8. withdraw - deposit > 0 /\ withdraw - deposit <= d
    BY <2>1, <2>6, <2>7
  <2> QED
    BY <1>1, <1>4, <1>5, <2>1, <2>2, <2>3, <2>4, <2>5, <2>8 DEF Ledger!BeginSettling
<1> QED
  BY <1>3, <1>6, <1>7, <1>8

\* A confirmed deposit ends a settlement: the strategy has taken it in ...
LEMMA ConfirmationSettles ==
    ASSUME TypeInv, PhaseInv, LedgerFacts, LedgerFacts', NEW n, NEW a,
           DepositConfirmable(n), CompleteEpochDeposit(n, a)
    PROVE  Ledger!EndSettling
<1>1. /\ previousEpoch.status = "EXECUTING" /\ n = PreviousNonce
      /\ previousEpoch.deposit > previousEpoch.withdrawClaim
      /\ UNCHANGED <<rebalance, position, epochNonce>> /\ UNCHANGED baseVars
  BY DEF CompleteEpochDeposit, CompleteEpochDepositGuard, baseVars, PreviousNonce
<1>2. PaidIn
  BY <1>1 DEF DepositConfirmable, DepositDone, PaidIn
<1>3. Executing
  BY <1>1, ExecutingFacts DEF PhaseInv
<1>4. previousEpoch'.status = "CLAIMABLE"
  BY <1>1, PhaseTypes DEF CompleteEpochDeposit, Epochs
<1>5. rebalance'.state = "NONE" /\ rebalance'.activeStrategy # NoStrategy
  BY <1>1, <1>3, StrategyFacts DEF Executing, ActiveStrategy
<1>6. FundStage = "settling" /\ FundStage' = "idle" /\ OwedToWithdrawals' = 0
  BY <1>1, <1>4, <1>5 DEF LedgerFacts
<1>7. /\ OwedToWithdrawals = 0 /\ PlacedAtStrategy = Deployed - OwedToWithdrawals
      /\ Deployed \in Nat
  BY <1>1, <1>2, Owed DEF LedgerFacts
<1>8. Deployed' = Deployed /\ PlacedAtStrategy' = PlacedAtStrategy
  BY <1>1, Untouched DEF baseVars, PlacedAtStrategy
<1> QED
  BY <1>1, <1>6, <1>7, <1>8 DEF Ledger!EndSettling

\* ... as the workflow's report finds it ...
LEMMA CompleteSettles ==
    ASSUME TypeInv, PhaseInv, LedgerFacts, LedgerFacts', NEW r \in reports, Completes(r)
    PROVE  Ledger!EndSettling
<1>1. CompleteEpochDeposit(r.nonce, r.amount) /\ r.nonce = PreviousNonce
  BY DEF Completes, CompleteEpochDeposit, CompleteEpochDepositGuard, PreviousNonce
<1>2. DepositConfirmable(r.nonce)
  BY <1>1 DEF PhaseInv, ReportFits, CompletionFits, Completes
<1> QED
  BY <1>1, <1>2, ConfirmationSettles

\* ... and so does a withdrawal that arrives: the strategy has paid it out.
LEMMA ReturnSettles ==
    ASSUME TypeInv, TypeInv', PhaseInv, PhaseInv', AmountsAgree, LedgerFacts, LedgerFacts',
           NEW m \in ccip, Returns(m)
    PROVE  Ledger!EndSettling
<1>1. /\ ReceiveEpochNetWithdraw(m, m.amount) /\ UNCHANGED <<rebalance, position, epochNonce>>
      /\ previousEpoch.status = "EXECUTING"
      /\ previousEpoch.deposit < previousEpoch.withdrawClaim
  BY DEF Returns, ReceiveEpochNetWithdraw, NetWithdrawReceivable
<1>2. PaidOut
  BY <1>1 DEF PaidOut
<1>3. Executing
  BY <1>1, ExecutingFacts DEF PhaseInv
<1>4. previousEpoch'.status = "CLAIMABLE"
  BY <1>1, PhaseTypes DEF ReceiveEpochNetWithdraw, Epochs
<1>5. rebalance'.state = "NONE" /\ rebalance'.activeStrategy # NoStrategy
  BY <1>1, <1>3, StrategyFacts DEF Executing, ActiveStrategy
<1>6. FundStage = "settling" /\ FundStage' = "idle" /\ OwedToWithdrawals' = 0
  BY <1>1, <1>4, <1>5 DEF LedgerFacts
<1>7. Deployed' + m.amount = Deployed
  BY <1>1, ReceiveWithdrawKeeps DEF PhaseInv
<1>8. m.amount = OwedToWithdrawals
  BY <1>1, Owed DEF AmountsAgree
<1>9. PICK d \in Nat, a \in Nat, e \in Nat :
        d = Deployed' /\ a = OwedToWithdrawals /\ e = Deployed
  BY DEF LedgerFacts
<1>10. d + a = e
  BY <1>7, <1>8, <1>9
<1>11. d = e - a
  BY <1>10
<1>12. PlacedAtStrategy = Deployed - OwedToWithdrawals
  BY <1>2 DEF LedgerFacts
<1>13. PlacedAtStrategy' = PlacedAtStrategy
  BY <1>1 DEF PlacedAtStrategy
<1> QED
  BY <1>1, <1>6, <1>9, <1>11, <1>12, <1>13 DEF Ledger!EndSettling

\* initiateRebalance moves the fund at once, or begins to move it.
LEMMA InitiateMoves ==
    ASSUME TypeInv, PhaseInv, PhaseInv', PendingIffRebalancing, LedgerFacts, LedgerFacts',
           Keeps, NEW n, NEW s, InitiateRebalance(n, s)
    PROVE  s \in Strategies /\ (Ledger!MoveAtOnce(s) \/ Ledger!BeginMoving(s))
<1>1. /\ s \in Strategies /\ s # rebalance.activeStrategy /\ rebalance.state = "NONE"
      /\ epochNonce # 1 /\ previousEpoch.status # "EXECUTING"
  BY DEF InitiateRebalance, InitiateRebalanceGuard
<1>2. rebalance.activeStrategy # NoStrategy /\ s # NoStrategy /\ rebalance \in Rebalances
  BY <1>1, StrategyFacts, PhaseTypes DEF LedgerFacts
<1>3. AtRest
  BY <1>1, RestPhase DEF PhaseInv, Undeployed
<1>4. FundStage = "idle" /\ PlacedAtStrategy = Deployed /\ OwedToWithdrawals = 0
  BY <1>1, <1>2 DEF LedgerFacts
<1>5. /\ UNCHANGED <<epochNonce, previousEpoch>> /\ Deployed' = Deployed
      /\ OwedToWithdrawals' = OwedToWithdrawals
  BY DEF Keeps, OwedToWithdrawals
<1>6. CASE RebalanceLocalToLocal(s)
  <2>1. /\ rebalance'.activeStrategy = s /\ rebalance'.state = "NONE"
        /\ rebalance'.pendingStrategy = NoStrategy
    BY <1>6 DEF RebalanceLocalToLocal, FinalizeRebalance
  <2>2. FundStage' = "idle" /\ PlacedAtStrategy' = Deployed'
    BY <1>1, <1>2, <1>5, <2>1 DEF LedgerFacts
  <2> QED
    BY <1>1, <1>4, <1>5, <2>1, <2>2 DEF Ledger!MoveAtOnce, PendingIffRebalancing
<1>7. CASE RebalanceLocalToRemote(s) \/ RebalanceFromRemote(s)
  <2>1. /\ rebalance'.activeStrategy = rebalance.activeStrategy
        /\ rebalance'.state = "REBALANCING" /\ rebalance'.pendingStrategy = s
    BY <1>2, <1>7 DEF RebalanceLocalToRemote, RebalanceFromRemote, MarkRebalancing, Rebalances
  <2>2. FundStage' = "moving"
    BY <2>1 DEF LedgerFacts
  <2>3. PlacedAtStrategy' \in {PlacedAtStrategy, 0}
    <3>1. CASE RebalanceLocalToRemote(s)
      <4>1. ActiveChain' \notin ChildChains
        BY <2>1, <3>1, ChainFacts DEF RebalanceLocalToRemote, ActiveIsParent, ActiveChain
      <4>2. \A c \in Chains : recovery'[c] = NoRecovery
        BY <1>3, <3>1 DEF RebalanceLocalToRemote, AtRest, Quiet, Calm, NoRecoveries
      <4>3. Moved'
        BY <2>1, <4>1, <4>2 DEF Moved, NoRecovery
      <4> QED
        BY <4>3 DEF LedgerFacts
    <3>2. CASE RebalanceFromRemote(s)
      BY <2>1, <3>2 DEF RebalanceFromRemote, PlacedAtStrategy
    <3> QED
      BY <1>7, <3>1, <3>2
  <2> QED
    BY <1>1, <1>4, <1>5, <2>1, <2>2, <2>3 DEF Ledger!BeginMoving
<1> QED
  BY <1>1, <1>6, <1>7 DEF InitiateRebalance

\* A rebalance that is finalized ends the move.
LEMMA FinalizeEndsMove ==
    ASSUME TypeInv, PhaseInv, LedgerFacts, LedgerFacts', Keeps,
           Rebalancing, Moved, FinalizeRebalance(PendingStrategy)
    PROVE  Ledger!EndMoving
<1>1. /\ UNCHANGED <<epochNonce, previousEpoch>> /\ Deployed' = Deployed
      /\ OwedToWithdrawals' = OwedToWithdrawals
  BY DEF Keeps, OwedToWithdrawals
<1>2. FundStage = "moving" /\ PlacedAtStrategy = 0
  BY DEF LedgerFacts, Moved
<1>3. /\ rebalance'.state = "NONE" /\ rebalance'.activeStrategy = rebalance.pendingStrategy
      /\ rebalance'.pendingStrategy = NoStrategy /\ rebalance'.activeStrategy # NoStrategy
  BY StrategyFacts DEF FinalizeRebalance, Rebalancing, PendingStrategy
<1>4. FundStage' = "idle" /\ PlacedAtStrategy' = Deployed'
  BY <1>1, <1>3 DEF LedgerFacts, Rebalancing
<1> QED
  BY <1>1, <1>2, <1>3, <1>4 DEF Ledger!EndMoving

\* A step that leaves the record alone moves the net amount of the epoch, or the whole
\* fund, or nothing the ledger sees.
LEMMA KeptRecord ==
    ASSUME TypeInv, PhaseInv, LedgerFacts, LedgerFacts', Keeps, UNCHANGED rebalance,
           Executing => UNCHANGED position \/ PaidIn' \/ PaidOut',
           Rebalancing => UNCHANGED position \/ Moved'
    PROVE  Ledger!FundsMove \/ UNCHANGED Ledger!ledgerVars
<1>1. /\ UNCHANGED <<epochNonce, previousEpoch>> /\ Deployed' = Deployed
      /\ OwedToWithdrawals' = OwedToWithdrawals
  BY DEF Keeps, OwedToWithdrawals
<1>2. FundStage' = FundStage
  BY <1>1 DEF FundStage
<1>3. CASE PlacedAtStrategy' = PlacedAtStrategy
  BY <1>1, <1>2, <1>3 DEF Ledger!ledgerVars
<1>4. CASE rebalance.activeStrategy = NoStrategy
  BY <1>3, <1>4 DEF LedgerFacts
<1>5. CASE AtRest
  <2>1. /\ rebalance.activeStrategy # NoStrategy /\ rebalance.state = "NONE"
        /\ previousEpoch.status # "EXECUTING"
    BY <1>5, StrategyFacts DEF AtRest, ActiveStrategy
  <2>2. PlacedAtStrategy = Deployed /\ PlacedAtStrategy' = Deployed'
    BY <1>1, <2>1 DEF LedgerFacts
  <2> QED
    BY <1>1, <1>3, <2>2
<1>6. UNCHANGED position => PlacedAtStrategy' = PlacedAtStrategy
  BY DEF PlacedAtStrategy
<1>7. CASE Executing
  <2>1. FundStage = "settling"
    BY <1>7 DEF LedgerFacts, Executing
  <2>2. ASSUME PaidIn' \/ PaidOut'
        PROVE  Ledger!FundsMove
    <3>1. PlacedAtStrategy' = Deployed - OwedToWithdrawals
      BY <1>1, <2>2 DEF LedgerFacts
    <3> QED
      BY <1>1, <1>2, <2>1, <3>1 DEF Ledger!FundsMove
  <2> QED
    BY <1>3, <1>6, <1>7, <2>2
<1>8. CASE Rebalancing
  <2>1. FundStage = "moving"
    BY <1>8 DEF LedgerFacts, Rebalancing
  <2>2. ASSUME Moved'
        PROVE  Ledger!FundsMove
    <3>1. PlacedAtStrategy' = 0
      BY <2>2 DEF LedgerFacts
    <3> QED
      BY <1>1, <1>2, <2>1, <3>1 DEF Ledger!FundsMove
  <2> QED
    BY <1>3, <1>6, <1>8, <2>2
<1> QED
  BY <1>4, <1>5, <1>7, <1>8, StageFacts DEF Undeployed, ActiveStrategy

\* The rest of the steps: the first strategy is set, a move ends, the net amount or the
\* fund reaches or leaves the strategy, or the ledger sees nothing.
LEMMA KeptSteps ==
    ASSUME MaxLoss = 0, TypeInv, TypeInv', PhaseInv, PhaseInv', PendingIffRebalancing,
           LedgerFacts, LedgerFacts', Keeps, [Next]_vars
    PROVE  [Ledger!LedgerNext]_(Ledger!ledgerVars)
<1>1. /\ UNCHANGED <<epochNonce, previousEpoch>> /\ Deployed' = Deployed
      /\ OwedToWithdrawals' = OwedToWithdrawals /\ rebalance \in Rebalances
  BY PhaseTypes DEF Keeps, OwedToWithdrawals
<1>2. CASE AdminSetsAdapter
  <2>1. PICK p \in Protocols : SetInitialActiveProtocolAdapter(p)
    BY <1>2 DEF AdminSetsAdapter
  <2>2. PICK s \in Strategies : s = Strategy(p, ParentChain)
    BY ChainFacts DEF Strategies, Strategy
  <2>3. /\ rebalance.activeStrategy = NoStrategy /\ rebalance'.activeStrategy = s
        /\ rebalance'.state = rebalance.state
        /\ rebalance'.pendingStrategy = rebalance.pendingStrategy
    BY <1>1, <2>1, <2>2 DEF SetInitialActiveProtocolAdapter, Rebalances
  <2>4. /\ FundStage = "undeployed" /\ rebalance.state = "NONE" /\ epochNonce = 1
        /\ PlacedAtStrategy = 0 /\ Deployed = 0
    BY <2>3 DEF LedgerFacts
  <2>5. s # NoStrategy /\ previousEpoch.status # "EXECUTING"
    BY <2>4, StrategyFacts DEF PhaseInv
  <2>6. FundStage' = "idle" /\ PlacedAtStrategy' = Deployed'
    BY <1>1, <2>3, <2>4, <2>5 DEF LedgerFacts
  <2>7. Ledger!Deploy(s)
    BY <1>1, <2>3, <2>4, <2>6 DEF Ledger!Deploy
  <2> QED
    BY <2>7 DEF Ledger!LedgerNext
<1>3. CASE \E n, s : InitiateRebalance(n, s)
  <2>1. PICK n, s : InitiateRebalance(n, s)
    BY <1>3
  <2>2. s \in Strategies /\ (Ledger!MoveAtOnce(s) \/ Ledger!BeginMoving(s))
    BY <2>1, InitiateMoves
  <2> QED
    BY <2>2 DEF Ledger!LedgerNext
<1>4. CASE Rebalancing /\ Moved /\ FinalizeRebalance(PendingStrategy)
  BY <1>4, FinalizeEndsMove DEF Ledger!LedgerNext
<1>5. CASE UNCHANGED rebalance
  <2>1. Executing => UNCHANGED position \/ PaidIn' \/ PaidOut'
    BY <1>1, SettlingMoves
  <2>2. Rebalancing => UNCHANGED position \/ Moved'
    BY <1>5, MovingMoves
  <2> QED
    BY <1>5, <2>1, <2>2, KeptRecord DEF Ledger!LedgerNext
<1> QED
  BY <1>2, <1>3, <1>4, <1>5, RecordMoves

\* The initial states are the ledger's.
LEMMA InitLedger == Init => Ledger!LedgerInit
<1> SUFFICES ASSUME Init PROVE Ledger!LedgerInit
  OBVIOUS
<1>1. TypeInv /\ PhaseInv /\ AmountsAgree
  BY InitTypeInv, InitPhase DEF Init, ParentVaultInit, AmountsAgree
<1>2. /\ rebalance.activeStrategy = NoStrategy /\ rebalance.pendingStrategy = NoStrategy
      /\ epochNonce = 1
  BY DEF Init, ParentVaultInit
<1>3. /\ FundStage = "undeployed" /\ PlacedAtStrategy = 0 /\ Deployed = 0
      /\ OwedToWithdrawals = 0
  BY <1>1, <1>2, LedgerState DEF LedgerFacts
<1> QED
  BY <1>2, <1>3 DEF Ledger!LedgerInit

\* Every step of the deployment is one of the ledger's, or none.
LEMMA LedgerStep ==
    ASSUME MaxLoss = 0, TypeInv, TypeInv', PhaseInv, PhaseInv', BackingInv, BackingInv',
           [Next]_vars
    PROVE  [Ledger!LedgerNext]_(Ledger!ledgerVars)
<1>1. /\ AmountsAgree /\ ReadingsAgree /\ PendingIffRebalancing
      /\ LedgerFacts /\ LedgerFacts'
  BY LedgerState, LedgerStateAfter DEF BackingInv
<1>2. CASE Keeps
  BY <1>1, <1>2, KeptSteps
<1>3. CASE \E r \in reports : Closes(r) \/ Completes(r)
  BY <1>1, <1>3, CloseSettles, CompleteSettles DEF Ledger!LedgerNext
<1>4. CASE \E m \in ccip : Returns(m)
  BY <1>1, <1>4, ReturnSettles DEF Ledger!LedgerNext
<1> QED
  BY <1>2, <1>3, <1>4, StepKeeps

\* Where transfers arrive whole, the deployment implements FundLedger: whatever is
\* interleaved, delayed, replayed, failed and recovered, its share holders see one fund
\* that settles or moves, one operation at a time and never in part.
THEOREM DeploymentIsOneFund ==
    ASSUME MaxLoss = 0
    PROVE  Spec => ImplementsLedger
<1>1. /\ TypeInv /\ TypeInv' /\ PhaseInv /\ PhaseInv' /\ BackingInv /\ BackingInv'
      /\ [Next]_vars
      => [Ledger!LedgerNext]_(Ledger!ledgerVars)
  BY LedgerStep
<1> QED
  BY <1>1, InitLedger, TypeInvariance, PhaseCorrect, BackingCorrect, PTL
     DEF Spec, ImplementsLedger, Ledger!LedgerSpec
=============================================================================
