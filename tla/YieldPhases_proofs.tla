------------------------- MODULE YieldPhases_proofs -------------------------
(* Proofs about YieldProtocol, for any number of chains and protocols, any     *)
(* precisions, amounts, losses, pauses and replays.  The types come first; then *)
(* PhaseInv is an invariant, and the safety properties of the deployment follow *)
(* from it.                                                                    *)
EXTENDS YieldPhases, TLAPS

----------------------------------------------------------------------------
(* The share arithmetic. *)

\* A quotient of naturals is a natural.
LEMMA MulDivDownNat ==
    ASSUME NEW x \in Nat, NEW y \in Nat, NEW d \in Nat, d # 0
    PROVE  MulDivDown(x, y, d) \in Nat
BY SMT DEF MulDivDown

\* Scaling down by a fraction of at most one does not increase.
LEMMA MulDivDownBound ==
    ASSUME NEW x \in Nat, NEW y \in Nat, NEW d \in Nat, d # 0, y <= d
    PROVE  MulDivDown(x, y, d) <= x
BY SMT DEF MulDivDown

\* The pro rata value of a burn is a natural number.
LEMMA TotalWithdrawNat ==
    ASSUME NEW burn \in Nat, NEW tvl \in Nat, NEW shares \in Nat
    PROVE  TotalWithdraw(burn, tvl, shares) \in Nat
BY MulDivDownNat DEF TotalWithdraw

\* So are the shares of a deposit the settlement checks let through.
LEMMA NewSharesNat ==
    ASSUME NEW deposit \in Nat, NEW tvl \in Nat, NEW shares \in Nat,
           shares # 0 => tvl # 0
    PROVE  NewShares(deposit, tvl, shares) \in Nat
BY MulDivDownNat, PrecisionAssumption DEF NewShares

----------------------------------------------------------------------------
(* The vaults' and the workflow's records. *)

\* A strategy of a registered protocol.
LEMMA StrategyType ==
    ASSUME NEW p \in Protocols, NEW c \in Chains
    PROVE  /\ Strategy(p, c) \in Strategies
           /\ Strategy(p, c).protocolId = p
           /\ Strategy(p, c).chainSelector = c
BY DEF Strategy, Strategies

\* Every strategy, and the zero strategy, is a target.
LEMMA TargetType ==
    /\ NoStrategy \in Targets
    /\ \A s \in Strategies : s \in Targets
    /\ \A p \in Protocols \union {NoProtocol}, c \in Chains \union {NoChain} :
         Strategy(p, c) \in Targets
BY DEF NoStrategy, Targets, Strategies, Strategy

\* The strategy of a vault with an adapter.
LEMMA ActiveOnType ==
    ASSUME BaseVaultTypeOK, NEW c \in Chains, HasAdapter(c)
    PROVE  ActiveOn(c) \in Strategies
BY StrategyType DEF BaseVaultTypeOK, HasAdapter, ActiveOn

\* The empty recovery is a recovery.
LEMMA NoRecoveryType == NoRecovery \in Recoveries /\ NoRecovery.mode = "NONE"
BY TargetType DEF NoRecovery, Recoveries, RecoveryMode

\* Reading the value of a vault gives a natural number.
LEMMA GetTVLType ==
    ASSUME BaseVaultTypeOK, NEW c \in Chains
    PROVE  GetTVL(c) \in Nat
BY ActiveOnType DEF GetTVL, BaseVaultTypeOK, Recoveries

----------------------------------------------------------------------------
(* Types.  ExecutingMintCounted strengthens TypeOK: without it the reduction   *)
(* of totalShares for a short delivery might not be a natural number.          *)

TypeInv == TypeOK /\ ExecutingMintCounted

\* The deployment starts well typed.
LEMMA InitTypeInv == Init => TypeInv
<1> SUFFICES ASSUME Init PROVE TypeInv
  OBVIOUS
<1> USE DEF Init
<1>1. BaseVaultTypeOK
  BY NoRecoveryType DEF BaseVaultInit, BaseVaultTypeOK, Chains
<1>2. ParentVaultTypeOK
  <2>1. previousEpoch \in Epochs
    BY DEF ParentVaultInit, Epochs, EpochStatus
  <2>2. rebalance \in Rebalances
    BY TargetType DEF ParentVaultInit, Rebalances, RebalanceState
  <2>3. epochNonce \in Nat \ {0} /\ totalShares \in Nat
    BY DEF ParentVaultInit
  <2>4. epochAged \in BOOLEAN /\ rebalanceAged \in BOOLEAN
    BY Zenon DEF ParentVaultInit
  <2>5. QED
    BY <2>1, <2>2, <2>3, <2>4, Zenon DEF ParentVaultTypeOK
<1>3. ExecutingMintCounted
  BY DEF ParentVaultInit, ExecutingMintCounted
<1>4. ChildVaultTypeOK
  BY DEF ChildVaultInit, ChildVaultTypeOK
<1>5. CreWorkflowTypeOK
  BY DEF CreWorkflowInit, CreWorkflowTypeOK, Snapshots, NoSnapshot
<1>6. QED
  BY <1>1, <1>2, <1>3, <1>4, <1>5 DEF TypeInv, TypeOK

\* Money into and out of adapters keeps the positions natural numbers.
LEMMA DepositedType ==
    ASSUME NEW held \in [Strategies -> Nat], NEW s \in Strategies, NEW amount \in Nat
    PROVE  Deposited(held, s, amount) \in [Strategies -> Nat]
BY DEF Deposited

\* A withdrawal within the position leaves a natural.
LEMMA WithdrawnType ==
    ASSUME BaseVaultTypeOK, NEW c \in Chains, NEW amount \in Nat, CanWithdraw(c, amount)
    PROVE  Withdrawn(c, amount) \in [Strategies -> Nat]
BY ActiveOnType DEF Withdrawn, CanWithdraw, BaseVaultTypeOK

\* A message built from typed fields is typed.
LEMMA MessageType ==
    ASSUME NEW tx \in CcipTx, NEW source \in Chains, NEW destination \in Chains,
           NEW nonce \in Nat, NEW p \in Protocols \union {NoProtocol}, NEW amount \in Nat
    PROVE  Message(tx, source, destination, nonce, p, amount) \in Messages
BY DEF Message, Messages

\* A report built from typed fields is typed.
LEMMA ReportType ==
    ASSUME NEW call \in ReportCalls, NEW target \in Chains, NEW nonce \in Nat,
           NEW amount \in Nat, NEW strategy \in Targets
    PROVE  Report(call, target, nonce, amount, strategy) \in Reports
BY DEF Report, Reports

----------------------------------------------------------------------------
(* The ParentVault's operations. *)

\* A settled epoch and its successor.
LEMMA OpenNextEpochTypes ==
    ASSUME ParentVaultTypeOK, NEW status \in EpochStatus, NEW deposit \in Nat,
           NEW withdrawClaim \in Nat, NEW shareMint \in Nat,
           OpenNextEpoch(status, deposit, withdrawClaim, shareMint)
    PROVE  /\ epochNonce' \in Nat \ {0}
           /\ epochAged' \in BOOLEAN
           /\ previousEpoch' \in Epochs
           /\ previousEpoch'.shareMint = shareMint
<1>1. epochAged' \in BOOLEAN
  BY Zenon DEF OpenNextEpoch
<1>2. epochNonce \in Nat /\ epochNonce' = epochNonce + 1
  BY Zenon DEF OpenNextEpoch, ParentVaultTypeOK
<1>3. previousEpoch' \in Epochs /\ previousEpoch'.shareMint = shareMint
  BY DEF OpenNextEpoch, Epochs
<1>4. QED
  BY <1>1, <1>2, <1>3

\* Closing an epoch: locally settled, or executing with its mint counted.
LEMMA CloseEpochTypes ==
    ASSUME TypeInv, NEW n \in Nat, NEW tvl \in Nat, CloseEpoch(n, tvl)
    PROVE  BaseVaultTypeOK' /\ ParentVaultTypeOK' /\ ExecutingMintCounted'
<1>1. PICK deposit \in 0..MaxDeposit, burn \in 0..totalShares :
        LET withdraw == TotalWithdraw(burn, tvl, totalShares)
            shareMint == NewShares(deposit, tvl, totalShares)
        IN  /\ SettlementAllowed(deposit, burn, tvl, totalShares, IsLocalStrategy)
            /\ totalShares' = SharesAfterClose(shareMint, burn)
            /\ \/ SettleNetZero(deposit, withdraw, shareMint)
               \/ SettleLocalDeposit(deposit, withdraw, shareMint)
               \/ SettleRemoteDeposit(deposit, withdraw, shareMint)
               \/ SettleLocalWithdraw(deposit, withdraw, shareMint)
               \/ SettleRemoteWithdraw(deposit, withdraw, shareMint)
  BY DEF CloseEpoch
<1> DEFINE withdraw == TotalWithdraw(burn, tvl, totalShares)
           shareMint == NewShares(deposit, tvl, totalShares)
<1>2. deposit \in Nat /\ burn \in Nat /\ burn <= totalShares /\ totalShares \in Nat
  BY BoundAssumption DEF TypeInv, TypeOK, ParentVaultTypeOK
<1>3. withdraw \in Nat
  BY <1>2, TotalWithdrawNat
<1>4. shareMint \in Nat
  BY <1>1, <1>2, NewSharesNat DEF SettlementAllowed
<1>5. totalShares' \in Nat /\ shareMint <= totalShares'
  BY <1>1, <1>2, <1>4 DEF SharesAfterClose
<1> HIDE DEF withdraw, shareMint
<1>6. UNCHANGED <<rebalance, rebalanceAged>>
  BY DEF CloseEpoch
<1>7. ParentChain \in Chains
  BY DEF Chains
<1>8. ASSUME NEW status \in EpochStatus, NEW claim \in Nat,
             OpenNextEpoch(status, deposit, claim, shareMint)
      PROVE  ParentVaultTypeOK' /\ ExecutingMintCounted'
  BY <1>2, <1>4, <1>5, <1>6, <1>8, OpenNextEpochTypes
     DEF TypeInv, TypeOK, ParentVaultTypeOK, ExecutingMintCounted
<1>9. CASE SettleNetZero(deposit, withdraw, shareMint)
  BY <1>3, <1>8, <1>9
     DEF SettleNetZero, EpochStatus, baseVars, TypeInv, TypeOK, BaseVaultTypeOK
<1>10. CASE SettleLocalDeposit(deposit, withdraw, shareMint)
  <2>1. position' \in [Strategies -> Nat]
    BY <1>2, <1>3, <1>7, <1>10, ActiveOnType, DepositedType
       DEF SettleLocalDeposit, IsLocalStrategy, TypeInv, TypeOK, BaseVaultTypeOK
  <2>2. QED
    BY <1>3, <1>8, <1>10, <2>1
       DEF SettleLocalDeposit, EpochStatus, TypeInv, TypeOK, BaseVaultTypeOK
<1>11. CASE SettleRemoteDeposit(deposit, withdraw, shareMint)
  <2> DEFINE destination == rebalance.activeStrategy.chainSelector
             m == Message("EPOCH_NET_DEPOSIT", ParentChain, destination, epochNonce,
                          NoProtocol, deposit - withdraw)
  <2>a. epochNonce \in Nat /\ ccip \subseteq Messages
    BY Zenon DEF TypeInv, TypeOK, BaseVaultTypeOK, ParentVaultTypeOK
  <2>b. destination \in Chains /\ ccip' = ccip \union {m}
    BY <1>11 DEF SettleRemoteDeposit, ValidateCcipSend
  <2>c. deposit - withdraw \in Nat
    BY <1>2, <1>3, <1>11 DEF SettleRemoteDeposit
  <2>d. m \in Messages
    BY <1>7, <2>a, <2>b, <2>c, MessageType DEF CcipTx
  <2>1. ccip' \subseteq Messages
    BY <2>a, <2>b, <2>d
  <2>2. QED
    BY <1>3, <1>8, <1>11, <2>1
       DEF SettleRemoteDeposit, EpochStatus, TypeInv, TypeOK, BaseVaultTypeOK
<1>12. CASE SettleLocalWithdraw(deposit, withdraw, shareMint)
  <2>1. position' \in [Strategies -> Nat]
    BY <1>2, <1>3, <1>7, <1>12, WithdrawnType
       DEF SettleLocalWithdraw, TypeInv, TypeOK
  <2>2. deposit + (withdraw - deposit) \in Nat
    BY <1>2, <1>3
  <2>3. QED
    BY <1>8, <1>12, <2>1, <2>2
       DEF SettleLocalWithdraw, EpochStatus, TypeInv, TypeOK, BaseVaultTypeOK
<1>13. CASE SettleRemoteWithdraw(deposit, withdraw, shareMint)
  <2>1. logs' \subseteq Logs
    BY <1>2, <1>3, <1>7, <1>13, TargetType
       DEF SettleRemoteWithdraw, Logs, LogEvents, TypeInv, TypeOK, BaseVaultTypeOK,
           ParentVaultTypeOK
  <2>2. QED
    BY <1>3, <1>8, <1>13, <2>1
       DEF SettleRemoteWithdraw, EpochStatus, TypeInv, TypeOK, BaseVaultTypeOK
<1>14. QED
  BY <1>1, <1>9, <1>10, <1>11, <1>12, <1>13 DEF withdraw, shareMint

\* What the parent's record of epochs and shares needs of a step.
LEMMA ParentTypesUnchanged ==
    ASSUME TypeInv, UNCHANGED parentVars
    PROVE  ParentVaultTypeOK' /\ ExecutingMintCounted'
BY Zenon DEF TypeInv, TypeOK, ParentVaultTypeOK, ExecutingMintCounted, parentVars

\* Steps that touch none of the variables of BaseVault.
LEMMA BaseTypesUnchanged ==
    ASSUME TypeInv, UNCHANGED baseVars
    PROVE  BaseVaultTypeOK'
BY Zenon DEF TypeInv, TypeOK, BaseVaultTypeOK, baseVars

\* The reconciliation takes back no more shares than are counted.
LEMMA CompleteEpochDepositTypes ==
    ASSUME TypeInv, NEW n \in Nat, NEW actual \in Nat, CompleteEpochDeposit(n, actual)
    PROVE  BaseVaultTypeOK' /\ ParentVaultTypeOK' /\ ExecutingMintCounted'
<1> DEFINE mint == ReconciledShares(actual)
<1>1. previousEpoch \in Epochs /\ totalShares \in Nat
  BY Zenon DEF TypeInv, TypeOK, ParentVaultTypeOK
<1>2. /\ previousEpoch.deposit > previousEpoch.withdrawClaim
      /\ actual <= ExpectedDeposit
      /\ previousEpoch.status = "EXECUTING"
  BY DEF CompleteEpochDeposit, CompleteEpochDepositGuard
<1>3. mint \in Nat /\ mint <= previousEpoch.shareMint
  <2>1. /\ previousEpoch.deposit \in Nat /\ previousEpoch.deposit # 0
        /\ previousEpoch.shareMint \in Nat
        /\ previousEpoch.deposit - (ExpectedDeposit - actual) \in Nat
        /\ previousEpoch.deposit - (ExpectedDeposit - actual) <= previousEpoch.deposit
    BY <1>1, <1>2 DEF Epochs, ExpectedDeposit
  <2>2. LET adjusted == AdjustedShares(previousEpoch.shareMint, previousEpoch.deposit,
                                      ExpectedDeposit - actual)
        IN  adjusted \in Nat /\ adjusted <= previousEpoch.shareMint
    BY <2>1, MulDivDownNat, MulDivDownBound, Zenon DEF AdjustedShares
  <2>3. QED
    BY <2>1, <2>2 DEF ReconciledShares
<1>4. /\ previousEpoch' = [previousEpoch EXCEPT !.status = "CLAIMABLE", !.shareMint = mint]
      /\ totalShares' = totalShares - (previousEpoch.shareMint - mint)
  BY DEF CompleteEpochDeposit
<1> HIDE DEF mint
<1>5. previousEpoch' \in Epochs /\ previousEpoch'.status = "CLAIMABLE"
  BY <1>1, <1>3, <1>4 DEF Epochs, EpochStatus
<1>6. totalShares' \in Nat
  BY <1>1, <1>2, <1>3, <1>4 DEF Epochs, TypeInv, ExecutingMintCounted
<1>7. UNCHANGED <<baseVars, epochNonce, epochAged, rebalance, rebalanceAged>>
  BY DEF CompleteEpochDeposit
<1>8. ParentVaultTypeOK'
  BY <1>5, <1>6, <1>7, Zenon DEF TypeInv, TypeOK, ParentVaultTypeOK
<1>9. QED
  BY <1>5, <1>7, <1>8, BaseTypesUnchanged DEF ExecutingMintCounted

\* Ending a rebalance.
LEMMA FinalizeRebalanceTypes ==
    ASSUME TypeInv, NEW s \in Targets, FinalizeRebalance(s)
    PROVE  ParentVaultTypeOK' /\ ExecutingMintCounted'
<1>1. /\ epochNonce \in Nat \ {0} /\ epochAged \in BOOLEAN
      /\ previousEpoch \in Epochs
      /\ totalShares \in Nat
      /\ rebalance \in Rebalances
  BY Zenon DEF TypeInv, TypeOK, ParentVaultTypeOK
<1>2. rebalance' \in Rebalances
  BY <1>1, TargetType DEF FinalizeRebalance, Rebalances, RebalanceState
<1>3. totalShares' \in Nat /\ totalShares <= totalShares'
  BY <1>1, BoundAssumption DEF FinalizeRebalance
<1>4. rebalanceAged' \in BOOLEAN
  BY Zenon DEF FinalizeRebalance
<1>5. UNCHANGED <<epochNonce, epochAged, previousEpoch>>
  BY DEF FinalizeRebalance
<1>6. ExecutingMintCounted'
  BY <1>1, <1>3, <1>5 DEF ExecutingMintCounted, TypeInv, Epochs
<1>7. QED
  BY <1>1, <1>2, <1>3, <1>4, <1>5, <1>6, Zenon DEF ParentVaultTypeOK

\* Beginning a rebalance.
LEMMA MarkRebalancingTypes ==
    ASSUME TypeInv, NEW s \in Strategies, MarkRebalancing(s)
    PROVE  ParentVaultTypeOK' /\ ExecutingMintCounted' /\ logs' \subseteq Logs
<1>1. rebalance \in Rebalances /\ logs \subseteq Logs
  BY Zenon DEF TypeInv, TypeOK, ParentVaultTypeOK, BaseVaultTypeOK
<1>2. rebalance' \in Rebalances
  BY <1>1, TargetType DEF MarkRebalancing, Rebalances, RebalanceState
<1>3. RebalanceInitiatedLog(s) \in Logs
  BY <1>1, TargetType DEF RebalanceInitiatedLog, Logs, LogEvents, Chains, Rebalances
<1>4. logs' = logs \union {RebalanceInitiatedLog(s)}
  BY DEF MarkRebalancing
<1>5. UNCHANGED <<epochNonce, epochAged, previousEpoch, totalShares, rebalanceAged>>
  BY DEF MarkRebalancing
<1>6. ParentVaultTypeOK' /\ ExecutingMintCounted'
  BY <1>2, <1>5, Zenon DEF TypeInv, TypeOK, ParentVaultTypeOK, ExecutingMintCounted
<1>7. QED
  BY <1>1, <1>3, <1>4, <1>6

\* The three routes of initiateRebalance.
LEMMA InitiateRebalanceTypes ==
    ASSUME TypeInv, NEW n \in Nat, NEW s \in Targets, InitiateRebalance(n, s)
    PROVE  BaseVaultTypeOK' /\ ParentVaultTypeOK' /\ ExecutingMintCounted'
<1> DEFINE amountOut == position[ActiveOn(ParentChain)]
<1>1. s \in Strategies
  BY DEF InitiateRebalance, InitiateRebalanceGuard
<1>2. ParentChain \in Chains /\ s.protocolId \in Protocols /\ s.chainSelector \in Chains
  BY <1>1 DEF Chains, Strategies
<1>3. BaseVaultTypeOK /\ rebalance \in Rebalances /\ rebalance.nonce \in Nat
  BY DEF TypeInv, TypeOK, ParentVaultTypeOK, Rebalances
<1>4. ASSUME CanWithdraw(ParentChain, amountOut)
      PROVE  amountOut \in Nat /\ Withdrawn(ParentChain, amountOut) \in [Strategies -> Nat]
  <2>1. amountOut \in Nat
    BY <1>2, <1>3, <1>4, ActiveOnType DEF CanWithdraw, BaseVaultTypeOK
  <2>2. QED
    BY <1>2, <1>3, <1>4, <2>1, WithdrawnType
<1>5. CASE RebalanceLocalToLocal(s)
  <2>1. ParentVaultTypeOK' /\ ExecutingMintCounted'
    BY <1>1, <1>5, TargetType, FinalizeRebalanceTypes DEF RebalanceLocalToLocal
  <2>2. position' \in [Strategies -> Nat]
    BY <1>1, <1>4, <1>5, DepositedType DEF RebalanceLocalToLocal
  <2>3. logs' \subseteq Logs
    <3>1. RebalanceInitiatedLog(s) \in Logs
      BY <1>1, <1>2, <1>3, TargetType DEF RebalanceInitiatedLog, Logs, LogEvents
    <3>2. QED
      BY <1>3, <1>5, <3>1 DEF RebalanceLocalToLocal, BaseVaultTypeOK
  <2>4. activeAdapter' \in [Chains -> Protocols \union {NoProtocol}]
    BY <1>2, <1>3, <1>5 DEF RebalanceLocalToLocal, BaseVaultTypeOK
  <2>5. QED
    BY <1>3, <1>5, <2>1, <2>2, <2>3, <2>4 DEF RebalanceLocalToLocal, BaseVaultTypeOK
<1>6. CASE RebalanceLocalToRemote(s)
  <2> DEFINE m == Message("REBALANCE", ParentChain, s.chainSelector, rebalance.nonce,
                          s.protocolId, amountOut)
  <2>1. ParentVaultTypeOK' /\ ExecutingMintCounted' /\ logs' \subseteq Logs
    BY <1>1, <1>6, MarkRebalancingTypes DEF RebalanceLocalToRemote
  <2>2. position' \in [Strategies -> Nat]
    BY <1>4, <1>6 DEF RebalanceLocalToRemote
  <2>3. m \in Messages
    BY <1>2, <1>3, <1>4, <1>6, MessageType DEF RebalanceLocalToRemote, CcipTx
  <2>4. ccip' \subseteq Messages
    BY <1>3, <1>6, <2>3 DEF RebalanceLocalToRemote, BaseVaultTypeOK
  <2>5. activeAdapter' \in [Chains -> Protocols \union {NoProtocol}]
    BY <1>2, <1>3, <1>6 DEF RebalanceLocalToRemote, BaseVaultTypeOK
  <2>6. QED
    BY <1>3, <1>6, <2>1, <2>2, <2>4, <2>5 DEF RebalanceLocalToRemote, BaseVaultTypeOK
<1>7. CASE RebalanceFromRemote(s)
  BY <1>1, <1>3, <1>7, MarkRebalancingTypes DEF RebalanceFromRemote, BaseVaultTypeOK
<1>8. QED
  BY <1>5, <1>6, <1>7 DEF InitiateRebalance

----------------------------------------------------------------------------
(* The operations ParentVault and ChildVault share. *)

\* The log of a rebalance deposit.
LEMMA RebalanceDepositLogType ==
    ASSUME NEW c \in Chains, NEW nonce \in Nat, NEW amount \in Nat
    PROVE  RebalanceDepositLog(c, nonce, amount) \subseteq Logs
BY TargetType DEF RebalanceDepositLog, Logs, LogEvents

\* The recovery of a failed rebalance deposit.
LEMMA RebalanceDepositRecoveryType ==
    ASSUME NEW nonce \in Nat, NEW amount \in Nat
    PROVE  /\ RebalanceDepositRecovery(nonce, amount) \in Recoveries
           /\ RebalanceDepositRecovery(nonce, amount).mode = "REBALANCE_DEPOSIT"
BY TargetType DEF RebalanceDepositRecovery, NoRecovery, Recoveries, RecoveryMode

\* Setting the adapter and depositing into it.
LEMMA ActivateAndDepositTypes ==
    ASSUME BaseVaultTypeOK, NEW c \in Chains, NEW nonce \in Nat, NEW protocolId,
           NEW amount \in Nat, NEW held \in [Strategies -> Nat], NEW success \in BOOLEAN,
           ActivateAndDeposit(c, nonce, protocolId, amount, held, success),
           paused' = paused, ccip' \subseteq Messages
    PROVE  BaseVaultTypeOK'
<1>1. protocolId \in Protocols /\ Strategy(protocolId, c) \in Strategies
  BY StrategyType DEF ActivateAndDeposit
<1>2. activeAdapter' \in [Chains -> Protocols \union {NoProtocol}]
  BY <1>1 DEF ActivateAndDeposit, BaseVaultTypeOK
<1>3. position' \in [Strategies -> Nat]
  BY <1>1, DepositedType DEF ActivateAndDeposit
<1>4. /\ recovery' \in [Chains -> Recoveries]
      /\ recovery'[ParentChain].mode \in {"NONE", "REBALANCE_DEPOSIT"}
  <2>1. PICK r \in {NoRecovery, RebalanceDepositRecovery(nonce, amount)} :
          recovery' = [recovery EXCEPT ![c] = r]
    BY DEF ActivateAndDeposit
  <2>2. r \in Recoveries /\ r.mode \in {"NONE", "REBALANCE_DEPOSIT"}
    BY NoRecoveryType, RebalanceDepositRecoveryType
  <2>3. QED
    BY <2>1, <2>2 DEF BaseVaultTypeOK, Chains
<1>5. logs' \subseteq Logs
  <2>1. logs \subseteq Logs
    BY DEF BaseVaultTypeOK
  <2>2. RebalanceDepositLog(c, nonce, amount) \subseteq Logs
    BY RebalanceDepositLogType
  <2>3. logs' = logs \/ logs' = logs \union RebalanceDepositLog(c, nonce, amount)
    BY DEF ActivateAndDeposit
  <2>4. QED
    BY <2>1, <2>2, <2>3
<1>6. QED
  BY <1>2, <1>3, <1>4, <1>5 DEF BaseVaultTypeOK

\* Retrying that deposit.
LEMMA RecoverRebalanceDepositTypes ==
    ASSUME BaseVaultTypeOK, NEW c \in Chains, RecoverRebalanceDeposit(c)
    PROVE  BaseVaultTypeOK'
<1>1. recovery[c].nonce \in Nat /\ recovery[c].amount \in Nat
  BY DEF BaseVaultTypeOK, Recoveries
<1>2. position' \in [Strategies -> Nat]
  BY <1>1, ActiveOnType, DepositedType DEF RecoverRebalanceDeposit, BaseVaultTypeOK
<1>3. /\ recovery' \in [Chains -> Recoveries]
      /\ recovery'[ParentChain].mode \in {"NONE", "REBALANCE_DEPOSIT"}
  BY NoRecoveryType DEF RecoverRebalanceDeposit, BaseVaultTypeOK, Chains
<1>4. logs' \subseteq Logs
  <2>1. RebalanceDepositLog(c, recovery[c].nonce, recovery[c].amount) \subseteq Logs
    BY <1>1, RebalanceDepositLogType
  <2>2. QED
    BY <2>1 DEF RecoverRebalanceDeposit, BaseVaultTypeOK
<1>5. QED
  BY <1>2, <1>3, <1>4 DEF RecoverRebalanceDeposit, BaseVaultTypeOK

\* What CCIP delivers of a message is a natural number.
LEMMA DeliveryType ==
    ASSUME BaseVaultTypeOK, NEW m \in ccip, NEW d \in Deliveries(m)
    PROVE  /\ m \in Messages /\ m.nonce \in Nat /\ d \in Nat
           /\ ccip \ {m} \subseteq Messages
BY DEF BaseVaultTypeOK, Messages, Deliveries

\* The parent receives a net withdrawal.
LEMMA ReceiveEpochNetWithdrawTypes ==
    ASSUME TypeInv, NEW m \in ccip, NEW d \in Deliveries(m), ReceiveEpochNetWithdraw(m, d)
    PROVE  BaseVaultTypeOK' /\ ParentVaultTypeOK' /\ ExecutingMintCounted'
<1>1. BaseVaultTypeOK /\ previousEpoch \in Epochs
  BY Zenon DEF TypeInv, TypeOK, ParentVaultTypeOK
<1>2. d \in Nat /\ ccip \ {m} \subseteq Messages
  BY <1>1, DeliveryType
<1>3. previousEpoch' \in Epochs /\ previousEpoch'.status = "CLAIMABLE"
  <2>1. previousEpoch' = [previousEpoch EXCEPT !.status = "CLAIMABLE",
                                               !.withdrawClaim = previousEpoch.deposit + d]
    BY DEF ReceiveEpochNetWithdraw
  <2>2. previousEpoch.deposit + d \in Nat
    BY <1>1, <1>2 DEF Epochs
  <2>3. QED
    BY <1>1, <2>1, <2>2 DEF Epochs, EpochStatus
<1>4. UNCHANGED <<epochNonce, epochAged, totalShares, rebalance, rebalanceAged>>
  BY DEF ReceiveEpochNetWithdraw
<1>5. ParentVaultTypeOK'
  BY <1>3, <1>4, Zenon DEF TypeInv, TypeOK, ParentVaultTypeOK
<1>6. BaseVaultTypeOK'
  BY <1>1, <1>2 DEF ReceiveEpochNetWithdraw, BaseVaultTypeOK
<1>7. QED
  BY <1>3, <1>5, <1>6 DEF ExecutingMintCounted

\* The parent receives rebalanced funds.
LEMMA ReceiveRebalanceOnParentTypes ==
    ASSUME TypeInv, NEW m \in ccip, NEW d \in Deliveries(m), ReceiveRebalanceOnParent(m, d)
    PROVE  BaseVaultTypeOK' /\ ParentVaultTypeOK' /\ ExecutingMintCounted'
<1>1. BaseVaultTypeOK /\ position \in [Strategies -> Nat] /\ ParentChain \in Chains
  BY DEF TypeInv, TypeOK, BaseVaultTypeOK, Chains
<1>2. d \in Nat /\ m.nonce \in Nat /\ ccip' \subseteq Messages /\ paused' = paused
  BY <1>1, DeliveryType DEF ReceiveRebalanceOnParent
<1>3. PICK success \in BOOLEAN :
        ActivateAndDeposit(ParentChain, m.nonce, m.protocolId, d, position, success)
  BY DEF ReceiveRebalanceOnParent
<1>4. m.protocolId \in Protocols
  BY <1>3, Zenon DEF ActivateAndDeposit
<1>5. BaseVaultTypeOK'
  BY <1>1, <1>2, <1>3, ActivateAndDepositTypes
<1>6. Strategy(m.protocolId, ParentChain) \in Targets
  BY <1>1, <1>4, StrategyType, TargetType
<1>7. \/ FinalizeRebalance(Strategy(m.protocolId, ParentChain))
      \/ UNCHANGED parentVars
  BY DEF ReceiveRebalanceOnParent
<1>8. QED
  BY <1>5, <1>6, <1>7, FinalizeRebalanceTypes, ParentTypesUnchanged

\* The parent's executeRecovery.
LEMMA ParentRecoversTypes ==
    ASSUME TypeInv, ExecuteRecoveryOnParent
    PROVE  BaseVaultTypeOK' /\ ParentVaultTypeOK' /\ ExecutingMintCounted'
<1>1. rebalance.pendingStrategy \in Targets
  BY DEF TypeInv, TypeOK, ParentVaultTypeOK, Rebalances
<1>2. BaseVaultTypeOK /\ ParentChain \in Chains
  BY DEF TypeInv, TypeOK, Chains
<1>3. QED
  BY <1>1, <1>2, FinalizeRebalanceTypes, RecoverRebalanceDepositTypes
     DEF ExecuteRecoveryOnParent

\* The admin's first strategy.
LEMMA SetInitialTypes ==
    ASSUME TypeInv, NEW p \in Protocols, SetInitialActiveProtocolAdapter(p)
    PROVE  BaseVaultTypeOK' /\ ParentVaultTypeOK' /\ ExecutingMintCounted'
<1>1. BaseVaultTypeOK /\ rebalance \in Rebalances /\ ParentChain \in Chains
  BY Zenon DEF TypeInv, TypeOK, ParentVaultTypeOK, Chains
<1>2. Strategy(p, ParentChain) \in Targets
  BY <1>1, StrategyType, TargetType
<1>3. rebalance' \in Rebalances
  BY <1>1, <1>2 DEF SetInitialActiveProtocolAdapter, Rebalances
<1>4. activeAdapter' \in [Chains -> Protocols \union {NoProtocol}]
  BY <1>1 DEF SetInitialActiveProtocolAdapter, BaseVaultTypeOK
<1>5. BaseVaultTypeOK'
  BY <1>1, <1>4 DEF SetInitialActiveProtocolAdapter, BaseVaultTypeOK
<1>6. UNCHANGED <<epochNonce, epochAged, previousEpoch, totalShares, rebalanceAged>>
  BY DEF SetInitialActiveProtocolAdapter
<1>7. ParentVaultTypeOK' /\ ExecutingMintCounted'
  BY <1>3, <1>6, Zenon DEF TypeInv, TypeOK, ParentVaultTypeOK, ExecutingMintCounted
<1>8. QED
  BY <1>5, <1>7

\* The two one-hour periods elapse.
LEMMA TimePassesTypes ==
    ASSUME TypeInv, EpochAges \/ RebalanceAges
    PROVE  BaseVaultTypeOK' /\ ParentVaultTypeOK' /\ ExecutingMintCounted'
<1>1. BaseVaultTypeOK'
  BY BaseTypesUnchanged, Zenon DEF EpochAges, RebalanceAges
<1>2. ParentVaultTypeOK' /\ ExecutingMintCounted'
  BY Zenon DEF EpochAges, RebalanceAges, TypeInv, TypeOK, ParentVaultTypeOK,
               ExecutingMintCounted
<1>3. QED
  BY <1>1, <1>2

\* Pause and unpause.
LEMMA PauserTypes ==
    ASSUME BaseVaultTypeOK, NEW c \in Chains, Pause(c) \/ Unpause(c)
    PROVE  BaseVaultTypeOK'
BY DEF Pause, Unpause, BaseVaultTypeOK

----------------------------------------------------------------------------
(* The ChildVaults' operations. *)

\* A recovery mode other than those of the parent is stored on child chains only.
LEMMA ChildRecoveryTypes ==
    ASSUME BaseVaultTypeOK, NEW c \in ChildChains, NEW r \in Recoveries,
           recovery' = [recovery EXCEPT ![c] = r]
    PROVE  /\ recovery' \in [Chains -> Recoveries]
           /\ recovery'[ParentChain].mode \in {"NONE", "REBALANCE_DEPOSIT"}
BY ChainAssumption DEF BaseVaultTypeOK, Chains

\* A mark raised to the nonce of a report or message.
LEMMA HandleNonceTypes ==
    ASSUME ChildVaultTypeOK, NEW c \in ChildChains, NEW nonce \in Nat,
           HandleEpochNonce(c, nonce) \/ HandleRebalanceNonce(c, nonce)
    PROVE  ChildVaultTypeOK'
BY DEF ChildVaultTypeOK, HandleEpochNonce, HandleRebalanceNonce

\* A send that succeeds, or is stored for a retry.
LEMMA CcipSendTypes ==
    ASSUME BaseVaultTypeOK, NEW c \in ChildChains, NEW tx \in CcipTx, NEW destination,
           NEW nonce \in Nat, NEW p \in Protocols \union {NoProtocol}, NEW amount \in Nat,
           CcipSend(c, tx, destination, nonce, p, amount)
    PROVE  /\ recovery' \in [Chains -> Recoveries]
           /\ recovery'[ParentChain].mode \in {"NONE", "REBALANCE_DEPOSIT"}
           /\ ccip' \subseteq Messages
<1> DEFINE r == CcipSendRecovery(tx, destination, nonce, p, amount)
           m == Message(tx, c, destination, nonce, p, amount)
<1>1. destination \in Chains /\ c \in Chains
  BY DEF CcipSend, ValidateCcipSend, Chains
<1>2. m \in Messages
  BY <1>1, MessageType
<1>3. r \in Recoveries
  BY <1>1, TargetType DEF CcipSendRecovery, Recoveries, RecoveryMode
<1>4. ccip' = ccip \/ ccip' = ccip \union {m}
  BY DEF CcipSend
<1>5. ccip' \subseteq Messages
  BY <1>2, <1>4 DEF BaseVaultTypeOK
<1>6. \/ recovery' = [recovery EXCEPT ![c] = NoRecovery]
      \/ recovery' = [recovery EXCEPT ![c] = r]
  BY DEF CcipSend
<1> HIDE DEF r
<1>7. QED
  BY <1>3, <1>5, <1>6, NoRecoveryType, ChildRecoveryTypes

\* A child receives a net deposit.
LEMMA ReceiveEpochNetDepositTypes ==
    ASSUME BaseVaultTypeOK, ChildVaultTypeOK, NEW c \in ChildChains, NEW m \in ccip,
           NEW d \in Deliveries(m), ReceiveEpochNetDeposit(c, m, d)
    PROVE  BaseVaultTypeOK' /\ ChildVaultTypeOK'
<1>1. c \in Chains /\ d \in Nat /\ m.nonce \in Nat /\ ccip' \subseteq Messages
  BY DeliveryType DEF Chains, ReceiveEpochNetDeposit
<1>2. ChildVaultTypeOK'
  BY <1>1, HandleNonceTypes DEF ReceiveEpochNetDeposit
<1>3. HasAdapter(c) /\ ActiveOn(c) \in Strategies
  BY <1>1, ActiveOnType DEF ReceiveEpochNetDeposit, EpochDepositReceivable
<1>4. position' \in [Strategies -> Nat]
  BY <1>1, <1>3, DepositedType DEF ReceiveEpochNetDeposit, BaseVaultTypeOK
<1>5. EpochDepositLog(c, m.nonce, d) \in Logs
  BY <1>1, TargetType DEF EpochDepositLog, Logs, LogEvents
<1>6. logs' \subseteq Logs
  BY <1>5 DEF ReceiveEpochNetDeposit, BaseVaultTypeOK
<1>7. EpochDepositRecovery(m.nonce, d) \in Recoveries
  BY <1>1, TargetType DEF EpochDepositRecovery, NoRecovery, Recoveries, RecoveryMode
<1>8. /\ recovery' \in [Chains -> Recoveries]
      /\ recovery'[ParentChain].mode \in {"NONE", "REBALANCE_DEPOSIT"}
  <2>1. \/ recovery' = recovery
        \/ recovery' = [recovery EXCEPT ![c] = EpochDepositRecovery(m.nonce, d)]
    BY DEF ReceiveEpochNetDeposit
  <2>2. QED
    BY <1>7, <2>1, ChildRecoveryTypes DEF BaseVaultTypeOK
<1>9. BaseVaultTypeOK'
  BY <1>1, <1>4, <1>6, <1>8 DEF ReceiveEpochNetDeposit, BaseVaultTypeOK
<1>10. QED
  BY <1>2, <1>9

\* A child receives rebalanced funds.
LEMMA ReceiveRebalanceOnChildTypes ==
    ASSUME BaseVaultTypeOK, ChildVaultTypeOK, NEW c \in ChildChains, NEW m \in ccip,
           NEW d \in Deliveries(m), ReceiveRebalanceOnChild(c, m, d)
    PROVE  BaseVaultTypeOK' /\ ChildVaultTypeOK'
<1>1. c \in Chains /\ d \in Nat /\ m.nonce \in Nat /\ ccip' \subseteq Messages
  BY DeliveryType DEF Chains, ReceiveRebalanceOnChild
<1>2. PICK success \in BOOLEAN :
        ActivateAndDeposit(c, m.nonce, m.protocolId, d, position, success)
  BY DEF ReceiveRebalanceOnChild
<1>3. position \in [Strategies -> Nat] /\ paused' = paused
  BY DEF BaseVaultTypeOK, ReceiveRebalanceOnChild
<1>4. BaseVaultTypeOK'
  BY <1>1, <1>2, <1>3, ActivateAndDepositTypes
<1>5. ChildVaultTypeOK'
  BY <1>1, HandleNonceTypes DEF ReceiveRebalanceOnChild
<1>6. QED
  BY <1>4, <1>5

\* A child withdraws and sends home.
LEMMA WithdrawAndSendTypes ==
    ASSUME BaseVaultTypeOK, NEW c \in ChildChains, NEW nonce \in Nat, NEW amount \in Nat,
           WithdrawAndSend(c, nonce, amount), UNCHANGED <<paused, activeAdapter, logs>>
    PROVE  BaseVaultTypeOK'
<1>1. c \in Chains
  BY DEF Chains
<1>2. position' \in [Strategies -> Nat]
  BY <1>1, WithdrawnType DEF WithdrawAndSend
<1>3. /\ recovery' \in [Chains -> Recoveries]
      /\ recovery'[ParentChain].mode \in {"NONE", "REBALANCE_DEPOSIT"}
      /\ ccip' \subseteq Messages
  BY CcipSendTypes DEF WithdrawAndSend, CcipTx
<1>4. QED
  BY <1>2, <1>3 DEF BaseVaultTypeOK

\* A child's executeEpochWithdraw.
LEMMA ExecuteEpochWithdrawTypes ==
    ASSUME BaseVaultTypeOK, ChildVaultTypeOK, NEW c \in ChildChains, NEW nonce \in Nat,
           NEW amount \in Nat, ExecuteEpochWithdraw(c, nonce, amount)
    PROVE  BaseVaultTypeOK' /\ ChildVaultTypeOK'
<1>1. ChildVaultTypeOK'
  BY HandleNonceTypes DEF ExecuteEpochWithdraw
<1>2. UNCHANGED <<paused, activeAdapter, logs>>
  BY DEF ExecuteEpochWithdraw
<1>3. CASE WithdrawAndSend(c, nonce, amount)
  BY <1>1, <1>2, <1>3, WithdrawAndSendTypes
<1>4. CASE /\ recovery' = [recovery EXCEPT ![c] = EpochWithdrawRecovery(nonce, amount)]
           /\ UNCHANGED <<position, ccip>>
  <2>1. EpochWithdrawRecovery(nonce, amount) \in Recoveries
    BY TargetType DEF EpochWithdrawRecovery, NoRecovery, Recoveries, RecoveryMode
  <2>2. /\ recovery' \in [Chains -> Recoveries]
        /\ recovery'[ParentChain].mode \in {"NONE", "REBALANCE_DEPOSIT"}
    BY <1>4, <2>1, ChildRecoveryTypes
  <2>3. QED
    BY <1>1, <1>2, <1>4, <2>2 DEF BaseVaultTypeOK
<1>5. QED
  BY <1>3, <1>4 DEF ExecuteEpochWithdraw

\* A child withdraws everything and moves it.
LEMMA WithdrawAllAndMoveTypes ==
    ASSUME BaseVaultTypeOK, NEW c \in ChildChains, NEW nonce \in Nat, NEW s \in Targets,
           WithdrawAllAndMove(c, nonce, s), paused' = paused
    PROVE  BaseVaultTypeOK'
<1> DEFINE amount == position[ActiveOn(c)]
<1>1. c \in Chains /\ CanWithdraw(c, amount)
  BY DEF Chains, WithdrawAllAndMove
<1>2. amount \in Nat
  BY <1>1, ActiveOnType DEF CanWithdraw, BaseVaultTypeOK
<1>3. Withdrawn(c, amount) \in [Strategies -> Nat]
  BY <1>1, <1>2, WithdrawnType
<1>4. \/ MoveWithinChain(c, nonce, amount, s)
      \/ MoveToOtherChain(c, nonce, amount, s)
  BY DEF WithdrawAllAndMove
<1> HIDE DEF amount
<1>5. CASE MoveWithinChain(c, nonce, amount, s)
  <2>1. PICK success \in BOOLEAN :
          ActivateAndDeposit(c, nonce, s.protocolId, amount, Withdrawn(c, amount), success)
    BY <1>5 DEF MoveWithinChain
  <2>2. ccip' \subseteq Messages
    BY <1>5 DEF MoveWithinChain, BaseVaultTypeOK
  <2>3. QED
    BY <1>1, <1>2, <1>3, <2>1, <2>2, ActivateAndDepositTypes
<1>6. CASE MoveToOtherChain(c, nonce, amount, s)
  <2>1. s.protocolId \in Protocols \union {NoProtocol}
    BY DEF Targets
  <2>2. /\ recovery' \in [Chains -> Recoveries]
        /\ recovery'[ParentChain].mode \in {"NONE", "REBALANCE_DEPOSIT"}
        /\ ccip' \subseteq Messages
    BY <1>2, <1>6, <2>1, CcipSendTypes DEF MoveToOtherChain, CcipTx
  <2>3. activeAdapter' \in [Chains -> Protocols \union {NoProtocol}]
    BY <1>1, <1>6 DEF MoveToOtherChain, BaseVaultTypeOK
  <2>4. QED
    BY <1>3, <1>6, <2>2, <2>3 DEF MoveToOtherChain, BaseVaultTypeOK
<1>7. QED
  BY <1>4, <1>5, <1>6

\* A child's executeRebalance.
LEMMA ExecuteRebalanceTypes ==
    ASSUME BaseVaultTypeOK, ChildVaultTypeOK, NEW c \in ChildChains, NEW nonce \in Nat,
           NEW s \in Targets, ExecuteRebalance(c, nonce, s)
    PROVE  BaseVaultTypeOK' /\ ChildVaultTypeOK'
<1>1. ChildVaultTypeOK' /\ paused' = paused
  BY HandleNonceTypes DEF ExecuteRebalance
<1>2. CASE WithdrawAllAndMove(c, nonce, s)
  BY <1>1, <1>2, WithdrawAllAndMoveTypes
<1>3. CASE /\ recovery' = [recovery EXCEPT ![c] = RebalanceWithdrawRecovery(nonce, s)]
           /\ UNCHANGED <<activeAdapter, position, ccip, logs>>
  <2>1. RebalanceWithdrawRecovery(nonce, s) \in Recoveries
    BY DEF RebalanceWithdrawRecovery, NoRecovery, Recoveries, RecoveryMode
  <2>2. /\ recovery' \in [Chains -> Recoveries]
        /\ recovery'[ParentChain].mode \in {"NONE", "REBALANCE_DEPOSIT"}
    BY <1>3, <2>1, ChildRecoveryTypes
  <2>3. QED
    BY <1>1, <1>3, <2>2 DEF BaseVaultTypeOK
<1>4. QED
  BY <1>2, <1>3 DEF ExecuteRebalance

\* The five modes of a child's executeRecovery.
LEMMA ChildRecoversTypes ==
    ASSUME BaseVaultTypeOK, NEW c \in ChildChains, ExecuteRecoveryOnChild(c)
    PROVE  BaseVaultTypeOK'
<1> DEFINE r == recovery[c]
<1>1. /\ c \in Chains /\ r.nonce \in Nat /\ r.amount \in Nat /\ r.target \in Targets
      /\ r.mode = "CCIP_SEND" => r.ccipTx \in CcipTx
  BY DEF Chains, BaseVaultTypeOK, Recoveries
<1>2. CASE RecoverRebalanceDeposit(c)
  BY <1>1, <1>2, RecoverRebalanceDepositTypes
<1>3. CASE RecoverEpochDeposit(c)
  <2>1. position' \in [Strategies -> Nat]
    BY <1>1, <1>3, ActiveOnType, DepositedType DEF RecoverEpochDeposit, BaseVaultTypeOK
  <2>2. EpochDepositLog(c, r.nonce, r.amount) \in Logs
    BY <1>1, TargetType DEF EpochDepositLog, Logs, LogEvents
  <2>3. /\ recovery' \in [Chains -> Recoveries]
        /\ recovery'[ParentChain].mode \in {"NONE", "REBALANCE_DEPOSIT"}
    BY <1>3, NoRecoveryType, ChildRecoveryTypes DEF RecoverEpochDeposit
  <2>4. QED
    BY <1>3, <2>1, <2>2, <2>3 DEF RecoverEpochDeposit, BaseVaultTypeOK
<1>4. CASE RecoverEpochWithdraw(c)
  BY <1>1, <1>4, WithdrawAndSendTypes DEF RecoverEpochWithdraw
<1>5. CASE RecoverRebalanceWithdraw(c)
  BY <1>1, <1>5, WithdrawAllAndMoveTypes DEF RecoverRebalanceWithdraw
<1>6. CASE RecoverCcipSend(c)
  <2> DEFINE m == Message(r.ccipTx, c, r.target.chainSelector, r.nonce,
                          r.target.protocolId, r.amount)
  <2>1. r.target.chainSelector \in Chains /\ r.target.protocolId \in Protocols \union {NoProtocol}
    BY <1>1, <1>6 DEF RecoverCcipSend, ValidateCcipSend, Targets
  <2>2. r.ccipTx \in CcipTx
    BY <1>1, <1>6 DEF RecoverCcipSend
  <2>3. m \in Messages
    BY <1>1, <2>1, <2>2, MessageType
  <2>4. ccip' \subseteq Messages
    BY <1>6, <2>3 DEF RecoverCcipSend, BaseVaultTypeOK
  <2>5. /\ recovery' \in [Chains -> Recoveries]
        /\ recovery'[ParentChain].mode \in {"NONE", "REBALANCE_DEPOSIT"}
    BY <1>6, NoRecoveryType, ChildRecoveryTypes DEF RecoverCcipSend
  <2>6. QED
    BY <1>6, <2>4, <2>5 DEF RecoverCcipSend, BaseVaultTypeOK
<1>7. QED
  BY <1>2, <1>3, <1>4, <1>5, <1>6 DEF ExecuteRecoveryOnChild

----------------------------------------------------------------------------
(* The workflow's handlers. *)

\* The first reading of the epoch cron.
LEMMA EpochCronReadsParentTypes ==
    ASSUME TypeInv, EpochCronReadsParent
    PROVE  CreWorkflowTypeOK'
<1>1. /\ BaseVaultTypeOK /\ reports \subseteq Reports /\ ParentChain \in Chains
      /\ epochNonce \in Nat /\ totalShares \in Nat
  BY Zenon DEF TypeInv, TypeOK, ParentVaultTypeOK, CreWorkflowTypeOK, Chains
<1>2. GetTVL(ParentChain) \in Nat
  BY <1>1, GetTVLType
<1>3. ActiveChain \in Chains
  BY DEF EpochCronReadsParent, EpochCronReady
<1>4. closeSnapshot' \in Snapshots \union {NoSnapshot}
  BY <1>1, <1>2, <1>3 DEF EpochCronReadsParent, Snapshots
<1>5. QED
  BY <1>1, <1>4 DEF EpochCronReadsParent, CreWorkflowTypeOK

\* The second reading, and the report it signs.
LEMMA EpochCronReadsChildrenTypes ==
    ASSUME TypeInv, EpochCronReadsChildren
    PROVE  CreWorkflowTypeOK'
<1>1. /\ BaseVaultTypeOK /\ reports \subseteq Reports /\ ParentChain \in Chains
      /\ closeSnapshot \in Snapshots \union {NoSnapshot}
  BY Zenon DEF TypeInv, TypeOK, CreWorkflowTypeOK, Chains
<1>2. closeSnapshot' \in Snapshots \union {NoSnapshot}
  BY DEF EpochCronReadsChildren
<1>3. closeSnapshot \in Snapshots
  BY <1>1 DEF EpochCronReadsChildren
<1>4. SnapshotTVL \in Nat
  BY <1>1, <1>3, GetTVLType DEF SnapshotTVL, Snapshots
<1>5. Report("closeEpoch", ParentChain, closeSnapshot.nonce, SnapshotTVL, NoStrategy) \in Reports
  BY <1>1, <1>3, <1>4, ReportType, TargetType DEF ReportCalls, Snapshots
<1>6. reports' \subseteq Reports
  BY <1>1, <1>5 DEF EpochCronReadsChildren
<1>7. QED
  BY <1>2, <1>6 DEF CreWorkflowTypeOK

\* The rebalance cron.
LEMMA RebalanceCronTypes ==
    ASSUME TypeInv, NEW s \in Strategies, RebalanceCron(s)
    PROVE  CreWorkflowTypeOK'
<1>1. /\ reports \subseteq Reports /\ closeSnapshot \in Snapshots \union {NoSnapshot} /\ ParentChain \in Chains
      /\ rebalance \in Rebalances
  BY Zenon DEF TypeInv, TypeOK, ParentVaultTypeOK, CreWorkflowTypeOK, Chains
<1>2. Report("initiateRebalance", ParentChain, rebalance.nonce, 0, s) \in Reports
  BY <1>1, ReportType, TargetType DEF ReportCalls, Rebalances
<1>3. QED
  BY <1>1, <1>2 DEF RebalanceCron, CreWorkflowTypeOK

\* The four log handlers.
LEMMA HandleLogTypes ==
    ASSUME TypeInv, NEW l \in logs, HandleLog(l)
    PROVE  CreWorkflowTypeOK' /\ BaseVaultTypeOK'
<1>1. /\ BaseVaultTypeOK /\ reports \subseteq Reports /\ closeSnapshot \in Snapshots \union {NoSnapshot}
      /\ ParentChain \in Chains /\ ChildChains \subseteq Chains
      /\ l \in Logs
  BY Zenon DEF TypeInv, TypeOK, BaseVaultTypeOK, CreWorkflowTypeOK, Chains
<1>2. l.nonce \in Nat /\ l.amount \in Nat /\ l.strategy \in Targets
  BY <1>1 DEF Logs
<1>3. Continuation(l) \subseteq Reports
  <2>1. OnRebalanceInitiated(l) =>
          Report("executeRebalance", ActiveChain, l.nonce, 0, l.strategy) \in Reports
    BY <1>1, <1>2, ReportType DEF OnRebalanceInitiated, ReportCalls
  <2>2. OnEpochWithdrawExecuting(l) =>
          Report("executeEpochWithdraw", ActiveChain, l.nonce, l.amount, NoStrategy) \in Reports
    BY <1>1, <1>2, ReportType, TargetType DEF OnEpochWithdrawExecuting, ReportCalls
  <2>3. Report("completeRebalance", ParentChain, l.nonce, 0, NoStrategy) \in Reports
    BY <1>1, <1>2, ReportType, TargetType DEF ReportCalls
  <2>4. Report("completeEpochDeposit", ParentChain, l.nonce, l.amount, NoStrategy) \in Reports
    BY <1>1, <1>2, ReportType, TargetType DEF ReportCalls
  <2>5. QED
    BY <2>1, <2>2, <2>3, <2>4 DEF Continuation
<1>4. reports' \subseteq Reports /\ closeSnapshot' = closeSnapshot
  BY <1>1, <1>3 DEF HandleLog
<1>5. logs' \subseteq Logs
  BY <1>1 DEF HandleLog, BaseVaultTypeOK
<1>6. QED
  BY <1>1, <1>4, <1>5 DEF HandleLog, BaseVaultTypeOK, CreWorkflowTypeOK

----------------------------------------------------------------------------
(* Every step of the deployment. *)

\* A report reaches its vault.
LEMMA ForwardReportTypes ==
    ASSUME TypeInv, NEW r \in reports, ForwardToParent(r) \/ ForwardToChild(r)
    PROVE  TypeInv'
<1>1. /\ BaseVaultTypeOK /\ ParentVaultTypeOK /\ ChildVaultTypeOK
      /\ reports \subseteq Reports /\ closeSnapshot \in Snapshots \union {NoSnapshot}
  BY DEF TypeInv, TypeOK, CreWorkflowTypeOK
<1>2. r.nonce \in Nat /\ r.amount \in Nat /\ r.strategy \in Targets
  BY <1>1 DEF Reports
<1>3. UseUp(r) /\ closeSnapshot' = closeSnapshot
  BY DEF ForwardToParent, ForwardToChild
<1>4. CreWorkflowTypeOK'
  BY <1>1, <1>3 DEF UseUp, CreWorkflowTypeOK
<1>5. CASE ForwardToParent(r)
  <2>1. ChildVaultTypeOK'
    BY <1>1, <1>5, Zenon DEF ForwardToParent, ChildVaultTypeOK, childVars
  <2>2. BaseVaultTypeOK' /\ ParentVaultTypeOK' /\ ExecutingMintCounted'
    <3>1. CASE CloseEpoch(r.nonce, r.amount)
      BY <1>2, <3>1, CloseEpochTypes
    <3>2. CASE CompleteEpochDeposit(r.nonce, r.amount)
      BY <1>2, <3>2, CompleteEpochDepositTypes
    <3>3. CASE InitiateRebalance(r.nonce, r.strategy)
      BY <1>2, <3>3, InitiateRebalanceTypes
    <3>4. CASE CompleteRebalance(r.nonce)
      <4>1. rebalance.pendingStrategy \in Targets
        BY <1>1 DEF ParentVaultTypeOK, Rebalances
      <4>2. QED
        BY <3>4, <4>1, FinalizeRebalanceTypes, BaseTypesUnchanged DEF CompleteRebalance
    <3>5. QED
      BY <1>5, <3>1, <3>2, <3>3, <3>4 DEF ForwardToParent
  <2>3. QED
    BY <1>4, <2>1, <2>2 DEF TypeInv, TypeOK
<1>6. CASE ForwardToChild(r)
  <2>1. UNCHANGED parentVars /\ r.target \in ChildChains
    BY <1>6 DEF ForwardToChild
  <2>2. BaseVaultTypeOK' /\ ChildVaultTypeOK'
    BY <1>1, <1>2, <1>6, <2>1, ExecuteEpochWithdrawTypes, ExecuteRebalanceTypes
       DEF ForwardToChild
  <2>3. QED
    BY <1>4, <2>1, <2>2, ParentTypesUnchanged DEF TypeInv, TypeOK
<1>7. QED
  BY <1>5, <1>6

\* A message reaches its vault.
LEMMA DeliverMessageTypes ==
    ASSUME TypeInv, NEW m \in ccip, DeliverToParent(m) \/ DeliverToChild(m)
    PROVE  TypeInv'
<1>1. BaseVaultTypeOK /\ ParentVaultTypeOK /\ ChildVaultTypeOK
  BY DEF TypeInv, TypeOK
<1>2. CreWorkflowTypeOK'
  BY Zenon DEF DeliverToParent, DeliverToChild, TypeInv, TypeOK, CreWorkflowTypeOK, creVars
<1>3. CASE DeliverToParent(m)
  <2>1. BaseVaultTypeOK' /\ ParentVaultTypeOK' /\ ExecutingMintCounted'
    BY <1>3, ReceiveEpochNetWithdrawTypes, ReceiveRebalanceOnParentTypes DEF DeliverToParent
  <2>2. ChildVaultTypeOK'
    BY <1>1, <1>3, Zenon DEF DeliverToParent, ChildVaultTypeOK, childVars
  <2>3. QED
    BY <1>2, <2>1, <2>2 DEF TypeInv, TypeOK
<1>4. CASE DeliverToChild(m)
  <2>1. BaseVaultTypeOK' /\ ChildVaultTypeOK'
    BY <1>1, <1>4, ReceiveEpochNetDepositTypes, ReceiveRebalanceOnChildTypes
       DEF DeliverToChild
  <2>2. UNCHANGED parentVars
    BY <1>4 DEF DeliverToChild
  <2>3. QED
    BY <1>2, <2>1, <2>2, ParentTypesUnchanged DEF TypeInv, TypeOK
<1>5. QED
  BY <1>3, <1>4

\* Each step of the deployment keeps the types, one case per actor.
LEMMA NextTypeInv == TypeInv /\ [Next]_vars => TypeInv'
<1> SUFFICES ASSUME TypeInv, [Next]_vars PROVE TypeInv'
  OBVIOUS
<1>1. BaseVaultTypeOK /\ ParentVaultTypeOK /\ ChildVaultTypeOK /\ CreWorkflowTypeOK
  BY DEF TypeInv, TypeOK
<1>2. ASSUME UNCHANGED childVars PROVE ChildVaultTypeOK'
  BY <1>1, <1>2, Zenon DEF ChildVaultTypeOK, childVars
<1>3. ASSUME UNCHANGED creVars PROVE CreWorkflowTypeOK'
  BY <1>1, <1>3, Zenon DEF CreWorkflowTypeOK, creVars
<1>4. CASE AdminSetsAdapter
  BY <1>2, <1>3, <1>4, SetInitialTypes DEF AdminSetsAdapter, TypeInv, TypeOK
<1>5. CASE TimePasses
  BY <1>2, <1>3, <1>5, TimePassesTypes DEF TimePasses, TypeInv, TypeOK
<1>6. CASE PauserActs
  <2>1. BaseVaultTypeOK'
    BY <1>1, <1>6, PauserTypes, LossAssumption DEF PauserActs
  <2>2. QED
    BY <1>2, <1>3, <1>6, <2>1, ParentTypesUnchanged DEF PauserActs, TypeInv, TypeOK
<1>7. CASE EpochCronReadsParent
  BY <1>2, <1>7, EpochCronReadsParentTypes, ParentTypesUnchanged, BaseTypesUnchanged
     DEF EpochCronReadsParent, TypeInv, TypeOK
<1>8. CASE EpochCronReadsChildren
  BY <1>2, <1>8, EpochCronReadsChildrenTypes, ParentTypesUnchanged, BaseTypesUnchanged
     DEF EpochCronReadsChildren, TypeInv, TypeOK
<1>9. CASE RebalanceCronRuns
  BY <1>2, <1>9, RebalanceCronTypes, ParentTypesUnchanged, BaseTypesUnchanged
     DEF RebalanceCronRuns, RebalanceCron, TypeInv, TypeOK
<1>10. CASE WorkflowHandlesLog
  BY <1>2, <1>10, HandleLogTypes, ParentTypesUnchanged
     DEF WorkflowHandlesLog, HandleLog, TypeInv, TypeOK
<1>11. CASE ForwardReport
  BY <1>11, ForwardReportTypes DEF ForwardReport
<1>12. CASE DeliverMessage
  BY <1>12, DeliverMessageTypes DEF DeliverMessage
<1>13. CASE ParentRecovers
  BY <1>2, <1>3, <1>13, ParentRecoversTypes DEF ParentRecovers, TypeInv, TypeOK
<1>14. CASE ChildRecovers
  <2>1. BaseVaultTypeOK' /\ UNCHANGED childVars
    BY <1>1, <1>14, ChildRecoversTypes DEF ChildRecovers, ExecuteRecoveryOnChild
  <2>2. QED
    BY <1>2, <1>3, <1>14, <2>1, ParentTypesUnchanged DEF ChildRecovers, TypeInv, TypeOK
<1>15. CASE UNCHANGED vars
  BY <1>2, <1>3, <1>15, ParentTypesUnchanged, BaseTypesUnchanged DEF vars, TypeInv, TypeOK
<1>16. QED
  BY <1>4, <1>5, <1>6, <1>7, <1>8, <1>9, <1>10, <1>11, <1>12, <1>13, <1>14, <1>15
     DEF Next

\* The inductive type invariant holds throughout.
LEMMA TypeInvariance == Spec => []TypeInv
BY InitTypeInv, NextTypeInv, PTL DEF Spec

\* No step of any vault or of the workflow leaves its types: in particular no
\* position, claim or share count is ever driven below zero.
THEOREM TypeCorrect == Spec => []TypeOK
<1>1. TypeInv => TypeOK
  BY DEF TypeInv
<1>2. QED
  BY <1>1, TypeInvariance, PTL

\* A short delivery can always be reconciled: the shares an executing epoch may
\* have to give back are still part of s_totalShares.
THEOREM ReconciliationNeverUnderflows == Spec => []ExecutingMintCounted
<1>1. TypeInv => ExecutingMintCounted
  BY DEF TypeInv
<1>2. QED
  BY <1>1, TypeInvariance, PTL

----------------------------------------------------------------------------
(* Claimable epochs. *)

\* Only the close of the next epoch replaces a claimable previous epoch, and it
\* moves the epoch nonce.
LEMMA NextFreezesSettled ==
    ASSUME TypeInv, [Next]_vars, previousEpoch.status = "CLAIMABLE",
           epochNonce' = epochNonce
    PROVE  previousEpoch' = previousEpoch
<1>1. epochNonce \in Nat
  BY Zenon DEF TypeInv, TypeOK, ParentVaultTypeOK
<1>2. ASSUME NEW r \in reports, ForwardToParent(r)
      PROVE  previousEpoch' = previousEpoch
  <2>1. CASE CloseEpoch(r.nonce, r.amount)
    <3>1. epochNonce' = epochNonce + 1
      BY <2>1 DEF CloseEpoch, SettleNetZero, SettleLocalDeposit, SettleRemoteDeposit,
                  SettleLocalWithdraw, SettleRemoteWithdraw, OpenNextEpoch
    <3>2. QED
      BY <1>1, <3>1
  <2>2. CASE CompleteEpochDeposit(r.nonce, r.amount)
    BY <2>2 DEF CompleteEpochDeposit, CompleteEpochDepositGuard
  <2>3. CASE InitiateRebalance(r.nonce, r.strategy)
    BY <2>3 DEF InitiateRebalance, RebalanceLocalToLocal, RebalanceLocalToRemote,
                RebalanceFromRemote, MarkRebalancing, FinalizeRebalance
  <2>4. CASE CompleteRebalance(r.nonce)
    BY <2>4 DEF CompleteRebalance, FinalizeRebalance
  <2>5. QED
    BY <1>2, <2>1, <2>2, <2>3, <2>4 DEF ForwardToParent
<1>3. ASSUME NEW m \in ccip, DeliverToParent(m)
      PROVE  previousEpoch' = previousEpoch
  BY <1>3 DEF DeliverToParent, ReceiveEpochNetWithdraw, NetWithdrawReceivable,
              ReceiveRebalanceOnParent, FinalizeRebalance, parentVars
<1>4. CASE UNCHANGED parentVars
  BY <1>4 DEF parentVars
<1>5. CASE AdminSetsAdapter \/ TimePasses \/ ParentRecovers
  BY <1>5 DEF AdminSetsAdapter, SetInitialActiveProtocolAdapter, TimePasses, EpochAges,
              RebalanceAges, ParentRecovers, ExecuteRecoveryOnParent, FinalizeRebalance
<1>6. CASE ForwardReport
  BY <1>2, <1>4, <1>6 DEF ForwardReport, ForwardToChild
<1>7. CASE DeliverMessage
  BY <1>3, <1>4, <1>7 DEF DeliverMessage, DeliverToChild
<1>8. CASE \/ PauserActs \/ EpochCronReadsParent \/ EpochCronReadsChildren
           \/ RebalanceCronRuns \/ WorkflowHandlesLog \/ ChildRecovers \/ UNCHANGED vars
  BY <1>4, <1>8 DEF PauserActs, EpochCronReadsParent, EpochCronReadsChildren,
                    RebalanceCronRuns, RebalanceCron, WorkflowHandlesLog, HandleLog,
                    ChildRecovers, vars
<1>9. QED
  BY <1>5, <1>6, <1>7, <1>8 DEF Next

\* The claim pools of a settled epoch are final: no replayed completion, late
\* message, recovery or rebalance reprices them.
THEOREM SettledEpochIsFrozen == Spec => SettledEpochFrozen
<1>1. TypeInv /\ [Next]_vars =>
        [previousEpoch.status = "CLAIMABLE" /\ epochNonce' = epochNonce
           => previousEpoch' = previousEpoch]_vars
  BY NextFreezesSettled
<1>2. QED
  BY <1>1, TypeInvariance, PTL DEF Spec, SettledEpochFrozen

----------------------------------------------------------------------------
(* Strategies and adapters. *)

\* A strategy is a real protocol on a real chain, and is not the empty record.
LEMMA StrategyFacts ==
    ASSUME NEW s \in Strategies
    PROVE  /\ s.protocolId \in Protocols /\ s.protocolId # NoProtocol
           /\ s.chainSelector \in Chains /\ s.chainSelector # NoChain
           /\ s # NoStrategy
           /\ s = Strategy(s.protocolId, s.chainSelector)
BY ChainAssumption DEF Strategies, Strategy, NoStrategy

\* If only the adapter of s is set, then only its chain has one.
LEMMA AdapterFacts ==
    ASSUME NEW s \in Strategies, AdapterOnlyAt(s)
    PROVE  /\ \A c \in Chains : HasAdapter(c) <=> c = s.chainSelector
           /\ ActiveOn(s.chainSelector) = s
BY StrategyFacts DEF AdapterOnlyAt, HasAdapter, ActiveOn

\* The parent is not a child, and every other chain is one.
LEMMA ChainFacts ==
    /\ ParentChain \in Chains /\ ParentChain \notin ChildChains
    /\ \A c \in ChildChains : c \in Chains /\ c # ParentChain
    /\ \A c \in Chains : c \in ChildChains <=> c # ParentChain
    /\ NoChain \notin Chains
BY ChainAssumption DEF Chains

\* The vaults agree that nothing is under way.
LEMMA NoRecoveriesFacts ==
    ASSUME NoRecoveries
    PROVE  \A c \in Chains : RequireNoRecovery(c)
BY DEF NoRecoveries, RequireNoRecovery, NoRecovery

----------------------------------------------------------------------------
(* Steps that leave the phase alone. *)

phaseVars == <<activeAdapter, recovery, ccip, epochNonce, previousEpoch, totalShares,
               rebalance, lastHandledEpochNonce, lastHandledRebalanceNonce>>

\* A step that leaves phaseVars alone leaves every phase alone.
LEMMA PhaseUnchanged ==
    ASSUME Phase, UNCHANGED phaseVars
    PROVE  Phase'
<1> USE DEF phaseVars
<1>1. /\ Calm' = Calm /\ NoAdapters' = NoAdapters
      /\ AdapterOnlyAt(ActiveStrategy)' = AdapterOnlyAt(ActiveStrategy)
      /\ AdapterOnlyAt(PendingStrategy)' = AdapterOnlyAt(PendingStrategy)
  BY DEF Calm, NoRecoveries, NoAdapters, AdapterOnlyAt, ActiveStrategy, PendingStrategy
<1>2. Undeployed' = Undeployed /\ Quiet' = Quiet
  BY <1>1 DEF Undeployed, Quiet, ActiveStrategy
<1>3. ExecutingPhase' = ExecutingPhase
  BY <1>1, ZenonT(40) DEF ExecutingPhase, DepositInFlight, DepositRecovering, DepositDone,
     WithdrawWaiting, WithdrawRecovering, WithdrawUnsent, WithdrawInFlight, InFlight,
     Recovering, HandledEpoch, HeldBy, PreviousNonce, ActiveChain, NoRecoveries
<1>4. RebalancingPhase' = RebalancingPhase
  BY <1>1, ZenonT(40) DEF RebalancingPhase, RebalanceWaiting, RebalanceWithdrawing,
     RebalanceUnsent, RebalanceInFlight, RebalanceDepositing, RebalanceDeposited, InFlight,
     Recovering, TargetUntouched, HandledRebalance, HeldBy, ActiveChain, PendingChain,
     NoRecoveries, PendingStrategy, ActiveStrategy
<1>5. QED
  BY <1>2, <1>3, <1>4, Zenon DEF Phase, ActiveStrategy

----------------------------------------------------------------------------
(* Reading the phase off the state. *)

\* What TypeInv says of the variables the phases read.
LEMMA PhaseTypes ==
    ASSUME TypeInv
    PROVE  /\ epochNonce \in Nat /\ epochNonce # 0 /\ PreviousNonce \in Nat
           /\ rebalance \in Rebalances /\ rebalance.nonce \in Nat
           /\ previousEpoch \in Epochs
           /\ previousEpoch.deposit \in Nat /\ previousEpoch.withdrawClaim \in Nat
           /\ activeAdapter \in [Chains -> Protocols \union {NoProtocol}]
           /\ recovery \in [Chains -> Recoveries]
           /\ position \in [Strategies -> Nat]
           /\ lastHandledEpochNonce \in [ChildChains -> Nat]
           /\ lastHandledRebalanceNonce \in [ChildChains -> Nat]
           /\ \A l \in logs : l.nonce \in Nat
           /\ \A r \in reports : r.nonce \in Nat
<1>1. /\ epochNonce \in Nat \ {0}
      /\ rebalance \in Rebalances /\ previousEpoch \in Epochs
      /\ activeAdapter \in [Chains -> Protocols \union {NoProtocol}]
      /\ recovery \in [Chains -> Recoveries]
      /\ position \in [Strategies -> Nat]
      /\ lastHandledEpochNonce \in [ChildChains -> Nat]
      /\ lastHandledRebalanceNonce \in [ChildChains -> Nat]
      /\ logs \subseteq Logs /\ reports \subseteq Reports
  BY Zenon DEF TypeInv, TypeOK, BaseVaultTypeOK, ParentVaultTypeOK, ChildVaultTypeOK,
               CreWorkflowTypeOK
<1>2. \A l \in logs : l.nonce \in Nat
  BY <1>1 DEF Logs
<1>3. \A r \in reports : r.nonce \in Nat
  BY <1>1 DEF Reports
<1>4. PreviousNonce \in Nat
  BY <1>1 DEF PreviousNonce
<1>5. QED
  BY <1>1, <1>2, <1>3, <1>4 DEF Rebalances, Epochs

\* The parent's record while an epoch executes, and while a rebalance runs.
Executing ==
    /\ ActiveStrategy \in Strategies
    /\ rebalance.state = "NONE"
    /\ previousEpoch.status = "EXECUTING"
    /\ ActiveChain \in ChildChains
    /\ AdapterOnlyAt(ActiveStrategy)

Rebalancing ==
    /\ ActiveStrategy \in Strategies
    /\ rebalance.state = "REBALANCING"
    /\ previousEpoch.status # "EXECUTING"
    /\ PendingStrategy \in Strategies /\ PendingStrategy # ActiveStrategy

DepositPhase == Executing /\ previousEpoch.deposit > previousEpoch.withdrawClaim
WithdrawPhase == Executing /\ previousEpoch.deposit < previousEpoch.withdrawClaim
OutgoingPhase == Rebalancing /\ TargetUntouched
BetweenPhase == OutgoingPhase /\ ActiveChain # PendingChain

\* Every phase, by what is under way in it.
LEMMA PhaseCases ==
    Phase <=>
      \/ Undeployed /\ rebalance.state = "NONE"
      \/ /\ ActiveStrategy \in Strategies /\ rebalance.state = "NONE"
         /\ previousEpoch.status # "EXECUTING" /\ Quiet
      \/ DepositPhase /\ DepositInFlight
      \/ DepositPhase /\ DepositRecovering
      \/ DepositPhase /\ DepositDone
      \/ WithdrawPhase /\ WithdrawWaiting
      \/ WithdrawPhase /\ WithdrawRecovering
      \/ WithdrawPhase /\ WithdrawUnsent
      \/ WithdrawPhase /\ WithdrawInFlight
      \/ OutgoingPhase /\ RebalanceWaiting
      \/ OutgoingPhase /\ RebalanceWithdrawing
      \/ BetweenPhase /\ RebalanceUnsent
      \/ BetweenPhase /\ RebalanceInFlight
      \/ Rebalancing /\ RebalanceDepositing
      \/ Rebalancing /\ RebalanceDeposited
BY Zenon DEF Phase, ExecutingPhase, RebalancingPhase, Executing, Rebalancing, DepositPhase,
       WithdrawPhase, BetweenPhase, OutgoingPhase

\* A message is the only thing under way, and its type tells the phase.
LEMMA InFlightPhase ==
    ASSUME Phase, NEW m \in ccip
    PROVE  /\ ccip = {m} /\ NoRecoveries /\ m.amount # 0
           /\ \/ /\ DepositPhase /\ DepositInFlight
                 /\ m = Message("EPOCH_NET_DEPOSIT", ParentChain, ActiveChain,
                                PreviousNonce, NoProtocol, m.amount)
              \/ /\ WithdrawPhase /\ WithdrawInFlight
                 /\ m = Message("EPOCH_NET_WITHDRAW", ActiveChain, ParentChain,
                                PreviousNonce, NoProtocol, m.amount)
              \/ /\ BetweenPhase /\ RebalanceInFlight
                 /\ m = Message("REBALANCE", ActiveChain, PendingChain, rebalance.nonce,
                                PendingStrategy.protocolId, m.amount)
<1>1. \/ DepositPhase /\ DepositInFlight
      \/ WithdrawPhase /\ WithdrawInFlight
      \/ BetweenPhase /\ RebalanceInFlight
  <2>1. ccip # {}
    OBVIOUS
  <2>2. QED
    BY <2>1, PhaseCases DEF Undeployed, Quiet, Calm, DepositRecovering, DepositDone,
       WithdrawWaiting, WithdrawRecovering, WithdrawUnsent, RebalanceWaiting,
       RebalanceWithdrawing, RebalanceUnsent, RebalanceDepositing, RebalanceDeposited,
       Recovering
<1>2. CASE DepositPhase /\ DepositInFlight
  BY <1>2, Zenon DEF DepositInFlight, InFlight
<1>3. CASE WithdrawPhase /\ WithdrawInFlight
  BY <1>3 DEF WithdrawInFlight, InFlight
<1>4. CASE BetweenPhase /\ RebalanceInFlight
  BY <1>4 DEF RebalanceInFlight, InFlight
<1>5. QED
  BY <1>1, <1>2, <1>3, <1>4

\* A recovery is the only thing under way, and its mode tells the phase.
LEMMA RecoveringPhase ==
    ASSUME Phase, NEW c \in Chains, ~RequireNoRecovery(c)
    PROVE  /\ ccip = {}
           /\ \A d \in Chains : d # c => recovery[d] = NoRecovery
           /\ \/ /\ DepositPhase /\ DepositRecovering /\ c = ActiveChain
                 /\ recovery[c] = EpochDepositRecovery(PreviousNonce, HeldBy(c))
              \/ /\ WithdrawPhase /\ WithdrawRecovering /\ c = ActiveChain
                 /\ recovery[c] = EpochWithdrawRecovery(PreviousNonce, HeldBy(c))
              \/ /\ WithdrawPhase /\ WithdrawUnsent /\ c = ActiveChain
                 /\ recovery[c] = CcipSendRecovery("EPOCH_NET_WITHDRAW", ParentChain,
                                    PreviousNonce, NoProtocol, HeldBy(c))
              \/ /\ OutgoingPhase /\ RebalanceWithdrawing /\ c = ActiveChain
                 /\ recovery[c] = RebalanceWithdrawRecovery(rebalance.nonce, PendingStrategy)
              \/ /\ BetweenPhase /\ RebalanceUnsent /\ c = ActiveChain
                 /\ recovery[c] = CcipSendRecovery("REBALANCE", PendingChain,
                                    rebalance.nonce, PendingStrategy.protocolId, HeldBy(c))
              \/ /\ Rebalancing /\ RebalanceDepositing /\ c = PendingChain
                 /\ recovery[c] = RebalanceDepositRecovery(rebalance.nonce, HeldBy(c))
<1>1. recovery[c] # NoRecovery
  BY DEF RequireNoRecovery, NoRecovery
<1>2. ~NoRecoveries
  BY <1>1 DEF NoRecoveries
<1>3. \/ DepositPhase /\ DepositRecovering
      \/ WithdrawPhase /\ WithdrawRecovering
      \/ WithdrawPhase /\ WithdrawUnsent
      \/ OutgoingPhase /\ RebalanceWithdrawing
      \/ BetweenPhase /\ RebalanceUnsent
      \/ Rebalancing /\ RebalanceDepositing
  BY <1>2, PhaseCases, Zenon DEF Undeployed, Quiet, Calm, DepositInFlight, DepositDone,
     WithdrawWaiting, WithdrawInFlight, RebalanceWaiting, RebalanceInFlight,
     RebalanceDeposited, InFlight
<1>4. ASSUME NEW d, NEW r, Recovering(d, r)
      PROVE  c = d /\ recovery[c] = r /\ ccip = {}
             /\ \A e \in Chains : e # c => recovery[e] = NoRecovery
  BY <1>1, <1>4 DEF Recovering
<1>5. CASE DepositPhase /\ DepositRecovering
  BY <1>4, <1>5, Zenon DEF DepositRecovering
<1>6. CASE WithdrawPhase /\ WithdrawRecovering
  BY <1>4, <1>6, Zenon DEF WithdrawRecovering
<1>7. CASE WithdrawPhase /\ WithdrawUnsent
  BY <1>4, <1>7, Zenon DEF WithdrawUnsent
<1>8. CASE OutgoingPhase /\ RebalanceWithdrawing
  BY <1>4, <1>8, Zenon DEF RebalanceWithdrawing
<1>9. CASE BetweenPhase /\ RebalanceUnsent
  BY <1>4, <1>9, Zenon DEF RebalanceUnsent
<1>10. CASE Rebalancing /\ RebalanceDepositing
  BY <1>4, <1>10, Zenon DEF RebalanceDepositing
<1>11. QED
  BY <1>3, <1>5, <1>6, <1>7, <1>8, <1>9, <1>10

\* The mode and the payload of each kind of recovery.
LEMMA RecoveryFields ==
    /\ \A n, a : /\ EpochDepositRecovery(n, a).mode = "EPOCH_DEPOSIT"
                 /\ EpochDepositRecovery(n, a).nonce = n
    /\ \A n, a : /\ EpochWithdrawRecovery(n, a).mode = "EPOCH_WITHDRAW"
                 /\ EpochWithdrawRecovery(n, a).nonce = n
    /\ \A n, s : /\ RebalanceWithdrawRecovery(n, s).mode = "REBALANCE_WITHDRAW"
                 /\ RebalanceWithdrawRecovery(n, s).nonce = n
                 /\ RebalanceWithdrawRecovery(n, s).target = s
    /\ \A n, a : /\ RebalanceDepositRecovery(n, a).mode = "REBALANCE_DEPOSIT"
                 /\ RebalanceDepositRecovery(n, a).nonce = n
    /\ \A tx, d, n, p, a : /\ CcipSendRecovery(tx, d, n, p, a).mode = "CCIP_SEND"
                           /\ CcipSendRecovery(tx, d, n, p, a).ccipTx = tx
                           /\ CcipSendRecovery(tx, d, n, p, a).nonce = n
                           /\ CcipSendRecovery(tx, d, n, p, a).target = Strategy(p, d)
BY DEF EpochDepositRecovery, EpochWithdrawRecovery, RebalanceWithdrawRecovery,
   RebalanceDepositRecovery, CcipSendRecovery, NoRecovery

\* The same, from the mode.
LEMMA RecoveryByMode ==
    ASSUME Phase, NEW c \in Chains, ~RequireNoRecovery(c)
    PROVE  /\ recovery[c].mode = "EPOCH_DEPOSIT" =>
                /\ DepositPhase /\ DepositRecovering /\ c = ActiveChain
                /\ recovery[c].nonce = PreviousNonce
           /\ recovery[c].mode = "EPOCH_WITHDRAW" =>
                /\ WithdrawPhase /\ WithdrawRecovering /\ c = ActiveChain
                /\ recovery[c].nonce = PreviousNonce
           /\ recovery[c].mode = "REBALANCE_WITHDRAW" =>
                /\ OutgoingPhase /\ RebalanceWithdrawing /\ c = ActiveChain
                /\ recovery[c].nonce = rebalance.nonce
                /\ recovery[c].target = PendingStrategy
           /\ recovery[c].mode = "REBALANCE_DEPOSIT" =>
                /\ Rebalancing /\ RebalanceDepositing /\ c = PendingChain
                /\ recovery[c].nonce = rebalance.nonce
           /\ recovery[c].mode = "CCIP_SEND" =>
                \/ /\ WithdrawPhase /\ WithdrawUnsent /\ c = ActiveChain
                   /\ recovery[c] = CcipSendRecovery("EPOCH_NET_WITHDRAW", ParentChain,
                                      PreviousNonce, NoProtocol, HeldBy(c))
                \/ /\ BetweenPhase /\ RebalanceUnsent /\ c = ActiveChain
                   /\ recovery[c] = CcipSendRecovery("REBALANCE", PendingChain,
                                      rebalance.nonce, PendingStrategy.protocolId, HeldBy(c))
<1>1. CASE DepositPhase /\ c = ActiveChain /\ DepositRecovering
             /\ recovery[c] = EpochDepositRecovery(PreviousNonce, HeldBy(c))
  BY <1>1, RecoveryFields
<1>2. CASE WithdrawPhase /\ c = ActiveChain /\ WithdrawRecovering
             /\ recovery[c] = EpochWithdrawRecovery(PreviousNonce, HeldBy(c))
  BY <1>2, RecoveryFields
<1>3. CASE OutgoingPhase /\ c = ActiveChain /\ RebalanceWithdrawing
             /\ recovery[c] = RebalanceWithdrawRecovery(rebalance.nonce, PendingStrategy)
  BY <1>3, RecoveryFields
<1>4. CASE Rebalancing /\ c = PendingChain /\ RebalanceDepositing
             /\ recovery[c] = RebalanceDepositRecovery(rebalance.nonce, HeldBy(c))
  BY <1>4, RecoveryFields
<1>5. CASE WithdrawPhase /\ WithdrawUnsent /\ c = ActiveChain
             /\ recovery[c] = CcipSendRecovery("EPOCH_NET_WITHDRAW", ParentChain,
                                PreviousNonce, NoProtocol, HeldBy(c))
  BY <1>5, RecoveryFields
<1>6. CASE BetweenPhase /\ RebalanceUnsent /\ c = ActiveChain
             /\ recovery[c] = CcipSendRecovery("REBALANCE", PendingChain,
                                rebalance.nonce, PendingStrategy.protocolId, HeldBy(c))
  BY <1>6, RecoveryFields
<1>7. QED
  BY <1>1, <1>2, <1>3, <1>4, <1>5, <1>6, RecoveringPhase, Zenon

----------------------------------------------------------------------------
(* Logs and reports that fitted the state still do after a step, whatever the  *)
(* step wrote to the parent's record and to the marks.                         *)

BooksFit ==
    /\ \A n \in Nat : DepositConfirmable(n) => DepositConfirmable(n)'
    /\ \A n \in Nat, a \in Nat : WithdrawAnnounced(n, a) => WithdrawAnnounced(n, a)'
    /\ \A n \in Nat, a \in Nat : CompletionFits(n, a) => CompletionFits(n, a)'
    /\ \A n \in Nat : RebalanceConfirmable(n) => RebalanceConfirmable(n)'
    /\ \A n \in Nat, s \in Targets : InitiationFits(n, s) => InitiationFits(n, s)'
    /\ \A c \in Chains, n \in Nat, a \in Nat : WithdrawFits(c, n, a) => WithdrawFits(c, n, a)'
    /\ \A c \in Chains, n \in Nat, s \in Targets :
         ExecutionFits(c, n, s) => ExecutionFits(c, n, s)'

\* A step that keeps PhaseInv also keeps whatever fitted, the logs that automation
\* has dealt with or lost included.
PhaseStep == PhaseInv' /\ BooksFit

\* Logs and reports of before the step still fit after it, if BooksFit.
LEMMA BooksKept ==
    ASSUME TypeInv, PhaseInv, BooksFit
    PROVE  (\A l \in logs : LogFits(l)') /\ (\A r \in reports : ReportFits(r)')
<1>1. logs \subseteq Logs /\ reports \subseteq Reports
  BY DEF TypeInv, TypeOK, BaseVaultTypeOK, CreWorkflowTypeOK
<1>2. ASSUME NEW l \in logs PROVE LogFits(l)'
  <2>1. l.nonce \in Nat /\ l.amount \in Nat /\ l.strategy \in Targets /\ LogFits(l)
    BY <1>1 DEF Logs, PhaseInv
  <2>2. QED
    BY <2>1, Zenon DEF LogFits, BooksFit
<1>3. ASSUME NEW r \in reports PROVE ReportFits(r)'
  <2>1. /\ r.target \in Chains /\ r.nonce \in Nat /\ r.amount \in Nat
        /\ r.strategy \in Targets /\ ReportFits(r)
    BY <1>1 DEF Reports, PhaseInv
  <2>2. QED
    BY <2>1, Zenon DEF ReportFits, BooksFit
<1>4. QED
  BY <1>2, <1>3

\* The marks only rise.
MarksRise ==
    \A c \in ChildChains :
        /\ lastHandledEpochNonce'[c] \in Nat
        /\ lastHandledEpochNonce[c] <= lastHandledEpochNonce'[c]
        /\ lastHandledRebalanceNonce'[c] \in Nat
        /\ lastHandledRebalanceNonce[c] <= lastHandledRebalanceNonce'[c]

\* A step that leaves the child vaults alone lowers no mark.
LEMMA MarksUnchanged ==
    ASSUME TypeInv, UNCHANGED childVars
    PROVE  MarksRise
BY PhaseTypes DEF MarksRise, childVars

\* A step of a child vault, or a failed deposit on the parent: the record stays.
LEMMA BooksRecordKept ==
    ASSUME TypeInv, UNCHANGED <<epochNonce, previousEpoch, rebalance>>, MarksRise,
           DepositPhase /\ DepositDone => DepositDone',
           Rebalancing /\ RebalanceDeposited => RebalanceDeposited',
           Phase
    PROVE  BooksFit
<1> USE DEF PreviousNonce, ActiveChain, ActiveStrategy, PendingStrategy
<1>1. \A n \in Nat : DepositConfirmable(n) => DepositConfirmable(n)'
  <2>1. previousEpoch.status = "EXECUTING" => Executing
    BY PhaseCases, Zenon DEF DepositPhase, WithdrawPhase, BetweenPhase, OutgoingPhase,
       Rebalancing, Executing, Undeployed
  <2>2. QED
    BY <2>1 DEF DepositConfirmable, DepositPhase
<1>2. \A n \in Nat : RebalanceConfirmable(n) => RebalanceConfirmable(n)'
  <2>1. rebalance.state = "REBALANCING" => Rebalancing
    BY PhaseCases DEF DepositPhase, WithdrawPhase, BetweenPhase, OutgoingPhase, Executing
  <2>2. QED
    BY <2>1 DEF RebalanceConfirmable
<1>w. \A n \in Nat, a \in Nat : WithdrawAnnounced(n, a) => WithdrawAnnounced(n, a)'
  BY DEF WithdrawAnnounced
<1>c. \A n \in Nat, a \in Nat : CompletionFits(n, a) => CompletionFits(n, a)'
  BY <1>1 DEF CompletionFits, ExpectedDeposit, ReconciledShares
<1>3. \A n \in Nat, s \in Targets : InitiationFits(n, s) => InitiationFits(n, s)'
  BY DEF InitiationFits
<1>4. \A c \in Chains, n \in Nat, a \in Nat : WithdrawFits(c, n, a) => WithdrawFits(c, n, a)'
  BY PhaseTypes DEF WithdrawFits, MarksRise
<1>5. \A c \in Chains, n \in Nat, s \in Targets :
         ExecutionFits(c, n, s) => ExecutionFits(c, n, s)'
  BY PhaseTypes DEF ExecutionFits, MarksRise
<1>6. QED
  BY <1>1, <1>2, <1>w, <1>c, <1>3, <1>4, <1>5 DEF BooksFit

\* A close: everything announced or signed so far is for earlier epochs.
LEMMA BooksClosed ==
    ASSUME TypeInv, MarksBounded, previousEpoch.status # "EXECUTING", rebalance.state = "NONE",
           epochNonce' = epochNonce + 1, UNCHANGED rebalance, UNCHANGED childVars
    PROVE  BooksFit /\ MarksBounded'
<1> USE PhaseTypes DEF PreviousNonce, ActiveChain, ActiveStrategy, PendingStrategy, childVars
<1>1. \A n \in Nat : DepositConfirmable(n) => DepositConfirmable(n)'
  BY DEF DepositConfirmable
<1>2. \A n \in Nat : RebalanceConfirmable(n) => RebalanceConfirmable(n)'
  BY DEF RebalanceConfirmable
<1>w. \A n \in Nat, a \in Nat : WithdrawAnnounced(n, a) => WithdrawAnnounced(n, a)'
  BY DEF WithdrawAnnounced
<1>c. \A n \in Nat, a \in Nat : CompletionFits(n, a) => CompletionFits(n, a)'
  BY <1>1 DEF CompletionFits, DepositConfirmable
<1>3. \A n \in Nat, s \in Targets : InitiationFits(n, s) => InitiationFits(n, s)'
  BY DEF InitiationFits
<1>4. \A c \in Chains, n \in Nat, a \in Nat : WithdrawFits(c, n, a) => WithdrawFits(c, n, a)'
  BY DEF WithdrawFits
<1>5. \A c \in Chains, n \in Nat, s \in Targets :
         ExecutionFits(c, n, s) => ExecutionFits(c, n, s)'
  BY DEF ExecutionFits
<1>6. MarksBounded'
  BY DEF MarksBounded, HandledRebalance, PendingChain
<1>7. QED
  BY <1>1, <1>2, <1>w, <1>c, <1>3, <1>4, <1>5, <1>6 DEF BooksFit

\* The end of an executing epoch: its report is handled already.
LEMMA BooksSettled ==
    ASSUME TypeInv, MarksBounded, Executing, HandledEpoch(ActiveChain),
           previousEpoch'.status = "CLAIMABLE",
           UNCHANGED <<epochNonce, rebalance>>, UNCHANGED childVars
    PROVE  BooksFit /\ MarksBounded'
<1> USE PhaseTypes DEF PreviousNonce, ActiveChain, ActiveStrategy, PendingStrategy, childVars,
                       Executing, HandledEpoch
<1>1. \A n \in Nat : DepositConfirmable(n) => DepositConfirmable(n)'
  BY DEF DepositConfirmable
<1>2. \A n \in Nat : RebalanceConfirmable(n) => RebalanceConfirmable(n)'
  BY DEF RebalanceConfirmable
<1>w. \A n \in Nat, a \in Nat : WithdrawAnnounced(n, a) => WithdrawAnnounced(n, a)'
  BY DEF WithdrawAnnounced
<1>c. \A n \in Nat, a \in Nat : CompletionFits(n, a) => CompletionFits(n, a)'
  BY <1>1 DEF CompletionFits
<1>3. \A n \in Nat, s \in Targets : InitiationFits(n, s) => InitiationFits(n, s)'
  BY DEF InitiationFits
<1>4. \A c \in Chains, n \in Nat, a \in Nat : WithdrawFits(c, n, a) => WithdrawFits(c, n, a)'
  BY DEF WithdrawFits
<1>5. \A c \in Chains, n \in Nat, s \in Targets :
         ExecutionFits(c, n, s) => ExecutionFits(c, n, s)'
  BY DEF ExecutionFits
<1>6. MarksBounded'
  BY DEF MarksBounded, HandledRebalance, PendingChain
<1>7. QED
  BY <1>1, <1>2, <1>w, <1>c, <1>3, <1>4, <1>5, <1>6 DEF BooksFit

\* The end of a rebalance: whatever was signed for it is handled already.
LEMMA BooksFinalized ==
    ASSUME TypeInv, MarksBounded, previousEpoch.status # "EXECUTING",
           \/ rebalance.state = "NONE"
           \/ ActiveChain \in ChildChains => HandledRebalance(ActiveChain),
           rebalance'.nonce = rebalance.nonce + 1, rebalance'.state = "NONE",
           UNCHANGED <<epochNonce, previousEpoch>>, UNCHANGED childVars
    PROVE  BooksFit /\ MarksBounded'
<1> USE PhaseTypes DEF PreviousNonce, ActiveChain, ActiveStrategy, PendingStrategy, childVars
<1>1. \A n \in Nat : DepositConfirmable(n) => DepositConfirmable(n)'
  BY DEF DepositConfirmable
<1>2. \A n \in Nat : RebalanceConfirmable(n) => RebalanceConfirmable(n)'
  BY DEF RebalanceConfirmable
<1>w. \A n \in Nat, a \in Nat : WithdrawAnnounced(n, a) => WithdrawAnnounced(n, a)'
  BY DEF WithdrawAnnounced
<1>c. \A n \in Nat, a \in Nat : CompletionFits(n, a) => CompletionFits(n, a)'
  BY <1>1 DEF CompletionFits
<1>3. \A n \in Nat, s \in Targets : InitiationFits(n, s) => InitiationFits(n, s)'
  BY DEF InitiationFits
<1>4. \A c \in Chains, n \in Nat, a \in Nat : WithdrawFits(c, n, a) => WithdrawFits(c, n, a)'
  BY DEF WithdrawFits
<1>5. \A c \in Chains, n \in Nat, s \in Targets :
         ExecutionFits(c, n, s) => ExecutionFits(c, n, s)'
  BY DEF ExecutionFits, HandledRebalance
<1>6. MarksBounded'
  BY DEF MarksBounded, HandledRebalance, PendingChain
<1>7. QED
  BY <1>1, <1>2, <1>w, <1>c, <1>3, <1>4, <1>5, <1>6 DEF BooksFit

\* The record changes its strategies outside a rebalance: the first adapter is
\* set, or a rebalance begins.  Nothing carries the current nonce yet.
LEMMA BooksBegun ==
    ASSUME TypeInv, MarksBounded, previousEpoch.status # "EXECUTING", rebalance.state = "NONE",
           rebalance'.nonce = rebalance.nonce,
           UNCHANGED <<epochNonce, previousEpoch>>, UNCHANGED childVars
    PROVE  BooksFit /\ MarksBounded'
<1> USE PhaseTypes DEF PreviousNonce, ActiveChain, ActiveStrategy, PendingStrategy, childVars
<1>1. \A n \in Nat : DepositConfirmable(n) => DepositConfirmable(n)'
  BY DEF DepositConfirmable
<1>2. \A n \in Nat : RebalanceConfirmable(n) => RebalanceConfirmable(n)'
  BY DEF RebalanceConfirmable
<1>w. \A n \in Nat, a \in Nat : WithdrawAnnounced(n, a) => WithdrawAnnounced(n, a)'
  BY DEF WithdrawAnnounced
<1>c. \A n \in Nat, a \in Nat : CompletionFits(n, a) => CompletionFits(n, a)'
  BY <1>1 DEF CompletionFits
<1>3. \A n \in Nat, s \in Targets : InitiationFits(n, s) => InitiationFits(n, s)'
  BY DEF InitiationFits
<1>4. \A c \in Chains, n \in Nat, a \in Nat : WithdrawFits(c, n, a) => WithdrawFits(c, n, a)'
  BY DEF WithdrawFits
<1>5. \A c \in Chains, n \in Nat, s \in Targets :
         ExecutionFits(c, n, s) => ExecutionFits(c, n, s)'
  BY DEF ExecutionFits
<1>6. MarksBounded'
  BY DEF MarksBounded, HandledRebalance, PendingChain
<1>7. QED
  BY <1>1, <1>2, <1>w, <1>c, <1>3, <1>4, <1>5, <1>6 DEF BooksFit

----------------------------------------------------------------------------
(* Where the assets are. *)

\* Positions stay under the adapters when neither changes.
LEMMA PositionsUnchanged ==
    ASSUME PositionsUnderAdapter, UNCHANGED <<position, activeAdapter>>
    PROVE  PositionsUnderAdapter'
BY DEF PositionsUnderAdapter

\* Into, or out of, the active adapter of a vault.
LEMMA PositionsMoved ==
    ASSUME TypeInv, PositionsUnderAdapter, NEW c \in Chains, NEW a, HasAdapter(c),
           \/ position' = Deposited(position, ActiveOn(c), a)
           \/ position' = Withdrawn(c, a),
           UNCHANGED activeAdapter
    PROVE  PositionsUnderAdapter'
<1>1. position \in [Strategies -> Nat]
  BY PhaseTypes
<1>2. ASSUME NEW s \in Strategies, position'[s] # 0
      PROVE  s.protocolId = activeAdapter[s.chainSelector]
  <2>1. CASE s = ActiveOn(c)
    BY <2>1 DEF ActiveOn, Strategy
  <2>2. CASE s # ActiveOn(c)
    BY <1>1, <1>2, <2>2 DEF Deposited, Withdrawn, PositionsUnderAdapter
  <2>3. QED
    BY <2>1, <2>2
<1>3. QED
  BY <1>2 DEF PositionsUnderAdapter

\* The adapters of chain c are empty, the others under their vault's adapter.
EmptyAt(held, c) ==
    \A s \in Strategies : held[s] # 0 =>
        s.chainSelector # c /\ s.protocolId = activeAdapter[s.chainSelector]

\* A chain without an adapter holds nothing.
LEMMA EmptyWithoutAdapter ==
    ASSUME PositionsUnderAdapter, NEW c \in Chains, ~HasAdapter(c)
    PROVE  EmptyAt(position, c)
BY StrategyFacts DEF PositionsUnderAdapter, EmptyAt, HasAdapter

\* A vault that withdrew everything has nothing left under any adapter.
LEMMA EmptyAfterWithdrawal ==
    ASSUME TypeInv, PositionsUnderAdapter, NEW c \in Chains, HasAdapter(c)
    PROVE  EmptyAt(Withdrawn(c, position[ActiveOn(c)]), c)
<1> DEFINE held == Withdrawn(c, position[ActiveOn(c)])
<1>1. position \in [Strategies -> Nat] /\ ActiveOn(c) \in Strategies
  BY PhaseTypes, ActiveOnType DEF TypeInv, TypeOK
<1>2. ASSUME NEW s \in Strategies, held[s] # 0
      PROVE  s.chainSelector # c /\ s.protocolId = activeAdapter[s.chainSelector]
  <2>1. s # ActiveOn(c) /\ position[s] # 0
    BY <1>1, <1>2 DEF Withdrawn
  <2>2. s.protocolId = activeAdapter[s.chainSelector]
    BY <2>1 DEF PositionsUnderAdapter
  <2>3. QED
    BY <2>1, <2>2, StrategyFacts DEF ActiveOn
<1>3. QED
  BY <1>2 DEF EmptyAt

\* The adapter is changed only over an empty position.
LEMMA PositionsActivated ==
    ASSUME TypeInv, NEW c \in Chains, NEW p \in Protocols, NEW a,
           NEW held \in [Strategies -> Nat], EmptyAt(held, c),
           activeAdapter' = [activeAdapter EXCEPT ![c] = p],
           position' = held \/ position' = Deposited(held, Strategy(p, c), a)
    PROVE  PositionsUnderAdapter'
<1>1. activeAdapter'[c] = p /\ \A d \in Chains : d # c => activeAdapter'[d] = activeAdapter[d]
  BY PhaseTypes
<1>2. ASSUME NEW s \in Strategies, position'[s] # 0
      PROVE  s.protocolId = activeAdapter'[s.chainSelector]
  <2>1. CASE s = Strategy(p, c)
    BY <1>1, <2>1 DEF Strategy
  <2>2. CASE s # Strategy(p, c)
    <3>1. held[s] # 0
      BY <1>2, <2>2 DEF Deposited
    <3>2. QED
      BY <1>1, <3>1, StrategyFacts DEF EmptyAt
  <2>3. QED
    BY <2>1, <2>2
<1>3. QED
  BY <1>2 DEF PositionsUnderAdapter

\* Taking away the adapter of a vault that withdrew everything strands nothing.
LEMMA PositionsCleared ==
    ASSUME TypeInv, NEW c \in Chains, EmptyAt(position', c),
           activeAdapter' = [activeAdapter EXCEPT ![c] = NoProtocol]
    PROVE  PositionsUnderAdapter'
<1>1. \A d \in Chains : d # c => activeAdapter'[d] = activeAdapter[d]
  BY PhaseTypes
<1>2. QED
  BY <1>1, StrategyFacts DEF EmptyAt, PositionsUnderAdapter

----------------------------------------------------------------------------
(* Steps of the clock, the pauser and the workflow. *)

\* Steps that move nothing and write nothing but logs and reports that fit.
LEMMA QuietStep ==
    ASSUME TypeInv, PhaseInv, UNCHANGED phaseVars, UNCHANGED position,
           logs' \subseteq logs,
           \A r \in reports' : r \in reports \/ ReportFits(r)
    PROVE  PhaseStep
<1>1. Phase' /\ Phase
  BY PhaseUnchanged DEF PhaseInv
<1>2. /\ \A n : DepositConfirmable(n)' <=> DepositConfirmable(n)
      /\ \A n : RebalanceConfirmable(n)' <=> RebalanceConfirmable(n)
  BY Zenon DEF DepositConfirmable, RebalanceConfirmable, DepositDone, RebalanceDeposited,
         Calm, NoRecoveries, AdapterOnlyAt, HandledEpoch, HandledRebalance, PreviousNonce,
         PendingChain, PendingStrategy, ActiveChain, phaseVars
<1>c. \A n, a : CompletionFits(n, a)' <=> CompletionFits(n, a)
  BY <1>2, Zenon DEF CompletionFits, PreviousNonce, ExpectedDeposit, ReconciledShares, phaseVars
<1>3. /\ \A n, s : InitiationFits(n, s)' <=> InitiationFits(n, s)
      /\ \A n, a : WithdrawAnnounced(n, a)' <=> WithdrawAnnounced(n, a)
      /\ \A c, n, a : WithdrawFits(c, n, a)' <=> WithdrawFits(c, n, a)
      /\ \A c, n, s : ExecutionFits(c, n, s)' <=> ExecutionFits(c, n, s)
  BY Zenon DEF InitiationFits, WithdrawAnnounced, WithdrawFits, ExecutionFits, PreviousNonce,
         PendingStrategy, ActiveChain, phaseVars
<1>4. \A l : LogFits(l) <=> LogFits(l)'
  BY <1>2, <1>3, Zenon DEF LogFits
<1>5. \A r : ReportFits(r) <=> ReportFits(r)'
  BY <1>2, <1>c, <1>3, Zenon DEF ReportFits
<1>6. (epochNonce = 1 => previousEpoch.status = "NONE")'
  BY DEF PhaseInv, phaseVars
<1>7. MarksBounded'
  BY Zenon DEF PhaseInv, MarksBounded, HandledRebalance, PreviousNonce, ActiveChain,
     PendingChain, PendingStrategy, phaseVars
<1>8. PositionsUnderAdapter'
  BY PositionsUnchanged DEF PhaseInv, phaseVars
<1>9. (\A l \in logs : LogFits(l))'
  BY <1>4, Zenon DEF PhaseInv
<1>10. (\A r \in reports : ReportFits(r))'
  BY <1>5, Zenon DEF PhaseInv
<1>11. BooksFit
  BY <1>2, <1>c, <1>3, Zenon DEF BooksFit
<1>12. QED
  BY <1>1, <1>6, <1>7, <1>8, <1>9, <1>10, <1>11 DEF PhaseInv, PhaseStep

\* A log makes the workflow sign only what the operation in progress waits for.
LEMMA HandleLogPhase ==
    ASSUME TypeInv, PhaseInv, NEW l \in logs, HandleLog(l)
    PROVE  PhaseStep
<1>1. UNCHANGED phaseVars /\ UNCHANGED position
  BY DEF HandleLog, parentVars, childVars, phaseVars
<1>2. logs' \subseteq logs
  BY DEF HandleLog
<1>3. LogFits(l) /\ l.nonce \in Nat /\ rebalance.nonce \in Nat
  BY PhaseTypes DEF PhaseInv
<1>4. ASSUME OnRebalanceInitiated(l)
      PROVE  ReportFits(Report("executeRebalance", ActiveChain, l.nonce, 0, l.strategy))
  BY <1>3, <1>4 DEF OnRebalanceInitiated, LogFits, InitiationFits, ReportFits, Report,
                    ExecutionFits
<1>5. ASSUME OnEpochWithdrawExecuting(l)
      PROVE  ReportFits(Report("executeEpochWithdraw", ActiveChain, l.nonce, l.amount,
                               NoStrategy))
  BY <1>3, <1>5, PhaseTypes DEF OnEpochWithdrawExecuting, MatchesExecutingEpoch, ReportFits,
                    Report, WithdrawFits, PreviousNonce
<1>6. ASSUME OnRebalanceDepositSuccess(l)
      PROVE  ReportFits(Report("completeRebalance", ParentChain, l.nonce, 0, NoStrategy))
  BY <1>3, <1>6 DEF OnRebalanceDepositSuccess, LogFits, ReportFits, Report
<1>7. ASSUME OnEpochDepositToStrategySuccess(l)
      PROVE  ReportFits(Report("completeEpochDeposit", ParentChain, l.nonce, l.amount,
                               NoStrategy))
  BY <1>3, <1>7 DEF OnEpochDepositToStrategySuccess, LogFits, ReportFits, Report,
                    CompletionFits
<1>8. \A r \in Continuation(l) : ReportFits(r)
  BY <1>4, <1>5, <1>6, <1>7, Zenon DEF Continuation
<1>9. \A r \in reports' : r \in reports \/ ReportFits(r)
  BY <1>8 DEF HandleLog
<1>10. QED
  BY <1>1, <1>2, <1>9, QuietStep

\* A cron signs only what the phase it reads allows.
LEMMA CronPhase ==
    ASSUME TypeInv, PhaseInv,
           EpochCronReadsParent \/ EpochCronReadsChildren \/ RebalanceCronRuns
    PROVE  PhaseStep
<1>1. /\ UNCHANGED phaseVars /\ UNCHANGED <<position, logs>>
  BY DEF EpochCronReadsParent, EpochCronReadsChildren, RebalanceCronRuns, RebalanceCron,
         baseVars, parentVars, childVars, phaseVars
<1>2. /\ \A n, a : ReportFits(Report("closeEpoch", ParentChain, n, a, NoStrategy))
      /\ \A n, s : ReportFits(Report("initiateRebalance", ParentChain, n, 0, s))
  BY DEF ReportFits, Report
<1>3. CASE EpochCronReadsParent
  BY <1>1, <1>3, QuietStep DEF EpochCronReadsParent
<1>4. CASE EpochCronReadsChildren
  <2>1. \A r \in reports' : r \in reports \/ ReportFits(r)
    BY <1>2, <1>4 DEF EpochCronReadsChildren
  <2>2. QED
    BY <1>1, <2>1, QuietStep
<1>5. CASE RebalanceCronRuns
  <2>1. \A r \in reports' : r \in reports \/ ReportFits(r)
    BY <1>2, <1>5 DEF RebalanceCronRuns, RebalanceCron
  <2>2. QED
    BY <1>1, <2>1, QuietStep
<1>6. QED
  BY <1>3, <1>4, <1>5

\* Time and pauses change no phase.
LEMMA ClockAndPauserPhase ==
    ASSUME TypeInv, PhaseInv, TimePasses \/ PauserActs \/ UNCHANGED vars
    PROVE  PhaseStep
<1>1. CASE TimePasses
  BY <1>1, QuietStep DEF TimePasses, EpochAges, RebalanceAges, baseVars, childVars, creVars,
     phaseVars
<1>2. CASE PauserActs
  BY <1>2, QuietStep DEF PauserActs, Pause, Unpause, parentVars, childVars, creVars, phaseVars
<1>3. CASE UNCHANGED vars
  BY <1>3, QuietStep DEF vars, baseVars, parentVars, childVars, creVars, phaseVars
<1>4. QED
  BY <1>1, <1>2, <1>3

----------------------------------------------------------------------------
(* Steps that act. *)

\* The phase invariant after a step whose books fit and whose one new log fits.
LEMMA ActedStep ==
    ASSUME TypeInv, PhaseInv, BooksFit, Phase', MarksBounded', PositionsUnderAdapter',
           (epochNonce = 1 => previousEpoch.status = "NONE")',
           \A l \in logs' : l \in logs \/ LogFits(l)',
           reports' \subseteq reports
    PROVE  PhaseStep
<1>1. (\A l \in logs : LogFits(l)') /\ (\A r \in reports : ReportFits(r)')
  BY BooksKept
<1>2. (\A l \in logs : LogFits(l))' /\ (\A r \in reports : ReportFits(r))'
  BY <1>1, Zenon
<1>3. QED
  BY <1>2 DEF PhaseInv, PhaseStep

\* Using up a report adds none.
LEMMA UseUpShrinks ==
    ASSUME NEW r, UseUp(r)
    PROVE  reports' \subseteq reports
BY DEF UseUp

\* The first strategy is set once, on an empty deployment.
LEMMA AdminPhase ==
    ASSUME TypeInv, PhaseInv, AdminSetsAdapter
    PROVE  PhaseStep
<1>1. PICK p \in Protocols : SetInitialActiveProtocolAdapter(p)
  BY DEF AdminSetsAdapter
<1> DEFINE s == Strategy(p, ParentChain)
<1>2. s \in Strategies /\ s.protocolId = p /\ s.chainSelector = ParentChain
  BY StrategyType, ChainFacts
<1> HIDE DEF s
<1>3. Undeployed /\ rebalance.state = "NONE"
  BY <1>1, PhaseCases, StrategyFacts, Zenon DEF PhaseInv,
     SetInitialActiveProtocolAdapter, ActiveStrategy,
     DepositPhase, WithdrawPhase, BetweenPhase, OutgoingPhase, Rebalancing, Executing
<1>4. /\ rebalance'.activeStrategy = s /\ rebalance'.state = "NONE"
      /\ rebalance'.nonce = rebalance.nonce
  BY <1>1, <1>3, PhaseTypes DEF SetInitialActiveProtocolAdapter, s, Rebalances
<1>5. UNCHANGED <<epochNonce, previousEpoch, recovery, ccip, logs, reports, position>>
      /\ UNCHANGED childVars
  BY <1>1 DEF SetInitialActiveProtocolAdapter, AdminSetsAdapter, creVars
<1>6. AdapterOnlyAt(s)'
  BY <1>1, <1>2, <1>3, PhaseTypes DEF SetInitialActiveProtocolAdapter, AdapterOnlyAt,
     Undeployed,
     NoAdapters
<1>7. Phase'
  <2>1. Calm' /\ previousEpoch'.status # "EXECUTING"
    BY <1>3, <1>5 DEF Undeployed, Calm, NoRecoveries
  <2>2. QED
    BY <1>2, <1>4, <1>6, <2>1 DEF Phase, Quiet, ActiveStrategy
<1>8. BooksFit /\ MarksBounded'
  BY <1>3, <1>4, <1>5, BooksBegun DEF Undeployed, PhaseInv
<1>9. PositionsUnderAdapter'
  <2>1. EmptyAt(position, ParentChain) /\ position \in [Strategies -> Nat]
    BY <1>3, EmptyWithoutAdapter, ChainFacts, PhaseTypes DEF Undeployed, NoAdapters,
       HasAdapter, PhaseInv
  <2>2. QED
    BY <1>1, <1>5, <2>1, PositionsActivated, ChainFacts DEF SetInitialActiveProtocolAdapter
<1>10. QED
  BY <1>5, <1>7, <1>8, <1>9, ActedStep DEF PhaseInv

\* Between operations: the parent's record is at rest.
AtRest ==
    /\ ActiveStrategy \in Strategies /\ rebalance.state = "NONE"
    /\ previousEpoch.status # "EXECUTING" /\ Quiet

\* With no epoch executing and no rebalance running, nothing is under way.
LEMMA RestPhase ==
    ASSUME Phase, rebalance.state = "NONE", previousEpoch.status # "EXECUTING"
    PROVE  Undeployed \/ AtRest
BY PhaseCases, Zenon DEF DepositPhase, WithdrawPhase, BetweenPhase, OutgoingPhase,
   Rebalancing, Executing, AtRest

\* A close finds the deployment at rest, and leaves it at rest, or with a deposit
\* on its way, or waiting for a withdrawal.
LEMMA CloseEpochPhase ==
    ASSUME TypeInv, PhaseInv, NEW n, NEW tvl \in Nat, CloseEpoch(n, tvl),
           UNCHANGED childVars, reports' \subseteq reports
    PROVE  PhaseStep
<1>1. PICK deposit \in 0..MaxDeposit, burn \in 0..totalShares :
        LET withdraw == TotalWithdraw(burn, tvl, totalShares)
            shareMint == NewShares(deposit, tvl, totalShares)
        IN  /\ SettlementAllowed(deposit, burn, tvl, totalShares, IsLocalStrategy)
            /\ \/ SettleNetZero(deposit, withdraw, shareMint)
               \/ SettleLocalDeposit(deposit, withdraw, shareMint)
               \/ SettleRemoteDeposit(deposit, withdraw, shareMint)
               \/ SettleLocalWithdraw(deposit, withdraw, shareMint)
               \/ SettleRemoteWithdraw(deposit, withdraw, shareMint)
  BY DEF CloseEpoch
<1> DEFINE withdraw == TotalWithdraw(burn, tvl, totalShares)
           shareMint == NewShares(deposit, tvl, totalShares)
<1>2. deposit \in Nat /\ burn \in Nat /\ withdraw \in Nat
  <2>1. totalShares \in Nat
    BY Zenon DEF TypeInv, TypeOK, ParentVaultTypeOK
  <2>2. deposit \in Nat /\ burn \in Nat
    BY <2>1, BoundAssumption
  <2>3. QED
    BY <2>1, <2>2, TotalWithdrawNat
<1>3. /\ rebalance.state = "NONE" /\ previousEpoch.status # "EXECUTING"
      /\ UNCHANGED rebalance
  BY DEF CloseEpoch, CloseEpochGuard, PreviousEpochSettled, PhaseInv
<1>4. totalShares = 0 => burn = 0 /\ deposit # 0 /\ withdraw = 0
  BY <1>1 DEF SettlementAllowed, TotalWithdraw
<1> HIDE DEF withdraw, shareMint
<1>5. \/ SettleNetZero(deposit, withdraw, shareMint)
      \/ SettleLocalDeposit(deposit, withdraw, shareMint)
      \/ SettleRemoteDeposit(deposit, withdraw, shareMint)
      \/ SettleLocalWithdraw(deposit, withdraw, shareMint)
      \/ SettleRemoteWithdraw(deposit, withdraw, shareMint)
  BY <1>1 DEF withdraw, shareMint
<1>6. AtRest
  <2>1. ASSUME Undeployed PROVE FALSE
    <3>1. deposit > withdraw /\ ~IsLocalStrategy /\ ActiveChain \notin Chains
      BY <1>2, <1>4, <2>1, ChainFacts DEF Undeployed, NoAdapters, IsLocalStrategy, HasAdapter,
         ActiveStrategy, ActiveChain, NoStrategy
    <3>2. QED
      BY <1>2, <1>5, <3>1 DEF SettleNetZero, SettleLocalDeposit, SettleRemoteDeposit,
         SettleLocalWithdraw, SettleRemoteWithdraw, ValidateCcipSend, ActiveChain
  <2>2. QED
    BY <1>3, <2>1, RestPhase DEF PhaseInv
<1>7. /\ epochNonce' = epochNonce + 1 /\ previousEpoch'.deposit = deposit
      /\ UNCHANGED <<activeAdapter, recovery>>
  BY <1>5 DEF SettleNetZero, SettleLocalDeposit, SettleRemoteDeposit,
     SettleLocalWithdraw, SettleRemoteWithdraw, OpenNextEpoch, baseVars
<1>8. BooksFit /\ MarksBounded'
  BY <1>3, <1>7, BooksClosed DEF PhaseInv
<1>9. AdapterOnlyAt(ActiveStrategy)' /\ NoRecoveries' /\ (ActiveStrategy \in Strategies)'
      /\ rebalance'.state = "NONE"
  BY <1>3, <1>6, <1>7 DEF AtRest, Quiet, Calm, AdapterOnlyAt, NoRecoveries, ActiveStrategy
<1>10. ccip = {} /\ PreviousNonce' = epochNonce
  BY <1>6, <1>7, PhaseTypes DEF AtRest, Quiet, Calm, PreviousNonce
<1>11. ~IsLocalStrategy => ActiveChain \in ChildChains /\ ~HandledEpoch(ActiveChain)'
  <2>1. ~IsLocalStrategy => ActiveChain \in ChildChains
    BY <1>6, AdapterFacts, StrategyFacts, ChainFacts DEF AtRest, Quiet, IsLocalStrategy,
       ActiveChain, ActiveStrategy
  <2>2. QED
    BY <1>3, <1>10, <2>1, PhaseTypes DEF PhaseInv, MarksBounded, HandledEpoch, ActiveChain,
       childVars, PreviousNonce
<1>12. Phase'
  <2>1. CASE \/ SettleNetZero(deposit, withdraw, shareMint)
             \/ SettleLocalDeposit(deposit, withdraw, shareMint)
             \/ SettleLocalWithdraw(deposit, withdraw, shareMint)
    <3>1. previousEpoch'.status = "CLAIMABLE" /\ ccip' = ccip
      BY <2>1 DEF SettleNetZero, SettleLocalDeposit, SettleLocalWithdraw, OpenNextEpoch,
         baseVars
    <3>2. QED
      BY <1>9, <1>10, <3>1 DEF Phase, Quiet, Calm
  <2>2. CASE SettleRemoteDeposit(deposit, withdraw, shareMint)
    <3> DEFINE m == Message("EPOCH_NET_DEPOSIT", ParentChain, ActiveChain, epochNonce,
                            NoProtocol, deposit - withdraw)
    <3>1. /\ ~IsLocalStrategy /\ deposit > withdraw /\ ccip' = {m}
          /\ previousEpoch'.status = "EXECUTING" /\ previousEpoch'.withdrawClaim = withdraw
      BY <1>10, <2>2 DEF SettleRemoteDeposit, OpenNextEpoch, ActiveChain
    <3>2. m.amount = deposit - withdraw /\ m.amount # 0
      BY <1>2, <3>1 DEF Message
    <3>3. DepositInFlight'
      <4>1. m = Message("EPOCH_NET_DEPOSIT", ParentChain, ActiveChain', PreviousNonce',
                            NoProtocol, m.amount)
        BY <1>3, <1>10, <3>2 DEF ActiveChain
      <4> HIDE DEF m
      <4>2. InFlight("EPOCH_NET_DEPOSIT", ParentChain, ActiveChain, PreviousNonce, NoProtocol)'
        BY <1>9, <3>1, <3>2, <4>1 DEF InFlight
      <4>3. QED
        BY <1>11, <3>1, <4>2 DEF DepositInFlight
    <3>4. ExecutingPhase'
      BY <1>3, <1>7, <1>9, <1>11, <3>1, <3>3 DEF ExecutingPhase, ActiveChain
    <3>5. QED
      BY <1>9, <3>1, <3>4 DEF Phase
  <2>3. CASE SettleRemoteWithdraw(deposit, withdraw, shareMint)
    <3>1. /\ ~IsLocalStrategy /\ withdraw > deposit /\ ccip' = {}
          /\ previousEpoch'.status = "EXECUTING" /\ previousEpoch'.withdrawClaim = withdraw
      BY <1>10, <2>3 DEF SettleRemoteWithdraw, OpenNextEpoch
    <3>2. WithdrawWaiting'
      BY <1>9, <1>11, <3>1 DEF WithdrawWaiting, Calm
    <3>3. ExecutingPhase'
      BY <1>2, <1>3, <1>7, <1>9, <1>11, <3>1, <3>2 DEF ExecutingPhase, ActiveChain
    <3>4. QED
      BY <1>9, <3>1, <3>3 DEF Phase
  <2>4. QED
    BY <1>5, <2>1, <2>2, <2>3
<1>13. PositionsUnderAdapter'
  <2>1. CASE UNCHANGED position
    BY <1>7, <2>1, PositionsUnchanged DEF PhaseInv
  <2>2. CASE \/ SettleLocalDeposit(deposit, withdraw, shareMint)
             \/ SettleLocalWithdraw(deposit, withdraw, shareMint)
    BY <1>7, <2>2, PositionsMoved, ChainFacts DEF PhaseInv, SettleLocalDeposit,
       SettleLocalWithdraw, IsLocalStrategy
  <2>3. QED
    BY <1>5, <2>1, <2>2 DEF SettleNetZero, SettleRemoteDeposit, SettleRemoteWithdraw, baseVars
<1>14. \A l \in logs' : l \in logs \/ LogFits(l)'
  <2>1. CASE SettleRemoteWithdraw(deposit, withdraw, shareMint)
    <3>1. withdraw > deposit /\ previousEpoch'.withdrawClaim = withdraw
      BY <2>1 DEF SettleRemoteWithdraw, OpenNextEpoch
    <3>2. PICK k \in Nat, a \in Nat : k = epochNonce /\ a = withdraw - deposit
      BY <1>2, <3>1, PhaseTypes
    <3>3. \A l \in logs' : \/ l \in logs
                          \/ /\ l.event = "EpochWithdrawExecuting"
                             /\ l.nonce = k /\ l.amount = a
      BY <2>1, <3>2 DEF SettleRemoteWithdraw
    <3>4. WithdrawAnnounced(k, a)'
      BY <1>2, <1>7, <1>10, <3>1, <3>2, PhaseTypes DEF WithdrawAnnounced
    <3>5. QED
      BY <3>3, <3>4 DEF LogFits
  <2>2. CASE UNCHANGED logs
    BY <2>2
  <2>3. QED
    BY <1>5, <2>1, <2>2 DEF SettleNetZero, SettleLocalDeposit, SettleRemoteDeposit,
       SettleLocalWithdraw, baseVars
<1>15. (epochNonce = 1 => previousEpoch.status = "NONE")'
  BY <1>7, PhaseTypes
<1>16. QED
  BY <1>8, <1>12, <1>13, <1>14, <1>15, ActedStep

\* While an epoch executes the phase is ExecutingPhase.
LEMMA ExecutingFacts ==
    ASSUME Phase, previousEpoch.status = "EXECUTING"
    PROVE  Executing
BY PhaseCases, Zenon DEF DepositPhase, WithdrawPhase, BetweenPhase, OutgoingPhase,
   Rebalancing, Executing,
       Undeployed

\* While a rebalance runs the phase is RebalancingPhase.
LEMMA RebalancingFacts ==
    ASSUME Phase, rebalance.state = "REBALANCING"
    PROVE  Rebalancing
BY PhaseCases DEF DepositPhase, WithdrawPhase, BetweenPhase, OutgoingPhase, Executing

\* An epoch whose net withdrawal its strategy's vault has not handled waits for the
\* report to be executed ...
LEMMA WithdrawAwaited ==
    ASSUME TypeInv, Phase, previousEpoch.status = "EXECUTING", NEW a \in Nat, a # 0,
           previousEpoch.withdrawClaim = previousEpoch.deposit + a,
           FreshEpochNonce(ActiveChain, PreviousNonce)
    PROVE  Executing /\ WithdrawPhase /\ WithdrawWaiting
<1>1. ~HandledEpoch(ActiveChain) /\ Executing
  BY ExecutingFacts, PhaseTypes DEF FreshEpochNonce, HandledEpoch, Executing
<1>2. ExecutingPhase
  BY <1>1 DEF Phase, Executing, Undeployed
<1>3. /\ previousEpoch.deposit < previousEpoch.withdrawClaim
      /\ ~(previousEpoch.deposit > previousEpoch.withdrawClaim)
  BY PhaseTypes
<1>4. QED
  BY <1>1, <1>2, <1>3 DEF ExecutingPhase, WithdrawPhase, WithdrawRecovering, WithdrawUnsent,
     WithdrawInFlight

\* ... and so does a rebalance that the vault of its old strategy has not handled.
LEMMA RebalanceAwaited ==
    ASSUME TypeInv, Phase, rebalance.state = "REBALANCING", ActiveChain \in ChildChains,
           FreshRebalanceNonce(ActiveChain, rebalance.nonce)
    PROVE  Rebalancing /\ TargetUntouched /\ RebalanceWaiting
<1>1. ~HandledRebalance(ActiveChain) /\ Rebalancing
  BY RebalancingFacts, PhaseTypes DEF FreshRebalanceNonce, HandledRebalance
<1>2. RebalancingPhase
  BY <1>1 DEF Phase, Rebalancing
<1>3. QED
  BY <1>1, <1>2 DEF RebalancingPhase, RebalanceWithdrawing, RebalanceUnsent,
     RebalanceInFlight, RebalanceDepositing, RebalanceDeposited

\* A confirmed deposit has been made, so the epoch can be settled.
LEMMA CompleteEpochDepositPhase ==
    ASSUME TypeInv, PhaseInv, NEW n, NEW actual, CompleteEpochDeposit(n, actual),
           DepositConfirmable(n), UNCHANGED childVars, reports' \subseteq reports
    PROVE  PhaseStep
<1>1. /\ n = PreviousNonce /\ previousEpoch.status = "EXECUTING"
      /\ previousEpoch.deposit > previousEpoch.withdrawClaim
      /\ UNCHANGED baseVars /\ UNCHANGED <<epochNonce, rebalance>>
  BY DEF CompleteEpochDeposit, CompleteEpochDepositGuard, PreviousNonce
<1>2. DepositDone /\ Executing
  BY <1>1, ExecutingFacts DEF DepositConfirmable, PhaseInv
<1>3. previousEpoch'.status = "CLAIMABLE"
  BY PhaseTypes DEF CompleteEpochDeposit, Epochs
<1>4. BooksFit /\ MarksBounded'
  BY <1>1, <1>2, <1>3, BooksSettled DEF DepositDone, PhaseInv
<1>5. Phase'
  <2>1. Quiet'
    BY <1>1, <1>2 DEF Quiet, Calm, NoRecoveries, AdapterOnlyAt, ActiveStrategy, DepositDone,
       Executing, baseVars
  <2>2. QED
    BY <1>1, <1>2, <1>3, <2>1 DEF Phase, Executing, ActiveStrategy
<1>6. PositionsUnderAdapter'
  BY <1>1, PositionsUnchanged DEF baseVars, PhaseInv
<1>7. (epochNonce = 1 => previousEpoch.status = "NONE")'
  BY <1>1 DEF CompleteEpochDeposit, CompleteEpochDepositGuard
<1>8. QED
  BY <1>1, <1>4, <1>5, <1>6, <1>7, ActedStep DEF baseVars

\* After the end of a rebalance the deployment rests at the new strategy.
LEMMA FinalizedPhase ==
    ASSUME TypeInv, PhaseInv, NEW s \in Strategies, FinalizeRebalance(s), AdapterOnlyAt(s)',
           previousEpoch.status # "EXECUTING", Calm',
           \/ rebalance.state = "NONE"
           \/ ActiveChain \in ChildChains => HandledRebalance(ActiveChain),
           UNCHANGED childVars
    PROVE  /\ Phase' /\ BooksFit /\ MarksBounded'
           /\ (epochNonce = 1 => previousEpoch.status = "NONE")'
<1>1. /\ rebalance'.nonce = rebalance.nonce + 1 /\ rebalance'.state = "NONE"
      /\ rebalance'.activeStrategy = s
      /\ UNCHANGED <<epochNonce, previousEpoch>>
  BY DEF FinalizeRebalance
<1>2. BooksFit /\ MarksBounded'
  BY <1>1, BooksFinalized DEF PhaseInv
<1>3. Phase'
  BY <1>1 DEF Phase, Quiet, ActiveStrategy
<1>4. QED
  BY <1>1, <1>2, <1>3 DEF PhaseInv

\* completeRebalance comes when the funds are at the new strategy.
LEMMA CompleteRebalancePhase ==
    ASSUME TypeInv, PhaseInv, NEW n, CompleteRebalance(n), RebalanceConfirmable(n),
           UNCHANGED childVars, reports' \subseteq reports
    PROVE  PhaseStep
<1>1. /\ n = rebalance.nonce /\ rebalance.state = "REBALANCING"
      /\ UNCHANGED baseVars /\ FinalizeRebalance(PendingStrategy)
  BY DEF CompleteRebalance, CompleteRebalanceGuard, PendingStrategy
<1>2. RebalanceDeposited /\ Rebalancing
  BY <1>1, RebalancingFacts DEF RebalanceConfirmable, PhaseInv
<1>3. PICK s \in Strategies : s = PendingStrategy
  BY <1>2 DEF Rebalancing
<1>4. AdapterOnlyAt(s)' /\ Calm'
  BY <1>1, <1>2, <1>3 DEF RebalanceDeposited, AdapterOnlyAt, Calm, NoRecoveries, baseVars
<1>5. /\ Phase' /\ BooksFit /\ MarksBounded'
      /\ (epochNonce = 1 => previousEpoch.status = "NONE")'
  BY <1>1, <1>2, <1>3, <1>4, FinalizedPhase DEF RebalanceDeposited, Rebalancing
<1>6. PositionsUnderAdapter'
  BY <1>1, PositionsUnchanged DEF baseVars, PhaseInv
<1>7. QED
  BY <1>1, <1>5, <1>6, ActedStep DEF baseVars

----------------------------------------------------------------------------
(* initiateRebalance. *)

\* initiateRebalance between two protocols of the parent's chain.
LEMMA LocalToLocalPhase ==
    ASSUME TypeInv, PhaseInv, AtRest, NEW s \in Strategies, RebalanceLocalToLocal(s),
           UNCHANGED childVars, reports' \subseteq reports
    PROVE  PhaseStep
<1> DEFINE amountOut == position[ActiveOn(ParentChain)]
           held == Withdrawn(ParentChain, amountOut)
<1>1. /\ ActiveChain = ParentChain /\ s.chainSelector = ParentChain
      /\ CanWithdraw(ParentChain, amountOut)
      /\ activeAdapter' = [activeAdapter EXCEPT ![ParentChain] = s.protocolId]
      /\ position' = Deposited(held, s, amountOut)
      /\ logs' = logs \union {RebalanceInitiatedLog(s)}
      /\ FinalizeRebalance(s)
      /\ UNCHANGED <<recovery, ccip>>
  BY DEF RebalanceLocalToLocal, ActiveIsParent, ActiveChain
<1>2. AdapterOnlyAt(s)' /\ Calm'
  <2>1. \A c \in Chains : c # ParentChain => activeAdapter[c] = NoProtocol
    BY <1>1 DEF AtRest, Quiet, AdapterOnlyAt, ActiveStrategy, ActiveChain
  <2>2. AdapterOnlyAt(s)'
    BY <1>1, <2>1, PhaseTypes DEF AdapterOnlyAt
  <2>3. QED
    BY <1>1, <2>2 DEF AtRest, Quiet, Calm, NoRecoveries
<1>3. /\ Phase' /\ BooksFit /\ MarksBounded'
      /\ (epochNonce = 1 => previousEpoch.status = "NONE")'
  BY <1>1, <1>2, FinalizedPhase DEF AtRest
<1>4. PositionsUnderAdapter'
  <2>1. ParentChain \in Chains /\ HasAdapter(ParentChain)
    BY <1>1, ChainFacts DEF CanWithdraw
  <2>2. EmptyAt(held, ParentChain)
    BY <2>1, EmptyAfterWithdrawal DEF PhaseInv
  <2>3. held \in [Strategies -> Nat]
    BY PhaseTypes, <1>1, <2>1, ActiveOnType, WithdrawnType DEF TypeInv, TypeOK
  <2>4. s = Strategy(s.protocolId, ParentChain) /\ s.protocolId \in Protocols
    BY <1>1, StrategyFacts
  <2> HIDE DEF held, amountOut
  <2>5. QED
    BY <1>1, <2>1, <2>2, <2>3, <2>4, PositionsActivated
<1>5. \A l : l = RebalanceInitiatedLog(s) => LogFits(l)'
  <2>1. rebalance'.nonce = rebalance.nonce + 1
    BY <1>1 DEF FinalizeRebalance
  <2>2. QED
    BY <2>1, PhaseTypes DEF LogFits, InitiationFits, RebalanceInitiatedLog
<1>6. QED
  BY <1>1, <1>3, <1>4, <1>5, ActedStep

\* The log of a rebalance that begins names its nonce and its target.
LEMMA MarkedLogFits ==
    ASSUME TypeInv, NEW s, MarkRebalancing(s)
    PROVE  /\ rebalance'.nonce = rebalance.nonce /\ rebalance'.state = "REBALANCING"
           /\ rebalance'.activeStrategy = ActiveStrategy /\ rebalance'.pendingStrategy = s
           /\ \A l \in logs' : l \in logs \/ LogFits(l)'
<1>1. /\ rebalance'.nonce = rebalance.nonce /\ rebalance'.state = "REBALANCING"
      /\ rebalance'.activeStrategy = ActiveStrategy /\ rebalance'.pendingStrategy = s
  BY PhaseTypes DEF MarkRebalancing, Rebalances, ActiveStrategy
<1>2. \A l : l = RebalanceInitiatedLog(s) => LogFits(l)'
  BY <1>1, PhaseTypes DEF LogFits, InitiationFits, RebalanceInitiatedLog, PendingStrategy
<1>3. QED
  BY <1>1, <1>2 DEF MarkRebalancing

\* Before a rebalance no vault has handled its nonce.
LEMMA NoneHandled ==
    ASSUME MarksBounded, rebalance.state = "NONE", rebalance'.nonce = rebalance.nonce,
           UNCHANGED childVars, NEW c \in ChildChains
    PROVE  ~HandledRebalance(c)'
BY DEF MarksBounded, HandledRebalance, childVars

\* initiateRebalance from the parent's chain to a child.
LEMMA LocalToRemotePhase ==
    ASSUME TypeInv, PhaseInv, AtRest, NEW s \in Strategies, s # ActiveStrategy,
           RebalanceLocalToRemote(s), UNCHANGED childVars, reports' \subseteq reports
    PROVE  PhaseStep
<1> DEFINE amountOut == position[ActiveOn(ParentChain)]
           m == Message("REBALANCE", ParentChain, s.chainSelector, rebalance.nonce,
                        s.protocolId, amountOut)
<1>1. /\ ActiveChain = ParentChain /\ s.chainSelector # ParentChain
      /\ CanWithdraw(ParentChain, amountOut) /\ amountOut # 0
      /\ activeAdapter' = [activeAdapter EXCEPT ![ParentChain] = NoProtocol]
      /\ position' = Withdrawn(ParentChain, amountOut)
      /\ ccip' = ccip \union {m}
      /\ MarkRebalancing(s)
      /\ UNCHANGED <<recovery, epochNonce, previousEpoch>>
  BY DEF RebalanceLocalToRemote, ActiveIsParent, ActiveChain, CanWithdraw, MarkRebalancing
<1>2. /\ rebalance'.nonce = rebalance.nonce /\ rebalance'.state = "REBALANCING"
      /\ rebalance'.activeStrategy = ActiveStrategy /\ rebalance'.pendingStrategy = s
      /\ \A l \in logs' : l \in logs \/ LogFits(l)'
  BY <1>1, MarkedLogFits
<1>3. BooksFit /\ MarksBounded'
  BY <1>1, <1>2, BooksBegun DEF AtRest, PhaseInv
<1>4. NoAdapters' /\ NoRecoveries' /\ ccip' = {m}
  <2>1. \A c \in Chains : c # ParentChain => activeAdapter[c] = NoProtocol
    BY <1>1 DEF AtRest, Quiet, AdapterOnlyAt, ActiveStrategy, ActiveChain
  <2>2. QED
    BY <1>1, <2>1, PhaseTypes DEF NoAdapters, AtRest, Quiet, Calm, NoRecoveries
<1>5. RebalanceInFlight'
  <2>1. m = Message("REBALANCE", ActiveChain', PendingChain', rebalance'.nonce,
                    PendingStrategy'.protocolId, m.amount)
        /\ m.amount # 0
    BY <1>1, <1>2 DEF Message, PendingChain, PendingStrategy, ActiveChain, ActiveStrategy
  <2> HIDE DEF m
  <2>2. InFlight("REBALANCE", ActiveChain, PendingChain, rebalance.nonce,
                PendingStrategy.protocolId)'
    BY <1>4, <2>1 DEF InFlight
  <2>3. (ActiveChain \in ChildChains => HandledRebalance(ActiveChain))'
    BY <1>1, <1>2, ChainFacts DEF ActiveChain, ActiveStrategy
  <2>4. QED
    BY <1>4, <2>2, <2>3 DEF RebalanceInFlight
<1>6. Phase'
  <2>1. TargetUntouched'
    BY <1>2, NoneHandled DEF PhaseInv, AtRest, TargetUntouched
  <2>2. Rebalancing' /\ (ActiveChain # PendingChain)'
    BY <1>1, <1>2 DEF Rebalancing, AtRest, PendingChain, PendingStrategy, ActiveChain,
       ActiveStrategy
  <2>3. QED
    BY <1>5, <2>1, <2>2 DEF Phase, RebalancingPhase, Rebalancing
<1>7. PositionsUnderAdapter'
  <2>1. ParentChain \in Chains /\ HasAdapter(ParentChain)
    BY <1>1, ChainFacts DEF CanWithdraw
  <2>2. \A held : held = Withdrawn(ParentChain, amountOut) => EmptyAt(held, ParentChain)
    BY <2>1, EmptyAfterWithdrawal DEF PhaseInv
  <2>3. EmptyAt(position', ParentChain)
    BY <1>1, <2>2
  <2>4. QED
    BY <1>1, <2>1, <2>3, PositionsCleared
<1>8. QED
  BY <1>1, <1>2, <1>3, <1>6, <1>7, ActedStep DEF PhaseInv

\* initiateRebalance away from a child only marks the rebalance.
LEMMA FromRemotePhase ==
    ASSUME TypeInv, PhaseInv, AtRest, NEW s \in Strategies, s # ActiveStrategy,
           RebalanceFromRemote(s), UNCHANGED childVars, reports' \subseteq reports
    PROVE  PhaseStep
<1>1. /\ ActiveChain # ParentChain /\ MarkRebalancing(s)
      /\ UNCHANGED <<activeAdapter, position, recovery, ccip, epochNonce, previousEpoch>>
  BY DEF RebalanceFromRemote, ActiveIsParent, ActiveChain, MarkRebalancing
<1>2. /\ rebalance'.nonce = rebalance.nonce /\ rebalance'.state = "REBALANCING"
      /\ rebalance'.activeStrategy = ActiveStrategy /\ rebalance'.pendingStrategy = s
      /\ \A l \in logs' : l \in logs \/ LogFits(l)'
  BY <1>1, MarkedLogFits
<1>3. BooksFit /\ MarksBounded'
  BY <1>1, <1>2, BooksBegun DEF AtRest, PhaseInv
<1>4. (ActiveChain \in ChildChains)'
  BY <1>1, <1>2, ChainFacts, StrategyFacts DEF AtRest, ActiveChain, ActiveStrategy
<1>5. RebalanceWaiting'
  <2>1. AdapterOnlyAt(ActiveStrategy)' /\ Calm'
    BY <1>1, <1>2 DEF AtRest, Quiet, Calm, NoRecoveries, AdapterOnlyAt, ActiveStrategy
  <2>2. ~HandledRebalance(ActiveChain)'
    BY <1>2, <1>4, NoneHandled DEF PhaseInv, AtRest
  <2>3. QED
    BY <1>4, <2>1, <2>2 DEF RebalanceWaiting
<1>6. Phase'
  <2>1. TargetUntouched'
    BY <1>2, NoneHandled DEF PhaseInv, AtRest, TargetUntouched
  <2>2. QED
    BY <1>1, <1>2, <1>5, <2>1 DEF Phase, RebalancingPhase, AtRest, ActiveStrategy,
       PendingStrategy
<1>7. QED
  BY <1>1, <1>2, <1>3, <1>6, PositionsUnchanged, ActedStep DEF PhaseInv

\* initiateRebalance keeps PhaseInv.
LEMMA InitiateRebalancePhase ==
    ASSUME TypeInv, PhaseInv, NEW n, NEW s, InitiateRebalance(n, s),
           UNCHANGED childVars, reports' \subseteq reports
    PROVE  PhaseStep
<1>1. /\ s \in Strategies /\ s # ActiveStrategy
      /\ rebalance.state = "NONE" /\ previousEpoch.status # "EXECUTING" /\ epochNonce # 1
  BY DEF InitiateRebalance, InitiateRebalanceGuard, ActiveStrategy
<1>2. AtRest
  BY <1>1, RestPhase DEF PhaseInv, Undeployed
<1>3. QED
  BY <1>1, <1>2, LocalToLocalPhase, LocalToRemotePhase, FromRemotePhase DEF InitiateRebalance

----------------------------------------------------------------------------
(* Deliveries. *)

\* What a message in flight carries.
LEMMA MessageFields ==
    ASSUME NEW m, NEW tx, NEW source, NEW destination, NEW nonce, NEW p, NEW a,
           m = Message(tx, source, destination, nonce, p, a)
    PROVE  /\ m.ccipTx = tx /\ m.source = source /\ m.destination = destination
           /\ m.nonce = nonce /\ m.protocolId = p
BY DEF Message

\* One adapter is set where there was none, or where the old one was.
LEMMA ActivatedAdapter ==
    ASSUME TypeInv, NEW s \in Strategies,
           \A d \in Chains : d # s.chainSelector => activeAdapter[d] = NoProtocol,
           activeAdapter' = [activeAdapter EXCEPT ![s.chainSelector] = s.protocolId]
    PROVE  AdapterOnlyAt(s)'
BY PhaseTypes, StrategyFacts DEF AdapterOnlyAt

\* A vault handles a nonce of the operation in progress.
LEMMA EpochHandled ==
    ASSUME TypeInv, MarksBounded, NEW c \in ChildChains, HandleEpochNonce(c, PreviousNonce),
           UNCHANGED <<epochNonce, rebalance>>
    PROVE  /\ MarksRise /\ MarksBounded' /\ HandledEpoch(c)'
           /\ \A d \in ChildChains : HandledRebalance(d)' <=> HandledRebalance(d)
<1>1. /\ lastHandledEpochNonce' = [lastHandledEpochNonce EXCEPT ![c] = PreviousNonce]
      /\ PreviousNonce > lastHandledEpochNonce[c]
      /\ UNCHANGED lastHandledRebalanceNonce
  BY DEF HandleEpochNonce, FreshEpochNonce
<1>2. MarksRise
  BY <1>1, PhaseTypes DEF MarksRise
<1>3. HandledEpoch(c)' /\ \A d \in ChildChains : lastHandledEpochNonce'[d] <= PreviousNonce'
  BY <1>1, PhaseTypes DEF HandledEpoch, MarksBounded, PreviousNonce
<1>4. \A d \in ChildChains : HandledRebalance(d)' <=> HandledRebalance(d)
  BY <1>1 DEF HandledRebalance
<1>5. MarksBounded'
  BY <1>1, <1>3, <1>4 DEF MarksBounded, ActiveChain, PendingChain, PendingStrategy
<1>6. QED
  BY <1>2, <1>3, <1>4, <1>5

\* Raising a rebalance mark to the rebalance in progress keeps the marks bounded.
LEMMA RebalanceHandled ==
    ASSUME TypeInv, MarksBounded, Rebalancing, NEW c \in ChildChains,
           c \in {ActiveChain, PendingChain}, HandleRebalanceNonce(c, rebalance.nonce),
           UNCHANGED <<epochNonce, rebalance>>
    PROVE  /\ MarksRise /\ MarksBounded' /\ HandledRebalance(c)'
           /\ \A d \in ChildChains : d # c => (HandledRebalance(d)' <=> HandledRebalance(d))
<1>1. /\ lastHandledRebalanceNonce' = [lastHandledRebalanceNonce EXCEPT ![c] = rebalance.nonce]
      /\ rebalance.nonce > lastHandledRebalanceNonce[c]
      /\ UNCHANGED lastHandledEpochNonce
  BY DEF HandleRebalanceNonce, FreshRebalanceNonce
<1>2. MarksRise
  BY <1>1, PhaseTypes DEF MarksRise
<1>3. HandledRebalance(c)'
  BY <1>1, PhaseTypes DEF HandledRebalance
<1>4. \A d \in ChildChains : d # c => (HandledRebalance(d)' <=> HandledRebalance(d))
  BY <1>1, PhaseTypes DEF HandledRebalance
<1>5. MarksBounded'
  <2>1. \A d \in ChildChains : /\ lastHandledEpochNonce'[d] <= PreviousNonce'
                               /\ lastHandledRebalanceNonce'[d] <= rebalance'.nonce
    BY <1>1, PhaseTypes DEF MarksBounded, PreviousNonce
  <2>2. \A d \in ChildChains : HandledRebalance(d)' =>
          rebalance'.state = "REBALANCING" /\ d \in {ActiveChain', PendingChain'}
    BY <1>4 DEF MarksBounded, Rebalancing, ActiveChain, PendingChain, PendingStrategy
  <2>3. QED
    BY <2>1, <2>2 DEF MarksBounded
<1>6. QED
  BY <1>2, <1>3, <1>4, <1>5

\* The record and the marks stay.
LEMMA MarksStay ==
    ASSUME MarksBounded, UNCHANGED <<epochNonce, rebalance>>, UNCHANGED childVars
    PROVE  MarksBounded'
BY Zenon DEF MarksBounded, HandledRebalance, PreviousNonce, ActiveChain, PendingChain,
   PendingStrategy,
       childVars

\* The net withdrawal arrives at the parent and settles its epoch.
LEMMA ReceiveEpochNetWithdrawPhase ==
    ASSUME TypeInv, PhaseInv, NEW m \in ccip, NEW d, ReceiveEpochNetWithdraw(m, d),
           UNCHANGED childVars, UNCHANGED reports
    PROVE  PhaseStep
<1>1. /\ m.ccipTx = "EPOCH_NET_WITHDRAW"
      /\ ccip' = ccip \ {m}
      /\ UNCHANGED <<activeAdapter, position, recovery, logs, epochNonce, rebalance>>
  BY DEF ReceiveEpochNetWithdraw, NetWithdrawReceivable
<1>2. previousEpoch'.status = "CLAIMABLE"
  BY PhaseTypes DEF ReceiveEpochNetWithdraw, Epochs
<1>3. ccip = {m} /\ NoRecoveries /\ WithdrawPhase /\ WithdrawInFlight
  BY <1>1, InFlightPhase, MessageFields DEF PhaseInv
<1>4. Executing /\ HandledEpoch(ActiveChain)
  BY <1>3 DEF WithdrawPhase, WithdrawInFlight
<1>5. BooksFit /\ MarksBounded'
  BY <1>1, <1>2, <1>4, BooksSettled DEF PhaseInv
<1>6. Phase'
  <2>1. Quiet'
    BY <1>1, <1>3, <1>4 DEF Quiet, Calm, NoRecoveries, AdapterOnlyAt, ActiveStrategy, Executing
  <2>2. QED
    BY <1>1, <1>2, <1>4, <2>1 DEF Phase, Executing, ActiveStrategy
<1>7. epochNonce # 1
  BY <1>4 DEF PhaseInv, Executing
<1>8. QED
  BY <1>1, <1>5, <1>6, <1>7, PositionsUnchanged, ActedStep DEF PhaseInv

\* Rebalanced funds arrive at the parent.
LEMMA ReceiveRebalanceOnParentPhase ==
    ASSUME TypeInv, PhaseInv, NEW m \in ccip, NEW d, ReceiveRebalanceOnParent(m, d),
           UNCHANGED childVars, UNCHANGED reports
    PROVE  PhaseStep
<1>1. m.ccipTx = "REBALANCE" /\ m.destination = ParentChain /\ ccip' = ccip \ {m}
  BY DEF ReceiveRebalanceOnParent, RebalanceReceivable, ParentReceivable, ReceivableBy
<1>2. /\ ccip = {m} /\ NoRecoveries /\ BetweenPhase /\ RebalanceInFlight
      /\ m = Message("REBALANCE", ActiveChain, PendingChain, rebalance.nonce,
                     PendingStrategy.protocolId, m.amount)
  BY <1>1, InFlightPhase, MessageFields DEF PhaseInv
<1>3. PICK s \in Strategies : s = PendingStrategy
  BY <1>2 DEF BetweenPhase, OutgoingPhase, Rebalancing
<1>4. /\ s.chainSelector = ParentChain /\ m.protocolId = s.protocolId
      /\ m.nonce = rebalance.nonce /\ s = Strategy(s.protocolId, ParentChain)
      /\ s.protocolId \in Protocols
  BY <1>1, <1>2, <1>3, MessageFields, StrategyFacts DEF PendingChain
<1>5. /\ Rebalancing /\ NoAdapters
      /\ ActiveChain \in ChildChains => HandledRebalance(ActiveChain)
  BY <1>2 DEF BetweenPhase, OutgoingPhase, RebalanceInFlight
<1>6. \/ /\ ActivateAndDeposit(ParentChain, rebalance.nonce, s.protocolId, d, position, TRUE)
         /\ FinalizeRebalance(s)
      \/ /\ ActivateAndDeposit(ParentChain, rebalance.nonce, s.protocolId, d, position, FALSE)
         /\ UNCHANGED parentVars
  BY <1>4 DEF ReceiveRebalanceOnParent
<1>7. activeAdapter' = [activeAdapter EXCEPT ![ParentChain] = s.protocolId]
  BY <1>6 DEF ActivateAndDeposit
<1>8. AdapterOnlyAt(s)' /\ ccip' = {}
  BY <1>1, <1>2, <1>4, <1>5, <1>7, ActivatedAdapter DEF NoAdapters
<1>9. PositionsUnderAdapter'
  <2>1. EmptyAt(position, ParentChain) /\ position \in [Strategies -> Nat]
    BY <1>5, EmptyWithoutAdapter, ChainFacts, PhaseTypes DEF PhaseInv, NoAdapters, HasAdapter
  <2>2. position' = position \/ position' = Deposited(position, Strategy(s.protocolId, ParentChain), d)
    BY <1>6 DEF ActivateAndDeposit
  <2>3. QED
    BY <1>4, <1>7, <2>1, <2>2, PositionsActivated, ChainFacts
<1>10. CASE /\ ActivateAndDeposit(ParentChain, rebalance.nonce, s.protocolId, d, position, TRUE)
            /\ FinalizeRebalance(s)
  <2>1. logs' = logs /\ recovery' = [recovery EXCEPT ![ParentChain] = NoRecovery]
    BY <1>10 DEF ActivateAndDeposit, RebalanceDepositLog
  <2>2. Calm'
    BY <1>2, <1>8, <2>1, PhaseTypes DEF Calm, NoRecoveries
  <2>3. /\ Phase' /\ BooksFit /\ MarksBounded'
        /\ (epochNonce = 1 => previousEpoch.status = "NONE")'
    BY <1>5, <1>8, <1>10, <2>2, FinalizedPhase DEF Rebalancing
  <2>4. QED
    BY <1>9, <2>1, <2>3, ActedStep
<1>11. CASE /\ ActivateAndDeposit(ParentChain, rebalance.nonce, s.protocolId, d, position, FALSE)
            /\ UNCHANGED parentVars
  <2>1. /\ logs' = logs
        /\ recovery' = [recovery EXCEPT ![ParentChain] =
                            RebalanceDepositRecovery(rebalance.nonce, d)]
        /\ UNCHANGED <<epochNonce, previousEpoch, rebalance>>
    BY <1>11 DEF ActivateAndDeposit, parentVars
  <2>2. RebalanceDepositing'
    <3>1. recovery'[ParentChain] = RebalanceDepositRecovery(rebalance'.nonce, recovery'[ParentChain].amount)
      BY <2>1, PhaseTypes, ChainFacts DEF RebalanceDepositRecovery, NoRecovery
    <3>2. Recovering(PendingChain, RebalanceDepositRecovery(rebalance.nonce, HeldBy(PendingChain)))'
      BY <1>2, <1>3, <1>4, <1>8, <2>1, <3>1, PhaseTypes
         DEF Recovering, HeldBy, PendingChain, PendingStrategy, NoRecoveries
    <3>3. (ActiveChain \in ChildChains => HandledRebalance(ActiveChain))'
      BY <1>5, <2>1 DEF HandledRebalance, ActiveChain, childVars
    <3>4. PendingChain' \notin ChildChains /\ AdapterOnlyAt(PendingStrategy)'
      BY <1>3, <1>4, <1>8, <2>1, ChainFacts DEF PendingChain, PendingStrategy, AdapterOnlyAt
    <3>5. QED
      BY <3>2, <3>3, <3>4 DEF RebalanceDepositing
  <2>3. Phase'
    BY <1>5, <2>1, <2>2 DEF Phase, RebalancingPhase, Rebalancing, ActiveStrategy,
       PendingStrategy
  <2>4. BooksFit
    BY <1>2, <1>5, <2>1, MarksUnchanged, BooksRecordKept
       DEF PhaseInv, DepositPhase, Executing, Rebalancing, RebalanceDeposited, Calm
  <2>5. MarksBounded'
    BY <2>1, MarksStay DEF PhaseInv
  <2>6. QED
    BY <1>9, <2>1, <2>3, <2>4, <2>5, ActedStep DEF PhaseInv
<1>12. QED
  BY <1>6, <1>10, <1>11

\* The net deposit arrives at the strategy chain.
LEMMA ReceiveEpochNetDepositPhase ==
    ASSUME TypeInv, PhaseInv, NEW c \in ChildChains, NEW m \in ccip, NEW d,
           ReceiveEpochNetDeposit(c, m, d), UNCHANGED parentVars, UNCHANGED reports
    PROVE  PhaseStep
<1>1. /\ m.ccipTx = "EPOCH_NET_DEPOSIT" /\ m.destination = c /\ HasAdapter(c)
      /\ HandleEpochNonce(c, m.nonce) /\ ccip' = ccip \ {m}
      /\ UNCHANGED <<activeAdapter, epochNonce, previousEpoch, rebalance>>
  BY DEF ReceiveEpochNetDeposit, EpochDepositReceivable, ReceivableBy, parentVars
<1>2. /\ ccip = {m} /\ NoRecoveries /\ DepositPhase
      /\ m = Message("EPOCH_NET_DEPOSIT", ParentChain, ActiveChain, PreviousNonce,
                     NoProtocol, m.amount)
  BY <1>1, InFlightPhase, MessageFields DEF PhaseInv
<1>3. c = ActiveChain /\ m.nonce = PreviousNonce /\ c \in Chains
  BY <1>1, <1>2, MessageFields, ChainFacts
<1>4. MarksRise /\ MarksBounded' /\ HandledEpoch(ActiveChain)'
  BY <1>1, <1>3, EpochHandled DEF PhaseInv, ActiveChain
<1>5. BooksFit
  BY <1>1, <1>2, <1>4, BooksRecordKept
     DEF PhaseInv, DepositDone, RebalanceDeposited, Calm
<1>6. ExecutingPhase' \/ ~(DepositRecovering' \/ DepositDone')
  BY <1>1, <1>2 DEF ExecutingPhase, DepositPhase, Executing, AdapterOnlyAt, ActiveChain,
     ActiveStrategy
<1>7. DepositRecovering' \/ DepositDone' => Phase'
  BY <1>1, <1>2, <1>6 DEF Phase, DepositPhase, Executing, ActiveStrategy
<1>8. CASE /\ position' = Deposited(position, ActiveOn(c), d)
           /\ logs' = logs \union {EpochDepositLog(c, m.nonce, d)}
           /\ recovery' = recovery
  <2>1. DepositDone'
    BY <1>1, <1>2, <1>4, <1>8 DEF DepositDone, Calm, NoRecoveries
  <2>2. \A l : l = EpochDepositLog(c, m.nonce, d) => LogFits(l)'
    BY <1>1, <1>3, <2>1, PhaseTypes DEF EpochDepositLog, LogFits, DepositConfirmable,
       PreviousNonce
  <2>3. \A l \in logs' : l \in logs \/ LogFits(l)'
    BY <1>8, <2>2
  <2>4. PositionsUnderAdapter'
    BY <1>1, <1>3, <1>8, PositionsMoved DEF PhaseInv
  <2>5. QED
    BY <1>1, <1>4, <1>5, <1>7, <2>1, <2>3, <2>4, ActedStep DEF PhaseInv
<1>9. CASE /\ recovery' = [recovery EXCEPT ![c] = EpochDepositRecovery(m.nonce, d)]
           /\ UNCHANGED <<position, logs>>
  <2>1. recovery'[c] = EpochDepositRecovery(PreviousNonce', recovery'[c].amount)
    BY <1>1, <1>3, <1>9, PhaseTypes DEF EpochDepositRecovery, NoRecovery, PreviousNonce
  <2>2. Recovering(ActiveChain, EpochDepositRecovery(PreviousNonce, HeldBy(ActiveChain)))'
    BY <1>1, <1>2, <1>3, <1>9, <2>1, PhaseTypes
       DEF Recovering, HeldBy, ActiveChain, NoRecoveries
  <2>3. DepositRecovering'
    BY <1>4, <2>2 DEF DepositRecovering
  <2>4. QED
    BY <1>1, <1>4, <1>5, <1>7, <1>9, <2>3, PositionsUnchanged, ActedStep DEF PhaseInv
<1>10. QED
  BY <1>8, <1>9 DEF ReceiveEpochNetDeposit

\* A rebalance deposit on the pending chain, made or stored for recovery.
LEMMA ArrivedPhase ==
    ASSUME TypeInv, PhaseInv, NEW s \in Strategies, s = PendingStrategy, Rebalancing,
           NEW a, NEW held \in [Strategies -> Nat], NEW success \in BOOLEAN,
           EmptyAt(held, s.chainSelector),
           \A d \in Chains : d # s.chainSelector =>
               activeAdapter[d] = NoProtocol /\ recovery[d] = NoRecovery,
           ActivateAndDeposit(s.chainSelector, rebalance.nonce, s.protocolId, a, held, success),
           ccip' = {}, BooksFit, MarksBounded', s.chainSelector \in ChildChains,
           HandledRebalance(s.chainSelector)',
           (ActiveChain \in ChildChains => HandledRebalance(ActiveChain))',
           UNCHANGED parentVars, reports' \subseteq reports
    PROVE  PhaseStep
<1> DEFINE c == s.chainSelector
<1>1. /\ c \in Chains /\ c # ParentChain /\ s.protocolId \in Protocols
      /\ s = Strategy(s.protocolId, c)
  BY ChainFacts, StrategyFacts
<1>2. /\ activeAdapter' = [activeAdapter EXCEPT ![c] = s.protocolId]
      /\ UNCHANGED <<epochNonce, previousEpoch, rebalance>>
  BY DEF ActivateAndDeposit, parentVars
<1>3. AdapterOnlyAt(PendingStrategy)' /\ PendingChain' = c
  <2>1. AdapterOnlyAt(s)'
    BY <1>2, ActivatedAdapter
  <2>2. QED
    BY <1>2, <2>1 DEF PendingStrategy, PendingChain, AdapterOnlyAt
<1>4. RebalanceDepositing' \/ RebalanceDeposited' => Phase'
  BY <1>2 DEF Phase, RebalancingPhase, Rebalancing, ActiveStrategy, PendingStrategy
<1>5. PositionsUnderAdapter'
  <2>1. position' = held \/ position' = Deposited(held, Strategy(s.protocolId, c), a)
    BY DEF ActivateAndDeposit
  <2>2. QED
    BY <1>1, <1>2, <2>1, PositionsActivated
<1>6. CASE success
  <2>1. /\ recovery' = [recovery EXCEPT ![c] = NoRecovery]
        /\ logs' = logs \union RebalanceDepositLog(c, rebalance.nonce, a)
    BY <1>6 DEF ActivateAndDeposit
  <2>2. Calm'
    BY <2>1, PhaseTypes DEF Calm, NoRecoveries
  <2>3. RebalanceDeposited'
    BY <1>3, <2>2 DEF RebalanceDeposited
  <2>4. \A l : l \in RebalanceDepositLog(c, rebalance.nonce, a) => LogFits(l)'
    BY <1>2, <2>3, PhaseTypes DEF RebalanceDepositLog, LogFits, RebalanceConfirmable,
       Rebalancing
  <2>5. \A l \in logs' : l \in logs \/ LogFits(l)'
    BY <2>1, <2>4
  <2>6. QED
    BY <1>2, <1>4, <1>5, <2>3, <2>5, ActedStep DEF PhaseInv
<1>7. CASE ~success
  <2>1. /\ recovery' = [recovery EXCEPT ![c] = RebalanceDepositRecovery(rebalance.nonce, a)]
        /\ logs' = logs
    BY <1>7 DEF ActivateAndDeposit
  <2>2. recovery'[c] = RebalanceDepositRecovery(rebalance'.nonce, recovery'[c].amount)
    BY <1>1, <1>2, <2>1, PhaseTypes DEF RebalanceDepositRecovery, NoRecovery
  <2>3. Recovering(PendingChain, RebalanceDepositRecovery(rebalance.nonce, HeldBy(PendingChain)))'
    BY <1>1, <1>3, <2>1, <2>2, PhaseTypes DEF Recovering, HeldBy
  <2>4. RebalanceDepositing'
    BY <1>3, <2>3 DEF RebalanceDepositing
  <2>5. QED
    BY <1>2, <1>4, <1>5, <2>1, <2>4, ActedStep DEF PhaseInv
<1>8. QED
  BY <1>6, <1>7

\* Rebalanced funds arrive at a child.
LEMMA ReceiveRebalanceOnChildPhase ==
    ASSUME TypeInv, PhaseInv, NEW c \in ChildChains, NEW m \in ccip, NEW d,
           ReceiveRebalanceOnChild(c, m, d), UNCHANGED parentVars, UNCHANGED reports
    PROVE  PhaseStep
<1>1. /\ m.ccipTx = "REBALANCE" /\ m.destination = c
      /\ HandleRebalanceNonce(c, m.nonce) /\ ccip' = ccip \ {m}
      /\ UNCHANGED <<epochNonce, previousEpoch, rebalance>>
  BY DEF ReceiveRebalanceOnChild, ChildRebalanceReceivable, ReceivableBy, parentVars
<1>2. /\ ccip = {m} /\ NoRecoveries /\ BetweenPhase /\ RebalanceInFlight
      /\ m = Message("REBALANCE", ActiveChain, PendingChain, rebalance.nonce,
                     PendingStrategy.protocolId, m.amount)
  BY <1>1, InFlightPhase, MessageFields DEF PhaseInv
<1>3. PICK s \in Strategies : s = PendingStrategy
  BY <1>2 DEF BetweenPhase, OutgoingPhase, Rebalancing
<1>4. /\ s.chainSelector = c /\ m.protocolId = s.protocolId
      /\ m.nonce = rebalance.nonce /\ c \in Chains /\ c = PendingChain
  BY <1>1, <1>2, <1>3, MessageFields, StrategyFacts DEF PendingChain
<1>5. /\ Rebalancing /\ NoAdapters /\ ActiveChain # c
      /\ ActiveChain \in ChildChains => HandledRebalance(ActiveChain)
  BY <1>2, <1>4 DEF BetweenPhase, OutgoingPhase, RebalanceInFlight
<1>6. /\ MarksRise /\ MarksBounded' /\ HandledRebalance(c)'
      /\ \A d2 \in ChildChains : d2 # c => (HandledRebalance(d2)' <=> HandledRebalance(d2))
  BY <1>1, <1>4, <1>5, RebalanceHandled DEF PhaseInv
<1>7. (ActiveChain \in ChildChains => HandledRebalance(ActiveChain))'
  <2>1. ActiveChain' = ActiveChain
    BY <1>1 DEF ActiveChain
  <2>2. ActiveChain \in ChildChains => lastHandledRebalanceNonce'[ActiveChain] = rebalance'.nonce
    BY <1>5, <1>6 DEF HandledRebalance
  <2>3. QED
    BY <2>1, <2>2 DEF HandledRebalance
<1>8. BooksFit
  BY <1>1, <1>2, <1>5, <1>6, BooksRecordKept
     DEF PhaseInv, DepositPhase, Executing, Rebalancing, RebalanceDeposited, Calm
<1>9. EmptyAt(position, c) /\ position \in [Strategies -> Nat]
  BY <1>4, <1>5, EmptyWithoutAdapter, PhaseTypes DEF PhaseInv, NoAdapters, HasAdapter
<1>10. PICK success \in BOOLEAN :
          ActivateAndDeposit(c, rebalance.nonce, s.protocolId, d, position, success)
  BY <1>4 DEF ReceiveRebalanceOnChild
<1>11. \A e \in Chains : activeAdapter[e] = NoProtocol /\ recovery[e] = NoRecovery
  BY <1>2, <1>5 DEF NoAdapters, NoRecoveries
<1>12. ccip' = {}
  BY <1>1, <1>2
<1>13. QED
  BY <1>3, <1>4, <1>5, <1>6, <1>7, <1>8, <1>9, <1>10, <1>11, <1>12, ArrivedPhase

----------------------------------------------------------------------------
(* executeEpochWithdraw, executeRebalance and the recoveries. *)

\* What the workflow or a keeper starts only when nothing else is under way.
OnlyAt(c) ==
    /\ ccip = {}
    /\ \A d \in Chains : d # c => recovery[d] = NoRecovery

\* The proceeds of a net withdrawal leave for the parent, or wait to be sent.
LEMMA WithdrawSentPhase ==
    ASSUME TypeInv, PhaseInv, WithdrawPhase, NEW a, OnlyAt(ActiveChain),
           WithdrawAndSend(ActiveChain, PreviousNonce, a),
           HandledEpoch(ActiveChain)', BooksFit, MarksBounded',
           UNCHANGED parentVars, UNCHANGED <<activeAdapter, logs>>, reports' \subseteq reports
    PROVE  PhaseStep
<1> DEFINE c == ActiveChain
           m == Message("EPOCH_NET_WITHDRAW", c, ParentChain, PreviousNonce, NoProtocol, a)
           r == CcipSendRecovery("EPOCH_NET_WITHDRAW", ParentChain, PreviousNonce,
                                 NoProtocol, a)
<1>1. /\ UNCHANGED <<epochNonce, previousEpoch, rebalance>>
      /\ ActiveChain' = c /\ PreviousNonce' = PreviousNonce
  BY DEF parentVars, ActiveChain, PreviousNonce
<1>2. c \in Chains /\ c \in ChildChains /\ HasAdapter(c) /\ a # 0
  BY ChainFacts DEF WithdrawPhase, Executing, WithdrawAndSend, CanWithdraw
<1>3. PositionsUnderAdapter'
  BY <1>2, PositionsMoved DEF PhaseInv, WithdrawAndSend
<1>4. WithdrawUnsent' \/ WithdrawInFlight' => Phase'
  BY <1>1 DEF Phase, ExecutingPhase, WithdrawPhase, Executing, AdapterOnlyAt, ActiveChain,
     ActiveStrategy
<1>5. WithdrawUnsent' \/ WithdrawInFlight'
  <2>1. CASE ccip' = ccip \union {m} /\ recovery' = [recovery EXCEPT ![c] = NoRecovery]
    <3>1. NoRecoveries' /\ ccip' = {m}
      BY <2>1, PhaseTypes DEF OnlyAt, NoRecoveries
    <3>2. m.amount # 0 /\ m = Message("EPOCH_NET_WITHDRAW", ActiveChain', ParentChain,
                                      PreviousNonce', NoProtocol, m.amount)
      BY <1>1, <1>2 DEF Message
    <3> HIDE DEF m
    <3>3. QED
      BY <3>1, <3>2 DEF WithdrawInFlight, InFlight
  <2>2. CASE recovery' = [recovery EXCEPT ![c] = r] /\ ccip' = ccip
    <3>1. recovery'[c] = r /\ \A d \in Chains : d # c => recovery'[d] = NoRecovery
      BY <1>2, <2>2, PhaseTypes DEF OnlyAt
    <3>2. recovery'[c] = CcipSendRecovery("EPOCH_NET_WITHDRAW", ParentChain, PreviousNonce',
                                 NoProtocol, recovery'[c].amount)
      BY <1>1, <3>1 DEF CcipSendRecovery
    <3> HIDE DEF r, c
    <3>3. QED
      BY <1>1, <2>2, <3>1, <3>2 DEF WithdrawUnsent, Recovering, HeldBy, OnlyAt
  <2>3. QED
    BY <2>1, <2>2 DEF WithdrawAndSend, CcipSend
<1>6. QED
  BY <1>1, <1>3, <1>4, <1>5, ActedStep DEF PhaseInv

\* A child withdraws for an epoch, or stores why it could not.
LEMMA ExecuteEpochWithdrawPhase ==
    ASSUME TypeInv, PhaseInv, NEW c \in ChildChains, NEW n \in Nat, NEW a \in Nat,
           ExecuteEpochWithdraw(c, n, a), WithdrawFits(c, n, a),
           UNCHANGED parentVars, reports' \subseteq reports
    PROVE  PhaseStep
<1>1. /\ a # 0 /\ n > lastHandledEpochNonce[c] /\ HandleEpochNonce(c, n)
      /\ UNCHANGED <<activeAdapter, logs, epochNonce, previousEpoch, rebalance>>
  BY DEF ExecuteEpochWithdraw, ExecuteEpochWithdrawGuard, FreshEpochNonce, parentVars
<1>2. /\ n = PreviousNonce /\ c = ActiveChain /\ previousEpoch.status = "EXECUTING"
      /\ previousEpoch.withdrawClaim = previousEpoch.deposit + a
  BY <1>1 DEF WithdrawFits
<1>3. ~HandledEpoch(ActiveChain) /\ previousEpoch.deposit < previousEpoch.withdrawClaim
  BY <1>1, <1>2, PhaseTypes DEF HandledEpoch
<1>4. WithdrawPhase /\ Calm
  BY <1>1, <1>2, WithdrawAwaited DEF PhaseInv, FreshEpochNonce, WithdrawWaiting
<1>5. MarksRise /\ MarksBounded' /\ HandledEpoch(ActiveChain)'
  BY <1>1, <1>2, EpochHandled DEF PhaseInv, ActiveChain
<1>6. BooksFit
  <2>1. ~DepositPhase /\ ~Rebalancing
    BY <1>3, <1>4, PhaseTypes DEF DepositPhase, WithdrawPhase, Executing, Rebalancing
  <2>2. QED
    BY <1>1, <1>5, <2>1, BooksRecordKept DEF PhaseInv
<1>7. CASE WithdrawAndSend(c, n, a)
  <2>1. OnlyAt(ActiveChain)
    BY <1>4 DEF OnlyAt, Calm, NoRecoveries
  <2>2. QED
    BY <1>1, <1>2, <1>4, <1>5, <1>6, <1>7, <2>1, WithdrawSentPhase
<1>8. CASE /\ recovery' = [recovery EXCEPT ![c] = EpochWithdrawRecovery(n, a)]
           /\ UNCHANGED <<position, ccip>>
  <2>1. ActiveChain' = c /\ PreviousNonce' = n /\ c \in Chains
    BY <1>1, <1>2, ChainFacts DEF ActiveChain, PreviousNonce
  <2>2. recovery'[c] = EpochWithdrawRecovery(PreviousNonce', recovery'[c].amount)
    BY <1>8, <2>1, PhaseTypes DEF EpochWithdrawRecovery, NoRecovery
  <2>3. Recovering(ActiveChain, EpochWithdrawRecovery(PreviousNonce, HeldBy(ActiveChain)))'
    BY <1>4, <1>8, <2>1, <2>2, PhaseTypes DEF Recovering, HeldBy, Calm, NoRecoveries
  <2>4. WithdrawRecovering'
    BY <1>5, <2>3 DEF WithdrawRecovering
  <2>5. Phase'
    BY <1>1, <1>4, <2>4 DEF Phase, ExecutingPhase, WithdrawPhase, Executing, AdapterOnlyAt,
       ActiveChain, ActiveStrategy
  <2>6. QED
    BY <1>1, <1>5, <1>6, <1>8, <2>5, PositionsUnchanged, ActedStep DEF PhaseInv
<1>9. QED
  BY <1>7, <1>8 DEF ExecuteEpochWithdraw

\* The old strategy's funds move within the chain, leave for the new one, or wait
\* to be sent.
LEMMA MovedPhase ==
    ASSUME TypeInv, PhaseInv, Rebalancing, NEW s \in Strategies, s = PendingStrategy,
           NEW c \in ChildChains, c = ActiveChain, AdapterOnlyAt(ActiveStrategy), OnlyAt(c),
           WithdrawAllAndMove(c, rebalance.nonce, s),
           HandledRebalance(c)', TargetUntouched', BooksFit, MarksBounded',
           UNCHANGED parentVars, reports' \subseteq reports
    PROVE  PhaseStep
<1> DEFINE a == position[ActiveOn(c)]
           held == Withdrawn(c, a)
<1>1. /\ UNCHANGED <<epochNonce, previousEpoch, rebalance>>
      /\ ActiveChain' = c /\ PendingChain' = s.chainSelector /\ PendingStrategy' = s
      /\ ActiveStrategy' = ActiveStrategy
  BY DEF parentVars, ActiveChain, PendingChain, PendingStrategy, ActiveStrategy
<1>2. c \in Chains /\ HasAdapter(c) /\ a # 0 /\ CanWithdraw(c, a)
  BY ChainFacts DEF WithdrawAllAndMove, CanWithdraw
<1>3. EmptyAt(held, c) /\ held \in [Strategies -> Nat]
  <2>1. a \in Nat
    BY <1>2, PhaseTypes, ActiveOnType DEF TypeInv, TypeOK
  <2>2. QED
    BY <1>2, <2>1, EmptyAfterWithdrawal, WithdrawnType DEF PhaseInv, TypeInv, TypeOK
<1>4. \A d \in Chains : d # c => activeAdapter[d] = NoProtocol /\ recovery[d] = NoRecovery
  BY DEF AdapterOnlyAt, OnlyAt, ActiveChain, ActiveStrategy
<1>5. (ActiveChain \in ChildChains => HandledRebalance(ActiveChain))'
  BY <1>1 DEF HandledRebalance
<1>6. CASE MoveWithinChain(c, rebalance.nonce, a, s)
  <2>1. PICK success \in BOOLEAN :
          ActivateAndDeposit(c, rebalance.nonce, s.protocolId, a, held, success)
    BY <1>6 DEF MoveWithinChain
  <2>2. s.chainSelector = c /\ ccip' = {}
    BY <1>6 DEF MoveWithinChain, OnlyAt
  <2> HIDE DEF a, held
  <2>3. QED
    BY <1>3, <1>4, <1>5, <2>1, <2>2, ArrivedPhase
<1>7. CASE MoveToOtherChain(c, rebalance.nonce, a, s)
  <2> DEFINE m == Message("REBALANCE", c, s.chainSelector, rebalance.nonce, s.protocolId, a)
             r == CcipSendRecovery("REBALANCE", s.chainSelector, rebalance.nonce,
                                   s.protocolId, a)
  <2>1. /\ s.chainSelector # c /\ logs' = logs /\ position' = held
        /\ activeAdapter' = [activeAdapter EXCEPT ![c] = NoProtocol]
        /\ CcipSend(c, "REBALANCE", s.chainSelector, rebalance.nonce, s.protocolId, a)
    BY <1>7 DEF MoveToOtherChain
  <2>2. NoAdapters'
    BY <1>4, <2>1, PhaseTypes DEF NoAdapters
  <2>3. PositionsUnderAdapter'
    BY <1>2, <1>3, <2>1, PositionsCleared
  <2>4. RebalanceUnsent' \/ RebalanceInFlight' => Phase'
    BY <1>1, <2>1 DEF Phase, RebalancingPhase, Rebalancing
  <2>5. RebalanceUnsent' \/ RebalanceInFlight'
    <3>1. CASE ccip' = ccip \union {m} /\ recovery' = [recovery EXCEPT ![c] = NoRecovery]
      <4>1. NoRecoveries' /\ ccip' = {m}
        BY <1>4, <3>1, PhaseTypes DEF OnlyAt, NoRecoveries
      <4>2. m.amount # 0 /\ m = Message("REBALANCE", ActiveChain', PendingChain',
                            rebalance'.nonce, PendingStrategy'.protocolId, m.amount)
        BY <1>1, <1>2 DEF Message
      <4> HIDE DEF m, a, held
      <4>3. QED
        BY <1>5, <2>2, <4>1, <4>2 DEF RebalanceInFlight, InFlight
    <3>2. CASE recovery' = [recovery EXCEPT ![c] = r] /\ ccip' = ccip
      <4>1. recovery'[c] = r /\ \A d \in Chains : d # c => recovery'[d] = NoRecovery
        BY <1>2, <1>4, <3>2, PhaseTypes
      <4>2. recovery'[c] = CcipSendRecovery("REBALANCE", PendingChain', rebalance'.nonce,
                              PendingStrategy'.protocolId, recovery'[c].amount)
        BY <1>1, <4>1 DEF CcipSendRecovery
      <4> HIDE DEF r, a, held
      <4>3. QED
        BY <1>1, <2>2, <3>2, <4>1, <4>2 DEF RebalanceUnsent, Recovering, HeldBy, OnlyAt,
           HandledRebalance
    <3>3. QED
      BY <2>1, <3>1, <3>2 DEF CcipSend
  <2> HIDE DEF a, held
  <2>6. QED
    BY <1>1, <2>1, <2>3, <2>4, <2>5, ActedStep DEF PhaseInv
<1>8. QED
  BY <1>6, <1>7 DEF WithdrawAllAndMove

\* A child gives up the position, or stores why it could not.
LEMMA ExecuteRebalancePhase ==
    ASSUME TypeInv, PhaseInv, NEW c \in ChildChains, NEW n \in Nat, NEW s,
           ExecuteRebalance(c, n, s), ExecutionFits(c, n, s),
           UNCHANGED parentVars, reports' \subseteq reports
    PROVE  PhaseStep
<1>1. /\ n > lastHandledRebalanceNonce[c] /\ HandleRebalanceNonce(c, n)
      /\ UNCHANGED <<epochNonce, previousEpoch, rebalance>>
  BY DEF ExecuteRebalance, ExecuteRebalanceGuard, FreshRebalanceNonce, parentVars
<1>2. /\ n = rebalance.nonce /\ c = ActiveChain /\ rebalance.state = "REBALANCING"
      /\ s = PendingStrategy
  BY <1>1 DEF ExecutionFits
<1>3. ~HandledRebalance(ActiveChain)
  BY <1>1, <1>2, PhaseTypes DEF HandledRebalance
<1>4. Rebalancing /\ TargetUntouched /\ RebalanceWaiting
  BY <1>1, <1>2, RebalanceAwaited DEF PhaseInv, FreshRebalanceNonce
<1>5. /\ MarksRise /\ MarksBounded' /\ HandledRebalance(c)'
      /\ \A d \in ChildChains : d # c => (HandledRebalance(d)' <=> HandledRebalance(d))
  BY <1>1, <1>2, <1>4, RebalanceHandled DEF PhaseInv
<1>6. BooksFit
  BY <1>1, <1>2, <1>3, <1>4, <1>5, BooksRecordKept
     DEF PhaseInv, DepositPhase, Executing, Rebalancing, RebalanceDeposited
<1>7. TargetUntouched'
  <2>1. PendingChain' = PendingChain /\ ActiveChain' = ActiveChain
    BY <1>1 DEF PendingChain, PendingStrategy, ActiveChain
  <2>2. PendingChain \in ChildChains \ {ActiveChain} =>
           ~(lastHandledRebalanceNonce'[PendingChain] = rebalance'.nonce)
    BY <1>2, <1>4, <1>5 DEF TargetUntouched, HandledRebalance
  <2>3. QED
    BY <2>1, <2>2 DEF TargetUntouched, HandledRebalance
<1>8. s \in Strategies /\ AdapterOnlyAt(ActiveStrategy) /\ OnlyAt(c)
  BY <1>2, <1>4 DEF Rebalancing, RebalanceWaiting, Calm, OnlyAt, NoRecoveries
<1>9. CASE WithdrawAllAndMove(c, n, s)
  BY <1>2, <1>4, <1>5, <1>6, <1>7, <1>8, <1>9, MovedPhase
<1>10. CASE /\ recovery' = [recovery EXCEPT ![c] = RebalanceWithdrawRecovery(n, s)]
            /\ UNCHANGED <<activeAdapter, position, ccip, logs>>
  <2>1. ActiveChain' = c /\ PendingStrategy' = s /\ c \in Chains
        /\ ActiveStrategy' = ActiveStrategy
    BY <1>1, <1>2, ChainFacts DEF ActiveChain, PendingStrategy, ActiveStrategy
  <2>2. Recovering(ActiveChain, RebalanceWithdrawRecovery(rebalance.nonce, PendingStrategy))'
    BY <1>1, <1>2, <1>8, <1>10, <2>1, PhaseTypes DEF Recovering, OnlyAt
  <2>3. RebalanceWithdrawing'
    <3>1. AdapterOnlyAt(ActiveStrategy)'
      BY <1>8, <1>10, <2>1 DEF AdapterOnlyAt
    <3>2. HandledRebalance(ActiveChain)' /\ ActiveChain' \in ChildChains
      BY <1>5, <2>1 DEF HandledRebalance
    <3>3. QED
      BY <2>2, <3>1, <3>2 DEF RebalanceWithdrawing
  <2>4. Phase'
    BY <1>1, <1>2, <1>4, <1>7, <1>8, <2>1, <2>3 DEF Phase, RebalancingPhase, Rebalancing
  <2>5. QED
    BY <1>1, <1>5, <1>6, <1>10, <2>4, PositionsUnchanged, ActedStep DEF PhaseInv
<1>11. QED
  BY <1>9, <1>10 DEF ExecuteRebalance

\* A keeper retries what the stored recovery says.
LEMMA ChildRecoversPhase ==
    ASSUME TypeInv, PhaseInv, NEW c \in ChildChains, ExecuteRecoveryOnChild(c),
           UNCHANGED parentVars, UNCHANGED reports
    PROVE  PhaseStep
<1>1. /\ UNCHANGED childVars /\ c \in Chains /\ c # ParentChain
      /\ UNCHANGED <<epochNonce, previousEpoch, rebalance>>
      /\ ActiveChain' = ActiveChain /\ PendingChain' = PendingChain
      /\ ActiveStrategy' = ActiveStrategy /\ PendingStrategy' = PendingStrategy
      /\ PreviousNonce' = PreviousNonce
  BY ChainFacts DEF ExecuteRecoveryOnChild, parentVars, ActiveChain, PendingChain,
     ActiveStrategy, PendingStrategy, PreviousNonce
<1>2. /\ \A d : HandledEpoch(d)' <=> HandledEpoch(d)
      /\ \A d : HandledRebalance(d)' <=> HandledRebalance(d)
  BY <1>1 DEF HandledEpoch, HandledRebalance, childVars
<1>3. MarksBounded' /\ MarksRise
  BY <1>1, MarksStay, MarksUnchanged DEF PhaseInv
<1>4. ~RequireNoRecovery(c)
  BY DEF ExecuteRecoveryOnChild, RecoverRebalanceDeposit, RecoverEpochDeposit,
     RecoverEpochWithdraw, RecoverRebalanceWithdraw, RecoverCcipSend, RequireNoRecovery
<1>5. OnlyAt(c)
  BY <1>1, <1>4, RecoveringPhase DEF PhaseInv, OnlyAt
<1>6. BooksFit
  <2>1. ~Calm
    BY <1>1, <1>4, NoRecoveriesFacts DEF Calm
  <2>2. QED
    BY <1>1, <1>3, <2>1, BooksRecordKept DEF PhaseInv, DepositDone, RebalanceDeposited
<1>7. ASSUME recovery' = [recovery EXCEPT ![c] = NoRecovery]
      PROVE  NoRecoveries'
  BY <1>5, <1>7, PhaseTypes DEF OnlyAt, NoRecoveries
<1> USE <1>1 DEF PhaseInv
<1>8. CASE RecoverRebalanceDeposit(c)
  <2>1. Rebalancing /\ RebalanceDepositing /\ c = PendingChain
        /\ recovery[c].nonce = rebalance.nonce
    BY <1>4, <1>8, RecoveryByMode DEF RecoverRebalanceDeposit
  <2>2. /\ recovery' = [recovery EXCEPT ![c] = NoRecovery]
        /\ logs' = logs \union RebalanceDepositLog(c, rebalance.nonce, recovery[c].amount)
        /\ position' = Deposited(position, ActiveOn(c), recovery[c].amount)
        /\ HasAdapter(c)
        /\ UNCHANGED <<activeAdapter, ccip>>
    BY <1>8, <2>1 DEF RecoverRebalanceDeposit
  <2>3. RebalanceDeposited'
    <3>1. AdapterOnlyAt(PendingStrategy)' /\ Calm'
      BY <1>7, <2>1, <2>2 DEF RebalanceDepositing, AdapterOnlyAt, Calm, Recovering
    <3>2. (ActiveChain \in ChildChains => HandledRebalance(ActiveChain))'
      BY <1>2, <2>1 DEF RebalanceDepositing, HandledRebalance, childVars
    <3>3. HandledRebalance(PendingChain)'
      BY <1>2, <2>1 DEF RebalanceDepositing, HandledRebalance, childVars
    <3>4. QED
      BY <2>1, <3>1, <3>2, <3>3 DEF RebalanceDeposited
  <2>4. Phase'
    BY <2>1, <2>3 DEF Phase, RebalancingPhase, Rebalancing
  <2>5. \A l : l \in RebalanceDepositLog(c, rebalance.nonce, recovery[c].amount) => LogFits(l)'
    BY <2>1, <2>3, PhaseTypes DEF RebalanceDepositLog, LogFits, RebalanceConfirmable,
       Rebalancing
  <2>6. \A l \in logs' : l \in logs \/ LogFits(l)'
    BY <2>2, <2>5
  <2>7. PositionsUnderAdapter'
    BY <2>2, PositionsMoved
  <2>8. QED
    BY <1>3, <1>6, <2>4, <2>6, <2>7, ActedStep
<1>9. CASE RecoverEpochDeposit(c)
  <2>1. DepositPhase /\ DepositRecovering /\ c = ActiveChain
        /\ recovery[c].nonce = PreviousNonce
    BY <1>4, <1>9, RecoveryByMode DEF RecoverEpochDeposit
  <2>2. /\ recovery' = [recovery EXCEPT ![c] = NoRecovery]
        /\ logs' = logs \union {EpochDepositLog(c, PreviousNonce, recovery[c].amount)}
        /\ position' = Deposited(position, ActiveOn(c), recovery[c].amount)
        /\ HasAdapter(c)
        /\ UNCHANGED <<activeAdapter, ccip>>
    BY <1>9, <2>1 DEF RecoverEpochDeposit
  <2>3. DepositDone'
    <3>1. Calm'
      BY <1>7, <2>1, <2>2 DEF DepositRecovering, Calm, Recovering
    <3>2. HandledEpoch(ActiveChain)'
      BY <2>1 DEF DepositRecovering, HandledEpoch, childVars
    <3>3. QED
      BY <3>1, <3>2 DEF DepositDone
  <2>4. Phase'
    BY <2>1, <2>2, <2>3 DEF Phase, ExecutingPhase, DepositPhase, Executing, AdapterOnlyAt
  <2>5. \A l : l = EpochDepositLog(c, PreviousNonce, recovery[c].amount) => LogFits(l)'
    BY <2>3, PhaseTypes DEF EpochDepositLog, LogFits, DepositConfirmable
  <2>6. \A l \in logs' : l \in logs \/ LogFits(l)'
    BY <2>2, <2>5
  <2>7. PositionsUnderAdapter'
    BY <2>2, PositionsMoved
  <2>8. QED
    BY <1>3, <1>6, <2>4, <2>6, <2>7, ActedStep
<1>10. CASE RecoverEpochWithdraw(c)
  <2>1. WithdrawPhase /\ WithdrawRecovering /\ c = ActiveChain
        /\ recovery[c].nonce = PreviousNonce
    BY <1>4, <1>10, RecoveryByMode DEF RecoverEpochWithdraw
  <2>2. PICK a : a = recovery[c].amount
    OBVIOUS
  <2>3. WithdrawAndSend(ActiveChain, PreviousNonce, a) /\ UNCHANGED <<activeAdapter, logs>>
    BY <1>10, <2>1, <2>2 DEF RecoverEpochWithdraw
  <2>4. HandledEpoch(ActiveChain)'
    BY <2>1 DEF WithdrawRecovering, HandledEpoch, childVars
  <2>5. QED
    BY <1>3, <1>5, <1>6, <2>1, <2>3, <2>4, WithdrawSentPhase
<1>11. CASE RecoverRebalanceWithdraw(c)
  <2>1. OutgoingPhase /\ RebalanceWithdrawing /\ c = ActiveChain
        /\ recovery[c].nonce = rebalance.nonce /\ recovery[c].target = PendingStrategy
    BY <1>4, <1>11, RecoveryByMode DEF RecoverRebalanceWithdraw
  <2>2. PICK s \in Strategies : s = PendingStrategy
    BY <2>1 DEF OutgoingPhase, Rebalancing
  <2>3. WithdrawAllAndMove(c, rebalance.nonce, s)
    BY <1>11, <2>1, <2>2 DEF RecoverRebalanceWithdraw
  <2>4. HandledRebalance(c)' /\ TargetUntouched'
    BY <2>1 DEF RebalanceWithdrawing, HandledRebalance, OutgoingPhase, TargetUntouched,
       childVars
  <2>5. QED
    BY <1>3, <1>5, <1>6, <2>1, <2>2, <2>3, <2>4, MovedPhase
       DEF RebalanceWithdrawing, OutgoingPhase
<1>12. CASE RecoverCcipSend(c)
  <2> DEFINE r == recovery[c]
             m == Message(r.ccipTx, c, r.target.chainSelector, r.nonce, r.target.protocolId,
                          r.amount)
  <2>1. /\ ccip' = {m} /\ m.amount # 0 /\ r.amount # 0
        /\ recovery' = [recovery EXCEPT ![c] = NoRecovery]
        /\ UNCHANGED <<activeAdapter, position, logs>>
    BY <1>5, <1>12 DEF RecoverCcipSend, OnlyAt, ValidateCcipSend, Message
  <2>2. NoRecoveries'
    BY <1>7, <2>1
  <2>3. PositionsUnderAdapter'
    BY <2>1, PositionsUnchanged
  <2>4. CASE /\ WithdrawPhase /\ WithdrawUnsent /\ c = ActiveChain
             /\ r = CcipSendRecovery("EPOCH_NET_WITHDRAW", ParentChain, PreviousNonce,
                                     NoProtocol, HeldBy(c))
    <3>1. m = Message("EPOCH_NET_WITHDRAW", ActiveChain', ParentChain, PreviousNonce',
                      NoProtocol, m.amount)
      BY <2>4 DEF CcipSendRecovery, Strategy, Message
    <3>2. HandledEpoch(ActiveChain)'
      BY <2>4 DEF WithdrawUnsent, HandledEpoch, childVars
    <3> HIDE DEF m, r
    <3>3. WithdrawInFlight'
      BY <2>1, <2>2, <3>1, <3>2 DEF WithdrawInFlight, InFlight
    <3>4. Phase'
      BY <2>1, <2>4, <3>3 DEF Phase, ExecutingPhase, WithdrawPhase, Executing, AdapterOnlyAt
    <3>5. QED
      BY <1>3, <1>6, <2>1, <2>3, <3>4, ActedStep
  <2>5. CASE /\ BetweenPhase /\ RebalanceUnsent /\ c = ActiveChain
             /\ r = CcipSendRecovery("REBALANCE", PendingChain, rebalance.nonce,
                                     PendingStrategy.protocolId, HeldBy(c))
    <3>1. m = Message("REBALANCE", ActiveChain', PendingChain', rebalance'.nonce,
                      PendingStrategy'.protocolId, m.amount)
      BY <2>5 DEF CcipSendRecovery, Strategy, Message
    <3>2. HandledRebalance(ActiveChain)' /\ TargetUntouched'
      BY <2>5 DEF RebalanceUnsent, HandledRebalance, BetweenPhase, OutgoingPhase,
         TargetUntouched, childVars
    <3> HIDE DEF m, r
    <3>3. NoAdapters'
      BY <2>1, <2>5 DEF RebalanceUnsent, NoAdapters
    <3>4. RebalanceInFlight'
      BY <2>1, <2>2, <3>1, <3>2, <3>3 DEF RebalanceInFlight, InFlight
    <3>5. Phase'
      BY <2>5, <3>2, <3>4 DEF Phase, RebalancingPhase, BetweenPhase, OutgoingPhase, Rebalancing
    <3>6. QED
      BY <1>3, <1>6, <2>1, <2>3, <3>5, ActedStep
  <2>6. QED
    BY <1>4, <1>12, <2>4, <2>5, RecoveryByMode DEF RecoverCcipSend
<1>13. QED
  BY <1>8, <1>9, <1>10, <1>11, <1>12 DEF ExecuteRecoveryOnChild

\* The parent's one recovery, the deposit of rebalanced funds.
LEMMA ParentRecoversPhase ==
    ASSUME TypeInv, PhaseInv, ParentRecovers
    PROVE  PhaseStep
<1> DEFINE c == ParentChain
<1>1. /\ RecoverRebalanceDeposit(c) /\ FinalizeRebalance(PendingStrategy)
      /\ UNCHANGED childVars /\ UNCHANGED reports
  BY DEF ParentRecovers, ExecuteRecoveryOnParent, PendingStrategy, creVars
<1>2. ~RequireNoRecovery(c) /\ c \in Chains
  BY <1>1, ChainFacts DEF RecoverRebalanceDeposit, RequireNoRecovery
<1>3. Rebalancing /\ RebalanceDepositing /\ c = PendingChain
  BY <1>1, <1>2, RecoveryByMode DEF PhaseInv, RecoverRebalanceDeposit
<1>4. PICK s \in Strategies : s = PendingStrategy
  BY <1>3 DEF Rebalancing
<1>5. /\ recovery' = [recovery EXCEPT ![c] = NoRecovery] /\ logs' = logs
      /\ position' = Deposited(position, ActiveOn(c), recovery[c].amount) /\ HasAdapter(c)
      /\ UNCHANGED <<activeAdapter, ccip>>
  BY <1>1 DEF RecoverRebalanceDeposit, RebalanceDepositLog
<1>6. AdapterOnlyAt(s)'
  BY <1>3, <1>4, <1>5 DEF RebalanceDepositing, AdapterOnlyAt
<1>7. Calm'
  BY <1>2, <1>5, RecoveringPhase, PhaseTypes DEF Calm, NoRecoveries, PhaseInv
<1>8. /\ Phase' /\ BooksFit /\ MarksBounded'
      /\ (epochNonce = 1 => previousEpoch.status = "NONE")'
  BY <1>1, <1>3, <1>4, <1>6, <1>7, FinalizedPhase DEF Rebalancing, RebalanceDepositing
<1>9. PositionsUnderAdapter'
  BY <1>2, <1>5, PositionsMoved DEF PhaseInv
<1>10. QED
  BY <1>1, <1>5, <1>8, <1>9, ActedStep

----------------------------------------------------------------------------
(* Every step of the deployment. *)

\* The deployment starts in phase Undeployed.
LEMMA InitPhase == Init => PhaseInv
<1> SUFFICES ASSUME Init PROVE PhaseInv
  OBVIOUS
<1>1. /\ rebalance = [nonce |-> 1, state |-> "NONE", activeStrategy |-> NoStrategy,
                      pendingStrategy |-> NoStrategy]
      /\ epochNonce = 1 /\ previousEpoch.status = "NONE" /\ totalShares = 0
      /\ activeAdapter = [c \in Chains |-> NoProtocol]
      /\ recovery = [c \in Chains |-> NoRecovery]
      /\ position = [s \in Strategies |-> 0]
      /\ ccip = {} /\ logs = {} /\ reports = {}
      /\ lastHandledEpochNonce = [c \in ChildChains |-> 0]
      /\ lastHandledRebalanceNonce = [c \in ChildChains |-> 0]
  BY DEF Init, BaseVaultInit, ParentVaultInit, ChildVaultInit, CreWorkflowInit
<1>2. Phase
  BY <1>1 DEF Phase, Undeployed, ActiveStrategy, NoAdapters, Calm, NoRecoveries
<1>3. MarksBounded
  BY <1>1 DEF MarksBounded, PreviousNonce, HandledRebalance
<1>4. PositionsUnderAdapter
  BY <1>1 DEF PositionsUnderAdapter
<1>5. QED
  BY <1>1, <1>2, <1>3, <1>4 DEF PhaseInv

\* Whatever report the forwarder delivers, however late.
LEMMA ForwardReportPhase ==
    ASSUME TypeInv, PhaseInv, NEW r \in reports, ForwardToParent(r) \/ ForwardToChild(r)
    PROVE  PhaseStep
<1>1. r.nonce \in Nat /\ r.amount \in Nat /\ ReportFits(r)
  BY DEF TypeInv, TypeOK, CreWorkflowTypeOK, Reports, PhaseInv
<1>2. reports' \subseteq reports
  BY UseUpShrinks DEF ForwardToParent, ForwardToChild
<1>3. CASE ForwardToParent(r)
  <2>1. UNCHANGED childVars
    BY <1>3 DEF ForwardToParent
  <2>2. CASE CloseEpoch(r.nonce, r.amount)
    BY <1>1, <1>2, <2>1, <2>2, CloseEpochPhase
  <2>3. CASE r.call = "completeEpochDeposit" /\ CompleteEpochDeposit(r.nonce, r.amount)
    BY <1>1, <1>2, <2>1, <2>3, CompleteEpochDepositPhase DEF ReportFits, CompletionFits
  <2>4. CASE InitiateRebalance(r.nonce, r.strategy)
    BY <1>2, <2>1, <2>4, InitiateRebalancePhase
  <2>5. CASE r.call = "completeRebalance" /\ CompleteRebalance(r.nonce)
    BY <1>1, <1>2, <2>1, <2>5, CompleteRebalancePhase DEF ReportFits
  <2>6. QED
    BY <1>3, <2>2, <2>3, <2>4, <2>5 DEF ForwardToParent
<1>4. CASE ForwardToChild(r)
  <2>1. UNCHANGED parentVars /\ r.target \in ChildChains
    BY <1>4 DEF ForwardToChild
  <2>2. CASE /\ r.call = "executeEpochWithdraw"
             /\ ExecuteEpochWithdraw(r.target, r.nonce, r.amount)
    BY <1>1, <1>2, <2>1, <2>2, ExecuteEpochWithdrawPhase DEF ReportFits
  <2>3. CASE /\ r.call = "executeRebalance"
             /\ ExecuteRebalance(r.target, r.nonce, r.strategy)
    BY <1>1, <1>2, <2>1, <2>3, ExecuteRebalancePhase DEF ReportFits
  <2>4. QED
    BY <1>4, <2>2, <2>3 DEF ForwardToChild
<1>5. QED
  BY <1>3, <1>4

\* Whatever message CCIP executes.
LEMMA DeliverMessagePhase ==
    ASSUME TypeInv, PhaseInv, NEW m \in ccip, DeliverToParent(m) \/ DeliverToChild(m)
    PROVE  PhaseStep
<1>1. CASE DeliverToParent(m)
  BY <1>1, ReceiveEpochNetWithdrawPhase, ReceiveRebalanceOnParentPhase
     DEF DeliverToParent, creVars
<1>2. CASE DeliverToChild(m)
  BY <1>2, ReceiveEpochNetDepositPhase, ReceiveRebalanceOnChildPhase
     DEF DeliverToChild, creVars
<1>3. QED
  BY <1>1, <1>2

\* Every step keeps PhaseInv and what fitted.
LEMMA NextPhaseStep ==
    ASSUME TypeInv, PhaseInv, [Next]_vars
    PROVE  PhaseStep
<1>1. CASE AdminSetsAdapter
  BY <1>1, AdminPhase
<1>2. CASE TimePasses \/ PauserActs \/ UNCHANGED vars
  BY <1>2, ClockAndPauserPhase
<1>3. CASE EpochCronReadsParent \/ EpochCronReadsChildren \/ RebalanceCronRuns
  BY <1>3, CronPhase
<1>4. CASE WorkflowHandlesLog
  BY <1>4, HandleLogPhase DEF WorkflowHandlesLog
<1>5. CASE ForwardReport
  BY <1>5, ForwardReportPhase DEF ForwardReport
<1>6. CASE DeliverMessage
  BY <1>6, DeliverMessagePhase DEF DeliverMessage
<1>7. CASE ParentRecovers
  BY <1>7, ParentRecoversPhase
<1>8. CASE ChildRecovers
  BY <1>8, ChildRecoversPhase DEF ChildRecovers, creVars
<1>9. QED
  BY <1>1, <1>2, <1>3, <1>4, <1>5, <1>6, <1>7, <1>8 DEF Next

\* Every step keeps PhaseInv.
LEMMA NextPhase == TypeInv /\ PhaseInv /\ [Next]_vars => PhaseInv'
BY NextPhaseStep DEF PhaseStep

\* The deployment is always in the phase the parent records, with one message,
\* one recovery or one report under way, whatever fails, is delayed or replayed.
THEOREM PhaseCorrect == Spec => []PhaseInv
<1>1. Init => PhaseInv
  BY InitPhase
<1>2. TypeInv /\ PhaseInv /\ [Next]_vars => PhaseInv'
  BY NextPhase
<1>3. QED
  BY <1>1, <1>2, TypeInvariance, PTL DEF Spec

----------------------------------------------------------------------------
(* What follows from the phase. *)

\* In a phase at most one vault is in recovery.
LEMMA OneRecoveryNow == PhaseInv => AtMostOneRecovery
<1> SUFFICES ASSUME PhaseInv, NEW c \in Chains, NEW d \in Chains,
                    ~RequireNoRecovery(c), ~RequireNoRecovery(d)
             PROVE  c = d
  BY DEF AtMostOneRecovery
<1>1. d # c => recovery[d] = NoRecovery
  BY RecoveringPhase DEF PhaseInv
<1>2. QED
  BY <1>1 DEF RequireNoRecovery, NoRecovery

\* No two vaults are ever in recovery together.
THEOREM OneRecovery == Spec => []AtMostOneRecovery
BY OneRecoveryNow, PhaseCorrect, PTL

\* At most one adapter is set in the whole deployment.
LEMMA OneAdapter ==
    ASSUME Phase
    PROVE  NoAdapters \/ \E s \in Strategies : AdapterOnlyAt(s)
BY PhaseCases DEF Undeployed, Quiet, DepositPhase, WithdrawPhase, BetweenPhase, OutgoingPhase,
   Executing, Rebalancing, RebalanceWaiting, RebalanceWithdrawing, RebalanceUnsent,
   RebalanceInFlight, RebalanceDepositing, RebalanceDeposited

\* In a phase all assets are under the one adapter.
LEMMA FundsNow == PhaseInv => FundsUnderActiveAdapter
<1> SUFFICES ASSUME PhaseInv PROVE FundsUnderActiveAdapter
  OBVIOUS
<1>1. \A c, d \in Chains : HasAdapter(c) /\ HasAdapter(d) => c = d
  BY OneAdapter, AdapterFacts DEF PhaseInv, NoAdapters, HasAdapter
<1>2. QED
  BY <1>1 DEF PhaseInv, PositionsUnderAdapter, FundsUnderActiveAdapter

\* All assets are where the one active adapter is.
THEOREM FundsFollowAdapter == Spec => []FundsUnderActiveAdapter
BY FundsNow, PhaseCorrect, PTL

\* In a phase outside a rebalance the record and the adapters agree.
LEMMA RecordNow == PhaseInv => SettledAtActiveStrategy
<1> SUFFICES ASSUME PhaseInv, rebalance.state = "NONE", ActiveStrategy # NoStrategy
             PROVE  AdapterOnlyAt(ActiveStrategy)
  BY DEF SettledAtActiveStrategy, AdapterOnlyAt, ActiveChain, ActiveStrategy
<1>1. QED
  BY DEF PhaseInv, Phase, Undeployed, Quiet, ExecutingPhase

\* Outside a rebalance the parent's record and the adapters agree.
THEOREM RecordMatchesAdapters == Spec => []SettledAtActiveStrategy
BY RecordNow, PhaseCorrect, PTL

\* In a phase every message finds its vault ready for it.
LEMMA MessagesNow == TypeInv /\ PhaseInv => NoStrandedMessage
<1> SUFFICES ASSUME TypeInv, PhaseInv, NEW m \in ccip, ~paused[m.destination]
             PROVE  Acceptable(m)
  BY DEF NoStrandedMessage
<1>1. m.amount # 0 /\ \A c \in Chains : RequireNoRecovery(c)
  BY InFlightPhase, NoRecoveriesFacts DEF PhaseInv
<1>2. CASE /\ DepositPhase /\ DepositInFlight
           /\ m = Message("EPOCH_NET_DEPOSIT", ParentChain, ActiveChain,
                          PreviousNonce, NoProtocol, m.amount)
  <2>1. /\ m.ccipTx = "EPOCH_NET_DEPOSIT" /\ m.source = ParentChain
        /\ m.destination = ActiveChain /\ m.nonce = PreviousNonce
    BY <1>2, MessageFields
  <2>2. ActiveChain \in ChildChains /\ ActiveChain \in Chains /\ ActiveChain # ParentChain
    BY <1>2, ChainFacts DEF DepositPhase, Executing
  <2>3. FreshEpochNonce(ActiveChain, PreviousNonce)
    BY <1>2, <2>2, PhaseTypes DEF DepositInFlight, HandledEpoch, FreshEpochNonce, PhaseInv,
       MarksBounded
  <2>4. HasAdapter(ActiveChain)
    BY <1>2, <2>2, AdapterFacts DEF DepositPhase, Executing, ActiveChain, ActiveStrategy
  <2>5. QED
    BY <1>1, <2>1, <2>2, <2>3, <2>4, ChainFacts DEF Acceptable, ReceivableBy,
       EpochDepositReceivable
<1>3. CASE /\ WithdrawPhase /\ WithdrawInFlight
           /\ m = Message("EPOCH_NET_WITHDRAW", ActiveChain, ParentChain,
                          PreviousNonce, NoProtocol, m.amount)
  <2>1. /\ m.ccipTx = "EPOCH_NET_WITHDRAW" /\ m.source = ActiveChain
        /\ m.destination = ParentChain /\ m.nonce = PreviousNonce
    BY <1>3, MessageFields
  <2>2. ActiveChain \in Chains /\ ActiveChain # ParentChain
    BY <1>3, ChainFacts DEF WithdrawPhase, Executing
  <2>3. QED
    BY <1>1, <1>3, <2>1, <2>2, ChainFacts DEF Acceptable, ParentReceivable, ReceivableBy,
       NetWithdrawReceivable, WithdrawPhase, Executing, PreviousNonce, ActiveChain
<1>4. CASE /\ BetweenPhase /\ RebalanceInFlight
           /\ m = Message("REBALANCE", ActiveChain, PendingChain, rebalance.nonce,
                          PendingStrategy.protocolId, m.amount)
  <2>1. /\ m.ccipTx = "REBALANCE" /\ m.source = ActiveChain
        /\ m.destination = PendingChain /\ m.nonce = rebalance.nonce
        /\ m.protocolId = PendingStrategy.protocolId
    BY <1>4, MessageFields
  <2>2. /\ ActiveChain \in Chains /\ PendingChain \in Chains /\ ActiveChain # PendingChain
        /\ rebalance.state = "REBALANCING"
    BY <1>4, StrategyFacts DEF BetweenPhase, OutgoingPhase, Rebalancing, ActiveChain,
       PendingChain,
       ActiveStrategy
  <2>3. PendingChain \in ChildChains => FreshRebalanceNonce(PendingChain, rebalance.nonce)
    BY <1>4, <2>2, PhaseTypes DEF BetweenPhase, OutgoingPhase, TargetUntouched,
       HandledRebalance, FreshRebalanceNonce, PhaseInv, MarksBounded
  <2>4. QED
    BY <1>1, <2>1, <2>2, <2>3, ChainFacts DEF Acceptable, ParentReceivable, ReceivableBy,
       RebalanceReceivable, ChildRebalanceReceivable, ActiveChain, PendingStrategy
<1>5. QED
  BY <1>2, <1>3, <1>4, InFlightPhase DEF PhaseInv

\* Every message in flight finds its vault ready for it.
THEOREM MessagesAccepted == Spec => []NoStrandedMessage
BY MessagesNow, PhaseCorrect, TypeInvariance, PTL

\* In a phase a stored recovery is the next part of the operation in progress.
LEMMA RecoveriesNow == TypeInv /\ PhaseInv => RecoveryContinuesOperation
<1> SUFFICES ASSUME TypeInv, PhaseInv PROVE RecoveryContinuesOperation
  OBVIOUS
<1> USE DEF PhaseInv
<1>1. ASSUME NEW c \in Chains, recovery[c].mode = "REBALANCE_DEPOSIT"
      PROVE  /\ rebalance.state = "REBALANCING" /\ recovery[c].nonce = rebalance.nonce
             /\ rebalance.pendingStrategy = ActiveOn(c)
  <2>1. Rebalancing /\ RebalanceDepositing /\ c = PendingChain
        /\ recovery[c].nonce = rebalance.nonce
    BY <1>1, RecoveryByMode DEF RequireNoRecovery
  <2>2. ActiveOn(c) = PendingStrategy
    BY <2>1, AdapterFacts DEF Rebalancing, RebalanceDepositing, PendingChain
  <2>3. QED
    BY <2>1, <2>2 DEF Rebalancing, PendingStrategy
<1>2. ASSUME NEW c \in Chains, recovery[c].mode = "REBALANCE_WITHDRAW"
      PROVE  /\ rebalance.state = "REBALANCING" /\ recovery[c].nonce = rebalance.nonce
             /\ c = ActiveChain /\ recovery[c].target = rebalance.pendingStrategy
  BY <1>2, RecoveryByMode DEF RequireNoRecovery, OutgoingPhase, Rebalancing, PendingStrategy
<1>3. Executing => MatchesExecutingEpoch(PreviousNonce) /\ HasAdapter(ActiveChain)
  BY PhaseTypes, AdapterFacts, StrategyFacts DEF Executing, MatchesExecutingEpoch,
     PreviousNonce,
     ActiveChain, ActiveStrategy
<1>4. ASSUME NEW c \in Chains, recovery[c].mode \in {"EPOCH_DEPOSIT", "EPOCH_WITHDRAW"}
      PROVE  MatchesExecutingEpoch(recovery[c].nonce) /\ c = ActiveChain /\ HasAdapter(c)
  BY <1>3, <1>4, RecoveryByMode DEF RequireNoRecovery, DepositPhase, WithdrawPhase
<1>5. ASSUME NEW c \in Chains, recovery[c].mode = "CCIP_SEND"
      PROVE  \/ /\ recovery[c].ccipTx = "EPOCH_NET_WITHDRAW"
                /\ MatchesExecutingEpoch(recovery[c].nonce) /\ c = ActiveChain
             \/ /\ recovery[c].ccipTx = "REBALANCE"
                /\ rebalance.state = "REBALANCING" /\ recovery[c].nonce = rebalance.nonce
                /\ recovery[c].target = rebalance.pendingStrategy
  <2>1. CASE /\ WithdrawPhase /\ c = ActiveChain
             /\ recovery[c] = CcipSendRecovery("EPOCH_NET_WITHDRAW", ParentChain,
                                PreviousNonce, NoProtocol, HeldBy(c))
    BY <1>3, <2>1, RecoveryFields DEF WithdrawPhase
  <2>2. CASE /\ BetweenPhase
             /\ recovery[c] = CcipSendRecovery("REBALANCE", PendingChain,
                                rebalance.nonce, PendingStrategy.protocolId, HeldBy(c))
    <3>1. Strategy(PendingStrategy.protocolId, PendingChain) = PendingStrategy
      BY <2>2, StrategyFacts DEF BetweenPhase, OutgoingPhase, Rebalancing, PendingChain
    <3>2. QED
      BY <2>2, <3>1, RecoveryFields DEF BetweenPhase, OutgoingPhase, Rebalancing,
         PendingStrategy
  <2>3. QED
    BY <1>5, <2>1, <2>2, RecoveryByMode DEF RequireNoRecovery
<1>6. QED
  BY <1>1, <1>2, <1>4, <1>5 DEF RecoveryContinuesOperation

\* A stored recovery continues the operation the parent has in progress.
THEOREM RecoveriesBelong == Spec => []RecoveryContinuesOperation
BY RecoveriesNow, PhaseCorrect, TypeInvariance, PTL

\* With no vault paused, the workflow is never blocked on a log it must act on.
THEOREM LogsNotLost == Spec => []ActionableLogNotBlocked
<1>1. TypeInv /\ PhaseInv => ActionableLogNotBlocked
  <2> SUFFICES ASSUME TypeInv, PhaseInv, \A c \in Chains : ~paused[c],
                      NEW l \in logs, Continuation(l) # {}
               PROVE  ~DeploymentBlocked
    BY DEF ActionableLogNotBlocked
  <2>1. LogFits(l) /\ l.nonce \in Nat
    BY PhaseTypes DEF PhaseInv
  <2>2. CASE OnRebalanceInitiated(l)
    <3>1. RebalanceWaiting
      BY <2>1, <2>2, RebalanceAwaited DEF PhaseInv, OnRebalanceInitiated, LogFits,
         InitiationFits
    <3>2. QED
      BY <3>1, NoRecoveriesFacts DEF RebalanceWaiting, Calm, DeploymentBlocked, VaultBlocked
  <2>3. CASE OnEpochWithdrawExecuting(l)
    <3>1. l.amount \in Nat
      BY DEF TypeInv, TypeOK, BaseVaultTypeOK, Logs
    <3>2. WithdrawWaiting
      BY <2>3, <3>1, WithdrawAwaited DEF PhaseInv, OnEpochWithdrawExecuting,
         MatchesExecutingEpoch, PreviousNonce
    <3>3. QED
      BY <3>2, NoRecoveriesFacts DEF WithdrawWaiting, Calm, DeploymentBlocked, VaultBlocked
  <2>4. CASE OnRebalanceDepositSuccess(l)
    BY <2>1, <2>4, NoRecoveriesFacts DEF OnRebalanceDepositSuccess, LogFits,
       RebalanceConfirmable, RebalanceDeposited, Calm, DeploymentBlocked, VaultBlocked
  <2>5. CASE OnEpochDepositToStrategySuccess(l)
    BY <2>1, <2>5, NoRecoveriesFacts DEF OnEpochDepositToStrategySuccess, LogFits,
       MatchesExecutingEpoch, DepositConfirmable, DepositDone, PreviousNonce, Calm,
       DeploymentBlocked, VaultBlocked
  <2>6. QED
    BY <2>2, <2>3, <2>4, <2>5 DEF Continuation
<1>2. QED
  BY <1>1, PhaseCorrect, TypeInvariance, PTL

\* In a phase a report is refused by its nonce, or fits.
LEMMA ReportsNow == TypeInv /\ PhaseInv => ReportFitsOperation
<1> SUFFICES ASSUME TypeInv, PhaseInv, NEW r \in reports
             PROVE  /\ /\ r.call = "executeEpochWithdraw"
                       /\ FreshEpochNonce(r.target, r.nonce)
                       => /\ MatchesExecutingEpoch(r.nonce)
                          /\ r.target = ActiveChain
                          /\ previousEpoch.withdrawClaim = previousEpoch.deposit + r.amount
                          /\ ~paused[r.target] =>
                                ExecuteEpochWithdrawGuard(r.target, r.nonce, r.amount)
                    /\ /\ r.call = "executeRebalance"
                       /\ FreshRebalanceNonce(r.target, r.nonce)
                       => /\ rebalance.state = "REBALANCING" /\ r.nonce = rebalance.nonce
                          /\ r.target = ActiveChain /\ r.strategy = rebalance.pendingStrategy
                          /\ ~paused[r.target] =>
                                ExecuteRebalanceGuard(r.target, r.nonce, r.strategy)
                    /\ /\ r.call = "completeEpochDeposit" /\ MatchesExecutingEpoch(r.nonce)
                       /\ ~paused[ParentChain]
                       => CompleteEpochDepositGuard(r.nonce, r.amount)
                    /\ /\ r.call = "completeRebalance" /\ r.nonce = rebalance.nonce
                       /\ ~paused[ParentChain]
                       => CompleteRebalanceGuard(r.nonce)
  BY DEF ReportFitsOperation
<1>1. ReportFits(r) /\ r.nonce \in Nat /\ r.amount \in Nat
  BY DEF PhaseInv, TypeInv, TypeOK, CreWorkflowTypeOK, Reports
<1>2. ASSUME r.call = "executeEpochWithdraw", FreshEpochNonce(r.target, r.nonce)
      PROVE  /\ MatchesExecutingEpoch(r.nonce)
             /\ r.target = ActiveChain
             /\ previousEpoch.withdrawClaim = previousEpoch.deposit + r.amount
             /\ ~paused[r.target] => ExecuteEpochWithdrawGuard(r.target, r.nonce, r.amount)
  <2>1. /\ r.target \in ChildChains /\ r.nonce = PreviousNonce /\ r.target = ActiveChain
        /\ previousEpoch.status = "EXECUTING" /\ r.amount # 0
        /\ previousEpoch.withdrawClaim = previousEpoch.deposit + r.amount
    BY <1>1, <1>2 DEF ReportFits, WithdrawFits, FreshEpochNonce
  <2>2. Executing /\ WithdrawWaiting
    BY <1>1, <1>2, <2>1, WithdrawAwaited DEF PhaseInv
  <2>3. RequireNoRecovery(r.target) /\ HasAdapter(r.target)
    BY <2>1, <2>2, ChainFacts, NoRecoveriesFacts, AdapterFacts
       DEF WithdrawWaiting, Calm, Executing, ActiveChain, ActiveStrategy
  <2>4. MatchesExecutingEpoch(r.nonce)
    BY <2>1, PhaseTypes DEF MatchesExecutingEpoch, PreviousNonce, PhaseInv
  <2>5. QED
    BY <1>2, <2>1, <2>3, <2>4 DEF ExecuteEpochWithdrawGuard
<1>3. ASSUME r.call = "executeRebalance", FreshRebalanceNonce(r.target, r.nonce)
      PROVE  /\ rebalance.state = "REBALANCING" /\ r.nonce = rebalance.nonce
             /\ r.target = ActiveChain /\ r.strategy = rebalance.pendingStrategy
             /\ ~paused[r.target] => ExecuteRebalanceGuard(r.target, r.nonce, r.strategy)
  <2>1. /\ r.target \in ChildChains /\ r.nonce = rebalance.nonce /\ r.target = ActiveChain
        /\ rebalance.state = "REBALANCING" /\ r.strategy = PendingStrategy
    BY <1>1, <1>3 DEF ReportFits, ExecutionFits, FreshRebalanceNonce
  <2>2. Rebalancing /\ RebalanceWaiting
    BY <1>3, <2>1, RebalanceAwaited DEF PhaseInv
  <2>3. RequireNoRecovery(r.target) /\ HasAdapter(r.target)
    BY <2>1, <2>2, ChainFacts, NoRecoveriesFacts, AdapterFacts
       DEF RebalanceWaiting, Calm, Rebalancing, ActiveChain, ActiveStrategy
  <2>4. r.strategy.chainSelector # NoChain
    BY <2>1, <2>2, StrategyFacts DEF Rebalancing
  <2>5. QED
    BY <1>3, <2>1, <2>3, <2>4 DEF ExecuteRebalanceGuard, PendingStrategy
<1>4. ASSUME r.call = "completeEpochDeposit", MatchesExecutingEpoch(r.nonce),
             ~paused[ParentChain]
      PROVE  CompleteEpochDepositGuard(r.nonce, r.amount)
  BY <1>1, <1>4, PhaseTypes DEF ReportFits, CompletionFits, MatchesExecutingEpoch,
     CompleteEpochDepositGuard, PreviousNonce
<1>5. ASSUME r.call = "completeRebalance", r.nonce = rebalance.nonce, ~paused[ParentChain]
      PROVE  CompleteRebalanceGuard(r.nonce)
  <2>1. rebalance.state = "REBALANCING" /\ RebalanceDeposited
    BY <1>1, <1>5 DEF ReportFits, RebalanceConfirmable
  <2>2. RequireNoRecovery(ParentChain) /\ PendingChain # ParentChain
    BY <2>1, ChainFacts, NoRecoveriesFacts DEF RebalanceDeposited, Calm
  <2>3. QED
    BY <1>5, <2>1, <2>2 DEF CompleteRebalanceGuard, PendingChain, PendingStrategy
<1>6. QED
  BY <1>2, <1>3, <1>4, <1>5

\* A report delayed or delivered again is refused by its nonce, or still fits.
THEOREM ReportsFit == Spec => []ReportFitsOperation
BY ReportsNow, PhaseCorrect, TypeInvariance, PTL
=============================================================================
