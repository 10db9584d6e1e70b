----------------------------- MODULE ParentVault -----------------------------
(* The lifecycle state of the ParentVault (evm/src/vaults/ParentVault.sol with *)
(* ParentVaultEpochLib, ParentVaultRebalanceLib and ParentVaultCcipLib): the   *)
(* epochs, the rebalance in progress and the authoritative share count.        *)
(*                                                                             *)
(* The users' queue of the open epoch is reduced to its two totals, which the  *)
(* environment picks when the epoch closes; module ParentEpochs models the     *)
(* users.  Of the closed epochs only the previous one is kept, the only one    *)
(* any of these operations reads.                                              *)
EXTENDS BaseVault, VaultMath

CONSTANTS
    MaxDeposit,     \* bound: the deposits of one epoch
    MaxFeeShares,   \* bound: the management fee of one rebalance, in shares
    SeedShares      \* shares locked in YieldcoinShareSeedLock, never burnt

ASSUME BoundAssumption ==
    /\ MaxDeposit \in Nat
    /\ MaxFeeShares \in Nat
    /\ SeedShares \in Nat

VARIABLES
    epochNonce,     \* s_epochNonce: the open epoch
    epochAged,      \* MIN_EPOCH_PERIOD has passed since the epoch opened
    previousEpoch,  \* s_epochs[s_epochNonce - 1]
    totalShares,    \* s_totalShares
    rebalance,      \* s_rebalance
    rebalanceAged   \* MIN_REBALANCE_PERIOD has passed since the last rebalance

parentVars ==
    <<epochNonce, epochAged, previousEpoch, totalShares, rebalance, rebalanceAged>>

\* The fields of a closed epoch that later operations read.
\* shareMint is remainingShareMintAmount, untouched while the epoch executes.
Epochs == [status : EpochStatus, deposit : Nat, withdrawClaim : Nat, shareMint : Nat]

Rebalances == [nonce : Nat, state : RebalanceState,
               activeStrategy : Targets, pendingStrategy : Targets]

ParentVaultTypeOK ==
    /\ epochNonce \in Nat \ {0}
    /\ epochAged \in BOOLEAN
    /\ previousEpoch \in Epochs
    /\ totalShares \in Nat
    /\ rebalance \in Rebalances
    /\ rebalanceAged \in BOOLEAN

ParentVaultInit ==
    /\ epochNonce = 1
    /\ epochAged = FALSE
    /\ previousEpoch = [status |-> "NONE", deposit |-> 0, withdrawClaim |-> 0,
                        shareMint |-> 0]
    /\ totalShares = 0
    /\ rebalance = [nonce |-> 1, state |-> "NONE", activeStrategy |-> NoStrategy,
                    pendingStrategy |-> NoStrategy]
    /\ rebalanceAged = FALSE

\* The two minimum periods elapse.
EpochAges ==
    /\ ~epochAged /\ epochAged' = TRUE
    /\ UNCHANGED <<baseVars, epochNonce, previousEpoch, totalShares, rebalance,
                   rebalanceAged>>

RebalanceAges ==
    /\ ~rebalanceAged /\ rebalanceAged' = TRUE
    /\ UNCHANGED <<baseVars, epochNonce, epochAged, previousEpoch, totalShares,
                   rebalance>>

----------------------------------------------------------------------------
\* The admin's one-time choice of the first strategy.  The flag of the code is
\* set exactly when activeStrategy stops being zero.
SetInitialActiveProtocolAdapter(p) ==
    /\ rebalance.activeStrategy = NoStrategy
    /\ activeAdapter' = [activeAdapter EXCEPT ![ParentChain] = p]
    /\ rebalance' = [rebalance EXCEPT !.activeStrategy = Strategy(p, ParentChain)]
    /\ UNCHANGED <<paused, position, recovery, ccip, logs, epochNonce, epochAged,
                   previousEpoch, totalShares, rebalanceAged>>

----------------------------------------------------------------------------
\* closeEpoch.

\* Mutant of PreviousEpochSettled: the close does not wait for the last epoch.
PreviousEpochSettled_Ignored == TRUE

PreviousEpochSettled ==
    epochNonce = 1 \/ previousEpoch.status = "CLAIMABLE"

CloseEpochGuard(expectedEpochNonce) ==
    /\ ~paused[ParentChain]
    /\ RequireNoRecovery(ParentChain)
    /\ expectedEpochNonce = epochNonce
    /\ rebalance.state = "NONE"
    /\ PreviousEpochSettled
    /\ epochAged

\* The strategy counts as local when this vault has an active adapter.
IsLocalStrategy == HasAdapter(ParentChain)

\* The settled epoch becomes the previous one and the next one opens.
OpenNextEpoch(status, deposit, withdrawClaim, shareMint) ==
    /\ previousEpoch' = [status |-> status, deposit |-> deposit,
                         withdrawClaim |-> withdrawClaim, shareMint |-> shareMint]
    /\ epochNonce' = epochNonce + 1
    /\ epochAged' = FALSE

\* Deposits and withdrawals cancel out: nothing moves.
SettleNetZero(deposit, withdraw, shareMint) ==
    /\ deposit = withdraw
    /\ OpenNextEpoch("CLAIMABLE", deposit, withdraw, shareMint)
    /\ UNCHANGED baseVars

\* A net deposit goes into the local adapter ...
SettleLocalDeposit(deposit, withdraw, shareMint) ==
    /\ deposit > withdraw
    /\ IsLocalStrategy
    /\ position' = Deposited(position, ActiveOn(ParentChain), deposit - withdraw)
    /\ OpenNextEpoch("CLAIMABLE", deposit, withdraw, shareMint)
    /\ UNCHANGED <<paused, activeAdapter, recovery, ccip, logs>>

\* Mutant of SettleRemoteDeposit: the gross deposit is sent, not the net one.
SettleRemoteDeposit_Gross(deposit, withdraw, shareMint) ==
    LET destination == rebalance.activeStrategy.chainSelector
    IN  /\ deposit > withdraw
        /\ ~IsLocalStrategy
        /\ ValidateCcipSend(ParentChain, destination, deposit)
        /\ ccip' = ccip \union {Message("EPOCH_NET_DEPOSIT", ParentChain,
                                   destination, epochNonce, NoProtocol, deposit)}
        /\ OpenNextEpoch("EXECUTING", deposit, withdraw, shareMint)
        /\ UNCHANGED <<paused, activeAdapter, position, recovery, logs>>

\* ... or by CCIP to the strategy chain; a failed send reverts the close.
SettleRemoteDeposit(deposit, withdraw, shareMint) ==
    LET destination == rebalance.activeStrategy.chainSelector
        amount == deposit - withdraw
    IN  /\ deposit > withdraw
        /\ ~IsLocalStrategy
        /\ ValidateCcipSend(ParentChain, destination, amount)
        /\ ccip' = ccip \union {Message("EPOCH_NET_DEPOSIT", ParentChain,
                                   destination, epochNonce, NoProtocol, amount)}
        /\ OpenNextEpoch("EXECUTING", deposit, withdraw, shareMint)
        /\ UNCHANGED <<paused, activeAdapter, position, recovery, logs>>

\* A net withdrawal comes out of the local adapter at once ...
SettleLocalWithdraw(deposit, withdraw, shareMint) ==
    LET amountOut == withdraw - deposit
    IN  /\ withdraw > deposit
        /\ IsLocalStrategy
        /\ CanWithdraw(ParentChain, amountOut)
        /\ position' = Withdrawn(ParentChain, amountOut)
        /\ OpenNextEpoch("CLAIMABLE", deposit, deposit + amountOut, shareMint)
        /\ UNCHANGED <<paused, activeAdapter, recovery, ccip, logs>>

\* ... or the workflow is asked to withdraw it from the strategy chain.
SettleRemoteWithdraw(deposit, withdraw, shareMint) ==
    /\ withdraw > deposit
    /\ ~IsLocalStrategy
    /\ logs' = logs \union {[event |-> "EpochWithdrawExecuting",
                             source |-> ParentChain, nonce |-> epochNonce,
                             amount |-> withdraw - deposit,
                             strategy |-> NoStrategy]}
    /\ OpenNextEpoch("EXECUTING", deposit, withdraw, shareMint)
    /\ UNCHANGED <<paused, activeAdapter, position, recovery, ccip>>

\* Mutant of SharesAfterClose: new shares are not counted until they are claimed.
SharesAfterClose_Unclaimed(shareMint, burn) == totalShares - burn

\* The one write to s_totalShares of a close.
SharesAfterClose(shareMint, burn) == totalShares + shareMint - burn

\* The users' totals: any deposits, and burns of shares that are not locked.
CloseEpoch(expectedEpochNonce, tvl) ==
    /\ CloseEpochGuard(expectedEpochNonce)
    /\ \E deposit \in 0..MaxDeposit, burn \in 0..totalShares :
         LET withdraw == TotalWithdraw(burn, tvl, totalShares)
             shareMint == NewShares(deposit, tvl, totalShares)
         IN  /\ burn + SeedShares <= totalShares \/ burn = 0
             /\ SettlementAllowed(deposit, burn, tvl, totalShares, IsLocalStrategy)
             /\ totalShares' = SharesAfterClose(shareMint, burn)
             /\ \/ SettleNetZero(deposit, withdraw, shareMint)
                \/ SettleLocalDeposit(deposit, withdraw, shareMint)
                \/ SettleRemoteDeposit(deposit, withdraw, shareMint)
                \/ SettleLocalWithdraw(deposit, withdraw, shareMint)
                \/ SettleRemoteWithdraw(deposit, withdraw, shareMint)
    /\ UNCHANGED <<rebalance, rebalanceAged>>

----------------------------------------------------------------------------
\* completeEpochDeposit: the only operation without a recovery check.

ExpectedDeposit == previousEpoch.deposit - previousEpoch.withdrawClaim

\* Shares left after a short delivery of the net deposit.
ReconciledShares(actual) ==
    IF actual = ExpectedDeposit THEN previousEpoch.shareMint
    ELSE AdjustedShares(previousEpoch.shareMint, previousEpoch.deposit,
                        ExpectedDeposit - actual)

\* Mutant of CompleteEpochDepositGuard: no check that the epoch is executing.
CompleteEpochDepositGuard_AnyStatus(expectedEpochNonce, actual) ==
    /\ ~paused[ParentChain]
    /\ epochNonce # 1
    /\ expectedEpochNonce = epochNonce - 1
    /\ previousEpoch.deposit > previousEpoch.withdrawClaim
    /\ actual # 0 /\ actual <= ExpectedDeposit
    /\ actual = ExpectedDeposit \/ ReconciledShares(actual) # 0

CompleteEpochDepositGuard(expectedEpochNonce, actual) ==
    /\ ~paused[ParentChain]
    /\ epochNonce # 1
    /\ expectedEpochNonce = epochNonce - 1
    /\ previousEpoch.deposit > previousEpoch.withdrawClaim
    /\ actual # 0 /\ actual <= ExpectedDeposit
    /\ actual = ExpectedDeposit \/ ReconciledShares(actual) # 0
    /\ previousEpoch.status = "EXECUTING"

CompleteEpochDeposit(expectedEpochNonce, actual) ==
    /\ CompleteEpochDepositGuard(expectedEpochNonce, actual)
    /\ previousEpoch' = [previousEpoch EXCEPT !.status = "CLAIMABLE",
                                              !.shareMint = ReconciledShares(actual)]
    /\ totalShares' = totalShares - (previousEpoch.shareMint - ReconciledShares(actual))
    /\ UNCHANGED <<baseVars, epochNonce, epochAged, rebalance, rebalanceAged>>

----------------------------------------------------------------------------
\* Finalization of a rebalance, with the management fee minted to the treasury
\* (mulDivUp of the shares: at least one share whenever any time has passed).

FinalizeRebalance(newStrategy) ==
    /\ rebalance' = [nonce |-> rebalance.nonce + 1, state |-> "NONE",
                     activeStrategy |-> newStrategy, pendingStrategy |-> NoStrategy]
    /\ rebalanceAged' = FALSE
    /\ \E feeShares \in 0..MaxFeeShares :
         /\ totalShares = 0 => feeShares = 0
         /\ totalShares' = totalShares + feeShares
    /\ UNCHANGED <<epochNonce, epochAged, previousEpoch>>

----------------------------------------------------------------------------
\* initiateRebalance.

InitiateRebalanceGuard(expectedRebalanceNonce, newStrategy) ==
    /\ ~paused[ParentChain]
    /\ RequireNoRecovery(ParentChain)
    /\ expectedRebalanceNonce = rebalance.nonce
    /\ rebalance.state = "NONE"
    /\ rebalanceAged
    /\ newStrategy # rebalance.activeStrategy
    /\ newStrategy \in Strategies
    /\ epochNonce # 1
    /\ previousEpoch.status # "EXECUTING"

ActiveIsParent == rebalance.activeStrategy.chainSelector = ParentChain

RebalanceInitiatedLog(newStrategy) ==
    [event |-> "RebalanceInitiated", source |-> ParentChain,
     nonce |-> rebalance.nonce, amount |-> 0, strategy |-> newStrategy]

MarkRebalancing(newStrategy) ==
    /\ rebalance' = [rebalance EXCEPT !.state = "REBALANCING",
                                      !.pendingStrategy = newStrategy]
    /\ logs' = logs \union {RebalanceInitiatedLog(newStrategy)}
    /\ UNCHANGED <<epochNonce, epochAged, previousEpoch, totalShares, rebalanceAged>>

\* Both strategies are local: withdrawn, deposited and finalized in one call.
RebalanceLocalToLocal(newStrategy) ==
    LET amountOut == position[ActiveOn(ParentChain)]
    IN  /\ ActiveIsParent /\ newStrategy.chainSelector = ParentChain
        /\ CanWithdraw(ParentChain, amountOut)
        /\ activeAdapter' = [activeAdapter EXCEPT ![ParentChain] = newStrategy.protocolId]
        /\ position' = Deposited(Withdrawn(ParentChain, amountOut), newStrategy, amountOut)
        /\ logs' = logs \union {RebalanceInitiatedLog(newStrategy)}
        /\ FinalizeRebalance(newStrategy)
        /\ UNCHANGED <<paused, recovery, ccip>>

\* From the local adapter by CCIP to the new chain; a failed send reverts.
RebalanceLocalToRemote(newStrategy) ==
    LET amountOut == position[ActiveOn(ParentChain)]
    IN  /\ ActiveIsParent /\ newStrategy.chainSelector # ParentChain
        /\ CanWithdraw(ParentChain, amountOut)
        /\ position' = Withdrawn(ParentChain, amountOut)
        /\ activeAdapter' = [activeAdapter EXCEPT ![ParentChain] = NoProtocol]
        /\ ValidateCcipSend(ParentChain, newStrategy.chainSelector, amountOut)
        /\ ccip' = ccip \union {Message("REBALANCE", ParentChain,
                                   newStrategy.chainSelector, rebalance.nonce,
                                   newStrategy.protocolId, amountOut)}
        /\ MarkRebalancing(newStrategy)
        /\ UNCHANGED <<paused, recovery>>

\* The old strategy is remote: the workflow drives its vault from the event.
RebalanceFromRemote(newStrategy) ==
    /\ ~ActiveIsParent
    /\ MarkRebalancing(newStrategy)
    /\ UNCHANGED <<paused, activeAdapter, position, recovery, ccip>>

InitiateRebalance(expectedRebalanceNonce, newStrategy) ==
    /\ InitiateRebalanceGuard(expectedRebalanceNonce, newStrategy)
    /\ \/ RebalanceLocalToLocal(newStrategy)
       \/ RebalanceLocalToRemote(newStrategy)
       \/ RebalanceFromRemote(newStrategy)

----------------------------------------------------------------------------
\* completeRebalance: the workflow confirms a deposit on a child chain.

\* Mutant of CompleteRebalanceGuard: the expected nonce is not compared.
CompleteRebalanceGuard_AnyNonce(expectedRebalanceNonce) ==
    /\ ~paused[ParentChain]
    /\ RequireNoRecovery(ParentChain)
    /\ rebalance.pendingStrategy.chainSelector # ParentChain
    /\ rebalance.state = "REBALANCING"

CompleteRebalanceGuard(expectedRebalanceNonce) ==
    /\ ~paused[ParentChain]
    /\ RequireNoRecovery(ParentChain)
    /\ rebalance.pendingStrategy.chainSelector # ParentChain
    /\ expectedRebalanceNonce = rebalance.nonce
    /\ rebalance.state = "REBALANCING"

CompleteRebalance(expectedRebalanceNonce) ==
    /\ CompleteRebalanceGuard(expectedRebalanceNonce)
    /\ FinalizeRebalance(rebalance.pendingStrategy)
    /\ UNCHANGED baseVars

----------------------------------------------------------------------------
\* _ccipReceive.

\* Only the chain of the active strategy may send to the parent.
ParentReceivable(m, delivered) ==
    /\ ReceivableBy(ParentChain, m, delivered)
    /\ m.source = rebalance.activeStrategy.chainSelector

\* The proceeds of a net withdrawal replace the price-locked estimate.
NetWithdrawReceivable(m) ==
    /\ m.ccipTx = "EPOCH_NET_WITHDRAW"
    /\ m.nonce = epochNonce - 1
    /\ previousEpoch.deposit < previousEpoch.withdrawClaim
    /\ previousEpoch.status = "EXECUTING"

ReceiveEpochNetWithdraw(m, delivered) ==
    /\ ParentReceivable(m, delivered)
    /\ NetWithdrawReceivable(m)
    /\ ccip' = ccip \ {m}
    /\ previousEpoch' = [previousEpoch EXCEPT
                            !.status = "CLAIMABLE",
                            !.withdrawClaim = previousEpoch.deposit + delivered]
    /\ UNCHANGED <<paused, activeAdapter, position, recovery, logs, epochNonce,
                   epochAged, totalShares, rebalance, rebalanceAged>>

\* _validateRebalance.
RebalanceReceivable(m) ==
    /\ m.ccipTx = "REBALANCE"
    /\ rebalance.state = "REBALANCING"
    /\ m.nonce = rebalance.nonce
    /\ m.protocolId = rebalance.pendingStrategy.protocolId

ReceiveRebalanceOnParent(m, delivered) ==
    /\ ParentReceivable(m, delivered)
    /\ RebalanceReceivable(m)
    /\ ccip' = ccip \ {m}
    /\ UNCHANGED paused
    /\ \/ /\ ActivateAndDeposit(ParentChain, m.nonce, m.protocolId, delivered,
                                position, TRUE)
          /\ FinalizeRebalance(Strategy(m.protocolId, ParentChain))
       \/ /\ ActivateAndDeposit(ParentChain, m.nonce, m.protocolId, delivered,
                                position, FALSE)
          /\ UNCHANGED parentVars

----------------------------------------------------------------------------
\* executeRecovery: anyone retries the deposit, and the rebalance is finalized
\* at the strategy the parent has pending.
ExecuteRecoveryOnParent ==
    /\ ~paused[ParentChain]
    /\ RecoverRebalanceDeposit(ParentChain)
    /\ rebalance.state = "REBALANCING"
    /\ FinalizeRebalance(rebalance.pendingStrategy)
==============================================================================
