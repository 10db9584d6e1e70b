------------------------------ MODULE ChildVault ------------------------------
(* The ChildVaults (evm/src/vaults/ChildVault.sol), one per child chain: they  *)
(* hold the strategy position on their chain, take epoch deposits and          *)
(* rebalances by CCIP, withdraw when the workflow says so, and store a         *)
(* recovery when an adapter or the router fails them.                          *)
EXTENDS BaseVault

VARIABLES
    lastHandledEpochNonce,      \* chain -> s_lastHandledEpochNonce
    lastHandledRebalanceNonce   \* chain -> s_lastHandledRebalanceNonce

childVars == <<lastHandledEpochNonce, lastHandledRebalanceNonce>>

ChildVaultTypeOK ==
    /\ lastHandledEpochNonce \in [ChildChains -> Nat]
    /\ lastHandledRebalanceNonce \in [ChildChains -> Nat]

ChildVaultInit ==
    /\ lastHandledEpochNonce = [c \in ChildChains |-> 0]
    /\ lastHandledRebalanceNonce = [c \in ChildChains |-> 0]

----------------------------------------------------------------------------
\* The two high-water marks: a nonce is handled at most once, in rising order.

\* Mutant of FreshEpochNonce: off by one.
FreshEpochNonce_OrEqual(c, nonce) == nonce >= lastHandledEpochNonce[c]

FreshEpochNonce(c, nonce) == nonce > lastHandledEpochNonce[c]
FreshRebalanceNonce(c, nonce) == nonce > lastHandledRebalanceNonce[c]

\* Mutant of HandleEpochNonce: the mark is compared and not raised.
HandleEpochNonce_NotRaised(c, nonce) ==
    FreshEpochNonce(c, nonce) /\ UNCHANGED childVars

HandleEpochNonce(c, nonce) ==
    /\ FreshEpochNonce(c, nonce)
    /\ lastHandledEpochNonce' = [lastHandledEpochNonce EXCEPT ![c] = nonce]
    /\ UNCHANGED lastHandledRebalanceNonce

HandleRebalanceNonce(c, nonce) ==
    /\ FreshRebalanceNonce(c, nonce)
    /\ lastHandledRebalanceNonce' = [lastHandledRebalanceNonce EXCEPT ![c] = nonce]
    /\ UNCHANGED lastHandledEpochNonce

----------------------------------------------------------------------------
\* The recovery states a ChildVault stores.

EpochDepositRecovery(nonce, amount) ==
    [NoRecovery EXCEPT !.mode = "EPOCH_DEPOSIT", !.nonce = nonce, !.amount = amount]

EpochWithdrawRecovery(nonce, amount) ==
    [NoRecovery EXCEPT !.mode = "EPOCH_WITHDRAW", !.nonce = nonce, !.amount = amount]

RebalanceWithdrawRecovery(nonce, strategy) ==
    [NoRecovery EXCEPT !.mode = "REBALANCE_WITHDRAW", !.nonce = nonce,
                       !.target = strategy]

CcipSendRecovery(ccipTx, destination, nonce, protocolId, amount) ==
    [mode |-> "CCIP_SEND", nonce |-> nonce, amount |-> amount,
     target |-> Strategy(protocolId, destination), ccipTx |-> ccipTx]

\* _ccipSend: a valid send that fails is stored for recovery (a send beyond the
\* token pool's capacity reverts the whole call instead, so it is no step).
\* Any recovery the caller was executing has been cleared before.
CcipSend(c, ccipTx, destination, nonce, protocolId, amount) ==
    /\ ValidateCcipSend(c, destination, amount)
    /\ \/ /\ ccip' = ccip \union
                       {Message(ccipTx, c, destination, nonce, protocolId, amount)}
          /\ recovery' = [recovery EXCEPT ![c] = NoRecovery]
       \/ /\ recovery' = [recovery EXCEPT ![c] =
                CcipSendRecovery(ccipTx, destination, nonce, protocolId, amount)]
          /\ ccip' = ccip

----------------------------------------------------------------------------
\* _ccipReceive.

\* Mutant of EpochDepositLog: the value of the adapter is announced, not the deposit.
EpochDepositLog_Value(c, nonce, amount) ==
    [event |-> "EpochDepositToStrategySuccess", source |-> c, nonce |-> nonce,
     amount |-> position[ActiveOn(c)] + amount, strategy |-> NoStrategy]

EpochDepositLog(c, nonce, amount) ==
    [event |-> "EpochDepositToStrategySuccess", source |-> c, nonce |-> nonce,
     amount |-> amount, strategy |-> NoStrategy]

EpochDepositReceivable(c, m) ==
    /\ m.ccipTx = "EPOCH_NET_DEPOSIT"
    /\ m.source = ParentChain
    /\ FreshEpochNonce(c, m.nonce)
    /\ HasAdapter(c)

ReceiveEpochNetDeposit(c, m, delivered) ==
    /\ ReceivableBy(c, m, delivered)
    /\ EpochDepositReceivable(c, m)
    /\ HandleEpochNonce(c, m.nonce)
    /\ ccip' = ccip \ {m}
    /\ \/ /\ position' = Deposited(position, ActiveOn(c), delivered)
          /\ logs' = logs \union {EpochDepositLog(c, m.nonce, delivered)}
          /\ recovery' = recovery
       \/ /\ recovery' = [recovery EXCEPT ![c] = EpochDepositRecovery(m.nonce, delivered)]
          /\ UNCHANGED <<position, logs>>
    /\ UNCHANGED <<paused, activeAdapter>>

ChildRebalanceReceivable(c, m) ==
    /\ m.ccipTx = "REBALANCE"
    /\ FreshRebalanceNonce(c, m.nonce)

ReceiveRebalanceOnChild(c, m, delivered) ==
    /\ ReceivableBy(c, m, delivered)
    /\ ChildRebalanceReceivable(c, m)
    /\ HandleRebalanceNonce(c, m.nonce)
    /\ ccip' = ccip \ {m}
    /\ \E success \in BOOLEAN :
         ActivateAndDeposit(c, m.nonce, m.protocolId, delivered, position, success)
    /\ UNCHANGED paused

----------------------------------------------------------------------------
\* executeEpochWithdraw, called by the workflow.

ExecuteEpochWithdrawGuard(c, nonce, amount) ==
    /\ ~paused[c]
    /\ RequireNoRecovery(c)
    /\ amount # 0
    /\ FreshEpochNonce(c, nonce)
    /\ HasAdapter(c)

\* The withdrawal and the send of its proceeds to the parent.
WithdrawAndSend(c, nonce, amount) ==
    /\ CanWithdraw(c, amount)
    /\ position' = Withdrawn(c, amount)
    /\ CcipSend(c, "EPOCH_NET_WITHDRAW", ParentChain, nonce, NoProtocol, amount)

ExecuteEpochWithdraw(c, nonce, amount) ==
    /\ ExecuteEpochWithdrawGuard(c, nonce, amount)
    /\ HandleEpochNonce(c, nonce)
    /\ \/ WithdrawAndSend(c, nonce, amount)
       \/ /\ recovery' = [recovery EXCEPT ![c] = EpochWithdrawRecovery(nonce, amount)]
          /\ UNCHANGED <<position, ccip>>
    /\ UNCHANGED <<paused, activeAdapter, logs>>

----------------------------------------------------------------------------
\* executeRebalance, called by the workflow on the chain of the old strategy.

ExecuteRebalanceGuard(c, nonce, newStrategy) ==
    /\ ~paused[c]
    /\ RequireNoRecovery(c)
    /\ FreshRebalanceNonce(c, nonce)
    /\ HasAdapter(c)
    /\ newStrategy.chainSelector # NoChain

\* _rebalanceToNewStrategy after the whole position has been withdrawn: into
\* another adapter of this chain, or by CCIP with the adapter cleared first.
MoveWithinChain(c, nonce, amount, newStrategy) ==
    /\ newStrategy.chainSelector = c
    /\ \E success \in BOOLEAN :
         ActivateAndDeposit(c, nonce, newStrategy.protocolId, amount,
                            Withdrawn(c, amount), success)
    /\ ccip' = ccip

\* Mutant of MoveToOtherChain: the adapter is not cleared.
MoveToOtherChain_KeepsAdapter(c, nonce, amount, newStrategy) ==
    /\ newStrategy.chainSelector # c
    /\ position' = Withdrawn(c, amount)
    /\ CcipSend(c, "REBALANCE", newStrategy.chainSelector, nonce,
                newStrategy.protocolId, amount)
    /\ UNCHANGED <<activeAdapter, logs>>

MoveToOtherChain(c, nonce, amount, newStrategy) ==
    /\ newStrategy.chainSelector # c
    /\ activeAdapter' = [activeAdapter EXCEPT ![c] = NoProtocol]
    /\ position' = Withdrawn(c, amount)
    /\ CcipSend(c, "REBALANCE", newStrategy.chainSelector, nonce,
                newStrategy.protocolId, amount)
    /\ logs' = logs

WithdrawAllAndMove(c, nonce, newStrategy) ==
    LET amount == position[ActiveOn(c)]
    IN  /\ CanWithdraw(c, amount)
        /\ \/ MoveWithinChain(c, nonce, amount, newStrategy)
           \/ MoveToOtherChain(c, nonce, amount, newStrategy)

ExecuteRebalance(c, nonce, newStrategy) ==
    /\ ExecuteRebalanceGuard(c, nonce, newStrategy)
    /\ HandleRebalanceNonce(c, nonce)
    /\ \/ WithdrawAllAndMove(c, nonce, newStrategy)
       \/ /\ recovery' = [recovery EXCEPT ![c] =
                              RebalanceWithdrawRecovery(nonce, newStrategy)]
          /\ UNCHANGED <<activeAdapter, position, ccip, logs>>
    /\ UNCHANGED paused

----------------------------------------------------------------------------
\* executeRecovery: anyone retries the stored operation; a retry that fails
\* reverts and leaves the recovery stored.

\* Mutants of RecoverEpochDeposit: the recovery is not cleared; the success is
\* not announced.
RecoverEpochDeposit_NotCleared(c) ==
    LET r == recovery[c]
    IN  /\ r.mode = "EPOCH_DEPOSIT"
        /\ HasAdapter(c)
        /\ position' = Deposited(position, ActiveOn(c), r.amount)
        /\ logs' = logs \union {EpochDepositLog(c, r.nonce, r.amount)}
        /\ UNCHANGED <<paused, activeAdapter, recovery, ccip>>

RecoverEpochDeposit_Silent(c) ==
    /\ recovery[c].mode = "EPOCH_DEPOSIT"
    /\ HasAdapter(c)
    /\ position' = Deposited(position, ActiveOn(c), recovery[c].amount)
    /\ recovery' = [recovery EXCEPT ![c] = NoRecovery]
    /\ UNCHANGED <<paused, activeAdapter, ccip, logs>>

RecoverEpochDeposit(c) ==
    LET r == recovery[c]
    IN  /\ r.mode = "EPOCH_DEPOSIT"
        /\ HasAdapter(c)
        /\ position' = Deposited(position, ActiveOn(c), r.amount)
        /\ recovery' = [recovery EXCEPT ![c] = NoRecovery]
        /\ logs' = logs \union {EpochDepositLog(c, r.nonce, r.amount)}
        /\ UNCHANGED <<paused, activeAdapter, ccip>>

\* The send after a recovered withdrawal may fail in turn, into CCIP_SEND.
RecoverEpochWithdraw(c) ==
    LET r == recovery[c]
    IN  /\ r.mode = "EPOCH_WITHDRAW"
        /\ WithdrawAndSend(c, r.nonce, r.amount)
        /\ UNCHANGED <<paused, activeAdapter, logs>>

RecoverRebalanceWithdraw(c) ==
    LET r == recovery[c]
    IN  /\ r.mode = "REBALANCE_WITHDRAW"
        /\ WithdrawAllAndMove(c, r.nonce, r.target)
        /\ UNCHANGED paused

\* Mutant of RecoverCcipSend: the recovery is not cleared by the retry.
RecoverCcipSend_NotCleared(c) ==
    LET r == recovery[c]
    IN  /\ r.mode = "CCIP_SEND"
        /\ ValidateCcipSend(c, r.target.chainSelector, r.amount)
        /\ ccip' = ccip \union {Message(r.ccipTx, c, r.target.chainSelector,
                                        r.nonce, r.target.protocolId, r.amount)}
        /\ UNCHANGED <<paused, activeAdapter, position, recovery, logs>>

RecoverCcipSend(c) ==
    LET r == recovery[c]
    IN  /\ r.mode = "CCIP_SEND"
        /\ ValidateCcipSend(c, r.target.chainSelector, r.amount)
        /\ ccip' = ccip \union {Message(r.ccipTx, c, r.target.chainSelector,
                                        r.nonce, r.target.protocolId, r.amount)}
        /\ recovery' = [recovery EXCEPT ![c] = NoRecovery]
        /\ UNCHANGED <<paused, activeAdapter, position, logs>>

ExecuteRecoveryOnChild(c) ==
    /\ ~paused[c]
    /\ \/ RecoverRebalanceDeposit(c)
       \/ RecoverEpochDeposit(c)
       \/ RecoverEpochWithdraw(c)
       \/ RecoverRebalanceWithdraw(c)
       \/ RecoverCcipSend(c)
    /\ UNCHANGED childVars
==============================================================================
