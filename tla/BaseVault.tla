------------------------------ MODULE BaseVault ------------------------------
(* What ParentVault and ChildVault share (evm/src/vaults/BaseVault.sol and its *)
(* libraries): the pause switch, the active adapter, the recovery mode, the    *)
(* calls into adapters and the CCIP router, and the delivery of a rebalance.   *)
(*                                                                             *)
(* An adapter call or a router call may fail for reasons outside the vaults    *)
(* (market liquidity, caps, LINK balance).  The try/catch sites of the code    *)
(* are a choice between the success and the failure continuation; where the    *)
(* code reverts on failure there is only the success continuation, because a   *)
(* reverted transaction leaves every variable as it was.                       *)
EXTENDS VaultTypes

VARIABLES
    paused,         \* chain -> the vault is paused
    activeAdapter,  \* chain -> s_activeProtocolAdapter, by its protocol id
    position,       \* strategy -> assets held by that strategy's adapter
    recovery,       \* chain -> s_recoveryMode with the payload of the mode
    ccip,           \* CCIP messages sent and not yet executed
    logs            \* finalized event logs the CRE workflow may be triggered by

baseVars == <<paused, activeAdapter, position, recovery, ccip, logs>>

BaseVaultTypeOK ==
    /\ paused \in [Chains -> BOOLEAN]
    /\ activeAdapter \in [Chains -> Protocols \union {NoProtocol}]
    /\ position \in [Strategies -> Nat]
    /\ recovery \in [Chains -> Recoveries]
    /\ recovery[ParentChain].mode \in {"NONE", "REBALANCE_DEPOSIT"}
    /\ ccip \subseteq Messages
    /\ logs \subseteq Logs

BaseVaultInit ==
    /\ paused = [c \in Chains |-> FALSE]
    /\ activeAdapter = [c \in Chains |-> NoProtocol]
    /\ position = [s \in Strategies |-> 0]
    /\ recovery = [c \in Chains |-> NoRecovery]
    /\ ccip = {}
    /\ logs = {}

----------------------------------------------------------------------------
\* Reads.

\* A vault whose s_recoveryMode is NONE.
RequireNoRecovery(c) == recovery[c].mode = "NONE"

\* The strategy whose adapter is active on chain c (only where one is set).
ActiveOn(c) == Strategy(activeAdapter[c], c)

HasAdapter(c) == activeAdapter[c] # NoProtocol

\* Mutant of GetTVL: counts an unsent withdrawal, already owed to its epoch.
GetTVL_CountsUnsentWithdraw(c) ==
    LET held == IF recovery[c].mode \in {"EPOCH_DEPOSIT", "REBALANCE_DEPOSIT", "CCIP_SEND"}
                THEN recovery[c].amount ELSE 0
    IN  IF HasAdapter(c) THEN position[ActiveOn(c)] + held ELSE held

\* _getTVL of either vault: the adapter's value plus the recovery amounts that
\* still belong to the strategy.  Only ChildVaults enter the EPOCH_DEPOSIT and
\* CCIP_SEND modes, so one definition serves both overrides.
GetTVL(c) ==
    LET r == recovery[c]
        unsentRebalance ==
            IF r.mode = "CCIP_SEND" /\ r.ccipTx = "REBALANCE" THEN r.amount ELSE 0
        undeposited ==
            IF r.mode \in {"EPOCH_DEPOSIT", "REBALANCE_DEPOSIT"} THEN r.amount ELSE 0
    IN  IF HasAdapter(c)
        THEN position[ActiveOn(c)] + undeposited + unsentRebalance
        ELSE unsentRebalance

----------------------------------------------------------------------------
\* Calls into the adapter.

\* Mutant of CanWithdraw: the value of the position is not checked.
CanWithdraw_Unchecked(c, amount) == HasAdapter(c) /\ amount # 0

\* A withdrawal of `amount` the adapter can honour: it reverts on zero and when
\* the amount exceeds its value.
CanWithdraw(c, amount) ==
    /\ HasAdapter(c)
    /\ amount # 0
    /\ amount <= position[ActiveOn(c)]

\* The positions after the active adapter of c paid out `amount` ...
Withdrawn(c, amount) == [position EXCEPT ![ActiveOn(c)] = @ - amount]

\* ... and those `held` after the adapter of strategy s took `amount` in.
Deposited(held, s, amount) == [held EXCEPT ![s] = @ + amount]

----------------------------------------------------------------------------
\* Calls into the CCIP router.

Message(ccipTx, source, destination, nonce, protocolId, amount) ==
    [ccipTx |-> ccipTx, source |-> source, destination |-> destination,
     nonce |-> nonce, protocolId |-> protocolId, amount |-> amount]

\* _validateCcipSend, every chain having registered the vaults of all others.
ValidateCcipSend(source, destination, amount) ==
    /\ amount # 0
    /\ destination \in Chains \ {source}

\* _onlyAllowedSender and _validateReceivedTokenAndGetAmount: a message for
\* chain c from a registered vault that delivers a nonzero amount.
ReceivableBy(c, m, delivered) ==
    /\ ~paused[c]
    /\ m.destination = c
    /\ m.source \in Chains \ {c}
    /\ RequireNoRecovery(c)
    /\ delivered # 0

----------------------------------------------------------------------------
\* A rebalance deposit, shared by the CCIP receivers and executeRebalance.

\* Mutant of RebalanceDepositLog: the success is not announced.
RebalanceDepositLog_Silent(c, nonce, amount) == {}

\* The parent's own RebalanceDepositSuccess is not subscribed by the workflow.
RebalanceDepositLog(c, nonce, amount) ==
    IF c = ParentChain THEN {}
    ELSE {[event |-> "RebalanceDepositSuccess", source |-> c, nonce |-> nonce,
           amount |-> amount, strategy |-> NoStrategy]}

RebalanceDepositRecovery(nonce, amount) ==
    [NoRecovery EXCEPT !.mode = "REBALANCE_DEPOSIT", !.nonce = nonce,
                       !.amount = amount]

\* The new adapter is set first, reverting if none is registered; a failed deposit
\* keeps it and stores recovery.  `held` is what the adapters hold before.
ActivateAndDeposit(c, nonce, protocolId, amount, held, success) ==
    /\ protocolId \in Protocols
    /\ activeAdapter' = [activeAdapter EXCEPT ![c] = protocolId]
    /\ IF success
       THEN /\ position' = Deposited(held, Strategy(protocolId, c), amount)
            /\ recovery' = [recovery EXCEPT ![c] = NoRecovery]
            /\ logs' = logs \union RebalanceDepositLog(c, nonce, amount)
       ELSE /\ position' = held
            /\ recovery' = [recovery EXCEPT ![c] =
                                RebalanceDepositRecovery(nonce, amount)]
            /\ logs' = logs

\* _recoverFailedRebalanceDeposit: the stored amount goes into the active adapter.
RecoverRebalanceDeposit(c) ==
    /\ recovery[c].mode = "REBALANCE_DEPOSIT"
    /\ HasAdapter(c)
    /\ position' = Deposited(position, ActiveOn(c), recovery[c].amount)
    /\ recovery' = [recovery EXCEPT ![c] = NoRecovery]
    /\ logs' = logs \union
                 RebalanceDepositLog(c, recovery[c].nonce, recovery[c].amount)
    /\ UNCHANGED <<paused, activeAdapter, ccip>>

----------------------------------------------------------------------------
\* The pauser and unpauser roles.

Pause(c) ==
    /\ ~paused[c]
    /\ paused' = [paused EXCEPT ![c] = TRUE]
    /\ UNCHANGED <<activeAdapter, position, recovery, ccip, logs>>

Unpause(c) ==
    /\ paused[c]
    /\ paused' = [paused EXCEPT ![c] = FALSE]
    /\ UNCHANGED <<activeAdapter, position, recovery, ccip, logs>>
==============================================================================
