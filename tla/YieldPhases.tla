----------------------------- MODULE YieldPhases -----------------------------
(* The phases of an epoch and of a rebalance, as the parent's record and the   *)
(* state of the vaults and lanes together determine them.  At any time at most *)
(* one thing is under way in the whole deployment: one message in flight, or   *)
(* one recovery, or one report to be signed.  PhaseInv is the inductive        *)
(* invariant behind the safety properties of YieldProtocol.                    *)
EXTENDS YieldProtocol

ActiveStrategy == rebalance.activeStrategy
PendingStrategy == rebalance.pendingStrategy
PendingChain == PendingStrategy.chainSelector
PreviousNonce == epochNonce - 1

----------------------------------------------------------------------------
\* Which adapters are set, and what is under way.

AdapterOnlyAt(s) ==
    \A c \in Chains : activeAdapter[c] =
        IF c = s.chainSelector THEN s.protocolId ELSE NoProtocol
NoAdapters == \A c \in Chains : activeAdapter[c] = NoProtocol

NoRecoveries == \A c \in Chains : recovery[c] = NoRecovery

\* Nothing is under way.
Calm == ccip = {} /\ NoRecoveries

\* One message is, carrying some amount.
InFlight(ccipTx, source, destination, nonce, protocolId) ==
    /\ NoRecoveries
    /\ \E m \in ccip :
         /\ ccip = {m}
         /\ m.amount # 0
         /\ m = Message(ccipTx, source, destination, nonce, protocolId, m.amount)

\* One recovery is.
Recovering(c, r) ==
    /\ ccip = {}
    /\ \A d \in Chains : recovery[d] = IF d = c THEN r ELSE NoRecovery

\* The assets a recovery holds.
HeldBy(c) == recovery[c].amount

HandledEpoch(c) == lastHandledEpochNonce[c] = PreviousNonce
HandledRebalance(c) == lastHandledRebalanceNonce[c] = rebalance.nonce

----------------------------------------------------------------------------
\* Before the admin has chosen the first strategy.
Undeployed ==
    /\ ActiveStrategy = NoStrategy
    /\ epochNonce = 1 /\ previousEpoch.status = "NONE" /\ totalShares = 0
    /\ NoAdapters /\ Calm

\* No epoch executes and no rebalance runs.
Quiet == AdapterOnlyAt(ActiveStrategy) /\ Calm

\* A net deposit on its way to, or at, the strategy chain.
DepositInFlight ==
    /\ InFlight("EPOCH_NET_DEPOSIT", ParentChain, ActiveChain, PreviousNonce, NoProtocol)
    /\ ~HandledEpoch(ActiveChain)
DepositRecovering ==
    /\ Recovering(ActiveChain, EpochDepositRecovery(PreviousNonce, HeldBy(ActiveChain)))
    /\ HandledEpoch(ActiveChain)
DepositDone == Calm /\ HandledEpoch(ActiveChain)

\* A net withdrawal waiting for the workflow, or on its way home.
WithdrawWaiting == Calm /\ ~HandledEpoch(ActiveChain)
WithdrawRecovering ==
    /\ Recovering(ActiveChain, EpochWithdrawRecovery(PreviousNonce, HeldBy(ActiveChain)))
    /\ HandledEpoch(ActiveChain)
WithdrawUnsent ==
    /\ Recovering(ActiveChain, CcipSendRecovery("EPOCH_NET_WITHDRAW", ParentChain,
                        PreviousNonce, NoProtocol, HeldBy(ActiveChain)))
    /\ HandledEpoch(ActiveChain)
WithdrawInFlight ==
    /\ InFlight("EPOCH_NET_WITHDRAW", ActiveChain, ParentChain, PreviousNonce, NoProtocol)
    /\ HandledEpoch(ActiveChain)

\* The previous epoch executes.
ExecutingPhase ==
    /\ ActiveChain \in ChildChains
    /\ AdapterOnlyAt(ActiveStrategy)
    /\ \/ /\ previousEpoch.deposit > previousEpoch.withdrawClaim
          /\ DepositInFlight \/ DepositRecovering \/ DepositDone
       \/ /\ previousEpoch.deposit < previousEpoch.withdrawClaim
          /\ WithdrawWaiting \/ WithdrawRecovering \/ WithdrawUnsent \/ WithdrawInFlight

\* A rebalance: the old strategy still has the funds ...
RebalanceWaiting ==
    /\ ActiveChain \in ChildChains
    /\ AdapterOnlyAt(ActiveStrategy) /\ Calm
    /\ ~HandledRebalance(ActiveChain)
RebalanceWithdrawing ==
    /\ ActiveChain \in ChildChains
    /\ AdapterOnlyAt(ActiveStrategy)
    /\ Recovering(ActiveChain, RebalanceWithdrawRecovery(rebalance.nonce, PendingStrategy))
    /\ HandledRebalance(ActiveChain)

\* ... or they are between the chains ...
RebalanceUnsent ==
    /\ ActiveChain \in ChildChains
    /\ NoAdapters
    /\ Recovering(ActiveChain, CcipSendRecovery("REBALANCE", PendingChain, rebalance.nonce,
                        PendingStrategy.protocolId, HeldBy(ActiveChain)))
    /\ HandledRebalance(ActiveChain)
RebalanceInFlight ==
    /\ NoAdapters
    /\ InFlight("REBALANCE", ActiveChain, PendingChain, rebalance.nonce,
                PendingStrategy.protocolId)
    /\ ActiveChain \in ChildChains => HandledRebalance(ActiveChain)

\* ... or have arrived at the new one.
RebalanceDepositing ==
    /\ AdapterOnlyAt(PendingStrategy)
    /\ Recovering(PendingChain, RebalanceDepositRecovery(rebalance.nonce,
                                                        HeldBy(PendingChain)))
    /\ ActiveChain \in ChildChains => HandledRebalance(ActiveChain)
    /\ PendingChain \in ChildChains => HandledRebalance(PendingChain)
RebalanceDeposited ==
    /\ PendingChain \in ChildChains
    /\ AdapterOnlyAt(PendingStrategy) /\ Calm
    /\ ActiveChain \in ChildChains => HandledRebalance(ActiveChain)
    /\ HandledRebalance(PendingChain)

\* Until then the vault of the new strategy has not seen the rebalance.
TargetUntouched ==
    PendingChain \in ChildChains \ {ActiveChain} => ~HandledRebalance(PendingChain)

RebalancingPhase ==
    /\ PendingStrategy \in Strategies /\ PendingStrategy # ActiveStrategy
    /\ \/ /\ TargetUntouched
          /\ \/ RebalanceWaiting \/ RebalanceWithdrawing
             \/ ActiveChain # PendingChain /\ (RebalanceUnsent \/ RebalanceInFlight)
       \/ RebalanceDepositing \/ RebalanceDeposited

\* The phase the parent's record says.
Phase ==
    \/ /\ Undeployed
       /\ rebalance.state = "NONE"
    \/ /\ ActiveStrategy \in Strategies
       /\ \/ rebalance.state = "NONE" /\ previousEpoch.status # "EXECUTING" /\ Quiet
          \/ rebalance.state = "NONE" /\ previousEpoch.status = "EXECUTING" /\ ExecutingPhase
          \/ rebalance.state = "REBALANCING" /\ previousEpoch.status # "EXECUTING"
               /\ RebalancingPhase

----------------------------------------------------------------------------
\* What marks, logs and reports there can be.

\* No vault has handled an epoch that is not closed or a rebalance not begun, and
\* only the two chains of a rebalance handle it.
MarksBounded ==
    \A c \in ChildChains :
        /\ lastHandledEpochNonce[c] <= PreviousNonce
        /\ lastHandledRebalanceNonce[c] <= rebalance.nonce
        /\ HandledRebalance(c) =>
             rebalance.state = "REBALANCING" /\ c \in {ActiveChain, PendingChain}

\* A deposit is announced, and its completion signed, only once it is made.
DepositConfirmable(nonce) ==
    /\ nonce <= PreviousNonce
    /\ /\ nonce = PreviousNonce
       /\ previousEpoch.status = "EXECUTING"
       /\ previousEpoch.deposit > previousEpoch.withdrawClaim
       => DepositDone

\* A withdrawal is announced with the amount the epoch's record asks for.
WithdrawAnnounced(nonce, amount) ==
    /\ nonce <= PreviousNonce
    /\ nonce = PreviousNonce /\ previousEpoch.status = "EXECUTING" =>
         /\ previousEpoch.withdrawClaim = previousEpoch.deposit + amount
         /\ amount # 0

\* The parent can settle the epoch with the amount a completion reports.
CompletionFits(nonce, amount) ==
    /\ DepositConfirmable(nonce)
    /\ nonce = PreviousNonce /\ previousEpoch.status = "EXECUTING" =>
         /\ previousEpoch.deposit > previousEpoch.withdrawClaim
         /\ amount # 0 /\ amount <= ExpectedDeposit
         /\ amount = ExpectedDeposit \/ ReconciledShares(amount) # 0

RebalanceConfirmable(nonce) ==
    /\ nonce <= rebalance.nonce
    /\ nonce = rebalance.nonce => rebalance.state = "REBALANCING" /\ RebalanceDeposited

\* A log that names the rebalance in progress names its target.
InitiationFits(nonce, strategy) ==
    /\ nonce <= rebalance.nonce
    /\ nonce = rebalance.nonce =>
         rebalance.state = "REBALANCING" /\ strategy = PendingStrategy

\* Reports for child vaults: handled already, or what the operation waits for.
WithdrawFits(c, nonce, amount) ==
    /\ c \in ChildChains
    /\ nonce <= PreviousNonce
    /\ nonce > lastHandledEpochNonce[c] =>
         /\ nonce = PreviousNonce /\ c = ActiveChain
         /\ rebalance.state = "NONE"
         /\ previousEpoch.status = "EXECUTING"
         /\ previousEpoch.withdrawClaim = previousEpoch.deposit + amount
         /\ amount # 0

ExecutionFits(c, nonce, strategy) ==
    /\ c \in ChildChains
    /\ nonce <= rebalance.nonce
    /\ nonce > lastHandledRebalanceNonce[c] =>
         /\ nonce = rebalance.nonce /\ c = ActiveChain
         /\ rebalance.state = "REBALANCING" /\ strategy = PendingStrategy

LogFits(l) ==
    /\ l.event = "EpochDepositToStrategySuccess" => DepositConfirmable(l.nonce)
    /\ l.event = "EpochWithdrawExecuting" => WithdrawAnnounced(l.nonce, l.amount)
    /\ l.event = "RebalanceDepositSuccess" => RebalanceConfirmable(l.nonce)
    /\ l.event = "RebalanceInitiated" => InitiationFits(l.nonce, l.strategy)

ReportFits(r) ==
    /\ r.call = "completeEpochDeposit" => CompletionFits(r.nonce, r.amount)
    /\ r.call = "completeRebalance" => RebalanceConfirmable(r.nonce)
    /\ r.call = "executeEpochWithdraw" => WithdrawFits(r.target, r.nonce, r.amount)
    /\ r.call = "executeRebalance" => ExecutionFits(r.target, r.nonce, r.strategy)

PositionsUnderAdapter ==
    \A s \in Strategies : position[s] # 0 => s.protocolId = activeAdapter[s.chainSelector]

\* The deployment is in the phase the parent's record says, no log or report runs
\* ahead of it, and funds sit under the active adapter.
PhaseInv ==
    /\ Phase
    /\ epochNonce = 1 => previousEpoch.status = "NONE"
    /\ MarksBounded
    /\ \A l \in logs : LogFits(l)
    /\ \A r \in reports : ReportFits(r)
    /\ PositionsUnderAdapter
==============================================================================
