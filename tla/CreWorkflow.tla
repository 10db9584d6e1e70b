----------------------------- MODULE CreWorkflow -----------------------------
(* The CRE workflow (cre/workflow): two cron handlers and four log handlers.   *)
(* Each reads a snapshot of every vault, stops if any vault is paused or in    *)
(* recovery, and answers with at most one signed report.                       *)
(*                                                                             *)
(* The epoch cron is the only handler that combines values of two chains, so   *)
(* its snapshot takes two steps, the parent (listed first in the deployed      *)
(* configuration) before the children.  The others decide from the parent's    *)
(* state and a high-water mark that only grows; they read in one step.         *)
EXTENDS ParentVault, ChildVault, FiniteSets

CONSTANTS
    Replay,         \* TRUE: logs and reports may be delivered any number of times
    MaxEpochs,      \* bound: the last epoch the cron closes
    MaxRebalances,  \* bound: the last rebalance the cron initiates
    MaxCronReports  \* bound: cron reports of one kind and nonce outstanding at once

ASSUME WorkflowAssumption ==
    /\ Replay \in BOOLEAN
    /\ MaxEpochs \in Nat /\ MaxRebalances \in Nat /\ MaxCronReports \in Nat

VARIABLES
    reports,        \* signed reports that may still be forwarded to a vault
    closeSnapshot   \* the epoch cron's reading of the parent, or NoSnapshot

creVars == <<reports, closeSnapshot>>

NoSnapshot == [nonce |-> 0, chainSelector |-> NoChain, tvl |-> 0, totalShares |-> 0]

Snapshots == [nonce : Nat, chainSelector : Chains, tvl : Nat, totalShares : Nat]

CreWorkflowTypeOK ==
    /\ reports \subseteq Reports
    /\ closeSnapshot \in Snapshots \union {NoSnapshot}

CreWorkflowInit ==
    /\ reports = {}
    /\ closeSnapshot = NoSnapshot

Report(call, target, nonce, amount, strategy) ==
    [call |-> call, target |-> target, nonce |-> nonce, amount |-> amount,
     strategy |-> strategy]

\* The bounds on what the crons do.
CronMayReport(call, nonce, last) ==
    /\ nonce <= last
    /\ Cardinality({r \in reports : r.call = call /\ r.nonce = nonce}) < MaxCronReports

\* BlockedReason of one vault and of the whole deployment.
VaultBlocked(c) == paused[c] \/ ~RequireNoRecovery(c)
DeploymentBlocked == \E c \in Chains : VaultBlocked(c)

ActiveChain == rebalance.activeStrategy.chainSelector

----------------------------------------------------------------------------
\* Handler 1: the epoch cron.

\* The conditions of OnEpochCronTrigger on the parent's state.
\* Mutant of EpochCronReady: an executing previous epoch does not stop it.
EpochCronReady_WhileExecuting ==
    /\ ~VaultBlocked(ParentChain)
    /\ rebalance.state = "NONE"
    /\ epochAged
    /\ ActiveChain \in Chains

EpochCronReady ==
    /\ ~VaultBlocked(ParentChain)
    /\ rebalance.state = "NONE"
    /\ PreviousEpochSettled
    /\ epochAged
    /\ ActiveChain \in Chains

\* A reading the handler would discard is not recorded.
EpochCronReadsParent ==
    /\ CronMayReport("closeEpoch", epochNonce, MaxEpochs)
    /\ closeSnapshot = NoSnapshot
    /\ EpochCronReady
    /\ closeSnapshot' = [nonce |-> epochNonce, chainSelector |-> ActiveChain,
                         tvl |-> GetTVL(ParentChain), totalShares |-> totalShares]
    /\ UNCHANGED <<baseVars, parentVars, childVars, reports>>

\* ActiveTVL of the snapshot once the children are read.
SnapshotTVL ==
    IF closeSnapshot.chainSelector = ParentChain THEN closeSnapshot.tvl
    ELSE GetTVL(closeSnapshot.chainSelector)

\* calculateEpochClose repeats the settlement checks of the contract on the
\* queue's totals; here some totals pass them.
CloseIsWorthwhile ==
    \E deposit \in 0..MaxDeposit, burn \in 0..closeSnapshot.totalShares :
        SettlementAllowed(deposit, burn, SnapshotTVL, closeSnapshot.totalShares,
                          closeSnapshot.chainSelector = ParentChain)

EpochCronReadsChildren ==
    /\ closeSnapshot # NoSnapshot
    /\ reports' = reports \union
          IF (\E c \in ChildChains : VaultBlocked(c)) \/ ~CloseIsWorthwhile THEN {}
          ELSE {Report("closeEpoch", ParentChain, closeSnapshot.nonce, SnapshotTVL,
                       NoStrategy)}
    /\ closeSnapshot' = NoSnapshot
    /\ UNCHANGED <<baseVars, parentVars, childVars>>

----------------------------------------------------------------------------
\* Handler 2: the rebalance cron.  Which pool pays best is the environment's
\* choice: any strategy other than the active one.
RebalanceCron(best) ==
    /\ CronMayReport("initiateRebalance", rebalance.nonce, MaxRebalances)
    /\ ~DeploymentBlocked
    /\ rebalance.state = "NONE"
    /\ epochNonce > 1
    /\ previousEpoch.status # "EXECUTING"
    /\ rebalanceAged
    /\ ~(ActiveIsParent /\ GetTVL(ParentChain) = 0)
    /\ best # rebalance.activeStrategy
    /\ reports' = reports \union {Report("initiateRebalance", ParentChain,
                                         rebalance.nonce, 0, best)}
    /\ UNCHANGED <<baseVars, parentVars, childVars, closeSnapshot>>

----------------------------------------------------------------------------
\* Handlers 3 to 6: what a log makes the workflow submit when nothing blocks it.

MatchesExecutingEpoch(nonce) ==
    /\ epochNonce > 1
    /\ nonce = epochNonce - 1
    /\ previousEpoch.status = "EXECUTING"

OnRebalanceInitiated(l) ==
    /\ l.event = "RebalanceInitiated"
    /\ l.nonce = rebalance.nonce
    /\ rebalance.state = "REBALANCING" => l.strategy = rebalance.pendingStrategy
    /\ ActiveChain \in ChildChains
    /\ FreshRebalanceNonce(ActiveChain, l.nonce)

OnEpochWithdrawExecuting(l) ==
    /\ l.event = "EpochWithdrawExecuting"
    /\ rebalance.state = "NONE"
    /\ MatchesExecutingEpoch(l.nonce)
    /\ l.amount # 0
    /\ previousEpoch.withdrawClaim = previousEpoch.deposit + l.amount
    /\ ActiveChain \in ChildChains
    /\ FreshEpochNonce(ActiveChain, l.nonce)

OnRebalanceDepositSuccess(l) ==
    /\ l.event = "RebalanceDepositSuccess"
    /\ rebalance.state = "REBALANCING"
    /\ l.nonce = rebalance.nonce
    /\ rebalance.pendingStrategy.chainSelector # ParentChain
    /\ l.source = rebalance.pendingStrategy.chainSelector

\* reconcileEpochDeposit repeats the amount checks of the contract.
OnEpochDepositToStrategySuccess(l) ==
    /\ l.event = "EpochDepositToStrategySuccess"
    /\ ActiveChain # ParentChain
    /\ l.source = ActiveChain
    /\ MatchesExecutingEpoch(l.nonce)
    /\ previousEpoch.deposit > previousEpoch.withdrawClaim
    /\ l.amount # 0 /\ l.amount <= ExpectedDeposit
    /\ \/ l.amount = ExpectedDeposit
       \/ /\ ReconciledShares(l.amount) # 0
          /\ previousEpoch.shareMint - ReconciledShares(l.amount) <= totalShares

\* The reports a log asks for: none or one.
Continuation(l) ==
    {r \in {Report("executeRebalance", ActiveChain, l.nonce, 0, l.strategy)} :
        OnRebalanceInitiated(l)}
    \union
    {r \in {Report("executeEpochWithdraw", ActiveChain, l.nonce, l.amount, NoStrategy)} :
        OnEpochWithdrawExecuting(l)}
    \union
    {r \in {Report("completeRebalance", ParentChain, l.nonce, 0, NoStrategy)} :
        OnRebalanceDepositSuccess(l)}
    \union
    {r \in {Report("completeEpochDeposit", ParentChain, l.nonce, l.amount, NoStrategy)} :
        OnEpochDepositToStrategySuccess(l)}

\* A log whose handler is blocked, or finds nothing to do, is used up by it all
\* the same: nothing in the workflow retries it.
HandleLog(l) ==
    /\ reports' = reports \union IF DeploymentBlocked THEN {} ELSE Continuation(l)
    /\ logs' = IF Replay THEN logs ELSE logs \ {l}
    /\ UNCHANGED <<paused, activeAdapter, position, recovery, ccip, parentVars,
                   childVars, closeSnapshot>>
==============================================================================
