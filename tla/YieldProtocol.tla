---------------------------- MODULE YieldProtocol ----------------------------
(* The whole deployment: one ParentVault, its ChildVaults, the CCIP lanes      *)
(* between them and the CRE workflow that drives them with reports.            *)
EXTENDS CreWorkflow

CONSTANTS
    Pausable,   \* the chains whose vaults the pauser role may pause
    MaxLoss     \* bound: what the token pools may keep of one CCIP transfer

ASSUME LossAssumption == Pausable \subseteq Chains /\ MaxLoss \in Nat

vars == <<baseVars, parentVars, childVars, creVars>>

Init ==
    /\ BaseVaultInit
    /\ ParentVaultInit
    /\ ChildVaultInit
    /\ CreWorkflowInit

----------------------------------------------------------------------------
\* A report reaches the vault through the WorkflowRouter of its chain.  A call
\* that would revert leaves the state as it was, so it is no step.

UseUp(r) == reports' = IF Replay THEN reports ELSE reports \ {r}

ForwardToParent(r) ==
    /\ r.target = ParentChain
    /\ UseUp(r)
    /\ \/ r.call = "closeEpoch" /\ CloseEpoch(r.nonce, r.amount)
       \/ r.call = "completeEpochDeposit" /\ CompleteEpochDeposit(r.nonce, r.amount)
       \/ r.call = "initiateRebalance" /\ InitiateRebalance(r.nonce, r.strategy)
       \/ r.call = "completeRebalance" /\ CompleteRebalance(r.nonce)
    /\ UNCHANGED <<childVars, closeSnapshot>>

ForwardToChild(r) ==
    /\ r.target \in ChildChains
    /\ UseUp(r)
    /\ \/ r.call = "executeEpochWithdraw" /\ ExecuteEpochWithdraw(r.target, r.nonce, r.amount)
       \/ r.call = "executeRebalance" /\ ExecuteRebalance(r.target, r.nonce, r.strategy)
    /\ UNCHANGED <<parentVars, closeSnapshot>>

ForwardReport == \E r \in reports : ForwardToParent(r) \/ ForwardToChild(r)

----------------------------------------------------------------------------
\* CCIP executes each message at most once, in any order, and may deliver less
\* than was sent; a message whose receiver reverts stays executable.

Deliveries(m) == {d \in 0..m.amount : m.amount - d <= MaxLoss}

DeliverToParent(m) ==
    /\ \E d \in Deliveries(m) : \/ ReceiveEpochNetWithdraw(m, d)
                                \/ ReceiveRebalanceOnParent(m, d)
    /\ UNCHANGED <<childVars, creVars>>

DeliverToChild(m) ==
    /\ \E c \in ChildChains, d \in Deliveries(m) :
         \/ ReceiveEpochNetDeposit(c, m, d)
         \/ ReceiveRebalanceOnChild(c, m, d)
    /\ UNCHANGED <<parentVars, creVars>>

DeliverMessage == \E m \in ccip : DeliverToParent(m) \/ DeliverToChild(m)

----------------------------------------------------------------------------
\* The keepers, the roles and time.

ParentRecovers == ExecuteRecoveryOnParent /\ UNCHANGED <<childVars, creVars>>

ChildRecovers ==
    /\ \E c \in ChildChains : ExecuteRecoveryOnChild(c)
    /\ UNCHANGED <<parentVars, creVars>>

PauserActs ==
    /\ \E c \in Pausable : Pause(c) \/ Unpause(c)
    /\ UNCHANGED <<parentVars, childVars, creVars>>

AdminSetsAdapter ==
    /\ \E p \in Protocols : SetInitialActiveProtocolAdapter(p)
    /\ UNCHANGED <<childVars, creVars>>

TimePasses == (EpochAges \/ RebalanceAges) /\ UNCHANGED <<childVars, creVars>>

WorkflowHandlesLog == \E l \in logs : HandleLog(l)

RebalanceCronRuns == \E s \in Strategies : RebalanceCron(s)

Next ==
    \/ AdminSetsAdapter
    \/ TimePasses
    \/ PauserActs
    \/ EpochCronReadsParent
    \/ EpochCronReadsChildren
    \/ RebalanceCronRuns
    \/ WorkflowHandlesLog
    \/ ForwardReport
    \/ DeliverMessage
    \/ ParentRecovers
    \/ ChildRecovers

Spec == Init /\ [][Next]_vars

\* Finalized logs reach the workflow, signed reports are forwarded, CCIP executes
\* what it accepted, and keepers retry recoveries until the market or the router
\* lets them through.  Nothing is assumed of the crons, the roles or the clock.
Fairness ==
    /\ WF_vars(WorkflowHandlesLog)
    /\ WF_vars(ForwardReport)
    /\ WF_vars(DeliverMessage)
    /\ WF_vars(ParentRecovers)
    /\ WF_vars(ChildRecovers)

FairSpec == Spec /\ Fairness

----------------------------------------------------------------------------
\* Every variable holds a value of its type, no subtraction of the code having
\* underflown; the recovery modes of the ChildVaults never occur on the parent.
TypeOK ==
    /\ BaseVaultTypeOK
    /\ ParentVaultTypeOK
    /\ ChildVaultTypeOK
    /\ CreWorkflowTypeOK

\* The shares an executing epoch may yet have to give back for a short delivery are
\* still counted: whatever is minted, burnt or charged meanwhile, reconciling the
\* deposit does not underflow s_totalShares.
ExecutingMintCounted ==
    previousEpoch.status = "EXECUTING" => previousEpoch.shareMint <= totalShares

\* At most one vault of the deployment is in recovery at a time, whatever fails
\* and however late reports and messages arrive: no stored recovery can meet a
\* second failure on another chain (_requireNoRecovery only guards its own vault).
AtMostOneRecovery ==
    \A c, d \in Chains : ~RequireNoRecovery(c) /\ ~RequireNoRecovery(d) => c = d

\* Assets sit only in the adapter their vault points to: _setActiveAdapter and
\* _clearActiveAdapter never leave a position behind that no call would reach,
\* and never two vaults have an adapter at once.
FundsUnderActiveAdapter ==
    /\ \A s \in Strategies :
         position[s] # 0 => s.protocolId = activeAdapter[s.chainSelector]
    /\ \A c, d \in Chains : HasAdapter(c) /\ HasAdapter(d) => c = d

\* Between rebalances the adapters agree with the parent's record: the active
\* strategy's adapter is set on its chain and no other vault has one.  closeEpoch
\* decides local or remote from its own adapter and sends to the recorded chain,
\* so the two must never disagree.
SettledAtActiveStrategy ==
    rebalance.state = "NONE" /\ rebalance.activeStrategy # NoStrategy =>
        \A c \in Chains : activeAdapter[c] =
            IF c = ActiveChain THEN rebalance.activeStrategy.protocolId ELSE NoProtocol

\* The vault a message is addressed to takes it as soon as it is not paused: no
\* interleaving of replays, recoveries and later operations strands a transfer.
Acceptable(m) ==
    IF m.destination = ParentChain
    THEN /\ ParentReceivable(m, m.amount)
         /\ NetWithdrawReceivable(m) \/ RebalanceReceivable(m)
    ELSE /\ ReceivableBy(m.destination, m, m.amount)
         /\ \/ EpochDepositReceivable(m.destination, m)
            \/ ChildRebalanceReceivable(m.destination, m)

NoStrandedMessage ==
    \A m \in ccip : ~paused[m.destination] => Acceptable(m)

\* A stored recovery belongs to the operation the parent has in progress, so that
\* the permissionless retry continues it and nothing else; on the parent itself
\* the pending strategy it will finalize is the one that got the funds.
RecoveryContinuesOperation ==
    \A c \in Chains :
        LET r == recovery[c]
            rebalancing == rebalance.state = "REBALANCING" /\ r.nonce = rebalance.nonce
            executing == MatchesExecutingEpoch(r.nonce) /\ c = ActiveChain
        IN  /\ r.mode = "REBALANCE_DEPOSIT" =>
                   rebalancing /\ rebalance.pendingStrategy = ActiveOn(c)
            /\ r.mode = "REBALANCE_WITHDRAW" =>
                   rebalancing /\ c = ActiveChain /\ r.target = rebalance.pendingStrategy
            /\ r.mode \in {"EPOCH_DEPOSIT", "EPOCH_WITHDRAW"} =>
                   executing /\ HasAdapter(c)
            /\ r.mode = "CCIP_SEND" =>
                   \/ r.ccipTx = "EPOCH_NET_WITHDRAW" /\ executing
                   \/ /\ r.ccipTx = "REBALANCE" /\ rebalancing
                      /\ r.target = rebalance.pendingStrategy

\* The guard that stops the workflow while any vault is in recovery never eats a
\* log that some operation is waiting for: with no vault paused, a log that asks
\* for a report is not blocked.
ActionableLogNotBlocked ==
    (\A c \in Chains : ~paused[c]) =>
        \A l \in logs : Continuation(l) # {} => ~DeploymentBlocked

\* A report signed earlier, delayed or delivered again, either is refused by the
\* nonce it carries or still fits the operation it was signed for, and then its
\* vault accepts it unless paused.
ReportFitsOperation ==
    \A r \in reports :
        /\ r.call = "executeEpochWithdraw" /\ FreshEpochNonce(r.target, r.nonce) =>
              /\ MatchesExecutingEpoch(r.nonce)
              /\ r.target = ActiveChain
              /\ previousEpoch.withdrawClaim = previousEpoch.deposit + r.amount
              /\ ~paused[r.target] =>
                    ExecuteEpochWithdrawGuard(r.target, r.nonce, r.amount)
        /\ r.call = "executeRebalance" /\ FreshRebalanceNonce(r.target, r.nonce) =>
              /\ rebalance.state = "REBALANCING" /\ r.nonce = rebalance.nonce
              /\ r.target = ActiveChain /\ r.strategy = rebalance.pendingStrategy
              /\ ~paused[r.target] => ExecuteRebalanceGuard(r.target, r.nonce, r.strategy)
        /\ /\ r.call = "completeEpochDeposit" /\ MatchesExecutingEpoch(r.nonce)
           /\ ~paused[ParentChain]
           => CompleteEpochDepositGuard(r.nonce, r.amount)
        /\ /\ r.call = "completeRebalance" /\ r.nonce = rebalance.nonce
           /\ ~paused[ParentChain]
           => CompleteRebalanceGuard(r.nonce)

\* Once an epoch is claimable its claim pools are fixed: no replayed completion,
\* late message or later rebalance reprices them.
SettledEpochFrozen ==
    [][previousEpoch.status = "CLAIMABLE" /\ epochNonce' = epochNonce
         => previousEpoch' = previousEpoch]_vars

\* Every executing epoch becomes claimable, and every rebalance ends.
EpochSettles ==
    previousEpoch.status = "EXECUTING" ~> previousEpoch.status = "CLAIMABLE"
RebalanceEnds ==
    rebalance.state = "REBALANCING" ~> rebalance.state = "NONE"
==============================================================================
