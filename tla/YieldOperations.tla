--------------------------- MODULE YieldOperations ---------------------------
(* YieldProtocol with its automation unreliable and its operators at work.     *)
(* Vaults are paused in incidents; a trigger whose handler stops on a paused   *)
(* vault or a failed read is lost, and so is a report its router did not get   *)
(* within MAX_REPORT_AGE; neither is ever retried.  The operators follow the   *)
(* runbook: they end the incident and make the missing call themselves, with   *)
(* arguments taken from an event or from the parent's state, while automation  *)
(* may wake up and make the same call.                                         *)
EXTENDS YieldProtocol

CONSTANT MaxIncidents   \* bound: the pauses of one behaviour

ASSUME IncidentAssumption == MaxIncidents \in Nat

VARIABLES
    emitted,    \* every event emitted so far: the chains keep what triggers lose
    incidents   \* the pauses so far

opsVars == <<vars, emitted, incidents>>

OperationsTypeOK ==
    /\ emitted \subseteq Logs
    /\ incidents \in 0..MaxIncidents

OperationsInit == Init /\ emitted = {} /\ incidents = 0

----------------------------------------------------------------------------
\* What goes wrong.

IncidentStarts ==
    /\ incidents < MaxIncidents /\ incidents' = incidents + 1
    /\ \E c \in Pausable : Pause(c)
    /\ UNCHANGED <<parentVars, childVars, creVars>>

\* The handler returns an error, a failed read for one, and no report.
TriggerFails(l) ==
    /\ logs' = logs \ {l}
    /\ UNCHANGED <<paused, activeAdapter, position, recovery, ccip, parentVars,
                   childVars, creVars>>

\* onReport refuses a report observed more than MAX_REPORT_AGE ago.
ReportExpires(r) ==
    /\ reports' = reports \ {r}
    /\ UNCHANGED <<baseVars, parentVars, childVars, closeSnapshot>>

AutomationFails ==
    /\ \/ \E l \in logs : TriggerFails(l)
       \/ \E r \in reports : ReportExpires(r)
    /\ UNCHANGED incidents

----------------------------------------------------------------------------
\* What the operators do about it.

IncidentEnds ==
    /\ \E c \in Pausable : Unpause(c)
    /\ UNCHANGED <<parentVars, childVars, creVars, incidents>>

\* "Parent Paused Before Completion": the nonce and the amount are those of the
\* destination's event, the parent's state still asking for them.
OperatorCompletes(l) ==
    /\ \/ OnEpochDepositToStrategySuccess(l) /\ CompleteEpochDeposit(l.nonce, l.amount)
       \/ OnRebalanceDepositSuccess(l) /\ CompleteRebalance(l.nonce)
    /\ UNCHANGED childVars

\* "Child Paused Before Rebalance Execution": from ParentVault.getRebalance().
OperatorExecutesRebalance ==
    /\ rebalance.state = "REBALANCING"
    /\ ActiveChain \in ChildChains
    /\ ExecuteRebalance(ActiveChain, rebalance.nonce, rebalance.pendingStrategy)
    /\ UNCHANGED parentVars

\* "Child Paused Before Epoch Withdraw Execution": from the parent's event.
OperatorExecutesWithdraw(l) ==
    /\ l.event = "EpochWithdrawExecuting"
    /\ MatchesExecutingEpoch(l.nonce)
    /\ ActiveChain \in ChildChains
    /\ ExecuteEpochWithdraw(ActiveChain, l.nonce, l.amount)
    /\ UNCHANGED parentVars

BreakGlass ==
    /\ \/ \E l \in emitted : OperatorCompletes(l) \/ OperatorExecutesWithdraw(l)
       \/ OperatorExecutesRebalance
    /\ UNCHANGED <<creVars, incidents>>

----------------------------------------------------------------------------
\* The protocol itself runs on as it does without incidents.
ProtocolRuns ==
    /\ \/ AdminSetsAdapter \/ TimePasses
       \/ EpochCronReadsParent \/ EpochCronReadsChildren \/ RebalanceCronRuns
       \/ WorkflowHandlesLog \/ ForwardReport
    /\ UNCHANGED incidents

MessageArrives == DeliverMessage /\ UNCHANGED incidents
KeeperRecovers == (ParentRecovers \/ ChildRecovers) /\ UNCHANGED incidents

Recorded(A) == A /\ emitted' = emitted \union logs'

OperationsNext ==
    \/ Recorded(ProtocolRuns)
    \/ Recorded(MessageArrives)
    \/ Recorded(KeeperRecovers)
    \/ Recorded(IncidentStarts)
    \/ Recorded(IncidentEnds)
    \/ Recorded(AutomationFails)
    \/ Recorded(BreakGlass)

\* Nothing is assumed of the workflow or of its reports.  Operators end incidents
\* and carry out the runbook, keepers retry recoveries, and CCIP messages are
\* executed, by hand where the first attempt met a paused vault.
OperationsSpec ==
    /\ OperationsInit /\ [][OperationsNext]_opsVars
    /\ WF_opsVars(Recorded(IncidentEnds))
    /\ WF_opsVars(Recorded(BreakGlass))
    /\ WF_opsVars(Recorded(MessageArrives))
    /\ WF_opsVars(Recorded(KeeperRecovers))

----------------------------------------------------------------------------
\* The runbook needs no judgement.  However old the event and whatever automation
\* has done meanwhile: a completion the parent's state still asks for comes when
\* nothing is under way any more and, for a rebalance, the new adapter is in place;
\* and an execution it still asks for is one the strategy's vault accepts unless
\* it is paused, a withdrawal with the amount the epoch's claims are short of.
RunbookCallsFit ==
    /\ \A l \in emitted :
         /\ OnEpochDepositToStrategySuccess(l) \/ OnRebalanceDepositSuccess(l) =>
              ccip = {} /\ \A c \in Chains : RequireNoRecovery(c)
         /\ OnRebalanceDepositSuccess(l) => ActiveOn(l.source) = rebalance.pendingStrategy
         /\ l.event = "EpochWithdrawExecuting" /\ MatchesExecutingEpoch(l.nonce) =>
              /\ ActiveChain \in ChildChains
              /\ previousEpoch.withdrawClaim = previousEpoch.deposit + l.amount
              /\ FreshEpochNonce(ActiveChain, l.nonce) /\ ~paused[ActiveChain] =>
                   ExecuteEpochWithdrawGuard(ActiveChain, l.nonce, l.amount)
    /\ /\ rebalance.state = "REBALANCING" /\ ActiveChain \in ChildChains
       /\ FreshRebalanceNonce(ActiveChain, rebalance.nonce) /\ ~paused[ActiveChain]
       => ExecuteRebalanceGuard(ActiveChain, rebalance.nonce, rebalance.pendingStrategy)

\* An incident loses nothing for ever: whichever vaults were paused, and whichever
\* triggers and reports were lost meanwhile, every executing epoch still becomes
\* claimable by the runbook's calls alone.
EpochSettlesByHand ==
    previousEpoch.status = "EXECUTING" ~> previousEpoch.status = "CLAIMABLE"

\* Likewise every rebalance ends, at whichever vault it was interrupted.
RebalanceEndsByHand ==
    rebalance.state = "REBALANCING" ~> rebalance.state = "NONE"
==============================================================================
