----------------------- MODULE YieldOperations_proofs -----------------------
(* Proofs about YieldOperations: pauses, lost triggers, lost reports and the   *)
(* operators' calls keep the deployment in the phase the parent records and    *)
(* its assets whole, for any number of chains, protocols and incidents.        *)
EXTENDS YieldOperations, YieldBacking_proofs

\* Every event ever emitted still fits, so an operator may act on any of them.
OperationsInv ==
    /\ TypeInv /\ PhaseInv
    /\ OperationsTypeOK
    /\ \A l \in emitted : LogFits(l)

----------------------------------------------------------------------------
(* The events. *)

\* An event of before a step that keeps what fitted still fits after it.
LEMMA EventStaysFit ==
    ASSUME NEW l \in Logs, LogFits(l), BooksFit
    PROVE  LogFits(l)'
<1>1. l.nonce \in Nat /\ l.amount \in Nat /\ l.strategy \in Targets
  BY DEF Logs
<1>2. QED
  BY <1>1, Zenon DEF LogFits, BooksFit

\* Recording the events of a step keeps the invariant.
LEMMA RecordedStep ==
    ASSUME OperationsInv, TypeInv', PhaseStep, emitted' = emitted \union logs',
           incidents' \in 0..MaxIncidents
    PROVE  OperationsInv'
<1>1. PhaseInv' /\ BooksFit
  BY DEF PhaseStep
<1>2. logs' \subseteq Logs /\ emitted \subseteq Logs
  BY DEF TypeInv, TypeOK, BaseVaultTypeOK, OperationsInv, OperationsTypeOK
<1>3. OperationsTypeOK'
  BY <1>2 DEF OperationsTypeOK
<1>4. \A l \in emitted : LogFits(l)'
  BY <1>1, <1>2, EventStaysFit DEF OperationsInv
<1>5. \A l \in logs' : LogFits(l)'
  BY <1>1 DEF PhaseInv
<1>6. (\A l \in emitted : LogFits(l))'
  BY <1>4, <1>5
<1>7. QED
  BY <1>1, <1>3, <1>6 DEF OperationsInv

----------------------------------------------------------------------------
(* The protocol's own steps. *)

\* A step of the protocol keeps the types, the phase and what fitted.
LEMMA ProtocolStep ==
    ASSUME TypeInv, PhaseInv, Next
    PROVE  TypeInv' /\ PhaseStep
<1>1. TypeInv'
  BY NextTypeInv
<1>2. QED
  BY <1>1, NextPhaseStep

\* Each of these is a step of the protocol.
LEMMA ProtocolSteps ==
    ASSUME ProtocolRuns \/ MessageArrives \/ KeeperRecovers
    PROVE  Next /\ UNCHANGED incidents
BY DEF ProtocolRuns, MessageArrives, KeeperRecovers, Next

\* So are the beginning and the end of an incident.
LEMMA IncidentSteps ==
    ASSUME IncidentStarts \/ IncidentEnds
    PROVE  Next
BY DEF IncidentStarts, IncidentEnds, PauserActs, Next

----------------------------------------------------------------------------
(* What automation loses. *)

\* A lost trigger or report leaves the phase alone.
LEMMA AutomationFailsStep ==
    ASSUME TypeInv, PhaseInv, AutomationFails
    PROVE  TypeInv' /\ PhaseStep
<1>1. BaseVaultTypeOK /\ ParentVaultTypeOK /\ ChildVaultTypeOK /\ CreWorkflowTypeOK
  BY DEF TypeInv, TypeOK
<1>2. /\ UNCHANGED <<paused, activeAdapter, position, recovery, ccip, closeSnapshot>>
      /\ UNCHANGED <<parentVars, childVars>>
      /\ logs' \subseteq logs /\ reports' \subseteq reports
  BY DEF AutomationFails, TriggerFails, ReportExpires, baseVars, creVars
<1>3. ParentVaultTypeOK' /\ ExecutingMintCounted'
  BY <1>2, ParentTypesUnchanged
<1>4. BaseVaultTypeOK'
  BY <1>1, <1>2 DEF BaseVaultTypeOK
<1>5. ChildVaultTypeOK' /\ CreWorkflowTypeOK'
  BY <1>1, <1>2 DEF ChildVaultTypeOK, CreWorkflowTypeOK, childVars
<1>6. TypeInv'
  BY <1>3, <1>4, <1>5 DEF TypeInv, TypeOK
<1>7. UNCHANGED phaseVars
  BY <1>2 DEF phaseVars, parentVars, childVars
<1>8. PhaseStep
  BY <1>2, <1>7, QuietStep
<1>9. QED
  BY <1>6, <1>8
----------------------------------------------------------------------------
(* The calls of the runbook. *)

\* A call to the parent by hand leaves every type in place ...
LEMMA CompletionTypes ==
    ASSUME TypeInv, NEW l \in Logs, OperatorCompletes(l), UNCHANGED creVars
    PROVE  TypeInv'
<1>1. /\ ChildVaultTypeOK /\ CreWorkflowTypeOK /\ rebalance.pendingStrategy \in Targets
      /\ l.nonce \in Nat /\ l.amount \in Nat
  BY PhaseTypes DEF TypeInv, TypeOK, Logs, Rebalances
<1>2. ChildVaultTypeOK' /\ CreWorkflowTypeOK'
  BY <1>1, Zenon DEF OperatorCompletes, ChildVaultTypeOK, CreWorkflowTypeOK, childVars, creVars
<1>3. CASE CompleteEpochDeposit(l.nonce, l.amount)
  BY <1>1, <1>2, <1>3, CompleteEpochDepositTypes DEF TypeInv, TypeOK
<1>4. CASE CompleteRebalance(l.nonce)
  BY <1>1, <1>2, <1>4, FinalizeRebalanceTypes, BaseTypesUnchanged
     DEF CompleteRebalance, TypeInv, TypeOK
<1>5. QED
  BY <1>3, <1>4 DEF OperatorCompletes

\* ... and comes, like the workflow's own, when the funds are in place.
LEMMA CompletionStep ==
    ASSUME TypeInv, PhaseInv, NEW l \in Logs, LogFits(l), OperatorCompletes(l),
           UNCHANGED creVars
    PROVE  PhaseStep
<1>1. UNCHANGED childVars /\ reports' \subseteq reports
  BY DEF OperatorCompletes, creVars
<1>2. CASE OnEpochDepositToStrategySuccess(l) /\ CompleteEpochDeposit(l.nonce, l.amount)
  <2>1. DepositConfirmable(l.nonce)
    BY <1>2 DEF LogFits, OnEpochDepositToStrategySuccess
  <2>2. QED
    BY <1>1, <1>2, <2>1, CompleteEpochDepositPhase
<1>3. CASE OnRebalanceDepositSuccess(l) /\ CompleteRebalance(l.nonce)
  <2>1. RebalanceConfirmable(l.nonce)
    BY <1>3 DEF LogFits, OnRebalanceDepositSuccess
  <2>2. QED
    BY <1>1, <1>3, <2>1, CompleteRebalancePhase
<1>4. QED
  BY <1>2, <1>3 DEF OperatorCompletes

\* A withdrawal by hand is the one the epoch asks for, or is refused by its nonce.
LEMMA WithdrawCallFits ==
    ASSUME TypeInv, PhaseInv, NEW l \in Logs, LogFits(l), l.event = "EpochWithdrawExecuting",
           MatchesExecutingEpoch(l.nonce), ActiveChain \in ChildChains
    PROVE  WithdrawFits(ActiveChain, l.nonce, l.amount)
<1>1. WithdrawAnnounced(l.nonce, l.amount)
  BY DEF LogFits
<1>2. l.nonce = PreviousNonce /\ previousEpoch.status = "EXECUTING"
  BY DEF MatchesExecutingEpoch, PreviousNonce
<1>3. rebalance.state = "NONE"
  BY <1>2, ExecutingFacts DEF PhaseInv, Executing
<1>4. QED
  BY <1>1, <1>2, <1>3, PhaseTypes DEF WithdrawAnnounced, WithdrawFits

\* A call to a child by hand, with the event's or the parent's arguments.
LEMMA ExecutionStep ==
    ASSUME TypeInv, PhaseInv, UNCHANGED creVars,
           \/ OperatorExecutesRebalance
           \/ \E l \in Logs : LogFits(l) /\ OperatorExecutesWithdraw(l)
    PROVE  TypeInv' /\ PhaseStep
<1>1. /\ BaseVaultTypeOK /\ ChildVaultTypeOK /\ CreWorkflowTypeOK
      /\ rebalance.nonce \in Nat /\ rebalance.pendingStrategy \in Targets
  BY PhaseTypes DEF TypeInv, TypeOK, Rebalances
<1>2. UNCHANGED parentVars /\ ActiveChain \in ChildChains /\ reports' \subseteq reports
  BY DEF OperatorExecutesRebalance, OperatorExecutesWithdraw, creVars
<1>3. CreWorkflowTypeOK' /\ ParentVaultTypeOK' /\ ExecutingMintCounted'
  BY <1>1, <1>2, ParentTypesUnchanged DEF CreWorkflowTypeOK, creVars
<1>4. CASE OperatorExecutesRebalance
  <2>1. ExecuteRebalance(ActiveChain, rebalance.nonce, rebalance.pendingStrategy)
    BY <1>4 DEF OperatorExecutesRebalance
  <2>2. TypeInv'
    BY <1>1, <1>2, <1>3, <2>1, ExecuteRebalanceTypes DEF TypeInv, TypeOK
  <2>3. ExecutionFits(ActiveChain, rebalance.nonce, rebalance.pendingStrategy)
    BY <1>1, <1>2, <1>4 DEF OperatorExecutesRebalance, ExecutionFits, PendingStrategy
  <2>4. QED
    BY <1>1, <1>2, <2>1, <2>2, <2>3, ExecuteRebalancePhase
<1>5. ASSUME NEW l \in Logs, LogFits(l), OperatorExecutesWithdraw(l)
      PROVE  TypeInv' /\ PhaseStep
  <2>1. ExecuteEpochWithdraw(ActiveChain, l.nonce, l.amount) /\ l.nonce \in Nat /\ l.amount \in Nat
    BY <1>5 DEF OperatorExecutesWithdraw, Logs
  <2>2. TypeInv'
    BY <1>1, <1>2, <1>3, <2>1, ExecuteEpochWithdrawTypes DEF TypeInv, TypeOK
  <2>3. WithdrawFits(ActiveChain, l.nonce, l.amount)
    BY <1>2, <1>5, WithdrawCallFits DEF OperatorExecutesWithdraw
  <2>4. QED
    BY <1>2, <2>1, <2>2, <2>3, ExecuteEpochWithdrawPhase
<1>6. QED
  BY <1>4, <1>5

\* Whichever call the operators make.
LEMMA BreakGlassStep ==
    ASSUME OperationsInv, BreakGlass
    PROVE  TypeInv' /\ PhaseStep
<1>1. /\ TypeInv /\ PhaseInv /\ UNCHANGED creVars
      /\ \A l \in emitted : l \in Logs /\ LogFits(l)
  BY DEF OperationsInv, OperationsTypeOK, BreakGlass
<1>2. ASSUME NEW l \in emitted, OperatorCompletes(l) PROVE TypeInv' /\ PhaseStep
  BY <1>1, <1>2, CompletionTypes, CompletionStep
<1>3. CASE OperatorExecutesRebalance
  BY <1>1, <1>3, ExecutionStep
<1>4. ASSUME NEW l \in emitted, OperatorExecutesWithdraw(l) PROVE TypeInv' /\ PhaseStep
  BY <1>1, <1>4, ExecutionStep
<1>5. QED
  BY <1>2, <1>3, <1>4 DEF BreakGlass

----------------------------------------------------------------------------
(* Every step. *)

\* Nothing has been emitted at the start.
LEMMA OperationsInitially == OperationsInit => OperationsInv
BY InitTypeInv, InitPhase, IncidentAssumption DEF OperationsInit, OperationsInv, OperationsTypeOK

\* A step of the protocol, of automation's failures or of the operators.
LEMMA OperationsStep == OperationsInv /\ [OperationsNext]_opsVars => OperationsInv'
<1> SUFFICES ASSUME OperationsInv, [OperationsNext]_opsVars PROVE OperationsInv'
  OBVIOUS
<1>1. TypeInv /\ PhaseInv /\ incidents \in 0..MaxIncidents /\ MaxIncidents \in Nat
  BY IncidentAssumption DEF OperationsInv, OperationsTypeOK
<1>2. CASE Recorded(ProtocolRuns) \/ Recorded(MessageArrives) \/ Recorded(KeeperRecovers)
  BY <1>1, <1>2, ProtocolSteps, ProtocolStep, RecordedStep DEF Recorded
<1>3. CASE Recorded(IncidentStarts) \/ Recorded(IncidentEnds)
  <2>1. incidents' \in 0..MaxIncidents
    BY <1>1, <1>3 DEF Recorded, IncidentStarts, IncidentEnds
  <2>2. QED
    BY <1>1, <1>3, <2>1, IncidentSteps, ProtocolStep, RecordedStep DEF Recorded
<1>4. CASE Recorded(AutomationFails)
  <2>1. UNCHANGED incidents
    BY <1>4 DEF Recorded, AutomationFails
  <2>2. QED
    BY <1>1, <1>4, <2>1, AutomationFailsStep, RecordedStep DEF Recorded
<1>5. CASE Recorded(BreakGlass)
  <2>1. UNCHANGED incidents
    BY <1>5 DEF Recorded, BreakGlass
  <2>2. QED
    BY <1>1, <1>5, <2>1, BreakGlassStep, RecordedStep DEF Recorded
<1>6. CASE UNCHANGED opsVars
  <2>1. UNCHANGED vars /\ UNCHANGED <<emitted, incidents>>
    BY <1>6 DEF opsVars
  <2>2. TypeInv' /\ PhaseStep
    BY <1>1, <2>1, NextTypeInv, NextPhaseStep
  <2>3. \A l \in emitted : LogFits(l)'
    BY <2>2, EventStaysFit DEF OperationsInv, OperationsTypeOK, PhaseStep
  <2>4. QED
    BY <2>1, <2>2, <2>3 DEF OperationsInv, OperationsTypeOK, PhaseStep
<1>7. QED
  BY <1>2, <1>3, <1>4, <1>5, <1>6 DEF OperationsNext

\* The invariant holds throughout.
LEMMA OperationsInvariance == OperationsSpec => []OperationsInv
BY OperationsInitially, OperationsStep, PTL DEF OperationsSpec

----------------------------------------------------------------------------
(* What follows. *)

\* Incidents, losses and manual calls included, the deployment is always in the
\* phase the parent records, with one thing under way.
THEOREM OperationsPhases == OperationsSpec => []PhaseInv
<1>1. OperationsInv => PhaseInv
  BY DEF OperationsInv
<1>2. QED
  BY <1>1, OperationsInvariance, PTL

\* A report signed before an operator made the same call is refused by its nonce,
\* or still fits.
THEOREM OperationsReports == OperationsSpec => []ReportFitsOperation
<1>1. OperationsInv => ReportFitsOperation
  BY ReportsNow DEF OperationsInv
<1>2. QED
  BY <1>1, OperationsInvariance, PTL

\* The operators' calls strand no message, misplace no funds and mislead no
\* recovery, count no value twice and leave reconciliation its shares, whatever
\* automation does at the same time and whatever transfers lose.
THEOREM OperationsSafe ==
    OperationsSpec => [](/\ AtMostOneRecovery /\ FundsUnderActiveAdapter
                         /\ SettledAtActiveStrategy /\ NoStrandedMessage
                         /\ RecoveryContinuesOperation /\ TvlCountedOnce
                         /\ TypeOK /\ ExecutingMintCounted)
<1>1. OperationsInv => /\ AtMostOneRecovery /\ FundsUnderActiveAdapter
                       /\ SettledAtActiveStrategy /\ NoStrandedMessage
                       /\ RecoveryContinuesOperation /\ TvlCountedOnce
                       /\ TypeOK /\ ExecutingMintCounted
  BY OneRecoveryNow, FundsNow, RecordNow, MessagesNow, RecoveriesNow, CountedOnceNow
     DEF OperationsInv, TypeInv
<1>2. QED
  BY <1>1, OperationsInvariance, PTL

\* A call of the runbook that the parent's state still asks for is the right one,
\* with the right amount, and is accepted unless the vault is paused.
THEOREM RunbookIsSafe == OperationsSpec => []RunbookCallsFit
<1>1. OperationsInv => RunbookCallsFit
  <2> SUFFICES ASSUME OperationsInv PROVE RunbookCallsFit
    OBVIOUS
  <2>1. TypeInv /\ PhaseInv /\ Phase /\ \A l \in emitted : l \in Logs /\ LogFits(l)
    BY DEF OperationsInv, OperationsTypeOK, PhaseInv
  <2>2. ASSUME NEW l \in emitted, OnEpochDepositToStrategySuccess(l)
        PROVE  ccip = {} /\ \A c \in Chains : RequireNoRecovery(c)
    <3>1. DepositDone
      BY <2>1, <2>2 DEF LogFits, OnEpochDepositToStrategySuccess, DepositConfirmable,
         MatchesExecutingEpoch, PreviousNonce
    <3>2. QED
      BY <3>1, NoRecoveriesFacts DEF DepositDone, Calm
  <2>3. ASSUME NEW l \in emitted, OnRebalanceDepositSuccess(l)
        PROVE  /\ ccip = {} /\ \A c \in Chains : RequireNoRecovery(c)
               /\ ActiveOn(l.source) = rebalance.pendingStrategy
    <3>1. RebalanceDeposited /\ Rebalancing /\ l.source = PendingChain
      BY <2>1, <2>3, RebalancingFacts DEF LogFits, OnRebalanceDepositSuccess,
         RebalanceConfirmable, PendingChain, PendingStrategy
    <3>2. ActiveOn(PendingChain) = PendingStrategy
      BY <3>1, AdapterFacts DEF RebalanceDeposited, Rebalancing, PendingChain
    <3>3. QED
      BY <3>1, <3>2, NoRecoveriesFacts DEF RebalanceDeposited, Calm, PendingStrategy
  <2>4. ASSUME NEW l \in emitted, l.event = "EpochWithdrawExecuting",
               MatchesExecutingEpoch(l.nonce)
        PROVE  /\ ActiveChain \in ChildChains
               /\ previousEpoch.withdrawClaim = previousEpoch.deposit + l.amount
               /\ FreshEpochNonce(ActiveChain, l.nonce) /\ ~paused[ActiveChain] =>
                    ExecuteEpochWithdrawGuard(ActiveChain, l.nonce, l.amount)
    <3>1. /\ l.nonce = PreviousNonce /\ previousEpoch.status = "EXECUTING"
          /\ WithdrawAnnounced(l.nonce, l.amount) /\ l.amount \in Nat
      BY <2>1, <2>4 DEF MatchesExecutingEpoch, PreviousNonce, LogFits, Logs
    <3>2. previousEpoch.withdrawClaim = previousEpoch.deposit + l.amount /\ l.amount # 0
      BY <3>1 DEF WithdrawAnnounced
    <3>3. Executing
      BY <2>1, <3>1, ExecutingFacts
    <3>4. ASSUME FreshEpochNonce(ActiveChain, l.nonce), ~paused[ActiveChain]
          PROVE  ExecuteEpochWithdrawGuard(ActiveChain, l.nonce, l.amount)
      <4>1. WithdrawWaiting
        BY <2>1, <3>1, <3>2, <3>4, WithdrawAwaited
      <4>2. RequireNoRecovery(ActiveChain) /\ HasAdapter(ActiveChain)
        BY <3>3, <4>1, ChainFacts, NoRecoveriesFacts, AdapterFacts
           DEF WithdrawWaiting, Calm, Executing, ActiveChain, ActiveStrategy
      <4>3. QED
        BY <3>2, <3>4, <4>2 DEF ExecuteEpochWithdrawGuard
    <3>5. QED
      BY <3>2, <3>3, <3>4 DEF Executing
  <2>5. ASSUME rebalance.state = "REBALANCING", ActiveChain \in ChildChains,
               FreshRebalanceNonce(ActiveChain, rebalance.nonce), ~paused[ActiveChain]
        PROVE  ExecuteRebalanceGuard(ActiveChain, rebalance.nonce, rebalance.pendingStrategy)
    <3>1. Rebalancing /\ RebalanceWaiting
      BY <2>1, <2>5, RebalanceAwaited
    <3>2. RequireNoRecovery(ActiveChain) /\ HasAdapter(ActiveChain)
      BY <2>5, <3>1, ChainFacts, NoRecoveriesFacts, AdapterFacts
         DEF RebalanceWaiting, Calm, Rebalancing, ActiveChain, ActiveStrategy
    <3>3. rebalance.pendingStrategy.chainSelector # NoChain
      BY <3>1, StrategyFacts DEF Rebalancing, PendingStrategy
    <3>4. QED
      BY <2>5, <3>2, <3>3 DEF ExecuteRebalanceGuard
  <2>6. QED
    BY <2>2, <2>3, <2>4, <2>5 DEF RunbookCallsFit
<1>2. QED
  BY <1>1, OperationsInvariance, PTL

\* A settled epoch is not settled again, by an operator who is too late or twice.
THEOREM OperationsFreeze == OperationsSpec => SettledEpochFrozen
<1>1. OperationsInv /\ [OperationsNext]_opsVars =>
        [previousEpoch.status = "CLAIMABLE" /\ epochNonce' = epochNonce
           => previousEpoch' = previousEpoch]_vars
  <2> SUFFICES ASSUME OperationsInv, [OperationsNext]_opsVars,
                      previousEpoch.status = "CLAIMABLE", epochNonce' = epochNonce
               PROVE  previousEpoch' = previousEpoch
    OBVIOUS
  <2>1. CASE [Next]_vars
    BY <2>1, NextFreezesSettled DEF OperationsInv
  <2>2. CASE UNCHANGED parentVars
    BY <2>2 DEF parentVars
  <2>3. CASE \E l \in emitted : OperatorCompletes(l)
    BY <2>3 DEF OperatorCompletes, CompleteEpochDeposit, CompleteEpochDepositGuard,
       CompleteRebalance, FinalizeRebalance
  <2>4. ASSUME BreakGlass PROVE (\E l \in emitted : OperatorCompletes(l)) \/ UNCHANGED parentVars
    BY <2>4 DEF BreakGlass, OperatorExecutesRebalance, OperatorExecutesWithdraw
  <2>5. ASSUME AutomationFails PROVE UNCHANGED parentVars
    BY <2>5 DEF AutomationFails, TriggerFails, ReportExpires
  <2>6. ASSUME UNCHANGED opsVars PROVE UNCHANGED vars
    BY <2>6 DEF opsVars
  <2>7. QED
    BY <2>1, <2>2, <2>3, <2>4, <2>5, <2>6, ProtocolSteps, IncidentSteps
       DEF OperationsNext, Recorded
<1>2. QED
  BY <1>1, OperationsInvariance, PTL DEF OperationsSpec, SettledEpochFrozen

----------------------------------------------------------------------------
(* The assets. *)

\* Every confirmation of the executing epoch ever emitted carries its net amount.
EmittedAmounts ==
    previousEpoch.status = "EXECUTING" =>
        \A l \in emitted :
            l.event = "EpochDepositToStrategySuccess" /\ l.nonce = epochNonce - 1
            => l.amount = NetAmount

\* Steps of the protocol apart, there are automation's failures and the operators.
LEMMA OperationsCases ==
    ASSUME [OperationsNext]_opsVars
    PROVE  /\ [Next]_vars \/ AutomationFails \/ BreakGlass
           /\ emitted' \subseteq emitted \union logs'
<1>1. CASE UNCHANGED opsVars
  BY <1>1 DEF opsVars
<1>2. CASE OperationsNext
  BY <1>2, ProtocolSteps, IncidentSteps DEF OperationsNext, Recorded
<1> QED
  BY <1>1, <1>2

\* The only call by hand that changes the epoch.
CompletesByHand(l) ==
    OnEpochDepositToStrategySuccess(l) /\ CompleteEpochDeposit(l.nonce, l.amount)

\* Every other one leaves the epoch alone and moves the fund whole.
LEMMA BreakGlassKeeps ==
    ASSUME OperationsInv, TypeInv', BreakGlass
    PROVE  (\E l \in emitted : CompletesByHand(l)) \/ Keeps
<1>1. /\ TypeInv /\ PhaseInv /\ rebalance.nonce \in Nat
      /\ \A l \in emitted : l \in Logs /\ LogFits(l) /\ l.nonce \in Nat /\ l.amount \in Nat
  BY PhaseTypes DEF OperationsInv, OperationsTypeOK, Logs, Rebalances
<1>2. ASSUME NEW l \in emitted, CompleteRebalance(l.nonce)
      PROVE  Keeps
  <2>1. FinalizeRebalance(rebalance.pendingStrategy) /\ UNCHANGED baseVars
    BY <1>2 DEF CompleteRebalance
  <2>2. Deployed' = Deployed
    BY <2>1, Untouched DEF baseVars
  <2> QED
    BY <2>1, <2>2 DEF Keeps, FinalizeRebalance
<1>3. CASE OperatorExecutesRebalance
  <2>1. /\ ExecuteRebalance(ActiveChain, rebalance.nonce, rebalance.pendingStrategy)
        /\ ActiveChain \in ChildChains /\ UNCHANGED parentVars
        /\ rebalance.state = "REBALANCING"
    BY <1>3 DEF OperatorExecutesRebalance
  <2>2. ExecutionFits(ActiveChain, rebalance.nonce, rebalance.pendingStrategy)
    BY <1>1, <2>1 DEF ExecutionFits, PendingStrategy
  <2>3. Deployed' = Deployed
    BY <1>1, <2>1, <2>2, ExecuteRebalanceKeeps
  <2> QED
    BY <2>1, <2>3 DEF Keeps, parentVars
<1>4. ASSUME NEW l \in emitted, OperatorExecutesWithdraw(l)
      PROVE  Keeps
  <2>1. /\ ExecuteEpochWithdraw(ActiveChain, l.nonce, l.amount)
        /\ ActiveChain \in ChildChains /\ UNCHANGED parentVars
        /\ l.event = "EpochWithdrawExecuting" /\ MatchesExecutingEpoch(l.nonce)
    BY <1>4 DEF OperatorExecutesWithdraw
  <2>2. WithdrawFits(ActiveChain, l.nonce, l.amount)
    BY <1>1, <2>1, WithdrawCallFits
  <2>3. Deployed' = Deployed
    BY <1>1, <2>1, <2>2, ExecuteEpochWithdrawKeeps
  <2> QED
    BY <2>1, <2>3 DEF Keeps, parentVars
<1> QED
  BY <1>2, <1>3, <1>4 DEF BreakGlass, OperatorCompletes, CompletesByHand

\* A lost trigger or report moves nothing.
LEMMA AutomationFailsKeeps ==
    ASSUME AutomationFails
    PROVE  /\ Keeps
           /\ UNCHANGED <<position, recovery, ccip, closeSnapshot>> /\ UNCHANGED parentVars
           /\ logs' \subseteq logs /\ reports' \subseteq reports
<1>1. /\ UNCHANGED <<position, recovery, ccip, closeSnapshot>> /\ UNCHANGED parentVars
      /\ logs' \subseteq logs /\ reports' \subseteq reports
  BY DEF AutomationFails, TriggerFails, ReportExpires, baseVars, creVars
<1> QED
  BY <1>1, NothingMoves DEF parentVars

\* The readings that may still be acted on stay right, whoever settles the epoch.
LEMMA ReadingsByHand ==
    ASSUME OperationsInv, TypeInv', ReadingsAgree, BreakGlass \/ AutomationFails
    PROVE  ReadingsAgree'
<1>1. /\ TypeInv /\ closeSnapshot.nonce \in Nat /\ \A r \in reports : r.nonce \in Nat
      /\ closeSnapshot \in Snapshots \union {NoSnapshot}
  <2>1. TypeInv /\ closeSnapshot \in Snapshots \union {NoSnapshot} /\ reports \subseteq Reports
    BY Zenon DEF OperationsInv, TypeInv, TypeOK, CreWorkflowTypeOK
  <2> QED
    BY <2>1, PhaseTypes DEF Snapshots, NoSnapshot
<1>2. UNCHANGED closeSnapshot /\ reports' \subseteq reports
  BY AutomationFailsKeeps DEF BreakGlass, creVars
<1>3. \/ previousEpoch.status = "EXECUTING" /\ epochNonce' = epochNonce
      \/ Keeps
  BY BreakGlassKeeps, AutomationFailsKeeps DEF CompletesByHand, CompleteEpochDeposit,
     CompleteEpochDepositGuard
<1>4. \A n \in Nat : \A tvl : ReadingOf(n, tvl) => ReadingOf(n, tvl)'
  BY <1>1, <1>3, ReadingStays
<1>5. /\ closeSnapshot'.chainSelector = ParentChain =>
           ReadingOf(closeSnapshot.nonce, closeSnapshot.tvl)'
      /\ ReadingOf(closeSnapshot.nonce, 0)'
  BY <1>1, <1>2, <1>4 DEF ReadingsAgree, ReadingOf
<1>6. ASSUME NEW r \in reports', r.call = "closeEpoch"
      PROVE  ReadingOf(r.nonce, r.amount)'
  BY <1>1, <1>2, <1>4, <1>6 DEF ReadingsAgree
<1> QED
  BY <1>5, <1>6 DEF ReadingsAgree

\* What operators withdraw is the epoch's net amount.
LEMMA AmountsByHand ==
    ASSUME OperationsInv, TypeInv', AmountsAgree, BreakGlass \/ AutomationFails
    PROVE  AmountsAgree'
<1>1. /\ TypeInv /\ PhaseInv
      /\ \A l \in emitted : l \in Logs /\ LogFits(l) /\ l.nonce \in Nat /\ l.amount \in Nat
  BY DEF OperationsInv, OperationsTypeOK, Logs
<1>2. CASE AutomationFails
  <2>1. /\ UNCHANGED <<epochNonce, previousEpoch, ccip, recovery>>
        /\ logs' \subseteq logs /\ reports' \subseteq reports
    BY <1>2, AutomationFailsKeeps DEF parentVars
  <2>2. NewAmountsAgree
    BY <2>1, Zenon DEF NewAmountsAgree
  <2>3. CASE previousEpoch.status = "EXECUTING"
    BY <2>1, <2>2, <2>3, AmountsKept
  <2>4. CASE previousEpoch.status # "EXECUTING"
    BY <2>1, <2>4 DEF AmountsAgree
  <2> QED
    BY <2>3, <2>4
<1>3. ASSUME NEW l \in emitted, CompletesByHand(l)
      PROVE  AmountsAgree'
  <2>1. previousEpoch'.status = "CLAIMABLE"
    BY <1>1, <1>3, PhaseTypes DEF CompletesByHand, CompleteEpochDeposit, Epochs
  <2> QED
    BY <2>1 DEF AmountsAgree
<1>4. CASE BreakGlass /\ Keeps /\ previousEpoch.status # "EXECUTING"
  BY <1>4 DEF Keeps, AmountsAgree
<1>5. CASE BreakGlass /\ Keeps /\ previousEpoch.status = "EXECUTING"
  <2>1. rebalance.state = "NONE" /\ reports' \subseteq reports
    BY <1>1, <1>5, ExecutingFacts DEF PhaseInv, Executing, BreakGlass, creVars
  <2>2. ASSUME NEW l \in emitted, OperatorExecutesWithdraw(l)
        PROVE  AmountsAgree'
    <3>1. /\ ExecuteEpochWithdraw(ActiveChain, l.nonce, l.amount)
          /\ ActiveChain \in ChildChains /\ UNCHANGED <<epochNonce, previousEpoch>>
          /\ l.event = "EpochWithdrawExecuting" /\ MatchesExecutingEpoch(l.nonce)
      BY <2>2 DEF OperatorExecutesWithdraw, parentVars
    <3>2. WithdrawFits(ActiveChain, l.nonce, l.amount)
      BY <1>1, <3>1, WithdrawCallFits
    <3> QED
      BY <1>1, <1>5, <2>1, <3>1, <3>2, ExecuteWithdrawAmounts
  <2>3. ~OperatorExecutesRebalance /\ \A l : ~OnRebalanceDepositSuccess(l)
    BY <2>1 DEF OperatorExecutesRebalance, OnRebalanceDepositSuccess
  <2> QED
    BY <1>3, <1>5, <2>2, <2>3 DEF BreakGlass, OperatorCompletes, CompletesByHand
<1> QED
  BY <1>1, <1>2, <1>3, <1>4, <1>5, BreakGlassKeeps

\* Operators name no new strategy.
LEMMA PendingByHand ==
    ASSUME PendingIffRebalancing, BreakGlass \/ AutomationFails
    PROVE  PendingIffRebalancing'
<1>1. CASE UNCHANGED rebalance
  BY <1>1 DEF PendingIffRebalancing
<1>2. ASSUME NEW s, FinalizeRebalance(s) PROVE PendingIffRebalancing'
  BY <1>2 DEF FinalizeRebalance, PendingIffRebalancing
<1>3. ASSUME NEW l, OperatorCompletes(l) PROVE PendingIffRebalancing'
  BY <1>1, <1>2, <1>3 DEF OperatorCompletes, CompleteEpochDeposit, CompleteRebalance
<1> QED
  BY <1>1, <1>3, AutomationFailsKeeps DEF BreakGlass, OperatorExecutesRebalance,
     OperatorExecutesWithdraw, parentVars

\* A step settles the executing epoch, closes the open one, or leaves both alone.
LEMMA EpochMoves ==
    ASSUME MaxLoss = 0, OperationsInv, TypeInv', [OperationsNext]_opsVars
    PROVE  \/ UNCHANGED <<epochNonce, previousEpoch>>
           \/ previousEpoch'.status # "EXECUTING"
           \/ epochNonce' = epochNonce + 1
<1>1. TypeInv /\ PhaseInv
  BY DEF OperationsInv
<1>2. ASSUME NEW r, Closes(r) PROVE epochNonce' = epochNonce + 1
  BY <1>2 DEF Closes, CloseEpoch, SettleNetZero, SettleLocalDeposit, SettleRemoteDeposit,
     SettleLocalWithdraw, SettleRemoteWithdraw, OpenNextEpoch
<1>3. ASSUME NEW n, NEW a, CompleteEpochDeposit(n, a)
      PROVE  previousEpoch'.status # "EXECUTING"
  BY <1>1, <1>3, PhaseTypes DEF CompleteEpochDeposit, Epochs
<1>4. ASSUME NEW m, Returns(m) PROVE previousEpoch'.status # "EXECUTING"
  BY <1>1, <1>4, PhaseTypes DEF Returns, ReceiveEpochNetWithdraw, Epochs
<1>5. CASE [Next]_vars
  BY <1>1, <1>2, <1>3, <1>4, <1>5, StepKeeps DEF Completes, Keeps
<1>6. CASE BreakGlass \/ AutomationFails
  BY <1>3, <1>6, BreakGlassKeeps, AutomationFailsKeeps DEF CompletesByHand, Keeps
<1> QED
  BY <1>5, <1>6, OperationsCases

\* An old confirmation names an older epoch than the one a close leaves executing.
LEMMA EmittedStep ==
    ASSUME MaxLoss = 0, OperationsInv, TypeInv', AmountsAgree', EmittedAmounts,
           [OperationsNext]_opsVars
    PROVE  EmittedAmounts'
<1>1. /\ epochNonce \in Nat
      /\ \A l \in emitted : l.nonce \in Nat /\ LogFits(l)
  BY PhaseTypes DEF OperationsInv, OperationsTypeOK, Logs
<1>2. SUFFICES ASSUME previousEpoch'.status = "EXECUTING", NEW l \in emitted',
                      l.event = "EpochDepositToStrategySuccess", l.nonce = epochNonce' - 1
               PROVE  l.amount = NetAmount'
  BY DEF EmittedAmounts
<1>3. CASE l \in logs'
  BY <1>2, <1>3 DEF AmountsAgree
<1>4. CASE l \in emitted /\ UNCHANGED <<epochNonce, previousEpoch>>
  <2>1. NetAmount' = NetAmount
    BY <1>4 DEF NetAmount
  <2> QED
    BY <1>2, <1>4, <2>1 DEF EmittedAmounts
<1>5. CASE l \in emitted /\ epochNonce' = epochNonce + 1
  <2>1. l.nonce <= epochNonce - 1
    BY <1>1, <1>2, <1>5 DEF LogFits, DepositConfirmable, PreviousNonce
  <2> QED
    BY <1>1, <1>2, <1>5, <2>1
<1> QED
  BY <1>2, <1>3, <1>4, <1>5, EpochMoves, OperationsCases

\* Where transfers arrive whole, whatever operators do keeps the amounts right.
LEMMA OperationsBackingStep ==
    ASSUME MaxLoss = 0, OperationsInv, OperationsInv', BackingInv, EmittedAmounts,
           [OperationsNext]_opsVars
    PROVE  BackingInv' /\ EmittedAmounts'
<1>1. /\ TypeInv /\ PhaseInv /\ TypeInv' /\ PhaseInv'
      /\ AmountsAgree /\ ReadingsAgree /\ PendingIffRebalancing
  BY DEF OperationsInv, BackingInv
<1>2. CASE [Next]_vars
  BY <1>1, <1>2, NextAmounts, NextReadings, NextPending, EmittedStep DEF BackingInv
<1>3. CASE BreakGlass \/ AutomationFails
  BY <1>1, <1>3, AmountsByHand, ReadingsByHand, PendingByHand, EmittedStep DEF BackingInv
<1> QED
  BY <1>2, <1>3, OperationsCases

\* So they are throughout.
LEMMA OperationsBackingInvariance ==
    ASSUME MaxLoss = 0
    PROVE  OperationsSpec => [](BackingInv /\ EmittedAmounts)
<1>1. OperationsInit => BackingInv /\ EmittedAmounts
  BY ChainFacts DEF OperationsInit, Init, ParentVaultInit, CreWorkflowInit, NoSnapshot,
     BackingInv, AmountsAgree, ReadingsAgree, ReadingOf, PendingIffRebalancing, EmittedAmounts
<1>2. /\ OperationsInv /\ OperationsInv' /\ BackingInv /\ EmittedAmounts
      /\ [OperationsNext]_opsVars
      => BackingInv' /\ EmittedAmounts'
  BY OperationsBackingStep
<1> QED
  BY <1>1, <1>2, OperationsInvariance, PTL DEF OperationsSpec

\* Where transfers arrive whole, every amount on its way is the net amount of its epoch
\* and every reading that may still be acted on is of the whole position, although
\* operators settle and move the fund beside the workflow.
THEOREM OperationsBacking ==
    ASSUME MaxLoss = 0
    PROVE  OperationsSpec => []BackingInv
BY OperationsBackingInvariance, PTL

\* The value a close would be priced with is current, also after a manual call between
\* the cron's reading and its report.
THEOREM OperationsPricing ==
    ASSUME MaxLoss = 0
    PROVE  OperationsSpec => []AcceptedTvlIsCurrent
<1>1. BackingInv => AcceptedTvlIsCurrent
  BY DEF BackingInv, ReadingsAgree, AcceptedTvlIsCurrent, ReadingOf
<1> QED
  BY <1>1, OperationsBacking, PTL

\* No call of the runbook, however late or repeated, loses an asset or counts it twice.
THEOREM OperationsShares ==
    ASSUME MaxLoss = 0, MaxFeeShares = 0, SharePrecision = AssetPrecision
    PROVE  OperationsSpec => []SharesFullyBacked
<1>1. OperationsInit => SharesFullyBacked
  BY InitBacks DEF OperationsInit
<1>2. /\ OperationsInv /\ OperationsInv' /\ BackingInv /\ EmittedAmounts
      /\ SharesFullyBacked /\ [OperationsNext]_opsVars
      => SharesFullyBacked'
  <2> SUFFICES ASSUME OperationsInv, OperationsInv', BackingInv, EmittedAmounts,
                      SharesFullyBacked, [OperationsNext]_opsVars
               PROVE  SharesFullyBacked'
    OBVIOUS
  <2>1. TypeInv /\ TypeInv' /\ PhaseInv /\ PhaseInv' /\ ReadingsAgree /\ AmountsAgree
    BY DEF OperationsInv, BackingInv
  <2>2. CASE [Next]_vars
    BY <2>1, <2>2, NextBacks
  <2>3. ASSUME NEW l \in emitted, CompletesByHand(l) PROVE SharesFullyBacked'
    <3>1. CompleteEpochDeposit(l.nonce, l.amount) /\ l.amount = NetAmount
      BY <2>3 DEF CompletesByHand, OnEpochDepositToStrategySuccess, MatchesExecutingEpoch,
         EmittedAmounts
    <3> QED
      BY <2>1, <3>1, ConfirmationBacks
  <2>4. CASE Keeps
    BY <2>1, <2>4, KeepsBacking
  <2> QED
    BY <2>1, <2>2, <2>3, <2>4, OperationsCases, BreakGlassKeeps, AutomationFailsKeeps
<1> QED
  BY <1>1, <1>2, OperationsInvariance, OperationsBackingInvariance, PTL DEF OperationsSpec

----------------------------------------------------------------------------
(* One fund, with operators at work. *)

\* A call by hand ends a settlement or a move, or moves funds one of them waits for.
LEMMA BreakGlassLedger ==
    ASSUME OperationsInv, TypeInv', LedgerFacts, LedgerFacts', BreakGlass
    PROVE  [Ledger!LedgerNext]_(Ledger!ledgerVars)
<1>1. /\ TypeInv /\ PhaseInv /\ rebalance.nonce \in Nat
      /\ \A l \in emitted : l \in Logs /\ LogFits(l) /\ l.nonce \in Nat /\ l.amount \in Nat
  BY PhaseTypes DEF OperationsInv, OperationsTypeOK, Logs, Rebalances
<1>2. ASSUME NEW l \in emitted, CompletesByHand(l)
      PROVE  Ledger!EndSettling
  <2>1. CompleteEpochDeposit(l.nonce, l.amount) /\ DepositConfirmable(l.nonce)
    BY <1>1, <1>2 DEF CompletesByHand, OnEpochDepositToStrategySuccess, LogFits
  <2> QED
    BY <1>1, <2>1, ConfirmationSettles
<1>3. ASSUME Keeps, NEW l \in emitted, OnRebalanceDepositSuccess(l), CompleteRebalance(l.nonce)
      PROVE  Ledger!EndMoving
  <2>1. RebalanceConfirmable(l.nonce)
    BY <1>1, <1>3 DEF LogFits, OnRebalanceDepositSuccess
  <2> QED
    BY <1>1, <1>3, <2>1, CompletionEndsMove, FinalizeEndsMove
<1>4. CASE Keeps /\ OperatorExecutesRebalance
  <2>1. /\ ExecuteRebalance(ActiveChain, rebalance.nonce, rebalance.pendingStrategy)
        /\ ActiveChain \in ChildChains /\ UNCHANGED parentVars
        /\ rebalance.state = "REBALANCING"
    BY <1>4 DEF OperatorExecutesRebalance
  <2>2. ExecutionFits(ActiveChain, rebalance.nonce, rebalance.pendingStrategy)
    BY <1>1, <2>1 DEF ExecutionFits, PendingStrategy
  <2>3. UNCHANGED rebalance /\ ~Executing
    BY <2>1 DEF parentVars, Executing
  <2>4. Rebalancing => UNCHANGED position \/ Moved'
    BY <1>1, <2>1, <2>2, <2>3, ExecuteRebalanceMoves
  <2> QED
    BY <1>1, <1>4, <2>3, <2>4, KeptRecord DEF Ledger!LedgerNext
<1>5. ASSUME Keeps, NEW l \in emitted, OperatorExecutesWithdraw(l)
      PROVE  [Ledger!LedgerNext]_(Ledger!ledgerVars)
  <2>1. /\ ExecuteEpochWithdraw(ActiveChain, l.nonce, l.amount)
        /\ ActiveChain \in ChildChains /\ UNCHANGED <<rebalance, previousEpoch>>
        /\ l.event = "EpochWithdrawExecuting" /\ MatchesExecutingEpoch(l.nonce)
        /\ previousEpoch.status = "EXECUTING"
    BY <1>5 DEF OperatorExecutesWithdraw, MatchesExecutingEpoch, parentVars
  <2>2. WithdrawFits(ActiveChain, l.nonce, l.amount)
    BY <1>1, <2>1, WithdrawCallFits
  <2>3. UNCHANGED position \/ PaidOut'
    BY <1>1, <2>1, <2>2, ExecuteWithdrawPays
  <2>4. ~Rebalancing
    BY <2>1 DEF Rebalancing
  <2> QED
    BY <1>1, <1>5, <2>1, <2>3, <2>4, KeptRecord DEF Ledger!LedgerNext
<1> QED
  BY <1>2, <1>3, <1>4, <1>5, BreakGlassKeeps
     DEF BreakGlass, OperatorCompletes, CompletesByHand, Ledger!LedgerNext

\* Where transfers arrive whole, share holders see one fund that settles or moves, one
\* operation at a time, also while operators and automation both drive it.
THEOREM OperationsAreOneFund ==
    ASSUME MaxLoss = 0
    PROVE  OperationsSpec => ImplementsLedger
<1>1. OperationsInit => Ledger!LedgerInit
  BY InitLedger DEF OperationsInit
<1>2. /\ OperationsInv /\ OperationsInv' /\ BackingInv /\ BackingInv'
      /\ [OperationsNext]_opsVars
      => [Ledger!LedgerNext]_(Ledger!ledgerVars)
  <2> SUFFICES ASSUME OperationsInv, OperationsInv', BackingInv, BackingInv',
                      [OperationsNext]_opsVars
               PROVE  [Ledger!LedgerNext]_(Ledger!ledgerVars)
    OBVIOUS
  <2>1. /\ TypeInv /\ TypeInv' /\ PhaseInv /\ PhaseInv' /\ LedgerFacts /\ LedgerFacts'
    BY LedgerState, LedgerStateAfter DEF OperationsInv, BackingInv
  <2>2. CASE [Next]_vars
    BY <2>1, <2>2, LedgerStep
  <2>3. CASE BreakGlass
    BY <2>1, <2>3, BreakGlassLedger
  <2>4. CASE AutomationFails
    <3>1. Keeps /\ UNCHANGED position /\ UNCHANGED rebalance
      BY <2>4, AutomationFailsKeeps DEF parentVars
    <3> QED
      BY <2>1, <3>1, KeptRecord DEF Ledger!LedgerNext
  <2> QED
    BY <2>2, <2>3, <2>4, OperationsCases
<1> QED
  BY <1>1, <1>2, OperationsInvariance, OperationsBacking, PTL
     DEF OperationsSpec, ImplementsLedger, Ledger!LedgerSpec
=============================================================================
