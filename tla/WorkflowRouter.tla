--------------------------- MODULE WorkflowRouter ---------------------------
(* The WorkflowRouter of the parent's chain (evm/src/modules/WorkflowRouter.sol) *)
(* between the workflow that writes reports to it (cre/workflow/internal/onchain *)
(* /report.go) and the two calls of the vault that a clock guards, closeEpoch    *)
(* and initiateRebalance.                                                        *)
(*                                                                               *)
(* The workflow has the time of the DON, the router that of the last block.  The *)
(* Keystone forwarder may transmit a signed report at any later time, any number *)
(* of times: the router keeps no record of what it forwarded.                    *)
EXTENDS Naturals, FiniteSets

CONSTANTS
    Workflows,      \* workflow ids; several are registered during an upgrade
    Metas,          \* (name, owner) pairs, both nonzero
    NoMeta,         \* the zero pair of an unregistered workflow
    Selectors,      \* the guarded vault calls
    MaxReportAge,   \* MAX_REPORT_AGE and the 1800 of submitReport
    MinPeriod,      \* MIN_EPOCH_PERIOD, MIN_REBALANCE_PERIOD and their Go copies
    MaxSkew,        \* bound: how far the two clocks are apart
    MaxTime,        \* bound: the last time of either clock
    MaxGeneration,  \* bound: metadata changes of one workflow
    MaxSigned       \* bound: readings and signed reports kept at once

ASSUME RouterAssumption ==
    /\ NoMeta \notin Metas
    /\ MaxReportAge \in Nat /\ MinPeriod \in Nat /\ MaxSkew \in Nat
    /\ MaxTime \in Nat /\ MaxGeneration \in Nat /\ MaxSigned \in Nat

VARIABLES
    routerPaused,   \* the router's pause switch
    metadata,       \* s_workflowMetadata
    generation,     \* s_workflowGenerations
    selectors,      \* s_workflowSelectors: per workflow and generation, a set
    donTime,        \* runtime.Now()
    blockTime,      \* block.timestamp
    readings,       \* reports a handler decided on and has not submitted yet
    signed,         \* signed reports
    nonce,          \* per call, the nonce the vault expects next
    lastRun         \* per call, the time the vault counts its period from

configVars == <<routerPaused, metadata, generation, selectors>>
clockVars == <<donTime, blockTime>>
vaultVars == <<nonce, lastRun>>
vars == <<configVars, clockVars, readings, signed, vaultVars>>

Generations == 0..MaxGeneration

Reports == [workflow : Workflows, meta : Metas, call : Selectors, nonce : Nat,
            observedAt : Nat]

RouterTypeOK ==
    /\ routerPaused \in BOOLEAN
    /\ metadata \in [Workflows -> Metas \union {NoMeta}]
    /\ generation \in [Workflows -> Generations]
    /\ selectors \in [Workflows -> [Generations -> SUBSET Selectors]]
    /\ donTime \in Nat /\ blockTime \in Nat
    /\ readings \subseteq Reports /\ signed \subseteq Reports
    /\ nonce \in [Selectors -> Nat] /\ lastRun \in [Selectors -> Nat]

Init ==
    /\ routerPaused = FALSE
    /\ metadata = [w \in Workflows |-> NoMeta]
    /\ generation = [w \in Workflows |-> 0]
    /\ selectors = [w \in Workflows |-> [g \in Generations |-> {}]]
    /\ donTime = 0 /\ blockTime = 0
    /\ readings = {} /\ signed = {}
    /\ nonce = [s \in Selectors |-> 1]
    /\ lastRun = [s \in Selectors |-> 0]

----------------------------------------------------------------------------
\* The workflow.

PeriodElapsed(since, now) == now >= since + MinPeriod

\* A cron handler takes the DON's time, reads the vault and finds its call due.
\* The reading may be of a finalized block that is out of date by the time it is
\* used: it waits in `readings`.
WorkflowReads(w, m, s) ==
    /\ Cardinality(readings \union signed) < MaxSigned
    /\ PeriodElapsed(lastRun[s], donTime)
    /\ readings' = readings \union
          {[workflow |-> w, meta |-> m, call |-> s, nonce |-> nonce[s],
            observedAt |-> donTime]}
    /\ UNCHANGED <<configVars, clockVars, signed, vaultVars>>

\* The window test of submitReport and of onReport.
\* Mutant of InWindow: an observation of the future is accepted.
InWindow_Future(observedAt, now) == now <= observedAt + MaxReportAge
InWindow(observedAt, now) == observedAt <= now /\ now - observedAt <= MaxReportAge

\* submitReport signs within the window; later it only returns an error.  What
\* the write comes back with changes nothing: no handler retries.
SubmitReport(r) ==
    /\ readings' = readings \ {r}
    /\ signed' = IF InWindow(r.observedAt, donTime) THEN signed \union {r} ELSE signed
    /\ UNCHANGED <<configVars, clockVars, vaultVars>>

----------------------------------------------------------------------------
\* The router.

\* The vault's own checks: the expected nonce and the period.
VaultTakes(s, n) == n = nonce[s] /\ PeriodElapsed(lastRun[s], blockTime)

\* The checks of onReport before the call.  The forwarder role, the envelope and
\* the report domain only tell this router's reports from others.
\* Mutant of Forwardable: the generation is ignored.
Forwardable_AnyGeneration(r) ==
    /\ ~routerPaused
    /\ metadata[r.workflow] = r.meta
    /\ InWindow(r.observedAt, blockTime)
    /\ \E g \in Generations : r.call \in selectors[r.workflow][g]

Forwardable(r) ==
    /\ ~routerPaused
    /\ metadata[r.workflow] = r.meta
    /\ InWindow(r.observedAt, blockTime)
    /\ r.call \in selectors[r.workflow][generation[r.workflow]]

\* A call that fails reverts the whole transaction.  The rebalance stands for one
\* within the parent's chain, which ends, and counts its nonce, in the same call.
OnReport(r) ==
    /\ Forwardable(r)
    /\ VaultTakes(r.call, r.nonce)
    /\ nonce' = [nonce EXCEPT ![r.call] = @ + 1]
    /\ lastRun' = [lastRun EXCEPT ![r.call] = blockTime]
    /\ UNCHANGED <<configVars, clockVars, readings, signed>>

\* Registers, changes or (with NoMeta) removes a workflow.
SetWorkflowMetadata(w, m) ==
    /\ generation[w] < MaxGeneration
    /\ m # metadata[w]
    /\ generation' = [generation EXCEPT ![w] = @ + 1]
    /\ metadata' = [metadata EXCEPT ![w] = m]
    /\ UNCHANGED <<routerPaused, selectors, clockVars, readings, signed, vaultVars>>

SetWorkflowSelectors(w, S, isAllowlisted) ==
    /\ S # {}
    /\ metadata[w] # NoMeta
    /\ selectors' = [selectors EXCEPT ![w][generation[w]] =
                        IF isAllowlisted THEN @ \union S ELSE @ \ S]
    /\ UNCHANGED <<routerPaused, metadata, generation, clockVars, readings, signed,
                   vaultVars>>

Pause ==
    /\ ~routerPaused
    /\ routerPaused' = TRUE
    /\ UNCHANGED <<metadata, generation, selectors, clockVars, readings, signed,
                   vaultVars>>

Unpause ==
    /\ routerPaused
    /\ routerPaused' = FALSE
    /\ UNCHANGED <<metadata, generation, selectors, clockVars, readings, signed,
                   vaultVars>>

----------------------------------------------------------------------------
\* Time.

DonTicks ==
    /\ donTime < MaxTime /\ donTime < blockTime + MaxSkew
    /\ donTime' = donTime + 1
    /\ UNCHANGED <<configVars, blockTime, readings, signed, vaultVars>>

BlockTicks ==
    /\ blockTime < MaxTime /\ blockTime < donTime + MaxSkew
    /\ blockTime' = blockTime + 1
    /\ UNCHANGED <<configVars, donTime, readings, signed, vaultVars>>

Next ==
    \/ \E w \in Workflows, m \in Metas, s \in Selectors : WorkflowReads(w, m, s)
    \/ \E r \in readings : SubmitReport(r)
    \/ \E r \in signed : OnReport(r)
    \/ \E w \in Workflows, m \in Metas \union {NoMeta} : SetWorkflowMetadata(w, m)
    \/ \E w \in Workflows, S \in SUBSET Selectors, allow \in BOOLEAN :
          SetWorkflowSelectors(w, S, allow)
    \/ Pause
    \/ Unpause
    \/ DonTicks
    \/ BlockTicks

Spec == Init /\ [][Next]_vars

----------------------------------------------------------------------------
\* The router implements the grants: whatever was registered, removed, changed and
\* registered again, in whatever generation a selector was left behind, a call
\* reaches the vault only under a grant of the present registration, also when the
\* report was signed under an earlier one.
Grants == INSTANCE RouterGrants WITH
    granted <- [w \in Workflows |-> selectors[w][generation[w]]]

ImplementsGrants == Grants!Spec

\* The two clocks never contradict each other: a report the router would forward,
\* whose nonce the vault expects, is never refused by the vault as too early,
\* although the workflow judged the period by the DON's time and the vault by its
\* own.  A cron report is thus never spent on a call that reverts for the period.
DueCallNotTooEarly ==
    \A r \in signed :
        Forwardable(r) /\ r.nonce = nonce[r.call] => VaultTakes(r.call, r.nonce)
=============================================================================
