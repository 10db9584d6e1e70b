# Yieldcoin v2: a TLA+ verification project

Yieldcoin v2 keeps the assets of its users in one lending *strategy* (a protocol on a
chain) and moves them when another strategy pays better. Users queue deposits and
withdrawals in *epochs* at a **ParentVault**; **ChildVaults** on other chains hold the
position while the strategy is theirs; a Chainlink **CRE workflow** observes all vaults
and drives them with signed reports; funds travel by **CCIP**. No transaction spans two
chains, so every epoch with a remote strategy and every rebalance is a distributed
operation whose steps may fail, be delayed or be repeated. That is what these modules
are about.

## 1. Inventory

| Part | Source | State | Operations |
|---|---|---|---|
| ParentVault | `evm/src/vaults/ParentVault.sol`, `ParentVault*Lib.sol` | open epoch, all epochs, users' entries, authoritative share count, rebalance (nonce, state, active and pending strategy) | deposit, withdraw, cancel, claim; closeEpoch, completeEpochDeposit, initiateRebalance, completeRebalance; CCIP receipt; executeRecovery |
| BaseVault | `evm/src/vaults/BaseVault.sol`, `BaseVault*Lib.sol` | pause, active adapter, recovery mode with its payload | adapter calls with try/catch, CCIP send and validation, rebalance deposit and its recovery |
| ChildVault | `evm/src/vaults/ChildVault.sol` | highest handled epoch and rebalance nonce, recovery payloads | CCIP receipt, executeEpochWithdraw, executeRebalance, executeRecovery (five modes) |
| CRE workflow | `cre/workflow` | none between triggers | two crons (close an epoch, start a rebalance), four log handlers, one guard for all |
| WorkflowRouter | `evm/src/modules/WorkflowRouter.sol` | pause, workflow metadata, selectors by generation | forwards a report within 30 minutes of its observation, without replay protection; two setters |
| CCIP | external | messages in flight | executes each message at most once, in any order; a reverted one may be executed again |
| Adapters | `evm/src/modules/adapters` | position, dust buffer | deposit, withdraw, value |
| Share token | `evm/src/token/YieldcoinShare.sol` | balances | mint, burn, transfer |
| Pool selection | `cre/workflow/internal/offchain`, `internal/rebalance/policy.go` | none | filters and orders the pools of a snapshot, compares the best with the current one |
| Workflow configuration | `cre/workflow/internal/helper/config.go`, `workflow.go` | the deployed configuration | validates it and registers handlers |
| Relay | `services/relay` | one published snapshot | refreshes all pool rates on a schedule, serves the last snapshot |
| Operators | `docs/operator/OPERATIONS.md` | | pause, unpause, make the calls automation missed |
| Allowlist, registry, setters | see `PROJECT.json` | configuration | not modelled |

How they interact. The workflow reads every vault (`readSnapshot`), stops if any is
paused or in recovery (`withOperationalGuard`), and answers a cron tick or a log with at
most one report. A report makes a vault call an adapter or CCIP; the vault's event is the
next trigger. A vault whose adapter or router call fails stores a *recovery*; anyone may
retry it with `executeRecovery`.

What is hard: readings of several chains at different moments; reports replayed and
delayed; messages out of order and short; a failure between two steps; one vault's
recovery guarding only that vault; the guard consuming triggers; rounding in share
prices and in claims that shrink the pool they are computed from; the same arithmetic
written twice, in Go and in Solidity; rates that pass through a lagging store and a
waiting report before they move the fund; operators and automation at work on the same
operation. `PROJECT.json` lists
these hazards with their lines and the properties aimed at them.

## 2. Modules

| Module | Models | Extends |
|---|---|---|
| `VaultTypes` | strategies, messages, logs, reports, recoveries (`Types.sol`) | |
| `VaultMath` | share arithmetic as pure operators | |
| `BaseVault` | state and steps both vaults share | `VaultTypes` |
| `ParentVault` | the parent's lifecycle | `BaseVault`, `VaultMath` |
| `ChildVault` | the child vaults | `BaseVault` |
| `CreWorkflow` | the six handlers and the guard | `ParentVault`, `ChildVault` |
| `YieldProtocol` | the deployment: routers, CCIP, keepers, roles, time; safety and liveness properties | `CreWorkflow` |
| `YieldPhases` | the phases of an operation and the inductive invariant `PhaseInv` | `YieldProtocol` |
| `YieldBacking` | the assets behind the shares; the mapping to `FundLedger` | `YieldProtocol` |
| `FundLedger` | abstract: one fund that settles or moves, one operation at a time | |
| `YieldOperations` | incidents, lost triggers and reports, the runbook | `YieldProtocol` |
| `ParentEpochs` | the users' side of the parent, every epoch kept | `VaultMath` |
| `EpochAccounting` | the workflow's epoch arithmetic beside the contract's, on words | `VaultMath` |
| `ProtocolAdapter` | the three adapters against a market that rounds | |
| `WorkflowRouter` | the router, its setters, the workflow's and the chain's clock; the mapping to `RouterGrants` | |
| `RouterGrants` | abstract: a vault call needs a grant of the present registration | |
| `WorkflowConfig` | configuration, validation, registered handlers | |
| `RelayService` | the relay and its store | |
| `PoolSelection` | the choice of a strategy, from the relay to `initiateRebalance` | `WorkflowConfig`, `RelayService` |
| `YieldPhases_proofs` | theorems about the lifecycle | `YieldPhases` |
| `YieldBacking_proofs` | theorems about the assets, and the refinement of `FundLedger` | `YieldBacking`, `YieldPhases_proofs` |
| `YieldOperations_proofs` | both again, with incidents, losses and operators | `YieldOperations`, `YieldBacking_proofs` |
| `WorkflowDecisions_proofs` | theorems about what the workflow computes by itself: the accounting and the choice of a strategy | `EpochAccounting`, `PoolSelection` |
| `WorkflowRouter_proofs`, `ParentEpochs_proofs`, `ProtocolAdapter_proofs` | theorems about the module each is named after | that module |
| `SumsAndQuotients` | lemmas on rounded quotients, products and sums | |
| `MC*` | model values for TLC | |

### How state and actions correspond to the code

One action is one transaction. A call that would revert changes nothing, so it is no
step: the guards of an action are the code's `revert`s and `require`s. Where the code
catches a failure (`tryDepositToAdapter`, the adapter's `withdraw`, `tryCcipSend`) the
action has a success and a failure branch; where it lets it through there is only the
success branch.

`recovery[c]` is `s_recoveryMode` with the one payload that is nonzero in that mode.
`position` is what each adapter holds, `activeAdapter` the adapter by its protocol id.
`previousEpoch` is `s_epochs[s_epochNonce - 1]`, the only closed epoch any lifecycle
operation reads. The two one-hour periods are the Booleans `epochAged` and
`rebalanceAged`, reset where the code writes the timestamp and raised at any later time.

The users' totals are chosen when the epoch closes (`CloseEpoch`: any deposits up to
`MaxDeposit`, any burn that leaves the locked seed). `ParentEpochs` models how such
totals arise. The management fee is any number of shares up to `MaxFeeShares` in
`ParentVault`; `ParentEpochs` has the exact formula.

`logs` and `reports` are sets. With `Replay` their members are never used up, so every
duplicate, delayed and reordered delivery is a behaviour; without it each is used once,
which is what liveness needs. In `YieldProtocol` a report lives for ever, which covers
every moment at which the router's 30-minute window would still let it through; in
`YieldOperations` it may expire, and `WorkflowRouter` has the window itself.

The epoch cron combines values of two chains, so it reads in two steps, parent first
(the order of the deployed configuration). The other handlers decide from the parent's
state and a mark of a child that only grows, so one step is as general as several. All
readings are of finalized blocks. What a reading of the parent shows as settled was
caused by a finalized log or by a CCIP message, itself sent after finality on the child
chain; so a child is never read in a state older than the one the parent's reading
depends on.

In `ParentEpochs` the strategy is one number. `Deposit` and `Withdraw` are also
`depositFor` and `withdrawFor`: payer and beneficiary may differ. `CancelDeposit` is also
`forceCancelDeposit`. A rebalance is one step there, because no epoch closes while one
runs. Pauses, roles and the allowlist only refuse calls, and are left out. The epoch cron
(`OnEpochCronTrigger`) reads the value of the strategy into `report`, and `CloseEpoch`
settles with that value at any later time, while yield, deposits, cancellations and
rebalances go on; the router's 30 minutes have no end here, so a reading may be as old as
its epoch. Of several reports for one epoch only one takes effect, so one is kept: a
run in which an older one arrives is a run in which the newer was not made. A
report whose epoch is closed stays and is refused by its nonce. `earned`
is auxiliary: the interest since the reading, which only the property reads.

Interest is in `ParentEpochs` only (and in `ProtocolAdapter`, as a growing index). The
lifecycle modules, `YieldProtocol` and what extends it, have no yield: a position changes
by what is deposited and withdrawn. There "current" in `AcceptedTvlIsCurrent` means current
up to the interest since the reading; what that interest can cost is
`CloseCostsInterestAtMost`.

`YieldOperations` adds two variables to `YieldProtocol`: every event emitted so far (the
chains keep what a trigger loses) and the number of incidents. `TriggerFails` and
`ReportExpires` drop a log or a report that nothing will retry. `BreakGlass` is the
runbook: each call is made with the arguments and under the conditions the runbook names,
and automation is *not* stopped meanwhile, although the runbook asks for it; so the run
also shows what happens when an operator forgets.

`WorkflowRouter` is the router with what surrounds it: `WorkflowReads` is a cron handler
that finds its call due by the DON's time, `SubmitReport` is `submitReport` with its own
window test, `OnReport` is the forwarder's transaction, the vault reduced to the nonce
and the period it checks (both calls have the same shape). The two clocks differ by at
most `MaxSkew`. `s_workflowSelectors` is kept by generation as in the contract, so that
`ImplementsGrants` shows the generations do what a single set per registration would.

In `PoolSelection` a text is its canonical value and its spelling, so that trimming and
lower-casing is a function that forgets the second; a Go map lookup where several keys
could match is a nondeterministic choice. `Visible` is what a node may read from the
store, the last snapshot or the one before; `FetchAndSelectPools` is the identical
consensus over the nodes that answered, whatever each of them read. Time has units of
fifteen minutes or more; a refresh lasts less than one (its budget is thirty seconds).

`EpochAccounting` puts `calculateEpochClose` and `reconcileEpochDeposit` beside the
operators of `VaultMath` with the places where a word overflows. `WordBits` is 256 in the
code and 4 in the run. The Go code compares with the precision where the contract compares
with its minimum amount; `MinimumAssumption` says the two are equal, as the constructor of
`ParentVault` sets them.

`ProtocolAdapter` has the state of one adapter and a market with an index. The market is
external: it rounds against its user, and a supply may credit less or a withdrawal pay
less than it should, which the adapter's checks must catch. Assets that strangers send to
the adapter are counted apart, because the buffer must not take them for its own.

## 3. Runs

| Run | Bounds | States | Shows |
|---|---|---|---|
| `replay` | 2 children, 2 protocols, 3 epoch nonces, 2 rebalances, deposits to 2, fee to 1, loss to 1, two shares per asset, children pausable at any time, `Replay` | 1.3 M | all lifecycle invariants and `PhaseInv` |
| `operations` | 2 children, 1 protocol, 2 epochs, 2 rebalances, deposits to 2, one incident at any vault, any trigger or report lost | 0.4 M | every operation ends by hand; every call the runbook allows is the one the operation waits for |
| `backing` | 3 epochs, 3 rebalances, no loss, no fee, one share per asset, `Replay` | 0.4 M | assets and shares agree; accepted TVL is current; `BackingInv`; refinement of `FundLedger` |
| `liveness` | 2 epochs, 2 rebalances, one seed share, no replay | 28 K | operations end |
| `epochs` | 2 users (one the treasury), 2 closed epochs, deposits to 3, value to 4, shortfall to 1, fees, interest of 1 after a reading | 1.9 M | solvency and share accounting |
| `pricing` | one account, 3 closed epochs, deposits to 2, value to 4, interest to 2 after a reading, shortfall to 1, fees | 2.6 M | what a stale reading costs |
| `minting` | minimum deposit 2, value to 6, interest to 2 after a reading | 0.4 M | every deposit mints |
| `router` | one workflow id, two (name, owner) pairs, 3 metadata changes, 2 calls, window 1, period 2, skew 1, time to 4, 2 reports | 0.9 M | refinement of `RouterGrants`; no call spent too early |
| `pools` | 3 valid and 4 invalid configurations, two deployments of the relay with two pools each, 3 rates, threshold of two steps, snapshot age 1, window 1, cooldown 2, time to 4 | 0.8 M | moves are justified by rates newer than the last ones |
| `accounting` | all inputs of 4-bit words, precisions 4 and 2 | 77 K | Go and Solidity agree |
| `adapters` | three adapters, index 2 to 11 in units of 2, 12 assets, buffer to 4, tolerance 5 | 49 K | buffer, tolerance and rounding |
| `triggers` | a parent with one and with two children | | expected violation, see below |

Why these bounds are enough to be interesting: two children give rebalances parent to
child, child to child, child to parent and within a chain; three epochs and two or three
rebalances give replays of an old operation during a newer one of the same and of the
other kind; loss and fee of one unit already make share counts and assets diverge;
a value of four to six units over one to four shares makes every division round.
A pause only ever refuses the calls of its own vault, or drops a trigger whichever vault is
paused, so `replay` pauses the children and `operations` the parent too.
`CronMayReport` bounds what the crons start and how many of their reports are
outstanding; everything those operations then do is unbounded. `CHECK_DEADLOCK FALSE` is
set because the system rests when the bounds are reached, and also whenever nothing is
queued.

What each property says is in the comment above it. The most important:
`NoStrandedMessage` (every message in flight is one its receiver will take),
`RecoveryContinuesOperation` (a stored recovery always belongs to the operation the parent
has in progress), `ReportFitsOperation` (a delayed or repeated report is refused by its
nonce or still right), `SettledAtActiveStrategy` (adapters agree with the parent's record),
`ActionableLogNotBlocked` (the guard never eats a trigger something waits for),
`SharesFullyBacked` and `AcceptedTvlIsCurrent` (pricing), `Solvent` and
`SupplyMatchesTotalShares` (accounting to the unit), `EpochSettlesByHand` and
`RebalanceEndsByHand` (nothing automation loses is lost for ever), `RunbookCallsFit` (no
call of the runbook, however late, is wrong), `MovesUseNewerRates`
(a late report or a lagging node never turns a move round).

More on the bounds of the newer runs. `router`: three metadata changes are a
registration, a removal and a second registration, so a selector can be left behind and
met again; the period is the sum of the window and the skew, the tightest ratio the code's
constants (60 and 30 minutes) allow with clocks half an hour apart. `pools`: the real
limits are 15, 30 and 60 minutes; 1, 1 and 2 keep the one fact the property needs, that a
snapshot is too old before the cooldown is over, and make it tight. `accounting`: the
code's limits are powers of two of the word, so that a word of four bits meets each of them.
`adapters`: an index up to 5.5 RAY makes a share worth more than the buffer may hold, which
is where `RoundingNeverRefuses` stops to claim anything; the tolerance exceeds the buffer
limit as it does in the code (`ToleranceAssumption`). `pricing`: a price depends on totals
only, so one account that deposits, withdraws and receives the fee is enough, and three
closed epochs fit, the fewest in which a report of an earlier epoch has a value to be wrong
with. Precisions of two allow prices below one.

`CloseCostsInterestAtMost` does not say that a close never dilutes, because the code does
not promise it (KI-007, KI-010): the reading is older than the close, and with interest in
between entrants get more shares than at the present value, and those who leave less
assets. It says how far that goes. At the reported price the holders who stay never lose to
rounding, and those who enter or leave lose less than a share and an asset. And while the
strategy has not fallen below the reading, a share that stays loses at most part of the
interest earned since: the nonce in the report excludes every reading from before a
settlement, whose difference would be principal.

### Refinements

- `YieldBacking` implements `FundLedger`. The stage is the parent's record, the amount
  `placed` what the adapter of the active strategy holds, `assets` everything deployed.
  Each step of the vaults, lanes and keepers is a step of the ledger or a stutter: a
  settlement changes the fund by its net amount once, a move leaves it whole, and none
  begins before the last has ended. It holds where deliveries are whole (`MaxLoss = 0`);
  with a short delivery the fund is smaller, which `ParentEpochs` accounts for.
- `WorkflowRouter` implements `RouterGrants`, with the grants of a workflow mapped to the
  selectors of its present generation.

### Finding

`triggers`: `docs/protocol/WORKFLOW.md:23` says that separate handlers for
`RebalanceDepositSuccess` and `EpochDepositToStrategySuccess` are registered for every
child, two per child. `workflow.go:125` registers one handler per vault, which dispatches
on the event, and `TriggerCount` counts one. The behaviour is right (both events are
handled); the documentation is out of date.

### Fairness

`FairSpec` assumes weak fairness of five things. Finalized logs reach the workflow and
signed reports are forwarded: the CRE log trigger and the Keystone forwarder. CCIP
executes the messages it accepted. Keepers retry recoveries, `executeRecovery` being
permissionless, and an external call that fails does not fail for ever: the recovery
actions are the successful retries. Nothing is assumed of the crons, the roles or the
clock: the properties start from an operation already begun. Two facts limit liveness
in the code itself and are excluded by constants of the run:

- a trigger that fires while a vault is paused is dropped (KI-013): `Pausable = {}`;
- an empty remote position would be marked REBALANCING and its withdrawal of nothing
  would fail for ever; the locked seed excludes it (KI-010): `SeedShares = 1`. With
  `SeedShares = 0` TLC finds that behaviour for `RebalanceEnds`.

A short delivery that leaves no share to mint (KI-026) would keep an epoch executing;
the run has whole deliveries.

`OperationsSpec` drops the first two assumptions: nothing is assumed of the workflow, its
triggers or its reports, each of which may be lost at any time. Instead operators end
incidents and carry out the runbook, which is what the runbook is for; CCIP messages and
recoveries are as before, a message that met a paused vault being executed by hand. The
liveness there starts from pauses (KI-013), which the `liveness` run excludes.

## 4. Proofs

The theorems hold for every set of chains and protocols and every value of the bounds,
from the named assumptions of the modules that declare the constants (`ChainAssumption`:
the parent's chain is not one of the child chains, `NoChain` and `NoProtocol` are not
among the real ones; the bounds are naturals).

`YieldPhases_proofs` proves first:

- `TypeCorrect`, `Spec => []TypeInv`. `TypeOK` is not inductive: `completeEpochDeposit`
  subtracts `shareMint - reconciledShares` from `totalShares`, which stays a natural only
  if the shares of an executing epoch are still counted. `TypeInv` is therefore
  `TypeOK /\ ExecutingMintCounted`, and each action is shown to keep both conjuncts: an
  epoch starts executing by a close that has just added its mint, no other close or fee
  step comes between, and the completion ends it.
- `ReconciliationNeverUnderflows`, `Spec => []ExecutingMintCounted`, the property the
  `replay` run checks on a small instance.
- `SettledEpochIsFrozen`, `Spec => SettledEpochFrozen`: under `TypeInv`, no action but a
  close (which changes `epochNonce`) touches a claimable epoch.

Then `PhaseCorrect`, `Spec => []PhaseInv`, and from it seven of the
properties the `replay` run checks:

| Theorem | Property |
|---|---|
| `OneRecovery` | `AtMostOneRecovery` |
| `FundsFollowAdapter` | `FundsUnderActiveAdapter` |
| `RecordMatchesAdapters` | `SettledAtActiveStrategy` |
| `MessagesAccepted` | `NoStrandedMessage` |
| `RecoveriesBelong` | `RecoveryContinuesOperation` |
| `LogsNotLost` | `ActionableLogNotBlocked` |
| `ReportsFit` | `ReportFitsOperation` |

None of these is inductive. That a message will be accepted rests on the receiver having
no recovery, which rests on there being no second operation, which rests on what every log
and report of the past can still cause. `PhaseInv` says all of it at once:

- `Phase`: the parent's record (`previousEpoch.status`, `rebalance.state`) and the two
  handled-nonce marks of the chains involved determine which adapters are set, and the one
  message or the one recovery there may be;
- `MarksBounded`: no vault is ahead of the parent;
- `LogFits`, `ReportFits`: each log and report, however old, is refused by its nonce or
  names what the present phase waits for, with the amount the epoch asks for
  (`WithdrawAnnounced`). They are stated record by record, so a step
  that adds one record and moves the phase is shown for the old records by one lemma
  (`BooksKept`, from `BooksFit`: confirmable things stay so and marks never fall) and for
  the new one by itself;
- `PositionsUnderAdapter`.

The inductive invariant is `TypeInv /\ PhaseInv`; the `replay` run checks `PhaseInv` with
TLC. The proof has one lemma per action: it takes the phases in which the guard of the
action can hold, derives the phase after it, and then the books, the marks and the
positions. It concludes `PhaseStep`, the invariant after the step and `BooksFit` of the
step, because the second is what an event that nobody has acted on yet needs (see the
operators below). Since nothing in it depends on `Replay`, `MaxLoss` or the bounds, the theorems
cover every number of chains, every deposit, and reports that live for ever.

### The assets

`YieldBacking_proofs` proves what the `backing` run checks, for any chains, protocols,
deposits and bounds:

| Theorem | Property | Where |
|---|---|---|
| `ValueIsCountedOnce` | `TvlCountedOnce` | always |
| `ReportedTvlIsCurrent` | `AcceptedTvlIsCurrent` | `MaxLoss = 0` |
| `BackingCorrect` | `BackingInv` | `MaxLoss = 0` |
| `SharesAreBacked` | `SharesFullyBacked` | `MaxLoss = 0`, `MaxFeeShares = 0`, `SharePrecision = AssetPrecision` |
| `DeploymentIsOneFund` | `ImplementsLedger` | `MaxLoss = 0` |

The hypotheses are those of the properties. A short delivery loses assets between two
vaults, so the fund is then less than what was settled; a fee mints shares that nothing
backs; and one asset per share is what `SharesFullyBacked` counts. Losses, fees and other
prices are covered for the parent's own books by `ExecutingMintCounted` and for its users
by `ParentEpochs`. The argument has four parts.

1. *Where things are.* `PhaseInv` says that there is at most one message and one recovery
   and that positions are under the active adapter. The sums over chains, strategies and
   messages that make up `Deployed` then have one term each (`OnePosition`, `OneMessage`,
   `OneRecoveryHolds`, `OneVault`), and `ValueIsCountedOnce` compares those terms.
2. *What a step does to `Deployed`.* Only a close, which puts a net deposit into the fund or
   on its way and takes a net withdrawal out of the parent's own adapter (`SettleMoves`),
   and the return of a remote withdrawal (`ReceiveWithdrawKeeps`) change it. Every other
   step, delivered, failed into a recovery, recovered or replayed, keeps it (`StepKeeps`).
3. *What is on its way.* `BackingInv` says that each amount of an executing epoch, whether
   in a message, a recovery, a log or a report, is that epoch's net amount
   (`AmountsAgree`), and that each reading of the TVL for the open epoch is of the whole
   position or of none of it (`ReadingsAgree`). It is inductive relative to
   `TypeInv /\ PhaseInv`. The second part rests on `WholeOrNothing`: while no epoch
   executes, a chain sees all of the deployed assets or nothing, also while a rebalance is
   between two vaults. A report that mixes two readings therefore fails the workflow's own
   test or carries the current value.
4. *The ledger.* The four kinds of step that change the parent's record are steps of
   `FundLedger` (`CloseSettles`, `CompleteSettles`, `ReturnSettles`, `InitiateMoves`);
   every other step moves the whole fund between the strategy and its way, or is a stutter
   (`KeptSteps`, from `SettlingMoves` and `MovingMoves`). The close needs
   `ReportedTvlIsCurrent`: a settlement may not owe withdrawals more than the fund has, and
   the code computes what it owes from the reported value.

### The operators

`YieldOperations_proofs` proves the safety of the deployment again where triggers and
reports are lost, vaults are paused and operators make the calls of the runbook while
automation may still make the same ones:

| Theorem | Property of `OperationsSpec` | Where |
|---|---|---|
| `OperationsPhases` | `PhaseInv` | always |
| `OperationsReports` | `ReportFitsOperation` | always |
| `OperationsSafe` | `NoStrandedMessage`, `RecoveryContinuesOperation`, `AtMostOneRecovery`, `FundsUnderActiveAdapter`, `SettledAtActiveStrategy`, `TvlCountedOnce`, `TypeOK`, `ExecutingMintCounted` | always |
| `OperationsFreeze` | `SettledEpochFrozen` | always |
| `RunbookIsSafe` | `RunbookCallsFit` | always |
| `OperationsBacking`, `OperationsPricing` | `BackingInv`, `AcceptedTvlIsCurrent` | `MaxLoss = 0` |
| `OperationsShares` | `SharesFullyBacked` | as `SharesAreBacked` |
| `OperationsAreOneFund` | `ImplementsLedger` | `MaxLoss = 0` |

An operator may act on any event ever emitted, also on one whose trigger was lost or has
been answered long ago. `OperationsInv` therefore adds to `TypeInv /\ PhaseInv` that every
emitted event, not only every pending log, fits (`LogFits`); an event stays fit because
each step of the protocol keeps what fitted (`BooksFit`). From this a completion by hand
is shown to be confirmable, and an execution by hand to be the one the phase waits for, by
the lemmas that show it of the workflow's reports: the contracts check the same things
whoever calls. That the amount of an old `EpochWithdrawExecuting` is still right is the one
thing the workflow's own proof did not need, because the workflow reads it before it is
reported; it is `WithdrawAnnounced`. For the assets the addition is `EmittedAmounts`: each
confirmation of the executing epoch ever emitted carries its net amount. A close keeps it,
because no event names the epoch that it closes. The steps of the protocol
are then the lemmas of `YieldBacking_proofs`, and each call by hand is one of its cases: a
completion ends a settlement or a move of the ledger, an execution moves the funds that
the settlement or the move waits for. The proof also needs neither `Replay = FALSE` nor the
bounds of the run.

### The users' side

`ParentEpochs_proofs` proves every property of the `epochs`, `pricing` and `minting` runs, for any
finite set of users, any number of epochs, any amounts, prices, losses and fees:

| Theorem | Property |
|---|---|
| `EpochTyping` | `TypeOK` |
| `VaultIsSolvent` | `Solvent` |
| `EscrowIsExact` | `EscrowCoversWithdrawals` |
| `TotalsMatchEntries` | `TotalsAreSums` |
| `PoolsRunDry` | `PoolsEmptyWithClaims` |
| `SharesMatchToken` | `SupplyMatchesTotalShares` |
| `ClaimOrderIsFair` | `ClaimOrderNeverHurts` |
| `ClosingCostsInterestAtMost` | `CloseCostsInterestAtMost` |
| `DepositsMint` | `EveryDepositMints`, where `MaxShort = 0` |

The types alone are not inductive: every claim and cancellation subtracts, and whether a
subtraction stays a natural depends on the balance covering the total, and the total being
the sum of the entries. `EpochInv` therefore has them all at once: the types; epochs open,
execute and become claimable in order (`EpochSequence`); nothing is claimed from an executing
epoch (`ExecutingUntouched`); the balance, the escrow and the share count are the sums of
what the epochs account for (`Books`); each total is the sum of its entries
(`TotalsAreSums`); and an epoch without claims has empty pools. There is one lemma per
action. `SupplyMatchesTotalShares` is not part of the invariant; it follows from the share
count and the escrow.

`ClaimOrderNeverHurts` rests on a claim being rounded down from a pool it is computed from.
It does not say that every order of claims is equal: the last claimant keeps the remainder
(KI-024). `CloseCostsInterestAtMost` rests on the mint and the withdrawal both being rounded
down at the reported price, and on the invariant `ReportBound`: while a report may still
close its epoch, the strategy is worth at most the reported value and the interest since.
`DepositsMint` has two more invariants: each closed epoch mints at least one share
per minimum deposit (`MintCoversDeposits`, what `closeEpoch` requires and each claim
keeps), and no entry is below the minimum deposit (`EntriesNotSmall`). The hypothesis
`MaxShort = 0` is needed: a short delivery may leave an epoch with fewer shares than
depositors (KI-026).

Sums over users and epochs are the `SumFunction` of the community modules. The library's
induction theorems take an operator as a parameter, so `SumsAndQuotients` proves what it
needs of a sum (changing one part changes the sum by the difference, a part is at most the
sum, a sum of zeros is zero) by a least counterexample instead: a recursive function on
finite sets, and the smallest cardinality at which the claim fails. The same module has
the facts on quotients (`QuotientBounds` and what follows from it), which no solver finds
by itself because they are not linear.

### The router

`WorkflowRouter_proofs` proves, for any window, period and skew:

- `DueCallsAreNotTooEarly`, `Spec => []DueCallNotTooEarly`. The strengthening `ReportsDue`
  says that no report is ahead of the vault's nonce, and one whose nonce is current was
  observed a period after the last run. It is kept because a run advances the nonce; the
  property follows because a forwarded report is not from the future of the block. The
  skew plays no part, which is more than the run shows.
- `RouterImplementsGrants`, `Spec => ImplementsGrants`, with `NoGrantsAhead`: no generation
  that has not begun has a selector, so that a new registration starts without grants.
- `RouterTyping`, which both rest on.

### The adapters

`ProtocolAdapter_proofs` proves, for any index, tolerance, buffer limit and amounts,
`BufferIsBacked` (`BufferBacked`, inductive together with the types) and
`CallsLoseDustAtMost` (`CallsLoseOnlyDust`). The second is about the market's two roundings:
a sale burns shares rounded up, a value is rounded down, and the loss is at most the
tolerance of the adapter's check and one share (`SaleLosesOneShare`). `AdapterTyping` shows
that no sale burns more shares than there are (`SoldIsHeld`).

`RoundingIsAccepted` proves `RoundingNeverRefuses`, from `ToleranceAssumption` (the buffer
limit is below the tolerance: 50 and 100 in the code). It needs one more conjunct of the invariant,
`BufferBelowShare`: what an Aave v3 adapter buffers is less than one share is worth, because it is
buffered only when it buys none and the index never falls. The attempt to prove the
property for all three adapters failed for a reason, and TLC then showed it with a larger
buffer: where Aave v4 refuses a supply although its preview promised shares, the adapter
buffers an amount that may be worth a share or more, and a later deposit of less than a
share can then be credited less than the buffer it replaces. The check refuses such a
deposit, as it should; the property excepts it.

### The choice of a strategy

`WorkflowDecisions_proofs` proves the three properties of the `pools` run for snapshots of
any length, any configuration that `ValidateConfig` accepts, any rates and limits:

- `SelectionIsOrderFree`, `Spec => []SelectionIgnoresOrder`. The order of `sortPools` is a
  strict weak order on the keys (`PrecedesTransitive`, `TiesCompose`), so a finite list has
  a head (`HeadExists`, from `FirstExists`), and two lists of the same pools have the same
  one if pools that tie are equal (`HeadsAgree`). They are, because a candidate has the
  configured spelling of each text and the spelling is a function of the canonical value
  (`TiesAreEqual`): the stable sort never decides.
- `MovesGoForward`, `Spec => MovesUseNewerRates`. The invariant `PoolInv` says of every
  choice outstanding that it was made from snapshots fresh at the time, and of one for the
  present nonce that it was made a cooldown after the last move completed. A snapshot so
  young was refreshed after that move (`MovingIsNewer`). `CooldownAssumption`, an age limit
  below the cooldown (15 minutes and one hour in the code), is the assumption used.
- `MovesAreJustified`, `Spec => MoveJustified`. A choice for the present nonce is justified
  in every snapshot its nodes saw (`DecisionJustified`): the head of the candidates has the
  best rate, and the head of the current ones the best rate of the active strategy, in a
  validated configuration where a chain's name has one selector and a project one spelling
  (`NamesUnique`, `ProjectsUnique`). The reason stays, because the record only changes with
  the nonce.

`CatalogueAssumption` and `PolicyAssumption` give the texts, rates and limits their types.

### The two accountings

The same module proves `ClosesAreMirrored` and `ReconciliationsAreMirrored`, what
the `accounting` run checks on all values of 4-bit words, for words of any size. The
assumption used is `MinimumAssumption`. The two sides agree on any naturals, whatever the
order of their tests; `AccountingInv` adds that the amounts they meet are naturals.

### Only model-checked

- The liveness properties `EpochSettles`, `RebalanceEnds`, `EpochSettlesByHand` and
  `RebalanceEndsByHand`: they need fairness.
- What the theorems on the assets exclude: with short deliveries the fund is compared with
  the books by `ExecutingMintCounted` and by `ParentEpochs` only.

## 5. Not modelled

Configuration (roles, registries, gas limits, supported protocols) is fixed, every
protocol has an adapter on every chain, and every vault knows the others. Changing
configuration during an operation is KI-015 and KI-022. The adapters' dust buffer and
tolerance are in `ProtocolAdapter` only; the lifecycle takes an adapter to hold what it was
given. In the lifecycle the rebalance cron chooses any other strategy, which covers
whatever `PoolSelection` chooses. A send beyond the token pool's capacity reverts and so is
no step. Upgrades, LINK balances, gas, Compound's reward claims, the share token's pause
and CCIP admin, and the allowlist (a flag that only refuses deposits) are left out.

Of the workflow, JSON and ABI decoding are left out except for which inputs they skip;
of the relay, authorization and the parsing of the sources.

The Go bindings under `cre/contracts/evm/src/generated` are about 95% of the repository's
Go lines. They are written by a generator from the contracts' ABI, keep no state and decide
nothing: what they encode and decode is the contract call itself, which is modelled from
the contract. Measured on all Go lines the coverage of the model is therefore small; of
the 1,800 lines of Go that are written by hand two thirds are mapped; the rest is decoding,
type declarations and wrappers of the bindings.

Arithmetic outside `EpochAccounting` is on unbounded naturals: the code's 256-bit
multiplication is full precision and its additions revert on overflow, which no realistic
amount reaches; subtractions are checked for underflow by the type invariants.

Hazards without a property: the order in which a snapshot reads the chains is that of the
configuration file, and nothing in the code states which is safe; KI-026 (a short delivery
that leaves no share); the capacity of a token pool, which is external.

## 6. Plan

Done: all modules above, with their runs, the two refinements and the theorems of
section 4, which state every safety and action property that a passing run checks. What is
left needs more than these modules: liveness proofs, and a statement about the fund where
deliveries are short, for which the code has no target to prove against (KI-026).
