---------------------------- MODULE YieldBacking ----------------------------
(* What the authoritative share count is worth: the assets of the deployment   *)
(* wherever they are, and the TVL the workflow reports.  TvlCountedOnce holds  *)
(* of any deployment.  The other properties are about transfers that arrive    *)
(* whole (MaxLoss = 0), and SharesFullyBacked about shares and assets of equal *)
(* precision and no management fee besides, so that a share is always one      *)
(* asset and any asset lost or counted twice shows.                            *)
EXTENDS YieldProtocol, Functions

\* A deployment has finitely many vaults and adapters.
ASSUME FiniteAssumption == IsFiniteSet(ChildChains) /\ IsFiniteSet(Protocols)

\* Assets in the adapters, in flight, and held by a vault in recovery.
HeldInRecovery(c) ==
    IF recovery[c].mode \in {"EPOCH_DEPOSIT", "REBALANCE_DEPOSIT", "CCIP_SEND"}
    THEN recovery[c].amount ELSE 0

InAdapters == SumFunction(position)
InLanes == SumFunction([m \in ccip |-> m.amount])
InRecovery == SumFunction([c \in Chains |-> HeldInRecovery(c)])

Deployed == InAdapters + InLanes + InRecovery

\* What an executing net withdrawal still has to bring home for burnt shares.
OwedToWithdrawals ==
    IF previousEpoch.status = "EXECUTING"
         /\ previousEpoch.withdrawClaim > previousEpoch.deposit
    THEN previousEpoch.withdrawClaim - previousEpoch.deposit ELSE 0

\* At every moment, in every vault, lane and recovery together, there is exactly
\* one asset per authoritative share plus what executing withdrawals are owed:
\* closing an epoch, moving the position and recovering from a failure neither
\* lose assets nor count them twice.
SharesFullyBacked == Deployed = totalShares + OwedToWithdrawals

\* A closeEpoch report the parent would still act on carries the value of the
\* whole deployed position, although the parent and the strategy chain were read
\* at different moments and the report arrives later still.  Yield is not in this
\* module, so "current" is up to the interest since the reading; what that costs
\* is CloseCostsInterestAtMost of module ParentEpochs.
AcceptedTvlIsCurrent ==
    \A r \in reports :
        /\ r.call = "closeEpoch"
        /\ r.nonce = epochNonce
        /\ rebalance.state = "NONE"
        /\ PreviousEpochSettled
        /\ totalShares # 0
        /\ r.amount # 0
        => r.amount = Deployed

\* Whatever phase it is in, the deployed value never appears in two vaults' TVL
\* at once, and apart from funds in flight or due to withdrawals none is missing.
UnsentWithdrawal(c) ==
    IF recovery[c].mode = "CCIP_SEND" /\ recovery[c].ccipTx = "EPOCH_NET_WITHDRAW"
    THEN recovery[c].amount ELSE 0
TvlCountedOnce ==
    SumFunction([c \in Chains |-> GetTVL(c)]) + InLanes
      + SumFunction([c \in Chains |-> UnsentWithdrawal(c)]) = Deployed

----------------------------------------------------------------------------
\* Why the books balance: every amount that is on its way in an executing epoch,
\* in a message, a recovery, a log or a report, is the net amount of that epoch ...
NetAmount ==
    IF previousEpoch.deposit > previousEpoch.withdrawClaim
    THEN previousEpoch.deposit - previousEpoch.withdrawClaim
    ELSE previousEpoch.withdrawClaim - previousEpoch.deposit

AmountsAgree ==
    previousEpoch.status = "EXECUTING" =>
        /\ \A m \in ccip : m.amount = NetAmount
        /\ \A c \in Chains : ~RequireNoRecovery(c) => recovery[c].amount = NetAmount
        /\ \A l \in logs :
             l.event = "EpochDepositToStrategySuccess" /\ l.nonce = epochNonce - 1
             => l.amount = NetAmount
        /\ \A r \in reports :
             r.call = "completeEpochDeposit" /\ r.nonce = epochNonce - 1
             => r.amount = NetAmount

\* ... and a reading of the TVL for the open epoch is of a time when no epoch was
\* executing, so it is the whole position, or nothing where the position is not.
ReadingOf(nonce, tvl) ==
    /\ nonce <= epochNonce
    /\ nonce = epochNonce => previousEpoch.status # "EXECUTING" /\ tvl \in {0, Deployed}

ReadingsAgree ==
    /\ closeSnapshot.chainSelector = ParentChain =>
         ReadingOf(closeSnapshot.nonce, closeSnapshot.tvl)
    /\ ReadingOf(closeSnapshot.nonce, 0)
    /\ \A r \in reports : r.call = "closeEpoch" => ReadingOf(r.nonce, r.amount)

\* The parent names a pending strategy only while it rebalances.
PendingIffRebalancing ==
    rebalance.state = "NONE" => rebalance.pendingStrategy = NoStrategy

\* The invariant the proofs rest on: no amount on its way and no reading that may
\* still be acted on disagrees with the parent's record of the epoch it belongs to.
BackingInv == AmountsAgree /\ ReadingsAgree /\ PendingIffRebalancing

----------------------------------------------------------------------------
\* The deployment as one fund: the stage is the parent's record, and the fund is
\* at the active strategy so far as that strategy's adapter holds it.
FundStage ==
    CASE rebalance.activeStrategy = NoStrategy -> "undeployed"
      [] rebalance.state = "REBALANCING" -> "moving"
      [] previousEpoch.status = "EXECUTING" -> "settling"
      [] OTHER -> "idle"

PlacedAtStrategy ==
    IF rebalance.activeStrategy = NoStrategy THEN 0 ELSE position[rebalance.activeStrategy]

Ledger == INSTANCE FundLedger WITH
    stage <- FundStage,
    location <- rebalance.activeStrategy,
    target <- rebalance.pendingStrategy,
    epoch <- epochNonce,
    assets <- Deployed,
    owed <- OwedToWithdrawals,
    placed <- PlacedAtStrategy

\* The vaults, lanes, workflow and keepers together implement the ledger: however
\* their steps interleave, fail and are recovered or repeated, share holders see
\* one fund that settles or moves, one operation at a time and never in part.
ImplementsLedger == Ledger!LedgerSpec
=============================================================================
