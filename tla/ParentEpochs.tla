----------------------------- MODULE ParentEpochs -----------------------------
(* The users' side of the ParentVault: ParentVaultUserEpochLib with the epoch  *)
(* accounting of ParentVaultEpochLib and the fee of ParentVaultFeesLib.  Every *)
(* epoch is kept, with what each user queued in it, and the assets and shares  *)
(* that back the claims.                                                       *)
(*                                                                             *)
(* Where the strategy is and how its funds travel is the matter of module      *)
(* YieldProtocol; here the strategy is one number, its value, and the vault    *)
(* either reaches it at once (local) or by a later completion (remote).  No    *)
(* epoch closes while a rebalance is under way, so a rebalance is one step.    *)
(* Pauses, roles and the allowlist only ever refuse a call, so they are left   *)
(* out of these safety properties.                                             *)
EXTENDS VaultMath, FiniteSets, Functions

CONSTANTS
    Users,          \* accounts, the treasury among them
    Treasury,       \* s_treasury, which receives the management fee
    MaxEpochNonce,  \* bound: the last epoch, which opens and stays empty
    MaxQueued,      \* bound: what one user deposits in one epoch
    MaxTvl,         \* bound: the value yield may bring the strategy to
    MaxEarned,      \* bound: interest between a reading and the close that uses it
    MaxShort,       \* bound: what one transfer or withdrawal may fall short by
    MaxElapsed,     \* bound: days between two rebalances
    MaxShares       \* bound: the shares up to which fees are minted

ASSUME UserAssumption ==
    /\ IsFiniteSet(Users) /\ Treasury \in Users
    /\ MaxEpochNonce \in Nat \ {0}
    /\ MaxQueued \in Nat /\ MaxTvl \in Nat /\ MaxEarned \in Nat /\ MaxShort \in Nat
    /\ MaxElapsed \in Nat /\ MaxShares \in Nat

VARIABLES
    epochNonce,     \* s_epochNonce
    epochs,         \* s_epochs
    deposits,       \* s_deposits: user -> epoch -> assets
    withdraws,      \* s_withdraws: user -> epoch -> shares
    totalShares,    \* s_totalShares
    balance,        \* share token: user -> balance
    escrow,         \* share token: balance of the vault
    assets,         \* asset balance of the vault
    tvl,            \* value of the strategy, in flight deposits not included
    local,          \* the strategy is on the vault's own chain
    report,         \* the last closeEpoch report: the nonce and the value it names
    earned          \* auxiliary: interest since its reading, while it may still close

epochVars == <<epochNonce, epochs, totalShares>>
queueVars == <<deposits, withdraws>>
shareVars == <<balance, escrow>>
strategyVars == <<tvl, local>>
reportVars == <<report, earned>>
vars == <<epochVars, queueVars, shareVars, assets, strategyVars, reportVars>>

Nonces == 1..MaxEpochNonce

\* An epoch record before anything is written to it.
EmptyEpoch ==
    [status |-> "NONE", totalDeposit |-> 0, totalBurn |-> 0, withdrawClaim |-> 0,
     remainingDeposit |-> 0, remainingMint |-> 0, remainingBurn |-> 0,
     remainingWithdraw |-> 0]

Init ==
    /\ epochNonce = 1
    /\ epochs = [n \in Nonces |->
                    IF n = 1 THEN [EmptyEpoch EXCEPT !.status = "OPEN"] ELSE EmptyEpoch]
    /\ deposits = [u \in Users |-> [n \in Nonces |-> 0]]
    /\ withdraws = [u \in Users |-> [n \in Nonces |-> 0]]
    /\ totalShares = 0
    /\ balance = [u \in Users |-> 0]
    /\ escrow = 0
    /\ assets = 0
    /\ tvl = 0
    /\ local \in BOOLEAN
    /\ report = [epochNonce |-> 0, tvl |-> 0]
    /\ earned = 0

----------------------------------------------------------------------------
\* The queue of the open epoch.  The payer of a deposit pays from a wallet the
\* vault does not see; the payer of a withdrawal pays in shares.

Deposit(beneficiary, amount) ==
    /\ amount >= MinAssetAmount
    /\ epochNonce < MaxEpochNonce
    /\ deposits[beneficiary][epochNonce] + amount <= MaxQueued
    /\ epochs[epochNonce].status = "OPEN"
    /\ deposits' = [deposits EXCEPT ![beneficiary][epochNonce] = @ + amount]
    /\ epochs' = [epochs EXCEPT ![epochNonce].totalDeposit = @ + amount]
    /\ assets' = assets + amount
    /\ UNCHANGED <<epochNonce, withdraws, totalShares, shareVars, strategyVars,
                       reportVars>>

Withdraw(payer, beneficiary, shareBurnAmount) ==
    /\ shareBurnAmount # 0
    /\ epochNonce < MaxEpochNonce
    /\ shareBurnAmount <= balance[payer]
    /\ epochs[epochNonce].status = "OPEN"
    /\ withdraws' = [withdraws EXCEPT ![beneficiary][epochNonce] = @ + shareBurnAmount]
    /\ epochs' = [epochs EXCEPT ![epochNonce].totalBurn = @ + shareBurnAmount]
    /\ balance' = [balance EXCEPT ![payer] = @ - shareBurnAmount]
    /\ escrow' = escrow + shareBurnAmount
    /\ UNCHANGED <<epochNonce, deposits, totalShares, assets, strategyVars, reportVars>>

\* Mutant of CancelDeposit: the epoch's total keeps the cancelled deposit.
CancelDeposit_KeepsTotal(user) ==
    /\ epochs[epochNonce].status = "OPEN"
    /\ deposits[user][epochNonce] # 0
    /\ deposits' = [deposits EXCEPT ![user][epochNonce] = 0]
    /\ assets' = assets - deposits[user][epochNonce]
    /\ UNCHANGED <<epochVars, withdraws, shareVars, strategyVars, reportVars>>

\* _cancelDepositCore, of cancelDeposit and of forceCancelDeposit.
CancelDeposit(user) ==
    LET amount == deposits[user][epochNonce]
    IN  /\ epochs[epochNonce].status = "OPEN"
        /\ amount # 0
        /\ deposits' = [deposits EXCEPT ![user][epochNonce] = 0]
        /\ epochs' = [epochs EXCEPT ![epochNonce].totalDeposit = @ - amount]
        /\ assets' = assets - amount
        /\ UNCHANGED <<epochNonce, withdraws, totalShares, shareVars, strategyVars,
                       reportVars>>

\* Mutant of CancelWithdraw: the shares stay in the vault's balance.
CancelWithdraw_KeepsEscrow(user) ==
    LET amount == withdraws[user][epochNonce]
    IN  /\ epochs[epochNonce].status = "OPEN"
        /\ amount # 0
        /\ withdraws' = [withdraws EXCEPT ![user][epochNonce] = 0]
        /\ epochs' = [epochs EXCEPT ![epochNonce].totalBurn = @ - amount]
        /\ UNCHANGED <<epochNonce, deposits, totalShares, shareVars, assets,
                       strategyVars, reportVars>>

CancelWithdraw(user) ==
    LET amount == withdraws[user][epochNonce]
    IN  /\ epochs[epochNonce].status = "OPEN"
        /\ amount # 0
        /\ withdraws' = [withdraws EXCEPT ![user][epochNonce] = 0]
        /\ epochs' = [epochs EXCEPT ![epochNonce].totalBurn = @ - amount]
        /\ balance' = [balance EXCEPT ![user] = @ + amount]
        /\ escrow' = escrow - amount
        /\ UNCHANGED <<epochNonce, deposits, totalShares, assets, strategyVars,
                       reportVars>>

----------------------------------------------------------------------------
\* The epoch cron reads the value of the strategy, and its report closes the epoch
\* at any later time: here the router's window has no end, so a reading may be as old
\* as the epoch.  Of several reports for an epoch one takes effect, so one is kept.

PreviousSettled ==
    epochNonce # 1 => epochs[epochNonce - 1].status = "CLAIMABLE"

OnEpochCronTrigger ==
    LET e == epochs[epochNonce]
    IN  /\ epochNonce < MaxEpochNonce
        /\ PreviousSettled
        /\ e.status = "OPEN"
        /\ SettlementAllowed(e.totalDeposit, e.totalBurn, tvl, totalShares, local)
        /\ report' = [epochNonce |-> epochNonce, tvl |-> tvl]
        /\ earned' = 0
        /\ UNCHANGED <<epochVars, queueVars, shareVars, assets, strategyVars>>

\* The report names the open epoch.
ReportCurrent == report.epochNonce = epochNonce

\* What is written to the closing epoch and to the one that opens.
SettledEpochs(status, withdrawClaim, mint) ==
    LET e == epochs[epochNonce]
    IN  [epochs EXCEPT
            ![epochNonce] = [e EXCEPT
                !.status = status, !.withdrawClaim = withdrawClaim,
                !.remainingDeposit = e.totalDeposit, !.remainingMint = mint,
                !.remainingBurn = e.totalBurn, !.remainingWithdraw = withdrawClaim],
            ![epochNonce + 1].status = "OPEN"]

\* What a transfer or withdrawal of `amount` may yield: never zero.
Arriving(amount) == {a \in 1..amount : amount - a <= MaxShort}

NothingMoves(deposit, withdraw, mint) ==
    /\ deposit = withdraw
    /\ epochs' = SettledEpochs("CLAIMABLE", withdraw, mint)
    /\ UNCHANGED <<assets, strategyVars>>

NetDeposit(deposit, withdraw, mint) ==
    /\ deposit > withdraw
    /\ epochs' = SettledEpochs(IF local THEN "CLAIMABLE" ELSE "EXECUTING", withdraw, mint)
    /\ assets' = assets - (deposit - withdraw)
    /\ tvl' = IF local THEN tvl + (deposit - withdraw) ELSE tvl
    /\ UNCHANGED local

\* Mutant of LocalNetWithdraw: claims at the estimate, not at what came out.
LocalNetWithdraw_Estimate(deposit, withdraw, mint) ==
    /\ withdraw > deposit
    /\ local
    /\ withdraw - deposit <= tvl
    /\ \E amountOut \in Arriving(withdraw - deposit) :
         /\ epochs' = SettledEpochs("CLAIMABLE", withdraw, mint)
         /\ assets' = assets + amountOut
    /\ tvl' = tvl - (withdraw - deposit)
    /\ UNCHANGED local

\* A local withdrawal is claimed at what came out of the adapter.
LocalNetWithdraw(deposit, withdraw, mint) ==
    /\ withdraw > deposit
    /\ local
    /\ withdraw - deposit <= tvl
    /\ \E amountOut \in Arriving(withdraw - deposit) :
         /\ epochs' = SettledEpochs("CLAIMABLE", deposit + amountOut, mint)
         /\ assets' = assets + amountOut
    /\ tvl' = tvl - (withdraw - deposit)
    /\ UNCHANGED local

RemoteNetWithdraw(deposit, withdraw, mint) ==
    /\ withdraw > deposit
    /\ ~local
    /\ epochs' = SettledEpochs("EXECUTING", withdraw, mint)
    /\ UNCHANGED <<assets, strategyVars>>

\* Mutant of CloseEpoch: expectedEpochNonce is not compared.
CloseEpoch_AnyNonce ==
    LET e == epochs[epochNonce]
        withdraw == TotalWithdraw(e.totalBurn, report.tvl, totalShares)
        mint == NewShares(e.totalDeposit, report.tvl, totalShares)
    IN  /\ report.epochNonce # 0
        /\ epochNonce < MaxEpochNonce
        /\ PreviousSettled
        /\ e.status = "OPEN"
        /\ SettlementAllowed(e.totalDeposit, e.totalBurn, report.tvl, totalShares, local)
        /\ totalShares' = totalShares + mint - e.totalBurn
        /\ epochNonce' = epochNonce + 1
        /\ \/ NothingMoves(e.totalDeposit, withdraw, mint)
           \/ NetDeposit(e.totalDeposit, withdraw, mint)
           \/ LocalNetWithdraw(e.totalDeposit, withdraw, mint)
           \/ RemoteNetWithdraw(e.totalDeposit, withdraw, mint)
        /\ earned' = 0
        /\ UNCHANGED <<queueVars, shareVars, report>>

\* closeEpoch(expectedEpochNonce, tvl), with the arguments the report names: the
\* price is that of the reading, the assets that move are those there are now.
CloseEpoch ==
    LET e == epochs[epochNonce]
        withdraw == TotalWithdraw(e.totalBurn, report.tvl, totalShares)
        mint == NewShares(e.totalDeposit, report.tvl, totalShares)
    IN  /\ ReportCurrent
        /\ epochNonce < MaxEpochNonce
        /\ PreviousSettled
        /\ e.status = "OPEN"
        /\ SettlementAllowed(e.totalDeposit, e.totalBurn, report.tvl, totalShares, local)
        /\ totalShares' = totalShares + mint - e.totalBurn
        /\ epochNonce' = epochNonce + 1
        /\ \/ NothingMoves(e.totalDeposit, withdraw, mint)
           \/ NetDeposit(e.totalDeposit, withdraw, mint)
           \/ LocalNetWithdraw(e.totalDeposit, withdraw, mint)
           \/ RemoteNetWithdraw(e.totalDeposit, withdraw, mint)
        /\ earned' = 0
        /\ UNCHANGED <<queueVars, shareVars, report>>

----------------------------------------------------------------------------
\* Completion of a remote epoch.

\* Mutant of CompleteEpochDeposit: the reduction is not taken off totalShares.
CompleteEpochDeposit_KeepsShares ==
    LET n == epochNonce - 1
        e == epochs[n]
        expected == e.totalDeposit - e.withdrawClaim
    IN  /\ epochNonce # 1
        /\ e.status = "EXECUTING"
        /\ e.totalDeposit > e.withdrawClaim
        /\ \E actual \in Arriving(expected) :
             LET mint == IF actual = expected THEN e.remainingMint
                         ELSE AdjustedShares(e.remainingMint, e.totalDeposit,
                                             expected - actual)
             IN  /\ actual = expected \/ mint # 0
                 /\ epochs' = [epochs EXCEPT ![n].status = "CLAIMABLE",
                                             ![n].remainingMint = mint]
                 /\ tvl' = tvl + actual
        /\ UNCHANGED <<epochNonce, totalShares, queueVars, shareVars, assets, local,
                       reportVars>>

\* completeEpochDeposit, with the amount that reached the strategy.
CompleteEpochDeposit ==
    LET n == epochNonce - 1
        e == epochs[n]
        expected == e.totalDeposit - e.withdrawClaim
    IN  /\ epochNonce # 1
        /\ e.status = "EXECUTING"
        /\ e.totalDeposit > e.withdrawClaim
        /\ \E actual \in Arriving(expected) :
             LET mint == IF actual = expected THEN e.remainingMint
                         ELSE AdjustedShares(e.remainingMint, e.totalDeposit,
                                             expected - actual)
             IN  /\ actual = expected \/ mint # 0
                 /\ epochs' = [epochs EXCEPT ![n].status = "CLAIMABLE",
                                             ![n].remainingMint = mint]
                 /\ totalShares' = totalShares - (e.remainingMint - mint)
                 /\ tvl' = tvl + actual
        /\ UNCHANGED <<epochNonce, queueVars, shareVars, assets, local, reportVars>>

\* _handleEpochNetWithdraw, with the amount that came back from the strategy.
HandleEpochNetWithdraw ==
    LET n == epochNonce - 1
        e == epochs[n]
        expected == e.withdrawClaim - e.totalDeposit
    IN  /\ epochNonce # 1
        /\ e.status = "EXECUTING"
        /\ e.withdrawClaim > e.totalDeposit
        /\ expected <= tvl
        /\ \E received \in Arriving(expected) :
             /\ epochs' = [epochs EXCEPT
                             ![n].status = "CLAIMABLE",
                             ![n].withdrawClaim = e.totalDeposit + received,
                             ![n].remainingWithdraw = e.totalDeposit + received]
             /\ assets' = assets + received
        /\ tvl' = tvl - expected
        /\ UNCHANGED <<epochNonce, totalShares, queueVars, shareVars, local,
                       reportVars>>

----------------------------------------------------------------------------
\* Claims, in any order and at any later time.

ClaimShares(user, n) ==
    LET e == epochs[n]
        claim == deposits[user][n]
        minted == ProRata(claim, e.remainingMint, e.remainingDeposit)
    IN  /\ e.status = "CLAIMABLE"
        /\ claim # 0
        /\ epochs' = [epochs EXCEPT ![n].remainingDeposit = @ - claim,
                                    ![n].remainingMint = @ - minted]
        /\ deposits' = [deposits EXCEPT ![user][n] = 0]
        /\ balance' = [balance EXCEPT ![user] = @ + minted]
        /\ UNCHANGED <<epochNonce, totalShares, withdraws, escrow, assets,
                       strategyVars, reportVars>>

ClaimAsset(user, n) ==
    LET e == epochs[n]
        claim == withdraws[user][n]
        paid == ProRata(claim, e.remainingWithdraw, e.remainingBurn)
    IN  /\ e.status = "CLAIMABLE"
        /\ claim # 0
        /\ epochs' = [epochs EXCEPT ![n].remainingBurn = @ - claim,
                                    ![n].remainingWithdraw = @ - paid]
        /\ withdraws' = [withdraws EXCEPT ![user][n] = 0]
        /\ escrow' = escrow - claim
        /\ assets' = assets - paid
        /\ UNCHANGED <<epochNonce, totalShares, deposits, balance, strategyVars,
                       reportVars>>

----------------------------------------------------------------------------
\* A rebalance, seen from here: the value moves, with the loss of a transfer, to
\* a strategy that is local or not, and the treasury gets its fee.
FinalizeRebalance(elapsed, isLocal) ==
    LET feeShares == FeeShares(totalShares, elapsed)
    IN  /\ epochNonce # 1
        /\ PreviousSettled
        /\ totalShares + feeShares <= MaxShares
        /\ totalShares' = totalShares + feeShares
        /\ balance' = [balance EXCEPT ![Treasury] = @ + feeShares]
        /\ tvl' \in Arriving(tvl)
        /\ local' = isLocal
        /\ UNCHANGED <<epochNonce, epochs, queueVars, escrow, assets, reportVars>>

\* The strategy earns.
YieldAccrues ==
    /\ tvl # 0
    /\ tvl' \in (tvl + 1)..MaxTvl
    /\ earned' = IF ReportCurrent THEN earned + (tvl' - tvl) ELSE earned
    /\ earned' <= MaxEarned
    /\ UNCHANGED <<epochVars, queueVars, shareVars, assets, local, report>>

Next ==
    \/ \E u \in Users, amount \in 1..MaxQueued : Deposit(u, amount)
    \/ \E p, u \in Users : \E amount \in 1..balance[p] : Withdraw(p, u, amount)
    \/ \E u \in Users : CancelDeposit(u) \/ CancelWithdraw(u)
    \/ OnEpochCronTrigger
    \/ CloseEpoch
    \/ CompleteEpochDeposit
    \/ HandleEpochNetWithdraw
    \/ \E u \in Users, n \in Nonces : ClaimShares(u, n) \/ ClaimAsset(u, n)
    \/ \E elapsed \in 0..MaxElapsed, isLocal \in BOOLEAN :
         FinalizeRebalance(elapsed, isLocal)
    \/ YieldAccrues

Spec == Init /\ [][Next]_vars

----------------------------------------------------------------------------
Closed(n) == epochs[n].status \in {"EXECUTING", "CLAIMABLE"}

EpochRecords ==
    [status : {"NONE", "OPEN", "EXECUTING", "CLAIMABLE"},
     totalDeposit : Nat, totalBurn : Nat, withdrawClaim : Nat, remainingDeposit : Nat,
     remainingMint : Nat, remainingBurn : Nat, remainingWithdraw : Nat]

\* Everything stays in range: no balance, total or pool is driven below zero,
\* which in the code is a revert that would lock a legitimate call.
TypeOK ==
    /\ epochNonce \in Nonces
    /\ epochs \in [Nonces -> EpochRecords]
    /\ deposits \in [Users -> [Nonces -> Nat]]
    /\ withdraws \in [Users -> [Nonces -> Nat]]
    /\ balance \in [Users -> Nat]
    /\ totalShares \in Nat /\ escrow \in Nat /\ assets \in Nat /\ tvl \in Nat
    /\ local \in BOOLEAN
    /\ report \in [epochNonce : Nat, tvl : Nat] /\ earned \in Nat

\* Assets the vault must hold for epoch n: queued deposits while it is open, what
\* is owed to its withdrawals once closed, of which an executing net withdrawal
\* so far has only the deposits it was netted against.
AssetsHeldFor(n) ==
    LET e == epochs[n]
    IN  CASE e.status = "OPEN" -> e.totalDeposit
          [] e.status = "EXECUTING" ->
                IF e.withdrawClaim < e.totalDeposit THEN e.withdrawClaim ELSE e.totalDeposit
          [] e.status = "CLAIMABLE" -> e.remainingWithdraw
          [] OTHER -> 0

\* The vault's asset balance is exactly the sum of its obligations: every epoch
\* can be paid in full whatever the order of claims, and nothing is left over
\* when all are paid.
Solvent == assets = SumFunction([n \in Nonces |-> AssetsHeldFor(n)])

\* Shares of epoch n to be minted, burnt but still in escrow, and in escrow at all,
\* and the deposits it still accounts for.
Unclaimed(n) == IF Closed(n) THEN epochs[n].remainingMint ELSE 0
SettledBurn(n) == IF Closed(n) THEN epochs[n].remainingBurn ELSE 0
Escrowed(n) == IF Closed(n) THEN epochs[n].remainingBurn ELSE epochs[n].totalBurn
Queued(n) == IF Closed(n) THEN epochs[n].remainingDeposit ELSE epochs[n].totalDeposit

\* The authoritative share count that prices epochs agrees with the token: supply,
\* plus the shares depositors still have to claim, less the escrowed shares of
\* closed withdrawals that are no longer counted.
SupplyMatchesTotalShares ==
    SumFunction(balance) + escrow + SumFunction([n \in Nonces |-> Unclaimed(n)])
      = totalShares + SumFunction([n \in Nonces |-> SettledBurn(n)])

\* The vault escrows exactly the shares queued or not yet claimed against, so a
\* claim or a cancellation never lacks shares to burn or to return.
EscrowCoversWithdrawals == escrow = SumFunction([n \in Nonces |-> Escrowed(n)])

\* The totals of an epoch are the sums of the users' entries, before it closes and
\* after any claims.
TotalsAreSums ==
    \A n \in Nonces :
        /\ SumFunction([u \in Users |-> deposits[u][n]]) = Queued(n)
        /\ SumFunction([u \in Users |-> withdraws[u][n]]) = Escrowed(n)

\* The pools of a claimable epoch run dry together with its claims: no share or
\* asset stays locked behind a last claimant.
PoolsEmptyWithClaims ==
    \A n \in Nonces : epochs[n].status = "CLAIMABLE" =>
        /\ epochs[n].remainingDeposit = 0 => epochs[n].remainingMint = 0
        /\ epochs[n].remainingBurn = 0 => epochs[n].remainingWithdraw = 0

\* Every depositor of a closed epoch, however small and however late, has at least
\* one share to claim (as long as deposits arrive whole).
EveryDepositMints ==
    \A u \in Users, n \in Nonces : Closed(n) /\ deposits[u][n] # 0 =>
        ProRata(deposits[u][n], epochs[n].remainingMint, epochs[n].remainingDeposit) # 0

\* Nobody loses by another claiming first: over any claim, what is left per unit
\* of the remaining claims never falls.
ClaimOrderNeverHurts ==
    [][\A n \in Nonces :
         epochs[n].status = "CLAIMABLE" =>
            /\ epochs'[n].remainingMint * epochs[n].remainingDeposit >=
                 epochs[n].remainingMint * epochs'[n].remainingDeposit
            /\ epochs'[n].remainingWithdraw * epochs[n].remainingBurn >=
                 epochs[n].remainingWithdraw * epochs'[n].remainingBurn]_vars

\* Value behind the outstanding shares: the strategy, plus a net deposit under
\* way, less a net withdrawal still to be taken out.
Backing ==
    LET e == epochs[epochNonce - 1]
    IN  IF epochNonce = 1 \/ e.status # "EXECUTING" THEN tvl
        ELSE tvl + e.totalDeposit - e.withdrawClaim

\* A close costs the holders who stay at most interest earned since the reading: it
\* takes its price from a value read earlier, with interest, rebalances and their
\* losses since.  First, what the strategy gains is the worth, at the reported price,
\* of the shares added, up to less than one share and one asset, and never less:
\* rounding is borne by those who enter and leave.  Second, where the strategy has not
\* fallen below the reading, a share that stays is worth no less than before, not
\* counting that interest: entrants may share in it, but not in what was there before.
CloseCostsInterestAtMost ==
    [][epochNonce' # epochNonce /\ totalShares # 0 =>
         LET before == Backing * totalShares + report.tvl * totalShares'
             after == Backing' * totalShares + report.tvl * totalShares
         IN  /\ before <= after
             /\ after < before + report.tvl + totalShares
             /\ report.tvl <= Backing =>
                  Backing * totalShares' <= Backing' * totalShares + earned * totalShares'
      ]_vars
===============================================================================
