--------------------------- MODULE EpochAccounting ---------------------------
(* The workflow's copy of the epoch arithmetic (cre/workflow/internal/epoch/     *)
(* accounting.go) beside the contract's (ParentVaultEpochLib), on words of       *)
(* WordBits bits.  The Go code computes with unbounded integers and tests what   *)
(* it gets; the contract reverts where a result leaves the word.                 *)
EXTENDS VaultMath

CONSTANT WordBits       \* 256 in the code

ASSUME WordAssumption == WordBits \in Nat \ {0}

\* The contract's minimum is set to one whole asset; the workflow has only the
\* precision.
ASSUME MinimumAssumption == MinAssetAmount = AssetPrecision

VARIABLES
    queue,          \* the totals of the open epoch: assets deposited, shares to burn
    totalShares,    \* s_totalShares
    tvl,            \* the value the workflow read
    isLocal,        \* the active strategy is on the parent's chain
    status,         \* "open", then "executing" while the deposit is away, then "settled"
    closed          \* the closed epoch

accountingVars == <<queue, totalShares, tvl, isLocal, status, closed>>

Word == 0..(2 ^ WordBits - 1)
Uint256(v) == v \in Word
Int256(v) == v < 2 ^ (WordBits - 1)

Refused == [ok |-> FALSE]

----------------------------------------------------------------------------
\* The workflow.

\* Mutant of calculateEpochClose: the product of the zero-share test is not tested.
calculateEpochClose_Unbounded(deposit, burn, shares, value, local) ==
    LET price == MulDivDown(value, SharePrecision, shares)
        withdraw == IF shares = 0 THEN 0 ELSE MulDivDown(burn, value, shares)
        newShares == IF shares = 0 THEN MulDivDown(deposit, SharePrecision, AssetPrecision)
                                   ELSE MulDivDown(deposit, shares, value)
        ok == /\ deposit # 0 \/ burn # 0
              /\ IF shares # 0
                 THEN value # 0 /\ price # 0 /\ Uint256(price) /\ Uint256(withdraw)
                 ELSE burn = 0
              /\ Uint256(newShares) /\ Int256(deposit) /\ Int256(withdraw)
              /\ deposit # 0 => newShares * AssetPrecision >= deposit
              /\ ~local /\ withdraw > deposit => withdraw - deposit >= AssetPrecision
              /\ Uint256(shares + newShares)
              /\ shares + newShares >= burn
    IN  IF ok THEN [ok |-> TRUE, withdraw |-> withdraw, newShares |-> newShares,
                    totalShares |-> shares + newShares - burn]
              ELSE Refused

calculateEpochClose(deposit, burn, shares, value, local) ==
    LET price == MulDivDown(value, SharePrecision, shares)
        withdraw == IF shares = 0 THEN 0 ELSE MulDivDown(burn, value, shares)
        newShares == IF shares = 0 THEN MulDivDown(deposit, SharePrecision, AssetPrecision)
                                   ELSE MulDivDown(deposit, shares, value)
        ok == /\ deposit # 0 \/ burn # 0
              /\ IF shares # 0
                 THEN value # 0 /\ price # 0 /\ Uint256(price) /\ Uint256(withdraw)
                 ELSE burn = 0
              /\ Uint256(newShares) /\ Int256(deposit) /\ Int256(withdraw)
              /\ deposit # 0 => /\ Uint256(newShares * AssetPrecision)
                                /\ newShares * AssetPrecision >= deposit
              /\ ~local /\ withdraw > deposit => withdraw - deposit >= AssetPrecision
              /\ Uint256(shares + newShares)
              /\ shares + newShares >= burn
    IN  IF ok THEN [ok |-> TRUE, withdraw |-> withdraw, newShares |-> newShares,
                    totalShares |-> shares + newShares - burn]
              ELSE Refused

\* Mutant of reconcileEpochDeposit: pro rata of the net amount sent.
reconcileEpochDeposit_Net(e, shares, actual) ==
    LET expected == e.deposit - e.withdrawClaim
        adjusted == MulDivDown(e.mint, actual, expected)
        ok == /\ e.deposit > e.withdrawClaim
              /\ actual \in 1..expected
              /\ actual < expected => adjusted # 0 /\ e.mint - adjusted <= shares
    IN  IF ok THEN [ok |-> TRUE, mint |-> IF actual = expected THEN e.mint ELSE adjusted]
              ELSE Refused

reconcileEpochDeposit(e, shares, actual) ==
    LET expected == e.deposit - e.withdrawClaim
        effectiveDeposit == e.deposit - (expected - actual)
        adjusted == MulDivDown(e.mint, effectiveDeposit, e.deposit)
        ok == /\ e.deposit > e.withdrawClaim
              /\ actual \in 1..expected
              /\ actual < expected => adjusted # 0 /\ e.mint - adjusted <= shares
    IN  IF ok THEN [ok |-> TRUE, mint |-> IF actual = expected THEN e.mint ELSE adjusted]
              ELSE Refused

----------------------------------------------------------------------------
\* The contract: the checks of VaultMath, and a revert wherever _mulDivDown,
\* toInt256 or a checked operation leaves the word.
CloseFitsWord(deposit, burn, shares, value) ==
    LET withdraw == TotalWithdraw(burn, value, shares)
        newShares == NewShares(deposit, value, shares)
    IN  /\ shares # 0 => /\ Uint256(MulDivDown(value, SharePrecision, shares))
                         /\ Uint256(withdraw)
        /\ Uint256(newShares)
        /\ Int256(deposit) /\ Int256(withdraw)
        /\ deposit # 0 => Uint256(newShares * MinAssetAmount)
        /\ Uint256(shares + newShares)
        /\ burn <= shares + newShares

ContractCloses(deposit, burn, shares, value, local) ==
    IF /\ SettlementAllowed(deposit, burn, value, shares, local)
       /\ CloseFitsWord(deposit, burn, shares, value)
    THEN LET newShares == NewShares(deposit, value, shares)
         IN  [ok |-> TRUE, withdraw |-> TotalWithdraw(burn, value, shares),
              newShares |-> newShares, totalShares |-> shares + newShares - burn]
    ELSE Refused

ContractReconciles(e, shares, actual) ==
    LET expected == e.deposit - e.withdrawClaim
        adjusted == AdjustedShares(e.mint, e.deposit, expected - actual)
        reduction == e.mint - adjusted
    IN  IF e.deposit <= e.withdrawClaim \/ actual = 0 \/ actual > expected THEN Refused
        ELSE IF actual = expected THEN [ok |-> TRUE, mint |-> e.mint]
        ELSE IF adjusted # 0 /\ reduction <= shares THEN [ok |-> TRUE, mint |-> adjusted]
        ELSE Refused

----------------------------------------------------------------------------
\* Every queue, share count and value a word can hold: no share can be queued that
\* was not minted, and no deposit is below the minimum.
AccountingInit ==
    /\ queue \in [deposit : {d \in Word : d = 0 \/ d >= MinAssetAmount}, burn : Word]
    /\ totalShares \in Word
    /\ queue.burn <= totalShares
    /\ tvl \in Word
    /\ isLocal \in BOOLEAN
    /\ status = "open"
    /\ closed = [deposit |-> 0, withdrawClaim |-> 0, mint |-> 0]

\* The epoch cron submits what its arithmetic accepts and the contract settles it.
CronCloses ==
    LET go == calculateEpochClose(queue.deposit, queue.burn, totalShares, tvl, isLocal)
        contract == ContractCloses(queue.deposit, queue.burn, totalShares, tvl, isLocal)
    IN  /\ status = "open"
        /\ go.ok /\ contract.ok
        /\ totalShares' = contract.totalShares
        /\ closed' = [deposit |-> queue.deposit, withdrawClaim |-> contract.withdraw,
                      mint |-> contract.newShares]
        /\ status' = IF ~isLocal /\ queue.deposit > contract.withdraw
                     THEN "executing" ELSE "settled"
        /\ UNCHANGED <<queue, tvl, isLocal>>

\* The remote deposit is reported with what arrived of it.
LogCompletes(actual) ==
    /\ status = "executing"
    /\ LET contract == ContractReconciles(closed, totalShares, actual)
       IN  /\ reconcileEpochDeposit(closed, totalShares, actual).ok /\ contract.ok
           /\ totalShares' = totalShares - (closed.mint - contract.mint)
    /\ status' = "settled"
    /\ UNCHANGED <<queue, tvl, isLocal, closed>>

AccountingNext == CronCloses \/ \E actual \in Word : LogCompletes(actual)

AccountingSpec == AccountingInit /\ [][AccountingNext]_accountingVars

----------------------------------------------------------------------------
\* The workflow closes exactly the epochs the contract would close, with the same
\* amounts: it neither spends a report on a call that reverts nor withholds one
\* that would settle, up to the last value a word holds.
CloseMirrorsContract ==
    status = "open" =>
        calculateEpochClose(queue.deposit, queue.burn, totalShares, tvl, isLocal)
          = ContractCloses(queue.deposit, queue.burn, totalShares, tvl, isLocal)

\* So does the completion of a deposit that arrives short, for every amount, in
\* every state a close can lead to.
ReconcileMirrorsContract ==
    status = "executing" =>
        \A actual \in Word : reconcileEpochDeposit(closed, totalShares, actual)
                               = ContractReconciles(closed, totalShares, actual)
==============================================================================
