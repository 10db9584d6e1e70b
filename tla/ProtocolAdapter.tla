--------------------------- MODULE ProtocolAdapter ---------------------------
(* The adapters between a vault and a lending market (evm/src/modules): the    *)
(* two Aave adapters, which keep a deposit too small to be worth one share of  *)
(* the market in a buffer of their own, and the Compound adapter, which has    *)
(* none.  BaseVault.tla takes an adapter to hold what it was given and to pay  *)
(* any amount up to its value; here that is checked against the markets'       *)
(* rounding.                                                                   *)
(*                                                                             *)
(* The market is external.  It counts in shares worth index / RAY each, rounds *)
(* against its user, and may credit or pay less than it should.                *)
EXTENDS Naturals, FiniteSetsExt

CONSTANTS
    RAY,                    \* the market's unit of the index
    WEI_TOLERANCE,          \* what one call may lose to rounding
    MAX_BUFFERED_ASSETS,    \* the largest buffer
    MaxIndex,               \* bound: the index
    MaxAssets,              \* bound: the assets of the vault
    MaxDonated              \* bound: assets strangers sent to the adapter

ASSUME AdapterAssumption ==
    /\ RAY \in Nat \ {0} /\ MaxIndex \in Nat /\ RAY <= MaxIndex
    /\ WEI_TOLERANCE \in Nat /\ MAX_BUFFERED_ASSETS \in Nat
    /\ MaxAssets \in Nat /\ MaxDonated \in Nat

\* 50 and 100 in the code.
ASSUME ToleranceAssumption == MAX_BUFFERED_ASSETS < WEI_TOLERANCE

VARIABLES
    adapter,    \* which of the three adapters this is
    vault,      \* the assets in the vault's hands
    buffered,   \* s_bufferedAssets
    balance,    \* the adapter's balance of the asset
    donated,    \* the part of it that came from strangers
    shares,     \* the adapter's shares of the market
    index       \* the market's index

adapterVars == <<adapter, vault, buffered, balance, donated, shares, index>>

AdapterTypeOK ==
    /\ adapter \in {"AaveV3", "AaveV4", "CompoundV3"}
    /\ vault \in Nat /\ buffered \in 0..MAX_BUFFERED_ASSETS /\ balance \in Nat
    /\ donated \in 0..MaxDonated /\ shares \in Nat /\ index \in RAY..MaxIndex

AdapterInit ==
    /\ adapter \in {"AaveV3", "AaveV4", "CompoundV3"}
    /\ vault = MaxAssets
    /\ buffered = 0 /\ balance = 0 /\ donated = 0 /\ shares = 0
    /\ index = RAY

----------------------------------------------------------------------------
\* The market.

ValueOf(n) == (n * index) \div RAY
SharesBoughtWith(amount) == (amount * RAY) \div index
SharesSoldFor(amount) == (amount * RAY + index - 1) \div index

\* What it may mint for a deposit; Aave reverts rather than mint nothing.
Minted(amount) ==
    {n \in 0..SharesBoughtWith(amount) : n = 0 => adapter = "CompoundV3"}

IndexGrows ==
    /\ index < MaxIndex /\ index' = index + 1
    /\ UNCHANGED <<adapter, vault, buffered, balance, donated, shares>>

\* Anyone may transfer the asset to the adapter.
Donate ==
    /\ donated < MaxDonated /\ donated' = donated + 1
    /\ balance' = balance + 1
    /\ UNCHANGED <<adapter, vault, buffered, shares, index>>

----------------------------------------------------------------------------
\* Reads and checks.

ProtocolTVL == ValueOf(shares)
GetTVL == ProtocolTVL + buffered

\* Mutant of CompleteDeposit: any increase will do.
CompleteDeposit_AnyCredit(tvlBefore, tvlAfter, amount) == tvlAfter >= tvlBefore

\* _revertIfIncompleteDeposit and _revertIfIncompleteWithdraw.
CompleteDeposit(tvlBefore, tvlAfter, amount) ==
    /\ tvlAfter >= tvlBefore
    /\ tvlAfter - tvlBefore + WEI_TOLERANCE >= amount

CompleteWithdraw(expected, actual) ==
    /\ actual # 0
    /\ actual + WEI_TOLERANCE >= expected

\* Mutant of Unrepresentable: off by one at a whole number of RAYs.
Unrepresentable_Strict(amountToSupply) ==
    CASE adapter = "AaveV3" -> amountToSupply < (index - 1) \div RAY
      [] adapter = "AaveV4" -> SharesBoughtWith(amountToSupply) = 0
      [] OTHER -> FALSE

\* The market would give no share for this amount: Aave v3's index and Aave v4's
\* previewAddByAssets say so, the Compound adapter does not ask.
Unrepresentable(amountToSupply) ==
    CASE adapter = "AaveV3" -> amountToSupply <= (index - 1) \div RAY
      [] adapter = "AaveV4" -> SharesBoughtWith(amountToSupply) = 0
      [] OTHER -> FALSE

----------------------------------------------------------------------------
\* deposit.  The vault has transferred the amount to the adapter in the same
\* transaction.

FitsBuffer(amount) == buffered + amount <= MAX_BUFFERED_ASSETS

BufferDeposit(amount) ==
    /\ FitsBuffer(amount)
    /\ buffered' = buffered + amount
    /\ balance' = balance + amount
    /\ UNCHANGED shares

\* The credits that pass the adapter's check.
Credited(amount) ==
    {minted \in Minted(buffered + amount) :
        CompleteDeposit(GetTVL, ValueOf(shares + minted), amount)}

\* Mutant of Supply: the buffer is supplied but stays on the books.
Supply_KeepsBuffer(amount) ==
    \E minted \in Credited(amount) :
        /\ shares' = shares + minted
        /\ balance' = balance - buffered
        /\ UNCHANGED buffered

\* The buffer is supplied along with the deposit.
Supply(amount) ==
    \E minted \in Credited(amount) :
        /\ shares' = shares + minted
        /\ balance' = balance - buffered
        /\ buffered' = 0

\* Aave v4 may refuse with InvalidShares what it previewed as representable.
Deposit(amount) ==
    /\ amount # 0 \/ adapter = "CompoundV3"
    /\ amount <= vault /\ vault' = vault - amount
    /\ IF Unrepresentable(buffered + amount)
       THEN BufferDeposit(amount)
       ELSE Supply(amount) \/ (adapter = "AaveV4" /\ BufferDeposit(amount))
    /\ UNCHANGED <<adapter, donated, index>>

----------------------------------------------------------------------------
\* withdraw: the buffer pays first, then the market, and both must have paid in
\* full up to the tolerance.

Paid(fromBuffer, protocolAmount) ==
    {fromProtocol \in 0..protocolAmount :
        /\ protocolAmount # 0 => CompleteWithdraw(protocolAmount, fromProtocol)
        /\ CompleteWithdraw(fromBuffer + protocolAmount, fromBuffer + fromProtocol)}

TakeOut(fromBuffer, protocolAmount, sold) ==
    \E fromProtocol \in Paid(fromBuffer, protocolAmount) :
        /\ shares' = shares - sold
        /\ buffered' = buffered - fromBuffer
        /\ balance' = balance - fromBuffer
        /\ vault' = vault + fromBuffer + fromProtocol
        /\ UNCHANGED <<adapter, donated, index>>

\* An epoch withdrawal of a given amount ...
Withdraw(amount) ==
    LET fromBuffer == Min({amount, buffered})
    IN  /\ amount <= GetTVL
        /\ TakeOut(fromBuffer, amount - fromBuffer, SharesSoldFor(amount - fromBuffer))

\* ... and a rebalance withdrawal of everything, type(uint256).max.
WithdrawAll == TakeOut(buffered, ProtocolTVL, shares)

----------------------------------------------------------------------------
AdapterNext ==
    \/ \E amount \in 0..MaxAssets : Deposit(amount)
    \/ \E amount \in 0..MaxAssets : Withdraw(amount)
    \/ WithdrawAll
    \/ IndexGrows
    \/ Donate

AdapterSpec == AdapterInit /\ [][AdapterNext]_adapterVars

----------------------------------------------------------------------------
\* The buffer on the books is the asset in hand: whatever sequence of buffered,
\* supplied and refused deposits and of withdrawals went before, the adapter
\* holds exactly s_bufferedAssets besides what strangers sent it.
BufferBacked == balance = buffered + donated

\* Rounding alone never refuses the vault: while the index has not outgrown the
\* buffer, what an honest market credits for a nonzero deposit, and what it pays for
\* any part of the value or all of it, passes the adapter's checks.  One deposit is
\* excepted: where Aave v4 refused shares it had previewed, the buffer may be worth a
\* share or more, and a deposit of less than a share can then lower the value.
RoundingNeverRefuses ==
    index <= (MAX_BUFFERED_ASSETS + 1) * RAY =>
        /\ \A amount \in 1..vault :
             \/ adapter = "AaveV4" /\ buffered * RAY >= index /\ amount * RAY < index
             \/ IF Unrepresentable(buffered + amount)
                THEN FitsBuffer(amount)
                ELSE SharesBoughtWith(buffered + amount) \in Credited(amount)
        /\ \A amount \in 1..GetTVL :
             LET fromBuffer == Min({amount, buffered})
             IN  amount - fromBuffer \in Paid(fromBuffer, amount - fromBuffer)
        /\ GetTVL # 0 => ProtocolTVL \in Paid(buffered, ProtocolTVL)

\* No call costs the vault more than the tolerance and one share's rounding,
\* whatever the market credits or pays.
CallsLoseOnlyDust ==
    [][vault' + GetTVL' + WEI_TOLERANCE + (index + RAY - 1) \div RAY
         >= vault + GetTVL]_adapterVars
==============================================================================
