------------------------------ MODULE VaultMath ------------------------------
(* The share arithmetic of the ParentVault (ParentVaultMathLib, the accounting *)
(* of ParentVaultEpochLib and ParentVaultFeesLib) as pure operators.           *)
EXTENDS Naturals

CONSTANTS
    SharePrecision,     \* SHARE_PRECISION, 1e18 in the code
    AssetPrecision,     \* i_assetPrecision, 1e6 for USDC
    MinAssetAmount      \* i_minAssetAmount, the smallest accepted deposit

ASSUME PrecisionAssumption ==
    /\ SharePrecision \in Nat \ {0}
    /\ AssetPrecision \in Nat \ {0}
    /\ MinAssetAmount \in Nat \ {0}

\* Full-precision x * y / d, rounded down; d # 0 at every use.
MulDivDown(x, y, d) == (x * y) \div d

\* ... and rounded up.
MulDivUp(x, y, d) == (x * y + d - 1) \div d

\* Assets owed to `burn` shares when `totalShares` shares are worth `tvl`.
TotalWithdraw(burn, tvl, totalShares) ==
    IF totalShares = 0 THEN 0 ELSE MulDivDown(burn, tvl, totalShares)

\* Mutant of NewShares: rounded up.
NewShares_Up(deposit, tvl, totalShares) ==
    IF totalShares = 0 THEN MulDivUp(deposit, SharePrecision, AssetPrecision)
                       ELSE MulDivUp(deposit, totalShares, tvl)

\* Shares allocated to `deposit` assets: pro rata, or by the precisions when no
\* share is outstanding (then the reported tvl is ignored).
NewShares(deposit, tvl, totalShares) ==
    IF totalShares = 0 THEN MulDivDown(deposit, SharePrecision, AssetPrecision)
                       ELSE MulDivDown(deposit, totalShares, tvl)

\* Mutant of SettlementAllowed: only an allocation of no share at all is refused.
SettlementAllowed_AnyShare(deposit, burn, tvl, totalShares, isLocalStrategy) ==
    /\ deposit # 0 \/ burn # 0
    /\ totalShares # 0 =>
         tvl # 0 /\ MulDivDown(tvl, SharePrecision, totalShares) # 0
    /\ totalShares = 0 => burn = 0
    /\ deposit # 0 => NewShares(deposit, tvl, totalShares) # 0

\* The settlement checks of closeEpoch on the aggregate deposit and burn.
SettlementAllowed(deposit, burn, tvl, totalShares, isLocalStrategy) ==
    /\ deposit # 0 \/ burn # 0
    /\ totalShares # 0 =>
         /\ tvl # 0
         /\ MulDivDown(tvl, SharePrecision, totalShares) # 0
    /\ totalShares = 0 => burn = 0
    /\ deposit # 0 =>
         NewShares(deposit, tvl, totalShares) * MinAssetAmount >= deposit
    /\ LET totalWithdraw == TotalWithdraw(burn, tvl, totalShares)
       IN  (~isLocalStrategy /\ totalWithdraw > deposit)
             => totalWithdraw - deposit >= MinAssetAmount

\* Management fee: 100 basis points a year of the shares, on the time since the
\* last rebalance (here in days), capped at a year and rounded up.
ManagementFeeBps == 100
BpsDenominator == 10000
DaysPerYear == 365

FeeShares(totalShares, elapsed) ==
    LET capped == IF elapsed > DaysPerYear THEN DaysPerYear ELSE elapsed
    IN  MulDivUp(totalShares, ManagementFeeBps * capped, BpsDenominator * DaysPerYear)

\* Mutants of ProRata: the last claimant leaves a unit behind; rounded up.
ProRata_NoRemainder(claim, pool, claims) ==
    IF claim = claims /\ pool > 0 THEN MulDivDown(claim, pool - 1, claims)
    ELSE MulDivDown(claim, pool, claims)
ProRata_Up(claim, pool, claims) == MulDivUp(claim, pool, claims)

\* The share of one claimant in a pool of claims: everything for the last one.
ProRata(claim, pool, claims) ==
    IF claim = claims THEN pool ELSE MulDivDown(claim, pool, claims)

\* Shares left to mint when `shortfall` of the epoch's deposits did not arrive.
AdjustedShares(mint, deposit, shortfall) ==
    MulDivDown(mint, deposit - shortfall, deposit)
==============================================================================
