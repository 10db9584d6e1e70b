----------------------------- MODULE FundLedger -----------------------------
(* What the deployment promises its share holders, whichever chains, lanes,    *)
(* reports and recoveries it takes: one fund, at one strategy, that does one   *)
(* thing at a time.  It settles an epoch or moves to another strategy; between *)
(* operations every asset is at the strategy, a settlement changes the fund by *)
(* its net amount only, and a move leaves it whole.                            *)
EXTENDS Naturals

CONSTANTS Strategies, NoStrategy

VARIABLES
    stage,      \* "undeployed", "idle", "settling" or "moving"
    location,   \* the strategy the fund is at
    target,     \* the strategy it moves to
    epoch,      \* the epoch deposits and withdrawals are queued for
    assets,     \* the fund, wherever it is
    owed,       \* the part of it an executing settlement will pay out
    placed      \* the part of it that is at `location`

ledgerVars == <<stage, location, target, epoch, assets, owed, placed>>

LedgerInit ==
    /\ stage = "undeployed"
    /\ location = NoStrategy /\ target = NoStrategy
    /\ epoch = 1
    /\ assets = 0 /\ owed = 0 /\ placed = 0

Deploy(s) ==
    /\ stage = "undeployed" /\ stage' = "idle"
    /\ location' = s
    /\ UNCHANGED <<target, epoch, assets, owed, placed>>

\* A settlement in one step: the net amount joins or leaves the fund in place.
SettleAtOnce ==
    /\ stage = "idle"
    /\ epoch' = epoch + 1
    /\ assets' \in Nat /\ placed' = assets'
    /\ UNCHANGED <<stage, location, target, owed>>

\* A settlement begins with a net deposit on its way to the strategy, or with a
\* net withdrawal owed by it ...
BeginSettling ==
    /\ stage = "idle" /\ stage' = "settling"
    /\ epoch' = epoch + 1
    /\ \/ assets' > assets /\ owed' = 0
       \/ assets' = assets /\ owed' > 0 /\ owed' <= assets
    /\ UNCHANGED <<location, target, placed>>

\* ... and ends once the strategy holds the fund without what was owed.
EndSettling ==
    /\ stage = "settling" /\ stage' = "idle"
    /\ placed = assets - owed
    /\ assets' = assets - owed /\ owed' = 0
    /\ UNCHANGED <<location, target, epoch, placed>>

\* A move between two strategies of the parent's chain.
MoveAtOnce(s) ==
    /\ stage = "idle"
    /\ location' = s /\ s # location
    /\ UNCHANGED <<stage, target, epoch, assets, owed, placed>>

\* A move across chains, or driven from another chain: the fund leaves its old
\* strategy whole, at once or later, and is counted at the new one on arrival.
BeginMoving(s) ==
    /\ stage = "idle" /\ stage' = "moving"
    /\ target' = s /\ s # location
    /\ placed' \in {placed, 0}
    /\ UNCHANGED <<location, epoch, assets, owed>>

EndMoving ==
    /\ stage = "moving" /\ stage' = "idle"
    /\ placed = 0 /\ placed' = assets
    /\ location' = target /\ target' = NoStrategy
    /\ UNCHANGED <<epoch, assets, owed>>

\* The one internal step: the net amount reaches or leaves the strategy, or the
\* whole fund leaves it.
FundsMove ==
    /\ \/ stage = "settling" /\ placed' = assets - owed
       \/ stage = "moving" /\ placed' = 0
    /\ UNCHANGED <<stage, location, target, epoch, assets, owed>>

LedgerNext ==
    \/ \E s \in Strategies : Deploy(s) \/ MoveAtOnce(s) \/ BeginMoving(s)
    \/ SettleAtOnce \/ BeginSettling \/ EndSettling
    \/ EndMoving
    \/ FundsMove

LedgerSpec == LedgerInit /\ [][LedgerNext]_ledgerVars
==============================================================================
