---------------------------- MODULE PoolSelection ----------------------------
(* How the rebalance cron chooses a strategy: the relay's snapshot, read by each  *)
(* node of the DON (cre/workflow/internal/offchain/defillama.go), the policy that *)
(* compares pools (internal/rebalance/policy.go, handlers.go) and the report that *)
(* carries the choice to initiateRebalance within the router's window.            *)
(*                                                                                *)
(* Rates are in steps of half a point.  An entry of a snapshot has its texts and  *)
(* its rate; texts are ordered by their canonical value.                          *)
EXTENDS WorkflowConfig, RelayService

CONSTANTS
    DifferentialThreshold,  \* 1.0 percentage point
    MinPoolApy, MaxPoolApy, \* the accepted rates
    NoApy,                  \* apyBase absent or null
    MaxSnapshotAge,         \* defiLlamaMaxSnapshotAgeSeconds
    MaxReportAge,           \* the router's window
    MinRebalancePeriod,     \* minRebalanceIntervalSeconds, MIN_REBALANCE_PERIOD
    InitialStrategy,        \* the strategy at the start
    MaxChoices,             \* bound: choices outstanding at once
    MaxNonce                \* bound: the last rebalance

Texts == [canonical : Nat, form : Nat]

ASSUME CatalogueAssumption ==
    Catalogues \subseteq
        Seq([pool : Texts, chain : Texts, project : Texts, symbol : Texts, apy : Nat])

ASSUME PolicyAssumption ==
    /\ DifferentialThreshold \in Nat /\ MinPoolApy \in Nat /\ MaxPoolApy \in Nat
    /\ MaxSnapshotAge \in Nat /\ MaxReportAge \in Nat /\ MinRebalancePeriod \in Nat

\* 15 minutes and one hour in the code.
ASSUME CooldownAssumption == MaxSnapshotAge < MinRebalancePeriod

VARIABLES
    active,         \* the active strategy of the ParentVault
    lastCompleted,  \* when the last rebalance completed
    nonce,          \* the rebalance nonce
    moving,         \* the choice the ParentVault is rebalancing to, or NoChoice
    choices,        \* signed initiateRebalance reports
    basis           \* history: when the snapshots of the last move were refreshed

vaultVars == <<active, lastCompleted, nonce, moving>>
vars == <<config, now, relayVars, vaultVars, choices, basis>>

NoChoice == [nonce |-> 0]
NoPool == [has |-> FALSE]

----------------------------------------------------------------------------
\* What one node makes of one response body (parsePools).

\* The configured spelling of an approved text; a map lookup by canonical value.
Approved(values, text) ==
    {v \in values : canonicalDefiLlamaValue(v) = canonicalDefiLlamaValue(text)}

PoolIds == Range(config.defiLlama.poolIds)
ChainNames == {e.defiLlamaChainName : e \in Named(config.evms)}
Projects == Range(config.defiLlama.projects)
Symbols == Range(config.defiLlama.symbols)

ValidPoolAPY(apy) == apy # NoApy /\ apy \in MinPoolApy..MaxPoolApy

IsCandidate(p) ==
    /\ ValidPoolAPY(p.apy)
    /\ Approved(PoolIds, p.pool) # {}
    /\ Approved(ChainNames, p.chain) # {}
    /\ Approved(Projects, p.project) # {}
    /\ Approved(Symbols, p.symbol) # {}

Spelling(values, text) == CHOOSE v \in Approved(values, text) : TRUE

Canonical(p) ==
    [pool |-> Spelling(PoolIds, p.pool),
     chain |-> Spelling(ChainNames, p.chain),
     project |-> Spelling(Projects, p.project),
     symbol |-> Spelling(Symbols, p.symbol),
     apy |-> p.apy]

\* The candidates, each at its place in the response.
Candidate(data) ==
    [i \in {j \in DOMAIN data : IsCandidate(data[j])} |-> Canonical(data[i])]

\* The order of sortPools: rate descending, then the texts.
\* Mutant of Precedes: the rate alone.
Precedes_ByRate(p, q) == p.apy > q.apy

SortKey(p) ==
    <<MaxPoolApy - p.apy, p.chain.canonical, p.project.canonical,
      p.symbol.canonical, p.pool.canonical>>

Precedes(p, q) ==
    \E k \in 1..5 : /\ SortKey(p)[k] < SortKey(q)[k]
                    /\ \A j \in 1..(k - 1) : SortKey(p)[j] = SortKey(q)[j]

\* The head after the stable sort, or no pool.
IsFirst(list, i) ==
    \A j \in DOMAIN list : /\ ~Precedes(list[j], list[i])
                           /\ j < i => Precedes(list[i], list[j])

FirstOf(list) ==
    IF DOMAIN list = {} THEN NoPool
    ELSE [has |-> TRUE, pool |-> list[CHOOSE i \in DOMAIN list : IsFirst(list, i)]]

\* PoolToProtocolId hashes the exact text, so the text stands for the protocol id.
StrategyOf(protocol, selector) == <<protocol, selector>>

\* chainSelectorToName is a Go map: where a name had two selectors either could
\* come first.
PoolToChainSelector(chain) ==
    {e.chainSelector : e \in {f \in Named(config.evms) :
        canonicalDefiLlamaValue(f.defiLlamaChainName) = canonicalDefiLlamaValue(chain)}}

IsCurrent(p) ==
    \E e \in Named(config.evms) :
        /\ e.chainSelector = active[2]
        /\ p.chain = e.defiLlamaChainName
        /\ p.project = active[1]

\* fetchResult: the best candidate and the best one of the active strategy.
parsePools(data) ==
    LET candidates == Candidate(data)
        ofActive == {i \in DOMAIN candidates : IsCurrent(candidates[i])}
    IN  [best |-> FirstOf(candidates),
         current |-> FirstOf(Restrict(candidates, ofActive))]

\* Mutant of validateSnapshotFreshness: no age limit.
validateSnapshotFreshness_AnyAge(snapshot) == snapshot.refreshedAt <= now

validateSnapshotFreshness(snapshot) ==
    /\ snapshot.refreshedAt <= now
    /\ now - snapshot.refreshedAt <= MaxSnapshotAge

----------------------------------------------------------------------------
\* The cron.

NeedRebalance(optimal, current) ==
    /\ optimal.has /\ current.has
    /\ optimal.pool.apy >= current.pool.apy + DifferentialThreshold

\* Every node reads the store by itself, and the DON goes on only if enough of them
\* bring the same result: `seen` are the snapshots those nodes read.
FetchAndSelectPools ==
    {[seen |-> seen, result |-> parsePools((CHOOSE s \in seen : TRUE).data)] :
        seen \in {S \in SUBSET (Visible \ {NoSnapshot}) :
            /\ S # {}
            /\ \A s \in S : validateSnapshotFreshness(s)
            /\ \A s, t \in S : parsePools(s.data) = parsePools(t.data)}}

\* The report bears the time the handler began.
RebalanceCron ==
    /\ config # NoConfig
    /\ nonce <= MaxNonce /\ Cardinality(choices) < MaxChoices
    /\ moving = NoChoice
    /\ now >= lastCompleted + MinRebalancePeriod
    /\ \E fetched \in FetchAndSelectPools :
         LET bestPool == fetched.result.best
         IN  /\ NeedRebalance(bestPool, fetched.result.current)
             /\ \E selector \in PoolToChainSelector(bestPool.pool.chain) :
                  LET best == StrategyOf(bestPool.pool.project, selector)
                  IN  /\ best # active
                      /\ choices' = choices \union
                           {[nonce |-> nonce, strategy |-> best, observedAt |-> now,
                             seen |-> fetched.seen]}
    /\ UNCHANGED <<config, now, relayVars, vaultVars, basis>>

----------------------------------------------------------------------------
\* The ParentVault behind its router.

InitiateRebalance(c) ==
    /\ now - c.observedAt <= MaxReportAge
    /\ moving = NoChoice
    /\ c.nonce = nonce
    /\ c.strategy # active
    /\ now >= lastCompleted + MinRebalancePeriod
    /\ moving' = c
    /\ UNCHANGED <<config, now, relayVars, active, lastCompleted, nonce, choices, basis>>

CompleteRebalance ==
    /\ moving # NoChoice
    /\ active' = moving.strategy
    /\ lastCompleted' = now
    /\ nonce' = nonce + 1
    /\ basis' = {s.refreshedAt : s \in moving.seen}
    /\ moving' = NoChoice
    /\ UNCHANGED <<config, now, relayVars, choices>>

\* Time passes, and a report that is never forwarded expires: no step can use it.
TimePasses ==
    /\ Tick
    /\ choices' = {c \in choices : now' - c.observedAt <= MaxReportAge}
    /\ UNCHANGED <<config, vaultVars, basis>>

----------------------------------------------------------------------------
Init ==
    /\ ConfigInit
    /\ RelayInit
    /\ active = InitialStrategy
    /\ lastCompleted = 0
    /\ nonce = 1
    /\ moving = NoChoice
    /\ choices = {}
    /\ basis = {}

Deploys ==
    /\ \E cfg \in Candidates : InitWorkflow(cfg)
    /\ UNCHANGED <<now, relayVars, vaultVars, choices, basis>>

RelaySteps ==
    /\ \/ RefreshStarts
       \/ RefreshEnds
       \/ RefreshFails
       \/ StoreConverges
    /\ UNCHANGED <<config, vaultVars, choices, basis>>

Next ==
    \/ Deploys
    \/ RelaySteps
    \/ RebalanceCron
    \/ \E c \in choices : InitiateRebalance(c)
    \/ CompleteRebalance
    \/ TimePasses

Spec == Init /\ [][Next]_vars

----------------------------------------------------------------------------
\* The node's answer does not depend on the order in which the relay lists its
\* pools, ties included: nodes that read snapshots with the same
\* entries, from different deployments of the relay, agree (identical consensus).
SelectionIgnoresOrder ==
    config # NoConfig =>
        \A f \in Bijection(DOMAIN latest.data, DOMAIN latest.data) :
            parsePools([i \in DOMAIN latest.data |-> latest.data[f[i]]])
                = parsePools(latest.data)

\* The best rate a snapshot shows for a strategy in pools the configuration
\* approves: the reference the selection is measured against.
RatesOf(s, strategy) ==
    {p.apy : p \in {q \in Range(s.data) :
        /\ IsCandidate(q)
        /\ canonicalDefiLlamaValue(q.project) = canonicalDefiLlamaValue(strategy[1])
        /\ PoolToChainSelector(q.chain) = {strategy[2]}}}

\* A move is started only for a reason that still holds in every snapshot it was
\* decided from: an approved pool of the target beats every approved pool of the
\* active strategy by the threshold and no approved pool beats it, and the rates
\* were fetched no longer ago than the snapshot age and the report window add up to.
MoveJustified ==
    [][moving' # NoChoice /\ moving' # moving =>
        \A s \in moving'.seen :
            /\ now - s.refreshedAt <= MaxSnapshotAge + MaxReportAge
            /\ RatesOf(s, active) # {}
            /\ \E best \in RatesOf(s, moving'.strategy) :
                 /\ \A old \in RatesOf(s, active) : best >= old + DifferentialThreshold
                 /\ \A p \in Range(s.data) : IsCandidate(p) => p.apy <= best]_vars

\* Rates never go back in time: each move is decided from snapshots newer than
\* all those of the move before, so a late report or a node behind the others
\* cannot turn a move round.  It takes the cooldown of the policy and the age limit of
\* the snapshot together.
MovesUseNewerRates ==
    [][basis' # basis => \A old \in basis, new \in basis' : old < new]_vars
==============================================================================
