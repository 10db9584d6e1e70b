----------------------------- MODULE RelayService -----------------------------
(* The relay that serves pool rates to the workflow (services/relay/src/lib.rs): *)
(* a schedule fetches every pool of its catalogue and publishes the result under *)
(* one key of an eventually consistent store; reads serve what is stored.        *)
EXTENDS Naturals, Sequences

CONSTANTS
    Catalogues, \* the pool tables of the deployments of the relay, as sequences
    Rates,      \* the base rates the sources may answer with
    NoFetch,    \* no refresh under way
    MaxTime     \* bound: the last time

VARIABLES
    now,        \* time
    fetchStart, \* when the refresh under way began, or NoFetch
    latest,     \* the snapshot put last, or NoSnapshot
    lagging     \* the snapshot before it, where the last has not arrived yet

relayVars == <<fetchStart, latest, lagging>>

NoSnapshot == [refreshedAt |-> 0, data |-> <<>>]

\* What a reader of the store may get.
Visible == {latest} \union lagging

RelayInit ==
    /\ now = 0
    /\ fetchStart = NoFetch
    /\ latest = NoSnapshot
    /\ lagging = {}

RefreshStarts ==
    /\ fetchStart = NoFetch
    /\ fetchStart' = now
    /\ UNCHANGED <<now, latest, lagging>>

\* relay_pool: the table's entry with the rate attached.
RelayPool(entry, rate) == [entry EXCEPT !.apy = rate]

\* Every pool answers, and the new snapshot replaces the stored one.  It bears the
\* time the fetch began, not the time it is published.
RefreshEnds ==
    /\ fetchStart # NoFetch
    /\ \E cat \in Catalogues : \E rate \in [DOMAIN cat -> Rates] :
         latest' = [refreshedAt |-> fetchStart,
                    data |-> [i \in DOMAIN cat |-> RelayPool(cat[i], rate[i])]]
    /\ lagging' = {latest} \ {NoSnapshot}
    /\ fetchStart' = NoFetch
    /\ UNCHANGED now

\* One failed request, one invalid rate or the time limit fails the whole refresh
\* and leaves the store as it was.
RefreshFails ==
    /\ fetchStart # NoFetch
    /\ fetchStart' = NoFetch
    /\ UNCHANGED <<now, latest, lagging>>

\* The new snapshot has reached every place the store is read from.
StoreConverges ==
    /\ lagging # {}
    /\ lagging' = {}
    /\ UNCHANGED <<now, fetchStart, latest>>

\* A refresh has thirty seconds: less than one unit of time.
Tick ==
    /\ now < MaxTime
    /\ fetchStart # NoFetch => fetchStart = now
    /\ now' = now + 1
    /\ UNCHANGED relayVars
===============================================================================
