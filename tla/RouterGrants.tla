---------------------------- MODULE RouterGrants ----------------------------
(* What a WorkflowRouter promises to its vault, without generations, reports   *)
(* or clocks: a call reaches the vault only for a workflow that is registered  *)
(* and was granted that selector after it was last registered.                 *)
EXTENDS Naturals

CONSTANTS
    Workflows,      \* workflow ids
    Metas,          \* (name, owner) pairs a workflow may be registered with
    NoMeta,         \* the zero pair of an unregistered workflow
    Selectors       \* the vault functions reports may call

VARIABLES
    routerPaused,   \* the router's pause switch
    metadata,       \* the registered pair of each workflow
    granted,        \* the selectors each workflow may use
    nonce           \* per selector, one more than the calls the vault has taken

vars == <<routerPaused, metadata, granted, nonce>>

Init ==
    /\ routerPaused = FALSE
    /\ metadata = [w \in Workflows |-> NoMeta]
    /\ granted = [w \in Workflows |-> {}]
    /\ nonce = [s \in Selectors |-> 1]

\* A new registration, a changed one and a removal all start with no grant.
Register(w, m) ==
    /\ m # metadata[w]
    /\ metadata' = [metadata EXCEPT ![w] = m]
    /\ granted' = [granted EXCEPT ![w] = {}]
    /\ UNCHANGED <<routerPaused, nonce>>

ChangeGrants(w, G) ==
    /\ metadata[w] # NoMeta
    /\ granted' = [granted EXCEPT ![w] = G]
    /\ UNCHANGED <<routerPaused, metadata, nonce>>

Switch == routerPaused' = ~routerPaused /\ UNCHANGED <<metadata, granted, nonce>>

CallVault(w, s) ==
    /\ ~routerPaused
    /\ metadata[w] # NoMeta
    /\ s \in granted[w]
    /\ nonce' = [nonce EXCEPT ![s] = @ + 1]
    /\ UNCHANGED <<routerPaused, metadata, granted>>

Next ==
    \/ \E w \in Workflows, m \in Metas \union {NoMeta} : Register(w, m)
    \/ \E w \in Workflows, G \in SUBSET Selectors : ChangeGrants(w, G)
    \/ Switch
    \/ \E w \in Workflows, s \in Selectors : CallVault(w, s)

Spec == Init /\ [][Next]_vars
=============================================================================
