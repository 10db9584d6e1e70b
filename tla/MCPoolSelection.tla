---------------------------- MODULE MCPoolSelection ----------------------------
(* Two vaults and two pools. *)
EXTENDS PoolSelection, MCWorkflowConfig

\* A child first; a pool of the relay not approved; a child without a DefiLlama
\* name; and four that do not validate: two vaults under one name, two parents, an
\* empty pool id, the same pool id twice.
MCCandidates ==
    {Config(<<Vault(FALSE, 2, Text(2)), Vault(TRUE, 1, Text(1))>>, <<Text(1), Text(2)>>),
     Config(<<Vault(TRUE, 1, Text(1)), Vault(FALSE, 2, Text(2))>>, <<Text(1)>>),
     Config(<<Vault(TRUE, 1, Text(1)), Vault(FALSE, 2, MCNoName)>>, <<Text(1), Text(2)>>),
     Config(<<Vault(TRUE, 1, Text(1)), Vault(FALSE, 2, Spelt(1))>>,
            <<Text(1), Text(2)>>),
     Config(<<Vault(TRUE, 1, Text(1)), Vault(TRUE, 2, Text(2))>>, <<Text(1)>>),
     Config(<<Vault(TRUE, 1, Text(1)), Vault(FALSE, 2, Text(2))>>, <<Text(1), MCNoName>>),
     Config(<<Vault(TRUE, 1, Text(1)), Vault(FALSE, 2, Text(2))>>, <<Text(1), Spelt(1)>>)}

Entry(pool, chain, project) ==
    [pool |-> pool, chain |-> chain, project |-> project, symbol |-> Text(1), apy |-> 0]

\* Two deployments of the relay, one with the second pool on the parent's chain;
\* it spells one chain and one project in its own way.
MCCatalogues ==
    {<<Entry(Text(2), Spelt(2), Text(2)), Entry(Text(1), Text(1), Spelt(1))>>,
     <<Entry(Text(1), Text(1), Text(1)), Entry(Text(2), Spelt(1), Text(2))>>}

MCInitialStrategy == StrategyOf(Text(1), 1)
================================================================================
