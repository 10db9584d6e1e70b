--------------------------- MODULE MCWorkflowConfig ---------------------------
(* Small configurations. *)
EXTENDS WorkflowConfig

\* Texts: a canonical value and a spelling; the configuration spells with 0.
Text(n) == [canonical |-> n, form |-> 0]
Spelt(n) == [canonical |-> n, form |-> 1]

\* The empty text.
MCNoName == Text(0)

MCProjects == {Text(1), Text(2)}

Vault(parent, selector, name) ==
    [isParent |-> parent, chainSelector |-> selector, addressesValid |-> TRUE,
     gasLimit |-> 1, defiLlamaChainName |-> name]

Config(evms, poolIds) ==
    [evms |-> evms, assetDecimals |-> 6, scheduled |-> TRUE,
     defiLlama |-> [poolIds |-> poolIds, projects |-> <<Text(1), Text(2)>>,
                    symbols |-> <<Text(1)>>]]

\* A parent with one and with two children.
MCDeployments ==
    {Config(<<Vault(TRUE, 1, Text(1)), Vault(FALSE, 2, Text(2))>>, <<Text(1)>>),
     Config(<<Vault(TRUE, 1, Text(1)), Vault(FALSE, 2, Text(2)),
              Vault(FALSE, 3, Text(3))>>, <<Text(1)>>)}
===============================================================================
