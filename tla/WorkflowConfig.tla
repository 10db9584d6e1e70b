---------------------------- MODULE WorkflowConfig ----------------------------
(* The workflow's configuration (cre/workflow/internal/helper/config.go) and what *)
(* InitWorkflow registers from it (cre/workflow/workflow.go).                     *)
(*                                                                                *)
(* A text of the configuration or of a pool is its canonical value with the form  *)
(* it is spelt in: trimming and lower-casing keep the first and drop the second.  *)
EXTENDS Naturals, Sequences, FiniteSets, Functions

CONSTANTS
    Candidates,         \* the configurations an operator may try to deploy
    NoConfig,           \* no workflow deployed
    NoName,             \* the empty text
    SupportedProjects,  \* the texts of the projects with a protocol id
    MaxGasLimit,        \* 5,000,000
    MaxTriggers,        \* the triggers CRE permits a workflow, 10
    MaxDecimals         \* 77: 10^77 still fits 256 bits

VARIABLE config         \* the deployed configuration

canonicalDefiLlamaValue(text) == text.canonical

ParentOf(evms) == {e \in Range(evms) : e.isParent}
Named(evms) == {e \in Range(evms) : e.defiLlamaChainName # NoName}

validateUniqueNonEmptyStrings(values) ==
    /\ values # <<>>
    /\ \A i \in DOMAIN values :
         canonicalDefiLlamaValue(values[i]) # canonicalDefiLlamaValue(NoName)
    /\ IsInjective([i \in DOMAIN values |-> canonicalDefiLlamaValue(values[i])])

validateDefiLlamaConfig(defiLlama) ==
    /\ validateUniqueNonEmptyStrings(defiLlama.poolIds)
    /\ validateUniqueNonEmptyStrings(defiLlama.projects)
    /\ Range(defiLlama.projects) \subseteq SupportedProjects
    /\ validateUniqueNonEmptyStrings(defiLlama.symbols)

\* Each vault has one combined log subscription, plus the two cron triggers.
TriggerCount(chains) == chains + 2

ValidVault(e) ==
    /\ e.chainSelector # 0
    /\ e.addressesValid
    /\ e.gasLimit \in 1..MaxGasLimit

\* Mutant of ValidateConfig: two vaults may have the same DefiLlama chain name.
ValidateConfig_SharedNames(cfg) ==
    /\ cfg.evms # <<>>
    /\ validateDefiLlamaConfig(cfg.defiLlama)
    /\ \A i \in DOMAIN cfg.evms : ValidVault(cfg.evms[i])
    /\ IsInjective([i \in DOMAIN cfg.evms |-> cfg.evms[i].chainSelector])
    /\ Cardinality(ParentOf(cfg.evms)) = 1
    /\ TriggerCount(Len(cfg.evms)) <= MaxTriggers
    /\ cfg.assetDecimals <= MaxDecimals
    /\ cfg.scheduled

\* scheduled: the block number and both schedules are given.
ValidateConfig(cfg) ==
    /\ cfg.evms # <<>>
    /\ validateDefiLlamaConfig(cfg.defiLlama)
    /\ \A i \in DOMAIN cfg.evms : ValidVault(cfg.evms[i])
    /\ IsInjective([i \in DOMAIN cfg.evms |-> cfg.evms[i].chainSelector])
    /\ IsInjective([e \in Named(cfg.evms) |->
                        canonicalDefiLlamaValue(e.defiLlamaChainName)])
    /\ Cardinality(ParentOf(cfg.evms)) = 1
    /\ TriggerCount(Len(cfg.evms)) <= MaxTriggers
    /\ cfg.assetDecimals <= MaxDecimals
    /\ cfg.scheduled

FindParent(evms) == CHOOSE e \in ParentOf(evms) : TRUE

\* The handlers of a configuration, each with the events that reach it.
Handlers(cfg) ==
    {[chain |-> 0, events |-> {c}] : c \in {"epochSchedule", "rebalanceSchedule"}}
    \union
    {[chain |-> e.chainSelector,
      events |-> IF e.isParent
                 THEN {"RebalanceInitiated", "EpochWithdrawExecuting"}
                 ELSE {"RebalanceDepositSuccess", "EpochDepositToStrategySuccess"}] :
        e \in Range(cfg.evms)}

ConfigInit == config = NoConfig

\* A configuration that does not validate registers nothing.
InitWorkflow(cfg) ==
    /\ config = NoConfig
    /\ ValidateConfig(cfg)
    /\ config' = cfg

----------------------------------------------------------------------------
\* Deployment alone.
ConfigNext == \E cfg \in Candidates : InitWorkflow(cfg)
ConfigSpec == ConfigInit /\ [][ConfigNext]_config

\* What docs/protocol/WORKFLOW.md says of the registration: "Separate
\* RebalanceDepositSuccess and EpochDepositToStrategySuccess handlers are
\* registered for every configured child chain".
SeparateHandlersPerChild ==
    config # NoConfig =>
        \A e \in Range(config.evms) \ ParentOf(config.evms) :
            Cardinality({h \in Handlers(config) : h.chain = e.chainSelector}) = 2
===============================================================================
