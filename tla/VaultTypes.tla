----------------------------- MODULE VaultTypes -----------------------------
(* The values the vaults, the CCIP messages, the event logs and the CRE        *)
(* reports are made of (evm/src/libraries/Types.sol).                          *)
EXTENDS Naturals

CONSTANTS
    ParentChain,        \* chain selector of the ParentVault
    ChildChains,        \* chain selectors of the ChildVaults
    Protocols,          \* protocol ids with a registered adapter on every chain
    NoChain,            \* the zero chain selector
    NoProtocol          \* the zero protocol id, also the zero adapter address

Chains == {ParentChain} \union ChildChains

ASSUME ChainAssumption ==
    /\ ParentChain \notin ChildChains
    /\ NoChain \notin Chains
    /\ NoProtocol \notin Protocols

\* Types.Strategy.  A strategy also names the one adapter that implements it.
Strategies == [protocolId : Protocols, chainSelector : Chains]
NoStrategy == [protocolId |-> NoProtocol, chainSelector |-> NoChain]
Strategy(p, c) == [protocolId |-> p, chainSelector |-> c]

\* A strategy-shaped field that may be (partly) zero.
Targets == [protocolId : Protocols \union {NoProtocol},
            chainSelector : Chains \union {NoChain}]

CcipTx == {"EPOCH_NET_DEPOSIT", "EPOCH_NET_WITHDRAW", "REBALANCE"}

RecoveryMode == {"NONE", "REBALANCE_DEPOSIT", "REBALANCE_WITHDRAW",
                 "EPOCH_DEPOSIT", "EPOCH_WITHDRAW", "CCIP_SEND"}

RebalanceState == {"NONE", "REBALANCING"}

\* The previous epoch of a fresh deployment is the never-written epoch 0.
EpochStatus == {"NONE", "OPEN", "EXECUTING", "CLAIMABLE"}

\* The recovery mode of a vault with the payload of that mode: the code keeps one
\* struct per mode, at most one of them nonzero, and deletes it when the mode is
\* cleared.  target is the destination of REBALANCE_WITHDRAW and of CCIP_SEND,
\* ccipTx the transaction type of CCIP_SEND.
Recoveries ==
    {r \in [mode : RecoveryMode, nonce : Nat, amount : Nat,
            target : Targets, ccipTx : CcipTx \union {"NONE"}] :
        r.mode = "CCIP_SEND" => r.ccipTx \in CcipTx}

NoRecovery == [mode |-> "NONE", nonce |-> 0, amount |-> 0,
               target |-> NoStrategy, ccipTx |-> "NONE"]

\* A CCIP message with the tokens it carries.
Messages == [ccipTx : CcipTx, source : Chains, destination : Chains, nonce : Nat,
             protocolId : Protocols \union {NoProtocol}, amount : Nat]

\* The event logs the CRE workflow subscribes to, with the emitting chain.
LogEvents == {"RebalanceInitiated", "EpochWithdrawExecuting",
              "RebalanceDepositSuccess", "EpochDepositToStrategySuccess"}
Logs == [event : LogEvents, source : Chains, nonce : Nat, amount : Nat,
         strategy : Targets]

\* Signed CRE reports: the call the WorkflowRouter of chain `target` forwards.
ReportCalls == {"closeEpoch", "completeEpochDeposit", "initiateRebalance",
                "completeRebalance", "executeEpochWithdraw", "executeRebalance"}
Reports == [call : ReportCalls, target : Chains, nonce : Nat, amount : Nat,
            strategy : Targets]
=============================================================================
