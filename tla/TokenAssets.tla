------------------------------ MODULE TokenAssets ------------------------------
(***************************************************************************)
(* Which asset a token address stands for.  ETH has two addresses on L1,   *)
(* the base token of the chain one on L2, whatever it is on L1, and every  *)
(* other token the address that the bridge gives it.  Transfers,           *)
(* withdrawals, balances, the translations between L1 and L2 and the       *)
(* estimation of a deposit each resolve the address in code of their own,  *)
(* from two answers the ZkSync module caches.  An action is the code       *)
(* between two RPC answers.                                                *)
(***************************************************************************)
EXTENDS Integers

CONSTANTS
    None,           \* Python's None
    Calls,
    Tokens,         \* the L1 tokens other than ETH
    MaxBalance      \* bound: what the account is given of an asset on L2

Assets == Tokens \cup {"ETH"}

ASSUME TokenAssetsAssumption ==
    /\ Tokens \cap {"zero", "base", "BASE"} = {}
    /\ None \notin Assets \cup {"L1", "L2"} \X (Assets \cup {"zero", "base", "BASE"})
    /\ MaxBalance \in Nat

-----------------------------------------------------------------------------
(***************************************************************************)
(* Addresses.                                                              *)
(***************************************************************************)

L1(a) == <<"L1", a>>
L2(a) == <<"L2", a>>

LEGACY_ETH_ADDRESS == L1("zero")
ETH_ADDRESS_IN_CONTRACTS == L1("ETH")
L2_BASE_TOKEN_ADDRESS == L2("base")

\* The base token's address is the only constant with a letter: Web3 spells it in
\* another case.
ChecksumBase == L2("BASE")
Lower(address) == IF address = ChecksumBase THEN L2_BASE_TOKEN_ADDRESS ELSE address

EthAddresses == {LEGACY_ETH_ADDRESS, ETH_ADDRESS_IN_CONTRACTS}
IsEth(address) == Lower(address) \in EthAddresses \cup {L2_BASE_TOKEN_ADDRESS}

L1Names == {LEGACY_ETH_ADDRESS} \cup {L1(a) : a \in Assets}
L2Names == {L2_BASE_TOKEN_ADDRESS, ChecksumBase} \cup {L2(a) : a \in Assets}

\* What the program may ask for: senders and balances take L2 addresses and ETH's on
\* L1, or nothing, and the rest tokens of one side.
NamesOf(op) ==
    IF op \in {"transfer", "withdraw", "balance"} THEN L2Names \cup EthAddresses \cup {None}
    ELSE IF op = "l1Address" THEN L2Names \cup {LEGACY_ETH_ADDRESS}
    ELSE L1Names

VARIABLES
    base,               \* the asset that is the chain's base token
    base_token,         \* the module's cache of its L1 address
    bridge_addresses,   \* does the module's cache hold the bridges?
    deployed,           \* the tokens with a contract on L2
    balance,            \* the account's balances on L2
    calls,              \* the local state of each call
    seen                \* the balances of the asset named since the call began (history)

vars == <<base, base_token, bridge_addresses, deployed, balance, calls, seen>>

Ops == {"transfer", "withdraw", "balance", "l1Address", "l2Address", "estimate"}
CallAt(c, place) == calls[c].pc = place

-----------------------------------------------------------------------------
(***************************************************************************)
(* What L1 and L2 do.                                                      *)
(***************************************************************************)

\* The asset at an L2 address, if there is a contract.
AssetAt(address) ==
    IF address = L2_BASE_TOKEN_ADDRESS THEN base
    ELSE IF \E a \in deployed : address = L2(a) THEN address[2]
    ELSE None

\* The bridge knows the tokens it has deployed, and computes where it will deploy one.
L1TokenAddress(address) ==
    IF \E a \in deployed : address = L2(a) THEN L1(address[2]) ELSE LEGACY_ETH_ADDRESS

\* The asset that the address of a call names.
Named(name) ==
    IF name \in {None, L2_BASE_TOKEN_ADDRESS, ChecksumBase} THEN base
    ELSE IF name \in EthAddresses THEN "ETH"
    ELSE name[2]

Seen == seen' = [c \in Calls |-> seen[c] \cup {balance'[Named(calls[c].name)]}]

\* The first deposit of a token deploys it.
Deposited(a) ==
    /\ balance[a] < MaxBalance
    /\ balance' = [balance EXCEPT ![a] = @ + 1]
    /\ deployed' = deployed \cup ({a} \ {base})
    /\ Seen
    /\ UNCHANGED <<base, base_token, bridge_addresses, calls>>

\* The L2 transaction that a deposit leads to: a call of the receiver, or the L2
\* bridge's, from the alias of the bridge on L1.
DirectTx == [from |-> "account", to |-> "receiver", token |-> None]
BridgeOf(c) == IF calls[c].bridge = None THEN "shared" ELSE calls[c].bridge
BridgeTx(bridge, token) == [from |-> bridge, to |-> bridge, token |-> token]

-----------------------------------------------------------------------------
(***************************************************************************)
(* How an address is resolved.                                             *)
(***************************************************************************)

\* A bug: the balance of ETH is taken for that of the chain's base token.
StandsForBaseOnEth(c) ==
    calls[c].name = None \/ (calls[c].op = "balance" /\ calls[c].name \in EthAddresses)

\* No token is the base token.
StandsForBase(c) == calls[c].name = None

\* A bug: the legacy address of ETH is looked up as it is.
NormalizedNever(name) == name

\* ETH is looked up by its address in the contracts.
Normalized(name) == IF name = LEGACY_ETH_ADDRESS THEN ETH_ADDRESS_IN_CONTRACTS ELSE name

Return(c, answer) == calls' = [calls EXCEPT ![c].pc = "returned", ![c].answer = answer]
ReturnTx(c, tx) == calls' = [calls EXCEPT ![c].pc = "returned", ![c].tx = tx]
ReturnAmount(c, n, failed) ==
    calls' = [calls EXCEPT ![c].pc = "returned", ![c].amount = n, ![c].failed = failed]
GoOn(c, place, token) == calls' = [calls EXCEPT ![c].pc = place, ![c].token = token]

\* The base token is asked for, unless a deposit names its bridge.
AsksForBase(c) ==
    /\ calls[c].op # "l1Address"
    /\ calls[c].bridge = None
    /\ calls[c].op \in {"l2Address", "estimate"} \/ calls[c].name \in EthAddresses

\* Other L2 addresses are taken as they are.
Begin(c) ==
    LET op == calls[c].op
        name == calls[c].name
    IN  /\ CallAt(c, "idle")
        /\ \/ StandsForBase(c) /\ GoOn(c, "act", L2_BASE_TOKEN_ADDRESS)
           \/ ~StandsForBase(c) /\ AsksForBase(c) /\ GoOn(c, "base", Normalized(name))
           \/ calls[c].bridge # None /\ GoOn(c, "act", Normalized(name))
           \/ op = "l1Address" /\ name = LEGACY_ETH_ADDRESS /\ Return(c, name)
           \/ op = "l1Address" /\ name # LEGACY_ETH_ADDRESS /\ GoOn(c, "bridges", name)
           \/ op \in {"transfer", "withdraw", "balance"} /\ name \in L2Names /\ GoOn(c, "act", name)
        /\ seen' = [seen EXCEPT ![c] = {balance[Named(name)]}]
        /\ UNCHANGED <<base, base_token, bridge_addresses, deployed, balance>>

\* zks_get_base_token_contract_address asks once.
ReadBaseToken(c) ==
    LET op == calls[c].op
        isBase == calls[c].token = L1(base)
    IN  /\ CallAt(c, "base")
        /\ base_token' = L1(base)
        /\ \/ ~isBase /\ GoOn(c, "bridges", calls[c].token)
           \/ isBase /\ op = "l2Address" /\ Return(c, L2_BASE_TOKEN_ADDRESS)
           \/ isBase /\ op = "estimate" /\ ReturnTx(c, DirectTx)
           \/ /\ isBase /\ op \in {"transfer", "withdraw", "balance"}
              /\ GoOn(c, "act", L2_BASE_TOKEN_ADDRESS)
        /\ UNCHANGED <<base, bridge_addresses, deployed, balance, seen>>

\* zks_get_bridge_contracts asks once.
ReadBridges(c) ==
    /\ CallAt(c, "bridges")
    /\ bridge_addresses' = TRUE
    /\ GoOn(c, IF calls[c].op = "estimate" THEN "act" ELSE "lookup", calls[c].token)
    /\ UNCHANGED <<base, base_token, deployed, balance, seen>>

\* l2TokenAddress or l1TokenAddress of the L2 bridge.
Lookup(c) ==
    LET op == calls[c].op
        token == calls[c].token
    IN  /\ CallAt(c, "lookup")
        /\ \/ op = "l2Address" /\ Return(c, L2(token[2]))
           \/ /\ op = "l1Address"
              /\ calls' = [calls EXCEPT ![c].pc = "returned", ![c].answer = L1TokenAddress(token),
                                        ![c].had = token[2] \in deployed]
           \/ op \in {"transfer", "withdraw", "balance"} /\ GoOn(c, "act", L2(token[2]))
        /\ UNCHANGED <<base, base_token, bridge_addresses, deployed, balance, seen>>

-----------------------------------------------------------------------------
(***************************************************************************)
(* What is done with it.                                                   *)
(***************************************************************************)

\* estimate_custom_bridge_deposit_l2_gas, also for the default bridge.
Estimate(c) ==
    /\ CallAt(c, "act")
    /\ calls[c].op = "estimate"
    /\ ReturnTx(c, BridgeTx(BridgeOf(c), calls[c].token))
    /\ UNCHANGED <<base, base_token, bridge_addresses, deployed, balance, seen>>

\* zks_get_balance: the base token contract has no balanceOf of an address, and a token
\* that is not there has none at all.
ReadBalance(c) ==
    LET a == AssetAt(calls[c].token)
    IN  /\ CallAt(c, "act")
        /\ calls[c].op = "balance"
        /\ ReturnAmount(c, IF a = None THEN 0 ELSE balance[a], FALSE)
        /\ UNCHANGED <<base, base_token, bridge_addresses, deployed, balance, seen>>

\* A bug: what is a transfer of value is decided by the program's address.
TransferredUnresolved(c) ==
    IF calls[c].name = None \/ IsEth(calls[c].name) THEN base ELSE AssetAt(calls[c].token)

\* TxTransfer: a transfer of value, or of the token.
Transferred(c) == IF IsEth(calls[c].token) THEN base ELSE AssetAt(calls[c].token)

\* TxWithdraw: the base token's, or the bridge's withdrawal of the token, which
\* refuses one it does not know.
Withdrawn(c) ==
    IF calls[c].token = L2_BASE_TOKEN_ADDRESS THEN base ELSE AssetAt(calls[c].token)

\* The bridge whose withdrawal is called may have to be asked for.
Send(c) ==
    /\ CallAt(c, "act")
    /\ calls[c].op \in {"transfer", "withdraw"}
    /\ calls' = [calls EXCEPT ![c].pc = "sent"]
    /\ bridge_addresses' =
          (bridge_addresses \/ (calls[c].op = "withdraw" /\ calls[c].token # L2_BASE_TOKEN_ADDRESS))
    /\ UNCHANGED <<base, base_token, deployed, balance, seen>>

\* L2 executes the transaction of a call; one of a token that is not there, or of more
\* than the account has, moves nothing.
Execute(c) ==
    LET a == IF calls[c].op = "transfer" THEN Transferred(c) ELSE Withdrawn(c)
        moves == a # None /\ balance[a] > 0
    IN  /\ CallAt(c, "sent")
        /\ balance' = IF moves THEN [balance EXCEPT ![a] = @ - 1] ELSE balance
        /\ calls' = [calls EXCEPT ![c].pc = "returned", ![c].moved = IF moves THEN a ELSE None,
                                  ![c].had = balance[Named(calls[c].name)] > 0]
        /\ Seen
        /\ UNCHANGED <<base, base_token, bridge_addresses, deployed>>

\* What fails after the address is resolved, for any asset but the base token, is taken
\* for a balance of zero.
Swallowed(c) ==
    /\ CallAt(c, "act")
    /\ calls[c].op = "balance"
    /\ calls[c].token # L2_BASE_TOKEN_ADDRESS

\* An RPC fails.
CallFails(c) ==
    /\ calls[c].pc \in {"base", "bridges", "lookup", "act"}
    /\ IF Swallowed(c) THEN ReturnAmount(c, 0, TRUE)
       ELSE calls' = [calls EXCEPT ![c].pc = "raised"]
    /\ UNCHANGED <<base, base_token, bridge_addresses, deployed, balance, seen>>

-----------------------------------------------------------------------------
NewCall(op, name, bridge) ==
    [op |-> op, name |-> name, bridge |-> bridge, pc |-> "idle", token |-> None,
     answer |-> None, tx |-> None, amount |-> 0, moved |-> None, had |-> FALSE, failed |-> FALSE]

NewCalls ==
    UNION {{NewCall(op, name, bridge) :
               name \in NamesOf(op), bridge \in IF op = "estimate" THEN {None, "custom"} ELSE {None}} :
           op \in Ops}

\* The base token has no address that the bridge gives.
Init ==
    /\ base \in Assets
    /\ base_token = None
    /\ bridge_addresses = FALSE
    /\ deployed = {}
    /\ balance = [a \in Assets |-> 0]
    /\ calls \in [Calls -> {new \in NewCalls : new.name # L2(base)}]
    /\ seen = [c \in Calls |-> {}]

Next ==
    \/ \E a \in Assets : Deposited(a)
    \/ \E c \in Calls :
          \/ Begin(c) \/ ReadBaseToken(c) \/ ReadBridges(c) \/ Lookup(c)
          \/ Estimate(c) \/ ReadBalance(c) \/ Send(c) \/ Execute(c)
          \/ CallFails(c)

Spec == Init /\ [][Next]_vars

-----------------------------------------------------------------------------
(***************************************************************************)
(* Properties.                                                             *)
(***************************************************************************)

Addresses == L1Names \cup L2Names
Places == {"idle", "base", "bridges", "lookup", "act", "sent", "returned", "raised"}
Txs == {DirectTx} \cup
       {BridgeTx(bridge, token) : bridge \in {"shared", "custom"}, token \in Addresses}

CallStates ==
    [op: Ops, name: Addresses \cup {None}, bridge: {None, "custom"}, pc: Places,
     token: Addresses \cup {None}, answer: Addresses \cup {None}, tx: Txs \cup {None},
     amount: Nat, moved: Assets \cup {None},
     had: BOOLEAN, failed: BOOLEAN]

TokenAssetsTypeOK ==
    /\ base \in Assets
    /\ base_token \in {None, L1(base)}
    /\ bridge_addresses \in BOOLEAN
    /\ deployed \in SUBSET (Assets \ {base})
    /\ balance \in [Assets -> Nat]
    /\ calls \in [Calls -> CallStates]
    /\ seen \in [Calls -> SUBSET Nat]

Done(c, op) == calls[c].pc = "returned" /\ calls[c].op = op

\* A transfer or a withdrawal moves the asset that its address names, on a chain of any
\* base token, whenever the account has it; but the withdrawal compares the base
\* token's address as it is spelled, and in Web3's spelling it is refused.
MovesNamed(c) ==
    Done(c, "transfer") \/ Done(c, "withdraw") =>
        \/ calls[c].moved = Named(calls[c].name)
        \/ calls[c].moved = None /\ ~calls[c].had
        \/ calls[c].moved = None /\ calls[c].name = ChecksumBase /\ calls[c].op = "withdraw"

NamedAssetMoves == \A c \in Calls : MovesNamed(c)

\* A balance that is answered is one that the account had of the asset named, since the
\* question; but a zero may stand for an RPC that failed, or for the base token in
\* Web3's spelling.
AnswersNamed(c) ==
    Done(c, "balance") =>
        \/ calls[c].amount \in seen[c]
        \/ calls[c].amount = 0 /\ (calls[c].failed \/ calls[c].name = ChecksumBase)

BalanceIsOfNamedAsset == \A c \in Calls : AnswersNamed(c)

\* An address on the other side is one of the same asset, but for the base token of a
\* chain that has another than ETH, and for tokens that nobody has bridged yet: on L1
\* both are answered by ETH's address.
Agrees(c) ==
    /\ Done(c, "l2Address") => Named(calls[c].answer) = Named(calls[c].name)
    /\ Done(c, "l1Address") =>
          \/ Named(calls[c].answer) = Named(calls[c].name)
          \/ calls[c].answer = LEGACY_ETH_ADDRESS /\ Named(calls[c].name) = base
          \/ calls[c].answer = LEGACY_ETH_ADDRESS /\ ~calls[c].had

AddressesAgree == \A c \in Calls : Agrees(c)

\* The route that deposit takes, and the L2 transaction it leads to.
DepositedTx(c) ==
    LET token == IF calls[c].name \in EthAddresses THEN ETH_ADDRESS_IN_CONTRACTS ELSE calls[c].name
    IN  IF token = L1(base) THEN DirectTx
        ELSE BridgeTx(BridgeOf(c), token)

\* The L2 gas of a deposit is estimated for the L2 transaction that the deposit leads
\* to, but for a deposit of the base token that names a bridge of its own, which is
\* not used.
EstimatesDeposit(c) ==
    Done(c, "estimate") =>
        \/ calls[c].tx = DepositedTx(c)
        \/ calls[c].bridge # None /\ Named(calls[c].name) = base

EstimateIsOfTheDeposit == \A c \in Calls : EstimatesDeposit(c)

-----------------------------------------------------------------------------
(***************************************************************************)
(* The inductive invariant of the proofs.                                  *)
(***************************************************************************)

\* What the account has of a token, it has through the token's contract.
HeldIsDeployed == \A a \in Assets \ {base} : balance[a] > 0 => a \in deployed

NameFits(c) ==
    /\ calls[c].name \in NamesOf(calls[c].op)
    /\ calls[c].name # L2(base)
    /\ calls[c].bridge # None => calls[c].op = "estimate"

\* An address of L1 on its way to be looked up.
OnItsWay(c) ==
    /\ calls[c].name \in L1Names
    /\ calls[c].token = Normalized(calls[c].name)

\* What stands in an L2 transaction for the asset that was named.
StandsFor(c) ==
    IF calls[c].name = ChecksumBase THEN calls[c].token = ChecksumBase
    ELSE IF Named(calls[c].name) = base THEN calls[c].token = L2_BASE_TOKEN_ADDRESS
    ELSE calls[c].token = L2(Named(calls[c].name))

\* An address is resolved in steps, each of which knows what the last one found.
Resolved(c) ==
    /\ CallAt(c, "base") => calls[c].op # "l1Address" /\ OnItsWay(c)
    /\ CallAt(c, "bridges") \/ CallAt(c, "lookup") =>
          IF calls[c].op = "l1Address"
          THEN calls[c].token = calls[c].name /\ calls[c].name \in L2Names
          ELSE OnItsWay(c) /\ calls[c].token # L1(base)
    /\ CallAt(c, "lookup") => calls[c].op # "estimate"
    /\ CallAt(c, "act") /\ calls[c].op = "estimate" =>
          OnItsWay(c) /\ (calls[c].bridge # None \/ calls[c].token # L1(base))
    /\ CallAt(c, "act") /\ calls[c].op # "estimate" =>
          calls[c].op \in {"transfer", "withdraw", "balance"} /\ StandsFor(c)
    /\ CallAt(c, "sent") => calls[c].op \in {"transfer", "withdraw"} /\ StandsFor(c)

\* The history has the present balance.
SeesNow(c) == calls[c].pc # "idle" => balance[Named(calls[c].name)] \in seen[c]

ResolvedInv ==
    /\ TokenAssetsTypeOK
    /\ HeldIsDeployed
    /\ \A c \in Calls : NameFits(c) /\ Resolved(c) /\ SeesNow(c)
    /\ NamedAssetMoves
    /\ BalanceIsOfNamedAsset
    /\ AddressesAgree
    /\ EstimateIsOfTheDeposit

=============================================================================
