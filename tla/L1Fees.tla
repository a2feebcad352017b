------------------------------- MODULE L1Fees -------------------------------
(***************************************************************************)
(* How WalletL1 chooses the fee fields of an L1 transaction, which gas     *)
(* price it estimates the base cost with, and what the L1 chain then       *)
(* charges.  No state: the deposit state machine is WalletL1Deposit.       *)
(*                                                                         *)
(* An "options" record below is any record with the TransactionOptions     *)
(* fields gasPrice, maxFee and prio (max_priority_fee_per_gas); an absent  *)
(* field (Python's None) is the model value None.                          *)
(***************************************************************************)
EXTENDS Integers

CONSTANTS
    None,       \* Python's None
    BaseFees,   \* the base fees the L1 chain can have
    Priority,   \* what the node answers to eth_maxPriorityFeePerGas
    FairCost    \* floor of l2TransactionBaseCost, whatever the gas price

ASSUME FeesAssumption ==
    /\ None \notin Int
    /\ BaseFees \subseteq Nat
    /\ Priority \in Nat
    /\ FairCost \in Nat

Optional(S) == S \cup {None}

(***************************************************************************)
(* The L1 node and the Bridgehub contract.                                 *)
(***************************************************************************)

\* eth_gasPrice: the base fee of the head plus the suggested priority fee.
NetworkPrice(b) == b + Priority

\* Bridgehub.l2TransactionBaseCost for the fixed L2 gas limit of a deposit, in
\* units in which one wei of L1 gas price costs one: proportional to the price,
\* never below a floor.
BaseCost(price) == IF price < FairCost THEN FairCost ELSE price

\* What a transaction with fee cap "cap" and priority fee "prio" pays per gas in
\* a block of base fee b (a legacy transaction has cap = prio = gasPrice).
EffectivePrice(t, b) == IF t.cap <= b + t.prio THEN t.cap ELSE b + t.prio

(***************************************************************************)
(* The code.                                                               *)
(***************************************************************************)

\* insert_gas_price_in_transaction_options on a London chain whose head has base
\* fee b: with no gas price and no fee cap, both EIP-1559 fields are filled in;
\* otherwise the gas price is overwritten with the network's.
InsertGasPrice(o, b) ==
    IF o.gasPrice = None /\ o.maxFee = None
    THEN LET tip == IF o.prio = None THEN Priority ELSE o.prio
         IN  [o EXCEPT !.prio = tip, !.maxFee = (3 * b) \div 2 + tip]
    ELSE [o EXCEPT !.gasPrice = NetworkPrice(b)]

\* A bug: the base cost is estimated with the network's price of the moment.
EstimationPriceNetwork(o, b) == NetworkPrice(b)

\* gas_price_for_estimation, and get_base_cost's default for an absent price.
EstimationPrice(o, b) ==
    LET price == IF o.prio # None THEN o.maxFee ELSE o.gasPrice
    IN  IF price = None THEN NetworkPrice(b) ELSE price

\* prepare_transaction_options: the EIP-1559 fields win over the gas price.  A
\* missing half of the pair is filled in by web3 (twice the base fee plus the
\* priority fee; the suggested priority fee).
SentFees(o, b) ==
    IF o.maxFee # None \/ o.prio # None
    THEN LET tip == IF o.prio = None THEN Priority ELSE o.prio
         IN  [cap |-> IF o.maxFee = None THEN 2 * b + tip ELSE o.maxFee, prio |-> tip]
    ELSE LET price == IF o.gasPrice = None THEN NetworkPrice(b) ELSE o.gasPrice
         IN  [cap |-> price, prio |-> price]

=============================================================================
