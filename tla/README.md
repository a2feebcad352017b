# A TLA+ development for zksync2-python

zksync2-python is a client library: a program calls its methods, each method is a
sequence of RPCs to an L1 node, an L2 node or both, and what it leaves behind are
signed transactions, the objects it was given, and a few cached addresses. There
are no threads in it, yet nothing in it is sequential: between any two RPCs of a
method the two chains move, other calls of the same account run, an RPC may fail
with its effect done. This directory models those methods RPC by RPC, checks the
models with TLC and proves what matters most with TLAPS.

`PROJECT.json` lists every part of the system, every run, and for each
definition that models code the lines it stands for.

## Inventory

| part | state | operations | hard behaviour | what makes it correct |
|---|---|---|---|---|
| **WalletL1 deposits** (`account/wallet_l1.py`, `account/utils.py`) | the caller's `DepositTransaction` and its options, mutated; the account's L1 nonce, allowances and pool | `deposit` by five routes, `prepare_deposit_tx`, `estimate_gas_deposit`, `get_full_required_deposit_fee`, `approve_erc20`, `request_execute` | approvals sent in the middle of building; nonce, gas price and allowance read early and used late; lost answers and retries with the same object; concurrent calls | the deposit follows its approvals and pays its base cost at any later base fee; a chosen nonce is kept; approvals go to the bridge that pulls; one object is deposited once |
| **WalletL1 withdrawal finalization** | none; the receipt, the batch's progress, the L1 bridge's record | `finalize_withdrawal`, `is_withdrawal_finalized` | two filtered lists joined by one index, which counts the messages of any contract; two finalizers; a simulation that is stale when mined; a failed probe | the proof is of the withdrawal asked for; a revert means it was paid; the check's answer is not older than the call |
| **WalletL1 failed deposits** | none | `claim_failed_deposit` | selection of the success log, comparison with an `Enum` member | claims exactly the failed deposits (it claims none) |
| **WalletL1 queries** | none | balances, allowances, token addresses, allowance parameters | none | the right address for the chain's base token |
| **ZkSync waits and confirmations** (`module/zksync_module.py`) | a polling loop's last answers | `wait_for_transaction_receipt`, `wait_finalized`, `get_l2_transaction_from_priority_op`, `get_priority_op_confirmation` | two RPCs per poll or query, reverts and finalization between them, timeout | a finalized receipt stays; no finality is missed; a proof is of its receipt's log and block; every wait ends |
| **ZkSync lookups** | four addresses cached on first use | `zks_main_contract`, bridges, base token, `zks_get_balance`, token addresses | addresses with several meanings, resolved in several places; errors swallowed as a zero balance | whatever asset is named, that asset is moved, reported and translated |
| **ZkSync RPC methods** (`response_types.py`, `request_types.py`, `middleware.py`, `module_builder.py`, `zksync_provider.py`) | none | formatters | none | plumbing |
| **WalletL2** (`account/wallet_l2.py`, `transaction/transaction_builders.py`) | the caller's `TransferTransaction` / `WithdrawTransaction` | `transfer`, `withdraw` | nonce of the latest block, options filled in the caller's object or not, retries | a retry moves the money once; a chosen field is kept |
| **Smart accounts** (`smart_account.py`, `smart_account_utils.py`) | the transaction dictionary, mutated by population | `populate_transaction`, `sign_transaction`, `send_transaction`, `transfer`, `withdraw` | zero taken for absent; latest and pending nonces mixed; one or several signatures | what is signed is what is sent |
| **Contract deployment** (`contract_factory.py`, `precompute_contract_deployer.py`, `contract_encoder_base.py`) | none | four kinds of `deploy`, precomputed addresses | pending nonce, wait with a timeout, unchecked status, address from the second event | returns the deployed contract; the precomputed address is the deployed one |
| **Transaction712, EIP-712** (`transaction712.py`, `eip712/`, `eth_signer.py`) | the meta of a transaction, shared by the calls that get the object | `encode`, `to_eip712_struct`, `encode_type`, `to_message`, `from_message`, domain | structs that refer to each other; optional parts signed in one way and encoded in another; a signature that outlives its call | what is signed is what is sent and what is described; a signature is of the transaction it is sent with |
| **Byte helpers** (`core/utils.py`) | none | aliases, `int_to_bytes`, padding, bytecode hash | wrap-around, byte order, lengths | undo inverts apply |
| **ABIs, paymaster input, wallet class, set-up script** | none | file loading, constant encodings | none | nothing to check |

The parts interact by calls and by shared state: both wallets use the ZkSync
module; a deposit's L1 receipt gives the priority operation whose L2 receipt is
waited for; a withdrawal on L2 is finalized on L1 by its receipt; every L1 sender of
an account shares its nonce, its pool and its allowances. Callbacks exist only as
the two functions a `SmartAccount` is built with.

## Plan

Order: what moves money through several RPCs first.

1. **Done.** `L1Fees` and `WalletL1Deposit`: the deposit family (runs `Deposit*`);
   `WalletL1Deposit_proofs` (nonces) and `DepositPromises_proofs` (everything else).
2. **Done.** `ReceiptWait`: the waits (runs `Wait*`), with finality proved.
3. **Done.** `WithdrawFinalize`: finalization and check (runs `Finalize*`), with
   all three invariants proved.
4. **Done.** `Ledger` and `L2Senders`: WalletL2's transfer and withdraw, the smart
   accounts and the four deployments as processes on one L2 account (runs
   `SendersRetry`, `DeployLargeNonce`); the refinement of the ledger and the
   invariants proved.
5. `Bytes`: aliases and their undoing, the bytecode hash's bounds, as pure functions
   checked against reference definitions over bounded inputs. Not done: nothing that
   runs undoes an alias (see `ClaimFailed`).
6. **Done.** `TypedData` (EIP-712 structs) and `Transaction712` (what is signed and
   what is encoded, in every sender), run `Signing`; both proved.
7. **Done.** `TokenAssets`: token addresses, run `TokenAssets`, all four properties
   proved; `get_priority_op_confirmation` and `claim_failed_deposit` in `ReceiptWait`.
8. A composition of deposit, wait and finalization: `AbstractBridge` (locked, minted,
   burnt, released, each at most once) with the detailed modules as its refinement:
   the deposits, the waits and the finalization first each as a job of a `Ledger`.
   Not done.
9. Proofs: every invariant of the passing runs and both properties of single steps are
   stated by a theorem now (`PredictedIsDeployed` as far as it holds). Left: the proof
   that the prediction and the deployed address differ from the 257th deployment on,
   and the refinement proofs of item 8.

No module that is proved about has a RECURSIVE operator.

## The modules

### L1Fees

Pure. `InsertGasPrice` is `insert_gas_price_in_transaction_options` (and the same
lines of `get_request_execute_transaction`), `EstimationPrice` the price each builder
passes to `get_base_cost`, `SentFees` what `prepare_transaction_options` and web3 make
of the options. `NetworkPrice`, `BaseCost` and `EffectivePrice` are the node, the
Bridgehub and EIP-1559. The unit is one: a deposit of fixed L2 gas costs its gas
price, never less than `FairCost`; only proportionality matters to the properties.

### WalletL1Deposit

A *call* runs one of three methods on an *object* (a `DepositTransaction` with its
options, `deposit[o]`), which it mutates as the code does; `asked[o]` remembers what
the program wrote. A method is a script of stages (`Builder`, `Submit`, `Measure`), by
route; each stage is an action, the code between two RPC answers:

| action | code |
|---|---|
| `DummyAmount`, `QuoteFee` | `get_full_required_deposit_fee`, its assignment of 1 and its deletion of the fee fields (`cut`: an attribute deleted once can be deleted again only after it was set) |
| `DefaultNonce`, `DefaultFees` | `_get_deposit_tx_with_defaults`; the builder's `nonce` local is `given` |
| `PriceDeposit` | base cost, mint value, `options.value` of the builder |
| `CheckAllowance`, `BuildApproval`, `ApprovalReceipt`, `ApprovalTimeout` | an approval within a builder and `approve_erc20` |
| `SkipEstimate`, `PopulateRequest`, `Simulate` | `estimate_gas_request_execute` and `get_request_execute_transaction` |
| `BuildDeposit`, `SendRejected`, `SendAccepted` | `build_transaction`, signing and `send_raw_transaction` |
| `RpcFails` | any RPC raises |
| `ChangeBaseFee`, `MineApproval`, `MineDeposit` | L1 |

`SendAccepted` has an outcome in which the node has the transaction and the call
raises. The L1 pool keeps one transaction per nonce, replaced by one that pays more.
An approval may revert (`ApprovalMayRevert`). `Discipline` says when the program
starts a call: when no call with the same object is running, when none is, or when
moreover nothing it sent is unmined. Two running calls never share an object, in any
discipline: the code has no lock and promises nothing there.

### ReceiptWait

Each wait is a loop of RPCs: `ReadFinalized`, `ReadReceipt`, `Test`, `Sleep`, and
`Fetch` for a priority operation. The L2 chain executes, seals, reverts down to the
final block and finalizes. `due` remembers whether the transaction was final when
the poll began.

The two queries of a priority operation are calls of the same module, without a loop.
`get_priority_op_confirmation` is `ReadReceipt`, `Locate` (the position of the
bootloader's log among all logs of the receipt, `ResultLog`) and `AskProof` (the proof
of the log at that position, in whatever block has the transaction by then);
`claim_failed_deposit` is `ReadReceipt` and `Locate`, which ends it. A block's hash
decides what a priority operation comes to in it (`FailedIn`), so that an operation
that is executed again after a revert may fail where it succeeded, with other logs.

### WithdrawFinalize

`outputs` is what one L2 transaction emitted, in order: messages by the contract that
sends them, and logs of other contracts. A message is a withdrawal (`Withdrawals`: of the
base token, of a shared or of a legacy bridge) or any other contract's (`"plain"`); the
L1Messenger logs both alike. A filtered list is the positions it keeps, in order
(`InOrder`). The two lists of the receipt and their two filters are `WithdrawLogs` and
`WithdrawL2ToL1Logs`. The withdrawal asked for is `IsWithdrawal`, the one with `index`
withdrawals before it, as the docstrings have it; the code's index counts messages
(`Counted`), and the two are one exactly as long as no plain message comes first
(`PlainUpTo`). What a sender that is no bridge answers to `l1SharedBridge()` and
`l1Bridge()` is open, and no L1 bridge pays its message. Calls go through receipt,
proof, nonce, bridge (with the legacy probe), simulation, send; or end in
`isWithdrawalFinalized`. `AdvanceBatch` and `Mine` are the environment.

### Ledger and L2Senders

`Ledger` is what a sender owes its program: the jobs it is given are executed in some
order, each at most once. `L2Senders` is one L2 account with any number of calls, each
on an object; two calls of one object are a retry. `object[o]` is the nonce the object
holds (options of a `TransferTransaction` or `WithdrawTransaction`, dictionary of a
`TxTransfer`), `asked[o]` what the program wrote, `call[c].nonce` the nonce of the
transaction being built:

| action | code |
|---|---|
| `Begin` | entry of `WalletL2.transfer`, `withdraw`, `SmartAccount.transfer`, `withdraw`, `send_transaction`, or a program that precomputes an address and deploys |
| `Predict` | `get_deployment_nonce` and `compute_l2_create_address`, or `compute_l2_create2_address` |
| `FillTransfer`, `FillWithdraw`, `FillDeploy` | `get_transfer_transaction` (which writes the nonce in the options), `get_withdraw_transaction` with `TxWithdraw` (which does not), the head of `_deploy_*` |
| `Populate`, `Estimate` | `populate_transaction_ecdsa`, in its two orders; `zks_estimate_fee`, `eth_estimate_gas` |
| `SendAccepted`, `SendReplaces`, `SendRefused` | `send_raw_transaction`, whose answer may be lost |
| `Receipt` | the tail of `_deploy_*` with `extract_contract_address` |
| `Fails` | an RPC raises, the receipt's wait times out |
| `Mine` | the L2 chain; a deployment may revert |

A hash is what it is the hash of: an address is the word its nonce was padded to. The
byte order is the machine's (`ByteOrder`); words are of `WordBytes` bytes.

`Job(c)` says what the code promises about a retry: that of a transfer, of a
`TxTransfer` and of a withdrawal with a chosen nonce is the same job, because the
object keeps the nonce. A withdrawal without one is a new job each time, as is a
deployment; and a `SmartAccount`, which takes a nonce of zero for none
(`smart_account_utils.py:70`), makes a new job of a retry with nonce zero. Without
that clause of `Repeats`, TLC finds a fresh smart account whose first transfer is
executed twice.

### TypedData

The classes of a program are a table of members, `schema`; a member is of a basic type
or a struct, plain or in an array. `_gather_reference_structs` is a recursion with a
set of its own; its activations are `stack`, and each look at a member is a step
(`Visit`, `Leave`), so that the walk itself is what is checked and proved. One struct
goes through everything there is: it is signed (`Sign`, the type signature), described
(`ToMessage`), and rebuilt by `from_message` in its two passes (`Parse`, `Resolve`),
whose order is that of a Python set; and the rebuilt struct is walked again (`Verify`).
`to_message` puts the struct in a set, which raises if its values have a list for an array
member (`RejectLists`): values are left out, so that any struct with an array may be such.
`likeBasic` are structs whose names begin like a basic type's, which
`from_solidity_type` takes for that type.

### Transaction712

A call is one of the senders (`WalletL2.transfer` and `withdraw`,
`SmartAccount.transfer` and `send_transaction`) or a program that signs and encodes by
itself, as the repository's tests do. `txs` is the dictionary and the meta of each object,
`calls[c].tx` the scalars of the `Transaction712` that was made from it: the scalars
are copied, the meta is shared.

| action | code |
|---|---|
| `Build`, `Take` | `get_transfer_transaction` and `get_withdraw_transaction`, or the program's own `TxBase` |
| `PopulateTx`, `ReadNonce`, `EstimateFee` | `populate_transaction_ecdsa` in its two orders; `zks_estimate_fee` behind `meta_formatter` |
| `SignTx` | `to_eip712_struct`, `sign_typed_data`, the custom signature, `encode` |
| `SendRaw`, `CallFails` | `send_raw_transaction`; any RPC or formatter raises |

`SignedContent` is what the signature is of, `EncodedContent` what the node decodes;
the node takes the one for the other only if they are equal. The field `fee` stands for
the gas limit and the fees, which are treated alike; so are the amount, the recipient
and the data, which no code path tells apart and which are left out.

`MCSigning` puts the two modules side by side; they share no state, and each is
explored with the other at its end.

### TokenAssets

An address is a pair of a chain and a name, so that one asset has the several names
that it has in the code: ETH's two addresses on L1, the base token's on L2 (also in the
spelling of Web3, which has capitals), a token's on both sides. A call resolves one name for
`transfer`, `withdraw`, `zks_get_balance`, `l1_token_address`, `l2_token_address` or the
estimation of a deposit, RPC by RPC (`Begin`, `ReadBaseToken`, `ReadBridges`,
`Lookup`), and acts on what it found (`Estimate`, `ReadBalance`, `Send`). `Deposited`
and `Execute` are L2, where a token has no contract before its first deposit. `seen` remembers
the balances of the asset named since the call began. `Named` is the reference
definition: the asset a caller means.

## The runs

| run | question | size |
|---|---|---|
| `DepositOne` | one call, every route, every option: nonce, price, allowance, end | 490 716 states |
| `DepositSettled` | a second deposit once the first is settled, on two routes that pull the base token | 1 381 714 |
| `DepositTwice` | two calls of one account: at once with an object each, or in turn with the same object (retry after a lost answer or timeout, deposit after a fee query) | 809 937 |
| `WaitBoth` | a wait or a query against a chain that reverts and finalizes | 390 307 |
| `FinalizeBoth` | two finalizers and a check of one index, for every transaction of up to three outputs, messages of other contracts included | 1 924 995 |
| `SendersRetry` | an object and its retry beside another call on one L2 account: nonces, collisions, addresses, and the ledger they implement | 1 191 554 |
| `Signing` | every graph of three structs signed, described and rebuilt; two calls that sign one object | 501 714 |
| `TokenAssets` | two calls that resolve any address, on a chain of any base token, beside deposits | 1 355 183 |
| `DepositCustomBridge`, `ClaimFailed`, `FinalizeAmongMessages`, `DeployLargeNonce` | a documented promise the code breaks | counterexamples of a few steps |

What the four counterexamples show is in `findings`:

- a token deposit to an ETH-based chain through a custom bridge approves the shared
  bridge (so the passing runs leave `bridge_address` out on that route);
- `claim_failed_deposit` refuses every deposit, those that failed included: a string
  never equals a member of `ZkSyncAddresses`;
- `finalize_withdrawal` and `is_withdrawal_finalized` count the messages of every contract:
  in a transaction whose only withdrawal has another contract's message before it, the
  default index finds that message, and "the index of the withdrawal" is 1 (so
  `ProvesAskedWithdrawal` says exactly when the index means what the docstring says);
- on a little-endian machine the precomputed address of a CREATE is wrong from the
  256th deployment on (`SendersRetry` starts at the seventh).

Other oddities of the code are part of the models, and the properties that hold say
where they end:

- options with a fee cap alone are priced at the network's gas price and sent with the
  cap (`SelfPriced` excludes them from `DepositPaysItsBaseCost`);
- a fee query leaves its dummy amount in the caller's object
  (`OnlyFeeQueriesChangeAmount`: nothing else does) and a value, which a deposit of the
  object then takes for the caller's (`FeeAsked` excludes it from
  `DepositPaysItsBaseCost`);
- `is_withdrawal_finalized` raises for legacy bridges (an end without an answer);
- a description of a struct with an array of structs can not be rebuilt
  (`KeyErrorExplained`), one with a matrix or a struct named like a basic type is
  rebuilt as another (`SignatureKept` says: exactly those);
- a paymaster without input, or the reverse, is signed and not encoded; a withdrawal
  given another chain's id is signed for this one; a program that signs an object a
  smart account has signed sends the account's old signature
  (`SignaturesExplained`: nothing else breaks a signature);
- a balance of zero may be an RPC that failed, or the base token in Web3's spelling,
  whose withdrawal is refused (`BalanceIsOfNamedAsset`, `NamedAssetMoves`);
- `l1_token_address` answers ETH's address for the base token, whatever that is, and
  for a token nobody has bridged (`AddressesAgree`).

**Bounds.** Two base fees (2 and 6) are enough for the fee to rise and to fall past
`FairCost`, past a fee cap of `3b/2 + tip` and past a gas price chosen by the caller;
in `DepositTwice` it rises once at most, and only while no object approves a token
(`TokenAsked`), which is enough for a transaction of one call to replace one of the other in
the pool. Allowances start at nothing or at more than any deposit pulls. Chosen nonces are
0 and 1: behind, at and ahead of the count after one approval. Two calls are enough for
every property of the deposits, each of which speaks of one or two (`TwiceSpec` lets the
program make two of its three calls: a call and its retry, or a call and one with another
object); three in the finalization, where two finalizers and a check meet, and in the
senders, where a retry meets another call. Four L2 blocks
(`MaxBlocks`) give a reverted, a re-executed and a final block and one more to move
on; three polls (`MaxPolls`) a stale poll, another and a last one. One call is enough
against that chain, since no call sees another. A priority operation fails in the second
and the third block sealed and succeeds in the others (`FailedIn`), so that it comes to
either after either. A withdrawal's index is 1, so that there is a message before it, a
withdrawal or another, in every transaction of up to three outputs and two of four; it is 0
where one message too many is the question (`FinalizeAmongMessages`). The L2 account starts at nonce 0
or 1 (`StartNonces`), on either side of the zero that a smart account forgets. A
deployment with dependencies has a constructor that deploys none, one or two contracts.
Seven and 256 deployments (`StartDeployments`) are nonces of one and two bytes; a word of four
bytes (`WordBytes`) is longer than both, and only that matters. Three
struct classes (`N`) with up to three members give every cycle, diamond and chain that
a walk can meet for the first time; the root comes second in the order of names. Two
calls of one object give a signature to leave and one to meet, with nonces behind and
ahead of the count, this chain's id and another's, and every half of a paymaster. Two
tokens beside ETH give a base token and another; one unit of each (`MaxBalance`) is
there or is not.

**Symmetry.** Where two calls are alike (a retry and its first call in `DepositTwice` and
`SendersRetry`, two calls with an object each in `DepositSettled`, whose objects are
named after their calls; any two calls in `TokenAssets`) TLC explores one of the two
orders. No definition tells
the two apart, and these runs check invariants and, for the ledger, a property of
single steps only; no run with a liveness property uses it.

**Deadlock** is checked where some step is always possible (the base fee always
moves). It is off in `DepositTwice`, where the base fee may stay, and in `WaitBoth`,
`ClaimFailed`, `FinalizeBoth`, `FinalizeAmongMessages`, `SendersRetry`, `DeployLargeNonce`, `Signing` and
`TokenAssets`, which stop when all calls have ended.

**Fairness.** `FairSpec` of the deposits and of the waits assumes weak fairness of the
steps of a call's own code and nothing else: the interpreter goes on, an RPC answers
or raises, `Timeout.sleep` raises in the end. The chain owes nothing: `CallsEnd` and
`WaitsEnd` hold for a chain that stops, because the waits time out. Nothing is
assumed of the L1 pool: a deposit need not be mined. The senders, the signatures and the token addresses
have no fairness: what is asked of them is safety. The walk through the structs
(`SigningSpec`) is weakly fair: it is a function without RPCs, which runs to its end.

## What is proved

For every number of calls, objects, routes, nonces, amounts and base fees allowed by
the named assumptions:

- `WalletL1Deposit_proofs`: `NonceInvariant`, `TypeCorrect`, `DepositAfterApprovals`.
  `DepositFollowsItsApprovals` is not inductive: that the deposit takes a nonce past
  its approvals depends on the object's nonce having been read after the last of
  them was mined, on nobody else writing the object (`OwnObject`), on mined nonces
  being below the account's count, and on nothing happening between build and send.
  `NonceInv` is the conjunction of those parts; there is a lemma per action that can
  disturb them. From `FeesAssumption` and `DepositAssumption`.
- `ReceiptWait_proofs`: `FinalityInvariant`, `FinalizedReceipt`. The finalized number a
  wait has read never exceeds the chain's (`BlockWasFinal`), so a receipt read later
  at or below it is that of a final block (`SettledReceipts`), and such a block is never
  reverted. The order of the two RPCs is what the proof turns on, and the mutant
  that swaps them breaks it. From `WaitAssumption`.
  `ConfirmationBelongsTogether` rests on `ConfirmationInv`: hashes are never given
  twice and a transaction is in one block at most (`ChainInv`), so the block of a
  receipt, while it stands, is the one that the proof is taken from, and its outcome
  fixes the position of the log (`ReceiptsTrue`, `ProofsMatch`). `NoFinalityMissed`
  rests on `DueInv`: a transaction that was final when a poll began has one receipt
  only, at or below the number the poll has read, so the poll returns.
- `DepositPromises_proofs` is in two halves. `ObjectInvariant` holds for every program.
  A deposit is what its object says (`BuiltAsObject`), an object differs from what the
  program wrote only in fields that were open or that a fee query has written
  (`ObjectKept`), what a builder has taken from it is still in it (`TakenIsGiven`), and
  the mint value of an SDK-priced deposit covers the base cost at its own fee cap
  (`PriceKept`), which is at least that at any base fee that includes it. From it
  follow `ChosenNonceIsKept`, `AmountIsKept`, `BaseCostIsPaid`; and
  `OneDepositPerObject`, since two deposits of an object have one nonce and a mined
  nonce is below the account's count.
  `WaitingInvariant` is about a program that `Waits` (starts a call when everything
  sent before is mined, or makes one call only): two calls that overlap may read
  the same nonce and count on the same allowance. Of a program that waits, at
  most one transaction is in the pool, an approval that the running call waits for
  (`PoolKnown`), and what was read stays true until it is used. `ApprovedWhenShort`,
  `NoncesAreAccepted` (for a program that gives each call an object of its own,
  `FreshObjects`, as `NoncesAccepted` says) and `ApprovalsAreEnough` rest on it. The
  two about allowances assume `SharedBridge`, whose negation is the finding of
  `DepositCustomBridge`; the last also `FairCost > 0`, that L2 gas is never free: the
  request takes a mint value of zero for none (`OrElse`) and prices the deposit again,
  after its approval.
- `WithdrawFinalize_proofs`: `PaidInvariant`, `RevertOnlyWhenPaid`. The simulation
  leaves a call whose receipt, proof and bridge are what L1 accepts and do not change
  any more (`BuiltWasAccepted`), so that only a payment in between can make L1 revert.
  `TheAskedWithdrawalIsProven` and `AnswersAreFresh` rest on `LookedUp`: both lookups
  give the message with `index` messages before it. That is a fact about filtering
  lists of any length, usually proved by induction. Here it is counted: an ascending list
  of the positions in a set `K` exists (the ranks of its elements fill `1..Cardinality(K)`)
  and has, before its i-th entry, exactly i - 1 elements of `K` (`InOrderLists`); so the
  i-th message of one list and of the other are one. The same counting tells that message
  from the withdrawal with that index: without a plain message up to it the two sets that
  are counted are equal (`AllWithdrawals`), and with one the withdrawals are strictly fewer
  (`PlainShifts`). From `FinalizeAssumption`, which
  gives the constants their types; `RevertOnlyWhenPaid` does not even need that.
- `L2Senders_proofs`: `SenderInvariant`, `SendersTypeCorrect`, `ExecutedOnce`. The last
  is the refinement: `Spec` implies `Ledger!Spec` of the jobs of the mined transactions.
  The argument: a transaction carries the nonce its object remembers (`CarriesNonce`,
  `RemembersNonce`), nobody writes the object in between (`OwnObject`), and a smart
  account must remember no zero (`KnownNonces`); the pool holds one transaction per
  nonce and none below the account's (`PoolAhead`), the chain takes them in the order
  of nonces (`MinedInOrder`). A second transaction of a job has the nonce of the first
  and so is never mined. From `SendersAssumption`; nothing is assumed about overlap,
  the number of retries or the code at the account's address.
  `ChoiceInvariant` says what a call's readings are worth when it sends: a nonce that was
  read is free (`FreshNonces`), unless the call overlaps another or is one of those that
  `Explained` names; a deployment with nothing of the account beside it still has the
  deployment nonce that its address was predicted from (`KeepsPlace`); a contract is
  there only once its transaction is mined (`Deployed`); `Histories` says what
  `overlapped` and `unsettled` remember. It gives `ChosenNoncesAreSent`
  (with `KeepsChosen`), `CollisionsHaveAReason`, `DeploysReturnTheirContract` and
  `PredictedFromTheRightNonce`. `PredictedIsDeployed` itself is false on a
  little-endian machine (`DeployLargeNonce`); proved is that it holds on a big-endian
  one (`PredictedWhenBigEndian`), and on either for an account with up to 256
  deployments (`PredictedUntil256`), so that the byte order is all that is wrong.
- `TypedData_proofs`: `GatherInvariant`, `GatheredExactly`, `KeyErrorOnlyAtArrays`. The
  invariant is that of a depth-first search: what a found struct refers to is found,
  or the struct is on the stack with those members still ahead (`WalkedOrFound`);
  and every closed set holds all that is found. When the stack is empty the set is
  closed, and so the least. The second half needs that the classes do not change
  during a walk (`RebuiltInv`), and `KeyErrorOnlyAtArrays` that a description is closed
  under plain members (`TypesClosed`). `SignatureKeptExactly` compares the walk of the
  rebuilt struct with that of the original: what a struct's table came to when it was
  described and parsed (`RebuiltMember`) is what it was, if and only if the description
  lost nothing (`RoundTripInv`), and then both walks find one set. From
  `TypedDataAssumption`, for any number of classes, members and references.
- `Transaction712_proofs`: `Transaction712Invariant`, `MessagesTyped`,
  `DifferencesExplained`, `StaleSignaturesExplained`, `PaymasterIsKept`. The difficulty
  is the meta, which is shared by all calls of an object while the scalars are copied
  when a `Transaction712` is made: a meta keeps its paymaster from the program to the
  signature, and a custom signature in it is by a smart account (`MetasKept`); a call
  in the middle of population has the fields that its stage has set (`Populating`);
  what is in `message` is explained before it is sent (`MessagesExplained`). From
  `Transaction712Assumption`; nothing is assumed about how many calls share an object.
- `TokenAssets_proofs`: `ResolvedInvariant`, `AssetMovedIsNamed`, `BalanceIsNamed`,
  `AddressesAreOfOneAsset`, `EstimatedIsDeposited`. None of the four properties is
  inductive: each speaks of the end of a call, and `Resolved` says what is known at
  every RPC before it, `HeldIsDeployed` that what the account holds of a token it holds
  through a contract, `SeesNow` that the history has the present balance. From
  `TokenAssetsAssumption`, for any tokens, calls and base token.

Each inductive invariant was checked by TLC as an invariant of the component's run
before it was proved.

Only model-checked: the liveness properties `CallsEnd`, `WaitsEnd` and `WalkEnds`, which
need fairness and ENABLED, out of the provers' reach; and `PredictedIsDeployed` of a
little-endian machine beyond 256 deployments, where it is false.

Where a proof is long, its lemmas come one per action (`...Next` collects them) over
facts that several actions need. An induction over a list is avoided by defining the
list through the set of positions it keeps, and counting.

## What is not modelled

- An L1 without a base fee, the chain id and recipient defaults of a deposit. The L2 gas
  estimation of a deposit (`_get_l2_gas_limit`) is in `TokenAssets`, for what it
  measures; within a deposit its failure is `RpcFails`.
- The second gas estimation of `_deposit_token_to_eth_based_chain`, merged with that of
  `build_transaction`; the scaled gas limits themselves. Gas limits are taken to be
  sufficient: a transaction never runs out of gas.
- Balances: every transaction can be paid for.
- In `L2Senders`, the fee fields, the paymaster and the signatures, which are
  `Transaction712`'s; constructors that raise before anything is sent (a salt or a
  bytecode of a wrong length).
- A `TxFunctionCall` given to a `SmartAccount`: population reads a key its dictionary
  has not.
- Calls of `request_execute` by the program with a message of its own.
- A `bridge_address` that is given to `l2_token_address`: the method takes an attribute
  of it (`zksync_module.py:720`) that an address has not, and always raises. A
  deposit's own `l2_gas_limit`, which skips the estimation.
- `zks_estimate_gas_transfer`, which writes in the dictionary it is given, and the
  estimations that nothing else calls.
- What EIP-712 does with values of basic types (their encoding to words) and the hash
  of the domain: pure functions of one value.
- `undo_l1_to_l2_alias`, which nothing that runs calls.
- Reorganizations of L1: `count` and `allowance` only move forward with mined blocks.
- The parts listed `not_modelled` in `PROJECT.json`, with the reason there.
