--------------------------- MODULE WalletL1Deposit ---------------------------
(***************************************************************************)
(* WalletL1's deposit family: deposit, estimate_gas_deposit (with          *)
(* prepare_deposit_tx) and get_full_required_deposit_fee, as processes     *)
(* ("calls") that share one L1 account.  A call works on a                 *)
(* DepositTransaction object that it MUTATES and that a later call may be  *)
(* given again.  Each action is the code between two RPC answers; between  *)
(* any two of them the L1 chain moves: its base fee changes and it mines   *)
(* or replaces transactions.                                               *)
(***************************************************************************)
EXTENDS L1Fees, Sequences, FiniteSets

CONSTANTS
    Calls,              \* calls of the wallet's methods
    Objects,            \* DepositTransaction objects of the program
    ObjOf,              \* the object each call is given
    Ops,                \* which methods the program calls
    Requests,           \* the contents the program gives a fresh object
    Grants,             \* the ERC20 allowances the account may start with
    Discipline,         \* when the program starts a call: see MayBegin
    ApprovalMayRevert   \* can an approve() transaction revert on L1?

Methods == {"deposit", "estimate", "fullFee"}
Routes == {"ethOnEth", "tokenOnEth", "ethOnNonEth", "baseOnNonEth", "nonBaseOnNonEth"}
Bridges == {"shared", "custom"}
Kinds == {"base", "token", "deposit"}
Approvals == {"base", "token"}
Stages == {"dummy", "nonce", "fee", "quote", "cost", "base", "token", "gas",
           "request", "simulate", "build", "send"}

\* A DepositTransaction with its TransactionOptions: the fields the control
\* depends on.  "gas" says whether options.gas_limit is set, "cut" whether the
\* options' gas_price attribute has once been deleted.
Deposits ==
    [route: Routes, bridge: Optional({"custom"}),
     approveErc20: BOOLEAN, approveBase: BOOLEAN, tip: Nat, amount: Nat,
     nonce: Optional(Nat), value: Optional(Nat), gasPrice: Optional(Nat),
     maxFee: Optional(Nat), prio: Optional(Nat), gas: BOOLEAN, cut: BOOLEAN]

Statuses == {"none", "built", "rejected", "pending", "dropped", "ok", "reverted"}

\* An L1 transaction of a call: "mint" is mintValue, "value" the wei it carries,
\* "amount" the tokens approved or deposited.
L1Txs ==
    [status: Statuses, nonce: Nat, cap: Nat, prio: Nat, mint: Nat,
     value: Optional(Nat), amount: Nat]

Ends == {"idle", "running", "returned", "rpcError", "timeout", "baseCost",
         "attribute", "simulation", "nonceTooLow", "underpriced"}

\* The local state of a call: its method, its place in the method's script and
\* within an approval, how it ended, its nonce and mint_value locals.
CallStates ==
    [op: Methods, pos: Nat \ {0}, sub: {"check", "approve", "send", "wait"},
     end: Ends, given: Optional(Nat), mint: Nat]

ASSUME DepositAssumption ==
    /\ ObjOf \in [Calls -> Objects]
    /\ Ops \subseteq Methods
    /\ Requests \subseteq Deposits
    /\ Grants \subseteq [Approvals -> [Bridges -> Nat]]
    /\ Discipline \in {"concurrent", "sequential", "settled"}
    /\ ApprovalMayRevert \in BOOLEAN

VARIABLES
    asked,      \* the objects as the program wrote them (history)
    deposit,    \* the objects as the calls have left them
    call,       \* the local state of each call
    tx,         \* the L1 transactions of each call
    baseFee,    \* base fee of the L1 head
    count,      \* the account's confirmed L1 nonce
    allowance   \* ERC20 allowances of the account

l1vars == <<baseFee, count, allowance>>
vars == <<asked, deposit, call, tx, l1vars>>

Obj(c) == deposit[ObjOf[c]]

-----------------------------------------------------------------------------
(***************************************************************************)
(* The steps of each method, by route.                                     *)
(***************************************************************************)

DirectRoutes == {"ethOnEth", "baseOnNonEth"}   \* requestL2TransactionDirect
EthRoutes == {"ethOnEth", "tokenOnEth"}        \* is_eth_based_chain

\* The _get_deposit_..._tx builder of each route; the two routes of a non-ETH
\* chain that use two bridges fill the defaults in twice.
Builder ==
    [ethOnEth        |-> <<"nonce", "fee", "cost">>,
     tokenOnEth      |-> <<"nonce", "fee", "token", "cost">>,
     ethOnNonEth     |-> <<"nonce", "fee", "fee", "cost", "base">>,
     baseOnNonEth    |-> <<"nonce", "fee", "cost">>,
     nonBaseOnNonEth |-> <<"nonce", "fee", "fee", "cost", "base", "token">>]

\* What _deposit_... does with the built transaction: a direct request is
\* populated once to estimate its gas and once more to be sent.
Submit ==
    [ethOnEth        |-> <<"gas", "fee", "request", "simulate",
                           "fee", "request", "build", "send">>,
     tokenOnEth      |-> <<"build", "send">>,
     ethOnNonEth     |-> <<"build", "send">>,
     baseOnNonEth    |-> <<"base", "gas", "fee", "request", "simulate",
                           "fee", "request", "build", "send">>,
     nonBaseOnNonEth |-> <<"build", "send">>]

\* What estimate_gas_deposit does with it.
Measure(r) == IF r \in DirectRoutes THEN <<"fee", "request", "simulate">> ELSE <<"simulate">>

Script(o, r) ==
    IF o = "deposit" THEN Builder[r] \o Submit[r]
    ELSE IF o = "estimate" THEN Builder[r] \o Measure(r)
    ELSE <<"dummy", "nonce", "fee", "quote">> \o Builder[r] \o Measure(r)

ScriptOf(c) == Script(call[c].op, Obj(c).route)

\* Call c is running and its next step is of stage s.
At(c, s) ==
    /\ call[c].end = "running"
    /\ ScriptOf(c)[call[c].pos] = s

\* The local state of c when it is n stages further on.
After(c, n) ==
    [call[c] EXCEPT !.pos = @ + n,
                    !.sub = "check",
                    !.end = IF call[c].pos + n > Len(ScriptOf(c)) THEN "returned" ELSE @]

Advance(c, n) == call' = [call EXCEPT ![c] = After(c, n)]
Raise(c, why) == call' = [call EXCEPT ![c].end = why]
SetObj(c, d) == deposit' = [deposit EXCEPT ![ObjOf[c]] = d]

\* Python's "x or y" on an optional integer.
OrElse(x, y) == IF x = None \/ x = 0 THEN y ELSE x

-----------------------------------------------------------------------------
(***************************************************************************)
(* The L1 chain: what the Bridgehub requires of a deposit and what mining  *)
(* one does.  These contracts are not part of the repository.              *)
(***************************************************************************)

\* The bridge that pulls the tokens of kind k when c's deposit is mined.
PullSpender(c, k) ==
    IF k = "token" /\ Obj(c).bridge # None THEN Obj(c).bridge ELSE "shared"

\* The kinds of token that the deposit of route r pulls.
Pulled(r) ==
    {k \in Approvals : \/ k = "base" /\ r \notin EthRoutes
                       \/ k = "token" /\ r \in {"tokenOnEth", "nonBaseOnNonEth"}}

PullAmount(t, k) == IF k = "base" THEN t.mint ELSE t.amount

\* l2Value: part of mintValue on the direct routes.
L2Value(r, t) == IF r \in DirectRoutes THEN t.amount ELSE 0

\* The wei that must come with the request.
DueValue(r, t) ==
    IF r \in EthRoutes THEN t.mint ELSE IF r = "ethOnNonEth" THEN t.amount ELSE 0

MintCovers(r, t, b) == t.mint >= BaseCost(EffectivePrice(t, b)) + L2Value(r, t)

AllowanceCovers(c, t, k) == allowance[k][PullSpender(c, k)] >= PullAmount(t, k)

\* The deposit t of call c succeeds in a block of the current base fee.
Accepts(c, t) ==
    LET r == Obj(c).route
    IN  /\ MintCovers(r, t, baseFee)
        /\ t.value = DueValue(r, t)
        /\ \A k \in Pulled(r) : AllowanceCovers(c, t, k)

\* eth_estimateGas of t succeeds.
Simulates(c, t) == t.cap >= baseFee /\ Accepts(c, t)

-----------------------------------------------------------------------------
(***************************************************************************)
(* Steps of a call, up to its L1 transactions.                             *)
(***************************************************************************)

\* When the program may start a call: when no call with the same object is running;
\* when no call is; or, moreover, when none of its transactions is still unmined.
MayBegin(c) ==
    /\ \A d \in Calls :
          ObjOf[d] = ObjOf[c] \/ Discipline # "concurrent" => call[d].end # "running"
    /\ Discipline = "settled" =>
          \A d \in Calls, k \in Kinds : tx[d][k].status # "pending"

\* The program calls one of the methods.
Begin(c) ==
    /\ call[c].end = "idle"
    /\ MayBegin(c)
    /\ \E o \in Ops : call' = [call EXCEPT ![c].op = o, ![c].end = "running"]
    /\ UNCHANGED <<asked, deposit, tx, l1vars>>

\* get_full_required_deposit_fee puts its dummy amount in the caller's object.
DummyAmount(c) ==
    /\ At(c, "dummy")
    /\ SetObj(c, [Obj(c) EXCEPT !.amount = 1])
    /\ Advance(c, 1)
    /\ UNCHANGED <<asked, tx, l1vars>>

\* A bug: the nonce is looked at after the defaults are filled in.
GivenNonceLate(c) == IF Obj(c).nonce = None THEN count ELSE Obj(c).nonce

\* The nonce a call sees in the object before the defaults are filled in.
GivenNonce(c) == Obj(c).nonce

\* The builder's nonce local, then _get_deposit_tx_with_defaults: the object's
\* nonce becomes the count of mined transactions unless it is set.
DefaultNonce(c) ==
    /\ At(c, "nonce")
    /\ SetObj(c, [Obj(c) EXCEPT !.nonce = IF @ = None THEN count ELSE @])
    /\ call' = [call EXCEPT ![c] = [After(c, 1) EXCEPT !.given = GivenNonce(c)]]
    /\ UNCHANGED <<asked, tx, l1vars>>

\* _get_deposit_tx_with_defaults (get_request_execute_transaction) goes on to
\* the fee fields.
DefaultFees(c) ==
    /\ At(c, "fee")
    /\ SetObj(c, InsertGasPrice(Obj(c), baseFee))
    /\ Advance(c, 1)
    /\ UNCHANGED <<asked, tx, l1vars>>

\* get_full_required_deposit_fee: the value field, then the fee fields deleted
\* from the object, which raises when an earlier query deleted them and nothing
\* has set the gas price since.  The RuntimeErrors it builds are never raised.
QuoteFee(c) ==
    LET d == Obj(c)
        value == IF d.route \in EthRoutes THEN d.value
                 ELSE IF d.route = "nonBaseOnNonEth" THEN OrElse(d.value, 0)
                 ELSE d.amount
    IN  /\ At(c, "quote")
        /\ IF d.cut /\ d.gasPrice = None
           THEN SetObj(c, [d EXCEPT !.value = value]) /\ Raise(c, "attribute")
           ELSE /\ SetObj(c, [d EXCEPT !.value = value, !.cut = TRUE, !.gasPrice = None,
                                      !.maxFee = None, !.prio = None])
                /\ Advance(c, 1)
        /\ UNCHANGED <<asked, tx, l1vars>>

\* The base cost at the estimation price.
Cost(d) == BaseCost(EstimationPrice(d, baseFee))

\* mint_value of each builder.
MintValue(d) ==
    IF d.route = "ethOnEth" /\ d.value # None THEN d.value
    ELSE Cost(d) + d.tip + (IF d.route \in DirectRoutes THEN d.amount ELSE 0)

\* options.value of each builder.
RequestValue(d) ==
    IF d.route = "ethOnEth" THEN MintValue(d)
    ELSE IF d.route = "tokenOnEth" THEN OrElse(d.value, MintValue(d))
    ELSE IF d.route = "ethOnNonEth" THEN OrElse(d.value, d.amount)
    ELSE IF d.route = "nonBaseOnNonEth" THEN OrElse(d.value, 0)
    ELSE 0

\* The builder asks for the base cost and fixes the mint value and the wei.  Its
\* own check_base_cost cannot fail: the mint value adds the tip to the base cost.
PriceDeposit(c) ==
    /\ At(c, "cost")
    /\ SetObj(c, [Obj(c) EXCEPT !.value = RequestValue(Obj(c))])
    /\ call' = [call EXCEPT ![c] = [After(c, 1) EXCEPT !.mint = MintValue(Obj(c))]]
    /\ UNCHANGED <<asked, tx, l1vars>>

\* A direct deposit with a gas limit of the caller's skips the estimation.
SkipEstimate(c) ==
    /\ At(c, "gas")
    /\ Advance(c, IF Obj(c).gas THEN 4 ELSE 1)
    /\ UNCHANGED <<asked, deposit, tx, l1vars>>

\* get_request_execute_transaction once the fees are filled in: the value
\* provided is only compared with the base cost.
PopulateRequest(c) ==
    LET d == Obj(c)
        provided == IF d.route \in EthRoutes THEN d.value ELSE call[c].mint
        mint == OrElse(provided, Cost(d) + d.tip + d.amount)
    IN  /\ At(c, "request")
        /\ SetObj(c, IF d.route \in EthRoutes THEN [d EXCEPT !.value = mint] ELSE d)
        /\ call' = [call EXCEPT ![c] =
                       IF Cost(d) > mint
                       THEN [call[c] EXCEPT !.mint = mint, !.end = "baseCost"]
                       ELSE [After(c, 1) EXCEPT !.mint = mint]]
        /\ UNCHANGED <<asked, tx, l1vars>>

\* A bug: the deposit moves what is minted for the fee as well.
DraftOfMint(c) ==
    LET d == Obj(c)
        fees == SentFees(d, baseFee)
    IN  [status |-> "built", nonce |-> d.nonce, cap |-> fees.cap, prio |-> fees.prio,
         mint |-> call[c].mint, value |-> d.value,
         amount |-> IF d.route = "baseOnNonEth" THEN call[c].mint ELSE d.amount]

\* The transaction that the object of c makes as it is now.
Draft(c) ==
    LET d == Obj(c)
        fees == SentFees(d, baseFee)
    IN  [status |-> "built", nonce |-> d.nonce, cap |-> fees.cap, prio |-> fees.prio,
         mint |-> call[c].mint, value |-> d.value, amount |-> d.amount]

\* eth_estimateGas of the populated transaction.  A direct deposit stores the
\* scaled gas limit in the object's options; the other methods only return it.
Simulate(c) ==
    /\ At(c, "simulate")
    /\ IF Simulates(c, Draft(c))
       THEN /\ SetObj(c, [Obj(c) EXCEPT !.gas = @ \/ call[c].op = "deposit"])
            /\ Advance(c, 1)
       ELSE Raise(c, "simulation") /\ UNCHANGED deposit
    /\ UNCHANGED <<asked, tx, l1vars>>

\* build_transaction of the deposit: without a gas limit it simulates first.
BuildDeposit(c) ==
    /\ At(c, "build")
    /\ IF Obj(c).gas \/ Simulates(c, Draft(c))
       THEN /\ tx' = [tx EXCEPT ![c]["deposit"] = Draft(c)]
            /\ Advance(c, 1)
       ELSE Raise(c, "simulation") /\ UNCHANGED tx
    /\ UNCHANGED <<asked, deposit, l1vars>>

-----------------------------------------------------------------------------
(***************************************************************************)
(* An approval within a builder, and approve_erc20.                        *)
(***************************************************************************)

\* Did the caller ask for the approval of kind k?
Flagged(c, k) ==
    LET d == Obj(c)
    IN  \/ k = "token" /\ d.approveErc20
        \/ k = "base" /\ d.approveBase
        \/ k = "base" /\ d.route = "baseOnNonEth" /\ d.approveErc20

\* A bug: the base token is approved for the deposit's amount, not its mint value.
NeededAmountOfDeposit(c, k) == Obj(c).amount

NeededAmount(c, k) == IF k = "base" THEN call[c].mint ELSE Obj(c).amount

\* The bridge whose allowance is read.
CheckedSpender(c, k) == PullSpender(c, k)

\* A bug: the shared bridge is approved whichever bridge pulls the tokens.
ApprovedSpenderShared(c, k) == "shared"

\* The bridge that is approved: on an ETH chain always the shared one.
ApprovedSpender(c, k) ==
    IF Obj(c).route = "tokenOnEth" THEN "shared" ELSE PullSpender(c, k)

\* A bug: an approval is sent whatever the allowance is.
NeedsApprovalAlways(c, k) == Flagged(c, k)

NeedsApproval(c, k) ==
    /\ Flagged(c, k)
    /\ allowance[k][CheckedSpender(c, k)] < NeededAmount(c, k)

CheckAllowance(c, k) ==
    /\ At(c, k)
    /\ call[c].sub = "check"
    /\ IF NeedsApproval(c, k)
       THEN call' = [call EXCEPT ![c].sub = "approve"]
       ELSE Advance(c, 1)
    /\ UNCHANGED <<asked, deposit, tx, l1vars>>

\* approve_erc20 up to the signed transaction: it reads the gas price and the
\* count of mined transactions for itself.
BuildApproval(c, k) ==
    /\ At(c, k)
    /\ call[c].sub = "approve"
    /\ tx' = [tx EXCEPT ![c][k] =
                 [status |-> "built", nonce |-> count, cap |-> NetworkPrice(baseFee),
                  prio |-> NetworkPrice(baseFee), mint |-> 0, value |-> 0,
                  amount |-> NeededAmount(c, k)]]
    /\ call' = [call EXCEPT ![c].sub = "send"]
    /\ UNCHANGED <<asked, deposit, l1vars>>

Mined(c, k) == tx[c][k].status \in {"ok", "reverted"}

\* A bug: the nonce read before the approval is kept.
NonceAfterApprovalKept(c) == Obj(c).nonce

\* A bug: the nonce the call was given is put back, absent or not.
NonceAfterApprovalGiven(c) == call[c].given

\* A bug: the nonce is read again even if the caller chose it.
NonceAfterApprovalFresh(c) == count

\* The nonce of the deposit once an approval is mined.
NonceAfterApproval(c) == IF call[c].given = None THEN count ELSE Obj(c).nonce

\* The receipt of the approval arrives: its status is not looked at.
ApprovalReceipt(c, k) ==
    /\ At(c, k)
    /\ call[c].sub = "wait"
    /\ Mined(c, k)
    /\ SetObj(c, [Obj(c) EXCEPT !.nonce = NonceAfterApproval(c)])
    /\ Advance(c, 1)
    /\ UNCHANGED <<asked, tx, l1vars>>

\* A bug: the receipt is awaited without a timeout.
MayTimeOutNever(c, k) == FALSE

MayTimeOut(c, k) == ~Mined(c, k)

\* web3's wait_for_transaction_receipt gives up.
ApprovalTimeout(c, k) ==
    /\ At(c, k)
    /\ call[c].sub = "wait"
    /\ MayTimeOut(c, k)
    /\ Raise(c, "timeout")
    /\ UNCHANGED <<asked, deposit, tx, l1vars>>

-----------------------------------------------------------------------------
(***************************************************************************)
(* send_raw_transaction, for an approval or for the deposit.  The node     *)
(* keeps one transaction per nonce; a second one replaces it if it pays    *)
(* more.                                                                   *)
(***************************************************************************)

Sending(c, k) ==
    /\ tx[c][k].status = "built"
    /\ \/ k = "deposit" /\ At(c, "send")
       \/ k \in Approvals /\ At(c, k) /\ call[c].sub = "send"

Rivals(n) ==
    {r \in Calls \X Kinds :
        tx[r[1]][r[2]].status = "pending" /\ tx[r[1]][r[2]].nonce = n}

Outbids(t, u) == t.cap > u.cap /\ t.prio > u.prio

SendRejected(c, k) ==
    LET t == tx[c][k]
        underpriced == \E r \in Rivals(t.nonce) : ~Outbids(t, tx[r[1]][r[2]])
    IN  /\ Sending(c, k)
        /\ t.nonce < count \/ underpriced
        /\ tx' = [tx EXCEPT ![c][k].status = "rejected"]
        /\ Raise(c, IF t.nonce < count THEN "nonceTooLow" ELSE "underpriced")
        /\ UNCHANGED <<asked, deposit, l1vars>>

\* The node takes the transaction; it answers, or the answer is lost and the
\* call raises although the transaction is in the pool.
SendAccepted(c, k) ==
    LET t == tx[c][k]
        rivals == Rivals(t.nonce)
    IN  /\ Sending(c, k)
        /\ t.nonce >= count
        /\ \A r \in rivals : Outbids(t, tx[r[1]][r[2]])
        /\ tx' = [d \in Calls |-> [j \in Kinds |->
                     IF d = c /\ j = k THEN [t EXCEPT !.status = "pending"]
                     ELSE IF <<d, j>> \in rivals THEN [tx[d][j] EXCEPT !.status = "dropped"]
                     ELSE tx[d][j]]]
        /\ \/ IF k = "deposit"
              THEN Advance(c, 1)
              ELSE call' = [call EXCEPT ![c].sub = "wait"]
           \/ Raise(c, "rpcError")
        /\ UNCHANGED <<asked, deposit, l1vars>>

\* An RPC of the call fails and the exception leaves the method.
RpcFails(c) ==
    /\ call[c].end = "running"
    /\ Raise(c, "rpcError")
    /\ UNCHANGED <<asked, deposit, tx, l1vars>>

-----------------------------------------------------------------------------
(***************************************************************************)
(* The L1 chain moves.                                                     *)
(***************************************************************************)

ChangeBaseFee ==
    /\ baseFee' \in BaseFees \ {baseFee}
    /\ UNCHANGED <<asked, deposit, call, tx, count, allowance>>

Includable(c, k) ==
    LET t == tx[c][k]
    IN  t.status = "pending" /\ t.nonce = count /\ t.cap >= baseFee

MineApproval(c, k) ==
    /\ Includable(c, k)
    /\ count' = count + 1
    /\ \/ /\ tx' = [tx EXCEPT ![c][k].status = "ok"]
          /\ allowance' = [allowance EXCEPT ![k][ApprovedSpender(c, k)] = tx[c][k].amount]
       \/ /\ ApprovalMayRevert
          /\ tx' = [tx EXCEPT ![c][k].status = "reverted"]
          /\ UNCHANGED allowance
    /\ UNCHANGED <<asked, deposit, call, baseFee>>

MineDeposit(c) ==
    LET t == tx[c]["deposit"]
        ok == Accepts(c, t)
    IN  /\ Includable(c, "deposit")
        /\ count' = count + 1
        /\ tx' = [tx EXCEPT ![c]["deposit"].status = IF ok THEN "ok" ELSE "reverted"]
        /\ allowance' =
              [k \in Approvals |-> [s \in Bridges |->
                  IF ok /\ k \in Pulled(Obj(c).route) /\ s = PullSpender(c, k)
                  THEN allowance[k][s] - PullAmount(t, k)
                  ELSE allowance[k][s]]]
        /\ UNCHANGED <<asked, deposit, call, baseFee>>

-----------------------------------------------------------------------------
NoTx == [status |-> "none", nonce |-> 0, cap |-> 0, prio |-> 0,
         mint |-> 0, value |-> 0, amount |-> 0]

NewCall == [op |-> "deposit", pos |-> 1, sub |-> "check", end |-> "idle",
            given |-> None, mint |-> 0]

Init ==
    /\ asked \in [Objects -> Requests]
    /\ deposit = asked
    /\ call = [c \in Calls |-> NewCall]
    /\ tx = [c \in Calls |-> [k \in Kinds |-> NoTx]]
    /\ baseFee \in BaseFees
    /\ count = 0
    /\ allowance \in Grants

ApprovalStep(c) ==
    \E k \in Approvals :
        \/ CheckAllowance(c, k)
        \/ BuildApproval(c, k)
        \/ ApprovalReceipt(c, k)
        \/ ApprovalTimeout(c, k)

SendStep(c) == \E k \in Kinds : SendRejected(c, k) \/ SendAccepted(c, k)

\* A step of the code of call c.
Step(c) ==
    \/ DummyAmount(c)
    \/ DefaultNonce(c)
    \/ DefaultFees(c)
    \/ QuoteFee(c)
    \/ PriceDeposit(c)
    \/ SkipEstimate(c)
    \/ PopulateRequest(c)
    \/ Simulate(c)
    \/ BuildDeposit(c)
    \/ ApprovalStep(c)
    \/ SendStep(c)

Mine(c) == MineDeposit(c) \/ \E k \in Approvals : MineApproval(c, k)

Next ==
    \/ \E c \in Calls : Begin(c) \/ Step(c) \/ RpcFails(c) \/ Mine(c)
    \/ ChangeBaseFee

Spec == Init /\ [][Next]_vars

\* A method that has started keeps running: it never waits for anything but an
\* RPC answer, and the wait for a receipt times out.  The chain need not move.
FairSpec == Spec /\ \A c \in Calls : WF_vars(Step(c))

-----------------------------------------------------------------------------
(***************************************************************************)
(* Properties.                                                             *)
(***************************************************************************)

TypeOK ==
    /\ asked \in [Objects -> Deposits]
    /\ deposit \in [Objects -> Deposits]
    /\ call \in [Calls -> CallStates]
    /\ tx \in [Calls -> [Kinds -> L1Txs]]
    /\ baseFee \in BaseFees
    /\ count \in Nat
    /\ allowance \in [Approvals -> [Bridges -> Nat]]

\* The deposit transaction of a call comes after the approvals of the same call
\* unless the caller chose the nonce: wallet_l1.py reads the nonce before it
\* sends the approvals, and has to read it again after each of them.
DepositFollowsItsApprovals ==
    \A c \in Calls, k \in Approvals :
        /\ tx[c]["deposit"].status # "none"
        /\ tx[c][k].status # "none"
        /\ call[c].given = None
        => tx[c][k].nonce < tx[c]["deposit"].nonce

\* A nonce the caller chose is the nonce of the deposit, whatever is approved,
\* populated and estimated on the way.
ChosenNonceKept ==
    \A c \in Calls :
        /\ tx[c]["deposit"].status # "none"
        /\ asked[ObjOf[c]].nonce # None
        => tx[c]["deposit"].nonce = asked[ObjOf[c]].nonce

\* Was the fee of the object of c asked for?
FeeAsked(c) ==
    \E d \in Calls : ObjOf[d] = ObjOf[c] /\ call[d].op = "fullFee" /\ call[d].end # "idle"

\* The object a caller wrote names no value, and either no gas price and no fee
\* cap at all or both EIP-1559 fields.
SelfPriced(d) ==
    /\ d.value = None
    /\ d.gasPrice = None
    /\ d.maxFee = None \/ d.prio # None

\* Such a deposit can not fail on L1 for want of base cost, whatever the base
\* fee of the block that includes it: check_base_cost and the estimation price
\* are there for that.  get_full_required_deposit_fee leaves a value behind.
DepositPaysItsBaseCost ==
    \A c \in Calls :
        LET t == tx[c]["deposit"]
        IN  (t.status # "none" /\ SelfPriced(asked[ObjOf[c]]) /\ ~FeeAsked(c))
            => \A b \in BaseFees : b <= t.cap => MintCovers(Obj(c).route, t, b)

\* With approvals enabled, a deposit that reaches the L1 chain finds the
\* allowances it pulls, unless an approval of its own reverted (its receipt's
\* status is not looked at).
ApprovalsCoverDeposit ==
    \A c \in Calls : \A k \in Pulled(Obj(c).route) :
        /\ tx[c]["deposit"].status = "pending"
        /\ Flagged(c, k)
        /\ tx[c][k].status # "reverted"
        => AllowanceCovers(c, tx[c]["deposit"], k)

\* An allowance that is already enough is left alone: deposit()'s docstring says
\* the approval is then skipped.
ApprovalOnlyWhenShort ==
    [][\A c \in Calls, k \in Approvals :
          tx[c][k].status = "built" /\ tx'[c][k].status = "pending"
          => allowance[k][ApprovedSpender(c, k)] < tx[c][k].amount]_vars

\* A program that gives each call a fresh object, leaves the nonce to the wallet
\* and starts a call when its earlier transactions are mined never sees a nonce
\* refused, and none of its transactions replaces another.
NoncesAccepted ==
    \A c \in Calls :
        asked[ObjOf[c]].nonce = None =>
            /\ call[c].end \notin {"nonceTooLow", "underpriced"}
            /\ \A k \in Kinds : tx[c][k].status # "dropped"

\* However often deposit() is called on one object (the nonce stays in it), also
\* after a lost answer or a timeout, at most one of its deposits is mined.
AtMostOneDepositPerObject ==
    \A c, d \in Calls :
        /\ ObjOf[c] = ObjOf[d]
        /\ Mined(c, "deposit")
        /\ Mined(d, "deposit")
        => c = d

\* A deposit moves the amount the program wrote in the object, on every route and
\* whatever was tried with the object before, except that get_full_required_deposit_fee
\* leaves its dummy amount of one in it.
OnlyFeeQueriesChangeAmount ==
    \A c \in Calls :
        LET t == tx[c]["deposit"]
        IN  t.status # "none" =>
                \/ t.amount = asked[ObjOf[c]].amount
                \/ FeeAsked(c) /\ t.amount = 1

\* Every method that was called returns or raises, even if the chain stops.
CallsEnd == \A c \in Calls : call[c].end = "running" ~> call[c].end # "running"

-----------------------------------------------------------------------------
(***************************************************************************)
(* The inductive invariant of the proofs.                                  *)
(***************************************************************************)

Running(c) == call[c].end = "running"
Stage(c) == ScriptOf(c)[call[c].pos]

\* A call that has not begun has left nothing behind.
FreshCalls ==
    \A c \in Calls :
        call[c].end = "idle" =>
            /\ call[c].pos = 1
            /\ call[c].sub = "check"
            /\ call[c].given = None
            /\ \A k \in Kinds : tx[c][k].status = "none"

InScript == \A c \in Calls : Running(c) => call[c].pos \in 1..Len(ScriptOf(c))

\* Nobody else writes the object of a running call.
OwnObject ==
    \A c, d \in Calls : Running(c) /\ Running(d) /\ ObjOf[c] = ObjOf[d] => c = d

\* The object has a nonce once the defaults are filled in, and keeps one.
NonceSet ==
    \A c \in Calls :
        /\ Running(c) /\ Stage(c) \notin {"dummy", "nonce"} => Obj(c).nonce # None
        /\ call[c].given # None => Obj(c).nonce # None

MinedBelowCount == \A c \in Calls, k \in Kinds : Mined(c, k) => tx[c][k].nonce < count

\* Between the build and the send nothing happens in a call.
BuiltIsSentNext ==
    \A c \in Calls : Running(c) /\ tx[c]["deposit"].status # "none" => Stage(c) = "send"

\* An approval the call has got over is mined, and the object's nonce is past it.
ApprovalsBehind ==
    \A c \in Calls, k \in Approvals :
        /\ Running(c)
        /\ call[c].given = None
        /\ tx[c][k].status # "none"
        /\ ~(Stage(c) = k /\ call[c].sub # "check")
        => Mined(c, k) /\ Obj(c).nonce # None /\ tx[c][k].nonce < Obj(c).nonce

\* Each part is there for the next: the object is the call's own, so its nonce is
\* the one read after the last approval, which is mined and so behind it.
NonceInv ==
    /\ TypeOK
    /\ FreshCalls
    /\ InScript
    /\ OwnObject
    /\ NonceSet
    /\ MinedBelowCount
    /\ BuiltIsSentNext
    /\ ApprovalsBehind
    /\ DepositFollowsItsApprovals

-----------------------------------------------------------------------------
(***************************************************************************)
(* The inductive invariant of what the objects keep.                       *)
(***************************************************************************)

\* What no method changes in an object, and what only a fee query does.
ObjectKept ==
    \A c \in Calls :
        LET a == asked[ObjOf[c]]
            d == Obj(c)
        IN  /\ d.route = a.route
            /\ d.bridge = a.bridge
            /\ d.tip = a.tip
            /\ d.approveErc20 = a.approveErc20
            /\ d.approveBase = a.approveBase
            /\ a.nonce # None => d.nonce = a.nonce
            /\ d.amount = a.amount \/ (FeeAsked(c) /\ d.amount = 1)

\* The nonce of the object of c is the caller's, or that of an earlier deposit.
NonceTaken(c) ==
    \/ asked[ObjOf[c]].nonce # None
    \/ \E d \in Calls \ {c} : ObjOf[d] = ObjOf[c] /\ tx[d]["deposit"].status # "none"

\* A call then takes it for a given one, and does not read it again.
TakenIsGiven ==
    \A c \in Calls :
        Running(c) /\ Stage(c) \notin {"dummy", "nonce"} /\ NonceTaken(c)
        => call[c].given # None

\* All deposits of an object have its nonce, so L1 mines one of them.
BuiltAsObject ==
    \A c \in Calls :
        LET t == tx[c]["deposit"]
        IN  t.status # "none" =>
                /\ t.nonce = Obj(c).nonce
                /\ t.amount = asked[ObjOf[c]].amount \/ (FeeAsked(c) /\ t.amount = 1)

\* The mint value at the object's fee cap.
FullMint(d) ==
    BaseCost(d.maxFee) + d.tip + (IF d.route \in DirectRoutes THEN d.amount ELSE 0)

\* Call c with the local state n has been through the pricing of its builder.
Costed(c, n) == \E i \in 1..(n.pos - 1) : ScriptOf(c)[i] = "cost"

\* What the object d and the local state n of call c have of the price: once both
\* EIP-1559 fields of the object are set they stay, so the base cost is asked for
\* at the cap, and the value and the mint value are what they were priced at.
PricedAs(c, d, n) ==
    /\ d.maxFee = None => d.gasPrice = None
    /\ d.maxFee # None => d.prio # None
    /\ d.route = "ethOnEth" /\ d.value # None => d.maxFee # None /\ d.value = FullMint(d)
    /\ n.end = "running" =>
          /\ ScriptOf(c)[n.pos] \notin {"dummy", "nonce", "fee"} => d.maxFee # None
          /\ Costed(c, n) =>
                /\ d.maxFee # None
                /\ n.mint = FullMint(d)
                /\ d.route = "ethOnEth" => d.value # None

\* A self-priced object keeps its price however often it is deposited or estimated.
PriceKept ==
    \A c \in Calls :
        LET t == tx[c]["deposit"]
        IN  SelfPriced(asked[ObjOf[c]]) /\ ~FeeAsked(c) =>
                /\ PricedAs(c, Obj(c), call[c])
                /\ t.status # "none" => t.mint >= BaseCost(t.cap) + L2Value(Obj(c).route, t)

ObjectInv ==
    /\ ObjectKept
    /\ TakenIsGiven
    /\ BuiltAsObject
    /\ AtMostOneDepositPerObject
    /\ PriceKept

-----------------------------------------------------------------------------
(***************************************************************************)
(* The inductive invariant of a program that waits.                        *)
(***************************************************************************)

\* What the program does: it starts a call when all its transactions are mined, or
\* makes one call only; gives each call an object of its own; names a second bridge
\* only where the approval goes to it.
Waits == Discipline = "settled" \/ \A c, d \in Calls : c = d
FreshObjects == \A c, d \in Calls : ObjOf[c] = ObjOf[d] => c = d
SharedBridge == \A d \in Requests : d.route = "tokenOnEth" => d.bridge = None

Waiting(c) == Stage(c) \in Approvals /\ call[c].sub = "wait"

\* One call runs, the pool has nothing but the approval it waits for, what it has
\* built is what it sends next, and an approval takes the next nonce.
PoolKnown ==
    /\ \A c, d \in Calls : Running(c) /\ Running(d) => c = d
    /\ \A c, d \in Calls, j, k \in Kinds :
          tx[c][j].status = "pending" /\ tx[d][k].status = "pending" => c = d /\ j = k
    /\ \A c, d \in Calls, k \in Kinds :
          Running(c) /\ tx[d][k].status = "pending" => d = c /\ Waiting(c) /\ Stage(c) = k
    /\ \A c \in Calls, k \in Kinds :
          Running(c) /\ tx[c][k].status = "built" =>
             IF k = "deposit" THEN Stage(c) = "send"
             ELSE Stage(c) = k /\ call[c].sub = "send" /\ tx[c][k].nonce = count
    /\ \A c \in Calls, k \in Kinds : tx[c][k].status # "dropped"
    /\ \A c \in Calls : call[c].end # "underpriced"

\* The nonce of a fresh object stays the next one until its deposit is sent.
NextNonce ==
    \A c \in Calls :
        FreshObjects /\ asked[ObjOf[c]].nonce = None =>
            /\ call[c].end = "idle" => Obj(c).nonce = None
            /\ call[c].end # "nonceTooLow"
            /\ Running(c) /\ call[c].op = "deposit" =>
                  /\ call[c].given = None
                  /\ Stage(c) = "nonce" => Obj(c).nonce = None
                  /\ Stage(c) # "nonce" /\ ~Waiting(c) => Obj(c).nonce = count

\* The allowance of the bridge that is approved is short until the approval is sent.
ShortUntilSent ==
    SharedBridge =>
        \A c \in Calls, k \in Approvals :
            Running(c) /\ Stage(c) = k =>
                /\ call[c].sub \in {"approve", "send"} =>
                      allowance[k][ApprovedSpender(c, k)] < NeededAmount(c, k)
                /\ call[c].sub \in {"send", "wait"} => tx[c][k].amount = NeededAmount(c, k)

\* Call c has got over the approval of kind k.
Approved(c, k) ==
    \/ \E i \in 1..(call[c].pos - 1) : ScriptOf(c)[i] = k
    \/ Stage(c) = k /\ call[c].sub = "wait" /\ Mined(c, k)

\* From then on the allowance suffices for what the deposit will pull.
CoveredOnceApproved ==
    SharedBridge /\ FairCost > 0 =>
        \A c \in Calls :
            LET t == tx[c]["deposit"]
            IN  /\ Running(c) /\ Costed(c, call[c]) /\ Obj(c).route # "ethOnEth"
                   => call[c].mint > 0
                /\ \A k \in Pulled(Obj(c).route) :
                      Flagged(c, k) /\ tx[c][k].status # "reverted" =>
                         /\ Running(c) /\ Approved(c, k)
                            => allowance[k][PullSpender(c, k)] >= NeededAmount(c, k)
                         /\ t.status = "pending" \/ (Running(c) /\ t.status = "built")
                            => AllowanceCovers(c, t, k)

WaitingInv ==
    /\ PoolKnown
    /\ NextNonce
    /\ ShortUntilSent
    /\ CoveredOnceApproved

=============================================================================
