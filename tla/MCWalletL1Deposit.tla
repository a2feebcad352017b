-------------------------- MODULE MCWalletL1Deposit --------------------------
(***************************************************************************)
(* Instances of WalletL1Deposit for TLC.                                   *)
(***************************************************************************)
EXTENDS WalletL1Deposit, TLC

CONSTANTS c1, c2, c3, o1, o2

OneCall == [c \in {c1} |-> o1]
\* A call, its retry, and a call with another object.
RetryAndOther == (c1 :> o1) @@ (c2 :> o1) @@ (c3 :> o2)
Alike == Permutations({c1, c2})
\* Two calls with an object each, named after its call so that the two are alike.
OwnObjects == [c \in {c1, c2} |-> c]

MCBaseFees == {2, 6}

\* Allowances: nothing approved yet, or plenty for the shared bridge.
NoGrant == [k \in Approvals |-> [s \in Bridges |-> 0]]
SharedGrant == [k \in Approvals |-> [s \in Bridges |-> IF s = "shared" THEN 30 ELSE 0]]
MCGrants == {NoGrant, SharedGrant}
NothingGranted == {NoGrant}

Plain(r) ==
    [route |-> r, bridge |-> None, approveErc20 |-> FALSE, approveBase |-> FALSE,
     tip |-> 0, amount |-> 2, nonce |-> None, value |-> None, gasPrice |-> None,
     maxFee |-> None, prio |-> None, gas |-> FALSE, cut |-> FALSE]

Approving(r) == [Plain(r) EXCEPT !.approveErc20 = TRUE, !.approveBase = TRUE, !.tip = 1]

\* The fee fields a caller may set: none, both EIP-1559 fields, the cap alone,
\* the priority fee alone, a gas price.
WithFees(d) ==
    {d,
     [d EXCEPT !.maxFee = 9, !.prio = 2],
     [d EXCEPT !.maxFee = 9],
     [d EXCEPT !.prio = 2],
     [d EXCEPT !.gasPrice = 4]}

WithGas(d) == {d, [d EXCEPT !.gas = TRUE]}
WithNonce(d) == {d, [d EXCEPT !.nonce = 0], [d EXCEPT !.nonce = 1]}
\* A custom second bridge, on the routes whose approval reaches it.
WithBridge(d) ==
    IF d.route = "nonBaseOnNonEth" THEN {d, [d EXCEPT !.bridge = "custom"]} ELSE {d}

Each(f(_), S) == UNION {f(d) : d \in S}

Basic == {Plain(r) : r \in Routes} \cup {Approving(r) : r \in Routes}

\* Every route, with and without approvals, and every way to set the options.
AllRequests == Each(WithFees, Each(WithGas, Each(WithNonce, Each(WithBridge, Basic))))

\* One object for two calls, or one for each.
TwiceRequests ==
    {Approving("ethOnEth")} \cup
    {[Approving(r) EXCEPT !.gas = TRUE] :
        r \in {"tokenOnEth", "baseOnNonEth", "nonBaseOnNonEth"}}

\* Two fresh objects whose deposits pull the base token.
SettledRequests ==
    {Approving("baseOnNonEth"), [Approving("nonBaseOnNonEth") EXCEPT !.gas = TRUE]}

\* A token deposit to an ETH chain through a bridge of its own.
CustomBridgeRequests == {[Approving("tokenOnEth") EXCEPT !.bridge = "custom", !.gas = TRUE]}

-----------------------------------------------------------------------------
\* A program that makes two of the calls: with one object, or with two.  To have fewer
\* states, the base fee rises once at most, and stays where an object approves a token.
TokenAsked == \E o \in Objects : asked[o].route \in {"tokenOnEth", "nonBaseOnNonEth"}

TwiceInit == Init /\ baseFee = 2

TwiceNext ==
    /\ Next
    /\ \E c \in Calls : call'[c].end = "idle"
    /\ baseFee' >= baseFee
    /\ TokenAsked => UNCHANGED baseFee

TwiceSpec == TwiceInit /\ [][TwiceNext]_vars

=============================================================================
