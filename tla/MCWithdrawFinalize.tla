-------------------------- MODULE MCWithdrawFinalize --------------------------
(***************************************************************************)
(* Instances of WithdrawFinalize for TLC.                                  *)
(***************************************************************************)
EXTENDS WithdrawFinalize, TLC

CONSTANTS c1, c2, c3

\* Two finalizations of one withdrawal and a check of it; the index of all three.
TwoFinalize == (c1 :> "finalize") @@ (c2 :> "finalize") @@ (c3 :> "check")
SameIndex == [c \in {c1, c2, c3} |-> 1]

\* Every transaction of at most three outputs, and two withdrawals with other logs
\* before and between them.
MCOutputSeqs ==
    UNION {[1..n -> OutputKinds] : n \in 0..3} \cup
    {<<"log", "base", "event", "shared">>, <<"event", "shared", "log", "legacy">>}

\* One finalization of the first withdrawal, of transactions whose base token
\* withdrawal has another message or another contract's logs before it.
OneFinalize == c1 :> "finalize"
FirstIndex == c1 :> 0
OutputsBeforeWithdrawal ==
    {<<"base">>, <<"event", "log", "base">>, <<"event", "plain", "base">>}

=============================================================================
