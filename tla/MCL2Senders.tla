------------------------------ MODULE MCL2Senders ------------------------------
(***************************************************************************)
(* Instances of L2Senders for TLC.                                         *)
(***************************************************************************)
EXTENDS L2Senders, TLC

CONSTANTS c1, c2, c3, o1, o2

\* Two calls of one object, a retry, and a call of another object.
RetryAndOther == (c1 :> o1) @@ (c2 :> o1) @@ (c3 :> o2)
SameObject == Permutations({c1, c2})

Simple(kind, n) == [kind |-> kind, nonce |-> n, deps |-> FALSE, inner |-> 0]
Deployment(kind, deps, inner) == [kind |-> kind, nonce |-> None, deps |-> deps, inner |-> inner]

\* Nonces left out, of zero and of one; deployments with and without dependencies.
Retried ==
    {Simple(kind, n) : kind \in {"transfer", "tx"}, n \in {None, 0, 1}} \cup
    {Simple("withdraw", n) : n \in {None, 1}} \cup
    {Deployment("create", TRUE, n) : n \in {0, 1, 2}} \cup {Deployment("create2", FALSE, 0)}
Other == {Simple("transfer", None), Deployment("create", FALSE, 0)}
MCRequests == {(o1 :> r) @@ (o2 :> s) : r \in Retried, s \in Other}

OneCall == c1 :> o1
OneCreate == {o1 :> Deployment("create", FALSE, 0)}

=============================================================================
