------------------------------- MODULE MCSigning -------------------------------
(***************************************************************************)
(* Two of the programs that make typed data, side by side: one describes a *)
(* struct and has it rebuilt (TypedData), the other signs and sends its    *)
(* transactions (Transaction712).  They share no state, so each is checked *)
(* with the other at its end.                                              *)
(***************************************************************************)
EXTENDS TypedData, Transaction712

CONSTANTS c1, c2, o1

Plain(s) == [base |-> s, dims |-> 0]
ArrayOf(s) == [base |-> s, dims |-> 1]
Matrix(s) == [base |-> s, dims |-> 2]

AtMostTwo(S) == {<< >>} \cup {<<a>> : a \in S} \cup {<<a, b>> : a, b \in S}

\* The root's members: up to two after a basic one, or a struct before one.
RootMembers ==
    {<<Plain(Basic)>> \o p :
        p \in AtMostTwo({Matrix(Basic), Plain(1), Plain(3), ArrayOf(3)})}
    \cup {<<a, b>> : a \in {Plain(1), Plain(2), ArrayOf(3)}, b \in {Plain(Basic), Plain(3)}}

OtherMembers ==
    AtMostTwo({Plain(1), Plain(2), Plain(3)}) \cup
    {<<ArrayOf(3), Plain(Basic)>>, <<ArrayOf(1), ArrayOf(Basic)>>}

MCSchemas ==
    {(1 :> a @@ 2 :> r @@ 3 :> b) : r \in RootMembers, a, b \in OtherMembers}

MCLikeBasic == {{}, {3}}

OneObject == [c \in {c1, c2} |-> o1]

MCWanted == [nonce: {None, 0, 1}, chain: {None, 1, 2}, params: Paymasters \cup {None}]

-----------------------------------------------------------------------------
\* A struct without members has been described and rebuilt.
TypedDataEnded ==
    /\ schema = [s \in Structs |-> << >>]
    /\ likeBasic = {}
    /\ stage = "verified"
    /\ struct_set = {}
    /\ stack = << >>
    /\ types = {Root}
    /\ parsed = {Root}
    /\ resolved = {Root}
    /\ rebuilt = [s \in Structs |-> << >>]
    /\ signature = [order |-> <<Root>>, members |-> (Root :> << >>)]

\* All calls have failed.
Transaction712Ended ==
    /\ hasCode = FALSE
    /\ request = [o \in Objects |-> [nonce |-> None, chain |-> None, params |-> None]]
    /\ txs = [x \in Objects \cup Calls |-> IF x \in Calls THEN None ELSE Dictionary(x)]
    /\ calls = [c \in Calls |-> [Idle EXCEPT !.pc = "raised"]]
    /\ sent = {}

SigningInit ==
    \/ TypedDataInit /\ Transaction712Ended
    \/ TypedDataEnded /\ Transaction712Init

SigningNext ==
    \/ TypedDataNext /\ UNCHANGED txvars
    \/ Transaction712Next /\ UNCHANGED tdvars

\* A walk is a function that runs to its end.
SigningSpec ==
    SigningInit /\ [][SigningNext]_<<tdvars, txvars>> /\ WF_tdvars(TypedDataNext /\ UNCHANGED txvars)

=============================================================================
