------------------------------- MODULE L2Senders -------------------------------
(***************************************************************************)
(* Everything that sends from one L2 account: WalletL2's transfer and      *)
(* withdraw, a SmartAccount's transfer, withdraw and send_transaction, and *)
(* LegacyContractFactory's deploy with the address a program precomputed.  *)
(* An action is the code between two RPC answers.  The calls may overlap;  *)
(* only an object is given to one call at a time.                          *)
(***************************************************************************)
EXTENDS Integers, Sequences

CONSTANTS
    None,               \* Python's None
    Calls,              \* calls of the methods
    Objects,            \* the objects the program hands to them
    ObjOf,              \* the object of each call
    Requests,           \* the objects as the program may write them, together
    StartNonces,        \* transactions the account may have sent before
    StartDeployments,   \* contracts it may have created before
    ByteOrder,          \* sys.byteorder
    WordBytes           \* the length of a word the addresses are hashed from (32)

\* A TransferTransaction, a WithdrawTransaction, a TxTransfer that is sent as it is,
\* and what a factory deploys by CREATE or CREATE2, as a contract or as an account.
Kinds == {"transfer", "withdraw", "tx", "create", "create2"}

\* The nonce in an object's options (for "tx" in its dictionary).  For a deployment:
\* are factory dependencies given, and how many contracts does the constructor deploy?
ObjectRequests == [kind: Kinds, nonce: Nat \cup {None}, deps: BOOLEAN, inner: Nat]

ASSUME SendersAssumption ==
    /\ None \notin Int
    /\ ObjOf \in [Calls -> Objects]
    /\ Calls \cap Objects = {}
    /\ Requests \subseteq [Objects -> ObjectRequests]
    /\ StartNonces \subseteq Nat
    /\ StartDeployments \subseteq Nat
    /\ ByteOrder \in {"little", "big"}
    /\ WordBytes \in Nat \ {0}

\* A SmartAccount whose address holds code sends no wallet transactions.
OpsOn(kind) ==
    CASE kind = "transfer" -> {"transfer", "saTransfer"}
      [] kind = "withdraw" -> {"withdraw", "saWithdraw"}
      [] kind = "tx" -> {"saSend"}
      [] OTHER -> {"deploy"}
SmartOps == {"saTransfer", "saWithdraw", "saSend"}
Ops == SmartOps \cup {"transfer", "withdraw", "deploy"}

Running == {"predict", "fill", "populate", "estimate", "send", "wait"}
Places == Running \cup {"idle", "returned", "raised"}

VARIABLES
    account,        \* does its address hold code, and its nonce at the start
    asked,          \* the objects as the program wrote them (history)
    object,         \* the nonce each object holds
    call,           \* the local state of each call
    pool,           \* the L2 node's pool
    mined,          \* the account's transactions, in order
    deployments,    \* the account's deployment nonce
    contracts,      \* the address of the contract each call has deployed
    collided,       \* calls whose nonce was found taken when they sent (history)
    overlapped,     \* calls that ran while another did (history)
    unsettled       \* calls that began with a transaction in the pool (history)

chain == <<pool, mined, deployments, contracts>>
history == <<collided, overlapped, unsettled>>
vars == <<account, asked, object, chain, call, history>>

Request(c) == asked[ObjOf[c]]
At(c, place) == call[c].pc = place
Active(c) == call[c].pc \in Running
Goto(c, place) == call' = [call EXCEPT ![c].pc = place]

-----------------------------------------------------------------------------
(***************************************************************************)
(* The L2 node, not part of the repository.                                *)
(***************************************************************************)

\* The transaction count in the latest block, and with the pool on top of it: the
\* first nonce from there on that is not taken.
Latest == account.start + Len(mined)
Taken(n) == \E t \in pool : t.nonce = n
PendingNonces ==
    {n \in {Latest} \cup {t.nonce + 1 : t \in pool} :
        n >= Latest /\ ~Taken(n) /\ \A m \in Latest..(n - 1) : Taken(m)}

-----------------------------------------------------------------------------
(***************************************************************************)
(* Addresses.                                                              *)
(***************************************************************************)

BytesNeeded(x) == CHOOSE k \in 0..WordBytes : x < 256 ^ k /\ \A j \in 0..(k - 1) : x >= 256 ^ j
LittleEndian(x) == [i \in 1..BytesNeeded(x) |-> (x \div 256 ^ (i - 1)) % 256]
BigEndian(x) == [i \in 1..BytesNeeded(x) |-> LittleEndian(x)[BytesNeeded(x) + 1 - i]]

\* int_to_bytes: the bytes in the order of the machine.
IntToBytes(x) == IF ByteOrder = "little" THEN LittleEndian(x) ELSE BigEndian(x)

\* pad_front_bytes and pad_back_bytes.
PadFront(bytes) == [i \in 1..(WordBytes - Len(bytes)) |-> 0] \o bytes
PadBack(bytes) == bytes \o [i \in 1..(WordBytes - Len(bytes)) |-> 0]

\* Hashes do not collide: an address is what it is the hash of.
\* A bug: the nonce is padded at the wrong end.
ComputeCreateAddressPadBack(n) == <<"create", PadBack(IntToBytes(n))>>

\* compute_l2_create_address.
ComputeCreateAddress(n) == <<"create", PadFront(IntToBytes(n))>>

\* compute_l2_create2_address: of the bytecode, the constructor's data and the salt.
ComputeCreate2Address(o) == <<"create2", o>>

\* The address at which the ContractDeployer creates the contract of call c.
CreatedAddress(c) ==
    IF Request(c).kind = "create" THEN <<"create", PadFront(BigEndian(deployments))>>
                                  ELSE <<"create2", ObjOf[c]>>

\* The ContractDeployed events of call c's receipt: the contracts its constructor
\* deploys come first.
DeployEvents(c) ==
    IF contracts[c] = None THEN << >>
    ELSE [k \in 1..Request(c).inner |-> <<"inner", c, k>>] \o <<contracts[c]>>

-----------------------------------------------------------------------------
(***************************************************************************)
(* The code.                                                               *)
(***************************************************************************)

\* The stages of a method.  Population estimates the fee before it reads the nonce
\* when the sender's address holds code, and after it otherwise.
First(op) ==
    CASE op = "deploy" -> "predict"
      [] op = "saSend" -> IF account.code THEN "estimate" ELSE "populate"
      [] OTHER -> "fill"
AfterFill(op) == IF op \in SmartOps /\ ~account.code THEN "populate" ELSE "estimate"
AfterPopulate == IF account.code THEN "send" ELSE "estimate"
AfterEstimate(op) == IF op \in SmartOps /\ account.code THEN "populate" ELSE "send"

Begin(c) ==
    /\ At(c, "idle")
    /\ \A d \in Calls : Active(d) => ObjOf[d] # ObjOf[c]
    /\ \E op \in OpsOn(Request(c).kind) :
        /\ account.code => op \in SmartOps
        /\ call' = [call EXCEPT ![c].pc = First(op), ![c].op = op,
                                ![c].nonce = IF op = "saSend" THEN object[ObjOf[c]] ELSE None]
    /\ LET others == {d \in Calls : Active(d)}
       IN overlapped' = overlapped \cup others \cup (IF others = {} THEN {} ELSE {c})
    /\ unsettled' = IF pool = {} THEN unsettled ELSE unsettled \cup {c}
    /\ UNCHANGED <<account, asked, object, chain, collided>>

\* What the program does before a deployment: getDeploymentNonce, and the address.
Predict(c) ==
    /\ At(c, "predict")
    /\ call' = [call EXCEPT ![c].pc = "fill",
           ![c].predicted = IF Request(c).kind = "create" THEN ComputeCreateAddress(deployments)
                                                          ELSE ComputeCreate2Address(ObjOf[c])]
    /\ UNCHANGED <<account, asked, object, chain, history>>

\* A bug: the options are filled in a copy.
RememberNonceInCopy(o, n) == object' = object

\* get_transfer_transaction writes the nonce it takes into the caller's options.
RememberNonce(o, n) == object' = [object EXCEPT ![o] = n]

GivenNonce(o) == IF object[o] = None THEN Latest ELSE object[o]

FillTransfer(c) ==
    /\ At(c, "fill")
    /\ call[c].op \in {"transfer", "saTransfer"}
    /\ RememberNonce(ObjOf[c], GivenNonce(ObjOf[c]))
    /\ call' = [call EXCEPT ![c].pc = AfterFill(call[c].op), ![c].nonce = GivenNonce(ObjOf[c])]
    /\ UNCHANGED <<account, asked, chain, history>>

\* The options of a withdrawal are left alone.  A SmartAccount with code replaces the
\* nonce that was read by "options.nonce or 0".
FillWithdraw(c) ==
    /\ At(c, "fill")
    /\ call[c].op \in {"withdraw", "saWithdraw"}
    /\ call' = [call EXCEPT ![c].pc = AfterFill(call[c].op),
           ![c].nonce = IF account.code /\ object[ObjOf[c]] = None THEN 0
                                                                  ELSE GivenNonce(ObjOf[c])]
    /\ UNCHANGED <<account, asked, object, chain, history>>

\* A bug: a deployment takes its nonce from the latest block.
DeployNoncesLatest == {Latest}

\* The four deployments take theirs from the pool.
DeployNonces == PendingNonces

FillDeploy(c) ==
    /\ At(c, "fill")
    /\ call[c].op = "deploy"
    /\ \E n \in DeployNonces : call' = [call EXCEPT ![c].pc = "estimate", ![c].nonce = n]
    /\ UNCHANGED <<account, asked, object, chain, history>>

\* A bug: an absent nonce is kept.
PopulatedNoncesGiven(n) == {n}

\* A bug: the nonce that was chosen is read again.
PopulatedNoncesPending(n) == PendingNonces

\* tx["nonce"] or the pending count: a nonce of zero counts as none.
PopulatedNonces(n) == IF n \in {None, 0} THEN PendingNonces ELSE {n}

\* populate_transaction_ecdsa writes into the transaction's dictionary, which is the
\* caller's object only in send_transaction.
Populate(c) ==
    /\ At(c, "populate")
    /\ \E n \in PopulatedNonces(call[c].nonce) :
        /\ call' = [call EXCEPT ![c].pc = AfterPopulate, ![c].nonce = n]
        /\ object' = IF call[c].op = "saSend" THEN [object EXCEPT ![ObjOf[c]] = n] ELSE object
    /\ UNCHANGED <<account, asked, chain, history>>

\* zks_estimate_fee or eth_estimateGas, and the other RPCs whose answers are not nonces.
Estimate(c) ==
    /\ At(c, "estimate")
    /\ Goto(c, AfterEstimate(call[c].op))
    /\ UNCHANGED <<account, asked, object, chain, history>>

\* The node has the transaction; a deployment goes on to wait, or the answer is lost.
Answered(c) ==
    \E place \in {IF call[c].op = "deploy" THEN "wait" ELSE "returned", "raised"} : Goto(c, place)

Tx(c) == [call |-> c, nonce |-> call[c].nonce]
TooLow(c) == call[c].nonce < Latest

SendAccepted(c) ==
    /\ At(c, "send")
    /\ ~TooLow(c)
    /\ ~Taken(call[c].nonce)
    /\ pool' = pool \cup {Tx(c)}
    /\ Answered(c)
    /\ UNCHANGED <<account, asked, object, mined, deployments, contracts, history>>

\* Of two transactions with one nonce the pool keeps the one that pays more.
SendReplaces(c) ==
    /\ At(c, "send")
    /\ ~TooLow(c)
    /\ Taken(call[c].nonce)
    /\ pool' = {t \in pool : t.nonce # call[c].nonce} \cup {Tx(c)}
    /\ collided' = collided \cup {c}
    /\ Answered(c)
    /\ UNCHANGED <<account, asked, object, mined, deployments, contracts, overlapped, unsettled>>

SendRefused(c) ==
    /\ At(c, "send")
    /\ TooLow(c) \/ Taken(call[c].nonce)
    /\ collided' = collided \cup {c}
    /\ Goto(c, "raised")
    /\ UNCHANGED <<account, asked, object, chain, overlapped, unsettled>>

\* A bug: the first event is taken for that of the contract.
EventIndexFirst == 1

\* extract_contract_address takes the second ContractDeployed event.
EventIndex == 2

\* deploy: from the events when dependencies were given, else the receipt's
\* contractAddress.  The receipt's status is not looked at.
Receipt(c) ==
    /\ At(c, "wait")
    /\ \E i \in 1..Len(mined) : mined[i].call = c
    /\ IF ~Request(c).deps
       THEN call' = [call EXCEPT ![c].pc = "returned", ![c].address = contracts[c]]
       ELSE IF Len(DeployEvents(c)) < EventIndex
       THEN Goto(c, "raised")
       ELSE call' = [call EXCEPT ![c].pc = "returned", ![c].address = DeployEvents(c)[EventIndex]]
    /\ UNCHANGED <<account, asked, object, chain, history>>

\* An RPC raises, or the wait for the receipt times out.
Fails(c) ==
    /\ Active(c)
    /\ Goto(c, "raised")
    /\ UNCHANGED <<account, asked, object, chain, history>>

-----------------------------------------------------------------------------
(***************************************************************************)
(* The L2 chain.                                                           *)
(***************************************************************************)

\* A transaction is included; a deployment may revert, and one by CREATE2 reverts at
\* an address that is in use.
Mine(t) ==
    /\ t.nonce = Latest
    /\ mined' = Append(mined, t)
    /\ pool' = pool \ {t}
    /\ \/ UNCHANGED <<deployments, contracts>>
       \/ /\ call[t.call].op = "deploy"
          /\ \A d \in Calls : contracts[d] # CreatedAddress(t.call)
          /\ contracts' = [contracts EXCEPT ![t.call] = CreatedAddress(t.call)]
          /\ deployments' = IF Request(t.call).kind = "create" THEN deployments + 1 ELSE deployments
    /\ UNCHANGED <<account, asked, object, call, history>>

-----------------------------------------------------------------------------

Init ==
    /\ account \in [code: BOOLEAN, start: StartNonces]
    /\ asked \in Requests
    /\ account.code => \A o \in Objects : asked[o].kind \notin {"create", "create2"}
    /\ object = [o \in Objects |-> asked[o].nonce]
    /\ call = [c \in Calls |-> [pc |-> "idle", op |-> None, nonce |-> None,
                                predicted |-> None, address |-> None]]
    /\ pool = {}
    /\ mined = << >>
    /\ deployments \in StartDeployments
    /\ contracts = [c \in Calls |-> None]
    /\ collided = {}
    /\ overlapped = {}
    /\ unsettled = {}

Sending(c) == SendAccepted(c) \/ SendReplaces(c) \/ SendRefused(c)

Code(c) ==
    \/ Begin(c) \/ Predict(c) \/ FillTransfer(c) \/ FillWithdraw(c) \/ FillDeploy(c)
    \/ Populate(c) \/ Estimate(c) \/ Sending(c) \/ Receipt(c) \/ Fails(c)

Next == (\E c \in Calls : Code(c)) \/ (\E t \in pool : Mine(t))

Spec == Init /\ [][Next]_vars

-----------------------------------------------------------------------------
(***************************************************************************)
(* Properties.                                                             *)
(***************************************************************************)

Txs == [call: Calls, nonce: Nat]

\* The variables keep their types; in particular nothing is sent without a nonce.
TypeOK ==
    /\ account \in [code: BOOLEAN, start: Nat]
    /\ asked \in [Objects -> ObjectRequests]
    /\ object \in [Objects -> Nat \cup {None}]
    /\ DOMAIN call = Calls
    /\ \A c \in Calls :
        /\ DOMAIN call[c] = {"pc", "op", "nonce", "predicted", "address"}
        /\ call[c].pc \in Places
        /\ call[c].op \in Ops \cup {None}
        /\ call[c].nonce \in Nat \cup {None}
        /\ At(c, "send") => call[c].nonce \in Nat
    /\ pool \subseteq Txs
    /\ mined \in Seq(Txs)

\* Does a retry of call c's object send the same nonce?  A transfer's nonce stays in
\* its options and a TxTransfer's in its dictionary, a withdrawal's only if the caller
\* chose it.  A SmartAccount forgets a nonce of zero.
Repeats(c) ==
    LET n == Request(c).nonce IN
    /\ call[c].op \in {"withdraw", "saWithdraw"} => n # None
    /\ call[c].op \in SmartOps => n # 0 /\ (n = None => account.start > 0)
    /\ call[c].op \in Ops \ {"deploy"}

\* The job of a call is its object when a retry repeats it, and else the call alone.
Job(c) == IF Repeats(c) THEN ObjOf[c] ELSE c

Once == INSTANCE Ledger WITH
            Jobs <- Calls \cup Objects,
            executed <- [i \in 1..Len(mined) |-> Job(mined[i].call)]

\* The senders implement the ledger: whatever is lost, refused, replaced or retried,
\* L2 executes at most one transaction for a transfer, a TxTransfer or a withdrawal
\* with a chosen nonce (get_transfer_transaction, populate_transaction_ecdsa).
ExecutesOnce == Once!Spec

\* The parts of the invariant behind ExecutesOnce.
MinedInOrder == \A i \in 1..Len(mined) : mined[i].nonce = account.start + i - 1

PoolAhead ==
    /\ \A t \in pool : t.nonce >= Latest
    /\ \A t, u \in pool : t.nonce = u.nonce => t = u

SentOnce ==
    /\ \A t, u \in pool : t.call = u.call => t = u
    /\ \A t \in pool, i \in 1..Len(mined) : mined[i].call # t.call
    /\ \A i, j \in 1..Len(mined) : mined[i].call = mined[j].call => i = j
    /\ \A t \in pool : call[t.call].pc \in {"wait", "returned", "raised"}
    /\ \A i \in 1..Len(mined) : call[mined[i].call].pc \in {"wait", "returned", "raised"}

OwnObject == \A c, d \in Calls : Active(c) /\ Active(d) /\ ObjOf[c] = ObjOf[d] => c = d

AskedOps == \A c \in Calls : ~At(c, "idle") => call[c].op \in OpsOn(Request(c).kind)

\* Zero is in no object that a SmartAccount must remember.
KnownNonces ==
    \A o \in Objects :
        /\ asked[o].nonce # None => object[o] # None
        /\ asked[o].nonce # 0 /\ (asked[o].nonce = None => account.start > 0) => object[o] # 0

CarriesNonce ==
    \A c \in Calls : At(c, "populate") \/ At(c, "estimate") \/ At(c, "send") =>
        /\ Repeats(c) \/ call[c].op = "saSend" => call[c].nonce = object[ObjOf[c]]
        /\ call[c].nonce = None => call[c].op = "saSend" /\ ~At(c, "send")
        /\ At(c, "populate") => call[c].op \in SmartOps
        /\ call[c].nonce = None /\ At(c, "estimate") => account.code

RemembersNonce ==
    /\ \A t \in pool : Repeats(t.call) => object[ObjOf[t.call]] = t.nonce
    /\ \A i \in 1..Len(mined) :
        Repeats(mined[i].call) => object[ObjOf[mined[i].call]] = mined[i].nonce

\* A transaction on its way carries the nonce its object remembers, and nothing but a
\* retry with that nonce follows it: the inductive invariant of the senders.
SenderInv ==
    /\ MinedInOrder
    /\ PoolAhead
    /\ SentOnce
    /\ OwnObject
    /\ AskedOps
    /\ KnownNonces
    /\ CarriesNonce
    /\ RemembersNonce

\* A nonce the caller chose is the one that is sent, except that a SmartAccount takes
\* zero for none (smart_account_utils.py:70).
ChosenNonceSent ==
    \A t \in pool \cup {mined[i] : i \in 1..Len(mined)} :
        LET n == Request(t.call).nonce IN
        n # None /\ call[t.call].op # "deploy" /\ (call[t.call].op \in SmartOps => n # 0)
            => t.nonce = n

\* Two transactions meet on one nonce only if their calls overlapped, if the object had
\* a nonce before, or if the nonce was read from the latest block while an earlier
\* transaction was in the pool.  So calls that wait for each other never collide, and
\* deployments need not even wait.
LatestReader(c) ==
    \/ call[c].op \in {"transfer", "withdraw", "saTransfer"}
    \/ call[c].op = "saWithdraw" /\ ~account.code
Explained(c) ==
    /\ call[c].op # "deploy"
    /\ \/ Request(c).nonce # None
       \/ \E d \in Calls \ {c} : ObjOf[d] = ObjOf[c] /\ ~At(d, "idle")
       \/ LatestReader(c) /\ c \in unsettled
CollisionsExplained == \A c \in collided \ overlapped : Explained(c)

\* The address deploy returns, if any, is that of the contract the call has deployed, as
\* long as a constructor given dependencies deploys one of them and no more.
DeployReturnsItsContract ==
    \A c \in Calls :
        call[c].address # None /\ (Request(c).deps => Request(c).inner <= 1)
            => call[c].address = contracts[c]

\* A deployment with nothing of the account in between lands where
\* compute_l2_create_address said.
PredictedIsDeployed ==
    \A c \in Calls \ (overlapped \cup unsettled) :
        contracts[c] # None => contracts[c] = call[c].predicted

\* The parts of the invariant behind the properties above.  An object keeps the nonce
\* the program wrote, unless send_transaction replaces a zero, and gets one only from a
\* call that began.
KeepsChosen ==
    \A o \in Objects :
        asked[o].nonce # None /\ (asked[o].kind = "tx" => asked[o].nonce # 0)
            => object[o] = asked[o].nonce
Untouched ==
    \A o \in Objects :
        asked[o].nonce = None /\ (\A d \in Calls : ObjOf[d] = o => At(d, "idle"))
            => object[o] = None

Histories ==
    /\ \A c \in collided : c \in Calls /\ ~At(c, "idle")
    /\ account.code => \A c \in Calls : ~At(c, "idle") => call[c].op \in SmartOps
    /\ \A c, d \in Calls : Active(c) /\ c \notin overlapped /\ Active(d) => c = d
    /\ \A c \in Calls \ (overlapped \cup unsettled) :
        Active(c) /\ ~At(c, "wait") => pool = {}

\* A nonce that no transaction of the account has or had; only a call sends.
Fresh(n) == n >= Latest /\ ~Taken(n)

\* Of a call alone that nothing excuses: until it sends, its nonce is fresh or will be
\* read again.
FreshNonces ==
    \A c \in Calls \ overlapped : Active(c) /\ ~Explained(c) =>
        /\ (At(c, "predict") \/ At(c, "fill")) /\ call[c].op # "deploy"
              => object[ObjOf[c]] = None
        /\ At(c, "send") \/ (At(c, "estimate") /\ AfterEstimate(call[c].op) = "send")
              => Fresh(call[c].nonce)
        /\ At(c, "populate") \/ (At(c, "estimate") /\ AfterEstimate(call[c].op) = "populate")
              => call[c].nonce \in {None, 0} \/ Fresh(call[c].nonce)

\* What has an address has been mined, by a deployment.
Deployed ==
    /\ deployments \in Nat
    /\ DOMAIN contracts = Calls
    /\ \A c \in Calls :
        /\ contracts[c] # None \/ call[c].address # None
              => \E i \in 1..Len(mined) : mined[i].call = c
        /\ contracts[c] # None => call[c].op = "deploy"

Predicts(c, n) ==
    call[c].predicted = IF Request(c).kind = "create" THEN ComputeCreateAddress(n)
                                                      ELSE ComputeCreate2Address(ObjOf[c])

\* A deployment alone keeps its place in the line of the account's transactions.
KeepsPlace ==
    \A c \in Calls \ (overlapped \cup unsettled) : call[c].op = "deploy" =>
        /\ At(c, "fill") \/ At(c, "estimate") \/ At(c, "send") => Predicts(c, deployments)
        /\ At(c, "estimate") \/ At(c, "send") => call[c].nonce = Latest
        /\ \A t \in pool : t.call = c => t.nonce = Latest /\ Predicts(c, deployments)

\* Its address was computed from the deployment nonce that the ContractDeployer used.
PredictsItsNonce ==
    \A c \in Calls \ (overlapped \cup unsettled) : contracts[c] # None =>
        IF Request(c).kind = "create"
        THEN \E n \in 0..(deployments - 1) :
                Predicts(c, n) /\ contracts[c] = <<"create", PadFront(BigEndian(n))>>
        ELSE contracts[c] = call[c].predicted

\* The inductive invariant of what the calls choose, predict and return.
ChoiceInv ==
    /\ KeepsChosen
    /\ Untouched
    /\ Histories
    /\ FreshNonces
    /\ CollisionsExplained
    /\ Deployed
    /\ DeployReturnsItsContract
    /\ KeepsPlace
    /\ PredictsItsNonce

=============================================================================
