---------------------------- MODULE Transaction712 ----------------------------
(***************************************************************************)
(* How an L2 transaction is signed and encoded: Transaction712, the wallet *)
(* and the smart accounts that use it, and the programs that do so by      *)
(* themselves.  The signature is of the typed data that to_eip712_struct   *)
(* makes; what the node checks it against is what it decodes of encode's   *)
(* bytes.  The EIP712Meta of a transaction object is shared by all calls   *)
(* that get the object.  An action is the code between two RPC answers.    *)
(***************************************************************************)
EXTENDS Integers, FiniteSets

CONSTANTS
    None,           \* Python's None
    Calls,          \* calls of the senders
    Objects,        \* the transaction objects of the program, TxBase or options
    ObjOf,          \* the object given to a call that gets one
    ThisChain,      \* the chain id of the provider
    NetworkFee,     \* the fee the node estimates
    Wanted          \* what the program may write in an object

\* A smart account and a program that signs by itself get a TxBase of the program; the
\* other senders get the options of one and make it.
Smart == {"smartSend", "smartTransfer"}
SharesObject == {"smartSend", "program"}
CallKinds == Smart \cup {"transfer", "withdraw", "program"}

\* PaymasterParams, either field of which the code allows to be None.
Paymasters == [paymaster: {None, "paymaster"}, input: {None, "input"}]

\* What is written in an object: the options, and in the meta the paymaster.
Requested == [nonce: Nat \cup {None}, chain: Int \cup {None}, params: Paymasters \cup {None}]

ASSUME Transaction712Assumption ==
    /\ None \notin Int /\ None \notin Paymasters
    /\ ObjOf \in [Calls -> Objects]
    /\ Calls \cap Objects = {}
    /\ ThisChain \in Int
    /\ NetworkFee \in Nat \ {0}
    /\ Wanted \subseteq Requested

VARIABLES
    hasCode,    \* does the account's address hold code?
    request,    \* what the program wrote in its objects (history)
    txs,        \* what is in each object, and in what a call builds
    calls,      \* the local state of each call
    sent        \* the messages the node has taken

txvars == <<hasCode, request, txs, calls, sent>>

\* The transaction a call works on, and the paymaster in its meta.
TxOf(c) == IF calls[c].kind \in SharesObject THEN ObjOf[c] ELSE c
Params(c) == txs[TxOf(c)].params

Underway == {"begin", "populate", "nonce", "estimate", "sign", "send"}
CallAt(c, place) == calls[c].pc = place

\* The node's count of the account's transactions: those it takes as signed.
Count == Cardinality({m \in sent : m.signature.content = m.content})

-----------------------------------------------------------------------------
(***************************************************************************)
(* The two forms of a transaction.                                         *)
(***************************************************************************)

\* to_eip712_struct, for the domain of a chain: the paymaster's address and its input
\* each on its own.  Of the chain only the domain knows.
SignedContent(t, chain, p) ==
    [nonce |-> t.nonce, fee |-> t.fee, chain |-> chain,
     paymaster |-> IF p = None THEN None ELSE p.paymaster,
     input |-> IF p = None THEN None ELSE p.input]

\* encode writes the paymaster's address and its input, or neither.
EncodedParams(p) ==
    IF p = None \/ p.paymaster = None \/ p.input = None
    THEN [paymaster |-> None, input |-> None] ELSE p

\* What the node decodes.
EncodedContent(t, p) ==
    [nonce |-> t.nonce, fee |-> t.fee, chain |-> t.chain,
     paymaster |-> EncodedParams(p).paymaster, input |-> EncodedParams(p).input]

\* A bug: a formatter that lets a paymaster without input pass.
FormattedLoosely(p) == TRUE

\* meta_formatter, which every estimation runs, makes a list of the input's bytes and
\* raises when there is none.
Formatted(p) == p # None => p.input # None

-----------------------------------------------------------------------------
(***************************************************************************)
(* The senders.                                                            *)
(***************************************************************************)

\* A value that Python takes for absent is replaced.
Or(value, default) == IF value \in {None, 0} THEN default ELSE value
Given(value, default) == IF value = None THEN default ELSE value

\* The scalars of tx712 are copies of the dictionary's, while the meta is the same.
Tx712(d) == [nonce |-> d.nonce, fee |-> d.fee, chain |-> d.chain]

\* get_transfer_transaction and get_withdraw_transaction make a dictionary and a meta
\* of the options; the former completes the options themselves.
Build(c) ==
    /\ CallAt(c, "begin")
    /\ calls[c].kind \notin SharesObject
    /\ LET d == [txs[ObjOf[c]] EXCEPT !.nonce = Given(@, Count), !.chain = Given(@, ThisChain)]
       IN  /\ txs' = [txs EXCEPT ![c] = d,
                                 ![ObjOf[c]] = IF calls[c].kind = "withdraw" THEN @ ELSE d]
           /\ calls' = [calls EXCEPT
                  ![c].pc = IF calls[c].kind \in Smart THEN "populate" ELSE "estimate",
                  ![c].tx = Tx712(d)]
    /\ UNCHANGED <<hasCode, request, sent>>

\* A program may estimate its transaction before it signs it.
Take(c) ==
    /\ CallAt(c, "begin")
    /\ calls[c].kind \in SharesObject
    /\ \E place \in IF calls[c].kind \in Smart THEN {"populate"} ELSE {"estimate", "sign"} :
          calls' = [calls EXCEPT ![c].pc = place, ![c].tx = Tx712(txs[TxOf(c)])]
    /\ UNCHANGED <<hasCode, request, txs, sent>>

\* populate_transaction_ecdsa sets the chain, and estimates before it reads the nonce
\* if the address holds code.
PopulateTx(c) ==
    /\ CallAt(c, "populate")
    /\ txs' = [txs EXCEPT ![TxOf(c)].chain = ThisChain]
    /\ calls' = [calls EXCEPT ![c].pc = IF hasCode THEN "estimate" ELSE "nonce",
                              ![c].tx = Tx712(txs'[TxOf(c)])]
    /\ UNCHANGED <<hasCode, request, sent>>

\* The end of populate: the fees go into the dictionary, and all of it into tx712.
Populated(c, d, fee) ==
    LET filled == [d EXCEPT !.fee = Or(@, fee)]
    IN  /\ txs' = [txs EXCEPT ![TxOf(c)] = filled]
        /\ calls' = [calls EXCEPT ![c].pc = "sign", ![c].tx = Tx712(filled)]

\* The nonce is asked for if there was none before the question.
ReadNonce(c) ==
    /\ CallAt(c, "nonce")
    /\ LET d == [txs[TxOf(c)] EXCEPT !.nonce = Or(calls[c].tx.nonce, Count)]
       IN  IF hasCode THEN Populated(c, d, NetworkFee)
           ELSE /\ txs' = [txs EXCEPT ![TxOf(c)] = d]
                /\ calls' = [calls EXCEPT ![c].pc = "estimate"]
    /\ UNCHANGED <<hasCode, request, sent>>

EstimateFee(c) ==
    /\ CallAt(c, "estimate")
    /\ Formatted(Params(c))
    /\ IF calls[c].kind \notin Smart
       THEN /\ calls' = [calls EXCEPT ![c].pc = "sign", ![c].tx.fee = Or(@, NetworkFee)]
            /\ UNCHANGED txs
       ELSE IF hasCode
       THEN /\ calls' = [calls EXCEPT ![c].pc = "nonce", ![c].tx = Tx712(txs[TxOf(c)])]
            /\ UNCHANGED txs
       ELSE Populated(c, txs[TxOf(c)], NetworkFee)
    /\ UNCHANGED <<hasCode, request, sent>>

\* A bug: what is signed is the transaction before the fees were filled in.
SignedTxUnfilled(c) == Tx712(txs[TxOf(c)])

\* What is signed is the tx712 that is encoded.
SignedTx(c) == calls[c].tx

\* The chain of the domain: WalletL2.transfer takes the one of the options.
DomainChain(c) == IF calls[c].kind = "transfer" THEN calls[c].tx.chain ELSE ThisChain

\* A bug: a custom signature is made once.
CustomSignatureOnce(old, new) == IF old = None THEN new ELSE old

\* A smart account leaves its signature in the meta.
CustomSignature(old, new) == new

\* A bug: a number that is absent is encoded.
EncodableAlways(t) == TRUE

\* RLP refuses what is absent.
Encodable(t) == t.chain # None /\ t.nonce # None

\* Signing and encoding.  A custom signature in the meta goes before the signature that
\* encode is given.
SignTx(c) ==
    /\ CallAt(c, "sign")
    /\ Encodable(calls[c].tx)
    /\ LET d == txs[TxOf(c)]
           own == [content |-> SignedContent(SignedTx(c), DomainChain(c), Params(c)), by |-> c]
           custom == IF calls[c].kind \in Smart THEN CustomSignature(d.signature, own)
                     ELSE d.signature
           message == [content |-> EncodedContent(calls[c].tx, Params(c)),
                       signature |-> Given(custom, own)]
       IN  /\ txs' = [txs EXCEPT ![TxOf(c)].signature = custom]
           /\ calls' = [calls EXCEPT ![c].pc = "send", ![c].message = message]
    /\ UNCHANGED <<hasCode, request, sent>>

SendRaw(c) ==
    /\ CallAt(c, "send")
    /\ sent' = sent \cup {[call |-> c, content |-> calls[c].message.content,
                           signature |-> calls[c].message.signature]}
    /\ calls' = [calls EXCEPT ![c].pc = "returned"]
    /\ UNCHANGED <<hasCode, request, txs>>

\* Any RPC may fail; a transaction with no chain id or no nonce is not encoded.
CallFails(c) ==
    /\ calls[c].pc \in Underway
    /\ calls' = [calls EXCEPT ![c].pc = "raised"]
    /\ UNCHANGED <<hasCode, request, txs, sent>>

-----------------------------------------------------------------------------
Idle == [kind |-> "program", pc |-> "begin", tx |-> None, message |-> None]

\* What the program wrote in an object, as yet without fees or signature.
Dictionary(o) ==
    [nonce |-> request[o].nonce, chain |-> request[o].chain, params |-> request[o].params,
     fee |-> 0, signature |-> None]

Transaction712Init ==
    /\ hasCode \in BOOLEAN
    /\ request \in [Objects -> Wanted]
    /\ txs = [x \in Objects \cup Calls |-> IF x \in Calls THEN None ELSE Dictionary(x)]
    /\ \E kind \in [Calls -> CallKinds] :
          /\ \A c, d \in Calls :
                ObjOf[c] = ObjOf[d] => (kind[c] \in SharesObject <=> kind[d] \in SharesObject)
          /\ calls = [c \in Calls |-> [Idle EXCEPT !.kind = kind[c]]]
    /\ sent = {}

Transaction712Next ==
    \E c \in Calls :
        \/ Build(c) \/ Take(c) \/ PopulateTx(c) \/ ReadNonce(c) \/ EstimateFee(c)
        \/ SignTx(c) \/ SendRaw(c) \/ CallFails(c)

Transaction712Spec == Transaction712Init /\ [][Transaction712Next]_txvars

-----------------------------------------------------------------------------
(***************************************************************************)
(* Properties.                                                             *)
(***************************************************************************)

Contents ==
    [nonce: Nat, fee: Nat, chain: Int, paymaster: {None, "paymaster"}, input: {None, "input"}]
Signatures == [content: Contents, by: Calls]
Messages == [call: Calls, content: Contents, signature: Signatures]

\* The type invariant; the node gets no transaction without a nonce or a chain id.
Transaction712TypeOK ==
    /\ hasCode \in BOOLEAN
    /\ request \in [Objects -> Requested]
    /\ \A x \in Objects \cup Calls :
          txs[x] # None => /\ txs[x].params \in Paymasters \cup {None}
                           /\ txs[x].signature \in Signatures \cup {None}
    /\ sent \in SUBSET Messages

Asked(m) == request[ObjOf[m.call]]

\* One of a paymaster's two fields is given without the other.
Lopsided(p) == p # None /\ (p.paymaster = None) # (p.input = None)

\* The node takes the signature of every message for one of what it decodes, but for
\* three cases: the signature is that of another call, the options name half a
\* paymaster, or a withdrawal (or a program's own transaction) is given the id of
\* another chain.
SignaturesExplained ==
    \A m \in sent :
        \/ m.signature.content = m.content
        \/ m.signature.by # m.call
        \/ Lopsided(Asked(m).params)
        \/ calls[m.call].kind \in {"withdraw", "program"} /\ m.content.chain # ThisChain

\* A message carries the signature of another call only if a program signs an object
\* by itself that a smart account has signed: the custom signature it left goes first.
\* A smart account signs anew, each time it is given an object.
OnlyProgramsSendStaleSignatures ==
    \A m \in sent :
        m.signature.by # m.call =>
            /\ calls[m.call].kind = "program"
            /\ calls[m.signature.by].kind = "smartSend"

\* No sender of the SDK drops the paymaster that was asked for: one without an input
\* would be left out of the message, and the account would pay.
PaymasterKept ==
    \A m \in sent :
        LET p == Asked(m).params
        IN  calls[m.call].kind # "program" /\ p # None => m.content.paymaster = p.paymaster

-----------------------------------------------------------------------------
(***************************************************************************)
(* The inductive invariant of the senders.                                 *)
(***************************************************************************)

\* The dictionaries, the tx712s and the messages on their way.
Dictionaries ==
    [nonce: Nat \cup {None}, chain: Int \cup {None}, params: Paymasters \cup {None},
     fee: Nat, signature: Signatures \cup {None}]
Tx712s == [nonce: Nat \cup {None}, fee: Nat, chain: Int \cup {None}]
Encoded == [content: Contents, signature: Signatures]

\* A call that works on a transaction has one; only what was encoded is sent.
CallsTyped ==
    /\ calls \in [Calls -> [kind: CallKinds, pc: Underway \cup {"returned", "raised"},
                            tx: Tx712s \cup {None}, message: Encoded \cup {None}]]
    /\ DOMAIN txs = Objects \cup Calls
    /\ \A o \in Objects : txs[o] \in Dictionaries
    /\ \A c \in Calls : txs[c] \in Dictionaries \cup {None}
    /\ \A c \in Calls : calls[c].pc \in Underway \ {"begin"} =>
          txs[TxOf(c)] \in Dictionaries /\ calls[c].tx \in Tx712s
    /\ \A c \in Calls : CallAt(c, "send") => calls[c].message \in Encoded
    /\ IsFiniteSet(sent)

\* An object has the same kind of users; its meta keeps the paymaster it was given, and
\* of signatures only those that smart accounts leave in the objects they are given.
MetasKept ==
    /\ \A c, d \in Calls :
          ObjOf[c] = ObjOf[d] =>
              (calls[c].kind \in SharesObject <=> calls[d].kind \in SharesObject)
    /\ \A o \in Objects :
          /\ txs[o].params = request[o].params
          /\ txs[o].signature # None =>
                LET by == txs[o].signature.by
                IN  ObjOf[by] = o /\ calls[by].kind = "smartSend"
    /\ \A c \in Calls : calls[c].pc \in Underway \ {"begin"} /\ calls[c].kind \notin SharesObject =>
          /\ txs[c].params = request[ObjOf[c]].params
          /\ calls[c].kind \notin Smart => txs[c].signature = None

\* What a smart account signs is for its own chain, and what a sender signs it has
\* estimated, before the nonce or after it.
Populating ==
    \A c \in Calls :
        /\ calls[c].kind \in Smart /\ calls[c].pc \in {"nonce", "estimate", "sign"} =>
              txs[TxOf(c)].chain = ThisChain /\ calls[c].tx.chain = ThisChain
        /\ \/ CallAt(c, "nonce") /\ hasCode
           \/ calls[c].kind # "program" /\ calls[c].pc \in {"sign", "send"}
           => Formatted(request[ObjOf[c]].params)

\* The three properties, of the message m of call c.
Explained(c, m) ==
    LET p == request[ObjOf[c]].params
    IN  /\ \/ m.signature.content = m.content
           \/ m.signature.by # c
           \/ Lopsided(p)
           \/ calls[c].kind \in {"withdraw", "program"} /\ m.content.chain # ThisChain
        /\ m.signature.by # c =>
              calls[c].kind = "program" /\ calls[m.signature.by].kind = "smartSend"
        /\ calls[c].kind # "program" /\ p # None => m.content.paymaster = p.paymaster

MessagesExplained ==
    /\ \A c \in Calls : CallAt(c, "send") => Explained(c, calls[c].message)
    /\ \A m \in sent : Explained(m.call, m)

Transaction712Inv ==
    Transaction712TypeOK /\ CallsTyped /\ MetasKept /\ Populating /\ MessagesExplained

=============================================================================
