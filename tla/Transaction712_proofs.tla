------------------------- MODULE Transaction712_proofs -------------------------
(***************************************************************************)
(* Proofs about Transaction712: for any number of calls and objects, why a *)
(* signature may differ from the message it goes with, and that no sender  *)
(* drops the paymaster.  The inductive invariant, Transaction712Inv,       *)
(* follows the metas that calls share, the chain ids and the estimations   *)
(* up to the message.                                                      *)
(***************************************************************************)
EXTENDS Transaction712, FiniteSetTheorems, TLAPS

Places == Underway \cup {"returned", "raised"}
CallStates ==
    [kind: CallKinds, pc: Places, tx: Tx712s \cup {None}, message: Encoded \cup {None}]

\* A call that works on a transaction.
Working(c) == calls[c].pc \in Underway \ {"begin"}

LEMMA NoneIsNoNumber == None \notin Int /\ None \notin Nat /\ None # 0 /\ ThisChain # None
BY Transaction712Assumption

LEMMA TxOfTyped ==
    ASSUME NEW c \in Calls
    PROVE  /\ ObjOf[c] \in Objects
           /\ TxOf(c) \in Objects \cup Calls
           /\ TxOf(c) = IF calls[c].kind \in SharesObject THEN ObjOf[c] ELSE c
BY Transaction712Assumption DEF TxOf

\* The node's count is a number.
LEMMA CountTyped == ASSUME Transaction712Inv PROVE Count \in Nat
<1>. DEFINE S == {m \in sent : m.signature.content = m.content}
<1>1. IsFiniteSet(sent)
  BY DEF Transaction712Inv, CallsTyped
<1>2. IsFiniteSet(S)
  BY <1>1, FS_Subset
<1>. QED
  BY <1>2, FS_CardinalityType DEF Count

\* What is known of a call and of the dictionary it works on.
LEMMA CallTyped ==
    ASSUME Transaction712Inv, NEW c \in Calls
    PROVE  /\ calls \in [Calls -> CallStates]
           /\ calls[c] \in CallStates
           /\ calls[c].kind \in CallKinds /\ calls[c].pc \in Places
           /\ Working(c) => txs[TxOf(c)] \in Dictionaries /\ calls[c].tx \in Tx712s
           /\ CallAt(c, "send") => calls[c].message \in Encoded
BY DEF Transaction712Inv, CallsTyped, CallStates, Places, Working

-----------------------------------------------------------------------------
\* What a step of call c has to show: of itself, and that of what other calls share it
\* changes a signature or a chain id only as its kind may.
Own(c) ==
    /\ txs'[c] \in Dictionaries \cup {None}
    /\ Working(c)' => /\ txs'[TxOf(c)] \in Dictionaries
                      /\ calls'[c].tx \in Tx712s
    /\ Working(c)' /\ calls[c].kind \notin SharesObject =>
          /\ txs'[c].params = request[ObjOf[c]].params
          /\ calls[c].kind \notin Smart => txs'[c].signature = None
    /\ calls[c].kind \in Smart /\ calls'[c].pc \in {"nonce", "estimate", "sign"} =>
          txs'[TxOf(c)].chain = ThisChain /\ calls'[c].tx.chain = ThisChain
    /\ \/ calls'[c].pc = "nonce" /\ hasCode
       \/ calls[c].kind # "program" /\ calls'[c].pc \in {"sign", "send"}
       => Formatted(request[ObjOf[c]].params)
    /\ calls'[c].pc = "send" =>
          calls'[c].message \in Encoded /\ Explained(c, calls'[c].message)

Others(c) ==
    /\ DOMAIN txs' = Objects \cup Calls
    /\ \A d \in Calls \ {c} : txs'[d] = txs[d]
    /\ \A o \in Objects :
          /\ txs'[o] \in Dictionaries
          /\ txs'[o].params = txs[o].params
          /\ \/ txs'[o].signature = txs[o].signature
             \/ txs'[o].signature.by = c /\ ObjOf[c] = o /\ calls[c].kind = "smartSend"
          /\ \/ txs'[o].chain \in {txs[o].chain, ThisChain}
             \/ ObjOf[c] = o /\ calls[c].kind \notin SharesObject

Moved(c) ==
    /\ UNCHANGED <<hasCode, request>>
    /\ calls' \in [Calls -> CallStates]
    /\ \A d \in Calls \ {c} : calls'[d] = calls[d]
    /\ calls'[c].kind = calls[c].kind

\* What the node has taken is explained, before and after.
Delivered ==
    \/ sent' = sent
    \/ \E m \in Messages : sent' = sent \cup {m} /\ Explained(m.call, m)

LEMMA ExplainedStays ==
    ASSUME NEW c \in Calls, NEW d \in Calls, NEW m, m.signature.by \in Calls, Moved(c)
    PROVE  Explained(d, m)' <=> Explained(d, m)
<1>1. /\ \A x \in Calls : calls'[x].kind = calls[x].kind
      /\ request' = request
  BY DEF Moved
<1>. QED
  BY <1>1 DEF Explained, Lopsided

LEMMA LocalTyped ==
    ASSUME Transaction712Inv, NEW c \in Calls, Own(c), Others(c), Moved(c), Delivered
    PROVE  Transaction712TypeOK' /\ CallsTyped'
<1>0. Transaction712TypeOK /\ CallsTyped
  BY DEF Transaction712Inv
<1>1. sent' \in SUBSET Messages /\ IsFiniteSet(sent')
  BY <1>0, FS_AddElement DEF Delivered, Transaction712TypeOK, CallsTyped
<1>2. \A d \in Calls : txs'[d] \in Dictionaries \cup {None}
  BY <1>0 DEF Own, Others, CallsTyped
<1>3. Transaction712TypeOK'
  <2>1. \A t \in Dictionaries : /\ t.params \in Paymasters \cup {None}
                                /\ t.signature \in Signatures \cup {None}
    BY DEF Dictionaries
  <2>2. hasCode' \in BOOLEAN /\ request' \in [Objects -> Requested]
    BY <1>0 DEF Transaction712TypeOK, Moved
  <2>3. ASSUME NEW x \in Objects \cup Calls, txs'[x] # None
        PROVE  txs'[x] \in Dictionaries
    BY <1>2, <2>3 DEF Others
  <2>. QED
    BY <1>1, <2>1, <2>2, <2>3 DEF Transaction712TypeOK
<1>4. ASSUME NEW d \in Calls, Working(d)'
      PROVE  (txs[TxOf(d)])' \in Dictionaries /\ calls'[d].tx \in Tx712s
  <2>1. CASE d = c
    <3>1. TxOf(c)' = TxOf(c)
      BY DEF TxOf, Moved
    <3>. QED
      BY <1>4, <2>1, <3>1 DEF Own
  <2>2. CASE d # c
    <3>1. calls'[d] = calls[d] /\ TxOf(d)' = TxOf(d) /\ Working(d)
      BY <1>4, <2>2 DEF TxOf, Moved, Working
    <3>2. txs[TxOf(d)] \in Dictionaries /\ calls[d].tx \in Tx712s
      BY <3>1, CallTyped
    <3>3. CASE TxOf(d) = d
      BY <2>2, <3>1, <3>2, <3>3 DEF Others
    <3>4. CASE TxOf(d) \in Objects
      BY <3>1, <3>2, <3>4 DEF Others
    <3>. QED
      BY <3>3, <3>4, TxOfTyped
  <2>. QED
    BY <2>1, <2>2
<1>5. ASSUME NEW d \in Calls, calls'[d].pc = "send" PROVE calls'[d].message \in Encoded
  <2>1. CASE d = c
    BY <1>5, <2>1 DEF Own
  <2>2. CASE d # c
    BY <1>0, <1>5, <2>2 DEF Moved, CallsTyped, CallAt
  <2>. QED
    BY <2>1, <2>2
<1>. QED
  BY <1>1, <1>2, <1>3, <1>4, <1>5
     DEF CallsTyped, Moved, Others, CallStates, Places, Working, CallAt

LEMMA LocalMetas ==
    ASSUME Transaction712Inv, NEW c \in Calls, Own(c), Others(c), Moved(c)
    PROVE  MetasKept'
<1>0. MetasKept /\ CallsTyped
  BY DEF Transaction712Inv
<1>1. \A d \in Calls : calls'[d].kind = calls[d].kind
  BY DEF Moved
<1>2. \A d, e \in Calls :
         ObjOf[d] = ObjOf[e] =>
             (calls'[d].kind \in SharesObject <=> calls'[e].kind \in SharesObject)
  BY <1>0, <1>1 DEF MetasKept
<1>3. ASSUME NEW o \in Objects
      PROVE  /\ txs'[o].params = request'[o].params
             /\ txs'[o].signature # None =>
                   /\ ObjOf[txs'[o].signature.by] = o
                   /\ calls'[txs'[o].signature.by].kind = "smartSend"
  <2>1. txs'[o].params = request'[o].params
    BY <1>0 DEF MetasKept, Others, Moved
  <2>2. CASE txs'[o].signature = txs[o].signature /\ txs'[o].signature # None
    <3>1. txs[o].signature.by \in Calls
      BY <1>0, <2>2 DEF CallsTyped, Dictionaries, Signatures
    <3>. QED
      BY <1>0, <1>1, <2>1, <2>2, <3>1 DEF MetasKept
  <2>. QED
    BY <1>1, <2>1, <2>2 DEF Others
<1>4. ASSUME NEW d \in Calls, Working(d)', calls'[d].kind \notin SharesObject
      PROVE  /\ txs'[d].params = request'[ObjOf[d]].params
             /\ calls'[d].kind \notin Smart => txs'[d].signature = None
  <2>1. CASE d = c
    BY <1>1, <1>4, <2>1 DEF Own, Moved
  <2>2. CASE d # c
    BY <1>0, <1>4, <2>2 DEF Others, Moved, MetasKept, Working
  <2>. QED
    BY <2>1, <2>2
<1>. QED
  BY <1>2, <1>3, <1>4 DEF MetasKept, Working

LEMMA LocalPopulating ==
    ASSUME Transaction712Inv, NEW c \in Calls, Own(c), Others(c), Moved(c)
    PROVE  Populating'
<1>0. Populating /\ MetasKept
  BY DEF Transaction712Inv
<1>1. ASSUME NEW d \in Calls, calls'[d].kind \in Smart,
             calls'[d].pc \in {"nonce", "estimate", "sign"}
      PROVE  (txs[TxOf(d)].chain)' = ThisChain /\ calls'[d].tx.chain = ThisChain
  <2>0. TxOf(d)' = TxOf(d)
    BY DEF TxOf, Moved
  <2>1. CASE d = c
    BY <1>1, <2>0, <2>1 DEF Own, Moved
  <2>2. CASE d # c
    <3>1. calls'[d] = calls[d]
      BY <2>2 DEF Moved
    <3>2. txs[TxOf(d)].chain = ThisChain /\ calls[d].tx.chain = ThisChain
      BY <1>0, <1>1, <3>1 DEF Populating
    <3>3. CASE calls[d].kind \notin SharesObject
      BY <2>0, <2>2, <3>1, <3>2, <3>3 DEF TxOf, Others
    <3>4. CASE calls[d].kind \in SharesObject
      <4>1. ObjOf[d] = ObjOf[c] => calls[c].kind \in SharesObject
        BY <1>0, <3>4 DEF MetasKept
      <4>2. TxOf(d) = ObjOf[d] /\ ObjOf[d] \in Objects
        BY <3>4, TxOfTyped
      <4>. QED
        BY <2>0, <3>1, <3>2, <4>1, <4>2 DEF Others
    <3>. QED
      BY <3>3, <3>4
  <2>. QED
    BY <2>1, <2>2
<1>2. ASSUME NEW d \in Calls,
             \/ calls'[d].pc = "nonce" /\ hasCode'
             \/ calls'[d].kind # "program" /\ calls'[d].pc \in {"sign", "send"}
      PROVE  Formatted(request[ObjOf[d]].params)'
  <2>1. Formatted(request[ObjOf[d]].params)
    <3>1. CASE d = c
      BY <1>2, <3>1 DEF Own, Moved
    <3>2. CASE d # c
      BY <1>0, <1>2, <3>2 DEF Moved, Populating, CallAt
    <3>. QED
      BY <3>1, <3>2
  <2>. QED
    BY <2>1 DEF Formatted, Moved
<1>. QED
  BY <1>1, <1>2 DEF Populating, CallAt

LEMMA LocalMessages ==
    ASSUME Transaction712Inv, NEW c \in Calls, Own(c), Others(c), Moved(c), Delivered
    PROVE  MessagesExplained'
<1>0. MessagesExplained /\ Transaction712TypeOK
  BY DEF Transaction712Inv
<1>1. \A m \in Encoded \cup Messages : m.signature.by \in Calls
  BY DEF Encoded, Messages, Signatures
<1>2. ASSUME NEW d \in Calls, CallAt(d, "send")' PROVE Explained(d, calls[d].message)'
  <2>1. calls'[d].message \in Encoded /\ Explained(d, calls'[d].message)
    <3>1. CASE d = c
      BY <1>2, <3>1 DEF Own, CallAt
    <3>2. CASE d # c
      <4>1. calls'[d] = calls[d] /\ CallAt(d, "send")
        BY <1>2, <3>2 DEF Moved, CallAt
      <4>. QED
        BY <1>0, <4>1, CallTyped DEF MessagesExplained
    <3>. QED
      BY <3>1, <3>2
  <2>2. calls'[d].message.signature.by \in Calls
    BY <1>1, <2>1
  <2>3. request' = request /\ \A x \in Calls : calls'[x].kind = calls[x].kind
    BY DEF Moved
  <2>. QED
    BY <2>1, <2>2, <2>3 DEF Explained, Lopsided
<1>3. ASSUME NEW m \in sent' PROVE Explained(m.call, m)'
  <2>1. m \in Messages /\ Explained(m.call, m)
    BY <1>0, <1>3 DEF Delivered, MessagesExplained, Transaction712TypeOK
  <2>2. m.call \in Calls /\ m.signature.by \in Calls
    BY <1>1, <2>1 DEF Messages
  <2>. QED
    BY <2>1, <2>2, ExplainedStays
<1>. QED
  BY <1>2, <1>3 DEF MessagesExplained

LEMMA LocalStep ==
    ASSUME Transaction712Inv, NEW c \in Calls, Own(c), Others(c), Moved(c), Delivered
    PROVE  Transaction712Inv'
BY LocalTyped, LocalMetas, LocalPopulating, LocalMessages DEF Transaction712Inv

-----------------------------------------------------------------------------
(***************************************************************************)
(* The steps.                                                              *)
(***************************************************************************)

\* A call whose state alone changes.
LEMMA MovedTo ==
    ASSUME Transaction712Inv, NEW c \in Calls, NEW k \in CallStates,
           calls' = [calls EXCEPT ![c] = k], k.kind = calls[c].kind,
           UNCHANGED <<hasCode, request>>
    PROVE  Moved(c) /\ calls'[c] = k
BY CallTyped DEF Moved

\* The dictionary of call c is all that changes of the dictionaries.
LEMMA OthersKept ==
    ASSUME Transaction712Inv, NEW c \in Calls, NEW d \in Dictionaries,
           txs' = [txs EXCEPT ![TxOf(c)] = d],
           TxOf(c) \in Objects =>
              /\ d.params = txs[TxOf(c)].params
              /\ \/ d.signature = txs[TxOf(c)].signature
                 \/ d.signature.by = c /\ calls[c].kind = "smartSend"
              /\ d.chain \in {txs[TxOf(c)].chain, ThisChain}
    PROVE  /\ Others(c)
           /\ txs'[TxOf(c)] = d
           /\ txs'[c] \in Dictionaries \cup {None}
<1>0. CallsTyped
  BY DEF Transaction712Inv
<1>1. TxOf(c) \in Objects \cup Calls /\ TxOf(c) \in {ObjOf[c], c} /\ Objects \cap Calls = {}
      /\ ObjOf[c] \in Objects
  BY TxOfTyped, Transaction712Assumption
<1>2. txs'[TxOf(c)] = d
  BY <1>0, <1>1 DEF CallsTyped
<1>3. \A x \in Objects \cup Calls : x # TxOf(c) => txs'[x] = txs[x]
  BY <1>0, <1>1 DEF CallsTyped
<1>4. DOMAIN txs' = Objects \cup Calls
  BY <1>0 DEF CallsTyped
<1>5. \A x \in Calls \ {c} : txs'[x] = txs[x]
  BY <1>1, <1>3
<1>6. \A o \in Objects :
          /\ txs'[o] \in Dictionaries
          /\ txs'[o].params = txs[o].params
          /\ \/ txs'[o].signature = txs[o].signature
             \/ txs'[o].signature.by = c /\ ObjOf[c] = o /\ calls[c].kind = "smartSend"
          /\ txs'[o].chain \in {txs[o].chain, ThisChain}
  <2>. TAKE o \in Objects
  <2>1. CASE o = TxOf(c)
    <3>1. ObjOf[c] = o
      BY <1>1, <2>1
    <3>. QED
      BY <1>2, <2>1, <3>1
  <2>2. CASE o # TxOf(c)
    BY <1>0, <1>3, <2>2 DEF CallsTyped
  <2>. QED
    BY <2>1, <2>2
<1>7. txs'[c] \in Dictionaries \cup {None}
  BY <1>0, <1>2, <1>3 DEF CallsTyped
<1>. QED
  BY <1>2, <1>4, <1>5, <1>6, <1>7 DEF Others

LEMMA OthersUnchanged ==
    ASSUME Transaction712Inv, NEW c \in Calls, txs' = txs
    PROVE  Others(c) /\ txs'[c] \in Dictionaries \cup {None}
BY DEF Transaction712Inv, CallsTyped, Others

\* What tx712 copies of a dictionary.
LEMMA Tx712Typed ==
    ASSUME NEW d \in Dictionaries
    PROVE  Tx712(d) \in Tx712s /\ Tx712(d).chain = d.chain
BY DEF Dictionaries, Tx712, Tx712s

LEMMA FailsStep ==
    ASSUME Transaction712Inv, NEW c \in Calls, CallFails(c)
    PROVE  Transaction712Inv'
<1>. DEFINE k == [calls[c] EXCEPT !.pc = "raised"]
<1>1. calls' = [calls EXCEPT ![c] = k] /\ UNCHANGED <<hasCode, request, txs, sent>>
  BY DEF CallFails
<1>2. k \in CallStates /\ k.kind = calls[c].kind /\ k.pc = "raised"
  BY CallTyped DEF CallStates, Places
<1>3. Moved(c) /\ calls'[c] = k
  BY <1>1, <1>2, MovedTo
<1>4. Others(c) /\ txs'[c] \in Dictionaries \cup {None}
  BY <1>1, OthersUnchanged
<1>5. Own(c)
  BY <1>2, <1>3, <1>4 DEF Own, Working, Underway
<1>. QED
  BY <1>1, <1>3, <1>4, <1>5, LocalStep DEF Delivered

LEMMA SendStep ==
    ASSUME Transaction712Inv, NEW c \in Calls, SendRaw(c)
    PROVE  Transaction712Inv'
<1>. DEFINE k == [calls[c] EXCEPT !.pc = "returned"]
            m == [call |-> c, content |-> calls[c].message.content,
                  signature |-> calls[c].message.signature]
<1>1. calls' = [calls EXCEPT ![c] = k] /\ UNCHANGED <<hasCode, request, txs>>
      /\ sent' = sent \cup {m} /\ CallAt(c, "send")
  BY DEF SendRaw
<1>2. k \in CallStates /\ k.kind = calls[c].kind /\ k.pc = "returned"
  BY CallTyped DEF CallStates, Places
<1>3. Moved(c) /\ calls'[c] = k
  BY <1>1, <1>2, MovedTo
<1>4. Others(c) /\ txs'[c] \in Dictionaries \cup {None}
  BY <1>1, OthersUnchanged
<1>5. Own(c)
  BY <1>2, <1>3, <1>4 DEF Own, Working, Underway
<1>6. m \in Messages /\ Explained(m.call, m)
  <2>1. calls[c].message \in Encoded
    BY <1>1, CallTyped
  <2>2. m \in Messages
    BY <2>1 DEF Encoded, Messages
  <2>3. Explained(c, calls[c].message)
    BY <1>1 DEF Transaction712Inv, MessagesExplained
  <2>4. m.call = c /\ m.content = calls[c].message.content
        /\ m.signature = calls[c].message.signature
    OBVIOUS
  <2>. HIDE DEF m
  <2>. QED
    BY <2>2, <2>3, <2>4 DEF Explained
<1>. QED
  BY <1>1, <1>3, <1>4, <1>5, <1>6, LocalStep DEF Delivered

\* The dictionary a call works on has the paymaster that was asked for.
LEMMA ParamsKept ==
    ASSUME Transaction712Inv, NEW c \in Calls, Working(c)
    PROVE  /\ txs[TxOf(c)].params = request[ObjOf[c]].params
           /\ txs[TxOf(c)].params \in Paymasters \cup {None}
           /\ calls[c].kind \notin Smart /\ calls[c].kind \notin SharesObject =>
                 txs[TxOf(c)].signature = None
<1>1. MetasKept
  BY DEF Transaction712Inv
<1>2. txs[TxOf(c)].params \in Paymasters \cup {None}
  BY CallTyped DEF Dictionaries
<1>3. CASE calls[c].kind \in SharesObject
  BY <1>1, <1>2, <1>3, TxOfTyped DEF MetasKept
<1>4. CASE calls[c].kind \notin SharesObject
  BY <1>1, <1>2, <1>4, TxOfTyped DEF MetasKept, Working
<1>. QED
  BY <1>3, <1>4

LEMMA TakeStep ==
    ASSUME Transaction712Inv, NEW c \in Calls, Take(c)
    PROVE  Transaction712Inv'
<1>0. /\ calls[c].kind \in SharesObject /\ UNCHANGED <<hasCode, request, txs, sent>>
      /\ TxOf(c) = ObjOf[c] /\ txs[ObjOf[c]] \in Dictionaries
  BY TxOfTyped DEF Take, Transaction712Inv, CallsTyped
<1>1. PICK place \in IF calls[c].kind \in Smart THEN {"populate"} ELSE {"estimate", "sign"} :
         calls' = [calls EXCEPT ![c].pc = place, ![c].tx = Tx712(txs[TxOf(c)])]
  BY DEF Take
<1>. DEFINE k == [calls[c] EXCEPT !.pc = place, !.tx = Tx712(txs[TxOf(c)])]
<1>2. calls' = [calls EXCEPT ![c] = k]
  BY <1>1
<1>3. k \in CallStates /\ k.kind = calls[c].kind /\ k.pc = place /\ k.tx = Tx712(txs[ObjOf[c]])
      /\ k.tx \in Tx712s
  BY <1>0, CallTyped, Tx712Typed DEF CallStates, Places, Underway
<1>4. Moved(c) /\ calls'[c] = k
  BY <1>0, <1>2, <1>3, MovedTo
<1>5. Others(c) /\ txs'[c] \in Dictionaries \cup {None}
  BY <1>0, OthersUnchanged
<1>6. calls[c].kind # "program" => calls[c].kind \in Smart
  BY <1>0 DEF SharesObject, Smart
<1>7. TxOf(c)' = TxOf(c)
  BY <1>0, <1>3, <1>4 DEF TxOf
<1>. HIDE DEF k
<1>8. Own(c)
  BY <1>0, <1>3, <1>4, <1>5, <1>6 DEF Own
<1>. QED
  BY <1>0, <1>4, <1>5, <1>8, LocalStep DEF Delivered

\* A step that changes the nonce, the chain id or the fee of the dictionary in populate
\* or before.
LEMMA FilledStep ==
    ASSUME Transaction712Inv, NEW c \in Calls, Working(c),
           NEW d \in Dictionaries, NEW k \in CallStates,
           txs' = [txs EXCEPT ![TxOf(c)] = d], calls' = [calls EXCEPT ![c] = k],
           UNCHANGED <<hasCode, request, sent>>,
           k.kind = calls[c].kind, k.tx \in Tx712s,
           d.params = txs[TxOf(c)].params, d.signature = txs[TxOf(c)].signature,
           d.chain \in {txs[TxOf(c)].chain, ThisChain},
           k.pc \in {"nonce", "estimate", "sign"},
           calls[c].kind \in Smart => d.chain = ThisChain /\ k.tx.chain = ThisChain,
           (k.pc = "nonce" /\ hasCode) \/ (calls[c].kind # "program" /\ k.pc = "sign")
              => Formatted(request[ObjOf[c]].params)
    PROVE  Transaction712Inv'
<1>1. Moved(c) /\ calls'[c] = k
  BY MovedTo
<1>2. Others(c) /\ txs'[TxOf(c)] = d /\ txs'[c] \in Dictionaries \cup {None}
  BY OthersKept
<1>3. Working(c)' /\ calls[c].kind \notin SharesObject =>
         /\ txs'[c].params = request[ObjOf[c]].params
         /\ calls[c].kind \notin Smart => txs'[c].signature = None
  BY <1>2, ParamsKept, TxOfTyped
<1>4. Own(c)
  BY <1>1, <1>2, <1>3 DEF Own
<1>. QED
  BY <1>1, <1>2, <1>4, LocalStep DEF Delivered

LEMMA PopulateStep ==
    ASSUME Transaction712Inv, NEW c \in Calls, PopulateTx(c)
    PROVE  Transaction712Inv'
<1>0. Working(c) /\ UNCHANGED <<hasCode, request, sent>>
  BY DEF PopulateTx, CallAt, Working, Underway
<1>. DEFINE d == [txs[TxOf(c)] EXCEPT !.chain = ThisChain]
            k == [calls[c] EXCEPT !.pc = IF hasCode THEN "estimate" ELSE "nonce",
                                  !.tx = Tx712(d)]
<1>1. txs[TxOf(c)] \in Dictionaries /\ ThisChain \in Int
  BY <1>0, CallTyped, Transaction712Assumption
<1>2. d \in Dictionaries /\ d.params = txs[TxOf(c)].params
      /\ d.signature = txs[TxOf(c)].signature /\ d.chain = ThisChain
  BY <1>1 DEF Dictionaries
<1>3. txs' = [txs EXCEPT ![TxOf(c)] = d]
  BY DEF PopulateTx
<1>4. txs'[TxOf(c)] = d
  BY <1>3, TxOfTyped DEF Transaction712Inv, CallsTyped
<1>. HIDE DEF d
<1>5. calls' = [calls EXCEPT ![c] = k]
  <2>1. calls' = [calls EXCEPT ![c].pc = IF hasCode THEN "estimate" ELSE "nonce",
                               ![c].tx = Tx712(txs'[TxOf(c)])]
    BY DEF PopulateTx
  <2>2. Tx712(txs'[TxOf(c)]) = Tx712(d)
    BY <1>4
  <2>3. calls' = [calls EXCEPT ![c].pc = IF hasCode THEN "estimate" ELSE "nonce",
                               ![c].tx = Tx712(d)]
    BY <2>1, <2>2
  <2>. QED
    BY <2>3, CallTyped
<1>6. Tx712(d) \in Tx712s /\ Tx712(d).chain = ThisChain
  BY <1>2, Tx712Typed
<1>7. k \in CallStates /\ k.kind = calls[c].kind /\ k.tx = Tx712(d)
      /\ k.pc \in {"nonce", "estimate"} /\ (k.pc = "nonce" => ~hasCode)
  BY <1>6, CallTyped DEF CallStates, Places, Underway
<1>. HIDE DEF k
<1>. QED
  BY <1>0, <1>2, <1>3, <1>5, <1>6, <1>7, FilledStep

\* What takes a value that Python takes for absent is a number.
LEMMA OrTyped ==
    ASSUME NEW v \in Nat \cup {None}, NEW default \in Nat
    PROVE  Or(v, default) \in Nat
BY DEF Or

LEMMA PopulatedStep ==
    ASSUME Transaction712Inv, NEW c \in Calls, Working(c), NEW d \in Dictionaries,
           Populated(c, d, NetworkFee),
           UNCHANGED <<hasCode, request, sent>>,
           d.params = txs[TxOf(c)].params, d.signature = txs[TxOf(c)].signature,
           d.chain = txs[TxOf(c)].chain,
           calls[c].kind \in Smart => d.chain = ThisChain,
           Formatted(request[ObjOf[c]].params)
    PROVE  Transaction712Inv'
<1>. DEFINE e == [d EXCEPT !.fee = Or(d.fee, NetworkFee)]
            k == [calls[c] EXCEPT !.pc = "sign", !.tx = Tx712(e)]
<1>1. txs' = [txs EXCEPT ![TxOf(c)] = e] /\ calls' = [calls EXCEPT ![c] = k]
  BY DEF Populated
<1>2. d.fee \in Nat /\ NetworkFee \in Nat
  BY Transaction712Assumption DEF Dictionaries
<1>3. Or(d.fee, NetworkFee) \in Nat
  BY <1>2, OrTyped
<1>4. e \in Dictionaries /\ e.params = d.params /\ e.signature = d.signature
      /\ e.chain = d.chain
  BY <1>3 DEF Dictionaries
<1>. HIDE DEF e
<1>5. Tx712(e) \in Tx712s /\ Tx712(e).chain = d.chain
  BY <1>4, Tx712Typed
<1>6. k \in CallStates /\ k.kind = calls[c].kind /\ k.tx = Tx712(e) /\ k.pc = "sign"
  BY <1>5, CallTyped DEF CallStates, Places, Underway
<1>. HIDE DEF k
<1>. QED
  BY <1>1, <1>4, <1>5, <1>6, FilledStep

LEMMA NonceStep ==
    ASSUME Transaction712Inv, NEW c \in Calls, ReadNonce(c)
    PROVE  Transaction712Inv'
<1>0. Working(c) /\ CallAt(c, "nonce") /\ UNCHANGED <<hasCode, request, sent>>
  BY DEF ReadNonce, CallAt, Working, Underway
<1>. DEFINE n == Or(calls[c].tx.nonce, Count)
            d == [txs[TxOf(c)] EXCEPT !.nonce = n]
<1>1. txs[TxOf(c)] \in Dictionaries /\ calls[c].tx \in Tx712s
  BY <1>0, CallTyped
<1>2. n \in Nat
  <2>1. calls[c].tx.nonce \in Nat \cup {None}
    BY <1>1 DEF Tx712s
  <2>. QED
    BY <2>1, CountTyped, OrTyped
<1>. HIDE DEF n
<1>3. d \in Dictionaries /\ d.params = txs[TxOf(c)].params
      /\ d.signature = txs[TxOf(c)].signature /\ d.chain = txs[TxOf(c)].chain
  BY <1>1, <1>2 DEF Dictionaries
<1>4. calls[c].kind \in Smart => d.chain = ThisChain /\ calls[c].tx.chain = ThisChain
  BY <1>0, <1>3 DEF Transaction712Inv, Populating, CallAt
<1>5. \/ hasCode /\ Populated(c, d, NetworkFee)
      \/ /\ ~hasCode
         /\ txs' = [txs EXCEPT ![TxOf(c)] = d]
         /\ calls' = [calls EXCEPT ![c].pc = "estimate"]
  BY DEF ReadNonce, n
<1>. HIDE DEF d
<1>6. CASE hasCode /\ Populated(c, d, NetworkFee)
  <2>1. Formatted(request[ObjOf[c]].params)
    BY <1>0, <1>6 DEF Transaction712Inv, Populating
  <2>. QED
    BY <1>0, <1>3, <1>4, <1>6, <2>1, PopulatedStep
<1>7. CASE /\ txs' = [txs EXCEPT ![TxOf(c)] = d]
           /\ calls' = [calls EXCEPT ![c].pc = "estimate"]
  <2>. DEFINE k == [calls[c] EXCEPT !.pc = "estimate"]
  <2>1. calls' = [calls EXCEPT ![c] = k]
    BY <1>7
  <2>2. k \in CallStates /\ k.kind = calls[c].kind /\ k.tx = calls[c].tx /\ k.pc = "estimate"
    BY CallTyped DEF CallStates, Places, Underway
  <2>. HIDE DEF k
  <2>3. k.tx \in Tx712s /\ (calls[c].kind \in Smart => d.chain = ThisChain /\ k.tx.chain = ThisChain)
    BY <1>1, <1>4, <2>2
  <2>4. k.pc \in {"nonce", "estimate", "sign"} /\ k.pc # "nonce" /\ k.pc # "sign"
        /\ d.chain \in {txs[TxOf(c)].chain, ThisChain}
    BY <1>3, <2>2
  <2>. QED
    BY <1>0, <1>3, <1>7, <2>1, <2>2, <2>3, <2>4, FilledStep
<1>. QED
  BY <1>5, <1>6, <1>7

\* A step after which the dictionaries are as before.
LEMMA NotedStep ==
    ASSUME Transaction712Inv, NEW c \in Calls, Working(c), NEW k \in CallStates,
           calls' = [calls EXCEPT ![c] = k], UNCHANGED <<hasCode, request, txs, sent>>,
           k.kind = calls[c].kind, k.tx \in Tx712s,
           k.pc \in {"nonce", "estimate", "sign"},
           calls[c].kind \in Smart => txs[TxOf(c)].chain = ThisChain /\ k.tx.chain = ThisChain,
           Formatted(request[ObjOf[c]].params)
    PROVE  Transaction712Inv'
<1>1. Moved(c) /\ calls'[c] = k
  BY MovedTo
<1>2. Others(c) /\ txs'[c] \in Dictionaries \cup {None}
  BY OthersUnchanged
<1>3. txs[TxOf(c)] \in Dictionaries
  BY CallTyped
<1>4. calls[c].kind \notin SharesObject =>
         /\ txs[c].params = request[ObjOf[c]].params
         /\ calls[c].kind \notin Smart => txs[c].signature = None
  BY ParamsKept, TxOfTyped
<1>5. Own(c)
  BY <1>1, <1>2, <1>3, <1>4 DEF Own
<1>. QED
  BY <1>1, <1>2, <1>5, LocalStep DEF Delivered

LEMMA EstimateStep ==
    ASSUME Transaction712Inv, NEW c \in Calls, EstimateFee(c)
    PROVE  Transaction712Inv'
<1>0. Working(c) /\ CallAt(c, "estimate") /\ UNCHANGED <<hasCode, request, sent>>
  BY DEF EstimateFee, CallAt, Working, Underway
<1>1. txs[TxOf(c)] \in Dictionaries /\ calls[c].tx \in Tx712s
  BY <1>0, CallTyped
<1>2. Formatted(request[ObjOf[c]].params)
  <2>1. Formatted(txs[TxOf(c)].params)
    BY DEF EstimateFee, Params
  <2>. QED
    BY <1>0, <2>1, ParamsKept
<1>3. calls[c].kind \in Smart => txs[TxOf(c)].chain = ThisChain /\ calls[c].tx.chain = ThisChain
  BY <1>0 DEF Transaction712Inv, Populating, CallAt
<1>4. CASE calls[c].kind \notin Smart
  <2>. DEFINE fee == Or(calls[c].tx.fee, NetworkFee)
              t == [calls[c].tx EXCEPT !.fee = fee]
              k == [calls[c] EXCEPT !.pc = "sign", !.tx = t]
  <2>1. calls[c].tx.fee \in Nat /\ NetworkFee \in Nat
    BY <1>1, Transaction712Assumption DEF Tx712s
  <2>2. fee \in Nat
    BY <2>1, OrTyped
  <2>3. t \in Tx712s
    BY <1>1, <2>2 DEF Tx712s
  <2>4. calls' = [calls EXCEPT ![c] = k] /\ txs' = txs
    <3>1. calls' = [calls EXCEPT ![c].pc = "sign", ![c].tx.fee = fee] /\ txs' = txs
      BY <1>4 DEF EstimateFee
    <3>. HIDE DEF fee
    <3>2. calls[c] \in CallStates /\ calls \in [Calls -> CallStates]
      BY CallTyped
    <3>3. [calls EXCEPT ![c].pc = "sign", ![c].tx.fee = fee] = [calls EXCEPT ![c] = k]
      BY <3>2 DEF CallStates
    <3>. QED
      BY <3>1, <3>3
  <2>. HIDE DEF t
  <2>5. k \in CallStates /\ k.kind = calls[c].kind /\ k.tx = t /\ k.pc = "sign"
    BY <2>3, CallTyped DEF CallStates, Places, Underway
  <2>. HIDE DEF k
  <2>. QED
    BY <1>0, <1>2, <1>4, <2>3, <2>4, <2>5, NotedStep
<1>5. CASE calls[c].kind \in Smart /\ hasCode
  <2>. DEFINE k == [calls[c] EXCEPT !.pc = "nonce", !.tx = Tx712(txs[TxOf(c)])]
  <2>1. calls' = [calls EXCEPT ![c] = k] /\ txs' = txs
    BY <1>5 DEF EstimateFee
  <2>2. Tx712(txs[TxOf(c)]) \in Tx712s /\ Tx712(txs[TxOf(c)]).chain = ThisChain
    BY <1>1, <1>3, <1>5, Tx712Typed
  <2>3. k \in CallStates /\ k.kind = calls[c].kind /\ k.tx = Tx712(txs[TxOf(c)]) /\ k.pc = "nonce"
    BY <2>2, CallTyped DEF CallStates, Places, Underway
  <2>. HIDE DEF k
  <2>. QED
    BY <1>0, <1>2, <1>3, <2>1, <2>2, <2>3, NotedStep
<1>6. CASE calls[c].kind \in Smart /\ ~hasCode
  <2>1. Populated(c, txs[TxOf(c)], NetworkFee)
    BY <1>6 DEF EstimateFee
  <2>. QED
    BY <1>0, <1>1, <1>2, <1>3, <2>1, PopulatedStep
<1>. QED
  BY <1>4, <1>5, <1>6 DEF Transaction712Inv, Transaction712TypeOK

LEMMA BuildStep ==
    ASSUME Transaction712Inv, NEW c \in Calls, Build(c)
    PROVE  Transaction712Inv'
<1>. DEFINE o == ObjOf[c]
            d == [txs[o] EXCEPT !.nonce = Given(txs[o].nonce, Count),
                                !.chain = Given(txs[o].chain, ThisChain)]
            e == IF calls[c].kind = "withdraw" THEN txs[o] ELSE d
            place == IF calls[c].kind \in Smart THEN "populate" ELSE "estimate"
            k == [calls[c] EXCEPT !.pc = place, !.tx = Tx712(d)]
<1>0. /\ calls[c].kind \notin SharesObject /\ UNCHANGED <<hasCode, request, sent>>
      /\ o \in Objects /\ o \notin Calls /\ c \notin Objects /\ o # c
      /\ MetasKept /\ CallsTyped
  BY TxOfTyped, Transaction712Assumption DEF Build, Transaction712Inv
<1>1. txs[o] \in Dictionaries
  BY <1>0 DEF CallsTyped
<1>2. d \in Dictionaries /\ d.params = txs[o].params /\ d.signature = txs[o].signature
  <2>1. Given(txs[o].nonce, Count) \in Nat
    <3>1. txs[o].nonce \in Nat \cup {None}
      BY <1>1 DEF Dictionaries
    <3>. QED
      BY <3>1, CountTyped DEF Given
  <2>2. Given(txs[o].chain, ThisChain) \in Int
    <3>1. txs[o].chain \in Int \cup {None} /\ ThisChain \in Int
      BY <1>1, Transaction712Assumption DEF Dictionaries
    <3>. QED
      BY <3>1 DEF Given
  <2>. QED
    BY <1>1, <2>1, <2>2 DEF Dictionaries
<1>3. txs[o].params = request[o].params /\ txs[o].signature = None
  <2>1. ASSUME txs[o].signature # None PROVE FALSE
    <3>1. txs[o].signature.by \in Calls
      BY <1>1, <2>1 DEF Dictionaries, Signatures
    <3>2. /\ ObjOf[txs[o].signature.by] = ObjOf[c]
          /\ calls[txs[o].signature.by].kind = "smartSend"
      BY <1>0, <2>1 DEF MetasKept
    <3>. QED
      BY <1>0, <3>1, <3>2 DEF MetasKept, SharesObject
  <2>. QED
    BY <1>0, <2>1 DEF MetasKept
<1>4. txs' = [txs EXCEPT ![c] = d, ![o] = e]
  <2>1. txs' = [txs EXCEPT ![c] = d, ![o] = IF calls[c].kind = "withdraw" THEN @ ELSE d]
    BY DEF Build
  <2>2. [txs EXCEPT ![c] = d][o] = txs[o]
    BY <1>0 DEF CallsTyped
  <2>. HIDE DEF d, o
  <2>. QED
    BY <2>1, <2>2
<1>5. calls' = [calls EXCEPT ![c] = k]
  BY CallTyped DEF Build
<1>. HIDE DEF d
<1>6. e \in Dictionaries /\ e.params = txs[o].params /\ e.signature = txs[o].signature
  BY <1>1, <1>2
<1>. HIDE DEF e
<1>7. Tx712(d) \in Tx712s
  BY <1>2, Tx712Typed
<1>8. k \in CallStates /\ k.kind = calls[c].kind /\ k.tx = Tx712(d) /\ k.pc = place
  BY <1>7, CallTyped DEF CallStates, Places, Underway
<1>. HIDE DEF k
<1>9. Moved(c) /\ calls'[c] = k
  BY <1>0, <1>5, <1>8, MovedTo
<1>10. /\ DOMAIN txs' = Objects \cup Calls
       /\ txs'[c] = d /\ txs'[o] = e
       /\ \A x \in Objects \cup Calls : x \notin {c, o} => txs'[x] = txs[x]
  BY <1>0, <1>4 DEF CallsTyped
<1>11. Others(c)
  <2>1. \A x \in Calls \ {c} : txs'[x] = txs[x]
    BY <1>0, <1>10
  <2>2. ASSUME NEW x \in Objects
        PROVE  /\ txs'[x] \in Dictionaries
               /\ txs'[x].params = txs[x].params
               /\ txs'[x].signature = txs[x].signature
               /\ \/ txs'[x].chain \in {txs[x].chain, ThisChain}
                  \/ ObjOf[c] = x /\ calls[c].kind \notin SharesObject
    <3>1. CASE x = o
      BY <1>0, <1>6, <1>10, <3>1
    <3>2. CASE x # o
      BY <1>0, <1>10, <3>2 DEF CallsTyped
    <3>. QED
      BY <3>1, <3>2
  <2>. QED
    BY <1>10, <2>1, <2>2 DEF Others
<1>12. TxOf(c)' = c
  BY <1>0, <1>8, <1>9 DEF TxOf
<1>13. Own(c)
  <2>1. txs'[TxOf(c)] = d
    BY <1>0, <1>10 DEF TxOf
  <2>. QED
    BY <1>0, <1>2, <1>3, <1>7, <1>8, <1>9, <1>10, <2>1 DEF Own
<1>. QED
  BY <1>0, <1>9, <1>11, <1>13, LocalStep DEF Delivered

\* What is signed and what is encoded of a transaction that can be encoded.
LEMMA ContentsTyped ==
    ASSUME NEW t \in Tx712s, t.chain # None, t.nonce # None,
           NEW p \in Paymasters \cup {None}, NEW chain \in Int
    PROVE  SignedContent(t, chain, p) \in Contents /\ EncodedContent(t, p) \in Contents
<1>1. t.nonce \in Nat /\ t.fee \in Nat /\ t.chain \in Int
  BY DEF Tx712s
<1>2. p # None => p.paymaster \in {None, "paymaster"} /\ p.input \in {None, "input"}
  BY DEF Paymasters
<1>3. EncodedParams(p).paymaster \in {None, "paymaster"} /\ EncodedParams(p).input \in {None, "input"}
  BY <1>2 DEF EncodedParams
<1>. QED
  BY <1>1, <1>2, <1>3 DEF SignedContent, EncodedContent, Contents

\* They are the same, but for half a paymaster and another chain.
LEMMA ContentsAgree ==
    ASSUME NEW t \in Tx712s, NEW p \in Paymasters \cup {None}, ~Lopsided(p)
    PROVE  SignedContent(t, t.chain, p) = EncodedContent(t, p)
<1>1. CASE p = None
  BY <1>1 DEF SignedContent, EncodedContent, EncodedParams
<1>2. CASE p # None
  <2>1. p.paymaster = EncodedParams(p).paymaster /\ p.input = EncodedParams(p).input
    BY <1>2 DEF EncodedParams, Lopsided
  <2>. QED
    BY <1>2, <2>1 DEF SignedContent, EncodedContent
<1>. QED
  BY <1>1, <1>2

LEMMA SignStep ==
    ASSUME Transaction712Inv, NEW c \in Calls, SignTx(c)
    PROVE  Transaction712Inv'
<1>. DEFINE d == txs[TxOf(c)]
            t == calls[c].tx
            p == request[ObjOf[c]].params
            own == [content |-> SignedContent(t, DomainChain(c), p), by |-> c]
            custom == IF calls[c].kind \in Smart THEN own ELSE d.signature
            message == [content |-> EncodedContent(t, p), signature |-> Given(custom, own)]
            e == [d EXCEPT !.signature = custom]
            k == [calls[c] EXCEPT !.pc = "send", !.message = message]
<1>0. /\ Working(c) /\ calls[c].pc = "sign" /\ UNCHANGED <<hasCode, request, sent>>
      /\ t.chain # None /\ t.nonce # None /\ MetasKept /\ CallsTyped
  BY DEF SignTx, CallAt, Working, Underway, Encodable, Transaction712Inv
<1>1. d \in Dictionaries /\ t \in Tx712s /\ calls[c].kind \in CallKinds
  BY <1>0, CallTyped
<1>2. d.params = p /\ p \in Paymasters \cup {None} /\ Params(c) = p
  BY <1>0, ParamsKept DEF Params
<1>3. /\ txs' = [txs EXCEPT ![TxOf(c)].signature = custom]
      /\ calls' = [calls EXCEPT ![c].pc = "send", ![c].message = message]
  BY <1>2 DEF SignTx, SignedTx, CustomSignature
<1>4. DomainChain(c) \in Int
  BY <1>0, <1>1, Transaction712Assumption DEF DomainChain, Tx712s
<1>5. own \in Signatures /\ EncodedContent(t, p) \in Contents /\ own.by = c
      /\ own.content = SignedContent(t, DomainChain(c), p)
  BY <1>0, <1>1, <1>2, <1>4, ContentsTyped DEF Signatures
<1>6. Explained(c, [content |-> EncodedContent(t, p), signature |-> own])
  <2>. DEFINE m == [content |-> EncodedContent(t, p), signature |-> own]
  <2>1. calls[c].kind \in Smart => t.chain = ThisChain
    BY <1>0 DEF Transaction712Inv, Populating
  <2>2. \/ DomainChain(c) = t.chain
        \/ calls[c].kind \in {"withdraw", "program"} /\ t.chain # ThisChain
    BY <1>1, <2>1 DEF DomainChain, CallKinds, Smart
  <2>3. m.content.chain = t.chain
    BY DEF EncodedContent
  <2>4. \/ m.signature.content = m.content
        \/ Lopsided(p)
        \/ calls[c].kind \in {"withdraw", "program"} /\ m.content.chain # ThisChain
    BY <1>1, <1>2, <1>5, <2>2, <2>3, ContentsAgree
  <2>5. calls[c].kind # "program" => Formatted(p)
    BY <1>0 DEF Transaction712Inv, Populating
  <2>6. calls[c].kind # "program" /\ p # None => m.content.paymaster = p.paymaster
    BY <2>5 DEF Formatted, EncodedContent, EncodedParams
  <2>7. m.signature.by = c
    BY <1>5
  <2>. HIDE DEF m
  <2>. QED
    BY <2>4, <2>6, <2>7 DEF Explained, m
<1>7. custom \in Signatures \cup {None}
  BY <1>1, <1>5 DEF Dictionaries
<1>8. message \in Encoded /\ Explained(c, message)
  <2>1. CASE calls[c].kind \in Smart \/ custom = None
    <3>1. message = [content |-> EncodedContent(t, p), signature |-> own]
      BY <2>1 DEF Given
    <3>. HIDE DEF own, message
    <3>. QED
      BY <1>5, <1>6, <3>1 DEF Encoded
  <2>2. CASE calls[c].kind \notin Smart /\ custom # None
    <3>1. message = [content |-> EncodedContent(t, p), signature |-> d.signature]
          /\ d.signature \in Signatures /\ d.signature # None
      BY <1>7, <2>2 DEF Given
    <3>2. calls[c].kind = "program" /\ TxOf(c) = ObjOf[c] /\ ObjOf[c] \in Objects
      BY <1>0, <1>1, <2>2, <3>1, ParamsKept, TxOfTyped DEF SharesObject, CallKinds
    <3>3. calls[d.signature.by].kind = "smartSend" /\ d.signature.by # c
      BY <1>0, <3>1, <3>2 DEF MetasKept
    <3>. HIDE DEF message, d, custom
    <3>4. message.signature = d.signature /\ message.content = EncodedContent(t, p)
      BY <3>1
    <3>5. message \in Encoded
      BY <1>5, <3>1 DEF Encoded
    <3>. QED
      BY <3>2, <3>3, <3>4, <3>5 DEF Explained
  <2>. QED
    BY <2>1, <2>2
<1>9. txs' = [txs EXCEPT ![TxOf(c)] = e] /\ calls' = [calls EXCEPT ![c] = k]
  <2>. HIDE DEF custom, message
  <2>. QED
    BY <1>3, CallTyped
<1>. HIDE DEF message
<1>10. /\ e \in Dictionaries /\ e.params = d.params /\ e.chain = d.chain
       /\ e.signature = custom
  BY <1>1, <1>7 DEF Dictionaries
<1>11. k \in CallStates /\ k.kind = calls[c].kind /\ k.tx = t /\ k.pc = "send"
       /\ k.message = message
  BY <1>8, CallTyped DEF CallStates, Places, Underway
<1>12. Moved(c) /\ calls'[c] = k
  BY <1>0, <1>9, <1>11, MovedTo
<1>13. TxOf(c) \in Objects =>
          \/ e.signature = d.signature
          \/ e.signature.by = c /\ calls[c].kind = "smartSend"
  BY <1>5, <1>10, TxOfTyped, Transaction712Assumption DEF SharesObject, Smart
<1>. HIDE DEF e, k, own, custom
<1>14. Others(c) /\ txs'[TxOf(c)] = e /\ txs'[c] \in Dictionaries \cup {None}
  BY <1>9, <1>10, <1>13, OthersKept
<1>15. calls[c].kind # "program" => Formatted(p)
  BY <1>0 DEF Transaction712Inv, Populating
<1>16. calls[c].kind \notin SharesObject /\ calls[c].kind \notin Smart => custom = None
  BY <1>0, ParamsKept DEF custom
<1>17. Own(c)
  <2>1. calls[c].kind \notin SharesObject => txs'[c] = e
    BY <1>14, TxOfTyped
  <2>. HIDE DEF t, p, d
  <2>. QED
    BY <1>1, <1>2, <1>8, <1>10, <1>11, <1>12, <1>14, <1>15, <1>16, <2>1 DEF Own, p
<1>. QED
  BY <1>0, <1>12, <1>14, <1>17, LocalStep DEF Delivered

-----------------------------------------------------------------------------

LEMMA Transaction712InvInit == Transaction712Init => Transaction712Inv
<1>. SUFFICES ASSUME Transaction712Init PROVE Transaction712Inv
  OBVIOUS
<1>1. request \in [Objects -> Requested] /\ hasCode \in BOOLEAN /\ sent = {}
  BY Transaction712Assumption DEF Transaction712Init
<1>2. PICK kind \in [Calls -> CallKinds] :
         /\ \A c, d \in Calls :
               ObjOf[c] = ObjOf[d] => (kind[c] \in SharesObject <=> kind[d] \in SharesObject)
         /\ calls = [c \in Calls |-> [Idle EXCEPT !.kind = kind[c]]]
  BY DEF Transaction712Init
<1>3. \A c \in Calls : calls[c] = [kind |-> kind[c], pc |-> "begin", tx |-> None, message |-> None]
  BY <1>2 DEF Idle
<1>4. ASSUME NEW c \in Calls PROVE calls[c].kind = kind[c] /\ calls[c].pc = "begin"
  <2>1. calls[c] = [kind |-> kind[c], pc |-> "begin", tx |-> None, message |-> None]
    BY <1>3
  <2>. QED
    BY <2>1
<1>5. calls \in [Calls -> CallStates]
  BY <1>2, <1>3 DEF CallStates, Places, Underway
<1>6. /\ DOMAIN txs = Objects \cup Calls
      /\ \A c \in Calls : txs[c] = None
      /\ \A o \in Objects : txs[o] = Dictionary(o)
  BY Transaction712Assumption DEF Transaction712Init
<1>7. ASSUME NEW o \in Objects
      PROVE  /\ txs[o] \in Dictionaries /\ txs[o].params = request[o].params
             /\ txs[o].signature = None /\ txs[o].params \in Paymasters \cup {None}
  <2>1. request[o].nonce \in Nat \cup {None} /\ request[o].chain \in Int \cup {None}
        /\ request[o].params \in Paymasters \cup {None}
    BY <1>1 DEF Requested
  <2>. QED
    BY <1>6, <2>1 DEF Dictionary, Dictionaries
<1>8. Transaction712TypeOK
  BY <1>1, <1>6, <1>7 DEF Transaction712TypeOK
<1>9. CallsTyped
  <2>1. \A c \in Calls : calls[c].pc \notin Underway \ {"begin"} /\ ~CallAt(c, "send")
    BY <1>4 DEF CallAt, Underway
  <2>. QED
    BY <1>1, <1>5, <1>6, <1>7, <2>1, FS_EmptySet DEF CallsTyped, CallStates, Places
<1>10. MetasKept
  BY <1>2, <1>4, <1>6, <1>7 DEF MetasKept
<1>. QED
  BY <1>1, <1>4, <1>8, <1>9, <1>10
     DEF Transaction712Inv, Populating, MessagesExplained, CallAt

LEMMA Transaction712InvNext ==
    Transaction712Inv /\ [Transaction712Next]_txvars => Transaction712Inv'
<1>. SUFFICES ASSUME Transaction712Inv, [Transaction712Next]_txvars PROVE Transaction712Inv'
  OBVIOUS
<1>1. CASE UNCHANGED txvars
  <2>. USE <1>1 DEF txvars, Transaction712Inv
  <2>1. Transaction712TypeOK' /\ CallsTyped'
    BY DEF Transaction712TypeOK, CallsTyped, CallAt, TxOf
  <2>2. MetasKept'
    BY DEF MetasKept
  <2>3. Populating'
    BY DEF Populating, CallAt, TxOf, Formatted
  <2>4. MessagesExplained'
    BY DEF MessagesExplained, CallAt, Explained, Lopsided
  <2>. QED
    BY <2>1, <2>2, <2>3, <2>4
<1>2. ASSUME NEW c \in Calls,
             \/ Build(c) \/ Take(c) \/ PopulateTx(c) \/ ReadNonce(c) \/ EstimateFee(c)
             \/ SignTx(c) \/ SendRaw(c) \/ CallFails(c)
      PROVE  Transaction712Inv'
  BY <1>2, BuildStep, TakeStep, PopulateStep, NonceStep, EstimateStep, SignStep, SendStep,
     FailsStep
<1>. QED
  BY <1>1, <1>2 DEF Transaction712Next

\* The inductive invariant of the senders, for any number of calls and objects and every
\* way in which calls share an object.
THEOREM Transaction712Invariant == Transaction712Spec => []Transaction712Inv
  BY Transaction712InvInit, Transaction712InvNext, PTL DEF Transaction712Spec

\* No message goes to the node without a nonce, a chain id and a signature.
THEOREM MessagesTyped == Transaction712Spec => []Transaction712TypeOK
<1>1. Transaction712Inv => Transaction712TypeOK
  BY DEF Transaction712Inv
<1>. QED
  BY <1>1, Transaction712Invariant, PTL

\* What every message the node has taken is, said of one message.
LEMMA SentExplained ==
    ASSUME Transaction712Inv, NEW m \in sent
    PROVE  Explained(m.call, m)
BY DEF Transaction712Inv, MessagesExplained

\* A signature differs from what the node decodes only for the reasons given.
THEOREM DifferencesExplained == Transaction712Spec => []SignaturesExplained
<1>1. Transaction712Inv => SignaturesExplained
  BY SentExplained DEF SignaturesExplained, Explained, Asked
<1>. QED
  BY <1>1, Transaction712Invariant, PTL

\* Only a program that signs by itself sends the signature that a smart account left.
THEOREM StaleSignaturesExplained == Transaction712Spec => []OnlyProgramsSendStaleSignatures
<1>1. Transaction712Inv => OnlyProgramsSendStaleSignatures
  BY SentExplained DEF OnlyProgramsSendStaleSignatures, Explained
<1>. QED
  BY <1>1, Transaction712Invariant, PTL

\* No sender of the SDK sends a message without the paymaster that was asked for.
THEOREM PaymasterIsKept == Transaction712Spec => []PaymasterKept
<1>1. Transaction712Inv => PaymasterKept
  BY SentExplained DEF PaymasterKept, Explained, Asked
<1>. QED
  BY <1>1, Transaction712Invariant, PTL

=============================================================================
