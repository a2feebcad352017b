--------------------------- MODULE L2Senders_proofs ---------------------------
(***************************************************************************)
(* Proofs about L2Senders.                                                 *)
(***************************************************************************)
EXTENDS L2Senders, TLAPS

IndInv == TypeOK /\ SenderInv

Late == {"wait", "returned", "raised"}
Carrying == {"populate", "estimate", "send"}

\* Must the object keep a nonce other than zero, whoever uses it?
ZeroFree(o) == asked[o].nonce # 0 /\ (asked[o].nonce = None => account.start > 0)

LEMMA NoneIsNoNat == None \notin Nat /\ None # 0
BY SendersAssumption

LEMMA OpsOfKinds ==
    /\ \A k \in Kinds : OpsOn(k) \subseteq Ops
    /\ \A k \in Kinds : "saSend" \in OpsOn(k) => OpsOn(k) = {"saSend"}
BY DEF Kinds, OpsOn, Ops, SmartOps

LEMMA TxTypes ==
    ASSUME TypeOK
    PROVE  /\ \A t \in pool : t.call \in Calls /\ t.nonce \in Nat
           /\ Len(mined) \in Nat
           /\ \A i \in 1..Len(mined) : mined[i].call \in Calls /\ mined[i].nonce \in Nat
<1>1. pool \subseteq Txs /\ mined \in Seq(Txs)
  BY DEF TypeOK
<1>2. \A t \in Txs : t.call \in Calls /\ t.nonce \in Nat
  BY DEF Txs
<1>3. Len(mined) \in Nat /\ \A i \in 1..Len(mined) : mined[i] \in Txs
  BY <1>1
<1> QED BY <1>1, <1>2, <1>3

\* The calls of one object that send by send_transaction all do.
LEMMA SameSend ==
    ASSUME IndInv, NEW c \in Calls, NEW d \in Calls, ObjOf[c] = ObjOf[d],
           ~At(c, "idle"), ~At(d, "idle"), call[c].op = "saSend"
    PROVE  call[d].op = "saSend"
<1>1. call[c].op \in OpsOn(Request(c).kind) /\ call[d].op \in OpsOn(Request(c).kind)
  BY DEF IndInv, SenderInv, AskedOps, Request
<1>2. Request(c).kind \in Kinds
  BY SendersAssumption DEF IndInv, TypeOK, Request, ObjectRequests
<1> QED BY <1>1, <1>2, OpsOfKinds

-----------------------------------------------------------------------------
\* What a step of call c that leaves the node alone has to show of itself.  The object
\* may change only while the call is active and holds it, and a nonce that is in the
\* object stays, unless send_transaction replaces a zero.
Local(c) ==
    /\ UNCHANGED <<account, asked, pool, mined>>
    /\ \A d \in Calls \ {c} : call'[d] = call[d]
    /\ call'[c].op = call[c].op
    /\ call[c].pc # "idle" /\ call'[c].pc # "idle"
    /\ Active(c)' => Active(c)
    /\ call[c].pc \in Late => call'[c].pc \in Late
    /\ \A o \in Objects \ {ObjOf[c]} : object'[o] = object[o]
    /\ LET o == ObjOf[c] IN
        /\ object'[o] # object[o] => Active(c)
        /\ object[o] # None /\ (call[c].op = "saSend" => object[o] # 0)
              => object'[o] = object[o]
        /\ object'[o] # object[o] => object'[o] # None /\ (ZeroFree(o) => object'[o] # 0)
    /\ call'[c].pc \in Carrying =>
        /\ Repeats(c) \/ call[c].op = "saSend" => call'[c].nonce = object'[ObjOf[c]]
        /\ call'[c].nonce = None => call[c].op = "saSend" /\ call'[c].pc # "send"
        /\ call'[c].pc = "populate" => call[c].op \in SmartOps
        /\ call'[c].nonce = None /\ call'[c].pc = "estimate" => account.code

LEMMA LocalStep ==
    ASSUME IndInv, TypeOK', NEW c \in Calls, Local(c)
    PROVE  SenderInv'
<1> USE DEF IndInv, SenderInv
<1>0. /\ account' = account /\ asked' = asked /\ pool' = pool /\ mined' = mined
      /\ \A d \in Calls \ {c} : call'[d] = call[d]
      /\ call'[c].op = call[c].op
  BY DEF Local
<1>1. MinedInOrder' /\ PoolAhead'
  BY <1>0 DEF MinedInOrder, PoolAhead, Latest
<1>2. SentOnce'
  <2>1. \A d \in Calls : call[d].pc \in Late => call'[d].pc \in Late
    BY <1>0 DEF Local
  <2> QED BY <1>0, <2>1, TxTypes DEF SentOnce, Late
<1>3. OwnObject'
  <2>1. \A d \in Calls : Active(d)' => Active(d)
    BY <1>0 DEF Local, Active
  <2> QED BY <2>1 DEF OwnObject
<1>4. AskedOps'
  BY <1>0 DEF AskedOps, At, Request, Local
<1>5. \A d \in Calls : Repeats(d)' <=> Repeats(d)
  BY <1>0 DEF Repeats, Request
<1>6. KnownNonces'
  BY <1>0, SendersAssumption DEF KnownNonces, Local, ZeroFree
<1>7. CarriesNonce'
  <2> SUFFICES ASSUME NEW d \in Calls, call'[d].pc \in Carrying
               PROVE  /\ Repeats(d) \/ call'[d].op = "saSend" => call'[d].nonce = object'[ObjOf[d]]
                      /\ call'[d].nonce = None => call'[d].op = "saSend" /\ call'[d].pc # "send"
                      /\ call'[d].pc = "populate" => call'[d].op \in SmartOps
                      /\ call'[d].nonce = None /\ call'[d].pc = "estimate" => account.code
    BY <1>0, <1>5 DEF CarriesNonce, Carrying, At
  <2>1. CASE d = c
    BY <1>0, <2>1 DEF Local
  <2>2. CASE d # c
    <3>1. call'[d] = call[d] /\ At(d, call[d].pc) /\ Active(d)
      BY <1>0, <2>2 DEF At, Active, Running, Carrying
    <3>2. object'[ObjOf[d]] = object[ObjOf[d]]
      BY <2>2, <3>1, SendersAssumption DEF Local, OwnObject
    <3> QED BY <3>1, <3>2 DEF CarriesNonce, Carrying, At
  <2> QED BY <2>1, <2>2
<1>8. \A d \in Calls : ~At(d, "idle") /\ Repeats(d) /\ object[ObjOf[d]] \in Nat
                          => object'[ObjOf[d]] = object[ObjOf[d]]
  <2> SUFFICES ASSUME NEW d \in Calls, ~At(d, "idle"), Repeats(d), object[ObjOf[d]] \in Nat
               PROVE  object'[ObjOf[d]] = object[ObjOf[d]]
    OBVIOUS
  <2>1. CASE ObjOf[d] # ObjOf[c]
    BY <2>1, SendersAssumption DEF Local
  <2>2. CASE ObjOf[d] = ObjOf[c] /\ call[c].op = "saSend"
    <3>1. call[d].op = "saSend"
      BY <2>2, SameSend DEF Local, At
    <3>2. ZeroFree(ObjOf[d])
      BY <3>1 DEF Repeats, SmartOps, ZeroFree, Request
    <3>3. object[ObjOf[d]] # 0
      BY <3>2, SendersAssumption DEF KnownNonces, ZeroFree
    <3> QED BY <2>2, <3>3, NoneIsNoNat DEF Local
  <2>3. CASE ObjOf[d] = ObjOf[c] /\ call[c].op # "saSend"
    BY <2>3, NoneIsNoNat DEF Local
  <2> QED BY <2>1, <2>2, <2>3
<1>9. RemembersNonce'
  <2>1. \A t \in pool : t.call \in Calls /\ ~At(t.call, "idle") /\ t.nonce \in Nat
    BY TxTypes DEF SentOnce, At
  <2>2. \A i \in 1..Len(mined) : /\ mined[i].call \in Calls /\ ~At(mined[i].call, "idle")
                                 /\ mined[i].nonce \in Nat
    BY TxTypes DEF SentOnce, At
  <2> QED BY <1>0, <1>5, <1>8, <2>1, <2>2 DEF RemembersNonce
<1> QED BY <1>1, <1>2, <1>3, <1>4, <1>6, <1>7, <1>9

-----------------------------------------------------------------------------
\* The stages and the nonces of the methods.
LEMMA Stages ==
    ASSUME NEW op
    PROVE  /\ First(op) \in Running
           /\ First(op) \in Carrying => op = "saSend" /\ (account.code \/ First(op) = "populate")
           /\ First(op) # "send" /\ First(op) # "idle"
           /\ AfterFill(op) \in {"populate", "estimate"}
           /\ AfterFill(op) = "populate" => op \in SmartOps
           /\ AfterPopulate \in {"send", "estimate"}
           /\ AfterEstimate(op) \in {"populate", "send"}
           /\ AfterEstimate(op) = "populate" => op \in SmartOps /\ account.code
           /\ op = "saSend" /\ account.code => AfterEstimate(op) = "populate"
BY DEF First, AfterFill, AfterPopulate, AfterEstimate, Running, Carrying, SmartOps

LEMMA NodeNonces ==
    ASSUME TypeOK
    PROVE  /\ Latest \in Nat /\ Latest >= account.start
           /\ \A n \in PendingNonces : n \in Nat /\ n >= account.start
           /\ account.start \in Nat
<1>1. account.start \in Nat /\ Len(mined) \in Nat
  BY TxTypes DEF TypeOK
<1>2. Latest \in Nat /\ Latest >= account.start
  BY <1>1 DEF Latest
<1>3. \A n \in PendingNonces : n \in Nat /\ n >= account.start
  BY <1>1, <1>2, TxTypes DEF PendingNonces
<1> QED BY <1>1, <1>2, <1>3

LEMMA ObjectTypes ==
    ASSUME TypeOK, NEW c \in Calls
    PROVE  /\ ObjOf[c] \in Objects
           /\ object[ObjOf[c]] \in Nat \cup {None}
           /\ Request(c).nonce \in Nat \cup {None}
           /\ Request(c).kind \in Kinds
<1>1. ObjOf[c] \in Objects
  BY SendersAssumption
<1>2. object[ObjOf[c]] \in Nat \cup {None} /\ asked[ObjOf[c]] \in ObjectRequests
  BY <1>1 DEF TypeOK
<1> QED BY <1>1, <1>2 DEF Request, ObjectRequests

LEMMA PredictStep ==
    ASSUME IndInv, NEW c \in Calls, Predict(c)
    PROVE  TypeOK' /\ Local(c)
<1>1. TypeOK'
  BY DEF Predict, IndInv, TypeOK, At, Places, Running, chain, history
<1>2. Local(c)
  BY DEF Predict, IndInv, TypeOK, At, Local, Active, Running, Late, Carrying, chain
<1> QED BY <1>1, <1>2

LEMMA EstimateStep ==
    ASSUME IndInv, NEW c \in Calls, Estimate(c)
    PROVE  TypeOK' /\ Local(c)
<1>0. /\ call[c].pc = "estimate"
      /\ call' = [call EXCEPT ![c].pc = AfterEstimate(call[c].op)]
      /\ UNCHANGED <<account, asked, object, pool, mined>>
      /\ AfterEstimate(call[c].op) \in {"populate", "send"}
  BY Stages DEF Estimate, Goto, At, chain
<1>1. /\ Repeats(c) \/ call[c].op = "saSend" => call[c].nonce = object[ObjOf[c]]
      /\ call[c].nonce = None => call[c].op = "saSend" /\ account.code
  BY <1>0 DEF IndInv, SenderInv, CarriesNonce, At
<1>2. AfterEstimate(call[c].op) = "send" => call[c].nonce # None
  BY <1>1, Stages
<1>3. TypeOK'
  BY <1>0, <1>2 DEF IndInv, TypeOK, At, Places, Running
<1>4. Local(c)
  BY <1>0, <1>1, <1>2, Stages DEF IndInv, TypeOK, Local, Active, Running, Late, Carrying
<1> QED BY <1>3, <1>4

LEMMA FailsStep ==
    ASSUME IndInv, NEW c \in Calls, Fails(c)
    PROVE  TypeOK' /\ Local(c)
<1>1. TypeOK'
  BY DEF Fails, Goto, IndInv, TypeOK, At, Places, chain
<1>2. Local(c)
  BY DEF Fails, Goto, IndInv, TypeOK, Local, Active, Running, Late, Carrying, chain
<1> QED BY <1>1, <1>2

LEMMA ReceiptStep ==
    ASSUME IndInv, NEW c \in Calls, Receipt(c)
    PROVE  TypeOK' /\ Local(c)
<1>0. /\ call[c].pc = "wait"
      /\ \/ call' = [call EXCEPT ![c].pc = "raised"]
         \/ \E a : call' = [call EXCEPT ![c].pc = "returned", ![c].address = a]
      /\ UNCHANGED <<account, asked, object, pool, mined>>
  BY DEF Receipt, Goto, At, chain
<1>1. TypeOK'
  BY <1>0 DEF IndInv, TypeOK, At, Places
<1>2. Local(c)
  BY <1>0 DEF IndInv, TypeOK, Local, Active, Running, Late, Carrying
<1> QED BY <1>1, <1>2

LEMMA RefusedStep ==
    ASSUME IndInv, NEW c \in Calls, SendRefused(c)
    PROVE  TypeOK' /\ Local(c)
<1>1. TypeOK'
  BY DEF SendRefused, Goto, IndInv, TypeOK, At, Places, chain
<1>2. Local(c)
  BY DEF SendRefused, Goto, At, IndInv, TypeOK, Local, Active, Running, Late, Carrying, chain
<1> QED BY <1>1, <1>2

LEMMA FillDeployStep ==
    ASSUME IndInv, NEW c \in Calls, FillDeploy(c)
    PROVE  TypeOK' /\ Local(c)
<1>0. /\ call[c].pc = "fill" /\ call[c].op = "deploy"
      /\ \E n \in Nat : call' = [call EXCEPT ![c].pc = "estimate", ![c].nonce = n]
      /\ UNCHANGED <<account, asked, object, pool, mined>>
  BY NodeNonces DEF FillDeploy, DeployNonces, At, chain, IndInv
<1>1. ~Repeats(c)
  BY <1>0 DEF Repeats
<1>2. TypeOK'
  BY <1>0 DEF IndInv, TypeOK, At, Places, Running
<1>3. Local(c)
  BY <1>0, <1>1, NoneIsNoNat DEF IndInv, TypeOK, Local, Active, Running, Late, Carrying
<1> QED BY <1>2, <1>3

LEMMA FillTransferStep ==
    ASSUME IndInv, NEW c \in Calls, FillTransfer(c)
    PROVE  TypeOK' /\ Local(c)
<1> DEFINE o == ObjOf[c]
           n == GivenNonce(o)
<1>0. /\ call[c].pc = "fill" /\ call[c].op \in {"transfer", "saTransfer"}
      /\ call' = [call EXCEPT ![c].pc = AfterFill(call[c].op), ![c].nonce = n]
      /\ object' = [object EXCEPT ![o] = n]
      /\ UNCHANGED <<account, asked, pool, mined>>
  BY DEF FillTransfer, RememberNonce, At, chain
<1>1. /\ o \in Objects /\ n \in Nat
      /\ object[o] # None => n = object[o]
      /\ object[o] = None => n >= account.start /\ account.start \in Nat
  BY NodeNonces, ObjectTypes DEF GivenNonce, IndInv
<1>2. object[o] = None => asked[o].nonce = None
  BY <1>1 DEF IndInv, SenderInv, KnownNonces
<1>3. TypeOK'
  BY <1>0, <1>1, Stages, NoneIsNoNat DEF IndInv, TypeOK, At, Places, Running
<1>4. Local(c)
  <2>1. call'[c] = [call[c] EXCEPT !.pc = AfterFill(call[c].op), !.nonce = n]
    BY <1>0 DEF IndInv, TypeOK
  <2>2. call'[c].pc = AfterFill(call[c].op) /\ call'[c].nonce = n /\ call'[c].op = call[c].op
    BY <2>1 DEF IndInv, TypeOK
  <2>3. object'[o] = n /\ \A p \in Objects \ {o} : object'[p] = object[p]
    BY <1>0, <1>1 DEF IndInv, TypeOK
  <2>4. object'[o] # object[o] => n # None /\ (ZeroFree(o) => n # 0)
    BY <1>1, <1>2, <2>3, NoneIsNoNat DEF ZeroFree
  <2>5. \A d \in Calls \ {c} : call'[d] = call[d]
    BY <1>0 DEF IndInv, TypeOK
  <2>6. n # None
    BY <1>1, NoneIsNoNat
  <2>7. /\ call'[c].pc \in {"populate", "estimate"}
        /\ call'[c].pc = "populate" => call[c].op \in SmartOps
    BY <2>2, Stages
  <2>8. object[o] # None => object'[o] = object[o]
    BY <1>1, <2>3
  <2> HIDE DEF n
  <2> QED BY <1>0, <2>2, <2>3, <2>4, <2>5, <2>6, <2>7, <2>8
          DEF Local, Active, Running, Late, Carrying
<1> QED BY <1>3, <1>4

LEMMA FillWithdrawStep ==
    ASSUME IndInv, NEW c \in Calls, FillWithdraw(c)
    PROVE  TypeOK' /\ Local(c)
<1> DEFINE o == ObjOf[c]
           n == IF account.code /\ object[o] = None THEN 0 ELSE GivenNonce(o)
<1>0. /\ call[c].pc = "fill" /\ call[c].op \in {"withdraw", "saWithdraw"}
      /\ call' = [call EXCEPT ![c].pc = AfterFill(call[c].op), ![c].nonce = n]
      /\ UNCHANGED <<account, asked, object, pool, mined>>
  BY DEF FillWithdraw, At, chain
<1>1. o \in Objects /\ n \in Nat /\ (object[o] # None => n = object[o])
  BY NodeNonces, ObjectTypes DEF GivenNonce, IndInv
<1>2. Repeats(c) => object[o] # None
  BY <1>0, <1>1 DEF IndInv, SenderInv, KnownNonces, Repeats, Request
<1>3. TypeOK'
  BY <1>0, <1>1, Stages DEF IndInv, TypeOK, At, Places, Running
<1>4. Local(c)
  <2>1. call'[c] = [call[c] EXCEPT !.pc = AfterFill(call[c].op), !.nonce = n]
    BY <1>0 DEF IndInv, TypeOK
  <2>2. call'[c].pc = AfterFill(call[c].op) /\ call'[c].nonce = n /\ call'[c].op = call[c].op
    BY <2>1 DEF IndInv, TypeOK
  <2>3. \A d \in Calls \ {c} : call'[d] = call[d]
    BY <1>0 DEF IndInv, TypeOK
  <2>4. n # None
    BY <1>1, NoneIsNoNat
  <2>5. /\ call'[c].pc \in {"populate", "estimate"}
        /\ call'[c].pc = "populate" => call[c].op \in SmartOps
    BY <2>2, Stages
  <2>6. Repeats(c) => n = object[o]
    BY <1>1, <1>2
  <2> HIDE DEF n
  <2> QED BY <1>0, <2>2, <2>3, <2>4, <2>5, <2>6
          DEF Local, Active, Running, Late, Carrying
<1> QED BY <1>3, <1>4

LEMMA PopulateStep ==
    ASSUME IndInv, NEW c \in Calls, Populate(c)
    PROVE  TypeOK' /\ Local(c)
<1> DEFINE o == ObjOf[c]
<1>1. PICK n \in PopulatedNonces(call[c].nonce) :
        /\ call' = [call EXCEPT ![c].pc = AfterPopulate, ![c].nonce = n]
        /\ object' = IF call[c].op = "saSend" THEN [object EXCEPT ![o] = n] ELSE object
  BY DEF Populate
<1>2. call[c].pc = "populate" /\ UNCHANGED <<account, asked, pool, mined>>
  BY DEF Populate, At, chain
<1>3. /\ Repeats(c) \/ call[c].op = "saSend" => call[c].nonce = object[o]
      /\ call[c].nonce = None => call[c].op = "saSend"
      /\ call[c].op \in SmartOps
  BY <1>2 DEF IndInv, SenderInv, CarriesNonce, At
<1>4. /\ o \in Objects
      /\ object[o] \in Nat \cup {None} /\ call[c].nonce \in Nat \cup {None}
      /\ asked[o].nonce # None => object[o] # None
      /\ ZeroFree(o) => object[o] # 0
  BY ObjectTypes DEF IndInv, TypeOK, SenderInv, KnownNonces, ZeroFree
<1>5. /\ n \in Nat /\ n # None
      /\ call[c].nonce \notin {None, 0} => n = call[c].nonce
      /\ call[c].nonce \in {None, 0} => n >= account.start /\ account.start \in Nat
  BY <1>1, <1>4, NodeNonces, NoneIsNoNat DEF PopulatedNonces, IndInv
<1>6. Repeats(c) => ZeroFree(o)
  BY <1>3 DEF Repeats, ZeroFree, Request
<1>7. TypeOK'
  BY ZenonT(30), <1>1, <1>2, <1>4, <1>5, Stages DEF IndInv, TypeOK, At, Places, Running
<1>8. Local(c)
  <2>1. /\ call'[c].pc \in {"send", "estimate"} /\ call'[c].nonce = n
        /\ call'[c].op = call[c].op
        /\ \A d \in Calls \ {c} : call'[d] = call[d]
    <3>1. call'[c] = [call[c] EXCEPT !.pc = AfterPopulate, !.nonce = n]
      BY <1>1 DEF IndInv, TypeOK
    <3>2. call'[c].pc = AfterPopulate /\ call'[c].nonce = n /\ call'[c].op = call[c].op
      BY <3>1 DEF IndInv, TypeOK
    <3>3. \A d \in Calls \ {c} : call'[d] = call[d]
      BY <1>1 DEF IndInv, TypeOK
    <3> QED BY <3>2, <3>3, Stages
  <2>2. /\ \A p \in Objects \ {o} : object'[p] = object[p]
        /\ object'[o] = IF call[c].op = "saSend" THEN n ELSE object[o]
    BY <1>1, <1>4 DEF IndInv, TypeOK
  <2>3. Repeats(c) \/ call[c].op = "saSend" => n = object'[o]
    BY <1>3, <1>4, <1>5, <1>6, <2>2
  <2>4. object[o] # None /\ (call[c].op = "saSend" => object[o] # 0) => object'[o] = object[o]
    BY <1>3, <1>5, <2>2
  <2>5. object'[o] # object[o] => object'[o] # None /\ (ZeroFree(o) => object'[o] # 0)
    <3> SUFFICES ASSUME object'[o] # object[o], ZeroFree(o)
                 PROVE  n # 0
      BY <1>5, <2>2
    <3>1. call[c].op = "saSend" /\ object[o] = None /\ call[c].nonce = None
      BY <1>3, <1>4, <1>5, <2>2
    <3>2. account.start > 0
      BY <1>4, <3>1 DEF ZeroFree
    <3> QED BY <1>5, <3>1, <3>2
  <2> QED BY <1>2, <1>5, <2>1, <2>2, <2>3, <2>4, <2>5
          DEF Local, Active, Running, Late, Carrying
<1> QED BY <1>7, <1>8

\* A call that begins has sent nothing, and has its object to itself.
LEMMA BeginStep ==
    ASSUME IndInv, NEW c \in Calls, Begin(c)
    PROVE  IndInv'
<1> USE DEF IndInv, SenderInv
<1>1. PICK op \in OpsOn(Request(c).kind) :
        call' = [call EXCEPT ![c].pc = First(op), ![c].op = op,
                             ![c].nonce = IF op = "saSend" THEN object[ObjOf[c]] ELSE None]
  BY DEF Begin
<1>2. /\ call[c].pc = "idle" /\ UNCHANGED <<account, asked, object, pool, mined>>
      /\ \A d \in Calls : Active(d) => ObjOf[d] # ObjOf[c]
  BY DEF Begin, At, chain
<1>3. /\ op \in Ops
      /\ First(op) \in Running /\ First(op) \notin {"send", "idle"}
      /\ object[ObjOf[c]] \in Nat \cup {None}
  BY ObjectTypes, OpsOfKinds, Stages
<1>4. /\ call'[c].pc = First(op) /\ call'[c].op = op
      /\ call'[c].nonce = IF op = "saSend" THEN object[ObjOf[c]] ELSE None
      /\ \A d \in Calls \ {c} : call'[d] = call[d]
  <2>1. call'[c] = [call[c] EXCEPT !.pc = First(op), !.op = op,
                       !.nonce = IF op = "saSend" THEN object[ObjOf[c]] ELSE None]
    BY <1>1 DEF TypeOK
  <2>2. DOMAIN call[c] = {"pc", "op", "nonce", "predicted", "address"}
    BY DEF TypeOK
  <2>3. \A d \in Calls \ {c} : call'[d] = call[d]
    BY <1>1 DEF TypeOK
  <2> QED BY <2>1, <2>2, <2>3
<1>5. TypeOK'
  <2>1. \A d \in Calls : /\ DOMAIN call'[d] = {"pc", "op", "nonce", "predicted", "address"}
                         /\ call'[d].pc \in Places
                         /\ call'[d].op \in Ops \cup {None}
                         /\ call'[d].nonce \in Nat \cup {None}
                         /\ call'[d].pc = "send" => call'[d].nonce \in Nat
    BY <1>1, <1>3, <1>4 DEF TypeOK, Places, At
  <2> QED BY <1>1, <1>2, <2>1 DEF TypeOK, At
<1>6. /\ \A t \in pool : t.call \in Calls \ {c}
      /\ \A i \in 1..Len(mined) : mined[i].call \in Calls \ {c}
  BY <1>2, TxTypes DEF SentOnce
<1>7. MinedInOrder' /\ PoolAhead' /\ KnownNonces'
  BY <1>2 DEF MinedInOrder, PoolAhead, Latest, KnownNonces
<1>8. SentOnce'
  BY <1>2, <1>4, <1>6 DEF SentOnce
<1>9. OwnObject'
  BY <1>2, <1>4 DEF OwnObject, Active
<1>10. AskedOps'
  BY <1>2, <1>4 DEF AskedOps, At, Request
<1>11. CarriesNonce'
  <2>1. \A d \in Calls \ {c} : Repeats(d)' <=> Repeats(d)
    BY <1>2, <1>4 DEF Repeats, Request
  <2>2. First(op) \in Carrying => op = "saSend" /\ (account.code \/ First(op) = "populate")
    BY Stages
  <2> QED BY <1>2, <1>3, <1>4, <2>1, <2>2 DEF CarriesNonce, At, Carrying, SmartOps
<1>12. RemembersNonce'
  <2>1. \A d \in Calls \ {c} : Repeats(d)' <=> Repeats(d)
    BY <1>2, <1>4 DEF Repeats, Request
  <2> QED BY <1>2, <1>6, <2>1 DEF RemembersNonce
<1> QED BY <1>5, <1>7, <1>8, <1>9, <1>10, <1>11, <1>12

\* The pool takes the call's transaction in place of any other with its nonce.
LEMMA PooledStep ==
    ASSUME IndInv, NEW c \in Calls, SendAccepted(c) \/ SendReplaces(c)
    PROVE  IndInv'
<1> USE DEF IndInv, SenderInv
<1>1. PICK place \in Late : call' = [call EXCEPT ![c].pc = place]
  BY DEF SendAccepted, SendReplaces, Answered, Goto, Late
<1>2. /\ call[c].pc = "send" /\ UNCHANGED <<account, asked, object, mined>>
      /\ call[c].nonce \in Nat
      /\ call[c].nonce >= Latest
  BY NodeNonces DEF SendAccepted, SendReplaces, At, TooLow, TypeOK
<1>3. \A t \in pool' : t = Tx(c) \/ (t \in pool /\ t.nonce # call[c].nonce)
  BY DEF SendAccepted, SendReplaces, Taken
<1>4. Tx(c) \in Txs /\ Tx(c).call = c /\ Tx(c).nonce = call[c].nonce
  BY <1>2 DEF Tx, Txs
<1>5. /\ call'[c].pc \in Late /\ call'[c].op = call[c].op /\ call'[c].nonce = call[c].nonce
      /\ \A d \in Calls \ {c} : call'[d] = call[d]
  BY <1>1 DEF TypeOK
<1>6. TypeOK'
  <2>1. pool' \subseteq Txs
    BY <1>3, <1>4 DEF TypeOK
  <2>2. DOMAIN call' = Calls
    BY <1>1 DEF TypeOK
  <2>3. \A d \in Calls : /\ DOMAIN call'[d] = {"pc", "op", "nonce", "predicted", "address"}
                         /\ call'[d].pc \in Places
                         /\ call'[d].op \in Ops \cup {None}
                         /\ call'[d].nonce \in Nat \cup {None}
                         /\ call'[d].pc = "send" => call'[d].nonce \in Nat
    <3>1. \A d \in Calls : DOMAIN call'[d] = {"pc", "op", "nonce", "predicted", "address"}
      BY <1>1 DEF TypeOK
    <3>2. \A d \in Calls : call'[d].pc \in Places
      <4>1. call'[c].pc \in Places
        BY <1>5 DEF Places, Late, Running
      <4>2. \A d \in Calls : call[d].pc \in Places
        BY DEF TypeOK
      <4> QED BY <1>5, <4>1, <4>2
    <3>3. \A d \in Calls : /\ call'[d].op \in Ops \cup {None}
                           /\ call'[d].nonce \in Nat \cup {None}
                           /\ call'[d].pc = "send" => call'[d].nonce \in Nat
      BY <1>5 DEF TypeOK, Late, At
    <3> QED BY <3>1, <3>2, <3>3
  <2> QED BY <1>2, <2>1, <2>2, <2>3 DEF TypeOK, At
<1>7. /\ \A t \in pool : t.call \in Calls \ {c}
      /\ \A i \in 1..Len(mined) : mined[i].call \in Calls \ {c}
  BY <1>2, TxTypes DEF SentOnce
<1>8. MinedInOrder' /\ KnownNonces'
  BY <1>2 DEF MinedInOrder, KnownNonces
<1>9. PoolAhead'
  BY <1>2, <1>3, <1>4 DEF PoolAhead, Latest
<1>10. SentOnce'
  BY <1>2, <1>3, <1>4, <1>5, <1>7 DEF SentOnce, Late
<1>11. OwnObject'
  BY <1>2, <1>5 DEF OwnObject, Active, Running, Late
<1>12. AskedOps'
  BY <1>2, <1>5 DEF AskedOps, At, Request, Late
<1>13. \A d \in Calls : Repeats(d)' <=> Repeats(d)
  BY <1>2, <1>5 DEF Repeats, Request
<1>14. CarriesNonce'
  BY <1>2, <1>5, <1>13 DEF CarriesNonce, At, Late
<1>15. RemembersNonce'
  <2>1. Repeats(c) => object[ObjOf[c]] = call[c].nonce
    BY <1>2 DEF CarriesNonce, At
  <2> QED BY <1>2, <1>3, <1>4, <1>7, <1>13, <2>1 DEF RemembersNonce
<1> QED BY <1>6, <1>8, <1>9, <1>10, <1>11, <1>12, <1>14, <1>15

LEMMA MineStep ==
    ASSUME IndInv, NEW t \in pool, Mine(t)
    PROVE  IndInv'
<1> USE DEF IndInv, SenderInv
<1>1. /\ t.nonce = Latest /\ mined' = Append(mined, t) /\ pool' = pool \ {t}
      /\ UNCHANGED <<account, asked, object, call>>
  BY DEF Mine
<1>2. /\ mined \in Seq(Txs) /\ t \in Txs /\ Len(mined) \in Nat
      /\ t.call \in Calls /\ t.nonce \in Nat
      /\ account.start \in Nat
  BY TxTypes, NodeNonces DEF TypeOK
<1>3. /\ mined' \in Seq(Txs) /\ Len(mined') = Len(mined) + 1
      /\ \A i \in 1..Len(mined) : mined'[i] = mined[i]
      /\ mined'[Len(mined) + 1] = t
  BY <1>1, <1>2
<1>4. TypeOK'
  BY <1>1, <1>3 DEF TypeOK, At
<1>5. \A i \in 1..Len(mined') :
        \/ i \in 1..Len(mined) /\ mined'[i] = mined[i]
        \/ i = Len(mined) + 1 /\ mined'[i] = t
  BY <1>2, <1>3
<1>6. MinedInOrder'
  BY <1>1, <1>2, <1>5 DEF MinedInOrder, Latest
<1>7. PoolAhead'
  <2>1. \A u \in pool \ {t} : u.nonce \in Nat /\ u.nonce >= Latest /\ u.nonce # Latest
    BY <1>1, TxTypes DEF PoolAhead
  <2>2. Latest' = Latest + 1 /\ Latest \in Nat
    <3>1. account'.start = account.start /\ Len(mined') = Len(mined) + 1
      BY <1>1, <1>3
    <3> QED BY <1>2, <3>1 DEF Latest
  <2> QED BY <1>1, <2>1, <2>2 DEF PoolAhead
<1>8. SentOnce'
  BY <1>1, <1>2, <1>5 DEF SentOnce
<1>9. OwnObject' /\ AskedOps' /\ KnownNonces'
  BY <1>1 DEF OwnObject, AskedOps, KnownNonces, Active, At, Request
<1>10. \A d \in Calls : Repeats(d)' <=> Repeats(d)
  BY <1>1 DEF Repeats, Request
<1>11. CarriesNonce'
  BY <1>1, <1>10 DEF CarriesNonce, At
<1>12. RemembersNonce'
  BY <1>1, <1>2, <1>5, <1>10, TxTypes DEF RemembersNonce
<1> QED BY <1>4, <1>6, <1>7, <1>8, <1>9, <1>11, <1>12

LEMMA SendersInit == Init => IndInv
<1> SUFFICES ASSUME Init PROVE IndInv
  OBVIOUS
<1>1. /\ account.start \in Nat /\ asked \in [Objects -> ObjectRequests]
      /\ account \in [code: BOOLEAN, start: Nat]
  BY SendersAssumption DEF Init
<1>2. \A o \in Objects : asked[o].nonce \in Nat \cup {None}
  BY <1>1 DEF ObjectRequests
<1>3. TypeOK
  BY <1>1, <1>2 DEF Init, TypeOK, Places, At
<1>4. SenderInv
  <2>1. pool = {} /\ Len(mined) = 0 /\ \A c \in Calls : call[c].pc = "idle"
    BY DEF Init
  <2>2. MinedInOrder /\ PoolAhead /\ SentOnce /\ RemembersNonce
    BY <2>1 DEF MinedInOrder, PoolAhead, SentOnce, RemembersNonce
  <2>3. OwnObject /\ AskedOps /\ CarriesNonce
    BY <2>1 DEF OwnObject, AskedOps, CarriesNonce, Active, Running, At
  <2>4. KnownNonces
    BY <1>2, NoneIsNoNat DEF Init, KnownNonces
  <2> QED BY <2>2, <2>3, <2>4 DEF SenderInv
<1> QED BY <1>3, <1>4 DEF IndInv

LEMMA SendersNext == IndInv /\ [Next]_vars => IndInv'
<1> SUFFICES ASSUME IndInv, [Next]_vars PROVE IndInv'
  OBVIOUS
<1>1. ASSUME NEW c \in Calls, Code(c)
      PROVE  IndInv'
  <2>1. CASE Begin(c)
    BY <2>1, BeginStep
  <2>2. CASE SendAccepted(c) \/ SendReplaces(c)
    BY <2>2, PooledStep
  <2>3. CASE Predict(c) \/ FillTransfer(c) \/ FillWithdraw(c) \/ FillDeploy(c) \/ Populate(c)
             \/ Estimate(c) \/ SendRefused(c) \/ Receipt(c) \/ Fails(c)
    <3>1. TypeOK' /\ Local(c)
      BY <2>3, PredictStep, FillTransferStep, FillWithdrawStep, FillDeployStep, PopulateStep,
         EstimateStep, RefusedStep, ReceiptStep, FailsStep
    <3> QED BY <3>1, LocalStep DEF IndInv
  <2> QED BY <1>1, <2>1, <2>2, <2>3 DEF Code, Sending
<1>2. ASSUME NEW t \in pool, Mine(t)
      PROVE  IndInv'
  BY <1>2, MineStep
<1>3. CASE UNCHANGED vars
  <2>1. /\ account' = account /\ asked' = asked /\ object' = object /\ call' = call
        /\ pool' = pool /\ mined' = mined
    BY <1>3 DEF vars, chain
  <2>2. TypeOK'
    BY <2>1 DEF IndInv, TypeOK, At
  <2>3. MinedInOrder' /\ PoolAhead' /\ SentOnce' /\ OwnObject' /\ AskedOps' /\ KnownNonces'
    BY <2>1 DEF IndInv, SenderInv, MinedInOrder, PoolAhead, SentOnce, OwnObject, AskedOps,
       KnownNonces, Latest, Active, At, Request
  <2>4. CarriesNonce' /\ RemembersNonce'
    BY <2>1 DEF IndInv, SenderInv, CarriesNonce, RemembersNonce, At, Request, Repeats
  <2> QED BY <2>2, <2>3, <2>4 DEF IndInv, SenderInv
<1> QED BY <1>1, <1>2, <1>3 DEF Next

\* Every behaviour of the senders keeps the inductive invariant: a transaction on its
\* way carries the nonce its object remembers (get_transfer_transaction,
\* populate_transaction_ecdsa), for any calls, objects and nonces.
THEOREM SenderInvariant == Spec => []SenderInv
<1>1. Spec => []IndInv
  BY SendersInit, SendersNext, PTL DEF Spec
<1>2. IndInv => SenderInv
  BY DEF IndInv
<1> QED BY <1>1, <1>2, PTL

\* What is sent has a nonce, and the variables keep their types.
THEOREM SendersTypeCorrect == Spec => []TypeOK
<1>1. Spec => []IndInv
  BY SendersInit, SendersNext, PTL DEF Spec
<1>2. IndInv => TypeOK
  BY DEF IndInv
<1> QED BY <1>1, <1>2, PTL

-----------------------------------------------------------------------------
LedgerOf == [i \in 1..Len(mined) |-> Job(mined[i].call)]

\* Two transactions of one job have one nonce, or are of one call: what the chain
\* includes next is of a job it has not executed yet.
LEMMA NewJob ==
    ASSUME IndInv, NEW t \in pool, Mine(t), NEW i \in 1..Len(mined)
    PROVE  Job(mined[i].call) # Job(t.call)
<1> DEFINE u == mined[i]
<1>1. /\ t.call \in Calls /\ u.call \in Calls /\ u.call # t.call
      /\ u.nonce \in Nat /\ t.nonce \in Nat
  BY TxTypes DEF IndInv, SenderInv, SentOnce
<1>2. u.nonce < t.nonce
  BY NodeNonces, TxTypes DEF IndInv, SenderInv, MinedInOrder, Mine, Latest
<1>3. Repeats(u.call) /\ Repeats(t.call) => ObjOf[u.call] # ObjOf[t.call]
  BY <1>2, <1>1 DEF IndInv, SenderInv, RemembersNonce
<1>4. ObjOf[u.call] \in Objects /\ ObjOf[t.call] \in Objects
  BY <1>1, SendersAssumption
<1> QED BY <1>1, <1>3, <1>4, SendersAssumption DEF Job

\* The code changes no job of a transaction that is on the chain.
LEMMA JobsKept ==
    ASSUME IndInv, NEW c \in Calls, Code(c)
    PROVE  mined' = mined /\ \A i \in 1..Len(mined) : Job(mined[i].call)' = Job(mined[i].call)
<1>1. /\ UNCHANGED <<account, asked, mined>>
      /\ \A d \in Calls : call[d].pc # "idle" => call'[d].op = call[d].op
  <2>1. CASE Begin(c)
    BY <2>1 DEF Begin, At, chain, IndInv, TypeOK
  <2>2. CASE SendAccepted(c) \/ SendReplaces(c)
    BY <2>2 DEF SendAccepted, SendReplaces, Answered, Goto, IndInv, TypeOK
  <2>3. CASE Predict(c) \/ FillTransfer(c) \/ FillWithdraw(c) \/ FillDeploy(c) \/ Populate(c)
             \/ Estimate(c) \/ SendRefused(c) \/ Receipt(c) \/ Fails(c)
    <3>1. Local(c)
      BY <2>3, PredictStep, FillTransferStep, FillWithdrawStep, FillDeployStep, PopulateStep,
         EstimateStep, RefusedStep, ReceiptStep, FailsStep
    <3> QED BY <3>1 DEF Local
  <2> QED BY <2>1, <2>2, <2>3 DEF Code, Sending
<1>2. \A i \in 1..Len(mined) : mined[i].call \in Calls /\ call[mined[i].call].pc # "idle"
  BY TxTypes DEF IndInv, SenderInv, SentOnce
<1> QED BY <1>1, <1>2 DEF Job, Repeats, Request

LEMMA LedgerInit == Init => Once!Init
<1> SUFFICES ASSUME Init PROVE LedgerOf = << >>
  BY DEF Once!Init, LedgerOf
<1> QED BY DEF Init, LedgerOf

LEMMA LedgerNext == IndInv /\ [Next]_vars => [Once!Next]_LedgerOf
<1> SUFFICES ASSUME IndInv, [Next]_vars
             PROVE  Once!Next \/ LedgerOf' = LedgerOf
  OBVIOUS
<1>1. ASSUME NEW c \in Calls, Code(c)
      PROVE  LedgerOf' = LedgerOf
  BY <1>1, JobsKept DEF LedgerOf
<1>2. ASSUME NEW t \in pool, Mine(t)
      PROVE  Once!Next
  <2>1. /\ mined \in Seq(Txs) /\ Len(mined) \in Nat /\ mined' = Append(mined, t)
        /\ t.call \in Calls /\ t \in Txs
    BY <1>2, TxTypes DEF Mine, IndInv, TypeOK
  <2>2. \A d \in Calls : Job(d)' = Job(d)
    BY <1>2 DEF Mine, Job, Repeats, Request
  <2>3. /\ Job(t.call) \in Calls \cup Objects
        /\ \A i \in 1..Len(mined) : Job(mined[i].call) \in Calls \cup Objects
    BY <2>1, TxTypes, SendersAssumption DEF Job, IndInv
  <2>4. /\ LedgerOf \in Seq(Calls \cup Objects) /\ Len(LedgerOf) = Len(mined)
        /\ \A i \in 1..Len(LedgerOf) : LedgerOf[i] = Job(mined[i].call)
    BY <2>1, <2>3 DEF LedgerOf
  <2>5. LedgerOf' = Append(LedgerOf, Job(t.call))
    <3>1. /\ Len(mined') = Len(mined) + 1
          /\ mined'[Len(mined) + 1] = t
          /\ \A i \in 1..Len(mined) : mined'[i] = mined[i] /\ mined[i].call \in Calls
      BY <2>1, TxTypes DEF IndInv
    <3>2. UNCHANGED <<account, asked, call>>
      BY <1>2 DEF Mine
    <3>3. LedgerOf' = [i \in 1..Len(mined') |-> Job(mined'[i].call)]
      BY <3>2 DEF LedgerOf, Job, Repeats, Request
    <3>4. \A i \in 1..(Len(mined) + 1) :
            Job(mined'[i].call) = IF i = Len(mined) + 1 THEN Job(t.call) ELSE LedgerOf[i]
      BY <2>1, <2>4, <3>1
    <3> QED BY <2>1, <2>3, <2>4, <3>1, <3>3, <3>4
  <2>6. \A i \in 1..Len(LedgerOf) : LedgerOf[i] # Job(t.call)
    BY <1>2, <2>4, NewJob
  <2>7. Once!Execute(Job(t.call))
    BY <2>5, <2>6 DEF Once!Execute, LedgerOf
  <2> QED BY <2>3, <2>7 DEF Once!Next
<1>3. CASE UNCHANGED vars
  BY <1>3 DEF vars, chain, LedgerOf, Job, Repeats, Request
<1> QED BY <1>1, <1>2, <1>3 DEF Next

\* The senders implement the ledger: whatever is refused, replaced, lost or retried, a
\* job is executed at most once.
THEOREM ExecutedOnce == Spec => ExecutesOnce
<1>1. Spec => []IndInv
  BY SendersInit, SendersNext, PTL DEF Spec
<1>2. Init => Once!Init
  BY LedgerInit
<1>3. IndInv /\ [Next]_vars => [Once!Next]_LedgerOf
  BY LedgerNext
<1> QED BY <1>1, <1>2, <1>3, PTL DEF Spec, ExecutesOnce, Once!Spec, LedgerOf
-----------------------------------------------------------------------------
\* What a step of call c that neither begins it nor reaches the pool has to show of the
\* nonce it chooses, the address it predicts and the address it returns.
OwnFreshNonce(c) ==
    /\ (At(c, "predict") \/ At(c, "fill")) /\ call[c].op # "deploy" => object[ObjOf[c]] = None
    /\ At(c, "send") \/ (At(c, "estimate") /\ AfterEstimate(call[c].op) = "send")
          => Fresh(call[c].nonce)
    /\ At(c, "populate") \/ (At(c, "estimate") /\ AfterEstimate(call[c].op) = "populate")
          => call[c].nonce \in {None, 0} \/ Fresh(call[c].nonce)

OwnPlace(c) ==
    /\ At(c, "fill") \/ At(c, "estimate") \/ At(c, "send") => Predicts(c, deployments)
    /\ At(c, "estimate") \/ At(c, "send") => call[c].nonce = Latest

OwnAddress(c) ==
    /\ \E i \in 1..Len(mined) : mined[i].call = c
    /\ (Request(c).deps => Request(c).inner <= 1) => call[c].address \in {None, contracts[c]}

Choice(c) ==
    /\ UNCHANGED <<deployments, contracts, overlapped, unsettled>>
    /\ collided' = collided \/ (collided' = collided \cup {c} /\ (c \in overlapped \/ Explained(c)))
    /\ call'[c].pc = "wait" => call[c].pc = "wait"
    /\ c \notin overlapped /\ ~Explained(c) => OwnFreshNonce(c)'
    /\ call'[c].predicted = call[c].predicted \/ call[c].pc = "predict"
    /\ call'[c].address = call[c].address \/ OwnAddress(c)'
    /\ c \notin overlapped \cup unsettled /\ call[c].op = "deploy" => OwnPlace(c)'

\* Whether a nonce is fresh and a collision is explained do not change with such a step.
LEMMA LocalKeeps ==
    ASSUME IndInv, NEW c \in Calls, Local(c), Choice(c)
    PROVE  /\ Latest' = Latest
           /\ \A n : Fresh(n)' <=> Fresh(n)
           /\ \A d \in Calls : /\ Explained(d)' <=> Explained(d)
                               /\ At(d, "idle")' <=> At(d, "idle")
                               /\ Active(d)' => Active(d)
<1>1. /\ account' = account /\ asked' = asked /\ pool' = pool /\ mined' = mined
      /\ unsettled' = unsettled
      /\ \A d \in Calls \ {c} : call'[d] = call[d]
      /\ call'[c].op = call[c].op /\ call[c].pc # "idle" /\ call'[c].pc # "idle"
      /\ Active(c)' => Active(c)
  BY DEF Local, Choice
<1>2. Latest' = Latest /\ \A n : Fresh(n)' <=> Fresh(n)
  BY <1>1 DEF Latest, Fresh, Taken
<1>3. \A d \in Calls : (At(d, "idle")' <=> At(d, "idle")) /\ (Active(d)' => Active(d))
  BY <1>1 DEF At, Active
<1>4. \A d \in Calls : call'[d].op = call[d].op
  BY <1>1
<1>5. \A d \in Calls : LatestReader(d)' <=> LatestReader(d)
  BY <1>1, <1>4 DEF LatestReader
<1>6. \A d \in Calls : Explained(d)' <=> Explained(d)
  BY <1>1, <1>3, <1>4, <1>5 DEF Explained, Request
<1> QED BY <1>2, <1>3, <1>6

LEMMA ChoiceStep ==
    ASSUME IndInv, ChoiceInv, NEW c \in Calls, Local(c), Choice(c)
    PROVE  ChoiceInv'
<1>1. /\ account' = account /\ asked' = asked /\ pool' = pool /\ mined' = mined
      /\ deployments' = deployments /\ contracts' = contracts
      /\ overlapped' = overlapped /\ unsettled' = unsettled
      /\ \A d \in Calls \ {c} : call'[d] = call[d]
      /\ call'[c].op = call[c].op /\ call[c].pc # "idle" /\ call'[c].pc # "idle"
      /\ Active(c)' => Active(c)
      /\ \A o \in Objects \ {ObjOf[c]} : object'[o] = object[o]
  BY DEF Local, Choice
<1>2. ObjOf[c] \in Objects
  BY SendersAssumption
<1>3. /\ Latest' = Latest
      /\ \A n : Fresh(n)' <=> Fresh(n)
      /\ \A d \in Calls : /\ Explained(d)' <=> Explained(d)
                          /\ At(d, "idle")' <=> At(d, "idle")
                          /\ Active(d)' => Active(d)
  BY LocalKeeps
<1>4. KeepsChosen'
  <2>1. call[c].op = "saSend" => asked[ObjOf[c]].kind = "tx"
    <3>1. call[c].op \in OpsOn(asked[ObjOf[c]].kind) /\ asked[ObjOf[c]].kind \in Kinds
      BY <1>1, ObjectTypes DEF IndInv, SenderInv, AskedOps, At, Request
    <3> QED BY <3>1 DEF OpsOn, Kinds
  <2>2. /\ object[ObjOf[c]] # None /\ (call[c].op = "saSend" => object[ObjOf[c]] # 0)
              => object'[ObjOf[c]] = object[ObjOf[c]]
    BY DEF Local
  <2> QED BY <1>1, <2>1, <2>2 DEF ChoiceInv, KeepsChosen
<1>5. Untouched'
  BY <1>1, <1>3 DEF ChoiceInv, Untouched, At
<1>6. Histories'
  <2>1. \A d \in collided' : d \in Calls /\ ~At(d, "idle")'
    BY <1>1, <1>3 DEF ChoiceInv, Histories, Choice, At
  <2>2. \A d \in Calls : At(d, "wait")' => At(d, "wait")
    BY <1>1 DEF Choice, At
  <2>3. \A d \in Calls \ (overlapped \cup unsettled) : Active(d)' /\ ~At(d, "wait")' => pool = {}
    <3> SUFFICES ASSUME NEW d \in Calls \ (overlapped \cup unsettled),
                        Active(d)', ~At(d, "wait")'
                 PROVE  pool = {}
      OBVIOUS
    <3>1. Active(d)
      BY <1>3
    <3>2. d # c => ~At(d, "wait")
      BY <1>1 DEF At
    <3>3. d = c => ~At(c, "wait")
      <4> SUFFICES ASSUME d = c, At(c, "wait") PROVE FALSE
        OBVIOUS
      <4> QED BY DEF Local, Late, At, Active, Running
    <3> QED BY <3>1, <3>2, <3>3 DEF ChoiceInv, Histories
  <2> QED BY <1>1, <1>3, <2>1, <2>3 DEF ChoiceInv, Histories
<1>7. FreshNonces'
  <2> SUFFICES ASSUME NEW d \in Calls \ overlapped, Active(d)', ~Explained(d)'
               PROVE  OwnFreshNonce(d)'
    BY <1>1 DEF FreshNonces, OwnFreshNonce
  <2>1. CASE d = c
    BY <1>3, <2>1 DEF Choice
  <2>2. CASE d # c
    <3>1. Active(d) /\ ~Explained(d) /\ call'[d] = call[d]
      BY <1>1, <1>3, <2>2
    <3>2. OwnFreshNonce(d)
      BY <3>1 DEF ChoiceInv, FreshNonces, OwnFreshNonce
    <3>3. object'[ObjOf[d]] = object[ObjOf[d]]
      <4>1. ObjOf[d] # ObjOf[c] \/ ~Active(c)
        BY <2>2, <3>1 DEF IndInv, SenderInv, OwnObject
      <4> QED BY <4>1, <1>1, <1>2, SendersAssumption DEF Local
    <3>4. AfterEstimate(call[d].op)' = AfterEstimate(call[d].op)
      BY <1>1, <3>1 DEF AfterEstimate
    <3> QED BY <1>3, <3>1, <3>2, <3>3, <3>4 DEF OwnFreshNonce, At
  <2> QED BY <2>1, <2>2
<1>8. CollisionsExplained'
  BY <1>1, <1>3 DEF ChoiceInv, CollisionsExplained, Histories, Choice
<1>9. Deployed'
  <2>1. \A d \in Calls : call'[d].op = call[d].op
    BY <1>1
  <2>2. \A d \in Calls : call'[d].address # None /\ call'[d].address # call[d].address
              => \E i \in 1..Len(mined) : mined[i].call = d
    BY <1>1 DEF Choice, OwnAddress
  <2> QED BY <1>1, <2>1, <2>2 DEF ChoiceInv, Deployed
<1>10. DeployReturnsItsContract'
  BY <1>1 DEF ChoiceInv, DeployReturnsItsContract, Choice, OwnAddress, Request
<1>11. \A d \in Calls : \A n : call[d].pc # "predict" \/ d # c => (Predicts(d, n)' <=> Predicts(d, n))
  BY <1>1 DEF Predicts, Request, Choice
<1>12. KeepsPlace'
  <2> SUFFICES ASSUME NEW d \in Calls \ (overlapped \cup unsettled), call'[d].op = "deploy"
               PROVE  /\ OwnPlace(d)'
                      /\ \A t \in pool : t.call = d => t.nonce = Latest /\ Predicts(d, deployments)'
    BY <1>1, <1>3 DEF KeepsPlace, OwnPlace
  <2>1. /\ call[d].op = "deploy"
        /\ OwnPlace(d)
        /\ \A t \in pool : t.call = d => t.nonce = Latest /\ Predicts(d, deployments)
    BY <1>1 DEF ChoiceInv, KeepsPlace, OwnPlace
  <2>2. \A t \in pool : t.call = d => call[d].pc # "predict"
    BY DEF IndInv, SenderInv, SentOnce
  <2>3. \A t \in pool : t.call = d => t.nonce = Latest /\ Predicts(d, deployments)'
    BY <1>1, <1>11, <2>1, <2>2
  <2>4. CASE d = c
    BY <2>1, <2>3, <2>4 DEF Choice
  <2>5. CASE d # c
    BY <1>1, <1>3, <1>11, <2>1, <2>3, <2>5 DEF OwnPlace, At
  <2> QED BY <2>4, <2>5
<1>13. PredictsItsNonce'
  <2> SUFFICES ASSUME NEW d \in Calls \ (overlapped \cup unsettled), contracts[d] # None
               PROVE  /\ \A n : Predicts(d, n)' <=> Predicts(d, n)
                      /\ call'[d].predicted = call[d].predicted
    BY <1>1 DEF ChoiceInv, PredictsItsNonce, Request
  <2>1. call[d].pc # "predict"
    <3>1. PICK i \in 1..Len(mined) : mined[i].call = d
      BY DEF ChoiceInv, Deployed
    <3> QED BY <3>1 DEF IndInv, SenderInv, SentOnce
  <2> QED BY <1>1, <1>11, <2>1 DEF Choice
<1> QED BY <1>4, <1>5, <1>6, <1>7, <1>8, <1>9, <1>10, <1>12, <1>13 DEF ChoiceInv

-----------------------------------------------------------------------------
\* The parts of the invariants that speak of call c alone.
LEMMA OwnParts ==
    ASSUME IndInv, ChoiceInv, NEW c \in Calls, Active(c)
    PROVE  /\ c \notin overlapped /\ ~Explained(c) => OwnFreshNonce(c)
           /\ c \notin overlapped \cup unsettled =>
                /\ call[c].op = "deploy" => OwnPlace(c)
                /\ ~At(c, "wait") => pool = {}
BY DEF ChoiceInv, FreshNonces, OwnFreshNonce, KeepsPlace, OwnPlace, Histories

\* What the node answers is fresh; the latest count is when the pool is empty.
LEMMA FreshAnswers ==
    ASSUME IndInv
    PROVE  /\ \A n \in PendingNonces : Fresh(n)
           /\ pool = {} => Fresh(Latest) /\ \A n \in PendingNonces : n = Latest
<1>1. Latest \in Nat
  BY NodeNonces DEF IndInv
<1>2. \A n \in PendingNonces : Fresh(n)
  BY <1>1 DEF PendingNonces, Fresh
<1>3. pool = {} => Fresh(Latest)
  BY <1>1 DEF Fresh, Taken
<1>4. pool = {} => \A n \in PendingNonces : n = Latest
  BY DEF PendingNonces
<1> QED BY <1>2, <1>3, <1>4

LEMMA PredictChoice ==
    ASSUME IndInv, ChoiceInv, NEW c \in Calls, Predict(c)
    PROVE  Choice(c)
<1> DEFINE p == IF Request(c).kind = "create" THEN ComputeCreateAddress(deployments)
                                              ELSE ComputeCreate2Address(ObjOf[c])
<1>1. /\ call[c].pc = "predict" /\ Active(c)
      /\ call' = [call EXCEPT ![c].pc = "fill", ![c].predicted = p]
      /\ UNCHANGED <<asked, object, deployments, contracts, collided, overlapped, unsettled>>
  BY DEF Predict, At, Active, Running, chain, history
<1>2. call'[c] = [call[c] EXCEPT !.pc = "fill", !.predicted = p]
  BY <1>1 DEF IndInv, TypeOK
<1>3. /\ call'[c].pc = "fill" /\ call'[c].predicted = p
      /\ call'[c].op = call[c].op /\ call'[c].address = call[c].address
  BY <1>2 DEF IndInv, TypeOK
<1>4. c \notin overlapped /\ ~Explained(c) => OwnFreshNonce(c)'
  BY <1>1, <1>3, OwnParts DEF OwnFreshNonce, At
<1>5. OwnPlace(c)'
  BY <1>1, <1>3 DEF OwnPlace, At, Predicts, Request, ComputeCreateAddress, ComputeCreate2Address
<1> QED BY <1>1, <1>3, <1>4, <1>5 DEF Choice

LEMMA EstimateChoice ==
    ASSUME IndInv, ChoiceInv, NEW c \in Calls, Estimate(c)
    PROVE  Choice(c)
<1>1. /\ call[c].pc = "estimate" /\ Active(c)
      /\ call' = [call EXCEPT ![c].pc = AfterEstimate(call[c].op)]
      /\ UNCHANGED <<account, asked, object, pool, mined>>
      /\ UNCHANGED <<deployments, contracts, collided, overlapped, unsettled>>
  BY DEF Estimate, Goto, At, Active, Running, chain, history
<1>2. /\ call'[c].pc = AfterEstimate(call[c].op) /\ call'[c].nonce = call[c].nonce
      /\ call'[c].predicted = call[c].predicted /\ call'[c].op = call[c].op
      /\ call'[c].address = call[c].address
  BY <1>1 DEF IndInv, TypeOK
<1>3. AfterEstimate(call[c].op) \in {"populate", "send"}
  BY Stages
<1>4. c \notin overlapped /\ ~Explained(c) => OwnFreshNonce(c)'
  BY <1>1, <1>2, <1>3, OwnParts DEF OwnFreshNonce, At, Fresh, Latest, Taken
<1>5. OwnPlace(c) => OwnPlace(c)'
  BY <1>1, <1>2, <1>3 DEF OwnPlace, At, Predicts, Latest, Request
<1> QED BY <1>1, <1>2, <1>3, <1>4, <1>5, OwnParts DEF Choice

LEMMA FailsChoice ==
    ASSUME IndInv, ChoiceInv, NEW c \in Calls, Fails(c)
    PROVE  Choice(c)
<1>1. /\ call' = [call EXCEPT ![c].pc = "raised"]
      /\ UNCHANGED <<deployments, contracts, collided, overlapped, unsettled>>
  BY DEF Fails, Goto, chain, history
<1>2. /\ call'[c].pc = "raised" /\ call'[c].predicted = call[c].predicted
      /\ call'[c].address = call[c].address
  BY <1>1 DEF IndInv, TypeOK
<1>3. OwnFreshNonce(c)' /\ OwnPlace(c)'
  BY <1>2 DEF OwnFreshNonce, OwnPlace, At
<1> QED BY <1>1, <1>2, <1>3 DEF Choice

LEMMA FillDeployChoice ==
    ASSUME IndInv, ChoiceInv, NEW c \in Calls, FillDeploy(c)
    PROVE  Choice(c)
<1>1. PICK n \in PendingNonces : call' = [call EXCEPT ![c].pc = "estimate", ![c].nonce = n]
  BY DEF FillDeploy, DeployNonces
<1>2. /\ call[c].pc = "fill" /\ call[c].op = "deploy" /\ Active(c)
      /\ UNCHANGED <<account, asked, object, pool, mined>>
      /\ UNCHANGED <<deployments, contracts, collided, overlapped, unsettled>>
  BY DEF FillDeploy, At, Active, Running, chain, history
<1>3. call'[c] = [call[c] EXCEPT !.pc = "estimate", !.nonce = n]
  BY <1>1 DEF IndInv, TypeOK
<1>4. /\ call'[c].pc = "estimate" /\ call'[c].nonce = n
      /\ call'[c].predicted = call[c].predicted /\ call'[c].op = call[c].op
      /\ call'[c].address = call[c].address
  BY <1>3 DEF IndInv, TypeOK
<1>5. OwnFreshNonce(c)'
  <2>1. Fresh(n)'
    BY <1>2, FreshAnswers DEF Fresh, Latest, Taken
  <2> QED BY <1>2, <1>4, <2>1 DEF OwnFreshNonce, At
<1>6. c \notin overlapped \cup unsettled => OwnPlace(c)'
  <2> SUFFICES ASSUME c \notin overlapped \cup unsettled PROVE OwnPlace(c)'
    OBVIOUS
  <2>1. n = Latest /\ Predicts(c, deployments)
    BY <1>2, OwnParts, FreshAnswers DEF OwnPlace, At
  <2>2. Predicts(c, deployments)' /\ Latest' = Latest
    BY <1>2, <1>4, <2>1 DEF Predicts, Request, Latest
  <2> QED BY <1>4, <2>1, <2>2 DEF OwnPlace
<1> QED BY <1>2, <1>4, <1>5, <1>6 DEF Choice

\* A transfer and a withdrawal without a nonce read the latest count.
LEMMA FillTransferChoice ==
    ASSUME IndInv, ChoiceInv, NEW c \in Calls, FillTransfer(c)
    PROVE  Choice(c)
<1>0. PICK n : n = GivenNonce(ObjOf[c])
  OBVIOUS
<1>1. /\ call[c].pc = "fill" /\ call[c].op \in {"transfer", "saTransfer"} /\ Active(c)
      /\ call' = [call EXCEPT ![c].pc = AfterFill(call[c].op), ![c].nonce = n]
      /\ UNCHANGED <<account, asked, pool, mined>>
      /\ UNCHANGED <<deployments, contracts, collided, overlapped, unsettled>>
  BY <1>0 DEF FillTransfer, At, Active, Running, chain, history
<1>2. call'[c] = [call[c] EXCEPT !.pc = AfterFill(call[c].op), !.nonce = n]
  BY <1>1 DEF IndInv, TypeOK
<1>3. /\ call'[c].pc = AfterFill(call[c].op) /\ call'[c].nonce = n
      /\ call'[c].predicted = call[c].predicted /\ call'[c].op = call[c].op
      /\ call'[c].address = call[c].address
      /\ AfterFill(call[c].op) \in {"populate", "estimate"}
  BY <1>2, Stages DEF IndInv, TypeOK
<1>4. ASSUME c \notin overlapped, ~Explained(c)
      PROVE  OwnFreshNonce(c)'
  <2>1. object[ObjOf[c]] = None /\ c \notin unsettled
    BY <1>1, <1>4, OwnParts DEF OwnFreshNonce, At, Explained, LatestReader
  <2>2. n = Latest /\ pool = {}
    BY <1>0, <1>1, <1>4, <2>1, OwnParts DEF GivenNonce, At
  <2>3. Fresh(n)'
    BY <1>1, <2>2, FreshAnswers DEF Fresh, Latest, Taken
  <2> QED BY <1>3, <2>3 DEF OwnFreshNonce, At
<1> QED BY <1>1, <1>3, <1>4 DEF Choice

LEMMA FillWithdrawChoice ==
    ASSUME IndInv, ChoiceInv, NEW c \in Calls, FillWithdraw(c)
    PROVE  Choice(c)
<1>0. PICK n : n = IF account.code /\ object[ObjOf[c]] = None THEN 0 ELSE GivenNonce(ObjOf[c])
  OBVIOUS
<1>1. /\ call[c].pc = "fill" /\ call[c].op \in {"withdraw", "saWithdraw"} /\ Active(c)
      /\ call' = [call EXCEPT ![c].pc = AfterFill(call[c].op), ![c].nonce = n]
      /\ UNCHANGED <<account, asked, object, pool, mined>>
      /\ UNCHANGED <<deployments, contracts, collided, overlapped, unsettled>>
  BY <1>0 DEF FillWithdraw, At, Active, Running, chain, history
<1>2. call'[c] = [call[c] EXCEPT !.pc = AfterFill(call[c].op), !.nonce = n]
  BY <1>1 DEF IndInv, TypeOK
<1>3. /\ call'[c].pc = AfterFill(call[c].op) /\ call'[c].nonce = n
      /\ call'[c].predicted = call[c].predicted /\ call'[c].op = call[c].op
      /\ call'[c].address = call[c].address
      /\ AfterFill(call[c].op) \in {"populate", "estimate"}
  BY <1>2, Stages DEF IndInv, TypeOK
<1>4. ASSUME c \notin overlapped, ~Explained(c)
      PROVE  OwnFreshNonce(c)'
  <2>1. object[ObjOf[c]] = None
    BY <1>1, <1>4, OwnParts DEF OwnFreshNonce, At
  <2>2. CASE call[c].op = "saWithdraw" /\ account.code
    <3>1. AfterFill(call[c].op) = "estimate" /\ AfterEstimate(call[c].op) = "populate"
      BY <2>2 DEF AfterFill, AfterEstimate, SmartOps
    <3>2. n = 0
      BY <1>0, <2>1, <2>2
    <3>3. AfterEstimate(call[c].op)' = "populate"
      BY <1>1, <1>3, <3>1 DEF AfterEstimate
    <3> QED BY <1>3, <3>1, <3>2, <3>3 DEF OwnFreshNonce, At
  <2>3. CASE ~(call[c].op = "saWithdraw" /\ account.code)
    <3>1. c \notin unsettled
      BY <1>1, <1>4, <2>3 DEF Explained, LatestReader
    <3>2. pool = {}
      BY <1>1, <1>4, <3>1, OwnParts DEF At
    <3>3. ~account.code
      BY <1>1, <2>3 DEF ChoiceInv, Histories, At, SmartOps
    <3>4. n = Latest
      BY <1>0, <2>1, <3>3 DEF GivenNonce
    <3>5. Fresh(n)'
      BY <1>1, <3>2, <3>4, FreshAnswers DEF Fresh, Latest, Taken
    <3> QED BY <1>3, <3>5 DEF OwnFreshNonce, At
  <2> QED BY <2>2, <2>3
<1> QED BY <1>1, <1>3, <1>4 DEF Choice

\* A nonce that is absent or zero is read again, and any other is kept.
LEMMA PopulateChoice ==
    ASSUME IndInv, ChoiceInv, NEW c \in Calls, Populate(c)
    PROVE  Choice(c)
<1>1. PICK n \in PopulatedNonces(call[c].nonce) :
        call' = [call EXCEPT ![c].pc = AfterPopulate, ![c].nonce = n]
  BY DEF Populate
<1>2. /\ call[c].pc = "populate" /\ Active(c)
      /\ UNCHANGED <<account, asked, pool, mined>>
      /\ UNCHANGED <<deployments, contracts, collided, overlapped, unsettled>>
  BY DEF Populate, At, Active, Running, chain, history
<1>3. call'[c] = [call[c] EXCEPT !.pc = AfterPopulate, !.nonce = n]
  BY <1>1 DEF IndInv, TypeOK
<1>4. /\ call'[c].pc = AfterPopulate /\ call'[c].nonce = n
      /\ call'[c].predicted = call[c].predicted /\ call'[c].op = call[c].op
      /\ call'[c].address = call[c].address
      /\ AfterPopulate \in {"send", "estimate"}
  BY <1>3, Stages DEF IndInv, TypeOK
<1>5. call[c].op \in SmartOps
  BY <1>2 DEF IndInv, SenderInv, CarriesNonce, At
<1>6. ASSUME c \notin overlapped, ~Explained(c)
      PROVE  OwnFreshNonce(c)'
  <2>1. call[c].nonce \in {None, 0} \/ Fresh(call[c].nonce)
    BY <1>2, <1>6, OwnParts DEF OwnFreshNonce, At
  <2>2. Fresh(n)
    BY <2>1, FreshAnswers DEF PopulatedNonces
  <2>3. Fresh(n)'
    BY <1>2, <2>2 DEF Fresh, Latest, Taken
  <2> QED BY <1>4, <2>3 DEF OwnFreshNonce, At
<1>7. call[c].op # "deploy"
  BY <1>5 DEF SmartOps
<1> QED BY <1>2, <1>4, <1>6, <1>7 DEF Choice

\* A nonce that is taken was not fresh.
LEMMA TakenExplained ==
    ASSUME IndInv, ChoiceInv, NEW c \in Calls, At(c, "send"),
           TooLow(c) \/ Taken(call[c].nonce)
    PROVE  c \in overlapped \/ Explained(c)
<1>1. Active(c) /\ call[c].nonce \in Nat /\ Latest \in Nat
  BY NodeNonces DEF IndInv, TypeOK, Active, Running, At
<1>2. ~Fresh(call[c].nonce)
  BY <1>1 DEF Fresh, TooLow
<1> QED BY <1>1, <1>2, OwnParts DEF OwnFreshNonce

LEMMA RefusedChoice ==
    ASSUME IndInv, ChoiceInv, NEW c \in Calls, SendRefused(c)
    PROVE  Choice(c)
<1>1. /\ call' = [call EXCEPT ![c].pc = "raised"]
      /\ UNCHANGED <<deployments, contracts, overlapped, unsettled>>
      /\ collided' = collided \cup {c}
  BY DEF SendRefused, Goto, chain
<1>2. /\ call'[c].pc = "raised" /\ call'[c].predicted = call[c].predicted
      /\ call'[c].address = call[c].address
  BY <1>1 DEF IndInv, TypeOK
<1>3. OwnFreshNonce(c)' /\ OwnPlace(c)'
  BY <1>2 DEF OwnFreshNonce, OwnPlace, At
<1>4. c \in overlapped \/ Explained(c)
  BY TakenExplained DEF SendRefused
<1> QED BY <1>1, <1>2, <1>3, <1>4 DEF Choice

\* With one contract among the dependencies, the second event is that of the call.
LEMMA ReceiptChoice ==
    ASSUME IndInv, ChoiceInv, NEW c \in Calls, Receipt(c)
    PROVE  Choice(c)
<1>1. /\ call[c].pc = "wait"
      /\ \E i \in 1..Len(mined) : mined[i].call = c
      /\ UNCHANGED <<asked, mined, deployments, contracts, collided, overlapped, unsettled>>
  BY DEF Receipt, At, chain, history
<1>2. \/ /\ ~Request(c).deps
         /\ call' = [call EXCEPT ![c].pc = "returned", ![c].address = contracts[c]]
      \/ call' = [call EXCEPT ![c].pc = "raised"]
      \/ /\ Request(c).deps /\ ~(Len(DeployEvents(c)) < 2)
         /\ call' = [call EXCEPT ![c].pc = "returned", ![c].address = DeployEvents(c)[2]]
  BY DEF Receipt, Goto, EventIndex
<1>3. /\ DOMAIN call = Calls
      /\ DOMAIN call[c] = {"pc", "op", "nonce", "predicted", "address"}
  BY DEF IndInv, TypeOK
<1>4. /\ call'[c].pc \in {"returned", "raised"} /\ call'[c].predicted = call[c].predicted
      /\ \/ call'[c].address = call[c].address
         \/ ~Request(c).deps /\ call'[c].address = contracts[c]
         \/ /\ Request(c).deps /\ ~(Len(DeployEvents(c)) < 2)
            /\ call'[c].address = DeployEvents(c)[2]
  BY <1>2, <1>3
<1>5. Request(c).inner <= 1 /\ ~(Len(DeployEvents(c)) < 2) => DeployEvents(c)[2] = contracts[c]
  <2>1. Request(c).inner \in Nat
    BY SendersAssumption DEF IndInv, TypeOK, Request, ObjectRequests
  <2>2. PICK inner : inner = [k \in 1..Request(c).inner |-> <<"inner", c, k>>]
    OBVIOUS
  <2>3. /\ inner \in Seq({<<"inner", c, k>> : k \in 1..Request(c).inner})
        /\ Len(inner) = Request(c).inner
    <3>1. PICK X : X = {<<"inner", c, k>> : k \in 1..Request(c).inner}
      OBVIOUS
    <3>2. inner \in [1..Request(c).inner -> X]
      BY <2>2, <3>1
    <3>3. inner \in Seq(X) /\ Len(inner) = Request(c).inner
      BY <2>1, <3>2
    <3> QED BY <3>1, <3>3
  <2>4. CASE contracts[c] = None
    <3>1. DeployEvents(c) = << >>
      BY <2>4 DEF DeployEvents
    <3> QED BY <3>1
  <2>5. CASE contracts[c] # None
    <3>1. DeployEvents(c) = inner \o <<contracts[c]>>
      BY <2>2, <2>5 DEF DeployEvents
    <3>2. /\ Len(DeployEvents(c)) = Request(c).inner + 1
          /\ DeployEvents(c)[Request(c).inner + 1] = contracts[c]
      BY <2>1, <2>3, <3>1
    <3>3. Request(c).inner <= 1 /\ ~(Len(DeployEvents(c)) < 2) => Request(c).inner = 1
      BY <2>1, <3>2
    <3> QED BY <3>2, <3>3
  <2> QED BY <2>4, <2>5
<1>6. call'[c].address = call[c].address \/ OwnAddress(c)'
  <2>1. \/ call'[c].address = call[c].address
        \/ (Request(c).deps => Request(c).inner <= 1) => call'[c].address = contracts[c]
    BY <1>4, <1>5
  <2> QED BY <1>1, <2>1 DEF OwnAddress, Request
<1>7. OwnFreshNonce(c)' /\ OwnPlace(c)'
  BY <1>4 DEF OwnFreshNonce, OwnPlace, At
<1> QED BY <1>1, <1>4, <1>6, <1>7 DEF Choice

-----------------------------------------------------------------------------
\* A call that begins is alone, or all that run are known to overlap.
LEMMA BeginChoice ==
    ASSUME IndInv, ChoiceInv, NEW c \in Calls, Begin(c)
    PROVE  ChoiceInv'
<1>1. PICK op \in OpsOn(Request(c).kind) :
        /\ account.code => op \in SmartOps
        /\ call' = [call EXCEPT ![c].pc = First(op), ![c].op = op,
                                ![c].nonce = IF op = "saSend" THEN object[ObjOf[c]] ELSE None]
  BY DEF Begin
<1>2. /\ call[c].pc = "idle"
      /\ account' = account /\ asked' = asked /\ object' = object
      /\ pool' = pool /\ mined' = mined /\ deployments' = deployments /\ contracts' = contracts
      /\ collided' = collided
  BY DEF Begin, At, chain
<1>3. /\ \A d \in Calls : Active(d) => d \in overlapped'
      /\ overlapped \subseteq overlapped'
      /\ c \notin overlapped' => \A d \in Calls : ~Active(d)
      /\ unsettled \subseteq unsettled'
      /\ c \notin unsettled' => pool = {}
  BY DEF Begin
<1>4. /\ call'[c].pc = First(op) /\ call'[c].op = op
      /\ call'[c].nonce = IF op = "saSend" THEN object[ObjOf[c]] ELSE None
      /\ call'[c].predicted = call[c].predicted /\ call'[c].address = call[c].address
      /\ \A d \in Calls \ {c} : call'[d] = call[d]
  <2>1. call'[c] = [call[c] EXCEPT !.pc = First(op), !.op = op,
                       !.nonce = IF op = "saSend" THEN object[ObjOf[c]] ELSE None]
    BY <1>1 DEF IndInv, TypeOK
  <2>2. DOMAIN call[c] = {"pc", "op", "nonce", "predicted", "address"}
    BY DEF IndInv, TypeOK
  <2>3. \A d \in Calls \ {c} : call'[d] = call[d]
    BY <1>1 DEF IndInv, TypeOK
  <2> QED BY <2>1, <2>2, <2>3
<1>5. First(op) # "idle" /\ First(op) # "send" /\ First(op) # "wait"
  BY DEF First
<1>6. /\ Latest' = Latest
      /\ \A d \in Calls \ {c} : /\ Active(d)' <=> Active(d)
                                /\ At(d, "idle")' <=> At(d, "idle")
  BY <1>2, <1>4 DEF Latest, Active, At
<1>7. \A d \in Calls : d \notin overlapped' /\ Active(d)' => d = c /\ c \notin overlapped'
  BY <1>3, <1>6
<1>8. KeepsChosen'
  BY <1>2 DEF ChoiceInv, KeepsChosen
<1>9. Untouched'
  <2>1. \A d \in Calls : At(d, "idle")' => At(d, "idle")
    BY <1>2, <1>6 DEF At
  <2> QED BY <1>2, <2>1 DEF ChoiceInv, Untouched
<1>10. Histories'
  <2>1. \A d \in collided : d \in Calls /\ ~At(d, "idle")'
    BY <1>2, <1>6 DEF ChoiceInv, Histories, At
  <2>2. account.code => \A d \in Calls : ~At(d, "idle")' => call'[d].op \in SmartOps
    BY <1>1, <1>4, <1>6 DEF ChoiceInv, Histories
  <2>3. \A d, e \in Calls : Active(d)' /\ d \notin overlapped' /\ Active(e)' => d = e
    BY <1>3, <1>6, <1>7
  <2>4. \A d \in Calls \ (overlapped' \cup unsettled') : Active(d)' => pool = {}
    BY <1>3, <1>7
  <2> QED BY <1>2, <2>1, <2>2, <2>3, <2>4 DEF Histories
<1>11. FreshNonces'
  <2> SUFFICES ASSUME c \notin overlapped', ~Explained(c)'
               PROVE  OwnFreshNonce(c)'
    BY <1>7 DEF FreshNonces, OwnFreshNonce
  <2>1. CASE op = "deploy"
    <3>1. call'[c].pc = "predict"
      BY <1>4, <2>1 DEF First
    <3> QED BY <1>4, <2>1, <3>1 DEF OwnFreshNonce, At
  <2>2. CASE op # "deploy"
    <3>1. Request(c).nonce = None /\ \A d \in Calls \ {c} : ObjOf[d] = ObjOf[c] => At(d, "idle")
      BY <1>2, <1>4, <1>6, <2>2 DEF Explained, Request
    <3>2. object[ObjOf[c]] = None
      BY <1>2, <3>1, SendersAssumption DEF ChoiceInv, Untouched, Request, At
    <3>3. call'[c].nonce = None
      BY <1>4, <3>2
    <3>4. ~At(c, "send")'
      BY <1>4, <1>5 DEF At
    <3>5. At(c, "estimate")' => AfterEstimate(op)' = "populate"
      BY <1>2, <1>4, Stages DEF At, AfterEstimate, Carrying, First
    <3>6. call'[c].op = op
      BY <1>4
    <3>7. AfterEstimate(call[c].op)' = AfterEstimate(op)'
      BY <3>6 DEF AfterEstimate
    <3> QED BY <1>2, <3>2, <3>3, <3>4, <3>5, <3>7 DEF OwnFreshNonce
  <2> QED BY <2>1, <2>2
<1>12. CollisionsExplained'
  <2> SUFFICES ASSUME NEW d \in collided, d \notin overlapped'
               PROVE  Explained(d)'
    BY <1>2 DEF CollisionsExplained
  <2>1. d \in Calls \ {c} /\ Explained(d) /\ call'[d] = call[d]
    BY <1>2, <1>3, <1>4 DEF ChoiceInv, CollisionsExplained, Histories, At
  <2>2. LatestReader(d) /\ d \in unsettled => LatestReader(d)' /\ d \in unsettled'
    BY <1>2, <1>3, <2>1 DEF LatestReader
  <2>3. \A e \in Calls : ~At(e, "idle") => ~At(e, "idle")'
    BY <1>2, <1>6 DEF At
  <2>4. Request(d)' = Request(d)
    BY <1>2 DEF Request
  <2> QED BY <2>1, <2>2, <2>3, <2>4 DEF Explained
<1>13. Deployed'
  <2>1. \A i \in 1..Len(mined) : mined[i].call # c
    BY <1>2 DEF IndInv, SenderInv, SentOnce
  <2>2. \A d \in Calls : call'[d].address = call[d].address
    BY <1>4
  <2>3. contracts[c] = None
    BY <2>1 DEF ChoiceInv, Deployed
  <2> QED BY <1>2, <1>4, <2>2, <2>3 DEF ChoiceInv, Deployed
<1>14. DeployReturnsItsContract'
  BY <1>2, <1>4 DEF ChoiceInv, DeployReturnsItsContract, Request
<1>15. \A d \in Calls : \A n : Predicts(d, n)' <=> Predicts(d, n)
  <2>1. \A d \in Calls : call'[d].predicted = call[d].predicted
    BY <1>4
  <2> QED BY <1>2, <2>1 DEF Predicts, Request
<1>16. KeepsPlace'
  <2> SUFFICES ASSUME NEW d \in Calls \ (overlapped \cup unsettled), call'[d].op = "deploy"
               PROVE  /\ OwnPlace(d)'
                      /\ \A t \in pool : t.call = d => t.nonce = Latest /\ Predicts(d, deployments)
    BY <1>2, <1>3, <1>6, <1>15 DEF KeepsPlace, OwnPlace
  <2>1. CASE d = c
    <3>1. call'[c].pc = "predict"
      BY <1>4, <2>1 DEF First
    <3>2. \A t \in pool : t.call # c
      BY <1>2 DEF IndInv, SenderInv, SentOnce
    <3> QED BY <2>1, <3>1, <3>2 DEF OwnPlace, At
  <2>2. CASE d # c
    <3>1. call'[d] = call[d]
      BY <1>4, <2>2
    <3> QED BY <1>2, <1>6, <1>15, <2>2, <3>1 DEF ChoiceInv, KeepsPlace, OwnPlace, At
  <2> QED BY <2>1, <2>2
<1>17. PredictsItsNonce'
  BY <1>2, <1>3, <1>4, <1>15 DEF ChoiceInv, PredictsItsNonce, Request
<1> QED BY <1>8, <1>9, <1>10, <1>11, <1>12, <1>13, <1>14, <1>16, <1>17 DEF ChoiceInv

\* Only a call alone reaches the pool with the nonce it was alone to read.
LEMMA PooledChoice ==
    ASSUME IndInv, ChoiceInv, NEW c \in Calls, SendAccepted(c) \/ SendReplaces(c)
    PROVE  ChoiceInv'
<1>1. PICK place \in Late : call' = [call EXCEPT ![c].pc = place]
  BY DEF SendAccepted, SendReplaces, Answered, Goto, Late
<1>2. /\ call[c].pc = "send" /\ Active(c)
      /\ account' = account /\ asked' = asked /\ object' = object
      /\ mined' = mined /\ deployments' = deployments /\ contracts' = contracts
      /\ overlapped' = overlapped /\ unsettled' = unsettled
  BY DEF SendAccepted, SendReplaces, At, Active, Running, history
<1>3. collided' = collided \/ (collided' = collided \cup {c} /\ (c \in overlapped \/ Explained(c)))
  BY TakenExplained DEF SendAccepted, SendReplaces, history
<1>4. \A t \in pool' : t = Tx(c) \/ t \in pool
  BY DEF SendAccepted, SendReplaces
<1>5. /\ call'[c].pc = place /\ call'[c].op = call[c].op
      /\ call'[c].predicted = call[c].predicted /\ call'[c].address = call[c].address
      /\ \A d \in Calls \ {c} : call'[d] = call[d]
  BY <1>1 DEF IndInv, TypeOK
<1>6. \A d \in Calls : /\ call'[d].op = call[d].op
                       /\ call'[d].predicted = call[d].predicted
                       /\ call'[d].address = call[d].address
                       /\ At(d, "idle")' <=> At(d, "idle")
                       /\ Active(d)' => Active(d)
  <2>1. \A d \in Calls : /\ call'[d].op = call[d].op
                         /\ call'[d].predicted = call[d].predicted
                         /\ call'[d].address = call[d].address
    BY <1>5
  <2>2. \A d \in Calls : At(d, "idle")' <=> At(d, "idle")
    BY <1>2, <1>5 DEF At, Late
  <2>3. \A d \in Calls : Active(d)' => Active(d)
    BY <1>2, <1>5 DEF Active
  <2> QED BY <2>1, <2>2, <2>3
<1>7. \A d \in Calls : d \notin overlapped /\ Active(d)' => d = c /\ call'[d].pc = "wait"
  BY <1>2, <1>5, <1>6 DEF ChoiceInv, Histories, Active, Running, Late
<1>8. Latest' = Latest /\ \A d \in Calls : \A n : Predicts(d, n)' <=> Predicts(d, n)
  BY <1>2, <1>6 DEF Latest, Predicts, Request
<1>9. KeepsChosen' /\ Untouched'
  BY <1>2, <1>6 DEF ChoiceInv, KeepsChosen, Untouched
<1>10. Histories'
  <2>1. \A d \in collided' : d \in Calls /\ ~At(d, "idle")'
    BY <1>2, <1>3, <1>6 DEF ChoiceInv, Histories, At
  <2>2. account.code => \A d \in Calls : ~At(d, "idle")' => call'[d].op \in SmartOps
    BY <1>6 DEF ChoiceInv, Histories
  <2>3. \A d, e \in Calls : Active(d)' /\ d \notin overlapped /\ Active(e)' => d = e
    BY <1>6 DEF ChoiceInv, Histories
  <2>4. \A d \in Calls \ (overlapped \cup unsettled) : Active(d)' => At(d, "wait")'
    BY <1>7 DEF At
  <2> QED BY <1>2, <2>1, <2>2, <2>3, <2>4 DEF Histories
<1>11. FreshNonces'
  BY <1>2, <1>7 DEF FreshNonces, At
<1>12. CollisionsExplained'
  <2>1. \A d \in Calls : Explained(d)' <=> Explained(d)
    BY <1>2, <1>6 DEF Explained, LatestReader, Request
  <2> QED BY <1>2, <1>3, <2>1 DEF ChoiceInv, CollisionsExplained, Histories
<1>13. Deployed' /\ DeployReturnsItsContract' /\ PredictsItsNonce'
  BY <1>2, <1>6, <1>8 DEF ChoiceInv, Deployed, DeployReturnsItsContract, PredictsItsNonce, Request
<1>14. KeepsPlace'
  <2> SUFFICES ASSUME NEW d \in Calls \ (overlapped \cup unsettled), call[d].op = "deploy"
               PROVE  /\ OwnPlace(d)'
                      /\ \A t \in pool' : t.call = d => t.nonce = Latest /\ Predicts(d, deployments)
    BY <1>2, <1>6, <1>8 DEF KeepsPlace, OwnPlace
  <2>1. OwnPlace(d)'
    <3>1. Active(d)' => call'[d].pc = "wait"
      BY <1>7
    <3> QED BY <3>1 DEF OwnPlace, At, Active, Running
  <2>2. \A t \in pool : t.call = d => t.nonce = Latest /\ Predicts(d, deployments)
    BY DEF ChoiceInv, KeepsPlace
  <2>3. Tx(c).call = c /\ Tx(c).nonce = call[c].nonce
    BY DEF Tx
  <2>4. d = c => call[c].nonce = Latest /\ Predicts(d, deployments)
    BY <1>2, OwnParts DEF OwnPlace, At
  <2> QED BY <1>4, <2>1, <2>2, <2>3, <2>4
<1> QED BY <1>9, <1>10, <1>11, <1>12, <1>13, <1>14 DEF ChoiceInv

\* The chain includes the account's transactions in order, so what is included while a
\* deployment keeps its place is the deployment.
LEMMA MineChoice ==
    ASSUME IndInv, ChoiceInv, NEW t \in pool, Mine(t)
    PROVE  ChoiceInv'
<1>1. /\ t.nonce = Latest /\ mined' = Append(mined, t) /\ pool' = pool \ {t}
      /\ account' = account /\ asked' = asked /\ object' = object /\ call' = call
      /\ collided' = collided /\ overlapped' = overlapped /\ unsettled' = unsettled
  BY DEF Mine, history
<1>2. /\ mined \in Seq(Txs) /\ t \in Txs /\ Len(mined) \in Nat /\ t.call \in Calls
      /\ account.start \in Nat /\ Latest \in Nat
  BY TxTypes, NodeNonces DEF IndInv, TypeOK
<1>3. /\ Len(mined') = Len(mined) + 1 /\ mined'[Len(mined) + 1] = t
      /\ \A i \in 1..Len(mined) : mined'[i] = mined[i]
  BY <1>1, <1>2
<1>4. Latest' = Latest + 1
  <2>1. account'.start = account.start
    BY <1>1
  <2>2. Latest' = account.start + (Len(mined) + 1)
    BY <1>3, <2>1 DEF Latest
  <2> QED BY <1>2, <2>2 DEF Latest
<1>5. /\ deployments \in Nat /\ DOMAIN contracts = Calls
      /\ \/ deployments' = deployments /\ contracts' = contracts
         \/ /\ call[t.call].op = "deploy"
            /\ contracts' = [contracts EXCEPT ![t.call] = CreatedAddress(t.call)]
            /\ deployments' = IF Request(t.call).kind = "create" THEN deployments + 1
                                                                 ELSE deployments
  BY DEF Mine, ChoiceInv, Deployed
<1>6. /\ deployments' \in Nat /\ deployments' >= deployments /\ DOMAIN contracts' = Calls
      /\ \A c \in Calls \ {t.call} : contracts'[c] = contracts[c]
  BY <1>5
<1>7. /\ \A i \in 1..Len(mined) : mined[i].call # t.call
      /\ contracts[t.call] = None /\ call[t.call].address = None
  BY <1>2 DEF IndInv, SenderInv, SentOnce, ChoiceInv, Deployed
<1>8. \A n \in Nat : Fresh(n) => Fresh(n)'
  <2> SUFFICES ASSUME NEW n \in Nat, Fresh(n) PROVE Fresh(n)'
    OBVIOUS
  <2>1. n >= Latest /\ n # Latest
    BY <1>1 DEF Fresh, Taken
  <2> QED BY <1>1, <1>2, <1>4, <2>1 DEF Fresh, Taken
<1>9. \A c \in Calls : /\ Explained(c)' <=> Explained(c)
                       /\ AfterEstimate(call[c].op)' = AfterEstimate(call[c].op)
                       /\ \A n : Predicts(c, n)' <=> Predicts(c, n)
  BY <1>1 DEF Explained, AfterEstimate, Predicts, LatestReader, Request, At
<1>10. \A c \in Calls \ (overlapped \cup unsettled) : Active(c) => At(c, "wait")
  BY DEF ChoiceInv, Histories
<1>11. KeepsChosen' /\ Untouched'
  BY <1>1 DEF ChoiceInv, KeepsChosen, Untouched, At
<1>12. Histories'
  BY <1>1, <1>10 DEF ChoiceInv, Histories, At, Active
<1>13. FreshNonces'
  <2> SUFFICES ASSUME NEW c \in Calls \ overlapped, Active(c), ~Explained(c)
               PROVE  OwnFreshNonce(c)'
    BY <1>1, <1>9 DEF FreshNonces, OwnFreshNonce, Active
  <2>1. OwnFreshNonce(c)
    BY OwnParts
  <2>2. call[c].nonce \in Nat \cup {None} /\ (At(c, "send") => call[c].nonce \in Nat)
    BY DEF IndInv, TypeOK
  <2>3. At(c, "estimate") /\ AfterEstimate(call[c].op) = "send" => call[c].nonce \in Nat
    BY <2>2, Stages DEF IndInv, SenderInv, CarriesNonce
  <2> QED BY <1>1, <1>8, <1>9, <2>1, <2>2, <2>3 DEF OwnFreshNonce, At
<1>14. CollisionsExplained'
  BY <1>1, <1>9 DEF ChoiceInv, CollisionsExplained, Histories
<1>15. Deployed'
  <2>1. \A c \in Calls : (\E i \in 1..Len(mined) : mined[i].call = c)
            => \E i \in 1..Len(mined') : mined'[i].call = c
    BY <1>2, <1>3
  <2>2. \E i \in 1..Len(mined') : mined'[i].call = t.call
    BY <1>2, <1>3
  <2>3. \A c \in Calls \ {t.call} :
            /\ contracts'[c] # None \/ call[c].address # None
                  => \E i \in 1..Len(mined') : mined'[i].call = c
            /\ contracts'[c] # None => call[c].op = "deploy"
    BY <1>6, <2>1 DEF ChoiceInv, Deployed
  <2>4. contracts'[t.call] # None => call[t.call].op = "deploy"
    BY <1>5, <1>7
  <2> QED BY <1>1, <1>6, <2>2, <2>3, <2>4 DEF Deployed
<1>16. DeployReturnsItsContract'
  BY <1>1, <1>6, <1>7 DEF ChoiceInv, DeployReturnsItsContract, Request
<1>17. \A c \in Calls \ (overlapped \cup unsettled) : call[c].op = "deploy" =>
          /\ \A u \in pool : u.call = c => u = t /\ Predicts(c, deployments)
  BY <1>1 DEF ChoiceInv, KeepsPlace, IndInv, SenderInv, PoolAhead
<1>18. KeepsPlace'
  <2> SUFFICES ASSUME NEW c \in Calls \ (overlapped \cup unsettled), call[c].op = "deploy"
               PROVE  OwnPlace(c)' /\ \A u \in pool \ {t} : u.call # c
    BY <1>1 DEF KeepsPlace, OwnPlace
  <2>1. OwnPlace(c)'
    BY <1>1, <1>10 DEF OwnPlace, At, Active, Running
  <2> QED BY <1>17, <2>1
<1>19. PredictsItsNonce'
  <2> SUFFICES ASSUME NEW c \in Calls \ (overlapped \cup unsettled), contracts'[c] # None
               PROVE  IF Request(c).kind = "create"
                      THEN \E n \in 0..(deployments' - 1) :
                              Predicts(c, n) /\ contracts'[c] = <<"create", PadFront(BigEndian(n))>>
                      ELSE contracts'[c] = call[c].predicted
    BY <1>1, <1>9 DEF PredictsItsNonce, Request
  <2>1. CASE c # t.call
    <3>1. contracts'[c] = contracts[c]
      BY <1>6, <2>1
    <3>2. \A n \in 0..(deployments - 1) : n \in 0..(deployments' - 1)
      BY <1>5
    <3> QED BY <3>1, <3>2 DEF ChoiceInv, PredictsItsNonce
  <2>2. CASE c = t.call
    <3>1. call[c].op = "deploy" /\ contracts'[c] = CreatedAddress(c)
      BY <1>5, <1>7, <2>2
    <3>2. Predicts(c, deployments)
      BY <1>17, <2>2, <3>1
    <3>3. CASE Request(c).kind = "create"
      <4>1. deployments' = deployments + 1
        BY <1>5, <1>7, <2>2, <3>3
      <4>2. deployments \in 0..(deployments' - 1)
        BY <1>5, <4>1
      <4> QED BY <3>1, <3>2, <3>3, <4>2 DEF CreatedAddress
    <3>4. CASE Request(c).kind # "create"
      BY <3>1, <3>2, <3>4 DEF CreatedAddress, Predicts, ComputeCreate2Address
    <3> QED BY <3>3, <3>4
  <2> QED BY <2>1, <2>2
<1> QED BY <1>11, <1>12, <1>13, <1>14, <1>15, <1>16, <1>18, <1>19 DEF ChoiceInv

LEMMA ChoiceInit == Init => ChoiceInv
<1> SUFFICES ASSUME Init PROVE ChoiceInv
  OBVIOUS
<1>1. /\ pool = {} /\ Len(mined) = 0 /\ collided = {} /\ overlapped = {} /\ unsettled = {}
      /\ object = [o \in Objects |-> asked[o].nonce]
      /\ contracts = [c \in Calls |-> None]
      /\ \A c \in Calls : call[c].pc = "idle" /\ call[c].op = None /\ call[c].address = None
  BY DEF Init
<1>2. deployments \in Nat
  BY SendersAssumption DEF Init
<1>3. KeepsChosen /\ Untouched
  BY <1>1 DEF KeepsChosen, Untouched
<1>4. Histories /\ FreshNonces /\ CollisionsExplained
  BY <1>1 DEF Histories, FreshNonces, CollisionsExplained, Active, Running, At
<1>5. Deployed /\ DeployReturnsItsContract /\ PredictsItsNonce
  BY <1>1, <1>2 DEF Deployed, DeployReturnsItsContract, PredictsItsNonce
<1>6. KeepsPlace
  BY <1>1 DEF KeepsPlace, At
<1> QED BY <1>3, <1>4, <1>5, <1>6 DEF ChoiceInv

LEMMA ChoiceNext == IndInv /\ ChoiceInv /\ [Next]_vars => ChoiceInv'
<1> SUFFICES ASSUME IndInv, ChoiceInv, [Next]_vars PROVE ChoiceInv'
  OBVIOUS
<1>1. ASSUME NEW c \in Calls, Code(c)
      PROVE  ChoiceInv'
  <2>1. CASE Begin(c)
    BY <2>1, BeginChoice
  <2>2. CASE SendAccepted(c) \/ SendReplaces(c)
    BY <2>2, PooledChoice
  <2>3. CASE Predict(c) \/ FillTransfer(c) \/ FillWithdraw(c) \/ FillDeploy(c) \/ Populate(c)
             \/ Estimate(c) \/ SendRefused(c) \/ Receipt(c) \/ Fails(c)
    <3>1. Local(c)
      BY <2>3, PredictStep, FillTransferStep, FillWithdrawStep, FillDeployStep, PopulateStep,
         EstimateStep, RefusedStep, ReceiptStep, FailsStep
    <3>2. Choice(c)
      BY <2>3, PredictChoice, FillTransferChoice, FillWithdrawChoice, FillDeployChoice,
         PopulateChoice, EstimateChoice, RefusedChoice, ReceiptChoice, FailsChoice
    <3> QED BY <3>1, <3>2, ChoiceStep
  <2> QED BY <1>1, <2>1, <2>2, <2>3 DEF Code, Sending
<1>2. ASSUME NEW t \in pool, Mine(t)
      PROVE  ChoiceInv'
  BY <1>2, MineChoice
<1>3. CASE UNCHANGED vars
  <2>1. /\ account' = account /\ asked' = asked /\ object' = object /\ call' = call
        /\ pool' = pool /\ mined' = mined /\ deployments' = deployments /\ contracts' = contracts
        /\ collided' = collided /\ overlapped' = overlapped /\ unsettled' = unsettled
    BY <1>3 DEF vars, chain, history
  <2>2. /\ Latest' = Latest
        /\ \A n : Fresh(n)' <=> Fresh(n)
        /\ \A c \in Calls : /\ Explained(c)' <=> Explained(c)
                            /\ AfterEstimate(call[c].op)' = AfterEstimate(call[c].op)
                            /\ \A n : Predicts(c, n)' <=> Predicts(c, n)
    BY <2>1 DEF Latest, Fresh, Taken, Explained, LatestReader, AfterEstimate, Predicts, Request, At
  <2>3. KeepsChosen' /\ Untouched' /\ Histories'
    BY <2>1 DEF ChoiceInv, KeepsChosen, Untouched, Histories, At, Active
  <2>4. FreshNonces' /\ CollisionsExplained'
    BY <2>1, <2>2 DEF ChoiceInv, FreshNonces, CollisionsExplained, Histories, At, Active
  <2>5. Deployed' /\ DeployReturnsItsContract'
    BY <2>1 DEF ChoiceInv, Deployed, DeployReturnsItsContract, Request
  <2>6. KeepsPlace' /\ PredictsItsNonce'
    BY <2>1, <2>2 DEF ChoiceInv, KeepsPlace, PredictsItsNonce, At, Request
  <2> QED BY <2>3, <2>4, <2>5, <2>6 DEF ChoiceInv
<1> QED BY <1>1, <1>2, <1>3 DEF Next

\* Every behaviour of the senders keeps the invariant of their choices: what a call
\* reads of the account before it sends (the nonces of wallet_l2.py and
\* smart_account_utils.py, the deployment nonce) still holds when it sends, unless
\* another call, an older transaction or the caller's own nonce explains why not.
THEOREM ChoiceInvariant == Spec => []ChoiceInv
<1>1. Spec => []IndInv
  BY SendersInit, SendersNext, PTL DEF Spec
<1>2. Init => ChoiceInv
  BY ChoiceInit
<1>3. IndInv /\ ChoiceInv /\ [Next]_vars => ChoiceInv'
  BY ChoiceNext
<1> QED BY <1>1, <1>2, <1>3, PTL DEF Spec

\* A nonce the caller chose is the one that is sent (options.nonce, tx["nonce"]).
THEOREM ChosenNoncesAreSent == Spec => []ChosenNonceSent
<1>1. IndInv /\ ChoiceInv => ChosenNonceSent
  <2> SUFFICES ASSUME IndInv, ChoiceInv PROVE ChosenNonceSent
    OBVIOUS
  <2> SUFFICES ASSUME NEW t \in pool \cup {mined[i] : i \in 1..Len(mined)},
                      Request(t.call).nonce # None, call[t.call].op # "deploy",
                      call[t.call].op \in SmartOps => Request(t.call).nonce # 0
               PROVE  t.nonce = Request(t.call).nonce
    BY DEF ChosenNonceSent
  <2>1. t.call \in Calls /\ ~At(t.call, "idle")
    BY TxTypes DEF IndInv, SenderInv, SentOnce, At
  <2>2. /\ call[t.call].op \in OpsOn(Request(t.call).kind)
        /\ Request(t.call).kind \in Kinds /\ ObjOf[t.call] \in Objects
    BY <2>1, ObjectTypes DEF IndInv, SenderInv, AskedOps
  <2>3. Repeats(t.call)
    BY <2>2, OpsOfKinds DEF Repeats
  <2>4. object[ObjOf[t.call]] = t.nonce
    BY <2>3 DEF IndInv, SenderInv, RemembersNonce
  <2>5. Request(t.call).kind = "tx" => Request(t.call).nonce # 0
    BY <2>2 DEF OpsOn, SmartOps
  <2>6. object[ObjOf[t.call]] = Request(t.call).nonce
    BY <2>2, <2>5 DEF ChoiceInv, KeepsChosen, Request
  <2> QED BY <2>4, <2>6
<1>2. Spec => []IndInv
  BY SendersInit, SendersNext, PTL DEF Spec
<1> QED BY <1>1, <1>2, ChoiceInvariant, PTL

\* Two transactions meet on one nonce only for a reason the program can see: calls that
\* wait for each other, each on an object of its own, never collide.
THEOREM CollisionsHaveAReason == Spec => []CollisionsExplained
<1>1. ChoiceInv => CollisionsExplained
  BY DEF ChoiceInv
<1> QED BY <1>1, ChoiceInvariant, PTL

\* deploy returns the address of the contract its own transaction deployed
\* (extract_contract_address, the receipt's contractAddress).
THEOREM DeploysReturnTheirContract == Spec => []DeployReturnsItsContract
<1>1. ChoiceInv => DeployReturnsItsContract
  BY DEF ChoiceInv
<1> QED BY <1>1, ChoiceInvariant, PTL

\* What a program predicts for a deployment with nothing of the account in between was
\* computed from the deployment nonce that the chain then uses.
THEOREM PredictedFromTheRightNonce == Spec => []PredictsItsNonce
<1>1. ChoiceInv => PredictsItsNonce
  BY DEF ChoiceInv
<1> QED BY <1>1, ChoiceInvariant, PTL

\* A nonce of one byte is the same in both orders.
LEMMA OneByte ==
    ASSUME NEW x \in 0..255
    PROVE  IntToBytes(x) = BigEndian(x)
<1>1. 256 ^ 0 = 1 /\ 256 ^ 1 = 256
  OBVIOUS
<1>2. \E k \in 0..WordBytes : x < 256 ^ k /\ \A j \in 0..(k - 1) : x >= 256 ^ j
  <2>1. CASE x = 0
    <3>1. 0 \in 0..WordBytes /\ x < 256 ^ 0 /\ \A j \in 0..(0 - 1) : x >= 256 ^ j
      BY <1>1, <2>1, SendersAssumption
    <3> QED BY <3>1
  <2>2. CASE x > 0
    <3>1. 1 \in 0..WordBytes /\ x < 256 ^ 1
      BY <1>1, SendersAssumption
    <3>2. \A j \in 0..(1 - 1) : j = 0
      OBVIOUS
    <3>3. \A j \in 0..(1 - 1) : x >= 256 ^ j
      BY <1>1, <2>2, <3>2
    <3> QED BY <3>1, <3>3
  <2> QED BY <2>1, <2>2
<1>3. PICK k : k = BytesNeeded(x)
  OBVIOUS
<1>4. k \in 0..WordBytes /\ \A j \in 0..(k - 1) : x >= 256 ^ j
  BY <1>2, <1>3 DEF BytesNeeded
<1>5. k \in {0, 1}
  <2>1. k \in Nat
    BY <1>4
  <2>2. CASE k >= 2
    <3>1. 1 \in 0..(k - 1)
      BY <2>1, <2>2
    <3>2. x >= 256 ^ 1
      BY <1>4, <3>1
    <3> QED BY <1>1, <3>2
  <2> QED BY <2>1, <2>2
<1>6. LittleEndian(x) = BigEndian(x)
  <2>1. \A i \in 1..k : i = k + 1 - i
    BY <1>5
  <2>2. \A i \in 1..k : LittleEndian(x)[k + 1 - i] = LittleEndian(x)[i]
    BY <2>1
  <2>3. LittleEndian(x) = [i \in 1..k |-> LittleEndian(x)[i]]
    BY <1>3 DEF LittleEndian
  <2>4. BigEndian(x) = [i \in 1..k |-> LittleEndian(x)[k + 1 - i]]
    BY <1>3 DEF BigEndian
  <2> QED BY <2>2, <2>3, <2>4
<1> QED BY <1>6 DEF IntToBytes

\* So the prediction is right where the machine writes the nonce as the chain does.
LEMMA PredictedRight ==
    ASSUME IndInv, ChoiceInv, \A n \in 0..(deployments - 1) : IntToBytes(n) = BigEndian(n)
    PROVE  PredictedIsDeployed
<1> SUFFICES ASSUME NEW c \in Calls \ (overlapped \cup unsettled), contracts[c] # None
             PROVE  contracts[c] = call[c].predicted
  BY DEF PredictedIsDeployed
<1>1. CASE Request(c).kind = "create"
  <2>1. PICK n \in 0..(deployments - 1) :
          Predicts(c, n) /\ contracts[c] = <<"create", PadFront(BigEndian(n))>>
    BY <1>1 DEF ChoiceInv, PredictsItsNonce
  <2>2. ComputeCreateAddress(n) = <<"create", PadFront(BigEndian(n))>>
    BY DEF ComputeCreateAddress
  <2> QED BY <1>1, <2>1, <2>2 DEF Predicts
<1>2. CASE Request(c).kind # "create"
  BY <1>2 DEF ChoiceInv, PredictsItsNonce
<1> QED BY <1>1, <1>2

\* Only the byte order of int_to_bytes (core/utils.py) makes compute_l2_create_address
\* wrong: where it is the chain's, the contract is where it was predicted.
THEOREM PredictedWhenBigEndian ==
    ASSUME ByteOrder = "big"
    PROVE  Spec => []PredictedIsDeployed
<1>1. IndInv /\ ChoiceInv => PredictedIsDeployed
  <2>1. \A n : IntToBytes(n) = BigEndian(n)
    BY ByteOrder = "big" DEF IntToBytes
  <2> QED BY <2>1, PredictedRight
<1>2. Spec => []IndInv
  BY SendersInit, SendersNext, PTL DEF Spec
<1> QED BY <1>1, <1>2, ChoiceInvariant, PTL

\* And on any machine it is for an account's first 256 deployments.
THEOREM PredictedUntil256 == Spec => [](deployments <= 256 => PredictedIsDeployed)
<1>1. IndInv /\ ChoiceInv => (deployments <= 256 => PredictedIsDeployed)
  <2> SUFFICES ASSUME IndInv, ChoiceInv, deployments <= 256 PROVE PredictedIsDeployed
    OBVIOUS
  <2>1. \A n \in 0..(deployments - 1) : n \in 0..255
    BY DEF ChoiceInv, Deployed
  <2>2. \A n \in 0..(deployments - 1) : IntToBytes(n) = BigEndian(n)
    BY <2>1, OneByte
  <2> QED BY <2>2, PredictedRight
<1>2. Spec => []IndInv
  BY SendersInit, SendersNext, PTL DEF Spec
<1> QED BY <1>1, <1>2, ChoiceInvariant, PTL

=============================================================================
