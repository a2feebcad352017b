----------------------- MODULE WalletL1Deposit_proofs -----------------------
(***************************************************************************)
(* Proofs about WalletL1Deposit: type correctness, and that a deposit is   *)
(* ordered after the approvals of its own call.  The inductive invariant   *)
(* is NonceInv.                                                            *)
(***************************************************************************)
EXTENDS WalletL1Deposit, TLAPS

\* Each script starts with the defaults (after the dummy amount), sends only what
\* it has just built, and ends there.
LEMMA ScriptOrder ==
    ASSUME NEW o \in Methods, NEW r \in Routes
    PROVE  /\ Len(Script(o, r)) \in Nat \ {0}
           /\ Script(o, r)[1] \in {"dummy", "nonce"}
           /\ \A i \in 1..Len(Script(o, r)) :
                /\ Script(o, r)[i] = "dummy" =>
                      i < Len(Script(o, r)) /\ Script(o, r)[i + 1] = "nonce"
                /\ Script(o, r)[i] = "build" =>
                      i < Len(Script(o, r)) /\ Script(o, r)[i + 1] = "send"
                /\ Script(o, r)[i] = "send" => i = Len(Script(o, r))
<1> USE DEF Script, Builder, Submit, Measure, DirectRoutes, Methods
<1>1. CASE r = "ethOnEth"
  BY <1>1, SMT
<1>2. CASE r = "tokenOnEth"
  BY <1>2, SMT
<1>3. CASE r = "ethOnNonEth"
  BY <1>3, SMT
<1>4. CASE r = "baseOnNonEth"
  BY <1>4, SMT
<1>5. CASE r = "nonBaseOnNonEth"
  BY <1>5, SMT
<1>. QED
  BY <1>1, <1>2, <1>3, <1>4, <1>5 DEF Routes

\* The fee operators return naturals.
LEMMA FeesAreNat ==
    ASSUME NEW b \in BaseFees, NEW d \in Deposits
    PROVE  /\ InsertGasPrice(d, b) \in Deposits
           /\ InsertGasPrice(d, b).route = d.route
           /\ InsertGasPrice(d, b).nonce = d.nonce
           /\ EstimationPrice(d, b) \in Nat
           /\ SentFees(d, b).cap \in Nat
           /\ SentFees(d, b).prio \in Nat
           /\ NetworkPrice(b) \in Nat
<1>. b \in Nat /\ Priority \in Nat /\ None \notin Nat
  BY FeesAssumption
<1>1. NetworkPrice(b) \in Nat
  BY DEF NetworkPrice
<1>2. EstimationPrice(d, b) \in Nat
  BY <1>1 DEF EstimationPrice, Deposits, Optional
<1>3. SentFees(d, b).cap \in Nat /\ SentFees(d, b).prio \in Nat
  BY <1>1 DEF SentFees, Deposits, Optional
<1>4. ASSUME NEW p \in Nat, NEW m \in Nat
      PROVE  [d EXCEPT !.prio = p, !.maxFee = m] \in Deposits
  <2>1. [d EXCEPT !.prio = p] \in Deposits
    BY DEF Deposits, Optional
  <2>. QED
    BY <2>1 DEF Deposits, Optional
<1>5. /\ InsertGasPrice(d, b) \in Deposits
      /\ InsertGasPrice(d, b).route = d.route
      /\ InsertGasPrice(d, b).nonce = d.nonce
  <2>1. CASE d.gasPrice = None /\ d.maxFee = None
    <3> DEFINE tip == IF d.prio = None THEN Priority ELSE d.prio
               cap == (3 * b) \div 2 + tip
    <3>1. tip \in Nat
      BY DEF Deposits, Optional
    <3>2. cap \in Nat
      BY <3>1
    <3>3. InsertGasPrice(d, b) = [d EXCEPT !.prio = tip, !.maxFee = cap]
      BY <2>1 DEF InsertGasPrice
    <3>. HIDE DEF tip, cap
    <3>4. InsertGasPrice(d, b) \in Deposits
      BY <3>1, <3>2, <3>3, <1>4
    <3>5. /\ InsertGasPrice(d, b).route = d.route
          /\ InsertGasPrice(d, b).nonce = d.nonce
      BY <3>3 DEF Deposits
    <3>. QED
      BY <3>4, <3>5
  <2>2. CASE ~(d.gasPrice = None /\ d.maxFee = None)
    BY <1>1, <2>2 DEF InsertGasPrice, Deposits, Optional
  <2>. QED
    BY <2>1, <2>2
<1>. QED
  BY <1>1, <1>2, <1>3, <1>5

\* The pricing operators return naturals.
LEMMA PricesAreNat ==
    ASSUME TypeOK, NEW d \in Deposits
    PROVE  /\ Cost(d) \in Nat
           /\ MintValue(d) \in Nat
           /\ RequestValue(d) \in Nat
<1>. None \notin Nat /\ FairCost \in Nat /\ baseFee \in BaseFees
  BY FeesAssumption DEF TypeOK
<1>1. Cost(d) \in Nat
  BY FeesAreNat DEF Cost, BaseCost
<1>2. MintValue(d) \in Nat
  BY <1>1 DEF MintValue, Deposits, Optional
<1>3. RequestValue(d) \in Nat
  BY <1>2 DEF RequestValue, OrElse, Deposits, Optional
<1>. QED
  BY <1>1, <1>2, <1>3

-----------------------------------------------------------------------------

\* What holds of the object and of the script of any call.
LEMMA CallFacts ==
    ASSUME TypeOK, NEW c \in Calls
    PROVE  /\ ObjOf[c] \in Objects
           /\ Obj(c) \in Deposits
           /\ Obj(c).route \in Routes
           /\ call[c] \in CallStates
           /\ call[c].op \in Methods
           /\ call[c].pos \in Nat \ {0}
           /\ Len(ScriptOf(c)) \in Nat \ {0}
<1>1. ObjOf[c] \in Objects /\ Obj(c) \in Deposits /\ call[c] \in CallStates
  BY DepositAssumption DEF TypeOK, Obj
<1>2. Obj(c).route \in Routes /\ call[c].op \in Methods /\ call[c].pos \in Nat \ {0}
  BY <1>1 DEF Deposits, CallStates
<1>. QED
  BY <1>1, <1>2, ScriptOrder DEF ScriptOf

\* The statuses of transactions may move, but nothing appears in tx, and nothing
\* is mined.
TxMoves ==
    /\ tx' \in [Calls -> [Kinds -> L1Txs]]
    /\ \A c \in Calls, k \in Kinds :
          /\ tx'[c][k].nonce = tx[c][k].nonce
          /\ tx'[c][k].status = "none" <=> tx[c][k].status = "none"
          /\ Mined(c, k)' <=> Mined(c, k)

\* A step of the running call c that leaves its object as d and its local state
\* as n preserves the invariant when d and n satisfy its parts.
LEMMA LocalStep ==
    ASSUME NonceInv, NEW c \in Calls, Running(c), TxMoves,
           NEW d \in Deposits, d.route = Obj(c).route,
           NEW n \in CallStates, n.op = call[c].op, n.end # "idle",
           deposit' = [deposit EXCEPT ![ObjOf[c]] = d],
           call' = [call EXCEPT ![c] = n],
           UNCHANGED <<asked, l1vars>>,
           Obj(c).nonce # None => d.nonce # None,
           n.given # None => d.nonce # None,
           n.given = None => call[c].given = None,
           n.end = "running" =>
              /\ n.pos \in 1..Len(ScriptOf(c))
              /\ ScriptOf(c)[n.pos] \notin {"dummy", "nonce"} => d.nonce # None
              /\ tx[c]["deposit"].status # "none" => ScriptOf(c)[n.pos] = "send"
              /\ \A k \in Approvals :
                    /\ n.given = None
                    /\ tx[c][k].status # "none"
                    /\ ~(ScriptOf(c)[n.pos] = k /\ n.sub # "check")
                    => Mined(c, k) /\ d.nonce # None /\ tx[c][k].nonce < d.nonce
    PROVE  NonceInv'
<1>. USE DEF NonceInv
<1>1. TypeOK'
  BY CallFacts DEF TypeOK, TxMoves, l1vars
<1>2. /\ ObjOf[c] \in Objects
      /\ Obj(c)' = d
      /\ call'[c] = n
      /\ \A e \in Calls \ {c} : call'[e] = call[e]
      /\ \A e \in Calls : Obj(e)' = IF ObjOf[e] = ObjOf[c] THEN d ELSE Obj(e)
      /\ \A e \in Calls : ObjOf[e] = ObjOf[c] => Obj(e) = Obj(c)
  BY CallFacts, DepositAssumption DEF TypeOK, Obj
<1>3. \A e \in Calls : Obj(e)'.route = Obj(e).route
  BY <1>2
<1>4. /\ \A e \in Calls : ScriptOf(e)' = ScriptOf(e)
      /\ Stage(c)' = ScriptOf(c)[n.pos]
      /\ \A e \in Calls \ {c} : Stage(e)' = Stage(e)
      /\ Running(c)' <=> n.end = "running"
      /\ \A e \in Calls \ {c} : Running(e)' <=> Running(e)
  BY <1>2, <1>3 DEF ScriptOf, Stage, Running
<1>5. \A e \in Calls \ {c} : Running(e) => Obj(e)' = Obj(e)
  BY <1>2 DEF OwnObject
<1>6. FreshCalls'
  <2>. SUFFICES ASSUME NEW e \in Calls, call'[e].end = "idle"
                PROVE  /\ call'[e].pos = 1
                       /\ call'[e].sub = "check"
                       /\ call'[e].given = None
                       /\ \A k \in Kinds : tx'[e][k].status = "none"
    BY DEF FreshCalls
  <2>. QED
    BY <1>2 DEF FreshCalls, TxMoves
<1>7. InScript'
  BY <1>2, <1>4 DEF InScript
<1>8. OwnObject'
  BY <1>4 DEF OwnObject
<1>9. NonceSet'
  BY <1>2, <1>4 DEF NonceSet
<1>10. MinedBelowCount'
  BY DEF MinedBelowCount, TxMoves, l1vars
<1>11. BuiltIsSentNext'
  BY <1>4 DEF BuiltIsSentNext, TxMoves, Kinds
<1>12. ApprovalsBehind'
  <2>. SUFFICES ASSUME NEW e \in Calls, NEW k \in Approvals, Running(e)',
                       call'[e].given = None, tx'[e][k].status # "none",
                       ~(Stage(e)' = k /\ call'[e].sub # "check")
                PROVE  /\ Mined(e, k)'
                       /\ Obj(e)'.nonce # None
                       /\ tx'[e][k].nonce < Obj(e)'.nonce
    BY DEF ApprovalsBehind
  <2>1. k \in Kinds
    BY DEF Approvals, Kinds
  <2>2. CASE e = c
    BY <1>2, <1>4, <2>1, <2>2 DEF TxMoves
  <2>3. CASE e # c
    BY SMTT(30), <1>2, <1>4, <1>5, <2>1, <2>3 DEF TxMoves, ApprovalsBehind
  <2>. QED
    BY <2>2, <2>3
<1>13. DepositFollowsItsApprovals'
  <2>. SUFFICES ASSUME NEW e \in Calls, NEW k \in Approvals,
                       tx'[e]["deposit"].status # "none", tx'[e][k].status # "none",
                       call'[e].given = None
                PROVE  tx'[e][k].nonce < tx'[e]["deposit"].nonce
    BY DEF DepositFollowsItsApprovals
  <2>. QED
    BY <1>2 DEF TxMoves, DepositFollowsItsApprovals, Approvals, Kinds
<1>. QED
  BY <1>1, <1>6, <1>7, <1>8, <1>9, <1>10, <1>11, <1>12, <1>13

LEMMA TxStill == ASSUME TypeOK, UNCHANGED tx PROVE TxMoves
  BY DEF TypeOK, TxMoves, Mined

\* The local state of a running call that goes on to a later stage.
LEMMA AfterFacts ==
    ASSUME TypeOK, NEW c \in Calls, Running(c), NEW n \in {1, 4}
    PROVE  /\ After(c, n) \in CallStates
           /\ After(c, n).op = call[c].op
           /\ After(c, n).end # "idle"
           /\ After(c, n).given = call[c].given
           /\ After(c, n).pos = call[c].pos + n
           /\ After(c, n).sub = "check"
           /\ After(c, n).end = "running" => call[c].pos + n \in 1..Len(ScriptOf(c))
<1>. DEFINE p == call[c].pos + n
            e == IF p > Len(ScriptOf(c)) THEN "returned" ELSE call[c].end
<1>1. p \in Nat \ {0} /\ Len(ScriptOf(c)) \in Nat
  BY CallFacts
<1>2. e \in Ends /\ e # "idle" /\ (e = "running" => p \in 1..Len(ScriptOf(c)))
  BY <1>1 DEF Running, Ends
<1>3. After(c, n) = [call[c] EXCEPT !.pos = p, !.sub = "check", !.end = e]
  BY DEF After
<1>4. call[c] \in CallStates
  BY CallFacts
<1>. HIDE DEF p, e
<1>5. /\ After(c, n).op = call[c].op
      /\ After(c, n).given = call[c].given
      /\ After(c, n).pos = p
      /\ After(c, n).sub = "check"
      /\ After(c, n).end = e
      /\ After(c, n) \in CallStates
  BY <1>1, <1>2, <1>3, <1>4 DEF CallStates
<1>. QED
  BY <1>2, <1>5 DEF p

\* A step at a stage that neither sets the nonce nor approves, builds or sends,
\* and that leaves the nonce alone.
LEMMA PlainStep ==
    ASSUME NonceInv, NEW c \in Calls, NEW s, At(c, s),
           s \notin Approvals \cup {"dummy", "nonce", "build", "send"},
           NEW d \in Deposits, d.route = Obj(c).route, d.nonce = Obj(c).nonce,
           NEW n \in CallStates, n.op = call[c].op, n.end # "idle",
           n.given = call[c].given,
           n.end = "running" => n.pos \in 1..Len(ScriptOf(c)),
           deposit' = [deposit EXCEPT ![ObjOf[c]] = d],
           call' = [call EXCEPT ![c] = n],
           UNCHANGED <<asked, tx, l1vars>>
    PROVE  NonceInv'
<1>1. Running(c) /\ Stage(c) = s
  BY DEF At, Running, Stage
<1>2. Obj(c).nonce # None
  BY <1>1 DEF NonceInv, NonceSet
<1>3. tx[c]["deposit"].status = "none"
  BY <1>1 DEF NonceInv, BuiltIsSentNext
<1>4. \A k \in Approvals :
         n.given = None /\ tx[c][k].status # "none"
         => Mined(c, k) /\ d.nonce # None /\ tx[c][k].nonce < d.nonce
  BY <1>1 DEF NonceInv, ApprovalsBehind
<1>5. TxMoves
  BY TxStill DEF NonceInv
<1>. QED
  BY <1>1, <1>2, <1>3, <1>4, <1>5, LocalStep

\* A call that ends without touching its object.
LEMMA RaiseStep ==
    ASSUME NonceInv, NEW c \in Calls, Running(c), NEW why \in Ends \ {"idle", "running"},
           Raise(c, why), TxMoves, UNCHANGED <<asked, deposit, l1vars>>
    PROVE  NonceInv'
<1>. DEFINE n == [call[c] EXCEPT !.end = why]
<1>1. Obj(c) \in Deposits /\ call[c] \in CallStates /\ ObjOf[c] \in Objects
  BY CallFacts DEF NonceInv
<1>2. n \in CallStates /\ n.op = call[c].op /\ n.end = why /\ n.given = call[c].given
  BY <1>1 DEF CallStates
<1>3. call' = [call EXCEPT ![c] = n]
  BY DEF Raise, NonceInv, TypeOK
<1>4. deposit' = [deposit EXCEPT ![ObjOf[c]] = Obj(c)]
  BY <1>1 DEF Obj, NonceInv, TypeOK
<1>5. n.given # None => Obj(c).nonce # None
  BY <1>2 DEF NonceInv, NonceSet
<1>. HIDE DEF n
<1>. QED
  BY <1>1, <1>2, <1>3, <1>4, <1>5, LocalStep

-----------------------------------------------------------------------------
(***************************************************************************)
(* The actions, one by one.                                                *)
(***************************************************************************)

LEMMA DummyAmountStep ==
    ASSUME NonceInv, NEW c \in Calls, DummyAmount(c)
    PROVE  NonceInv'
<1>. DEFINE d == [Obj(c) EXCEPT !.amount = 1]
            n == After(c, 1)
<1>1. Obj(c) \in Deposits /\ Obj(c).route \in Routes /\ call[c].op \in Methods
  BY CallFacts DEF NonceInv
<1>2. Running(c) /\ Stage(c) = "dummy" /\ call[c].pos \in 1..Len(ScriptOf(c))
  BY DEF DummyAmount, At, Running, Stage, NonceInv, InScript
<1>3. d \in Deposits /\ d.route = Obj(c).route /\ d.nonce = Obj(c).nonce
  BY <1>1 DEF Deposits
<1>4. /\ n \in CallStates /\ n.op = call[c].op /\ n.end # "idle"
      /\ n.given = call[c].given /\ n.pos = call[c].pos + 1
      /\ n.end = "running" => n.pos \in 1..Len(ScriptOf(c))
  BY <1>2, AfterFacts DEF NonceInv
<1>5. ScriptOf(c)[n.pos] = "nonce"
  BY <1>1, <1>2, <1>4, ScriptOrder DEF ScriptOf, Stage
<1>6. tx[c]["deposit"].status = "none"
  BY <1>2 DEF NonceInv, BuiltIsSentNext
<1>7. \A k \in Approvals :
         n.given = None /\ tx[c][k].status # "none"
         => Mined(c, k) /\ d.nonce # None /\ tx[c][k].nonce < d.nonce
  BY <1>2, <1>3, <1>4 DEF NonceInv, ApprovalsBehind, Approvals
<1>8. TxMoves /\ (n.given # None => d.nonce # None)
  BY <1>3, <1>4, TxStill DEF NonceInv, NonceSet, DummyAmount
<1>9. /\ deposit' = [deposit EXCEPT ![ObjOf[c]] = d]
      /\ call' = [call EXCEPT ![c] = n]
      /\ UNCHANGED <<asked, l1vars>>
  BY DEF DummyAmount, SetObj, Advance
<1>. HIDE DEF d, n
<1>. QED
  BY <1>2, <1>3, <1>4, <1>5, <1>6, <1>7, <1>8, <1>9, LocalStep

LEMMA DefaultNonceStep ==
    ASSUME NonceInv, NEW c \in Calls, DefaultNonce(c)
    PROVE  NonceInv'
<1>. DEFINE d == [Obj(c) EXCEPT !.nonce = IF @ = None THEN count ELSE @]
            n == [After(c, 1) EXCEPT !.given = Obj(c).nonce]
<1>1. Obj(c) \in Deposits /\ count \in Nat /\ None \notin Nat
  BY CallFacts, FeesAssumption DEF NonceInv, TypeOK
<1>2. Running(c) /\ Stage(c) = "nonce"
  BY DEF DefaultNonce, At, Running, Stage
<1>3. /\ d \in Deposits /\ d.route = Obj(c).route /\ d.nonce # None
      /\ Obj(c).nonce # None => d.nonce = Obj(c).nonce
  BY <1>1 DEF Deposits, Optional
<1>4. /\ n \in CallStates /\ n.op = call[c].op /\ n.end # "idle"
      /\ n.given = Obj(c).nonce /\ n.pos = call[c].pos + 1
      /\ n.end = "running" => n.pos \in 1..Len(ScriptOf(c))
  <2>1. Obj(c).nonce \in Optional(Nat)
    BY <1>1 DEF Deposits
  <2>. QED
    BY <2>1, <1>2, AfterFacts DEF NonceInv, CallStates
<1>5. n.given = None => call[c].given = None
  BY <1>4 DEF NonceInv, NonceSet
<1>6. tx[c]["deposit"].status = "none"
  BY <1>2 DEF NonceInv, BuiltIsSentNext
<1>7. \A k \in Approvals :
         n.given = None /\ tx[c][k].status # "none"
         => Mined(c, k) /\ d.nonce # None /\ tx[c][k].nonce < d.nonce
  BY <1>2, <1>3, <1>4, <1>5 DEF NonceInv, ApprovalsBehind, Approvals
<1>8. TxMoves
  BY TxStill DEF NonceInv, DefaultNonce
<1>9. /\ deposit' = [deposit EXCEPT ![ObjOf[c]] = d]
      /\ call' = [call EXCEPT ![c] = n]
      /\ UNCHANGED <<asked, l1vars>>
  BY DEF DefaultNonce, SetObj, GivenNonce
<1>. HIDE DEF d, n
<1>. QED
  BY <1>2, <1>3, <1>4, <1>5, <1>6, <1>7, <1>8, <1>9, LocalStep

LEMMA DefaultFeesStep ==
    ASSUME NonceInv, NEW c \in Calls, DefaultFees(c)
    PROVE  NonceInv'
<1>. DEFINE d == InsertGasPrice(Obj(c), baseFee)
            n == After(c, 1)
<1>1. d \in Deposits /\ d.route = Obj(c).route /\ d.nonce = Obj(c).nonce
  BY CallFacts, FeesAreNat DEF NonceInv, TypeOK
<1>2. /\ n \in CallStates /\ n.op = call[c].op /\ n.end # "idle"
      /\ n.given = call[c].given /\ n.pos = call[c].pos + 1
      /\ n.end = "running" => n.pos \in 1..Len(ScriptOf(c))
  BY AfterFacts DEF NonceInv, DefaultFees, At, Running
<1>3. /\ At(c, "fee")
      /\ deposit' = [deposit EXCEPT ![ObjOf[c]] = d]
      /\ call' = [call EXCEPT ![c] = n]
      /\ UNCHANGED <<asked, tx, l1vars>>
  BY DEF DefaultFees, SetObj, Advance
<1>. HIDE DEF d, n
<1>. QED
  BY <1>1, <1>2, <1>3, PlainStep DEF Approvals

LEMMA QuoteFeeStep ==
    ASSUME NonceInv, NEW c \in Calls, QuoteFee(c)
    PROVE  NonceInv'
<1>1. Obj(c) \in Deposits /\ call[c] \in CallStates
  BY CallFacts DEF NonceInv
<1>. DEFINE v == IF Obj(c).route \in EthRoutes THEN Obj(c).value
                 ELSE IF Obj(c).route = "nonBaseOnNonEth" THEN OrElse(Obj(c).value, 0)
                 ELSE Obj(c).amount
            kept == [Obj(c) EXCEPT !.value = v]
            stripped == [Obj(c) EXCEPT !.value = v, !.cut = TRUE, !.gasPrice = None,
                                       !.maxFee = None, !.prio = None]
<1>2. \/ deposit' = [deposit EXCEPT ![ObjOf[c]] = kept] /\ Raise(c, "attribute")
      \/ deposit' = [deposit EXCEPT ![ObjOf[c]] = stripped] /\ Advance(c, 1)
  BY DEF QuoteFee, SetObj
<1>. v \in Optional(Nat)
  BY <1>1 DEF OrElse, Deposits, Optional
<1>. HIDE DEF v
<1>3. PICK d \in Deposits :
         /\ deposit' = [deposit EXCEPT ![ObjOf[c]] = d]
         /\ d.route = Obj(c).route /\ d.nonce = Obj(c).nonce
  <2>1. kept \in Deposits /\ kept.route = Obj(c).route /\ kept.nonce = Obj(c).nonce
    BY <1>1 DEF Deposits
  <2>2. /\ stripped \in Deposits
        /\ stripped.route = Obj(c).route /\ stripped.nonce = Obj(c).nonce
    BY <1>1 DEF Deposits, Optional
  <2>. HIDE DEF kept, stripped
  <2>. QED
    BY <1>2, <2>1, <2>2
<1>4. PICK n \in CallStates :
         /\ call' = [call EXCEPT ![c] = n]
         /\ n.op = call[c].op /\ n.end # "idle" /\ n.given = call[c].given
         /\ n.end = "running" => n.pos \in 1..Len(ScriptOf(c))
  <2>1. CASE Raise(c, "attribute")
    <3>. DEFINE n == [call[c] EXCEPT !.end = "attribute"]
    <3>1. /\ n \in CallStates /\ n.op = call[c].op /\ n.end = "attribute"
          /\ n.given = call[c].given
      BY <1>1 DEF CallStates, Ends
    <3>2. call' = [call EXCEPT ![c] = n]
      BY <2>1 DEF Raise, NonceInv, TypeOK
    <3>. HIDE DEF n
    <3>. QED
      BY <3>1, <3>2
  <2>2. CASE Advance(c, 1)
    BY <2>2, AfterFacts DEF NonceInv, QuoteFee, At, Running, Advance
  <2>. QED
    BY <1>2, <2>1, <2>2
<1>5. At(c, "quote") /\ UNCHANGED <<asked, tx, l1vars>>
  BY DEF QuoteFee
<1>. QED
  BY <1>3, <1>4, <1>5, PlainStep DEF Approvals

LEMMA PriceDepositStep ==
    ASSUME NonceInv, NEW c \in Calls, PriceDeposit(c)
    PROVE  NonceInv'
<1>. DEFINE d == [Obj(c) EXCEPT !.value = RequestValue(Obj(c))]
            n == [After(c, 1) EXCEPT !.mint = MintValue(Obj(c))]
<1>1. /\ Obj(c) \in Deposits
      /\ MintValue(Obj(c)) \in Nat
      /\ RequestValue(Obj(c)) \in Nat
  BY CallFacts, PricesAreNat DEF NonceInv
<1>2. d \in Deposits /\ d.route = Obj(c).route /\ d.nonce = Obj(c).nonce
  BY <1>1 DEF Deposits, Optional
<1>3. /\ n \in CallStates /\ n.op = call[c].op /\ n.end # "idle"
      /\ n.given = call[c].given /\ n.pos = call[c].pos + 1
      /\ n.end = "running" => n.pos \in 1..Len(ScriptOf(c))
  BY <1>1, AfterFacts DEF NonceInv, PriceDeposit, At, Running, CallStates
<1>4. /\ At(c, "cost")
      /\ deposit' = [deposit EXCEPT ![ObjOf[c]] = d]
      /\ call' = [call EXCEPT ![c] = n]
      /\ UNCHANGED <<asked, tx, l1vars>>
  BY DEF PriceDeposit, SetObj
<1>. HIDE DEF d, n
<1>. QED
  BY <1>2, <1>3, <1>4, PlainStep DEF Approvals

LEMMA SkipEstimateStep ==
    ASSUME NonceInv, NEW c \in Calls, SkipEstimate(c)
    PROVE  NonceInv'
<1>. DEFINE n == After(c, IF Obj(c).gas THEN 4 ELSE 1)
<1>1. Obj(c) \in Deposits /\ ObjOf[c] \in Objects
  BY CallFacts DEF NonceInv
<1>2. /\ n \in CallStates /\ n.op = call[c].op /\ n.end # "idle"
      /\ n.given = call[c].given
      /\ n.end = "running" => n.pos \in 1..Len(ScriptOf(c))
  BY AfterFacts DEF NonceInv, SkipEstimate, At, Running
<1>3. /\ At(c, "gas")
      /\ deposit' = [deposit EXCEPT ![ObjOf[c]] = Obj(c)]
      /\ call' = [call EXCEPT ![c] = n]
      /\ UNCHANGED <<asked, tx, l1vars>>
  BY <1>1 DEF SkipEstimate, Advance, Obj, NonceInv, TypeOK
<1>. HIDE DEF n
<1>. QED
  BY <1>1, <1>2, <1>3, PlainStep DEF Approvals

LEMMA PopulateRequestStep ==
    ASSUME NonceInv, NEW c \in Calls, PopulateRequest(c)
    PROVE  NonceInv'
<1>1. Obj(c) \in Deposits /\ call[c] \in CallStates /\ Cost(Obj(c)) \in Nat
  BY CallFacts, PricesAreNat DEF NonceInv
<1>. DEFINE provided == IF Obj(c).route \in EthRoutes THEN Obj(c).value ELSE call[c].mint
            mint == OrElse(provided, Cost(Obj(c)) + Obj(c).tip + Obj(c).amount)
            d == IF Obj(c).route \in EthRoutes
                 THEN [Obj(c) EXCEPT !.value = mint] ELSE Obj(c)
            n == IF Cost(Obj(c)) > mint
                 THEN [call[c] EXCEPT !.mint = mint, !.end = "baseCost"]
                 ELSE [After(c, 1) EXCEPT !.mint = mint]
<1>2. mint \in Nat
  BY <1>1 DEF OrElse, Deposits, CallStates, Optional
<1>3. /\ At(c, "request")
      /\ deposit' = [deposit EXCEPT ![ObjOf[c]] = d]
      /\ call' = [call EXCEPT ![c] = n]
      /\ UNCHANGED <<asked, tx, l1vars>>
  BY DEF PopulateRequest, SetObj
<1>. HIDE DEF mint
<1>4. d \in Deposits /\ d.route = Obj(c).route /\ d.nonce = Obj(c).nonce
  BY <1>1, <1>2 DEF Deposits, Optional
<1>5. /\ n \in CallStates /\ n.op = call[c].op /\ n.end # "idle"
      /\ n.given = call[c].given
      /\ n.end = "running" => n.pos \in 1..Len(ScriptOf(c))
  <2>1. CASE Cost(Obj(c)) > mint
    <3>1. n = [call[c] EXCEPT !.mint = mint, !.end = "baseCost"]
      BY <2>1
    <3>. QED
      BY <1>1, <1>2, <3>1 DEF CallStates, Ends
  <2>2. CASE ~(Cost(Obj(c)) > mint)
    <3>1. n = [After(c, 1) EXCEPT !.mint = mint]
      BY <2>2
    <3>2. Running(c)
      BY DEF PopulateRequest, At, Running
    <3>3. /\ After(c, 1) \in CallStates
          /\ After(c, 1).op = call[c].op
          /\ After(c, 1).end # "idle"
          /\ After(c, 1).given = call[c].given
          /\ After(c, 1).end = "running" => After(c, 1).pos \in 1..Len(ScriptOf(c))
      BY <3>2, AfterFacts DEF NonceInv
    <3>. QED
      BY <1>2, <3>1, <3>3 DEF CallStates
  <2>. QED
    BY <2>1, <2>2
<1>. HIDE DEF d, n
<1>. QED
  BY <1>3, <1>4, <1>5, PlainStep DEF Approvals

LEMMA SimulateStep ==
    ASSUME NonceInv, NEW c \in Calls, Simulate(c)
    PROVE  NonceInv'
<1>1. CASE Simulates(c, Draft(c))
  <2>. DEFINE d == [Obj(c) EXCEPT !.gas = @ \/ call[c].op = "deposit"]
              n == After(c, 1)
  <2>1. Obj(c) \in Deposits
    BY CallFacts DEF NonceInv
  <2>2. d \in Deposits /\ d.route = Obj(c).route /\ d.nonce = Obj(c).nonce
    BY <2>1 DEF Deposits
  <2>3. /\ n \in CallStates /\ n.op = call[c].op /\ n.end # "idle"
        /\ n.given = call[c].given
        /\ n.end = "running" => n.pos \in 1..Len(ScriptOf(c))
    BY AfterFacts DEF NonceInv, Simulate, At, Running
  <2>4. /\ At(c, "simulate")
        /\ deposit' = [deposit EXCEPT ![ObjOf[c]] = d]
        /\ call' = [call EXCEPT ![c] = n]
        /\ UNCHANGED <<asked, tx, l1vars>>
    BY <1>1 DEF Simulate, SetObj, Advance
  <2>. HIDE DEF d, n
  <2>. QED
    BY <2>2, <2>3, <2>4, PlainStep DEF Approvals
<1>2. CASE ~Simulates(c, Draft(c))
  BY <1>2, RaiseStep, TxStill DEF Simulate, At, Running, Ends, NonceInv
<1>. QED
  BY <1>1, <1>2

LEMMA RpcFailsStep ==
    ASSUME NonceInv, NEW c \in Calls, RpcFails(c)
    PROVE  NonceInv'
BY RaiseStep, TxStill DEF RpcFails, Running, Ends, NonceInv

LEMMA CheckAllowanceStep ==
    ASSUME NonceInv, NEW c \in Calls, NEW k \in Approvals, CheckAllowance(c, k)
    PROVE  NonceInv'
<1>1. /\ Obj(c) \in Deposits /\ call[c] \in CallStates /\ ObjOf[c] \in Objects
      /\ Running(c) /\ Stage(c) = k /\ k \notin {"dummy", "nonce", "send"}
  BY CallFacts DEF NonceInv, CheckAllowance, At, Running, Stage, Approvals
<1>2. PICK n \in CallStates :
         /\ call' = [call EXCEPT ![c] = n]
         /\ n.op = call[c].op /\ n.end # "idle" /\ n.given = call[c].given
         /\ n.end = "running" => n.pos \in 1..Len(ScriptOf(c))
  <2>1. CASE NeedsApproval(c, k)
    <3>. DEFINE n == [call[c] EXCEPT !.sub = "approve"]
    <3>1. /\ n \in CallStates /\ n.op = call[c].op /\ n.end = "running"
          /\ n.given = call[c].given /\ n.pos = call[c].pos
      BY <1>1 DEF CallStates, Running
    <3>2. call' = [call EXCEPT ![c] = n]
      BY <2>1 DEF CheckAllowance, NonceInv, TypeOK
    <3>3. n.pos \in 1..Len(ScriptOf(c))
      BY <1>1, <3>1 DEF NonceInv, InScript
    <3>. HIDE DEF n
    <3>. QED
      BY <3>1, <3>2, <3>3
  <2>2. CASE ~NeedsApproval(c, k)
    BY <1>1, <2>2, AfterFacts DEF CheckAllowance, Advance, NonceInv
  <2>. QED
    BY <2>1, <2>2
<1>3. deposit' = [deposit EXCEPT ![ObjOf[c]] = Obj(c)]
  BY <1>1 DEF CheckAllowance, Obj, NonceInv, TypeOK
<1>4. tx[c]["deposit"].status = "none" /\ Obj(c).nonce # None
  BY <1>1 DEF NonceInv, BuiltIsSentNext, NonceSet
<1>5. \A j \in Approvals :
         n.given = None /\ tx[c][j].status # "none"
         => Mined(c, j) /\ Obj(c).nonce # None /\ tx[c][j].nonce < Obj(c).nonce
  BY <1>1, <1>2 DEF NonceInv, ApprovalsBehind, CheckAllowance
<1>6. TxMoves /\ UNCHANGED <<asked, l1vars>>
  BY TxStill DEF NonceInv, CheckAllowance
<1>. QED
  BY <1>1, <1>2, <1>3, <1>4, <1>5, <1>6, LocalStep

LEMMA ApprovalReceiptStep ==
    ASSUME NonceInv, NEW c \in Calls, NEW k \in Approvals, ApprovalReceipt(c, k)
    PROVE  NonceInv'
<1>. DEFINE d == [Obj(c) EXCEPT !.nonce = NonceAfterApproval(c)]
            n == After(c, 1)
<1>1. /\ Obj(c) \in Deposits /\ count \in Nat /\ None \notin Nat
      /\ Running(c) /\ Stage(c) = k /\ k \notin {"dummy", "nonce", "send"}
      /\ Mined(c, k)
  BY CallFacts, FeesAssumption
     DEF NonceInv, TypeOK, ApprovalReceipt, At, Running, Stage, Approvals
<1>2. Obj(c).nonce # None /\ tx[c]["deposit"].status = "none"
  BY <1>1 DEF NonceInv, NonceSet, BuiltIsSentNext
<1>3. /\ d \in Deposits /\ d.route = Obj(c).route /\ d.nonce # None
      /\ d.nonce = NonceAfterApproval(c)
  BY <1>1, <1>2 DEF Deposits, Optional, NonceAfterApproval
<1>4. /\ n \in CallStates /\ n.op = call[c].op /\ n.end # "idle"
      /\ n.given = call[c].given
      /\ n.end = "running" => n.pos \in 1..Len(ScriptOf(c))
  BY <1>1, AfterFacts DEF NonceInv
<1>5. \A j \in Approvals :
         n.given = None /\ tx[c][j].status # "none"
         => Mined(c, j) /\ d.nonce # None /\ tx[c][j].nonce < d.nonce
  <2>. SUFFICES ASSUME NEW j \in Approvals, n.given = None, tx[c][j].status # "none"
                PROVE  Mined(c, j) /\ tx[c][j].nonce < d.nonce
    BY <1>3
  <2>1. d.nonce = count
    BY <1>3, <1>4 DEF NonceAfterApproval
  <2>2. Mined(c, j)
    BY <1>1, <1>4 DEF NonceInv, ApprovalsBehind
  <2>. QED
    BY <2>1, <2>2 DEF NonceInv, MinedBelowCount, Approvals, Kinds
<1>6. TxMoves
  BY TxStill DEF NonceInv, ApprovalReceipt
<1>7. /\ deposit' = [deposit EXCEPT ![ObjOf[c]] = d]
      /\ call' = [call EXCEPT ![c] = n]
      /\ UNCHANGED <<asked, l1vars>>
  BY DEF ApprovalReceipt, SetObj, Advance
<1>8. n.given = None => call[c].given = None
  BY <1>4
<1>. HIDE DEF d, n
<1>. QED
  BY <1>1, <1>2, <1>3, <1>4, <1>5, <1>6, <1>7, <1>8, LocalStep

LEMMA ApprovalTimeoutStep ==
    ASSUME NonceInv, NEW c \in Calls, NEW k \in Approvals, ApprovalTimeout(c, k)
    PROVE  NonceInv'
BY RaiseStep, TxStill DEF ApprovalTimeout, At, Running, Ends, NonceInv

LEMMA SendRejectedStep ==
    ASSUME NonceInv, NEW c \in Calls, NEW k \in Kinds, SendRejected(c, k)
    PROVE  NonceInv'
<1>1. tx[c][k].status = "built" /\ tx' = [tx EXCEPT ![c][k].status = "rejected"]
  BY DEF SendRejected, Sending
<1>2. TxMoves
  <2>1. /\ tx \in [Calls -> [Kinds -> L1Txs]]
        /\ \A d \in Calls, j \in Kinds : tx[d][j] \in L1Txs
    BY DEF NonceInv, TypeOK
  <2>2. \A d \in Calls, j \in Kinds :
           tx'[d][j] = IF d = c /\ j = k THEN [tx[c][k] EXCEPT !.status = "rejected"]
                       ELSE tx[d][j]
    BY <1>1, <2>1
  <2>3. /\ [tx[c][k] EXCEPT !.status = "rejected"] \in L1Txs
        /\ [tx[c][k] EXCEPT !.status = "rejected"].nonce = tx[c][k].nonce
        /\ [tx[c][k] EXCEPT !.status = "rejected"].status = "rejected"
    BY <2>1 DEF L1Txs, Statuses
  <2>4. tx' \in [Calls -> [Kinds -> L1Txs]]
    BY <1>1, <2>1, <2>3
  <2>. QED
    BY <1>1, <2>2, <2>3, <2>4 DEF TxMoves, Mined
<1>3. Running(c)
  BY DEF SendRejected, Sending, At, Running
<1>. QED
  BY <1>2, <1>3, RaiseStep DEF SendRejected, Ends

\* What the node does with the transactions of the pool when it takes a new one.
LEMMA AcceptMovesTx ==
    ASSUME NonceInv, NEW c \in Calls, NEW k \in Kinds, SendAccepted(c, k)
    PROVE  TxMoves
<1>. DEFINE rivals == Rivals(tx[c][k].nonce)
            new(d, j) == IF d = c /\ j = k THEN [tx[c][k] EXCEPT !.status = "pending"]
                         ELSE IF <<d, j>> \in rivals
                              THEN [tx[d][j] EXCEPT !.status = "dropped"]
                              ELSE tx[d][j]
<1>1. tx[c][k].status = "built"
  BY DEF SendAccepted, Sending
<1>2. \A d \in Calls, j \in Kinds : <<d, j>> \in rivals => tx[d][j].status = "pending"
  BY DEF Rivals
<1>3. tx' = [d \in Calls |-> [j \in Kinds |-> new(d, j)]]
  BY DEF SendAccepted
<1>4. ASSUME NEW d \in Calls, NEW j \in Kinds
      PROVE  /\ new(d, j) \in L1Txs
             /\ new(d, j).nonce = tx[d][j].nonce
             /\ new(d, j).status = "none" <=> tx[d][j].status = "none"
             /\ new(d, j).status \in {"ok", "reverted"} <=> Mined(d, j)
  <2>1. tx[d][j] \in L1Txs
    BY DEF NonceInv, TypeOK
  <2>. QED
    BY <1>1, <1>2, <2>1 DEF L1Txs, Statuses, Mined
<1>. HIDE DEF new, rivals
<1>. QED
  BY <1>3, <1>4 DEF TxMoves, Mined

LEMMA SendAcceptedStep ==
    ASSUME NonceInv, NEW c \in Calls, NEW k \in Kinds, SendAccepted(c, k)
    PROVE  NonceInv'
<1>1. TxMoves
  BY AcceptMovesTx
<1>2. /\ Running(c) /\ UNCHANGED <<asked, deposit, l1vars>>
      /\ Obj(c) \in Deposits /\ call[c] \in CallStates /\ ObjOf[c] \in Objects
  BY CallFacts DEF SendAccepted, Sending, At, Running, NonceInv
<1>3. CASE Raise(c, "rpcError")
  BY <1>1, <1>2, <1>3, RaiseStep DEF Ends
<1>4. CASE ~Raise(c, "rpcError")
  <2>1. PICK n \in CallStates :
           /\ call' = [call EXCEPT ![c] = n]
           /\ n.op = call[c].op /\ n.end # "idle" /\ n.given = call[c].given
           /\ n.end = "running" =>
                 /\ n.pos = call[c].pos /\ n.sub = "wait"
                 /\ k \in Approvals /\ Stage(c) = k
    <3>1. CASE k = "deposit"
      <4>. DEFINE n == After(c, 1)
      <4>1. /\ n \in CallStates /\ n.op = call[c].op /\ n.end # "idle"
            /\ n.given = call[c].given
            /\ n.end = "running" => call[c].pos + 1 \in 1..Len(ScriptOf(c))
        BY <1>2, AfterFacts DEF NonceInv
      <4>2. Stage(c) = "send" /\ call[c].pos \in 1..Len(ScriptOf(c))
        BY <1>2, <3>1 DEF SendAccepted, Sending, At, Stage, Approvals, NonceInv, InScript
      <4>3. call[c].pos = Len(ScriptOf(c)) /\ Len(ScriptOf(c)) \in Nat
        BY <4>2, CallFacts, ScriptOrder DEF ScriptOf, Stage, NonceInv
      <4>4. n.end # "running"
        BY <4>1, <4>3
      <4>5. call' = [call EXCEPT ![c] = n]
        BY <1>4, <3>1 DEF SendAccepted, Advance
      <4>. HIDE DEF n
      <4>. QED
        BY <4>1, <4>4, <4>5
    <3>2. CASE k # "deposit"
      <4>. DEFINE n == [call[c] EXCEPT !.sub = "wait"]
      <4>1. /\ n \in CallStates /\ n.op = call[c].op /\ n.end = "running"
            /\ n.given = call[c].given /\ n.pos = call[c].pos /\ n.sub = "wait"
        BY <1>2 DEF CallStates, Running
      <4>2. call' = [call EXCEPT ![c] = n]
        BY <1>4, <3>2 DEF SendAccepted, NonceInv, TypeOK
      <4>3. k \in Approvals /\ Stage(c) = k
        BY <3>2 DEF SendAccepted, Sending, At, Stage
      <4>. HIDE DEF n
      <4>. QED
        BY <4>1, <4>2, <4>3
    <3>. QED
      BY <3>1, <3>2
  <2>2. deposit' = [deposit EXCEPT ![ObjOf[c]] = Obj(c)]
    BY <1>2 DEF Obj, NonceInv, TypeOK
  <2>3. n.given # None => Obj(c).nonce # None
    BY <2>1 DEF NonceInv, NonceSet
  <2>4. n.end = "running" =>
           /\ n.pos \in 1..Len(ScriptOf(c))
           /\ ScriptOf(c)[n.pos] \notin {"dummy", "nonce"} => Obj(c).nonce # None
           /\ tx[c]["deposit"].status # "none" => ScriptOf(c)[n.pos] = "send"
           /\ \A j \in Approvals :
                 /\ n.given = None
                 /\ tx[c][j].status # "none"
                 /\ ~(ScriptOf(c)[n.pos] = j /\ n.sub # "check")
                 => Mined(c, j) /\ Obj(c).nonce # None /\ tx[c][j].nonce < Obj(c).nonce
    BY <1>2, <2>1
       DEF NonceInv, InScript, NonceSet, BuiltIsSentNext, ApprovalsBehind, Stage
  <2>. QED
    BY <1>1, <1>2, <2>1, <2>2, <2>3, <2>4, LocalStep
<1>. QED
  BY <1>3, <1>4

\* A running call adds a built transaction: an approval at its stage, or the
\* deposit on the way to its send.
LEMMA BuiltStep ==
    ASSUME NonceInv, NEW c \in Calls, Running(c), NEW k \in Kinds, NEW t \in L1Txs,
           t.status = "built", tx[c]["deposit"].status = "none",
           NEW n \in CallStates, n.op = call[c].op, n.end = "running",
           n.given = call[c].given, n.pos \in 1..Len(ScriptOf(c)),
           tx' = [tx EXCEPT ![c][k] = t],
           call' = [call EXCEPT ![c] = n],
           UNCHANGED <<asked, deposit, l1vars>>,
           Obj(c).nonce # None,
           k = "deposit" =>
              /\ ScriptOf(c)[n.pos] = "send"
              /\ Stage(c) \notin Approvals
              /\ t.nonce = Obj(c).nonce,
           k # "deposit" =>
              /\ ScriptOf(c)[n.pos] = k
              /\ Stage(c) = k
              /\ n.sub # "check"
    PROVE  NonceInv'
<1>. USE DEF NonceInv
<1>1. /\ \A e \in Calls, j \in Kinds :
            tx'[e][j] = IF e = c /\ j = k THEN t ELSE tx[e][j]
      /\ \A e \in Calls : call'[e] = IF e = c THEN n ELSE call[e]
      /\ \A e \in Calls : Obj(e)' = Obj(e) /\ ScriptOf(e)' = ScriptOf(e)
  BY DEF TypeOK, Obj, ScriptOf
<1>2. /\ Stage(c)' = ScriptOf(c)[n.pos] /\ Running(c)'
      /\ \A e \in Calls \ {c} : Stage(e)' = Stage(e) /\ (Running(e)' <=> Running(e))
  BY <1>1 DEF Stage, Running
<1>3. TypeOK'
  <2>1. tx' \in [Calls -> [Kinds -> L1Txs]]
    BY DEF TypeOK
  <2>. QED
    BY <2>1 DEF TypeOK, l1vars
<1>4. FreshCalls'
  BY <1>1 DEF FreshCalls, Running
<1>5. InScript'
  BY <1>1, <1>2 DEF InScript
<1>6. OwnObject'
  BY <1>2 DEF OwnObject
<1>7. NonceSet'
  BY <1>1, <1>2 DEF NonceSet
<1>8. MinedBelowCount'
  BY <1>1 DEF MinedBelowCount, Mined, l1vars
<1>9. BuiltIsSentNext'
  <2>. SUFFICES ASSUME NEW e \in Calls, Running(e)', tx'[e]["deposit"].status # "none"
                PROVE  Stage(e)' = "send"
    BY DEF BuiltIsSentNext
  <2>1. "deposit" \in Kinds
    BY DEF Kinds
  <2>. QED
    BY <1>1, <1>2, <2>1 DEF BuiltIsSentNext
<1>10. ApprovalsBehind'
  <2>. SUFFICES ASSUME NEW e \in Calls, NEW j \in Approvals, Running(e)',
                       call'[e].given = None, tx'[e][j].status # "none",
                       ~(Stage(e)' = j /\ call'[e].sub # "check")
                PROVE  /\ Mined(e, j)'
                       /\ Obj(e)'.nonce # None
                       /\ tx'[e][j].nonce < Obj(e)'.nonce
    BY DEF ApprovalsBehind
  <2>1. j \in Kinds /\ j # "deposit"
    BY DEF Approvals, Kinds
  <2>2. CASE e = c
    <3>1. j # k
      BY <1>1, <1>2, <2>1, <2>2
    <3>2. ~(Stage(c) = j /\ call[c].sub # "check")
      BY <3>1
    <3>. QED
      BY <1>1, <2>1, <2>2, <3>1, <3>2 DEF ApprovalsBehind, Mined
  <2>3. CASE e # c
    BY <1>1, <1>2, <2>1, <2>3 DEF ApprovalsBehind, Mined
  <2>. QED
    BY <2>2, <2>3
<1>11. DepositFollowsItsApprovals'
  <2>. SUFFICES ASSUME NEW e \in Calls, NEW j \in Approvals,
                       tx'[e]["deposit"].status # "none", tx'[e][j].status # "none",
                       call'[e].given = None
                PROVE  tx'[e][j].nonce < tx'[e]["deposit"].nonce
    BY DEF DepositFollowsItsApprovals
  <2>1. j \in Kinds /\ j # "deposit" /\ "deposit" \in Kinds
    BY DEF Approvals, Kinds
  <2>2. CASE e = c
    <3>1. k = "deposit" /\ t.nonce = Obj(c).nonce
      BY <1>1, <2>1, <2>2
    <3>. QED
      BY <1>1, <2>1, <2>2, <3>1 DEF ApprovalsBehind
  <2>3. CASE e # c
    BY <1>1, <2>1, <2>3 DEF DepositFollowsItsApprovals
  <2>. QED
    BY <2>2, <2>3
<1>. QED
  BY <1>3, <1>4, <1>5, <1>6, <1>7, <1>8, <1>9, <1>10, <1>11

LEMMA BuildDepositStep ==
    ASSUME NonceInv, NEW c \in Calls, BuildDeposit(c)
    PROVE  NonceInv'
<1>1. /\ Obj(c) \in Deposits /\ call[c] \in CallStates
      /\ Obj(c).route \in Routes /\ call[c].op \in Methods
      /\ Running(c) /\ Stage(c) = "build" /\ call[c].pos \in 1..Len(ScriptOf(c))
  BY CallFacts DEF NonceInv, InScript, BuildDeposit, At, Running, Stage
<1>2. CASE Obj(c).gas \/ Simulates(c, Draft(c))
  <2>. DEFINE t == Draft(c)
              n == After(c, 1)
  <2>1. Obj(c).nonce # None /\ tx[c]["deposit"].status = "none"
    BY <1>1 DEF NonceInv, NonceSet, BuiltIsSentNext
  <2>2. t \in L1Txs /\ t.status = "built" /\ t.nonce = Obj(c).nonce
    <3>1. baseFee \in BaseFees
      BY DEF NonceInv, TypeOK
    <3>2. SentFees(Obj(c), baseFee).cap \in Nat /\ SentFees(Obj(c), baseFee).prio \in Nat
      BY <1>1, <3>1, FeesAreNat
    <3>3. Obj(c).nonce \in Nat /\ Obj(c).value \in Optional(Nat) /\ Obj(c).amount \in Nat
      BY <1>1, <2>1 DEF Deposits, Optional
    <3>4. call[c].mint \in Nat
      BY <1>1 DEF CallStates
    <3>. QED
      BY <3>2, <3>3, <3>4 DEF Draft, L1Txs, Statuses
  <2>3. call[c].pos < Len(ScriptOf(c)) /\ ScriptOf(c)[call[c].pos + 1] = "send"
    BY <1>1, ScriptOrder DEF ScriptOf, Stage
  <2>4. /\ n \in CallStates /\ n.op = call[c].op /\ n.given = call[c].given
        /\ n.pos = call[c].pos + 1
    BY <1>1, AfterFacts DEF NonceInv
  <2>5. n.pos \in 1..Len(ScriptOf(c)) /\ n.end = "running"
    BY <1>1, <2>3, <2>4, CallFacts DEF NonceInv, After, Running, CallStates
  <2>6. /\ tx' = [tx EXCEPT ![c]["deposit"] = t]
        /\ call' = [call EXCEPT ![c] = n]
        /\ UNCHANGED <<asked, deposit, l1vars>>
    BY <1>2 DEF BuildDeposit, Advance
  <2>7. "deposit" \in Kinds /\ Stage(c) \notin Approvals
    BY <1>1 DEF Kinds, Approvals
  <2>. HIDE DEF t, n
  <2>. QED
    BY <1>1, <2>1, <2>2, <2>3, <2>4, <2>5, <2>6, <2>7, BuiltStep
<1>3. CASE ~(Obj(c).gas \/ Simulates(c, Draft(c)))
  BY <1>1, <1>3, RaiseStep, TxStill DEF BuildDeposit, Ends, NonceInv
<1>. QED
  BY <1>2, <1>3

LEMMA BuildApprovalStep ==
    ASSUME NonceInv, NEW c \in Calls, NEW k \in Approvals, BuildApproval(c, k)
    PROVE  NonceInv'
<1>. DEFINE t == [status |-> "built", nonce |-> count, cap |-> NetworkPrice(baseFee),
                  prio |-> NetworkPrice(baseFee), mint |-> 0, value |-> 0,
                  amount |-> NeededAmount(c, k)]
            n == [call[c] EXCEPT !.sub = "send"]
<1>1. /\ Obj(c) \in Deposits /\ call[c] \in CallStates
      /\ Running(c) /\ Stage(c) = k /\ call[c].pos \in 1..Len(ScriptOf(c))
      /\ k \notin {"dummy", "nonce", "send", "deposit"} /\ k \in Kinds
  BY CallFacts
     DEF NonceInv, InScript, BuildApproval, At, Running, Stage, Approvals, Kinds
<1>2. Obj(c).nonce # None /\ tx[c]["deposit"].status = "none"
  BY <1>1 DEF NonceInv, NonceSet, BuiltIsSentNext
<1>3. t \in L1Txs /\ t.status = "built"
  <2>1. baseFee \in BaseFees /\ count \in Nat
    BY DEF NonceInv, TypeOK
  <2>2. NetworkPrice(baseFee) \in Nat
    BY <1>1, <2>1, FeesAreNat
  <2>3. NeededAmount(c, k) \in Nat
    BY <1>1 DEF NeededAmount, CallStates, Deposits
  <2>. QED
    BY <2>1, <2>2, <2>3 DEF L1Txs, Statuses, Optional
<1>4. /\ n \in CallStates /\ n.op = call[c].op /\ n.end = "running"
      /\ n.given = call[c].given /\ n.pos = call[c].pos /\ n.sub # "check"
  BY <1>1 DEF CallStates, Running
<1>5. /\ tx' = [tx EXCEPT ![c][k] = t]
      /\ call' = [call EXCEPT ![c] = n]
      /\ UNCHANGED <<asked, deposit, l1vars>>
  BY DEF BuildApproval, NonceInv, TypeOK
<1>6. ScriptOf(c)[n.pos] = k /\ n.pos \in 1..Len(ScriptOf(c))
  BY <1>1, <1>4 DEF Stage
<1>. HIDE DEF t, n
<1>. QED
  BY <1>1, <1>2, <1>3, <1>4, <1>5, <1>6, BuiltStep

LEMMA BeginStep ==
    ASSUME NonceInv, NEW c \in Calls, Begin(c)
    PROVE  NonceInv'
<1>. USE DEF NonceInv
<1>1. PICK o \in Ops : call' = [call EXCEPT ![c].op = o, ![c].end = "running"]
  BY DEF Begin
<1>. DEFINE n == [call[c] EXCEPT !.op = o, !.end = "running"]
<1>2. /\ call[c] \in CallStates /\ call[c].end = "idle" /\ o \in Methods
      /\ Obj(c).route \in Routes
      /\ UNCHANGED <<asked, deposit, tx, l1vars>>
  BY CallFacts, DepositAssumption DEF Begin
<1>3. /\ n \in CallStates /\ n.op = o /\ n.end = "running"
      /\ n.pos = 1 /\ n.given = None
      /\ \A k \in Kinds : tx[c][k].status = "none"
  <2>1. n \in CallStates /\ n.op = o /\ n.end = "running"
        /\ n.pos = call[c].pos /\ n.given = call[c].given
    BY <1>2 DEF CallStates, Ends
  <2>. QED
    BY <2>1, <1>2 DEF FreshCalls
<1>4. call' = [call EXCEPT ![c] = n]
  BY <1>1 DEF TypeOK
<1>. HIDE DEF n
<1>5. /\ \A e \in Calls : call'[e] = IF e = c THEN n ELSE call[e]
      /\ \A e \in Calls : Obj(e)' = Obj(e)
      /\ \A e \in Calls \ {c} : ScriptOf(e)' = ScriptOf(e)
      /\ ScriptOf(c)' = Script(o, Obj(c).route)
  BY <1>2, <1>3, <1>4 DEF TypeOK, Obj, ScriptOf
<1>6. /\ Stage(c)' \in {"dummy", "nonce"}
      /\ call'[c].pos \in 1..Len(ScriptOf(c))'
      /\ \A e \in Calls \ {c} : Stage(e)' = Stage(e) /\ (Running(e)' <=> Running(e))
  BY <1>2, <1>3, <1>5, ScriptOrder DEF Stage, Running
<1>7. TypeOK'
  BY <1>2, <1>3, <1>4 DEF TypeOK, l1vars
<1>8. FreshCalls'
  BY <1>2, <1>3, <1>5 DEF FreshCalls
<1>9. InScript'
  BY <1>5, <1>6 DEF InScript
<1>10. OwnObject'
  <2>1. \A e \in Calls : ObjOf[e] = ObjOf[c] => ~Running(e)
    BY DEF Begin, MayBegin, Running
  <2>. QED
    BY <2>1, <1>6 DEF OwnObject
<1>11. NonceSet'
  BY <1>3, <1>5, <1>6 DEF NonceSet
<1>12. MinedBelowCount'
  BY <1>2 DEF MinedBelowCount, Mined, l1vars
<1>13. BuiltIsSentNext'
  BY <1>2, <1>3, <1>6 DEF BuiltIsSentNext, Kinds
<1>14. ApprovalsBehind'
  BY <1>2, <1>3, <1>5, <1>6 DEF ApprovalsBehind, Mined, Approvals, Kinds
<1>15. DepositFollowsItsApprovals'
  BY <1>2, <1>3, <1>5 DEF DepositFollowsItsApprovals, Kinds
<1>. QED
  BY <1>7, <1>8, <1>9, <1>10, <1>11, <1>12, <1>13, <1>14, <1>15

\* A step that leaves the calls, their objects and the transactions alone, and
\* does not lower the count.
LEMMA ChangeBaseFeeStep ==
    ASSUME NonceInv, ChangeBaseFee
    PROVE  NonceInv'
<1>. USE DEF NonceInv, ChangeBaseFee
<1>1. TypeOK'
  BY DEF TypeOK
<1>2. FreshCalls' /\ InScript' /\ OwnObject' /\ NonceSet'
  BY DEF FreshCalls, InScript, OwnObject, NonceSet, Running, Stage, ScriptOf, Obj
<1>3. MinedBelowCount' /\ BuiltIsSentNext' /\ ApprovalsBehind'
  BY DEF MinedBelowCount, BuiltIsSentNext, ApprovalsBehind, Mined, Running, Stage,
         ScriptOf, Obj
<1>4. DepositFollowsItsApprovals'
  BY DEF DepositFollowsItsApprovals
<1>. QED
  BY <1>1, <1>2, <1>3, <1>4

\* A block that includes transaction k of call c.
LEMMA MinedStep ==
    ASSUME NonceInv, NEW c \in Calls, NEW k \in Kinds, Includable(c, k),
           NEW s \in {"ok", "reverted"},
           tx' = [tx EXCEPT ![c][k].status = s],
           count' = count + 1,
           allowance' \in [Approvals -> [Bridges -> Nat]],
           UNCHANGED <<asked, deposit, call, baseFee>>
    PROVE  NonceInv'
<1>. USE DEF NonceInv
<1>1. tx[c][k] \in L1Txs /\ tx[c][k].nonce = count /\ tx[c][k].status = "pending"
  BY DEF Includable, TypeOK
<1>2. /\ [tx[c][k] EXCEPT !.status = s] \in L1Txs
      /\ [tx[c][k] EXCEPT !.status = s].status = s
      /\ [tx[c][k] EXCEPT !.status = s].nonce = tx[c][k].nonce
  BY <1>1 DEF L1Txs, Statuses
<1>3. /\ \A e \in Calls, j \in Kinds :
            tx'[e][j] = IF e = c /\ j = k THEN [tx[c][k] EXCEPT !.status = s]
                        ELSE tx[e][j]
      /\ tx' \in [Calls -> [Kinds -> L1Txs]]
  BY <1>2 DEF TypeOK
<1>4. /\ \A e \in Calls, j \in Kinds :
            /\ tx'[e][j].nonce = tx[e][j].nonce
            /\ tx'[e][j].status = "none" <=> tx[e][j].status = "none"
            /\ Mined(e, j) => Mined(e, j)'
            /\ Mined(e, j)' => Mined(e, j) \/ tx[e][j].nonce = count
      /\ count \in Nat
  BY <1>1, <1>2, <1>3 DEF Mined, TypeOK
<1>5. TypeOK'
  BY <1>3, <1>4 DEF TypeOK
<1>6. FreshCalls'
  BY <1>4 DEF FreshCalls
<1>7. InScript' /\ OwnObject' /\ NonceSet'
  BY DEF InScript, OwnObject, NonceSet, Running, Stage, ScriptOf, Obj
<1>8. MinedBelowCount'
  <2>. SUFFICES ASSUME NEW e \in Calls, NEW j \in Kinds, Mined(e, j)'
                PROVE  tx'[e][j].nonce < count'
    BY DEF MinedBelowCount
  <2>1. tx[e][j].nonce \in Nat
    BY DEF TypeOK, L1Txs
  <2>. QED
    BY <1>4, <2>1 DEF MinedBelowCount
<1>9. BuiltIsSentNext'
  BY <1>4 DEF BuiltIsSentNext, Running, Stage, ScriptOf, Obj, Kinds
<1>10. ApprovalsBehind'
  BY <1>4 DEF ApprovalsBehind, Running, Stage, ScriptOf, Obj, Approvals, Kinds
<1>11. DepositFollowsItsApprovals'
  BY <1>4 DEF DepositFollowsItsApprovals, Approvals, Kinds
<1>. QED
  BY <1>5, <1>6, <1>7, <1>8, <1>9, <1>10, <1>11

LEMMA MineApprovalStep ==
    ASSUME NonceInv, NEW c \in Calls, NEW k \in Approvals, MineApproval(c, k)
    PROVE  NonceInv'
<1>1. k \in Kinds /\ tx[c][k].amount \in Nat
  BY DEF NonceInv, TypeOK, L1Txs, Approvals, Kinds
<1>2. allowance' \in [Approvals -> [Bridges -> Nat]]
  <2>. DEFINE new == [allowance[k] EXCEPT ![ApprovedSpender(c, k)] = tx[c][k].amount]
  <2>1. allowance \in [Approvals -> [Bridges -> Nat]]
    BY DEF NonceInv, TypeOK
  <2>2. new \in [Bridges -> Nat]
    BY <1>1, <2>1
  <2>3. allowance' = [allowance EXCEPT ![k] = new] \/ allowance' = allowance
    BY <2>1 DEF MineApproval
  <2>. HIDE DEF new
  <2>. QED
    BY <2>1, <2>2, <2>3
<1>3. /\ Includable(c, k) /\ count' = count + 1
      /\ UNCHANGED <<asked, deposit, call, baseFee>>
      /\ \/ tx' = [tx EXCEPT ![c][k].status = "ok"]
         \/ tx' = [tx EXCEPT ![c][k].status = "reverted"]
  BY DEF MineApproval
<1>. QED
  BY <1>1, <1>2, <1>3, MinedStep

LEMMA MineDepositStep ==
    ASSUME NonceInv, NEW c \in Calls, MineDeposit(c)
    PROVE  NonceInv'
<1>. DEFINE t == tx[c]["deposit"]
            ok == Accepts(c, t)
            left(k, s) == IF ok /\ k \in Pulled(Obj(c).route) /\ s = PullSpender(c, k)
                          THEN allowance[k][s] - PullAmount(t, k)
                          ELSE allowance[k][s]
<1>1. "deposit" \in Kinds /\ t \in L1Txs
  BY DEF NonceInv, TypeOK, Kinds
<1>2. ASSUME NEW k \in Approvals, NEW s \in Bridges
      PROVE  left(k, s) \in Nat
  <2>1. allowance[k][s] \in Nat /\ PullAmount(t, k) \in Nat
    BY <1>1 DEF NonceInv, TypeOK, PullAmount, L1Txs
  <2>2. CASE ok /\ k \in Pulled(Obj(c).route) /\ s = PullSpender(c, k)
    <3>1. allowance[k][s] >= PullAmount(t, k)
      BY <2>2 DEF Accepts, AllowanceCovers
    <3>. QED
      BY <2>1, <2>2, <3>1
  <2>3. CASE ~(ok /\ k \in Pulled(Obj(c).route) /\ s = PullSpender(c, k))
    BY <2>1, <2>3
  <2>. QED
    BY <2>2, <2>3
<1>3. allowance' = [k \in Approvals |-> [s \in Bridges |-> left(k, s)]]
  BY DEF MineDeposit
<1>4. /\ Includable(c, "deposit") /\ count' = count + 1
      /\ UNCHANGED <<asked, deposit, call, baseFee>>
      /\ tx' = [tx EXCEPT ![c]["deposit"].status = IF ok THEN "ok" ELSE "reverted"]
  BY DEF MineDeposit
<1>. HIDE DEF left, ok
<1>5. allowance' \in [Approvals -> [Bridges -> Nat]]
  BY <1>2, <1>3
<1>. QED
  BY <1>1, <1>4, <1>5, MinedStep

-----------------------------------------------------------------------------

LEMMA NonceInvInit == Init => NonceInv
<1>. SUFFICES ASSUME Init PROVE NonceInv
  OBVIOUS
<1>. USE DEF Init
<1>1. NewCall \in CallStates /\ NewCall.pos = 1 /\ NewCall.sub = "check"
      /\ NewCall.end = "idle" /\ NewCall.given = None
  BY DEF NewCall, CallStates, Methods, Ends, Optional
<1>2. NoTx \in L1Txs /\ NoTx.status = "none"
  BY DEF NoTx, L1Txs, Statuses, Optional
<1>3. TypeOK
  BY <1>1, <1>2, DepositAssumption DEF TypeOK
<1>4. FreshCalls
  BY <1>1, <1>2 DEF FreshCalls
<1>5. InScript /\ OwnObject /\ BuiltIsSentNext /\ ApprovalsBehind
  BY <1>1 DEF InScript, OwnObject, BuiltIsSentNext, ApprovalsBehind, Running
<1>6. NonceSet
  BY <1>1 DEF NonceSet, Running
<1>7. MinedBelowCount
  BY <1>2 DEF MinedBelowCount, Mined
<1>8. DepositFollowsItsApprovals
  BY <1>2 DEF DepositFollowsItsApprovals, Kinds
<1>. QED
  BY <1>3, <1>4, <1>5, <1>6, <1>7, <1>8 DEF NonceInv

LEMMA NonceInvNext == NonceInv /\ [Next]_vars => NonceInv'
<1>. SUFFICES ASSUME NonceInv, [Next]_vars PROVE NonceInv'
  OBVIOUS
<1>1. ASSUME NEW c \in Calls, Begin(c) PROVE NonceInv'
  BY <1>1, BeginStep
<1>2. ASSUME NEW c \in Calls, Step(c) PROVE NonceInv'
  <2>1. CASE DummyAmount(c) \/ DefaultNonce(c) \/ DefaultFees(c) \/ QuoteFee(c)
    BY <2>1, DummyAmountStep, DefaultNonceStep, DefaultFeesStep, QuoteFeeStep
  <2>2. CASE PriceDeposit(c) \/ SkipEstimate(c) \/ PopulateRequest(c) \/ Simulate(c)
    BY <2>2, PriceDepositStep, SkipEstimateStep, PopulateRequestStep, SimulateStep
  <2>3. CASE BuildDeposit(c)
    BY <2>3, BuildDepositStep
  <2>4. CASE ApprovalStep(c)
    BY <2>4, CheckAllowanceStep, BuildApprovalStep, ApprovalReceiptStep,
       ApprovalTimeoutStep DEF ApprovalStep
  <2>5. CASE SendStep(c)
    BY <2>5, SendRejectedStep, SendAcceptedStep DEF SendStep
  <2>. QED
    BY <1>2, <2>1, <2>2, <2>3, <2>4, <2>5 DEF Step
<1>3. ASSUME NEW c \in Calls, RpcFails(c) PROVE NonceInv'
  BY <1>3, RpcFailsStep
<1>4. ASSUME NEW c \in Calls, Mine(c) PROVE NonceInv'
  BY <1>4, MineDepositStep, MineApprovalStep DEF Mine
<1>5. CASE ChangeBaseFee
  BY <1>5, ChangeBaseFeeStep
<1>6. CASE UNCHANGED vars
  <2>. USE <1>6 DEF NonceInv, vars, l1vars
  <2>1. TypeOK' /\ FreshCalls' /\ MinedBelowCount' /\ DepositFollowsItsApprovals'
    BY DEF TypeOK, FreshCalls, MinedBelowCount, Mined, DepositFollowsItsApprovals
  <2>2. InScript' /\ OwnObject' /\ NonceSet' /\ BuiltIsSentNext' /\ ApprovalsBehind'
    BY DEF InScript, OwnObject, NonceSet, BuiltIsSentNext, ApprovalsBehind, Running,
           Stage, ScriptOf, Obj, Mined
  <2>. QED
    BY <2>1, <2>2
<1>. QED
  BY <1>1, <1>2, <1>3, <1>4, <1>5, <1>6 DEF Next

\* The inductive invariant holds in every behaviour of the wallet's calls and of
\* the chain.
THEOREM NonceInvariant == Spec => []NonceInv
  BY NonceInvInit, NonceInvNext, PTL DEF Spec

\* Type correctness: every field of every object, call and transaction stays in
\* its range, for any number of calls, objects and fees; in particular no
\* allowance is overdrawn and a transaction always has a nonce.
THEOREM TypeCorrect == Spec => []TypeOK
<1>1. NonceInv => TypeOK
  BY DEF NonceInv
<1>. QED
  BY <1>1, NonceInvariant, PTL

\* The deposit of a call whose caller left the nonce to the wallet is ordered
\* after the approvals the call sent, whatever other calls send and the chain
\* mines in between: what the second reading of the nonce is for.
THEOREM DepositAfterApprovals == Spec => []DepositFollowsItsApprovals
<1>1. NonceInv => DepositFollowsItsApprovals
  BY DEF NonceInv
<1>. QED
  BY <1>1, NonceInvariant, PTL

=============================================================================
