----------------------- MODULE DepositPromises_proofs -----------------------
(***************************************************************************)
(* Proofs about what WalletL1Deposit promises a program: what a            *)
(* DepositTransaction object keeps through any sequence of calls, and what *)
(* a program that waits for its transactions can rely on.  The inductive   *)
(* invariants are ObjectInv and WaitingInv, relative to NonceInv.          *)
(***************************************************************************)
EXTENDS WalletL1Deposit_proofs

\* Only a fee query has a dummy amount and a quote; the defaults are followed by
\* the fees; what is requested or built has been priced.
LEMMA ScriptPlaces ==
    ASSUME NEW o \in Methods, NEW r \in Routes, NEW i \in 1..Len(Script(o, r))
    PROVE  /\ o # "fullFee" => Script(o, r)[i] \notin {"dummy", "quote"}
           /\ Script(o, r)[i] = "nonce" => i < Len(Script(o, r)) /\ Script(o, r)[i + 1] = "fee"
           /\ Script(o, r)[i] = "request" => r \in DirectRoutes
           /\ Script(o, r)[i] \in {"gas", "request", "build"} =>
                 \E j \in 1..(i - 1) : Script(o, r)[j] = "cost"
<1>. DEFINE costAt == [ethOnEth |-> 3, tokenOnEth |-> 4, ethOnNonEth |-> 4,
                       baseOnNonEth |-> 3, nonBaseOnNonEth |-> 4]
            p == costAt[r] + (IF o = "fullFee" THEN 4 ELSE 0)
            S == Script(o, r)
<1>. i \in Int
  OBVIOUS
<1>1. /\ o # "fullFee" => S[i] \notin {"dummy", "quote"}
      /\ S[i] = "nonce" => i < Len(S) /\ S[i + 1] = "fee"
      /\ S[i] = "request" => r \in DirectRoutes
  <2>. USE DEF Script, Builder, Submit, Measure, DirectRoutes, Methods
  <2>1. CASE r = "ethOnEth"
    BY <2>1, SMT
  <2>2. CASE r = "tokenOnEth"
    BY <2>2, SMT
  <2>3. CASE r = "ethOnNonEth"
    BY <2>3, SMT
  <2>4. CASE r = "baseOnNonEth"
    BY <2>4, SMT
  <2>5. CASE r = "nonBaseOnNonEth"
    BY <2>5, SMT
  <2>. QED
    BY <2>1, <2>2, <2>3, <2>4, <2>5 DEF Routes
<1>2. p \in Nat \ {0} /\ S[p] = "cost" /\ (S[i] \in {"gas", "request", "build"} => p < i)
  <2>. USE DEF Script, Builder, Submit, Measure, DirectRoutes, Methods
  <2>1. CASE r = "ethOnEth"
    BY <2>1, SMT
  <2>2. CASE r = "tokenOnEth"
    BY <2>2, SMT
  <2>3. CASE r = "ethOnNonEth"
    BY <2>3, SMT
  <2>4. CASE r = "baseOnNonEth"
    BY <2>4, SMT
  <2>5. CASE r = "nonBaseOnNonEth"
    BY <2>5, SMT
  <2>. QED
    BY <2>1, <2>2, <2>3, <2>4, <2>5 DEF Routes
<1>. HIDE DEF p, S
<1>. QED
  BY <1>1, <1>2 DEF S

\* The status of a deposit may move, but none appears, and nothing else changes.
TxKept ==
    \A c \in Calls :
        /\ tx'[c]["deposit"].nonce = tx[c]["deposit"].nonce
        /\ tx'[c]["deposit"].amount = tx[c]["deposit"].amount
        /\ tx'[c]["deposit"].mint = tx[c]["deposit"].mint
        /\ tx'[c]["deposit"].cap = tx[c]["deposit"].cap
        /\ tx'[c]["deposit"].status = "none" <=> tx[c]["deposit"].status = "none"

\* What a call may do to its object: the nonce stays when it is the caller's or that
\* of an earlier deposit, the amount stays except for the dummy amount.
ObjectMoves(c, d) ==
    /\ d.route = Obj(c).route
    /\ d.bridge = Obj(c).bridge
    /\ d.tip = Obj(c).tip
    /\ d.approveErc20 = Obj(c).approveErc20
    /\ d.approveBase = Obj(c).approveBase
    /\ NonceTaken(c) \/ tx[c]["deposit"].status # "none" => d.nonce = Obj(c).nonce
    /\ d.amount = Obj(c).amount \/ (FeeAsked(c) /\ d.amount = 1)

\* The state after call c has left its object as d and its local state as n.
LEMMA AfterLocal ==
    ASSUME TypeOK, NEW c \in Calls, NEW d \in Deposits, d.route = Obj(c).route, NEW n,
           n.op = call[c].op,
           n.end = "idle" <=> call[c].end = "idle",
           deposit' = [deposit EXCEPT ![ObjOf[c]] = d],
           call' = [call EXCEPT ![c] = n]
    PROVE  /\ \A e \in Calls : Obj(e)' = IF ObjOf[e] = ObjOf[c] THEN d ELSE Obj(e)
           /\ \A e \in Calls : ObjOf[e] = ObjOf[c] => Obj(e) = Obj(c)
           /\ \A e \in Calls : call'[e] = IF e = c THEN n ELSE call[e]
           /\ \A e \in Calls : ScriptOf(e)' = ScriptOf(e)
           /\ \A e \in Calls : FeeAsked(e)' <=> FeeAsked(e)
<1>1. /\ \A e \in Calls : Obj(e)' = IF ObjOf[e] = ObjOf[c] THEN d ELSE Obj(e)
      /\ \A e \in Calls : ObjOf[e] = ObjOf[c] => Obj(e) = Obj(c)
      /\ \A e \in Calls : call'[e] = IF e = c THEN n ELSE call[e]
  BY DepositAssumption DEF TypeOK, Obj
<1>2. \A e \in Calls : ScriptOf(e)' = ScriptOf(e)
  BY <1>1 DEF ScriptOf
<1>3. \A e \in Calls : FeeAsked(e)' <=> FeeAsked(e)
  BY <1>1 DEF FeeAsked
<1>. QED
  BY <1>1, <1>2, <1>3

\* A step of the running call c that leaves its object as d and its local state as
\* n preserves the invariant when d and n satisfy its parts.
LEMMA ObjectLocal ==
    ASSUME NonceInv, ObjectInv, NEW c \in Calls, Running(c), UNCHANGED asked, TxKept,
           \A e \in Calls : Mined(e, "deposit")' <=> Mined(e, "deposit"),
           NEW d \in Deposits, ObjectMoves(c, d),
           NEW n, n.op = call[c].op, n.end # "idle",
           deposit' = [deposit EXCEPT ![ObjOf[c]] = d],
           call' = [call EXCEPT ![c] = n],
           n.end = "running" /\ ScriptOf(c)[n.pos] \notin {"dummy", "nonce"} /\ NonceTaken(c)
              => n.given # None,
           SelfPriced(asked[ObjOf[c]]) /\ ~FeeAsked(c) => PricedAs(c, d, n)
    PROVE  ObjectInv'
<1>. USE DEF ObjectInv
<1>1. /\ \A e \in Calls : Obj(e)' = IF ObjOf[e] = ObjOf[c] THEN d ELSE Obj(e)
      /\ \A e \in Calls : ObjOf[e] = ObjOf[c] => Obj(e) = Obj(c)
      /\ \A e \in Calls : call'[e] = IF e = c THEN n ELSE call[e]
      /\ \A e \in Calls : ScriptOf(e)' = ScriptOf(e)
      /\ \A e \in Calls : FeeAsked(e)' <=> FeeAsked(e)
  BY AfterLocal DEF ObjectMoves, NonceInv, Running
<1>2. \A e \in Calls : ObjOf[e] = ObjOf[c] => (FeeAsked(e) <=> FeeAsked(c))
  BY DEF FeeAsked
<1>3. \A e \in Calls \ {c} : Running(e) => ObjOf[e] # ObjOf[c]
  BY DEF NonceInv, OwnObject
<1>4. "deposit" \in Kinds
  BY DEF Kinds
<1>5. ObjectKept'
  <2>. SUFFICES ASSUME NEW e \in Calls, ObjOf[e] = ObjOf[c]
                PROVE  /\ d.route = asked[ObjOf[c]].route
                       /\ d.bridge = asked[ObjOf[c]].bridge
                       /\ d.tip = asked[ObjOf[c]].tip
                       /\ d.approveErc20 = asked[ObjOf[c]].approveErc20
                       /\ d.approveBase = asked[ObjOf[c]].approveBase
                       /\ asked[ObjOf[c]].nonce # None => d.nonce = asked[ObjOf[c]].nonce
                       /\ d.amount = asked[ObjOf[c]].amount \/ (FeeAsked(c) /\ d.amount = 1)
    BY <1>1, <1>2 DEF ObjectKept
  <2>. QED
    BY DEF ObjectKept, ObjectMoves, NonceTaken
<1>6. \A e \in Calls : NonceTaken(e)' <=> NonceTaken(e)
  BY <1>4 DEF NonceTaken, TxKept
<1>7. TakenIsGiven'
  BY <1>1, <1>6 DEF TakenIsGiven, Running, Stage
<1>8. \A e \in Calls :
         ObjOf[e] = ObjOf[c] /\ tx[e]["deposit"].status # "none" => d.nonce = Obj(e).nonce
  BY <1>1 DEF ObjectMoves, NonceTaken
<1>9. BuiltAsObject'
  <2>. SUFFICES ASSUME NEW e \in Calls, tx'[e]["deposit"].status # "none"
                PROVE  /\ tx'[e]["deposit"].nonce = Obj(e)'.nonce
                       /\ \/ tx'[e]["deposit"].amount = asked[ObjOf[e]].amount
                          \/ FeeAsked(e)' /\ tx'[e]["deposit"].amount = 1
    BY DEF BuiltAsObject
  <2>. QED
    BY <1>1, <1>4, <1>8 DEF BuiltAsObject, TxKept
<1>10. AtMostOneDepositPerObject'
  BY DEF AtMostOneDepositPerObject
<1>11. PriceKept'
  <2>. SUFFICES ASSUME NEW e \in Calls, SelfPriced(asked[ObjOf[e]]), ~FeeAsked(e)
                PROVE  /\ PricedAs(e, Obj(e), call[e])'
                       /\ tx'[e]["deposit"].status # "none" =>
                             tx'[e]["deposit"].mint >=
                                BaseCost(tx'[e]["deposit"].cap)
                                + L2Value(Obj(e)'.route, tx'[e]["deposit"])
    BY <1>1 DEF PriceKept
  <2>1. tx'[e]["deposit"].status # "none" =>
           tx'[e]["deposit"].mint >= BaseCost(tx'[e]["deposit"].cap)
                                     + L2Value(Obj(e)'.route, tx'[e]["deposit"])
    <3>1. Obj(e)'.route = Obj(e).route
      BY <1>1 DEF ObjectMoves
    <3>2. L2Value(Obj(e)'.route, tx'[e]["deposit"]) = L2Value(Obj(e).route, tx[e]["deposit"])
      BY <1>4, <3>1 DEF L2Value, TxKept
    <3>. QED
      BY <1>4, <3>2 DEF PriceKept, TxKept
  <2>2. CASE e = c
    BY <1>1, <2>1, <2>2 DEF PricedAs, Costed
  <2>3. CASE e # c /\ ObjOf[e] = ObjOf[c]
    <3>1. call'[e].end # "running" /\ Obj(e)' = d /\ PricedAs(c, d, n)
      BY <1>1, <1>2, <1>3, <2>3 DEF Running
    <3>. QED
      BY <2>1, <3>1 DEF PricedAs
  <2>4. CASE ObjOf[e] # ObjOf[c]
    <3>1. PricedAs(e, Obj(e), call[e]) /\ Obj(e)' = Obj(e) /\ call'[e] = call[e]
      BY <1>1, <2>4 DEF PriceKept
    <3>. QED
      BY <1>1, <2>1, <3>1 DEF PricedAs, Costed
  <2>. QED
    BY <2>2, <2>3, <2>4
<1>. QED
  BY <1>5, <1>7, <1>9, <1>10, <1>11

\* The price fields of an object.
SamePrice(d, e) ==
    /\ d.route = e.route /\ d.bridge = e.bridge /\ d.tip = e.tip /\ d.amount = e.amount
    /\ d.value = e.value /\ d.gasPrice = e.gasPrice
    /\ d.maxFee = e.maxFee /\ d.prio = e.prio
    /\ d.approveErc20 = e.approveErc20 /\ d.approveBase = e.approveBase

\* Call c ends, or goes on past a stage that prices nothing.
GoesOn(c, n) ==
    n.end = "running" =>
       /\ Stage(c) \notin {"dummy", "nonce", "fee", "quote", "cost"}
       /\ n.mint = call[c].mint
       /\ n.given = call[c].given
       /\ \/ n.pos = call[c].pos
          \/ n.pos = call[c].pos + 1
          \/ Stage(c) = "gas" /\ n.pos \in Nat

LEMMA StagePlaces ==
    ASSUME NonceInv, NEW c \in Calls, Running(c)
    PROVE  /\ call[c].pos \in 1..Len(ScriptOf(c))
           /\ call[c].op # "fullFee" => Stage(c) \notin {"dummy", "quote"}
           /\ Stage(c) = "dummy" => ScriptOf(c)[call[c].pos + 1] = "nonce"
           /\ Stage(c) = "nonce" => ScriptOf(c)[call[c].pos + 1] = "fee"
           /\ Stage(c) = "request" => Obj(c).route \in DirectRoutes
           /\ Stage(c) \in {"gas", "request", "build"} => Costed(c, call[c])
<1>1. /\ call[c].pos \in 1..Len(ScriptOf(c))
      /\ call[c].op \in Methods /\ Obj(c).route \in Routes
  BY CallFacts DEF NonceInv, InScript
<1>. QED
  BY <1>1, ScriptOrder, ScriptPlaces DEF ScriptOf, Stage, Costed

LEMMA PriceGoesOn ==
    ASSUME NonceInv, NEW c \in Calls, Running(c), PricedAs(c, Obj(c), call[c]),
           NEW d, SamePrice(d, Obj(c)), NEW n, GoesOn(c, n)
    PROVE  PricedAs(c, d, n)
<1>1. FullMint(d) = FullMint(Obj(c))
  BY DEF SamePrice, FullMint
<1>2. ASSUME n.end = "running",
             ScriptOf(c)[n.pos] \notin {"dummy", "nonce", "fee"}
      PROVE  d.maxFee # None
  BY <1>2 DEF PricedAs, SamePrice, GoesOn, Running, Stage
<1>3. ASSUME n.end = "running", NEW i \in 1..(n.pos - 1), ScriptOf(c)[i] = "cost"
      PROVE  /\ d.maxFee # None
             /\ n.mint = FullMint(d)
             /\ d.route = "ethOnEth" => d.value # None
  <2>1. call[c].pos \in Nat
    BY CallFacts DEF NonceInv
  <2>2. Costed(c, call[c])
    <3>1. CASE Stage(c) = "gas"
      BY <3>1, StagePlaces
    <3>2. CASE Stage(c) # "gas"
      <4>1. i \in 1..call[c].pos /\ i # call[c].pos
        BY <1>3, <2>1, <3>2 DEF GoesOn, Stage
      <4>. QED
        BY <1>3, <2>1, <4>1 DEF Costed
    <3>. QED
      BY <3>1, <3>2
  <2>. QED
    BY <1>1, <1>3, <2>2 DEF PricedAs, SamePrice, GoesOn, Running, Costed
<1>. QED
  BY <1>1, <1>2, <1>3 DEF PricedAs, SamePrice, Costed

\* A step of a call at a stage that neither sets the nonce for the first time nor
\* prices anything.
LEMMA ObjectPlain ==
    ASSUME NonceInv, ObjectInv, NEW c \in Calls, Running(c), UNCHANGED asked, TxKept,
           \A e \in Calls : Mined(e, "deposit")' <=> Mined(e, "deposit"),
           NEW d \in Deposits, SamePrice(d, Obj(c)),
           NonceTaken(c) \/ tx[c]["deposit"].status # "none" => d.nonce = Obj(c).nonce,
           NEW n, n.op = call[c].op, n.end # "idle", GoesOn(c, n),
           deposit' = [deposit EXCEPT ![ObjOf[c]] = d],
           call' = [call EXCEPT ![c] = n]
    PROVE  ObjectInv'
<1>1. ObjectMoves(c, d)
  BY DEF ObjectMoves, SamePrice
<1>2. n.end = "running" /\ NonceTaken(c) => n.given # None
  BY DEF GoesOn, ObjectInv, TakenIsGiven
<1>3. SelfPriced(asked[ObjOf[c]]) /\ ~FeeAsked(c) => PricedAs(c, d, n)
  BY PriceGoesOn DEF ObjectInv, PriceKept
<1>. QED
  BY <1>1, <1>2, <1>3, ObjectLocal

LEMMA TxUnchanged ==
    ASSUME UNCHANGED tx
    PROVE  TxKept /\ \A c \in Calls : Mined(c, "deposit")' <=> Mined(c, "deposit")
BY DEF TxKept, Mined

\* A call that ends without touching its object.
LEMMA ObjectRaise ==
    ASSUME NonceInv, ObjectInv, NEW c \in Calls, Running(c),
           NEW why \in Ends \ {"idle", "running"}, Raise(c, why),
           UNCHANGED <<asked, deposit>>, TxKept,
           \A e \in Calls : Mined(e, "deposit")' <=> Mined(e, "deposit")
    PROVE  ObjectInv'
<1>. DEFINE n == [call[c] EXCEPT !.end = why]
<1>1. Obj(c) \in Deposits /\ call[c] \in CallStates /\ ObjOf[c] \in Objects
  BY CallFacts DEF NonceInv
<1>2. n.op = call[c].op /\ n.end = why
  BY <1>1 DEF CallStates
<1>3. call' = [call EXCEPT ![c] = n]
  BY DEF Raise, NonceInv, TypeOK
<1>4. deposit' = [deposit EXCEPT ![ObjOf[c]] = Obj(c)]
  BY <1>1 DEF Obj, NonceInv, TypeOK
<1>. HIDE DEF n
<1>5. SamePrice(Obj(c), Obj(c)) /\ GoesOn(c, n)
  BY <1>2 DEF SamePrice, GoesOn
<1>. QED
  BY <1>1, <1>2, <1>3, <1>4, <1>5, ObjectPlain

\* A call that goes on to the next stage and leaves its object alone or changes
\* nothing of its price.
LEMMA ObjectAdvance ==
    ASSUME NonceInv, ObjectInv, NEW c \in Calls, Running(c), UNCHANGED <<asked, tx>>,
           NEW d \in Deposits, SamePrice(d, Obj(c)),
           NonceTaken(c) \/ tx[c]["deposit"].status # "none" => d.nonce = Obj(c).nonce,
           Stage(c) \notin {"dummy", "nonce", "fee", "quote", "cost"},
           SetObj(c, d), Advance(c, 1)
    PROVE  ObjectInv'
<1>. DEFINE n == After(c, 1)
<1>1. call[c] \in CallStates
  BY CallFacts DEF NonceInv
<1>2. n.op = call[c].op /\ n.end # "idle" /\ GoesOn(c, n)
  BY <1>1, AfterFacts DEF NonceInv, GoesOn, After, CallStates
<1>3. deposit' = [deposit EXCEPT ![ObjOf[c]] = d] /\ call' = [call EXCEPT ![c] = n]
  BY DEF SetObj, Advance
<1>4. TxKept /\ \A e \in Calls : Mined(e, "deposit")' <=> Mined(e, "deposit")
  BY TxUnchanged
<1>. HIDE DEF n
<1>. QED
  BY <1>2, <1>3, <1>4, ObjectPlain

-----------------------------------------------------------------------------
(***************************************************************************)
(* The actions, one by one.                                                *)
(***************************************************************************)

LEMMA ObjectDummyAmount ==
    ASSUME NonceInv, ObjectInv, NEW c \in Calls, DummyAmount(c)
    PROVE  ObjectInv'
<1>. DEFINE d == [Obj(c) EXCEPT !.amount = 1]
            n == After(c, 1)
<1>1. Obj(c) \in Deposits /\ Running(c) /\ Stage(c) = "dummy"
  BY CallFacts DEF DummyAmount, At, Running, Stage, NonceInv
<1>2. FeeAsked(c)
  BY <1>1, StagePlaces DEF FeeAsked, Running
<1>3. d \in Deposits /\ ObjectMoves(c, d)
  BY <1>1, <1>2 DEF Deposits, ObjectMoves
<1>4. n.op = call[c].op /\ n.end # "idle" /\ n.pos = call[c].pos + 1
  BY <1>1, AfterFacts DEF NonceInv
<1>5. ScriptOf(c)[n.pos] = "nonce"
  BY <1>1, <1>4, StagePlaces
<1>6. /\ deposit' = [deposit EXCEPT ![ObjOf[c]] = d]
      /\ call' = [call EXCEPT ![c] = n]
      /\ UNCHANGED <<asked, tx>>
  BY DEF DummyAmount, SetObj, Advance
<1>7. TxKept /\ \A e \in Calls : Mined(e, "deposit")' <=> Mined(e, "deposit")
  BY <1>6, TxUnchanged
<1>. HIDE DEF d, n
<1>. QED
  BY <1>1, <1>2, <1>3, <1>4, <1>5, <1>6, <1>7, ObjectLocal

LEMMA ObjectDefaultNonce ==
    ASSUME NonceInv, ObjectInv, NEW c \in Calls, DefaultNonce(c)
    PROVE  ObjectInv'
<1>. DEFINE d == [Obj(c) EXCEPT !.nonce = IF @ = None THEN count ELSE @]
            n == [After(c, 1) EXCEPT !.given = Obj(c).nonce]
<1>1. /\ Obj(c) \in Deposits /\ count \in Nat /\ None \notin Nat
      /\ Running(c) /\ Stage(c) = "nonce"
  BY CallFacts, FeesAssumption DEF DefaultNonce, At, Running, Stage, NonceInv, TypeOK
<1>2. /\ d \in Deposits /\ SamePrice(d, Obj(c))
      /\ Obj(c).nonce # None => d.nonce = Obj(c).nonce
  BY <1>1 DEF Deposits, Optional, SamePrice
<1>3. /\ n.op = call[c].op /\ n.end # "idle" /\ n.pos = call[c].pos + 1
      /\ n.given = Obj(c).nonce /\ n.mint = call[c].mint
  <2>1. /\ After(c, 1) \in CallStates /\ After(c, 1).op = call[c].op
        /\ After(c, 1).end # "idle" /\ After(c, 1).pos = call[c].pos + 1
    BY <1>1, AfterFacts DEF NonceInv
  <2>2. call[c] \in CallStates
    BY CallFacts DEF NonceInv
  <2>3. After(c, 1).mint = call[c].mint
    BY <2>2 DEF After, CallStates
  <2>. QED
    BY <2>1, <2>3 DEF CallStates
<1>4. NonceTaken(c) => Obj(c).nonce # None
  <2>1. ASSUME NEW e \in Calls, tx[e]["deposit"].status # "none", ObjOf[e] = ObjOf[c]
        PROVE  Obj(c).nonce # None
    <3>1. tx[e]["deposit"].nonce \in Nat
      BY DEF NonceInv, TypeOK, L1Txs, Kinds
    <3>2. Obj(e) = Obj(c) /\ tx[e]["deposit"].nonce = Obj(e).nonce
      BY <2>1 DEF Obj, ObjectInv, BuiltAsObject
    <3>. QED
      BY <1>1, <3>1, <3>2
  <2>2. asked[ObjOf[c]].nonce # None => Obj(c).nonce # None
    BY DEF ObjectInv, ObjectKept
  <2>. QED
    BY <2>1, <2>2 DEF NonceTaken
<1>5. tx[c]["deposit"].status = "none"
  BY <1>1 DEF NonceInv, BuiltIsSentNext
<1>6. ObjectMoves(c, d)
  BY <1>2, <1>4, <1>5 DEF ObjectMoves, SamePrice
<1>7. /\ deposit' = [deposit EXCEPT ![ObjOf[c]] = d]
      /\ call' = [call EXCEPT ![c] = n]
      /\ UNCHANGED <<asked, tx>>
  BY DEF DefaultNonce, SetObj, GivenNonce
<1>8. TxKept /\ \A e \in Calls : Mined(e, "deposit")' <=> Mined(e, "deposit")
  BY <1>7, TxUnchanged
<1>. HIDE DEF d, n
<1>9. ASSUME PricedAs(c, Obj(c), call[c]) PROVE PricedAs(c, d, n)
  <2>1. ScriptOf(c)[n.pos] = "fee" /\ call[c].pos \in Nat
    BY <1>1, <1>3, StagePlaces
  <2>2. Costed(c, n) => Costed(c, call[c])
    BY <1>1, <1>3, <2>1 DEF Costed, Stage
  <2>3. FullMint(d) = FullMint(Obj(c))
    BY <1>2 DEF SamePrice, FullMint
  <2>. QED
    BY <1>1, <1>2, <1>3, <1>9, <2>1, <2>2, <2>3 DEF PricedAs, SamePrice, Running
<1>10. SelfPriced(asked[ObjOf[c]]) /\ ~FeeAsked(c) => PricedAs(c, d, n)
  BY <1>9 DEF ObjectInv, PriceKept
<1>. QED
  BY <1>1, <1>2, <1>3, <1>4, <1>6, <1>7, <1>8, <1>10, ObjectLocal

\* What filling in the fees does to the price fields.
LEMMA FeesKeep ==
    ASSUME NEW d \in Deposits, NEW b \in BaseFees
    PROVE  LET e == InsertGasPrice(d, b)
           IN  /\ e.route = d.route /\ e.bridge = d.bridge /\ e.tip = d.tip
               /\ e.approveErc20 = d.approveErc20 /\ e.approveBase = d.approveBase
               /\ e.amount = d.amount /\ e.value = d.value /\ e.nonce = d.nonce
               /\ e.maxFee = None => d.maxFee = None /\ d.gasPrice # None
               /\ d.maxFee # None => e.maxFee = d.maxFee /\ e.prio = d.prio
               /\ d.maxFee = None /\ d.gasPrice = None =>
                     e.maxFee # None /\ e.prio # None /\ e.gasPrice = None
<1>. b \in Nat /\ Priority \in Nat /\ None \notin Nat
  BY FeesAssumption
<1>1. CASE d.gasPrice = None /\ d.maxFee = None
  <2>. DEFINE tip == IF d.prio = None THEN Priority ELSE d.prio
              cap == (3 * b) \div 2 + tip
  <2>1. tip \in Nat
    BY DEF Deposits, Optional
  <2>2. cap \in Nat
    BY <2>1
  <2>3. InsertGasPrice(d, b) = [d EXCEPT !.prio = tip, !.maxFee = cap]
    BY <1>1 DEF InsertGasPrice
  <2>. HIDE DEF tip, cap
  <2>. QED
    BY <1>1, <2>1, <2>2, <2>3 DEF Deposits
<1>2. CASE ~(d.gasPrice = None /\ d.maxFee = None)
  BY <1>2 DEF InsertGasPrice, Deposits
<1>. QED
  BY <1>1, <1>2

LEMMA ObjectDefaultFees ==
    ASSUME NonceInv, ObjectInv, NEW c \in Calls, DefaultFees(c)
    PROVE  ObjectInv'
<1>. DEFINE d == InsertGasPrice(Obj(c), baseFee)
            n == After(c, 1)
<1>1. Obj(c) \in Deposits /\ baseFee \in BaseFees /\ Running(c) /\ Stage(c) = "fee"
  BY CallFacts DEF DefaultFees, At, Running, Stage, NonceInv, TypeOK
<1>2. /\ d \in Deposits
      /\ d.route = Obj(c).route /\ d.bridge = Obj(c).bridge /\ d.tip = Obj(c).tip
      /\ d.approveErc20 = Obj(c).approveErc20 /\ d.approveBase = Obj(c).approveBase
      /\ d.amount = Obj(c).amount /\ d.value = Obj(c).value /\ d.nonce = Obj(c).nonce
      /\ d.maxFee = None => Obj(c).maxFee = None /\ Obj(c).gasPrice # None
      /\ Obj(c).maxFee # None => d.maxFee = Obj(c).maxFee /\ d.prio = Obj(c).prio
      /\ Obj(c).maxFee = None /\ Obj(c).gasPrice = None =>
            d.maxFee # None /\ d.prio # None /\ d.gasPrice = None
  BY <1>1, FeesAreNat, FeesKeep
<1>3. /\ n.op = call[c].op /\ n.end # "idle" /\ n.pos = call[c].pos + 1
      /\ n.given = call[c].given /\ n.mint = call[c].mint
  <2>1. call[c] \in CallStates
    BY CallFacts DEF NonceInv
  <2>. QED
    BY <1>1, <2>1, AfterFacts DEF NonceInv, After, CallStates
<1>4. /\ deposit' = [deposit EXCEPT ![ObjOf[c]] = d]
      /\ call' = [call EXCEPT ![c] = n]
      /\ UNCHANGED <<asked, tx>>
  BY DEF DefaultFees, SetObj, Advance
<1>5. TxKept /\ \A e \in Calls : Mined(e, "deposit")' <=> Mined(e, "deposit")
  BY <1>4, TxUnchanged
<1>. HIDE DEF d, n
<1>6. ObjectMoves(c, d)
  BY <1>2 DEF ObjectMoves
<1>7. ASSUME PricedAs(c, Obj(c), call[c]) PROVE PricedAs(c, d, n)
  <2>1. d.maxFee # None /\ d.prio # None
    BY <1>2, <1>7 DEF PricedAs
  <2>2. Obj(c).maxFee # None => FullMint(d) = FullMint(Obj(c))
    BY <1>2 DEF FullMint
  <2>3. Costed(c, n) => Costed(c, call[c])
    <3>1. call[c].pos \in Nat
      BY CallFacts DEF NonceInv
    <3>. QED
      BY <1>1, <1>3, <3>1 DEF Costed, Stage
  <2>. QED
    BY <1>1, <1>2, <1>3, <1>7, <2>1, <2>2, <2>3 DEF PricedAs, Running
<1>8. SelfPriced(asked[ObjOf[c]]) /\ ~FeeAsked(c) => PricedAs(c, d, n)
  BY <1>7 DEF ObjectInv, PriceKept
<1>9. NonceTaken(c) => n.given # None
  BY <1>1, <1>3 DEF ObjectInv, TakenIsGiven
<1>. QED
  BY <1>1, <1>2, <1>3, <1>4, <1>5, <1>6, <1>8, <1>9, ObjectLocal

LEMMA ObjectQuoteFee ==
    ASSUME NonceInv, ObjectInv, NEW c \in Calls, QuoteFee(c)
    PROVE  ObjectInv'
<1>1. /\ Obj(c) \in Deposits /\ call[c] \in CallStates
      /\ Running(c) /\ Stage(c) = "quote"
  BY CallFacts DEF QuoteFee, At, Running, Stage, NonceInv
<1>2. FeeAsked(c)
  BY <1>1, StagePlaces DEF FeeAsked, Running
<1>. DEFINE v == IF Obj(c).route \in EthRoutes THEN Obj(c).value
                 ELSE IF Obj(c).route = "nonBaseOnNonEth" THEN OrElse(Obj(c).value, 0)
                 ELSE Obj(c).amount
            kept == [Obj(c) EXCEPT !.value = v]
            stripped == [Obj(c) EXCEPT !.value = v, !.cut = TRUE, !.gasPrice = None,
                                       !.maxFee = None, !.prio = None]
<1>3. \/ deposit' = [deposit EXCEPT ![ObjOf[c]] = kept] /\ Raise(c, "attribute")
      \/ deposit' = [deposit EXCEPT ![ObjOf[c]] = stripped] /\ Advance(c, 1)
  BY DEF QuoteFee, SetObj
<1>. v \in Optional(Nat)
  BY <1>1 DEF OrElse, Deposits, Optional
<1>. HIDE DEF v
<1>4. PICK d \in Deposits :
         /\ deposit' = [deposit EXCEPT ![ObjOf[c]] = d]
         /\ ObjectMoves(c, d)
  <2>1. kept \in Deposits /\ ObjectMoves(c, kept)
    BY <1>1 DEF Deposits, ObjectMoves
  <2>2. stripped \in Deposits /\ ObjectMoves(c, stripped)
    BY <1>1 DEF Deposits, Optional, ObjectMoves
  <2>. HIDE DEF kept, stripped
  <2>. QED
    BY <1>3, <2>1, <2>2
<1>5. PICK n : /\ call' = [call EXCEPT ![c] = n]
               /\ n.op = call[c].op /\ n.end # "idle" /\ n.given = call[c].given
  <2>1. CASE Raise(c, "attribute")
    <3>. DEFINE n == [call[c] EXCEPT !.end = "attribute"]
    <3>1. n.op = call[c].op /\ n.end = "attribute" /\ n.given = call[c].given
      BY <1>1 DEF CallStates
    <3>2. call' = [call EXCEPT ![c] = n]
      BY <2>1 DEF Raise, NonceInv, TypeOK
    <3>. HIDE DEF n
    <3>. QED
      BY <3>1, <3>2
  <2>2. CASE Advance(c, 1)
    BY <1>1, <2>2, AfterFacts DEF NonceInv, Advance
  <2>. QED
    BY <1>3, <2>1, <2>2
<1>6. NonceTaken(c) => n.given # None
  BY <1>1, <1>5 DEF ObjectInv, TakenIsGiven
<1>7. UNCHANGED <<asked, tx>>
  BY DEF QuoteFee
<1>. QED
  BY <1>1, <1>2, <1>4, <1>5, <1>6, <1>7, TxUnchanged, ObjectLocal

\* The mint value and the wei of a builder, for an object whose fees are fixed.
LEMMA MintIsFull ==
    ASSUME NonceInv, NEW c \in Calls, PricedAs(c, Obj(c), call[c]), Obj(c).maxFee # None
    PROVE  /\ Cost(Obj(c)) = BaseCost(Obj(c).maxFee)
           /\ FullMint(Obj(c)) \in Nat
           /\ MintValue(Obj(c)) = FullMint(Obj(c))
           /\ Obj(c).route = "ethOnEth" => RequestValue(Obj(c)) = FullMint(Obj(c))
<1>1. Obj(c) \in Deposits /\ FairCost \in Nat /\ None \notin Nat
  BY CallFacts, FeesAssumption DEF NonceInv
<1>2. Obj(c).maxFee \in Nat /\ Obj(c).prio # None
  BY <1>1 DEF Deposits, Optional, PricedAs
<1>3. Cost(Obj(c)) = BaseCost(Obj(c).maxFee) /\ Cost(Obj(c)) \in Nat
  BY <1>1, <1>2 DEF Cost, EstimationPrice, BaseCost
<1>4. FullMint(Obj(c)) \in Nat
  BY <1>1, <1>3 DEF FullMint, Deposits
<1>5. MintValue(Obj(c)) = FullMint(Obj(c))
  BY <1>2, <1>3 DEF MintValue, FullMint, PricedAs, DirectRoutes
<1>. QED
  BY <1>3, <1>4, <1>5 DEF RequestValue

LEMMA ObjectPriceDeposit ==
    ASSUME NonceInv, ObjectInv, NEW c \in Calls, PriceDeposit(c)
    PROVE  ObjectInv'
<1>. DEFINE d == [Obj(c) EXCEPT !.value = RequestValue(Obj(c))]
            n == [After(c, 1) EXCEPT !.mint = MintValue(Obj(c))]
<1>1. /\ Obj(c) \in Deposits
      /\ RequestValue(Obj(c)) \in Nat
      /\ None \notin Nat
      /\ Running(c) /\ Stage(c) = "cost"
  BY CallFacts, PricesAreNat, FeesAssumption
     DEF PriceDeposit, At, Running, Stage, NonceInv
<1>2. /\ d \in Deposits
      /\ d.route = Obj(c).route /\ d.bridge = Obj(c).bridge /\ d.tip = Obj(c).tip
      /\ d.approveErc20 = Obj(c).approveErc20 /\ d.approveBase = Obj(c).approveBase
      /\ d.amount = Obj(c).amount /\ d.nonce = Obj(c).nonce
      /\ d.gasPrice = Obj(c).gasPrice /\ d.maxFee = Obj(c).maxFee /\ d.prio = Obj(c).prio
      /\ d.value = RequestValue(Obj(c))
  BY <1>1 DEF Deposits, Optional
<1>3. /\ n.op = call[c].op /\ n.end # "idle" /\ n.given = call[c].given
      /\ n.mint = MintValue(Obj(c))
  BY <1>1, AfterFacts DEF NonceInv, CallStates
<1>4. /\ deposit' = [deposit EXCEPT ![ObjOf[c]] = d]
      /\ call' = [call EXCEPT ![c] = n]
      /\ UNCHANGED <<asked, tx>>
  BY DEF PriceDeposit, SetObj
<1>5. TxKept /\ \A e \in Calls : Mined(e, "deposit")' <=> Mined(e, "deposit")
  BY <1>4, TxUnchanged
<1>. HIDE DEF d, n
<1>6. ObjectMoves(c, d)
  BY <1>2 DEF ObjectMoves
<1>7. ASSUME PricedAs(c, Obj(c), call[c]) PROVE PricedAs(c, d, n)
  <2>1. Obj(c).maxFee # None
    BY <1>1, <1>7 DEF PricedAs, Running, Stage
  <2>2. /\ FullMint(Obj(c)) \in Nat
        /\ MintValue(Obj(c)) = FullMint(Obj(c))
        /\ Obj(c).route = "ethOnEth" => RequestValue(Obj(c)) = FullMint(Obj(c))
    BY <1>7, <2>1, MintIsFull
  <2>3. FullMint(d) = FullMint(Obj(c))
    BY <1>2 DEF FullMint
  <2>. QED
    BY <1>1, <1>2, <1>3, <1>7, <2>1, <2>2, <2>3 DEF PricedAs
<1>8. SelfPriced(asked[ObjOf[c]]) /\ ~FeeAsked(c) => PricedAs(c, d, n)
  BY <1>7 DEF ObjectInv, PriceKept
<1>9. NonceTaken(c) => n.given # None
  BY <1>1, <1>3 DEF ObjectInv, TakenIsGiven
<1>. QED
  BY <1>1, <1>2, <1>3, <1>4, <1>5, <1>6, <1>8, <1>9, ObjectLocal

LEMMA ObjectPopulateRequest ==
    ASSUME NonceInv, ObjectInv, NEW c \in Calls, PopulateRequest(c)
    PROVE  ObjectInv'
<1>1. /\ Obj(c) \in Deposits /\ call[c] \in CallStates /\ Cost(Obj(c)) \in Nat
      /\ Running(c) /\ Stage(c) = "request" /\ None \notin Nat
  BY CallFacts, PricesAreNat, FeesAssumption
     DEF PopulateRequest, At, Running, Stage, NonceInv
<1>. DEFINE provided == IF Obj(c).route \in EthRoutes THEN Obj(c).value ELSE call[c].mint
            mint == OrElse(provided, Cost(Obj(c)) + Obj(c).tip + Obj(c).amount)
            d == IF Obj(c).route \in EthRoutes
                 THEN [Obj(c) EXCEPT !.value = mint] ELSE Obj(c)
            n == IF Cost(Obj(c)) > mint
                 THEN [call[c] EXCEPT !.mint = mint, !.end = "baseCost"]
                 ELSE [After(c, 1) EXCEPT !.mint = mint]
<1>2. mint \in Nat
  BY <1>1 DEF OrElse, Deposits, CallStates, Optional
<1>3. /\ deposit' = [deposit EXCEPT ![ObjOf[c]] = d]
      /\ call' = [call EXCEPT ![c] = n]
      /\ UNCHANGED <<asked, tx>>
  BY DEF PopulateRequest, SetObj
<1>4. ASSUME PricedAs(c, Obj(c), call[c])
      PROVE  mint = FullMint(Obj(c)) /\ Obj(c).maxFee # None
  <2>1. Obj(c).route \in DirectRoutes /\ Costed(c, call[c])
    BY <1>1, StagePlaces
  <2>2. /\ Obj(c).maxFee # None /\ call[c].mint = FullMint(Obj(c))
        /\ Obj(c).route = "ethOnEth" => Obj(c).value = FullMint(Obj(c))
    BY <1>1, <1>4, <2>1 DEF PricedAs, Running
  <2>3. provided = FullMint(Obj(c))
    BY <2>1, <2>2 DEF EthRoutes, DirectRoutes
  <2>4. FullMint(Obj(c)) = Cost(Obj(c)) + Obj(c).tip + Obj(c).amount
    BY <1>4, <2>1, <2>2, MintIsFull DEF FullMint
  <2>. HIDE DEF provided
  <2>. QED
    BY <2>2, <2>3, <2>4 DEF OrElse
<1>. HIDE DEF mint
<1>5. /\ d \in Deposits
      /\ d.route = Obj(c).route /\ d.bridge = Obj(c).bridge /\ d.tip = Obj(c).tip
      /\ d.approveErc20 = Obj(c).approveErc20 /\ d.approveBase = Obj(c).approveBase
      /\ d.amount = Obj(c).amount /\ d.nonce = Obj(c).nonce
      /\ d.gasPrice = Obj(c).gasPrice /\ d.maxFee = Obj(c).maxFee /\ d.prio = Obj(c).prio
      /\ d.value = IF Obj(c).route \in EthRoutes THEN mint ELSE Obj(c).value
  BY <1>1, <1>2 DEF Deposits, Optional
<1>6. n.op = call[c].op /\ n.end # "idle" /\ n.given = call[c].given /\ n.mint = mint
  <2>1. CASE Cost(Obj(c)) > mint
    <3>1. n = [call[c] EXCEPT !.mint = mint, !.end = "baseCost"]
      BY <2>1
    <3>. QED
      BY <1>1, <3>1 DEF CallStates
  <2>2. CASE ~(Cost(Obj(c)) > mint)
    <3>1. n = [After(c, 1) EXCEPT !.mint = mint]
      BY <2>2
    <3>. QED
      BY <1>1, <3>1, AfterFacts DEF NonceInv, CallStates
  <2>. QED
    BY <2>1, <2>2
<1>. HIDE DEF d, n
<1>7. ObjectMoves(c, d)
  BY <1>5 DEF ObjectMoves
<1>8. ASSUME PricedAs(c, Obj(c), call[c]) PROVE PricedAs(c, d, n)
  <2>1. mint = FullMint(Obj(c)) /\ Obj(c).maxFee # None
    BY <1>4, <1>8
  <2>2. FullMint(d) = FullMint(Obj(c))
    BY <1>5 DEF FullMint
  <2>3. d.route = "ethOnEth" => d.value = FullMint(d) /\ d.value # None
    BY <1>1, <1>2, <1>5, <2>1, <2>2 DEF EthRoutes
  <2>. QED
    BY <1>5, <1>6, <1>8, <2>1, <2>2, <2>3 DEF PricedAs
<1>9. SelfPriced(asked[ObjOf[c]]) /\ ~FeeAsked(c) => PricedAs(c, d, n)
  BY <1>8 DEF ObjectInv, PriceKept
<1>10. NonceTaken(c) => n.given # None
  BY <1>1, <1>6 DEF ObjectInv, TakenIsGiven
<1>. QED
  BY <1>1, <1>3, <1>5, <1>6, <1>7, <1>9, <1>10, TxUnchanged, ObjectLocal

\* The object of a call that a step leaves alone.
LEMMA SameObject ==
    ASSUME TypeOK, NEW c \in Calls
    PROVE  deposit = [deposit EXCEPT ![ObjOf[c]] = Obj(c)]
BY CallFacts DEF Obj, TypeOK

LEMMA ObjectSkipEstimate ==
    ASSUME NonceInv, ObjectInv, NEW c \in Calls, SkipEstimate(c)
    PROVE  ObjectInv'
<1>. DEFINE m == IF Obj(c).gas THEN 4 ELSE 1
            n == After(c, m)
<1>1. /\ Obj(c) \in Deposits /\ call[c] \in CallStates /\ m \in {1, 4}
      /\ Running(c) /\ Stage(c) = "gas"
  BY CallFacts DEF SkipEstimate, At, Running, Stage, NonceInv
<1>. HIDE DEF m
<1>2. /\ n.op = call[c].op /\ n.end # "idle" /\ n.given = call[c].given
      /\ n.pos = call[c].pos + m
  BY <1>1, AfterFacts DEF NonceInv
<1>3. n.mint = call[c].mint
  BY <1>1 DEF After, CallStates
<1>4. call[c].pos \in Nat
  BY <1>1 DEF CallStates
<1>5. GoesOn(c, n)
  BY <1>1, <1>2, <1>3, <1>4 DEF GoesOn
<1>6. /\ deposit' = [deposit EXCEPT ![ObjOf[c]] = Obj(c)]
      /\ call' = [call EXCEPT ![c] = n]
      /\ UNCHANGED <<asked, tx>>
  BY SameObject DEF SkipEstimate, Advance, NonceInv, m
<1>. HIDE DEF n
<1>7. SamePrice(Obj(c), Obj(c))
  BY DEF SamePrice
<1>. QED
  BY <1>1, <1>2, <1>5, <1>6, <1>7, TxUnchanged, ObjectPlain

LEMMA ObjectSimulate ==
    ASSUME NonceInv, ObjectInv, NEW c \in Calls, Simulate(c)
    PROVE  ObjectInv'
<1>1. /\ Obj(c) \in Deposits /\ Running(c) /\ Stage(c) = "simulate"
      /\ UNCHANGED <<asked, tx>>
  BY CallFacts DEF Simulate, At, Running, Stage, NonceInv
<1>2. CASE Simulates(c, Draft(c))
  <2>. DEFINE d == [Obj(c) EXCEPT !.gas = @ \/ call[c].op = "deposit"]
  <2>1. d \in Deposits /\ SamePrice(d, Obj(c)) /\ d.nonce = Obj(c).nonce
    BY <1>1 DEF Deposits, SamePrice
  <2>2. SetObj(c, d) /\ Advance(c, 1)
    BY <1>2 DEF Simulate
  <2>. HIDE DEF d
  <2>. QED
    BY <1>1, <2>1, <2>2, ObjectAdvance
<1>3. CASE ~Simulates(c, Draft(c))
  BY <1>1, <1>3, TxUnchanged, ObjectRaise DEF Simulate, Ends
<1>. QED
  BY <1>2, <1>3

LEMMA ObjectRpcFails ==
    ASSUME NonceInv, ObjectInv, NEW c \in Calls, RpcFails(c)
    PROVE  ObjectInv'
BY TxUnchanged, ObjectRaise DEF RpcFails, Running, Ends

\* A running call changes the place in an approval only.
LEMMA ObjectSub ==
    ASSUME NonceInv, ObjectInv, NEW c \in Calls, Running(c), Stage(c) \in Approvals,
           UNCHANGED <<asked, deposit>>, TxKept,
           \A e \in Calls : Mined(e, "deposit")' <=> Mined(e, "deposit"),
           NEW s, call' = [call EXCEPT ![c].sub = s]
    PROVE  ObjectInv'
<1>. DEFINE n == [call[c] EXCEPT !.sub = s]
<1>1. call[c] \in CallStates /\ Obj(c) \in Deposits
  BY CallFacts DEF NonceInv
<1>2. /\ n.op = call[c].op /\ n.end = call[c].end /\ n.pos = call[c].pos
      /\ n.mint = call[c].mint /\ n.given = call[c].given
  BY <1>1 DEF CallStates
<1>3. call' = [call EXCEPT ![c] = n]
  BY DEF NonceInv, TypeOK
<1>. HIDE DEF n
<1>4. GoesOn(c, n) /\ n.end # "idle" /\ SamePrice(Obj(c), Obj(c))
  BY <1>2 DEF GoesOn, SamePrice, Approvals, Running
<1>5. deposit' = [deposit EXCEPT ![ObjOf[c]] = Obj(c)]
  BY SameObject DEF NonceInv
<1>. QED
  BY <1>1, <1>2, <1>3, <1>4, <1>5, ObjectPlain

LEMMA ObjectCheckAllowance ==
    ASSUME NonceInv, ObjectInv, NEW c \in Calls, NEW k \in Approvals, CheckAllowance(c, k)
    PROVE  ObjectInv'
<1>1. /\ Obj(c) \in Deposits /\ Running(c) /\ Stage(c) = k
      /\ UNCHANGED <<asked, deposit, tx>>
  BY CallFacts DEF CheckAllowance, At, Running, Stage, NonceInv
<1>2. CASE NeedsApproval(c, k)
  BY <1>1, <1>2, TxUnchanged, ObjectSub DEF CheckAllowance
<1>3. CASE ~NeedsApproval(c, k)
  <2>1. SetObj(c, Obj(c)) /\ Advance(c, 1)
    BY <1>1, <1>3, SameObject DEF CheckAllowance, SetObj, NonceInv
  <2>. QED
    BY <1>1, <2>1, ObjectAdvance DEF SamePrice, Approvals
<1>. QED
  BY <1>2, <1>3

LEMMA ObjectBuildApproval ==
    ASSUME NonceInv, ObjectInv, NEW c \in Calls, NEW k \in Approvals, BuildApproval(c, k)
    PROVE  ObjectInv'
<1>1. /\ Running(c) /\ Stage(c) = k
      /\ UNCHANGED <<asked, deposit>>
      /\ call' = [call EXCEPT ![c].sub = "send"]
  BY DEF BuildApproval, At, Running, Stage
<1>2. \A e \in Calls : tx'[e]["deposit"] = tx[e]["deposit"]
  BY DEF BuildApproval, NonceInv, TypeOK, Approvals, Kinds
<1>3. TxKept /\ \A e \in Calls : Mined(e, "deposit")' <=> Mined(e, "deposit")
  BY <1>2 DEF TxKept, Mined
<1>. QED
  BY <1>1, <1>3, ObjectSub

LEMMA ObjectApprovalReceipt ==
    ASSUME NonceInv, ObjectInv, NEW c \in Calls, NEW k \in Approvals, ApprovalReceipt(c, k)
    PROVE  ObjectInv'
<1>. DEFINE d == [Obj(c) EXCEPT !.nonce = NonceAfterApproval(c)]
<1>1. /\ Obj(c) \in Deposits /\ count \in Nat
      /\ Running(c) /\ Stage(c) = k /\ k \notin {"dummy", "nonce", "send"}
      /\ UNCHANGED <<asked, tx>>
  BY CallFacts
     DEF NonceInv, TypeOK, ApprovalReceipt, At, Running, Stage, Approvals
<1>2. tx[c]["deposit"].status = "none"
  BY <1>1 DEF NonceInv, BuiltIsSentNext
<1>3. d \in Deposits /\ SamePrice(d, Obj(c)) /\ d.nonce = NonceAfterApproval(c)
  BY <1>1 DEF Deposits, Optional, SamePrice, NonceAfterApproval
<1>4. NonceTaken(c) => d.nonce = Obj(c).nonce
  BY <1>1, <1>3 DEF ObjectInv, TakenIsGiven, NonceAfterApproval
<1>5. SetObj(c, d) /\ Advance(c, 1)
  BY DEF ApprovalReceipt
<1>. HIDE DEF d
<1>. QED
  BY <1>1, <1>2, <1>3, <1>4, <1>5, ObjectAdvance DEF Approvals

LEMMA ObjectApprovalTimeout ==
    ASSUME NonceInv, ObjectInv, NEW c \in Calls, NEW k \in Approvals, ApprovalTimeout(c, k)
    PROVE  ObjectInv'
BY TxUnchanged, ObjectRaise DEF ApprovalTimeout, At, Running, Ends

LEMMA ObjectSendRejected ==
    ASSUME NonceInv, ObjectInv, NEW c \in Calls, NEW k \in Kinds, SendRejected(c, k)
    PROVE  ObjectInv'
<1>1. /\ tx[c][k].status = "built" /\ tx' = [tx EXCEPT ![c][k].status = "rejected"]
      /\ Running(c) /\ UNCHANGED <<asked, deposit>>
  BY DEF SendRejected, Sending, At, Running
<1>2. \A e \in Calls, j \in Kinds :
         tx'[e][j] = IF e = c /\ j = k THEN [tx[c][k] EXCEPT !.status = "rejected"]
                     ELSE tx[e][j]
  BY <1>1 DEF NonceInv, TypeOK
<1>3. TxKept /\ \A e \in Calls : Mined(e, "deposit")' <=> Mined(e, "deposit")
  <2>1. tx[c][k] \in L1Txs /\ "deposit" \in Kinds
    BY DEF NonceInv, TypeOK, Kinds
  <2>. QED
    BY <1>1, <1>2, <2>1 DEF TxKept, Mined, L1Txs
<1>. QED
  BY <1>1, <1>3, ObjectRaise DEF SendRejected, Ends

LEMMA ObjectSendAccepted ==
    ASSUME NonceInv, ObjectInv, NEW c \in Calls, NEW k \in Kinds, SendAccepted(c, k)
    PROVE  ObjectInv'
<1>1. /\ tx[c][k].status = "built" /\ Running(c) /\ UNCHANGED <<asked, deposit>>
      /\ Obj(c) \in Deposits
  BY CallFacts DEF SendAccepted, Sending, At, Running, NonceInv
<1>. DEFINE rivals == Rivals(tx[c][k].nonce)
            new(d, j) == IF d = c /\ j = k THEN [tx[c][k] EXCEPT !.status = "pending"]
                         ELSE IF <<d, j>> \in rivals
                              THEN [tx[d][j] EXCEPT !.status = "dropped"]
                              ELSE tx[d][j]
<1>2. TxKept /\ \A e \in Calls : Mined(e, "deposit")' <=> Mined(e, "deposit")
  <2>1. tx' = [d \in Calls |-> [j \in Kinds |-> new(d, j)]]
    BY DEF SendAccepted
  <2>2. \A d \in Calls, j \in Kinds : <<d, j>> \in rivals => tx[d][j].status = "pending"
    BY DEF Rivals
  <2>3. ASSUME NEW e \in Calls
        PROVE  /\ new(e, "deposit").nonce = tx[e]["deposit"].nonce
               /\ new(e, "deposit").amount = tx[e]["deposit"].amount
               /\ new(e, "deposit").mint = tx[e]["deposit"].mint
               /\ new(e, "deposit").cap = tx[e]["deposit"].cap
               /\ new(e, "deposit").status = "none" <=> tx[e]["deposit"].status = "none"
               /\ new(e, "deposit").status \in {"ok", "reverted"} <=> Mined(e, "deposit")
    <3>1. "deposit" \in Kinds /\ tx[e]["deposit"] \in L1Txs
      BY DEF NonceInv, TypeOK, Kinds
    <3>. QED
      BY <1>1, <2>2, <3>1 DEF L1Txs, Mined
  <2>4. \A e \in Calls : tx'[e]["deposit"] = new(e, "deposit")
    BY <2>1 DEF Kinds
  <2>. HIDE DEF new, rivals
  <2>. QED
    BY <2>3, <2>4 DEF TxKept, Mined
<1>3. CASE Raise(c, "rpcError")
  BY <1>1, <1>2, <1>3, ObjectRaise DEF Ends
<1>4. CASE k # "deposit" /\ call' = [call EXCEPT ![c].sub = "wait"]
  BY <1>1, <1>2, <1>4, ObjectSub DEF SendAccepted, Sending, At, Stage, Running
<1>5. CASE k = "deposit" /\ Advance(c, 1)
  <2>. DEFINE n == After(c, 1)
  <2>1. Stage(c) = "send" /\ call[c] \in CallStates
    BY <1>5, CallFacts DEF SendAccepted, Sending, At, Stage, Approvals, NonceInv
  <2>2. n.op = call[c].op /\ n.end # "idle" /\ GoesOn(c, n)
    BY <1>1, <2>1, AfterFacts DEF NonceInv, GoesOn, After, CallStates
  <2>3. call' = [call EXCEPT ![c] = n]
    BY <1>5 DEF Advance
  <2>4. deposit' = [deposit EXCEPT ![ObjOf[c]] = Obj(c)]
    BY <1>1, SameObject DEF NonceInv
  <2>5. SamePrice(Obj(c), Obj(c))
    BY DEF SamePrice
  <2>. HIDE DEF n
  <2>. QED
    BY <1>1, <1>2, <2>2, <2>3, <2>4, <2>5, ObjectPlain
<1>. QED
  BY <1>3, <1>4, <1>5 DEF SendAccepted

LEMMA ObjectBuildDeposit ==
    ASSUME NonceInv, ObjectInv, NEW c \in Calls, BuildDeposit(c)
    PROVE  ObjectInv'
<1>1. /\ Obj(c) \in Deposits /\ call[c] \in CallStates /\ baseFee \in BaseFees
      /\ Running(c) /\ Stage(c) = "build"
      /\ UNCHANGED <<asked, deposit>>
  BY CallFacts DEF NonceInv, TypeOK, BuildDeposit, At, Running, Stage
<1>2. CASE ~(Obj(c).gas \/ Simulates(c, Draft(c)))
  BY <1>1, <1>2, TxUnchanged, ObjectRaise DEF BuildDeposit, Ends
<1>3. CASE Obj(c).gas \/ Simulates(c, Draft(c))
  <2>. DEFINE t == Draft(c)
              n == After(c, 1)
  <2>1. /\ t.status = "built" /\ t.nonce = Obj(c).nonce /\ t.amount = Obj(c).amount
        /\ t.mint = call[c].mint
        /\ t.cap = SentFees(Obj(c), baseFee).cap
    BY DEF Draft
  <2>2. /\ n.op = call[c].op /\ n.end # "idle" /\ n.given = call[c].given
        /\ GoesOn(c, n)
    BY <1>1, AfterFacts DEF NonceInv, GoesOn, After, CallStates
  <2>3. /\ tx' = [tx EXCEPT ![c]["deposit"] = t]
        /\ call' = [call EXCEPT ![c] = n]
    BY <1>3 DEF BuildDeposit, Advance
  <2>. HIDE DEF t, n
  <2>4. /\ \A e \in Calls : Obj(e)' = Obj(e) /\ (ObjOf[e] = ObjOf[c] => Obj(e) = Obj(c))
        /\ \A e \in Calls : call'[e] = IF e = c THEN n ELSE call[e]
        /\ \A e \in Calls : ScriptOf(e)' = ScriptOf(e)
        /\ \A e \in Calls : FeeAsked(e)' <=> FeeAsked(e)
    <3>1. deposit' = [deposit EXCEPT ![ObjOf[c]] = Obj(c)]
      BY <1>1, SameObject DEF NonceInv
    <3>2. n.end = "idle" <=> call[c].end = "idle"
      BY <1>1, <2>2 DEF Running
    <3>3. /\ \A e \in Calls : Obj(e)' = IF ObjOf[e] = ObjOf[c] THEN Obj(c) ELSE Obj(e)
          /\ \A e \in Calls : ObjOf[e] = ObjOf[c] => Obj(e) = Obj(c)
          /\ \A e \in Calls : call'[e] = IF e = c THEN n ELSE call[e]
          /\ \A e \in Calls : ScriptOf(e)' = ScriptOf(e)
          /\ \A e \in Calls : FeeAsked(e)' <=> FeeAsked(e)
      BY <1>1, <2>2, <2>3, <3>1, <3>2, AfterLocal DEF NonceInv
    <3>. QED
      BY <3>3
  <2>5. \A e \in Calls : tx'[e]["deposit"] = IF e = c THEN t ELSE tx[e]["deposit"]
    BY <2>3 DEF NonceInv, TypeOK, Kinds
  <2>6. \A e \in Calls \ {c} : Running(e) => ObjOf[e] # ObjOf[c]
    BY <1>1 DEF NonceInv, OwnObject
  <2>7. ObjectKept'
    BY <1>1, <2>4 DEF ObjectInv, ObjectKept
  <2>8. TakenIsGiven'
    <3>. SUFFICES ASSUME NEW e \in Calls, Running(e)',
                         Stage(e)' \notin {"dummy", "nonce"}, NonceTaken(e)'
                  PROVE  call'[e].given # None
      BY DEF TakenIsGiven
    <3>1. CASE e = c
      <4>1. NonceTaken(c)
        BY <1>1, <2>5, <3>1 DEF NonceTaken
      <4>. QED
        BY <1>1, <2>2, <2>4, <3>1, <4>1 DEF ObjectInv, TakenIsGiven
    <3>2. CASE e # c
      <4>1. Running(e) /\ Stage(e)' = Stage(e) /\ call'[e] = call[e]
        BY <2>4, <3>2 DEF Running, Stage
      <4>2. NonceTaken(e)
        BY <1>1, <2>5, <2>6, <3>2, <4>1 DEF NonceTaken
      <4>. QED
        BY <4>1, <4>2 DEF ObjectInv, TakenIsGiven
    <3>. QED
      BY <3>1, <3>2
  <2>9. BuiltAsObject'
    <3>. SUFFICES ASSUME NEW e \in Calls, tx'[e]["deposit"].status # "none"
                  PROVE  /\ tx'[e]["deposit"].nonce = Obj(e).nonce
                         /\ \/ tx'[e]["deposit"].amount = asked[ObjOf[e]].amount
                            \/ FeeAsked(e) /\ tx'[e]["deposit"].amount = 1
      BY <1>1, <2>4 DEF BuiltAsObject
    <3>1. CASE e = c
      BY <2>1, <2>5, <3>1 DEF ObjectInv, ObjectKept
    <3>2. CASE e # c
      BY <2>5, <3>2 DEF ObjectInv, BuiltAsObject
    <3>. QED
      BY <3>1, <3>2
  <2>10. AtMostOneDepositPerObject'
    BY <2>1, <2>5 DEF ObjectInv, AtMostOneDepositPerObject, Mined
  <2>11. PriceKept'
    <3>. SUFFICES ASSUME NEW e \in Calls, SelfPriced(asked[ObjOf[e]]), ~FeeAsked(e)
                  PROVE  /\ PricedAs(e, Obj(e), call[e])'
                         /\ tx'[e]["deposit"].status # "none" =>
                               tx'[e]["deposit"].mint >=
                                  BaseCost(tx'[e]["deposit"].cap)
                                  + L2Value(Obj(e).route, tx'[e]["deposit"])
      BY <1>1, <2>4 DEF PriceKept
    <3>1. PricedAs(e, Obj(e), call[e])
      BY DEF ObjectInv, PriceKept
    <3>2. CASE e = c
      <4>1. PricedAs(c, Obj(c), n)
        BY <1>1, <2>2, <3>1, <3>2, PriceGoesOn DEF SamePrice
      <4>2. PricedAs(e, Obj(e), call[e])'
        BY <2>4, <3>2, <4>1 DEF PricedAs, Costed
      <4>3. Costed(c, call[c])
        BY <1>1, StagePlaces
      <4>4. Obj(c).maxFee # None /\ t.mint = FullMint(Obj(c))
        BY <1>1, <2>1, <3>1, <3>2, <4>3 DEF PricedAs, Running
      <4>5. t.cap = Obj(c).maxFee
        BY <2>1, <4>4 DEF SentFees
      <4>6. BaseCost(Obj(c).maxFee) \in Nat
        <5>1. Obj(c).maxFee \in Nat /\ FairCost \in Nat
          BY <1>1, <4>4, FeesAssumption DEF Deposits, Optional
        <5>. QED
          BY <5>1 DEF BaseCost
      <4>7. t.mint >= BaseCost(t.cap) + L2Value(Obj(c).route, t)
        <5>1. Obj(c).tip \in Nat /\ Obj(c).amount \in Nat
          BY <1>1 DEF Deposits
        <5>. QED
          BY <2>1, <4>4, <4>5, <4>6, <5>1 DEF FullMint, L2Value
      <4>. QED
        BY <2>5, <3>2, <4>2, <4>7
    <3>3. CASE e # c
      <4>1. PricedAs(e, Obj(e), call[e])'
        BY <2>4, <3>1, <3>3 DEF PricedAs, Costed
      <4>. QED
        BY <2>5, <3>3, <4>1 DEF ObjectInv, PriceKept
    <3>. QED
      BY <3>2, <3>3
  <2>. QED
    BY <2>7, <2>8, <2>9, <2>10, <2>11 DEF ObjectInv
<1>. QED
  BY <1>2, <1>3

LEMMA ObjectBegin ==
    ASSUME NonceInv, ObjectInv, NEW c \in Calls, Begin(c)
    PROVE  ObjectInv'
<1>1. PICK o \in Ops : call' = [call EXCEPT ![c].op = o, ![c].end = "running"]
  BY DEF Begin
<1>. DEFINE n == [call[c] EXCEPT !.op = o, !.end = "running"]
<1>2. /\ call[c] \in CallStates /\ call[c].end = "idle" /\ o \in Methods
      /\ Obj(c).route \in Routes
      /\ UNCHANGED <<asked, deposit, tx>>
  BY CallFacts, DepositAssumption DEF Begin, NonceInv
<1>3. n.op = o /\ n.end = "running" /\ n.pos = 1
  BY <1>2 DEF CallStates, NonceInv, FreshCalls
<1>4. call' = [call EXCEPT ![c] = n]
  BY <1>1 DEF NonceInv, TypeOK
<1>. HIDE DEF n
<1>5. /\ \A e \in Calls : call'[e] = IF e = c THEN n ELSE call[e]
      /\ \A e \in Calls : Obj(e)' = Obj(e)
      /\ \A e \in Calls \ {c} : ScriptOf(e)' = ScriptOf(e)
      /\ ScriptOf(c)' = Script(o, Obj(c).route)
  BY <1>2, <1>3, <1>4 DEF NonceInv, TypeOK, Obj, ScriptOf
<1>6. \A e \in Calls : FeeAsked(e) => FeeAsked(e)'
  BY <1>2, <1>5 DEF FeeAsked
<1>7. ObjectKept' /\ BuiltAsObject'
  BY <1>2, <1>5, <1>6 DEF ObjectInv, ObjectKept, BuiltAsObject
<1>8. Stage(c)' \in {"dummy", "nonce"}
  BY <1>2, <1>3, <1>5, ScriptOrder DEF Stage
<1>9. TakenIsGiven'
  <2>. SUFFICES ASSUME NEW e \in Calls, Running(e)',
                       Stage(e)' \notin {"dummy", "nonce"}, NonceTaken(e)'
                PROVE  call'[e].given # None
    BY DEF TakenIsGiven
  <2>1. e # c /\ NonceTaken(e)
    BY <1>2, <1>8 DEF NonceTaken
  <2>. QED
    BY <1>5, <2>1 DEF ObjectInv, TakenIsGiven, Running, Stage
<1>10. AtMostOneDepositPerObject'
  BY <1>2 DEF ObjectInv, AtMostOneDepositPerObject, Mined
<1>11. PriceKept'
  <2>. SUFFICES ASSUME NEW e \in Calls, SelfPriced(asked[ObjOf[e]]), ~FeeAsked(e)
                PROVE  /\ PricedAs(e, Obj(e), call[e])'
                       /\ tx[e]["deposit"].status # "none" =>
                             tx[e]["deposit"].mint >=
                                BaseCost(tx[e]["deposit"].cap)
                                + L2Value(Obj(e).route, tx[e]["deposit"])
    BY <1>2, <1>5, <1>6 DEF PriceKept
  <2>1. PricedAs(e, Obj(e), call[e])
    BY DEF ObjectInv, PriceKept
  <2>2. CASE e = c
    <3>1. ScriptOf(c)'[1] \in {"dummy", "nonce"}
      BY <1>3, <1>5, <1>8 DEF Stage
    <3>2. PricedAs(c, Obj(c), call[c])'
      BY <1>3, <1>5, <2>1, <2>2, <3>1 DEF PricedAs, Costed
    <3>. QED
      BY <2>2, <3>2 DEF ObjectInv, PriceKept
  <2>3. CASE e # c
    <3>1. PricedAs(e, Obj(e), call[e])'
      BY <1>5, <2>1, <2>3 DEF PricedAs, Costed
    <3>. QED
      BY <3>1 DEF ObjectInv, PriceKept
  <2>. QED
    BY <2>2, <2>3
<1>. QED
  BY <1>7, <1>9, <1>10, <1>11 DEF ObjectInv

\* A step of the chain, or none.
LEMMA ObjectStill ==
    ASSUME ObjectInv, UNCHANGED <<asked, deposit, call>>, TxKept
    PROVE  ObjectKept' /\ TakenIsGiven' /\ BuiltAsObject' /\ PriceKept'
<1>1. \A e \in Calls :
         /\ Obj(e)' = Obj(e) /\ ScriptOf(e)' = ScriptOf(e)
         /\ Running(e)' <=> Running(e)
         /\ Stage(e)' = Stage(e)
         /\ FeeAsked(e)' <=> FeeAsked(e)
         /\ NonceTaken(e)' <=> NonceTaken(e)
  BY DEF Obj, ScriptOf, Running, Stage, FeeAsked, NonceTaken, TxKept
<1>2. ObjectKept' /\ TakenIsGiven'
  BY <1>1 DEF ObjectInv, ObjectKept, TakenIsGiven
<1>3. BuiltAsObject'
  BY <1>1 DEF ObjectInv, BuiltAsObject, TxKept
<1>4. PriceKept'
  <2>. SUFFICES ASSUME NEW e \in Calls, SelfPriced(asked[ObjOf[e]]), ~FeeAsked(e)
                PROVE  /\ PricedAs(e, Obj(e), call[e])'
                       /\ tx'[e]["deposit"].status # "none" =>
                             tx'[e]["deposit"].mint >=
                                BaseCost(tx'[e]["deposit"].cap)
                                + L2Value(Obj(e).route, tx'[e]["deposit"])
    BY <1>1 DEF PriceKept
  <2>1. PricedAs(e, Obj(e), call[e])'
    BY <1>1 DEF ObjectInv, PriceKept, PricedAs, Costed
  <2>2. L2Value(Obj(e).route, tx'[e]["deposit"]) = L2Value(Obj(e).route, tx[e]["deposit"])
    BY DEF L2Value, TxKept
  <2>. QED
    BY <2>1, <2>2 DEF ObjectInv, PriceKept, TxKept
<1>. QED
  BY <1>2, <1>3, <1>4

\* A block takes the next nonce only, and two deposits of an object have the same.
LEMMA ObjectMined ==
    ASSUME NonceInv, ObjectInv, NEW c \in Calls, NEW k \in Kinds, Includable(c, k),
           NEW s \in {"ok", "reverted"},
           tx' = [tx EXCEPT ![c][k].status = s],
           UNCHANGED <<asked, deposit, call>>
    PROVE  ObjectInv'
<1>1. /\ tx[c][k] \in L1Txs /\ tx[c][k].nonce = count /\ tx[c][k].status = "pending"
      /\ "deposit" \in Kinds
  BY DEF Includable, NonceInv, TypeOK, Kinds
<1>2. \A e \in Calls, j \in Kinds :
         tx'[e][j] = IF e = c /\ j = k THEN [tx[c][k] EXCEPT !.status = s] ELSE tx[e][j]
  BY DEF NonceInv, TypeOK
<1>3. TxKept
  BY <1>1, <1>2 DEF TxKept, L1Txs
<1>4. \A e \in Calls : Mined(e, "deposit")' => Mined(e, "deposit") \/ (e = c /\ k = "deposit")
  BY <1>1, <1>2 DEF Mined
<1>5. AtMostOneDepositPerObject'
  <2>1. ASSUME NEW d \in Calls, ObjOf[c] = ObjOf[d], k = "deposit", Mined(d, "deposit")
        PROVE  FALSE
    <3>1. tx[d]["deposit"].nonce < count
      BY <1>1, <2>1 DEF NonceInv, MinedBelowCount
    <3>2. tx[d]["deposit"].nonce = Obj(d).nonce /\ tx[c]["deposit"].nonce = Obj(c).nonce
      BY <1>1, <2>1 DEF ObjectInv, BuiltAsObject, Mined
    <3>3. Obj(c) = Obj(d) /\ count \in Nat
      BY <2>1 DEF Obj, NonceInv, TypeOK
    <3>. QED
      BY <1>1, <2>1, <3>1, <3>2, <3>3
  <2>. QED
    BY <1>4, <2>1 DEF ObjectInv, AtMostOneDepositPerObject
<1>. QED
  BY <1>3, <1>5, ObjectStill DEF ObjectInv

LEMMA ObjectMine ==
    ASSUME NonceInv, ObjectInv, NEW c \in Calls, Mine(c)
    PROVE  ObjectInv'
<1>1. CASE MineDeposit(c)
  BY <1>1, ObjectMined DEF MineDeposit, Kinds
<1>2. ASSUME NEW k \in Approvals, MineApproval(c, k) PROVE ObjectInv'
  <2>1. k \in Kinds /\ Includable(c, k) /\ UNCHANGED <<asked, deposit, call>>
    BY <1>2 DEF MineApproval, Approvals, Kinds
  <2>2. \/ tx' = [tx EXCEPT ![c][k].status = "ok"]
        \/ tx' = [tx EXCEPT ![c][k].status = "reverted"]
    BY <1>2 DEF MineApproval
  <2>. QED
    BY <2>1, <2>2, ObjectMined
<1>. QED
  BY <1>1, <1>2 DEF Mine

-----------------------------------------------------------------------------

LEMMA ObjectInvInit == Init => ObjectInv
<1>. SUFFICES ASSUME Init PROVE ObjectInv
  OBVIOUS
<1>1. /\ deposit = asked
      /\ \A c \in Calls : call[c].end = "idle" /\ tx[c]["deposit"].status = "none"
  BY DEF Init, NewCall, NoTx, Kinds
<1>2. ObjectKept /\ TakenIsGiven /\ BuiltAsObject /\ AtMostOneDepositPerObject
  BY <1>1 DEF ObjectKept, TakenIsGiven, BuiltAsObject, AtMostOneDepositPerObject,
              Obj, Running, Mined
<1>3. PriceKept
  BY <1>1 DEF PriceKept, PricedAs, SelfPriced, Obj
<1>. QED
  BY <1>2, <1>3 DEF ObjectInv

LEMMA ObjectInvNext == NonceInv /\ ObjectInv /\ [Next]_vars => ObjectInv'
<1>. SUFFICES ASSUME NonceInv, ObjectInv, [Next]_vars PROVE ObjectInv'
  OBVIOUS
<1>1. ASSUME NEW c \in Calls, Begin(c) PROVE ObjectInv'
  BY <1>1, ObjectBegin
<1>2. ASSUME NEW c \in Calls, Step(c) PROVE ObjectInv'
  <2>1. CASE DummyAmount(c) \/ DefaultNonce(c) \/ DefaultFees(c) \/ QuoteFee(c)
    BY <2>1, ObjectDummyAmount, ObjectDefaultNonce, ObjectDefaultFees, ObjectQuoteFee
  <2>2. CASE PriceDeposit(c) \/ SkipEstimate(c) \/ PopulateRequest(c) \/ Simulate(c)
    BY <2>2, ObjectPriceDeposit, ObjectSkipEstimate, ObjectPopulateRequest, ObjectSimulate
  <2>3. CASE BuildDeposit(c)
    BY <2>3, ObjectBuildDeposit
  <2>4. CASE ApprovalStep(c)
    BY <2>4, ObjectCheckAllowance, ObjectBuildApproval, ObjectApprovalReceipt,
       ObjectApprovalTimeout DEF ApprovalStep
  <2>5. CASE SendStep(c)
    BY <2>5, ObjectSendRejected, ObjectSendAccepted DEF SendStep
  <2>. QED
    BY <1>2, <2>1, <2>2, <2>3, <2>4, <2>5 DEF Step
<1>3. ASSUME NEW c \in Calls, RpcFails(c) PROVE ObjectInv'
  BY <1>3, ObjectRpcFails
<1>4. ASSUME NEW c \in Calls, Mine(c) PROVE ObjectInv'
  BY <1>4, ObjectMine
<1>5. CASE ChangeBaseFee \/ UNCHANGED vars
  <2>1. UNCHANGED <<asked, deposit, call, tx>>
    BY <1>5 DEF ChangeBaseFee, vars
  <2>2. TxKept /\ AtMostOneDepositPerObject'
    BY <2>1 DEF TxKept, ObjectInv, AtMostOneDepositPerObject, Mined
  <2>. QED
    BY <2>1, <2>2, ObjectStill DEF ObjectInv
<1>. QED
  BY <1>1, <1>2, <1>3, <1>4, <1>5 DEF Next

\* The inductive invariant holds in every behaviour of the calls and the chain.
THEOREM ObjectInvariant == Spec => []ObjectInv
<1>1. Spec => []NonceInv
  BY NonceInvariant
<1>. QED
  BY <1>1, ObjectInvInit, ObjectInvNext, PTL DEF Spec

\* A nonce the caller chose is the deposit's, for any number of calls that share
\* the object, whatever they approve, estimate or query in between.
THEOREM ChosenNonceIsKept == Spec => []ChosenNonceKept
<1>1. ObjectInv => ChosenNonceKept
  BY DEF ObjectInv, BuiltAsObject, ObjectKept, ChosenNonceKept
<1>. QED
  BY <1>1, ObjectInvariant, PTL

\* L1 mines at most one of the deposits made from an object: the nonce stays in it,
\* and the second reading after an approval does not replace it in a later call.
THEOREM OneDepositPerObject == Spec => []AtMostOneDepositPerObject
<1>1. ObjectInv => AtMostOneDepositPerObject
  BY DEF ObjectInv
<1>. QED
  BY <1>1, ObjectInvariant, PTL

\* A deposit moves the amount the program wrote, unless a fee query left its dummy.
THEOREM AmountIsKept == Spec => []OnlyFeeQueriesChangeAmount
<1>1. ObjectInv => OnlyFeeQueriesChangeAmount
  BY DEF ObjectInv, BuiltAsObject, OnlyFeeQueriesChangeAmount
<1>. QED
  BY <1>1, ObjectInvariant, PTL

\* A self-priced deposit has the base cost in its mint value in every block that can
\* include it: what it pays per gas never exceeds the cap it was priced at.
THEOREM BaseCostIsPaid == Spec => []DepositPaysItsBaseCost
<1>1. NonceInv /\ ObjectInv => DepositPaysItsBaseCost
  <2>. SUFFICES ASSUME NonceInv, ObjectInv, NEW c \in Calls, NEW b \in BaseFees,
                       tx[c]["deposit"].status # "none",
                       SelfPriced(asked[ObjOf[c]]), ~FeeAsked(c)
                PROVE  MintCovers(Obj(c).route, tx[c]["deposit"], b)
    BY DEF DepositPaysItsBaseCost
  <2>. DEFINE t == tx[c]["deposit"]
  <2>1. t.mint >= BaseCost(t.cap) + L2Value(Obj(c).route, t)
    BY DEF ObjectInv, PriceKept
  <2>2. t \in L1Txs /\ b \in Nat /\ FairCost \in Nat
    BY FeesAssumption DEF NonceInv, TypeOK, Kinds
  <2>3. EffectivePrice(t, b) \in Nat /\ EffectivePrice(t, b) <= t.cap
    BY <2>2 DEF EffectivePrice, L1Txs
  <2>4. BaseCost(EffectivePrice(t, b)) <= BaseCost(t.cap)
        /\ BaseCost(EffectivePrice(t, b)) \in Nat /\ BaseCost(t.cap) \in Nat
    BY <2>2, <2>3 DEF BaseCost, L1Txs
  <2>5. L2Value(Obj(c).route, t) \in Nat /\ t.mint \in Nat
    BY <2>2 DEF L2Value, L1Txs
  <2>. QED
    BY <2>1, <2>4, <2>5 DEF MintCovers
<1>. QED
  BY <1>1, NonceInvariant, ObjectInvariant, PTL

-----------------------------------------------------------------------------
(***************************************************************************)
(* Programs that wait.                                                     *)
(***************************************************************************)

\* Only a deposit is built and sent, after every approval it pulls; it looks at the
\* nonce first and once; the base token is approved once the deposit is priced.
LEMMA ScriptApprovals ==
    ASSUME NEW o \in Methods, NEW r \in Routes, NEW i \in 1..Len(Script(o, r))
    PROVE  /\ Script(o, r)[i] \in {"gas", "build", "send"} => o = "deposit"
           /\ o = "deposit" => Script(o, r)[i] # "dummy" /\ (Script(o, r)[i] = "nonce" <=> i = 1)
           /\ Script(o, r)[i] = "dummy" => i = 1
           /\ Script(o, r)[i] = "base" => Script(o, r)[i - 1] = "cost" /\ i - 1 \in 1..i
           /\ Script(o, r)[i] = "cost" => \A j \in 1..(i - 1) : Script(o, r)[j] # "base"
           /\ \A k \in Pulled(r) :
                 Script(o, r)[i] \in {"gas", "build"} =>
                    \E j \in 1..(i - 1) : Script(o, r)[j] = k
<1>. DEFINE S == Script(o, r)
            at(k) == IF k = "token" THEN (IF r = "tokenOnEth" THEN 3 ELSE 6)
                     ELSE (IF r = "baseOnNonEth" THEN 4 ELSE 5)
<1>. i \in Int
  OBVIOUS
<1>1. /\ S[i] \in {"gas", "build", "send"} => o = "deposit"
      /\ o = "deposit" => S[i] # "dummy" /\ (S[i] = "nonce" <=> i = 1)
      /\ S[i] = "dummy" => i = 1
      /\ S[i] = "base" => S[i - 1] = "cost" /\ i - 1 \in 1..i
  <2>. USE DEF Script, Builder, Submit, Measure, DirectRoutes, Methods
  <2>1. CASE r = "ethOnEth"
    BY <2>1, SMT
  <2>2. CASE r = "tokenOnEth"
    BY <2>2, SMT
  <2>3. CASE r = "ethOnNonEth"
    BY <2>3, SMT
  <2>4. CASE r = "baseOnNonEth"
    BY <2>4, SMT
  <2>5. CASE r = "nonBaseOnNonEth"
    BY <2>5, SMT
  <2>. QED
    BY <2>1, <2>2, <2>3, <2>4, <2>5 DEF Routes
<1>2. ASSUME S[i] = "cost", NEW j \in 1..(i - 1) PROVE S[j] # "base"
  <2>. USE <1>2 DEF Script, Builder, Submit, Measure, DirectRoutes, Methods
  <2>1. CASE r = "ethOnEth"
    BY <2>1, SMT
  <2>2. CASE r = "tokenOnEth"
    BY <2>2, SMT
  <2>3. CASE r = "ethOnNonEth"
    BY <2>3, SMT
  <2>4. CASE r = "baseOnNonEth"
    BY <2>4, SMT
  <2>5. CASE r = "nonBaseOnNonEth"
    BY <2>5, SMT
  <2>. QED
    BY <2>1, <2>2, <2>3, <2>4, <2>5 DEF Routes
<1>3. ASSUME NEW k \in Pulled(r), S[i] \in {"gas", "build"}
      PROVE  at(k) \in 1..(i - 1) /\ S[at(k)] = k
  <2>. USE <1>3 DEF Script, Builder, Submit, Measure, DirectRoutes, Methods, Pulled,
                    Approvals, EthRoutes
  <2>1. CASE r = "ethOnEth"
    BY <2>1, SMT
  <2>2. CASE r = "tokenOnEth"
    BY <2>2, SMT
  <2>3. CASE r = "ethOnNonEth"
    BY <2>3, SMT
  <2>4. CASE r = "baseOnNonEth"
    BY <2>4, SMT
  <2>5. CASE r = "nonBaseOnNonEth"
    BY <2>5, SMT
  <2>. QED
    BY <2>1, <2>2, <2>3, <2>4, <2>5 DEF Routes
<1>. HIDE DEF S, at
<1>4. \A k \in Pulled(r) : S[i] \in {"gas", "build"} => \E j \in 1..(i - 1) : S[j] = k
  BY <1>3
<1>. QED
  BY <1>1, <1>2, <1>4 DEF S

LEMMA StageApprovals ==
    ASSUME NonceInv, NEW c \in Calls, Running(c)
    PROVE  /\ Stage(c) \in {"gas", "build", "send"} => call[c].op = "deposit"
           /\ call[c].op = "deposit" => Stage(c) # "dummy" /\ (Stage(c) = "nonce" <=> call[c].pos = 1)
           /\ Stage(c) = "dummy" => call[c].pos = 1
           /\ Stage(c) = "base" => Costed(c, call[c])
           /\ Stage(c) = "cost" => \A j \in 1..(call[c].pos - 1) : ScriptOf(c)[j] # "base"
           /\ \A k \in Pulled(Obj(c).route) :
                 Stage(c) \in {"gas", "build"} =>
                    \E j \in 1..(call[c].pos - 1) : ScriptOf(c)[j] = k
<1>1. /\ call[c].pos \in 1..Len(ScriptOf(c))
      /\ call[c].op \in Methods /\ Obj(c).route \in Routes
  BY CallFacts DEF NonceInv, InScript
<1>2. Stage(c) = "base" => Costed(c, call[c])
  <2>1. ASSUME Stage(c) = "base" PROVE Costed(c, call[c])
    <3>1. /\ ScriptOf(c)[call[c].pos - 1] = "cost" /\ call[c].pos - 1 \in 1..call[c].pos
      BY <1>1, <2>1, ScriptApprovals DEF ScriptOf, Stage
    <3>2. call[c].pos - 1 \in 1..(call[c].pos - 1)
      BY <1>1, <3>1
    <3>. QED
      BY <3>1, <3>2 DEF Costed
  <2>. QED
    BY <2>1
<1>. QED
  BY <1>1, <1>2, ScriptApprovals DEF ScriptOf, Stage

\* A step of call c that neither sets the nonce, approves, builds nor sends.
PlainMove(c) ==
    /\ Running(c)
    /\ Stage(c) \notin Approvals \cup {"nonce", "build", "send"}
    /\ UNCHANGED <<asked, tx, l1vars>>
    /\ \A e \in Calls \ {c} : call'[e] = call[e]
    /\ \A e \in Calls : ObjOf[e] # ObjOf[c] => Obj(e)' = Obj(e)
    /\ Obj(c)'.nonce = Obj(c).nonce
    /\ Stage(c) # "dummy" => Obj(c)'.amount = Obj(c).amount
    /\ call'[c].op = call[c].op
    /\ call'[c].given = call[c].given
    /\ call'[c].end \notin {"idle", "underpriced", "nonceTooLow"}
    /\ call'[c].end = "running" =>
          /\ call'[c].sub = "check"
          /\ call'[c].pos = call[c].pos + 1 \/ (Stage(c) = "gas" /\ call'[c].pos = call[c].pos + 4)
          /\ Stage(c) \notin {"cost", "request"} => call'[c].mint = call[c].mint
          /\ Stage(c) = "cost" => call'[c].mint = MintValue(Obj(c))
          /\ Stage(c) = "request" /\ Obj(c).route # "ethOnEth" /\ call[c].mint > 0 =>
                call'[c].mint = call[c].mint

\* Call c ends with an exception and changes nothing else.
EndMove(c) ==
    /\ Running(c)
    /\ UNCHANGED <<asked, deposit, tx, l1vars>>
    /\ \E why \in Ends \ {"idle", "running", "underpriced", "nonceTooLow"} :
          call' = [call EXCEPT ![c].end = why]

\* Call c leaves its object as d and goes on by m stages, or ends.
LEMMA MoveOf ==
    ASSUME NonceInv, NEW c \in Calls, Running(c),
           Stage(c) \notin Approvals \cup {"nonce", "build", "send"},
           UNCHANGED <<asked, tx, l1vars>>,
           NEW d \in Deposits, d.route = Obj(c).route, d.nonce = Obj(c).nonce,
           Stage(c) # "dummy" => d.amount = Obj(c).amount,
           NEW n, n.op = call[c].op, n.given = call[c].given,
           n.end \notin {"idle", "underpriced", "nonceTooLow"},
           n.end = "running" =>
              /\ n.sub = "check"
              /\ n.pos = call[c].pos + 1 \/ (Stage(c) = "gas" /\ n.pos = call[c].pos + 4)
              /\ Stage(c) \notin {"cost", "request"} => n.mint = call[c].mint
              /\ Stage(c) = "cost" => n.mint = MintValue(Obj(c))
              /\ Stage(c) = "request" /\ Obj(c).route # "ethOnEth" /\ call[c].mint > 0 =>
                    n.mint = call[c].mint,
           deposit' = [deposit EXCEPT ![ObjOf[c]] = d],
           call' = [call EXCEPT ![c] = n]
    PROVE  PlainMove(c)
<1>1. \A e \in Calls : Obj(e)' = IF ObjOf[e] = ObjOf[c] THEN d ELSE Obj(e)
  BY DepositAssumption DEF NonceInv, TypeOK, Obj
<1>2. \A e \in Calls : call'[e] = IF e = c THEN n ELSE call[e]
  BY DEF NonceInv, TypeOK
<1>. QED
  BY <1>1, <1>2 DEF PlainMove

\* The call's local state after m stages, in the terms of MoveOf.
LEMMA AfterMove ==
    ASSUME NonceInv, NEW c \in Calls, Running(c), NEW m \in {1, 4}
    PROVE  /\ After(c, m).op = call[c].op
           /\ After(c, m).given = call[c].given
           /\ After(c, m).end \in {"running", "returned"}
           /\ After(c, m).sub = "check"
           /\ After(c, m).pos = call[c].pos + m
           /\ After(c, m).mint = call[c].mint
<1>1. call[c] \in CallStates
  BY CallFacts DEF NonceInv
<1>. QED
  BY <1>1 DEF After, CallStates, Running

\* The steps of a call, up to the approvals and the deposit, are of those two kinds.
LEMMA PlainMoves ==
    ASSUME NonceInv, NEW c \in Calls,
           \/ DummyAmount(c) \/ DefaultFees(c) \/ QuoteFee(c) \/ PriceDeposit(c)
           \/ SkipEstimate(c) \/ PopulateRequest(c) \/ Simulate(c)
    PROVE  PlainMove(c) \/ EndMove(c)
<1>1. Obj(c) \in Deposits /\ call[c] \in CallStates /\ baseFee \in BaseFees /\ None \notin Nat
  BY CallFacts, FeesAssumption DEF NonceInv, TypeOK
<1>2. CASE DummyAmount(c)
  <2>. DEFINE d == [Obj(c) EXCEPT !.amount = 1]
              n == After(c, 1)
  <2>1. Running(c) /\ Stage(c) = "dummy" /\ UNCHANGED <<asked, tx, l1vars>>
    BY <1>2 DEF DummyAmount, At, Running, Stage
  <2>2. d \in Deposits /\ d.route = Obj(c).route /\ d.nonce = Obj(c).nonce
    BY <1>1 DEF Deposits
  <2>3. /\ deposit' = [deposit EXCEPT ![ObjOf[c]] = d]
        /\ call' = [call EXCEPT ![c] = n]
    BY <1>2 DEF DummyAmount, SetObj, Advance
  <2>4. /\ n.op = call[c].op /\ n.given = call[c].given
        /\ n.end \notin {"idle", "underpriced", "nonceTooLow"}
        /\ n.sub = "check" /\ n.pos = call[c].pos + 1 /\ n.mint = call[c].mint
    BY <2>1, AfterMove
  <2>. HIDE DEF d, n
  <2>. QED
    BY <2>1, <2>2, <2>3, <2>4, MoveOf DEF Approvals
<1>3. CASE DefaultFees(c)
  <2>. DEFINE d == InsertGasPrice(Obj(c), baseFee)
              n == After(c, 1)
  <2>1. Running(c) /\ Stage(c) = "fee" /\ UNCHANGED <<asked, tx, l1vars>>
    BY <1>3 DEF DefaultFees, At, Running, Stage
  <2>2. /\ d \in Deposits /\ d.route = Obj(c).route /\ d.nonce = Obj(c).nonce
        /\ d.amount = Obj(c).amount
    BY <1>1, FeesAreNat, FeesKeep
  <2>3. /\ deposit' = [deposit EXCEPT ![ObjOf[c]] = d]
        /\ call' = [call EXCEPT ![c] = n]
    BY <1>3 DEF DefaultFees, SetObj, Advance
  <2>4. /\ n.op = call[c].op /\ n.given = call[c].given
        /\ n.end \notin {"idle", "underpriced", "nonceTooLow"}
        /\ n.sub = "check" /\ n.pos = call[c].pos + 1 /\ n.mint = call[c].mint
    BY <2>1, AfterMove
  <2>. HIDE DEF d, n
  <2>. QED
    BY <2>1, <2>2, <2>3, <2>4, MoveOf DEF Approvals
<1>4. CASE QuoteFee(c)
  <2>. DEFINE v == IF Obj(c).route \in EthRoutes THEN Obj(c).value
                   ELSE IF Obj(c).route = "nonBaseOnNonEth" THEN OrElse(Obj(c).value, 0)
                   ELSE Obj(c).amount
              kept == [Obj(c) EXCEPT !.value = v]
              stripped == [Obj(c) EXCEPT !.value = v, !.cut = TRUE, !.gasPrice = None,
                                         !.maxFee = None, !.prio = None]
  <2>1. Running(c) /\ Stage(c) = "quote" /\ UNCHANGED <<asked, tx, l1vars>>
    BY <1>4 DEF QuoteFee, At, Running, Stage
  <2>2. \/ deposit' = [deposit EXCEPT ![ObjOf[c]] = kept] /\ Raise(c, "attribute")
        \/ deposit' = [deposit EXCEPT ![ObjOf[c]] = stripped] /\ Advance(c, 1)
    BY <1>4 DEF QuoteFee, SetObj
  <2>. v \in Optional(Nat)
    BY <1>1 DEF OrElse, Deposits, Optional
  <2>. HIDE DEF v
  <2>3. CASE deposit' = [deposit EXCEPT ![ObjOf[c]] = kept] /\ Raise(c, "attribute")
    <3>. DEFINE n == [call[c] EXCEPT !.end = "attribute"]
    <3>1. /\ kept \in Deposits /\ kept.route = Obj(c).route /\ kept.nonce = Obj(c).nonce
          /\ kept.amount = Obj(c).amount
      BY <1>1 DEF Deposits
    <3>2. n.op = call[c].op /\ n.given = call[c].given /\ n.end = "attribute"
      BY <1>1 DEF CallStates
    <3>3. call' = [call EXCEPT ![c] = n]
      BY <2>3 DEF Raise, NonceInv, TypeOK
    <3>. HIDE DEF kept, n
    <3>. QED
      BY <2>1, <2>3, <3>1, <3>2, <3>3, MoveOf DEF Approvals
  <2>4. CASE deposit' = [deposit EXCEPT ![ObjOf[c]] = stripped] /\ Advance(c, 1)
    <3>. DEFINE n == After(c, 1)
    <3>1. /\ stripped \in Deposits /\ stripped.route = Obj(c).route
          /\ stripped.nonce = Obj(c).nonce /\ stripped.amount = Obj(c).amount
      BY <1>1 DEF Deposits, Optional
    <3>2. /\ n.op = call[c].op /\ n.given = call[c].given
          /\ n.end \notin {"idle", "underpriced", "nonceTooLow"}
          /\ n.sub = "check" /\ n.pos = call[c].pos + 1 /\ n.mint = call[c].mint
      BY <2>1, AfterMove
    <3>3. call' = [call EXCEPT ![c] = n]
      BY <2>4 DEF Advance
    <3>. HIDE DEF stripped, n
    <3>. QED
      BY <2>1, <2>4, <3>1, <3>2, <3>3, MoveOf DEF Approvals
  <2>. QED
    BY <2>2, <2>3, <2>4
<1>5. CASE PriceDeposit(c)
  <2>. DEFINE d == [Obj(c) EXCEPT !.value = RequestValue(Obj(c))]
              n == [After(c, 1) EXCEPT !.mint = MintValue(Obj(c))]
  <2>1. Running(c) /\ Stage(c) = "cost" /\ UNCHANGED <<asked, tx, l1vars>>
    BY <1>5 DEF PriceDeposit, At, Running, Stage
  <2>2. /\ d \in Deposits /\ d.route = Obj(c).route /\ d.nonce = Obj(c).nonce
        /\ d.amount = Obj(c).amount
    <3>1. RequestValue(Obj(c)) \in Nat
      BY <1>1, PricesAreNat DEF NonceInv
    <3>. QED
      BY <1>1, <3>1 DEF Deposits, Optional
  <2>3. /\ deposit' = [deposit EXCEPT ![ObjOf[c]] = d]
        /\ call' = [call EXCEPT ![c] = n]
    BY <1>5 DEF PriceDeposit, SetObj
  <2>4. /\ n.op = call[c].op /\ n.given = call[c].given
        /\ n.end \notin {"idle", "underpriced", "nonceTooLow"}
        /\ n.sub = "check" /\ n.pos = call[c].pos + 1 /\ n.mint = MintValue(Obj(c))
    <3>1. After(c, 1) \in CallStates
      BY <2>1, AfterFacts DEF NonceInv
    <3>. QED
      BY <2>1, <3>1, AfterMove DEF CallStates
  <2>. HIDE DEF d, n
  <2>. QED
    BY <2>1, <2>2, <2>3, <2>4, MoveOf DEF Approvals
<1>6. CASE SkipEstimate(c)
  <2>. DEFINE m == IF Obj(c).gas THEN 4 ELSE 1
              n == After(c, m)
  <2>1. Running(c) /\ Stage(c) = "gas" /\ UNCHANGED <<asked, tx, l1vars>> /\ m \in {1, 4}
    BY <1>6 DEF SkipEstimate, At, Running, Stage
  <2>. HIDE DEF m
  <2>2. /\ deposit' = [deposit EXCEPT ![ObjOf[c]] = Obj(c)]
        /\ call' = [call EXCEPT ![c] = n]
    BY <1>6, SameObject DEF SkipEstimate, Advance, NonceInv, m
  <2>3. /\ n.op = call[c].op /\ n.given = call[c].given
        /\ n.end \notin {"idle", "underpriced", "nonceTooLow"}
        /\ n.sub = "check" /\ n.pos = call[c].pos + m /\ n.mint = call[c].mint
    BY <2>1, AfterMove
  <2>. HIDE DEF n
  <2>. QED
    BY <1>1, <2>1, <2>2, <2>3, MoveOf DEF Approvals
<1>7. CASE PopulateRequest(c)
  <2>. DEFINE provided == IF Obj(c).route \in EthRoutes THEN Obj(c).value ELSE call[c].mint
              mint == OrElse(provided, Cost(Obj(c)) + Obj(c).tip + Obj(c).amount)
              d == IF Obj(c).route \in EthRoutes
                   THEN [Obj(c) EXCEPT !.value = mint] ELSE Obj(c)
              n == IF Cost(Obj(c)) > mint
                   THEN [call[c] EXCEPT !.mint = mint, !.end = "baseCost"]
                   ELSE [After(c, 1) EXCEPT !.mint = mint]
  <2>1. Running(c) /\ Stage(c) = "request" /\ UNCHANGED <<asked, tx, l1vars>>
    BY <1>7 DEF PopulateRequest, At, Running, Stage
  <2>2. mint \in Nat
    BY <1>1, PricesAreNat DEF NonceInv, OrElse, Deposits, CallStates, Optional
  <2>3. /\ deposit' = [deposit EXCEPT ![ObjOf[c]] = d]
        /\ call' = [call EXCEPT ![c] = n]
    BY <1>7 DEF PopulateRequest, SetObj
  <2>4. Obj(c).route # "ethOnEth" /\ call[c].mint > 0 => mint = call[c].mint
    <3>1. Obj(c).route # "ethOnEth" => Obj(c).route \notin EthRoutes
      BY <2>1, StagePlaces DEF DirectRoutes, EthRoutes
    <3>2. call[c].mint \in Nat
      BY <1>1 DEF CallStates
    <3>. QED
      BY <1>1, <3>1, <3>2 DEF OrElse
  <2>. HIDE DEF mint
  <2>5. /\ d \in Deposits /\ d.route = Obj(c).route /\ d.nonce = Obj(c).nonce
        /\ d.amount = Obj(c).amount
    BY <1>1, <2>2 DEF Deposits, Optional
  <2>6. /\ n.op = call[c].op /\ n.given = call[c].given
        /\ n.end \notin {"idle", "underpriced", "nonceTooLow"} /\ n.mint = mint
        /\ n.end = "running" => n.sub = "check" /\ n.pos = call[c].pos + 1
    <3>1. CASE Cost(Obj(c)) > mint
      <4>1. n = [call[c] EXCEPT !.mint = mint, !.end = "baseCost"]
        BY <3>1
      <4>. QED
        BY <1>1, <4>1 DEF CallStates
    <3>2. CASE ~(Cost(Obj(c)) > mint)
      <4>1. n = [After(c, 1) EXCEPT !.mint = mint]
        BY <3>2
      <4>2. After(c, 1) \in CallStates
        BY <2>1, AfterFacts DEF NonceInv
      <4>. QED
        BY <2>1, <4>1, <4>2, AfterMove DEF CallStates
    <3>. QED
      BY <3>1, <3>2
  <2>. HIDE DEF d, n
  <2>. QED
    BY <2>1, <2>3, <2>4, <2>5, <2>6, MoveOf DEF Approvals
<1>8. CASE Simulate(c)
  <2>1. Running(c) /\ Stage(c) = "simulate" /\ UNCHANGED <<asked, tx, l1vars>>
    BY <1>8 DEF Simulate, At, Running, Stage
  <2>2. CASE Simulates(c, Draft(c))
    <3>. DEFINE d == [Obj(c) EXCEPT !.gas = @ \/ call[c].op = "deposit"]
                n == After(c, 1)
    <3>1. /\ d \in Deposits /\ d.route = Obj(c).route /\ d.nonce = Obj(c).nonce
          /\ d.amount = Obj(c).amount
      BY <1>1 DEF Deposits
    <3>2. /\ deposit' = [deposit EXCEPT ![ObjOf[c]] = d]
          /\ call' = [call EXCEPT ![c] = n]
      BY <1>8, <2>2 DEF Simulate, SetObj, Advance
    <3>3. /\ n.op = call[c].op /\ n.given = call[c].given
          /\ n.end \notin {"idle", "underpriced", "nonceTooLow"}
          /\ n.sub = "check" /\ n.pos = call[c].pos + 1 /\ n.mint = call[c].mint
      BY <2>1, AfterMove
    <3>. HIDE DEF d, n
    <3>. QED
      BY <2>1, <3>1, <3>2, <3>3, MoveOf DEF Approvals
  <2>3. CASE ~Simulates(c, Draft(c))
    BY <1>8, <2>1, <2>3 DEF Simulate, EndMove, Raise, Ends
  <2>. QED
    BY <2>2, <2>3
<1>. QED
  BY <1>2, <1>3, <1>4, <1>5, <1>6, <1>7, <1>8

-----------------------------------------------------------------------------
(***************************************************************************)
(* The pool.                                                               *)
(***************************************************************************)

\* The script of a call and the constant fields of its object.
LEMMA SameScripts ==
    ASSUME ObjectInv, ObjectInv', UNCHANGED asked, NEW c \in Calls, call'[c].op = call[c].op
    PROVE  /\ Obj(c)'.route = Obj(c).route
           /\ ScriptOf(c)' = ScriptOf(c)
           /\ \A k \in Approvals :
                 /\ PullSpender(c, k)' = PullSpender(c, k)
                 /\ ApprovedSpender(c, k)' = ApprovedSpender(c, k)
                 /\ Flagged(c, k)' <=> Flagged(c, k)
<1>1. /\ Obj(c)'.route = Obj(c).route
      /\ Obj(c)'.bridge = Obj(c).bridge
      /\ Obj(c)'.approveErc20 = Obj(c).approveErc20
      /\ Obj(c)'.approveBase = Obj(c).approveBase
  BY DEF ObjectInv, ObjectKept
<1>2. \A k \in Approvals : PullSpender(c, k)' = PullSpender(c, k)
  BY <1>1 DEF PullSpender
<1>3. \A k \in Approvals : ApprovedSpender(c, k)' = ApprovedSpender(c, k)
  BY <1>1, <1>2 DEF ApprovedSpender
<1>4. \A k \in Approvals : Flagged(c, k)' <=> Flagged(c, k)
  BY <1>1 DEF Flagged
<1>. QED
  BY <1>1, <1>2, <1>3, <1>4 DEF ScriptOf

\* Nothing of the program is in the pool, and call c has nothing to send.
Quiet(c) ==
    /\ \A d \in Calls, k \in Kinds : tx[d][k].status # "pending"
    /\ \A k \in Kinds : tx[c][k].status # "built"

LEMMA QuietUnlessSending ==
    ASSUME PoolKnown, NEW c \in Calls, Running(c), Stage(c) # "send",
           Stage(c) \in Approvals =>
              /\ call[c].sub # "send"
              /\ call[c].sub = "wait" => Mined(c, Stage(c))
    PROVE  Quiet(c)
<1>1. ASSUME NEW d \in Calls, NEW k \in Kinds, tx[d][k].status = "pending" PROVE FALSE
  <2>1. d = c /\ Waiting(c) /\ Stage(c) = k
    BY <1>1 DEF PoolKnown
  <2>. QED
    BY <1>1, <2>1 DEF Waiting, Mined
<1>2. ASSUME NEW k \in Kinds, tx[c][k].status = "built" PROVE FALSE
  <2>1. IF k = "deposit" THEN Stage(c) = "send"
        ELSE Stage(c) = k /\ call[c].sub = "send" /\ tx[c][k].nonce = count
    BY <1>2 DEF PoolKnown
  <2>. QED
    BY <2>1 DEF Kinds, Approvals
<1>. QED
  BY <1>1, <1>2 DEF Quiet

\* A step of a call that sends nothing and has nothing to send.
LEMMA PoolQuiet ==
    ASSUME PoolKnown, NEW c \in Calls, Running(c), Quiet(c), UNCHANGED tx,
           \A e \in Calls \ {c} : call'[e] = call[e], call'[c].end # "underpriced"
    PROVE  PoolKnown'
<1>1. \A e \in Calls \ {c} : ~Running(e)'
  BY DEF PoolKnown, Running
<1>2. \A d \in Calls, k \in Kinds : tx'[d][k].status # "pending"
  BY DEF Quiet
<1>3. \A d \in Calls, k \in Kinds : tx'[d][k].status # "dropped"
  BY DEF PoolKnown
<1>4. \A d \in Calls : call'[d].end # "underpriced"
  BY DEF PoolKnown
<1>. QED
  BY <1>1, <1>2, <1>3, <1>4 DEF PoolKnown, Quiet

\* A call that ends.
LEMMA PoolEnd ==
    ASSUME PoolKnown, TypeOK, NEW c \in Calls, EndMove(c)
    PROVE  PoolKnown'
<1>1. PICK why \in Ends \ {"idle", "running", "underpriced", "nonceTooLow"} :
         call' = [call EXCEPT ![c].end = why]
  BY DEF EndMove
<1>2. \A e \in Calls : IF e = c THEN call'[e].end = why ELSE call'[e] = call[e]
  BY <1>1, CallFacts DEF TypeOK, CallStates
<1>3. \A e \in Calls : ~Running(e)' /\ call'[e].end # "underpriced"
  BY <1>2 DEF PoolKnown, Running, EndMove
<1>4. UNCHANGED <<tx, count>>
  BY DEF EndMove, l1vars
<1>. QED
  BY <1>3, <1>4 DEF PoolKnown

LEMMA PoolPlain ==
    ASSUME PoolKnown, NEW c \in Calls, PlainMove(c)
    PROVE  PoolKnown'
<1>1. Running(c) /\ Quiet(c)
  BY QuietUnlessSending DEF PlainMove
<1>. QED
  BY <1>1, PoolQuiet DEF PlainMove

LEMMA PoolDefaultNonce ==
    ASSUME NonceInv, PoolKnown, NEW c \in Calls, DefaultNonce(c)
    PROVE  PoolKnown'
<1>1. Running(c) /\ Stage(c) = "nonce" /\ UNCHANGED tx
  BY DEF DefaultNonce, At, Running, Stage
<1>2. Quiet(c)
  BY <1>1, QuietUnlessSending DEF Approvals
<1>3. \A e \in Calls \ {c} : call'[e] = call[e]
  BY DEF DefaultNonce, NonceInv, TypeOK
<1>4. call'[c].end # "underpriced"
  <2>1. call'[c] = [After(c, 1) EXCEPT !.given = GivenNonce(c)]
    BY DEF DefaultNonce, NonceInv, TypeOK
  <2>2. After(c, 1).end \in {"running", "returned"} /\ After(c, 1) \in CallStates
    BY <1>1, AfterMove, AfterFacts DEF NonceInv
  <2>. QED
    BY <2>1, <2>2 DEF CallStates
<1>. QED
  BY <1>1, <1>2, <1>3, <1>4, PoolQuiet

\* Call c goes on to the next stage.
LEMMA AdvanceFacts ==
    ASSUME NonceInv, NEW c \in Calls, Running(c), Advance(c, 1)
    PROVE  /\ \A e \in Calls \ {c} : call'[e] = call[e]
           /\ call'[c].op = call[c].op /\ call'[c].given = call[c].given
           /\ call'[c].end \in {"running", "returned"}
           /\ call'[c].sub = "check" /\ call'[c].pos = call[c].pos + 1
           /\ call'[c].mint = call[c].mint
<1>1. \A e \in Calls : call'[e] = IF e = c THEN After(c, 1) ELSE call[e]
  BY DEF Advance, NonceInv, TypeOK
<1>. QED
  BY <1>1, AfterMove

\* Call c changes its place in an approval.
LEMMA SubFacts ==
    ASSUME NonceInv, NEW c \in Calls, NEW s, call' = [call EXCEPT ![c].sub = s]
    PROVE  /\ \A e \in Calls \ {c} : call'[e] = call[e]
           /\ call'[c].op = call[c].op /\ call'[c].given = call[c].given
           /\ call'[c].end = call[c].end
           /\ call'[c].sub = s /\ call'[c].pos = call[c].pos
           /\ call'[c].mint = call[c].mint
<1>1. call[c] \in CallStates
  BY CallFacts DEF NonceInv
<1>. QED
  BY <1>1 DEF NonceInv, TypeOK, CallStates

LEMMA PoolCheckAllowance ==
    ASSUME NonceInv, PoolKnown, NEW c \in Calls, NEW k \in Approvals, CheckAllowance(c, k)
    PROVE  PoolKnown'
<1>1. Running(c) /\ Stage(c) = k /\ call[c].sub = "check" /\ UNCHANGED tx
  BY DEF CheckAllowance, At, Running, Stage
<1>2. Quiet(c)
  BY <1>1, QuietUnlessSending DEF Approvals
<1>3. CASE NeedsApproval(c, k)
  BY <1>1, <1>2, <1>3, SubFacts, PoolQuiet DEF CheckAllowance, Running
<1>4. CASE ~NeedsApproval(c, k)
  BY <1>1, <1>2, <1>4, AdvanceFacts, PoolQuiet DEF CheckAllowance
<1>. QED
  BY <1>3, <1>4

LEMMA PoolApprovalReceipt ==
    ASSUME NonceInv, PoolKnown, NEW c \in Calls, NEW k \in Approvals, ApprovalReceipt(c, k)
    PROVE  PoolKnown'
<1>1. /\ Running(c) /\ Stage(c) = k /\ call[c].sub = "wait" /\ Mined(c, k)
      /\ UNCHANGED tx /\ Advance(c, 1)
  BY DEF ApprovalReceipt, At, Running, Stage
<1>2. Quiet(c)
  BY <1>1, QuietUnlessSending DEF Approvals
<1>. QED
  BY <1>1, <1>2, AdvanceFacts, PoolQuiet

\* A running call that has nothing to send builds transaction k and goes to send it.
LEMMA PoolBuilt ==
    ASSUME NonceInv, PoolKnown, NEW c \in Calls, NEW k \in Kinds, Running(c), Quiet(c),
           NEW t, t.status = "built", tx' = [tx EXCEPT ![c][k] = t],
           \A e \in Calls \ {c} : call'[e] = call[e],
           call'[c].end = "running",
           IF k = "deposit" THEN Stage(c)' = "send"
           ELSE Stage(c)' = k /\ call'[c].sub = "send" /\ t.nonce = count'
    PROVE  PoolKnown'
<1>1. \A e \in Calls, j \in Kinds : tx'[e][j] = IF e = c /\ j = k THEN t ELSE tx[e][j]
  BY DEF NonceInv, TypeOK
<1>2. \A e \in Calls \ {c} : ~Running(e)'
  BY DEF PoolKnown, Running
<1>3. \A e \in Calls, j \in Kinds : tx'[e][j].status \notin {"pending", "dropped"}
  BY <1>1 DEF PoolKnown, Quiet
<1>4. \A j \in Kinds : tx'[c][j].status = "built" => j = k /\ tx'[c][j] = t
  BY <1>1 DEF Quiet
<1>5. \A e \in Calls : call'[e].end # "underpriced"
  BY DEF PoolKnown
<1>6. \A e \in Calls, j \in Kinds :
         Running(e)' /\ tx'[e][j].status = "built" =>
            IF j = "deposit" THEN Stage(e)' = "send"
            ELSE Stage(e)' = j /\ call'[e].sub = "send" /\ tx'[e][j].nonce = count'
  BY <1>2, <1>4
<1>. QED
  BY <1>2, <1>3, <1>5, <1>6 DEF PoolKnown

LEMMA PoolBuildDeposit ==
    ASSUME NonceInv, PoolKnown, NEW c \in Calls, BuildDeposit(c)
    PROVE  PoolKnown'
<1>1. Running(c) /\ Stage(c) = "build" /\ UNCHANGED <<asked, deposit, l1vars>>
  BY DEF BuildDeposit, At, Running, Stage
<1>2. CASE Obj(c).gas \/ Simulates(c, Draft(c))
  <2>1. Quiet(c)
    BY <1>1, QuietUnlessSending DEF Approvals
  <2>2. Draft(c).status = "built"
    BY DEF Draft
  <2>3. tx' = [tx EXCEPT ![c]["deposit"] = Draft(c)] /\ Advance(c, 1)
    BY <1>2 DEF BuildDeposit
  <2>4. /\ \A e \in Calls \ {c} : call'[e] = call[e]
        /\ call'[c].op = call[c].op /\ call'[c].pos = call[c].pos + 1
    BY <1>1, <2>3, AdvanceFacts
  <2>5. call[c].pos < Len(ScriptOf(c)) /\ ScriptOf(c)[call[c].pos + 1] = "send"
    BY <1>1, CallFacts, ScriptOrder DEF NonceInv, InScript, ScriptOf, Stage
  <2>6. Stage(c)' = "send"
    BY <1>1, <2>4, <2>5 DEF Stage, ScriptOf, Obj
  <2>7. call'[c].end = "running"
    <3>1. call'[c] = After(c, 1) /\ call[c] \in CallStates
      BY <2>3, CallFacts DEF Advance, NonceInv, TypeOK
    <3>2. call[c].pos \in Nat /\ Len(ScriptOf(c)) \in Nat
      BY CallFacts DEF NonceInv
    <3>. QED
      BY <1>1, <2>5, <3>1, <3>2 DEF After, CallStates, Running
  <2>8. "deposit" \in Kinds
    BY DEF Kinds
  <2>. QED
    BY <1>1, <2>1, <2>2, <2>3, <2>4, <2>6, <2>7, <2>8, PoolBuilt
<1>3. CASE ~(Obj(c).gas \/ Simulates(c, Draft(c)))
  <2>1. EndMove(c)
    BY <1>1, <1>3 DEF BuildDeposit, EndMove, Raise, Ends
  <2>. QED
    BY <2>1, PoolEnd DEF NonceInv
<1>. QED
  BY <1>2, <1>3

LEMMA PoolBuildApproval ==
    ASSUME NonceInv, PoolKnown, NEW c \in Calls, NEW k \in Approvals, BuildApproval(c, k)
    PROVE  PoolKnown'
<1>. DEFINE t == [status |-> "built", nonce |-> count, cap |-> NetworkPrice(baseFee),
                  prio |-> NetworkPrice(baseFee), mint |-> 0, value |-> 0,
                  amount |-> NeededAmount(c, k)]
<1>1. /\ Running(c) /\ Stage(c) = k /\ call[c].sub = "approve"
      /\ UNCHANGED <<asked, deposit, l1vars>>
      /\ tx' = [tx EXCEPT ![c][k] = t]
      /\ call' = [call EXCEPT ![c].sub = "send"]
  BY DEF BuildApproval, At, Running, Stage
<1>2. Quiet(c)
  BY <1>1, QuietUnlessSending DEF Approvals
<1>3. t.status = "built" /\ t.nonce = count'
  BY <1>1 DEF l1vars
<1>. HIDE DEF t
<1>4. /\ \A e \in Calls \ {c} : call'[e] = call[e]
      /\ call'[c].op = call[c].op /\ call'[c].end = call[c].end
      /\ call'[c].sub = "send" /\ call'[c].pos = call[c].pos
  BY <1>1, SubFacts
<1>5. Stage(c)' = k
  BY <1>1, <1>4 DEF Stage, ScriptOf, Obj
<1>6. k \in Kinds /\ k # "deposit" /\ call'[c].end = "running"
  BY <1>1, <1>4 DEF Approvals, Kinds, Running
<1>. QED
  BY <1>1, <1>2, <1>3, <1>4, <1>5, <1>6, PoolBuilt

\* A call that is about to send finds nothing of the program's in the pool.
LEMMA SendingFacts ==
    ASSUME PoolKnown, NEW c \in Calls, NEW k \in Kinds, Sending(c, k)
    PROVE  /\ Running(c) /\ tx[c][k].status = "built"
           /\ IF k = "deposit" THEN Stage(c) = "send"
              ELSE k \in Approvals /\ Stage(c) = k /\ call[c].sub = "send"
                   /\ tx[c][k].nonce = count
           /\ \A d \in Calls, j \in Kinds : tx[d][j].status # "pending"
           /\ \A j \in Kinds : tx[c][j].status = "built" => j = k
           /\ \A n : Rivals(n) = {}
<1>1. Running(c) /\ tx[c][k].status = "built"
  BY DEF Sending, At, Running
<1>2. IF k = "deposit" THEN Stage(c) = "send"
      ELSE k \in Approvals /\ Stage(c) = k /\ call[c].sub = "send" /\ tx[c][k].nonce = count
  BY <1>1 DEF PoolKnown, Sending, At, Stage, Approvals
<1>3. \A d \in Calls, j \in Kinds : tx[d][j].status # "pending"
  <2>. SUFFICES ASSUME NEW d \in Calls, NEW j \in Kinds, tx[d][j].status = "pending"
                PROVE  FALSE
    OBVIOUS
  <2>1. Waiting(c)
    BY <1>1 DEF PoolKnown
  <2>. QED
    BY <1>2, <2>1 DEF Waiting, Approvals
<1>4. \A j \in Kinds : tx[c][j].status = "built" => j = k
  <2>. SUFFICES ASSUME NEW j \in Kinds, tx[c][j].status = "built" PROVE j = k
    OBVIOUS
  <2>1. IF j = "deposit" THEN Stage(c) = "send" ELSE Stage(c) = j /\ call[c].sub = "send"
    BY <1>1 DEF PoolKnown
  <2>. QED
    BY <1>2, <2>1 DEF Approvals, Kinds
<1>5. \A n : Rivals(n) = {}
  BY <1>3 DEF Rivals
<1>. QED
  BY <1>1, <1>2, <1>3, <1>4, <1>5

\* The node refuses only a deposit, for its nonce.
LEMMA RejectedFacts ==
    ASSUME NonceInv, PoolKnown, NEW c \in Calls, NEW k \in Kinds, SendRejected(c, k)
    PROVE  /\ k = "deposit" /\ tx[c][k].nonce < count
           /\ call' = [call EXCEPT ![c].end = "nonceTooLow"]
           /\ tx' = [tx EXCEPT ![c][k].status = "rejected"]
           /\ UNCHANGED <<asked, deposit, l1vars>>
<1>1. Sending(c, k) /\ Rivals(tx[c][k].nonce) = {}
  BY SendingFacts DEF SendRejected
<1>2. tx[c][k].nonce < count
  BY <1>1 DEF SendRejected
<1>3. count \in Nat
  BY DEF NonceInv, TypeOK
<1>4. k = "deposit"
  BY <1>1, <1>2, <1>3, SendingFacts
<1>. QED
  BY <1>2, <1>4 DEF SendRejected, Raise

\* The node takes a transaction and drops none.
LEMMA AcceptedFacts ==
    ASSUME NonceInv, PoolKnown, NEW c \in Calls, NEW k \in Kinds, SendAccepted(c, k)
    PROVE  /\ \A d \in Calls, j \in Kinds :
                 tx'[d][j] = IF d = c /\ j = k THEN [tx[c][k] EXCEPT !.status = "pending"]
                             ELSE tx[d][j]
           /\ UNCHANGED <<asked, deposit, l1vars>>
           /\ \A e \in Calls \ {c} : call'[e] = call[e]
           /\ call'[c].op = call[c].op /\ call'[c].given = call[c].given
           /\ call'[c].mint = call[c].mint
           /\ call'[c].end \in {"running", "returned", "rpcError"}
           /\ call'[c].end = "running" =>
                 k # "deposit" /\ call'[c].pos = call[c].pos /\ call'[c].sub = "wait"
<1>1. Sending(c, k) /\ Rivals(tx[c][k].nonce) = {} /\ Running(c)
  BY SendingFacts DEF SendAccepted
<1>2. \A d \in Calls, j \in Kinds :
         tx'[d][j] = IF d = c /\ j = k THEN [tx[c][k] EXCEPT !.status = "pending"]
                     ELSE tx[d][j]
  BY <1>1 DEF SendAccepted
<1>3. call[c] \in CallStates
  BY CallFacts DEF NonceInv
<1>4. CASE Raise(c, "rpcError")
  BY <1>2, <1>3, <1>4 DEF SendAccepted, Raise, NonceInv, TypeOK, CallStates
<1>5. CASE k # "deposit" /\ call' = [call EXCEPT ![c].sub = "wait"]
  BY <1>1, <1>2, <1>5, SubFacts DEF SendAccepted, Running
<1>6. CASE k = "deposit" /\ Advance(c, 1)
  <2>1. Stage(c) = "send" /\ call[c].pos \in 1..Len(ScriptOf(c))
    BY <1>1, <1>6, SendingFacts DEF NonceInv, InScript
  <2>2. call[c].pos = Len(ScriptOf(c)) /\ Len(ScriptOf(c)) \in Nat
    BY <2>1, CallFacts, ScriptOrder DEF ScriptOf, Stage, NonceInv
  <2>3. call'[c] = After(c, 1)
    BY <1>6 DEF Advance, NonceInv, TypeOK
  <2>4. call'[c].end = "returned"
    BY <1>3, <2>2, <2>3 DEF After, CallStates
  <2>. QED
    BY <1>1, <1>2, <1>6, <2>4, AdvanceFacts DEF SendAccepted
<1>. QED
  BY <1>4, <1>5, <1>6 DEF SendAccepted

LEMMA PoolSendRejected ==
    ASSUME NonceInv, PoolKnown, NEW c \in Calls, NEW k \in Kinds, SendRejected(c, k)
    PROVE  PoolKnown'
<1>1. /\ Running(c)
      /\ \A d \in Calls, j \in Kinds : tx[d][j].status # "pending"
      /\ call' = [call EXCEPT ![c].end = "nonceTooLow"]
      /\ tx' = [tx EXCEPT ![c][k].status = "rejected"]
  BY SendingFacts, RejectedFacts DEF SendRejected
<1>2. call[c] \in CallStates /\ tx[c][k] \in L1Txs
  BY CallFacts DEF NonceInv, TypeOK
<1>3. \A e \in Calls :
         IF e = c THEN call'[e].end = "nonceTooLow" ELSE call'[e] = call[e]
  BY <1>1, <1>2 DEF NonceInv, TypeOK, CallStates
<1>4. \A e \in Calls : ~Running(e)' /\ call'[e].end # "underpriced"
  BY <1>1, <1>3 DEF PoolKnown, Running
<1>5. \A d \in Calls, j \in Kinds : tx'[d][j].status \notin {"pending", "dropped"}
  BY <1>1, <1>2 DEF PoolKnown, NonceInv, TypeOK, L1Txs
<1>. QED
  BY <1>4, <1>5 DEF PoolKnown

LEMMA PoolSendAccepted ==
    ASSUME NonceInv, PoolKnown, NEW c \in Calls, NEW k \in Kinds, SendAccepted(c, k)
    PROVE  PoolKnown'
<1>1. /\ Running(c)
      /\ \A d \in Calls, j \in Kinds : tx[d][j].status # "pending"
      /\ \A j \in Kinds : tx[c][j].status = "built" => j = k
      /\ k # "deposit" => k \in Approvals /\ Stage(c) = k
  BY SendingFacts DEF SendAccepted
<1>2. /\ \A d \in Calls, j \in Kinds :
            tx'[d][j] = IF d = c /\ j = k THEN [tx[c][k] EXCEPT !.status = "pending"]
                        ELSE tx[d][j]
      /\ UNCHANGED <<asked, deposit, l1vars>>
      /\ \A e \in Calls \ {c} : call'[e] = call[e]
      /\ call'[c].op = call[c].op
      /\ call'[c].end \in {"running", "returned", "rpcError"}
      /\ call'[c].end = "running" =>
            k # "deposit" /\ call'[c].pos = call[c].pos /\ call'[c].sub = "wait"
  BY AcceptedFacts
<1>3. [tx[c][k] EXCEPT !.status = "pending"].status = "pending"
  BY DEF NonceInv, TypeOK, L1Txs
<1>4. \A e \in Calls \ {c} : ~Running(e)'
  BY <1>1, <1>2 DEF PoolKnown, Running
<1>5. ASSUME NEW d \in Calls, NEW j \in Kinds
      PROVE  /\ tx'[d][j].status = "pending" => d = c /\ j = k
             /\ tx'[d][j].status # "dropped"
  <2>1. CASE d = c /\ j = k
    BY <1>2, <1>3, <2>1
  <2>2. CASE ~(d = c /\ j = k)
    <3>1. tx'[d][j] = tx[d][j]
      BY <1>2, <2>2
    <3>. QED
      BY <1>1, <3>1 DEF PoolKnown
  <2>. QED
    BY <2>1, <2>2
<1>6. \A j \in Kinds : tx'[c][j].status # "built"
  BY <1>1, <1>2, <1>3
<1>7. Running(c)' => Waiting(c)' /\ Stage(c)' = k
  <2>1. Running(c)' => Stage(c)' = Stage(c)
    BY <1>2 DEF Running, Stage, ScriptOf, Obj
  <2>. QED
    BY <1>1, <1>2, <2>1 DEF Waiting, Running
<1>8. \A e \in Calls : call'[e].end # "underpriced"
  BY <1>2 DEF PoolKnown
<1>. QED
  BY <1>4, <1>5, <1>6, <1>7, <1>8 DEF PoolKnown

\* A program that waits starts a call when nothing is under way.
LEMMA BeginFacts ==
    ASSUME Waits, NonceInv, NEW c \in Calls, Begin(c)
    PROVE  /\ \A d \in Calls : ~Running(d)
           /\ \A d \in Calls, k \in Kinds : tx[d][k].status # "pending"
           /\ \A k \in Kinds : tx[c][k].status = "none"
           /\ \A e \in Calls \ {c} : call'[e] = call[e]
           /\ call[c].end = "idle" /\ call'[c].end = "running"
           /\ call'[c].pos = 1 /\ call'[c].sub = "check" /\ call'[c].given = None
           /\ UNCHANGED <<asked, deposit, tx, l1vars>>
<1>1. PICK o \in Ops : call' = [call EXCEPT ![c].op = o, ![c].end = "running"]
  BY DEF Begin
<1>2. /\ call[c] \in CallStates /\ call[c].end = "idle"
      /\ call[c].pos = 1 /\ call[c].sub = "check" /\ call[c].given = None
      /\ \A k \in Kinds : tx[c][k].status = "none"
  BY CallFacts DEF Begin, NonceInv, FreshCalls
<1>3. /\ \A e \in Calls \ {c} : call'[e] = call[e]
      /\ call'[c].end = "running"
      /\ call'[c].pos = 1 /\ call'[c].sub = "check" /\ call'[c].given = None
  BY <1>1, <1>2 DEF NonceInv, TypeOK, CallStates
<1>4. CASE Discipline = "settled"
  BY <1>2, <1>3, <1>4 DEF Begin, MayBegin, Running
<1>5. CASE \A d \in Calls : d = c
  BY <1>2, <1>3, <1>5 DEF Begin, Running
<1>. QED
  BY <1>4, <1>5 DEF Waits

LEMMA PoolBegin ==
    ASSUME Waits, NonceInv, PoolKnown, NEW c \in Calls, Begin(c)
    PROVE  PoolKnown'
<1>1. \A e \in Calls \ {c} : ~Running(e)'
  BY BeginFacts DEF Running
<1>2. /\ \A d \in Calls, k \in Kinds : tx'[d][k].status \notin {"pending", "dropped"}
      /\ \A k \in Kinds : tx'[c][k].status # "built"
  BY BeginFacts DEF PoolKnown
<1>3. \A e \in Calls : call'[e].end # "underpriced"
  BY BeginFacts DEF PoolKnown
<1>. QED
  BY <1>1, <1>2, <1>3 DEF PoolKnown

\* A block includes transaction k of call c, which ends with the status s.
Mining(c, k, s) ==
    /\ Includable(c, k)
    /\ tx' = [tx EXCEPT ![c][k].status = s]
    /\ count' = count + 1
    /\ UNCHANGED <<asked, deposit, call>>

\* A block includes the one transaction of the pool.
\* Nothing else was in the pool, and a running call awaits that transaction.
MinedMove(c, k, s) ==
    /\ tx[c][k].status = "pending"
    /\ tx'[c][k] = [tx[c][k] EXCEPT !.status = s]
    /\ tx'[c][k].status = s
    /\ \A d \in Calls, j \in Kinds :
          d # c \/ j # k => tx'[d][j] = tx[d][j] /\ tx[d][j].status # "pending"
    /\ \A d \in Calls :
          Running(d) => d = c /\ k \in Approvals /\ Stage(d) = k /\ call[d].sub = "wait"
    /\ count' = count + 1
    /\ UNCHANGED <<asked, deposit, call>>

LEMMA MinedFacts ==
    ASSUME NonceInv, PoolKnown, NEW c \in Calls, NEW k \in Kinds,
           NEW s \in {"ok", "reverted"}, Mining(c, k, s)
    PROVE  MinedMove(c, k, s)
<1>1. tx[c][k].status = "pending"
  BY DEF Mining, Includable
<1>2. /\ tx'[c][k] = [tx[c][k] EXCEPT !.status = s]
      /\ tx'[c][k].status = s
      /\ \A d \in Calls, j \in Kinds : d # c \/ j # k => tx'[d][j] = tx[d][j]
  <2>1. tx[c][k] \in L1Txs /\ tx \in [Calls -> [Kinds -> L1Txs]]
    BY DEF NonceInv, TypeOK
  <2>2. \A d \in Calls, j \in Kinds :
           tx'[d][j] = IF d = c /\ j = k THEN [tx[c][k] EXCEPT !.status = s] ELSE tx[d][j]
    BY <2>1 DEF Mining
  <2>3. [tx[c][k] EXCEPT !.status = s].status = s
    BY <2>1 DEF L1Txs
  <2>. QED
    BY <2>2, <2>3
<1>3. \A d \in Calls, j \in Kinds : tx[d][j].status = "pending" => d = c /\ j = k
  BY <1>1 DEF PoolKnown
<1>4. \A d \in Calls :
         Running(d) => d = c /\ k \in Approvals /\ Stage(d) = k /\ call[d].sub = "wait"
  BY <1>1 DEF PoolKnown, Waiting
<1>. QED
  BY <1>1, <1>2, <1>3, <1>4 DEF MinedMove, Mining

LEMMA PoolMined ==
    ASSUME NonceInv, PoolKnown, NEW c \in Calls, NEW k \in Kinds,
           NEW s \in {"ok", "reverted"}, Mining(c, k, s)
    PROVE  PoolKnown'
<1>1. MinedMove(c, k, s)
  BY MinedFacts
<1>2. ASSUME NEW d \in Calls, NEW j \in Kinds
      PROVE  tx'[d][j].status \notin {"pending", "dropped"}
  <2>1. CASE d = c /\ j = k
    BY <1>1, <2>1 DEF MinedMove
  <2>2. CASE d # c \/ j # k
    <3>1. tx'[d][j] = tx[d][j] /\ tx[d][j].status # "pending"
      BY <1>1, <2>2 DEF MinedMove
    <3>. QED
      BY <3>1 DEF PoolKnown
  <2>. QED
    BY <2>1, <2>2
<1>3. ASSUME NEW d \in Calls, NEW j \in Kinds, Running(d)' PROVE tx'[d][j].status # "built"
  <2>1. Running(d) /\ d = c /\ Stage(d) = k /\ k \in Approvals /\ call[d].sub = "wait"
    BY <1>1, <1>3 DEF MinedMove, Running
  <2>2. CASE j = k
    BY <1>1, <2>1, <2>2 DEF MinedMove
  <2>3. CASE j # k
    BY <1>1, <2>1, <2>3 DEF MinedMove, PoolKnown, Approvals
  <2>. QED
    BY <2>2, <2>3
<1>4. \A d, e \in Calls : Running(d)' /\ Running(e)' => d = e
  BY <1>1 DEF PoolKnown, MinedMove, Running
<1>5. \A d \in Calls : call'[d].end # "underpriced"
  BY <1>1 DEF PoolKnown, MinedMove
<1>. QED
  BY <1>2, <1>3, <1>4, <1>5 DEF PoolKnown

LEMMA PoolInit == Init => PoolKnown
<1>. SUFFICES ASSUME Init PROVE PoolKnown
  OBVIOUS
<1>1. \A c \in Calls : call[c].end = "idle" /\ \A k \in Kinds : tx[c][k].status = "none"
  BY DEF Init, NewCall, NoTx
<1>. QED
  BY <1>1 DEF PoolKnown, Running

\* The steps of call c, each of its kind.
LEMMA StepKinds ==
    ASSUME NonceInv, NEW c \in Calls, Step(c) \/ RpcFails(c)
    PROVE  \/ PlainMove(c) \/ EndMove(c) \/ DefaultNonce(c) \/ BuildDeposit(c)
           \/ \E k \in Approvals : CheckAllowance(c, k) \/ BuildApproval(c, k)
                                   \/ ApprovalReceipt(c, k)
           \/ \E k \in Kinds : SendRejected(c, k) \/ SendAccepted(c, k)
<1>1. RpcFails(c) => EndMove(c)
  BY DEF RpcFails, EndMove, Raise, Ends, Running
<1>2. \A k \in Approvals : ApprovalTimeout(c, k) => EndMove(c)
  BY DEF ApprovalTimeout, EndMove, Raise, Ends, Running, At
<1>3. ASSUME \/ DummyAmount(c) \/ DefaultFees(c) \/ QuoteFee(c) \/ PriceDeposit(c)
             \/ SkipEstimate(c) \/ PopulateRequest(c) \/ Simulate(c)
      PROVE  PlainMove(c) \/ EndMove(c)
  BY <1>3, PlainMoves
<1>. QED
  BY <1>1, <1>2, <1>3 DEF Step, ApprovalStep, SendStep

\* The blocks that the chain may add.
LEMMA MineKinds ==
    ASSUME NEW c \in Calls, Mine(c)
    PROVE  \E k \in Kinds, s \in {"ok", "reverted"} : Mining(c, k, s)
<1>1. CASE MineDeposit(c)
  BY <1>1 DEF MineDeposit, Kinds, Mining
<1>2. ASSUME NEW k \in Approvals, MineApproval(c, k)
      PROVE  \E s \in {"ok", "reverted"} : Mining(c, k, s)
  BY <1>2 DEF MineApproval, Mining
<1>. QED
  BY <1>1, <1>2 DEF Mine, Approvals, Kinds

LEMMA PoolNext ==
    Waits /\ NonceInv /\ PoolKnown /\ [Next]_vars => PoolKnown'
<1>. SUFFICES ASSUME Waits, NonceInv, PoolKnown, [Next]_vars PROVE PoolKnown'
  OBVIOUS
<1>1. ASSUME NEW c \in Calls, Begin(c) PROVE PoolKnown'
  BY <1>1, PoolBegin
<1>2. ASSUME NEW c \in Calls, Step(c) \/ RpcFails(c) PROVE PoolKnown'
  <2>1. CASE PlainMove(c) \/ EndMove(c)
    BY <2>1, PoolPlain, PoolEnd DEF NonceInv
  <2>2. CASE DefaultNonce(c) \/ BuildDeposit(c)
    BY <2>2, PoolDefaultNonce, PoolBuildDeposit
  <2>3. ASSUME NEW k \in Approvals,
               CheckAllowance(c, k) \/ BuildApproval(c, k) \/ ApprovalReceipt(c, k)
        PROVE  PoolKnown'
    BY <2>3, PoolCheckAllowance, PoolBuildApproval, PoolApprovalReceipt
  <2>4. ASSUME NEW k \in Kinds, SendRejected(c, k) \/ SendAccepted(c, k)
        PROVE  PoolKnown'
    BY <2>4, PoolSendRejected, PoolSendAccepted
  <2>. QED
    BY <1>2, <2>1, <2>2, <2>3, <2>4, StepKinds
<1>3. ASSUME NEW c \in Calls, Mine(c) PROVE PoolKnown'
  BY <1>3, MineKinds, PoolMined
<1>4. CASE ChangeBaseFee \/ UNCHANGED vars
  <2>1. UNCHANGED <<deposit, call, tx, count>>
    BY <1>4 DEF ChangeBaseFee, vars, l1vars
  <2>. QED
    BY <2>1 DEF PoolKnown, Running, Waiting, Stage, ScriptOf, Obj
<1>. QED
  BY <1>1, <1>2, <1>3, <1>4 DEF Next

\* A program that waits knows its pool.
LEMMA PoolInvariant == ASSUME Waits PROVE Spec => []PoolKnown
<1>1. Spec => []NonceInv
  BY NonceInvariant
<1>2. NonceInv /\ PoolKnown /\ [Next]_vars => PoolKnown'
  BY PoolNext
<1>. QED
  BY <1>1, <1>2, PoolInit, PTL DEF Spec

-----------------------------------------------------------------------------
(***************************************************************************)
(* The nonce of a fresh object.                                            *)
(***************************************************************************)

\* NextNonce for one call.
NextNonceOf(c) ==
    asked[ObjOf[c]].nonce = None =>
        /\ call[c].end = "idle" => Obj(c).nonce = None
        /\ call[c].end # "nonceTooLow"
        /\ Running(c) /\ call[c].op = "deposit" =>
              /\ call[c].given = None
              /\ Stage(c) = "nonce" => Obj(c).nonce = None
              /\ Stage(c) # "nonce" /\ ~Waiting(c) => Obj(c).nonce = count

\* A deposit is at its nonce only at its first stage, in the next state as well.
LEMMA NonceFirst ==
    ASSUME NonceInv', NEW c \in Calls, Running(c)', call'[c].op = "deposit"
    PROVE  Stage(c)' = "nonce" <=> call'[c].pos = 1
<1>1. deposit'[ObjOf[c]] \in Deposits /\ call'[c] \in CallStates
  BY DepositAssumption DEF NonceInv, TypeOK
<1>2. Obj(c)'.route \in Routes /\ call'[c].op \in Methods
  BY <1>1 DEF Obj, Deposits, CallStates
<1>3. call'[c].pos \in 1..Len(Script(call'[c].op, Obj(c)'.route))
  BY DEF NonceInv, InScript, ScriptOf, Running
<1>4. Stage(c)' = Script(call'[c].op, Obj(c)'.route)[call'[c].pos]
  BY DEF Stage, ScriptOf
<1>. QED
  BY <1>2, <1>3, <1>4, ScriptApprovals

\* A call that leaves every other call alone leaves their nonces alone.
LEMMA OthersNonce ==
    ASSUME NextNonce, FreshObjects, NEW c \in Calls, UNCHANGED <<asked, count>>,
           \A e \in Calls \ {c} : call'[e] = call[e],
           \A e \in Calls : ObjOf[e] # ObjOf[c] => Obj(e)' = Obj(e),
           NextNonceOf(c)'
    PROVE  NextNonce'
<1>1. ASSUME NEW e \in Calls \ {c} PROVE NextNonceOf(e)'
  <2>1. call'[e] = call[e] /\ Obj(e)' = Obj(e)
    BY DEF FreshObjects
  <2>2. Stage(e)' = Stage(e) /\ (Running(e)' <=> Running(e)) /\ (Waiting(e)' <=> Waiting(e))
    BY <2>1 DEF Stage, ScriptOf, Running, Waiting
  <2>3. NextNonceOf(e)
    BY DEF NextNonce, NextNonceOf
  <2>. QED
    BY <2>1, <2>2, <2>3 DEF NextNonceOf
<1>2. \A e \in Calls : NextNonceOf(e)'
  BY <1>1
<1>. QED
  BY <1>2 DEF NextNonce, NextNonceOf

\* A call past its first stage that goes on keeps a nonce that is the next one.
LEMMA NonceGoesOn ==
    ASSUME NonceInv, NonceInv', NextNonce, FreshObjects, NEW c \in Calls,
           Running(c), Stage(c) # "nonce", UNCHANGED <<asked, count>>,
           \A e \in Calls \ {c} : call'[e] = call[e],
           \A e \in Calls : ObjOf[e] # ObjOf[c] => Obj(e)' = Obj(e),
           call'[c].end \notin {"idle", "nonceTooLow"},
           call'[c].end = "running" =>
              /\ call'[c].op = call[c].op
              /\ call'[c].given = call[c].given
              /\ call'[c].pos >= call[c].pos
              /\ \/ call[c].given # None
                 \/ Waiting(c)' \/ Obj(c)'.nonce = count
                 \/ Obj(c)'.nonce = Obj(c).nonce /\ ~Waiting(c)
    PROVE  NextNonce'
<1>1. ASSUME asked[ObjOf[c]].nonce = None, Running(c)', call'[c].op = "deposit"
      PROVE  /\ call'[c].given = None
             /\ Stage(c)' # "nonce"
             /\ ~Waiting(c)' => Obj(c)'.nonce = count'
  <2>1. call[c].op = "deposit" /\ call[c].given = None
        /\ (~Waiting(c) => Obj(c).nonce = count)
    BY <1>1 DEF NextNonce, Running
  <2>2. call[c].pos # 1 /\ call[c].pos \in Nat \ {0} /\ call'[c].pos \in Nat
    BY <2>1, StageApprovals, CallFacts DEF NonceInv, TypeOK, CallStates
  <2>3. call'[c].pos # 1
    BY <1>1, <2>2 DEF Running
  <2>4. Stage(c)' # "nonce"
    BY <1>1, <2>3, NonceFirst
  <2>. QED
    BY <1>1, <2>1, <2>4 DEF Running
<1>2. NextNonceOf(c)'
  BY <1>1 DEF NextNonceOf
<1>. QED
  BY <1>2, OthersNonce

LEMMA NoncePlain ==
    ASSUME NonceInv, NonceInv', NextNonce, FreshObjects, NEW c \in Calls, PlainMove(c)
    PROVE  NextNonce'
<1>1. /\ Running(c) /\ Stage(c) # "nonce" /\ ~Waiting(c)
      /\ UNCHANGED <<asked, count>> /\ call[c].pos \in Nat
  BY CallFacts DEF PlainMove, Waiting, l1vars, NonceInv
<1>2. call'[c].end = "running" => call'[c].pos >= call[c].pos
  BY <1>1 DEF PlainMove
<1>. QED
  BY <1>1, <1>2, NonceGoesOn DEF PlainMove

LEMMA NonceEnd ==
    ASSUME NonceInv, NextNonce, FreshObjects, NEW c \in Calls, EndMove(c)
    PROVE  NextNonce'
<1>1. PICK why \in Ends \ {"idle", "running", "underpriced", "nonceTooLow"} :
         call' = [call EXCEPT ![c].end = why]
  BY DEF EndMove
<1>2. call'[c].end = why /\ \A e \in Calls \ {c} : call'[e] = call[e]
  BY <1>1 DEF NonceInv, TypeOK, CallStates
<1>3. NextNonceOf(c)'
  BY <1>2 DEF NextNonceOf, Running
<1>4. \A e \in Calls : Obj(e)' = Obj(e)
  BY DEF EndMove, Obj
<1>. QED
  BY <1>2, <1>3, <1>4, OthersNonce DEF EndMove, l1vars

LEMMA NonceDefault ==
    ASSUME NonceInv, NonceInv', NextNonce, FreshObjects, NEW c \in Calls, DefaultNonce(c)
    PROVE  NextNonce'
<1>. DEFINE d == [Obj(c) EXCEPT !.nonce = IF @ = None THEN count ELSE @]
            n == [After(c, 1) EXCEPT !.given = Obj(c).nonce]
<1>1. /\ Running(c) /\ Stage(c) = "nonce" /\ UNCHANGED <<asked, count>>
      /\ deposit' = [deposit EXCEPT ![ObjOf[c]] = d]
      /\ call' = [call EXCEPT ![c] = n]
  BY DEF DefaultNonce, At, Running, Stage, SetObj, GivenNonce, l1vars
<1>2. /\ Obj(c) \in Deposits /\ call[c] \in CallStates /\ After(c, 1) \in CallStates
      /\ After(c, 1).op = call[c].op /\ After(c, 1).end \in {"running", "returned"}
      /\ After(c, 1).pos = call[c].pos + 1
  BY <1>1, CallFacts, AfterFacts, AfterMove DEF NonceInv
<1>3. /\ d.nonce = IF Obj(c).nonce = None THEN count ELSE Obj(c).nonce
      /\ n.op = call[c].op /\ n.given = Obj(c).nonce
      /\ n.end \in {"running", "returned"} /\ n.pos = call[c].pos + 1
  BY <1>2 DEF Deposits, CallStates
<1>. HIDE DEF d, n
<1>4. /\ Obj(c)' = d /\ call'[c] = n
      /\ \A e \in Calls \ {c} : call'[e] = call[e]
      /\ \A e \in Calls : ObjOf[e] # ObjOf[c] => Obj(e)' = Obj(e)
  BY <1>1, DepositAssumption DEF NonceInv, TypeOK, Obj
<1>5. ASSUME asked[ObjOf[c]].nonce = None, Running(c)', call'[c].op = "deposit"
      PROVE  call'[c].given = None /\ Stage(c)' # "nonce" /\ Obj(c)'.nonce = count'
  <2>1. Obj(c).nonce = None /\ call[c].op = "deposit"
    BY <1>1, <1>3, <1>4, <1>5 DEF NextNonce
  <2>2. call[c].pos \in Nat \ {0}
    BY CallFacts DEF NonceInv
  <2>. QED
    BY <1>1, <1>3, <1>4, <1>5, <2>1, <2>2, NonceFirst
<1>6. NextNonceOf(c)'
  BY <1>1, <1>3, <1>4, <1>5 DEF NextNonceOf
<1>. QED
  BY <1>1, <1>4, <1>6, OthersNonce

LEMMA NonceBuildDeposit ==
    ASSUME NonceInv, NonceInv', NextNonce, FreshObjects, NEW c \in Calls, BuildDeposit(c)
    PROVE  NextNonce'
<1>1. /\ Running(c) /\ Stage(c) = "build" /\ UNCHANGED <<asked, deposit, count>>
      /\ ~Waiting(c)
  BY DEF BuildDeposit, At, Running, Stage, l1vars, Waiting, Approvals
<1>2. CASE Obj(c).gas \/ Simulates(c, Draft(c))
  <2>1. Advance(c, 1) /\ \A e \in Calls : Obj(e)' = Obj(e)
    BY <1>1, <1>2 DEF BuildDeposit, Obj
  <2>2. call[c].pos \in Nat
    BY CallFacts DEF NonceInv
  <2>. QED
    BY <1>1, <2>1, <2>2, AdvanceFacts, NonceGoesOn
<1>3. CASE ~(Obj(c).gas \/ Simulates(c, Draft(c)))
  <2>1. EndMove(c)
    BY <1>1, <1>3 DEF BuildDeposit, EndMove, Raise, Ends
  <2>. QED
    BY <2>1, NonceEnd
<1>. QED
  BY <1>2, <1>3

LEMMA NonceApproval ==
    ASSUME NonceInv, NonceInv', NextNonce, FreshObjects, NEW c \in Calls,
           NEW k \in Approvals,
           CheckAllowance(c, k) \/ BuildApproval(c, k) \/ ApprovalReceipt(c, k)
    PROVE  NextNonce'
<1>1. /\ Running(c) /\ Stage(c) = k /\ Stage(c) # "nonce" /\ UNCHANGED <<asked, count>>
      /\ call[c].pos \in Nat
  BY CallFacts DEF CheckAllowance, BuildApproval, ApprovalReceipt, At, Running, Stage,
                   l1vars, Approvals, NonceInv
<1>2. CASE CheckAllowance(c, k)
  <2>1. ~Waiting(c) /\ \A e \in Calls : Obj(e)' = Obj(e)
    BY <1>2 DEF CheckAllowance, Waiting, Obj
  <2>2. CASE NeedsApproval(c, k)
    <3>1. call' = [call EXCEPT ![c].sub = "approve"]
      BY <1>2, <2>2 DEF CheckAllowance
    <3>. QED
      BY <1>1, <2>1, <3>1, SubFacts, NonceGoesOn DEF Running
  <2>3. CASE ~NeedsApproval(c, k)
    <3>1. Advance(c, 1)
      BY <1>2, <2>3 DEF CheckAllowance
    <3>. QED
      BY <1>1, <2>1, <3>1, AdvanceFacts, NonceGoesOn
  <2>. QED
    BY <2>2, <2>3
<1>3. CASE BuildApproval(c, k)
  <2>1. ~Waiting(c) /\ \A e \in Calls : Obj(e)' = Obj(e)
    BY <1>3 DEF BuildApproval, Waiting, Obj
  <2>2. call' = [call EXCEPT ![c].sub = "send"]
    BY <1>3 DEF BuildApproval
  <2>. QED
    BY <1>1, <2>1, <2>2, SubFacts, NonceGoesOn DEF Running
<1>4. CASE ApprovalReceipt(c, k)
  <2>. DEFINE d == [Obj(c) EXCEPT !.nonce = NonceAfterApproval(c)]
  <2>1. deposit' = [deposit EXCEPT ![ObjOf[c]] = d] /\ Advance(c, 1)
    BY <1>4 DEF ApprovalReceipt, SetObj
  <2>2. call[c].given = None => d.nonce = count
    BY CallFacts DEF NonceInv, Deposits, NonceAfterApproval
  <2>. HIDE DEF d
  <2>3. /\ Obj(c)' = d
        /\ \A e \in Calls : ObjOf[e] # ObjOf[c] => Obj(e)' = Obj(e)
    BY <2>1, DepositAssumption DEF NonceInv, TypeOK, Obj
  <2>. QED
    BY <1>1, <2>1, <2>2, <2>3, AdvanceFacts, NonceGoesOn
<1>. QED
  BY <1>2, <1>3, <1>4

\* The deposit of a fresh object is not refused: its nonce is the next one.
LEMMA NonceSend ==
    ASSUME NonceInv, NonceInv', ObjectInv, PoolKnown, NextNonce, FreshObjects,
           NEW c \in Calls, NEW k \in Kinds, SendRejected(c, k) \/ SendAccepted(c, k)
    PROVE  NextNonce'
<1>1. /\ Running(c) /\ tx[c][k].status = "built"
      /\ IF k = "deposit" THEN Stage(c) = "send"
         ELSE k \in Approvals /\ Stage(c) = k /\ call[c].sub = "send"
  BY SendingFacts DEF SendRejected, SendAccepted
<1>2. Stage(c) # "nonce" /\ ~Waiting(c) /\ call[c].pos \in Nat
  BY <1>1, CallFacts DEF Approvals, Waiting, NonceInv
<1>3. CASE SendRejected(c, k)
  <2>1. /\ k = "deposit" /\ tx[c][k].nonce < count /\ UNCHANGED <<asked, deposit, count>>
        /\ call' = [call EXCEPT ![c].end = "nonceTooLow"]
    BY <1>3, RejectedFacts DEF l1vars
  <2>2. asked[ObjOf[c]].nonce # None
    <3>. SUFFICES ASSUME asked[ObjOf[c]].nonce = None PROVE FALSE
      OBVIOUS
    <3>1. call[c].op = "deposit"
      BY <1>1, <2>1, StageApprovals
    <3>2. Obj(c).nonce = count
      BY <1>1, <1>2, <3>1 DEF NextNonce
    <3>3. tx[c]["deposit"].nonce = Obj(c).nonce
      BY <1>1, <2>1 DEF ObjectInv, BuiltAsObject
    <3>. QED
      BY <2>1, <3>2, <3>3 DEF NonceInv, TypeOK
  <2>3. NextNonceOf(c)'
    BY <2>1, <2>2 DEF NextNonceOf
  <2>4. \A e \in Calls \ {c} : call'[e] = call[e]
    BY <2>1 DEF NonceInv, TypeOK
  <2>5. \A e \in Calls : Obj(e)' = Obj(e)
    BY <2>1 DEF Obj
  <2>. QED
    BY <2>1, <2>3, <2>4, <2>5, OthersNonce
<1>4. CASE SendAccepted(c, k)
  <2>1. /\ UNCHANGED <<asked, deposit, count>>
        /\ \A e \in Calls \ {c} : call'[e] = call[e]
        /\ call'[c].op = call[c].op /\ call'[c].given = call[c].given
        /\ call'[c].end \in {"running", "returned", "rpcError"}
        /\ call'[c].end = "running" => call'[c].pos = call[c].pos
    BY <1>4, AcceptedFacts DEF l1vars
  <2>2. \A e \in Calls : Obj(e)' = Obj(e)
    BY <2>1 DEF Obj
  <2>. QED
    BY <1>1, <1>2, <2>1, <2>2, NonceGoesOn
<1>. QED
  BY <1>3, <1>4

LEMMA NonceBegin ==
    ASSUME Waits, NonceInv, NonceInv', NextNonce, FreshObjects, NEW c \in Calls, Begin(c)
    PROVE  NextNonce'
<1>1. /\ \A e \in Calls \ {c} : call'[e] = call[e]
      /\ call[c].end = "idle" /\ call'[c].end = "running"
      /\ call'[c].pos = 1 /\ call'[c].given = None
      /\ UNCHANGED <<asked, deposit, count>>
  BY BeginFacts DEF l1vars
<1>2. \A e \in Calls : Obj(e)' = Obj(e)
  BY <1>1 DEF Obj
<1>3. call'[c].op = "deposit" => Stage(c)' = "nonce"
  BY <1>1, NonceFirst DEF Running
<1>4. NextNonceOf(c)'
  BY <1>1, <1>2, <1>3 DEF NextNonceOf, NextNonce
<1>. QED
  BY <1>1, <1>2, <1>4, OthersNonce

\* A running call awaits what is mined.
LEMMA NonceMined ==
    ASSUME NonceInv, PoolKnown, NextNonce, FreshObjects, NEW c \in Calls, NEW k \in Kinds,
           NEW s \in {"ok", "reverted"}, Mining(c, k, s)
    PROVE  NextNonce'
<1>1. /\ UNCHANGED <<asked, deposit, call>>
      /\ \A d \in Calls : Running(d) => Stage(d) \in Approvals /\ call[d].sub = "wait"
  <2>1. MinedMove(c, k, s)
    BY MinedFacts
  <2>. QED
    BY <2>1 DEF MinedMove
<1>2. ASSUME NEW d \in Calls PROVE NextNonceOf(d)'
  <2>1. /\ Obj(d)' = Obj(d) /\ Stage(d)' = Stage(d) /\ call'[d] = call[d]
    BY <1>1 DEF Obj, Stage, ScriptOf
  <2>2. Running(d)' => Waiting(d)'
    BY <1>1, <2>1 DEF Running, Waiting
  <2>. QED
    BY <1>1, <2>1, <2>2 DEF NextNonce, NextNonceOf, Running
<1>. QED
  BY <1>2 DEF NextNonce, NextNonceOf

LEMMA NonceInit == Init => NextNonce
<1>. SUFFICES ASSUME Init PROVE NextNonce
  OBVIOUS
<1>1. deposit = asked /\ \A c \in Calls : call[c].end = "idle"
  BY DEF Init, NewCall
<1>. QED
  BY <1>1 DEF NextNonce, Running, Obj

LEMMA NonceNext ==
    ASSUME Waits, FreshObjects
    PROVE  NonceInv /\ NonceInv' /\ ObjectInv /\ PoolKnown /\ NextNonce /\ [Next]_vars
           => NextNonce'
<1>. SUFFICES ASSUME NonceInv, NonceInv', ObjectInv, PoolKnown, NextNonce, [Next]_vars
              PROVE  NextNonce'
  OBVIOUS
<1>1. ASSUME NEW c \in Calls, Begin(c) PROVE NextNonce'
  BY <1>1, NonceBegin
<1>2. ASSUME NEW c \in Calls, Step(c) \/ RpcFails(c) PROVE NextNonce'
  <2>1. CASE PlainMove(c) \/ EndMove(c)
    BY <2>1, NoncePlain, NonceEnd
  <2>2. CASE DefaultNonce(c) \/ BuildDeposit(c)
    BY <2>2, NonceDefault, NonceBuildDeposit
  <2>3. ASSUME NEW k \in Approvals,
               CheckAllowance(c, k) \/ BuildApproval(c, k) \/ ApprovalReceipt(c, k)
        PROVE  NextNonce'
    BY <2>3, NonceApproval
  <2>4. ASSUME NEW k \in Kinds, SendRejected(c, k) \/ SendAccepted(c, k)
        PROVE  NextNonce'
    BY <2>4, NonceSend
  <2>. QED
    BY <1>2, <2>1, <2>2, <2>3, <2>4, StepKinds
<1>3. ASSUME NEW c \in Calls, Mine(c) PROVE NextNonce'
  BY <1>3, MineKinds, NonceMined
<1>4. CASE ChangeBaseFee \/ UNCHANGED vars
  <2>1. UNCHANGED <<asked, deposit, call, count>>
    BY <1>4 DEF ChangeBaseFee, vars, l1vars
  <2>. QED
    BY <2>1 DEF NextNonce, Running, Waiting, Stage, ScriptOf, Obj
<1>. QED
  BY <1>1, <1>2, <1>3, <1>4 DEF Next

LEMMA NextNonceInvariant == ASSUME Waits, FreshObjects PROVE Spec => []NextNonce
<1>1. Spec => []NonceInv /\ []ObjectInv /\ []PoolKnown
  BY NonceInvariant, ObjectInvariant, PoolInvariant, PTL
<1>2. NonceInv /\ NonceInv' /\ ObjectInv /\ PoolKnown /\ NextNonce /\ [Next]_vars
      => NextNonce'
  BY NonceNext
<1>. QED
  BY <1>1, <1>2, NonceInit, PTL DEF Spec

\* A program that waits and gives each call a fresh object never has a nonce refused:
\* the account's confirmed nonce is enough, the approvals in between included.
THEOREM NoncesAreAccepted == ASSUME Waits, FreshObjects PROVE Spec => []NoncesAccepted
<1>1. NextNonce /\ PoolKnown => NoncesAccepted
  BY DEF NextNonce, PoolKnown, NoncesAccepted
<1>. QED
  BY <1>1, NextNonceInvariant, PoolInvariant, PTL

-----------------------------------------------------------------------------
(***************************************************************************)
(* Allowances that are short until the approval is sent.                   *)
(***************************************************************************)

\* The objects start with what the program asks for.
Requested == asked \in [Objects -> Requests]

LEMMA AskedStays == [Next]_vars => UNCHANGED asked
<1>1. ASSUME NEW c \in Calls, Step(c) PROVE UNCHANGED asked
  BY <1>1 DEF Step, DummyAmount, DefaultNonce, DefaultFees, QuoteFee, PriceDeposit,
     SkipEstimate, PopulateRequest, Simulate, BuildDeposit, ApprovalStep, SendStep,
     CheckAllowance, BuildApproval, ApprovalReceipt, ApprovalTimeout,
     SendRejected, SendAccepted
<1>2. ASSUME NEW c \in Calls, Begin(c) \/ RpcFails(c) \/ Mine(c) PROVE UNCHANGED asked
  BY <1>2 DEF Begin, RpcFails, Mine, MineDeposit, MineApproval
<1>. QED
  BY <1>1, <1>2 DEF Next, ChangeBaseFee, vars

LEMMA RequestedInvariant == Spec => []Requested
<1>1. Init => Requested
  BY DEF Init, Requested
<1>2. Requested /\ [Next]_vars => Requested'
  BY AskedStays DEF Requested
<1>. QED
  BY <1>1, <1>2, PTL DEF Spec

\* The bridge that is approved is the one whose allowance is read.
LEMMA OneSpender ==
    ASSUME SharedBridge, Requested, ObjectInv, NEW c \in Calls, NEW k \in Approvals
    PROVE  ApprovedSpender(c, k) = PullSpender(c, k)
<1>1. /\ asked[ObjOf[c]] \in Requests
      /\ Obj(c).route = asked[ObjOf[c]].route /\ Obj(c).bridge = asked[ObjOf[c]].bridge
  BY DepositAssumption DEF Requested, ObjectInv, ObjectKept
<1>2. Obj(c).route = "tokenOnEth" => Obj(c).bridge = None
  BY <1>1 DEF SharedBridge
<1>. QED
  BY <1>2 DEF ApprovedSpender, PullSpender

\* ShortUntilSent for one call.
ShortOf(c) ==
    \A k \in Approvals :
        Running(c) /\ Stage(c) = k =>
            /\ call[c].sub \in {"approve", "send"} =>
                  allowance[k][ApprovedSpender(c, k)] < NeededAmount(c, k)
            /\ call[c].sub \in {"send", "wait"} => tx[c][k].amount = NeededAmount(c, k)

\* While a call runs, no other does.
LEMMA AloneShort ==
    ASSUME PoolKnown, NEW c \in Calls, Running(c),
           \A e \in Calls \ {c} : call'[e] = call[e],
           ShortOf(c)'
    PROVE  ShortUntilSent'
<1>1. ASSUME NEW e \in Calls \ {c} PROVE ShortOf(e)'
  <2>1. ~Running(e)'
    BY DEF PoolKnown, Running
  <2>. QED
    BY <2>1 DEF ShortOf
<1>2. \A e \in Calls : ShortOf(e)'
  BY <1>1
<1>. QED
  BY <1>2 DEF ShortUntilSent, ShortOf

\* At the start of a stage nothing has been checked.
LEMMA FreshStageShort ==
    ASSUME PoolKnown, NEW c \in Calls, Running(c),
           \A e \in Calls \ {c} : call'[e] = call[e],
           call'[c].end = "running" => call'[c].sub = "check"
    PROVE  ShortUntilSent'
<1>1. ShortOf(c)'
  BY DEF ShortOf, Running
<1>. QED
  BY <1>1, AloneShort

LEMMA ShortCheckAllowance ==
    ASSUME SharedBridge, Requested, NonceInv, ObjectInv, PoolKnown,
           NEW c \in Calls, NEW k \in Approvals, CheckAllowance(c, k)
    PROVE  ShortUntilSent'
<1>1. /\ Running(c) /\ Stage(c) = k /\ UNCHANGED <<deposit, tx, allowance>>
  BY DEF CheckAllowance, At, Running, Stage, l1vars
<1>2. CASE NeedsApproval(c, k)
  <2>1. /\ \A e \in Calls \ {c} : call'[e] = call[e]
        /\ call'[c].op = call[c].op /\ call'[c].end = call[c].end
        /\ call'[c].sub = "approve" /\ call'[c].pos = call[c].pos
        /\ call'[c].mint = call[c].mint
    BY <1>2, SubFacts DEF CheckAllowance
  <2>2. allowance[k][ApprovedSpender(c, k)] < NeededAmount(c, k)
    BY <1>2, OneSpender DEF NeedsApproval, CheckedSpender
  <2>3. /\ Stage(c)' = k
        /\ ApprovedSpender(c, k)' = ApprovedSpender(c, k)
        /\ NeededAmount(c, k)' = NeededAmount(c, k)
    BY <1>1, <2>1 DEF Stage, ScriptOf, Obj, ApprovedSpender, PullSpender, NeededAmount
  <2>4. ShortOf(c)'
    BY <1>1, <2>1, <2>2, <2>3 DEF ShortOf
  <2>. QED
    BY <1>1, <2>1, <2>4, AloneShort
<1>3. CASE ~NeedsApproval(c, k)
  BY <1>1, <1>3, AdvanceFacts, FreshStageShort DEF CheckAllowance
<1>. QED
  BY <1>2, <1>3

LEMMA ShortBuildApproval ==
    ASSUME SharedBridge, NonceInv, PoolKnown, ShortUntilSent,
           NEW c \in Calls, NEW k \in Approvals, BuildApproval(c, k)
    PROVE  ShortUntilSent'
<1>. DEFINE t == [status |-> "built", nonce |-> count, cap |-> NetworkPrice(baseFee),
                  prio |-> NetworkPrice(baseFee), mint |-> 0, value |-> 0,
                  amount |-> NeededAmount(c, k)]
<1>1. /\ Running(c) /\ Stage(c) = k /\ call[c].sub = "approve"
      /\ UNCHANGED <<deposit, allowance>>
      /\ tx' = [tx EXCEPT ![c][k] = t]
      /\ call' = [call EXCEPT ![c].sub = "send"]
  BY DEF BuildApproval, At, Running, Stage, l1vars
<1>2. t.amount = NeededAmount(c, k)
  OBVIOUS
<1>. HIDE DEF t
<1>3. /\ \A e \in Calls \ {c} : call'[e] = call[e]
      /\ call'[c].op = call[c].op /\ call'[c].end = call[c].end
      /\ call'[c].pos = call[c].pos /\ call'[c].mint = call[c].mint
  BY <1>1, SubFacts
<1>4. k \in Kinds /\ tx'[c][k] = t
  BY <1>1 DEF Approvals, Kinds, NonceInv, TypeOK
<1>5. /\ Stage(c)' = k
      /\ ApprovedSpender(c, k)' = ApprovedSpender(c, k)
      /\ NeededAmount(c, k)' = NeededAmount(c, k)
  BY <1>1, <1>3 DEF Stage, ScriptOf, Obj, ApprovedSpender, PullSpender, NeededAmount
<1>6. allowance[k][ApprovedSpender(c, k)] < NeededAmount(c, k)
  BY <1>1 DEF ShortUntilSent
<1>7. ShortOf(c)'
  BY <1>1, <1>2, <1>4, <1>5, <1>6 DEF ShortOf
<1>. QED
  BY <1>1, <1>3, <1>7, AloneShort

LEMMA ShortSend ==
    ASSUME SharedBridge, NonceInv, PoolKnown, ShortUntilSent,
           NEW c \in Calls, NEW k \in Kinds, SendRejected(c, k) \/ SendAccepted(c, k)
    PROVE  ShortUntilSent'
<1>1. /\ Running(c)
      /\ k # "deposit" => k \in Approvals /\ Stage(c) = k /\ call[c].sub = "send"
  BY SendingFacts DEF SendRejected, SendAccepted
<1>2. CASE SendRejected(c, k)
  <2>1. call' = [call EXCEPT ![c].end = "nonceTooLow"]
    BY <1>2, RejectedFacts
  <2>2. call'[c].end # "running" /\ \A e \in Calls \ {c} : call'[e] = call[e]
    BY <2>1 DEF NonceInv, TypeOK, CallStates
  <2>. QED
    BY <1>1, <2>2, FreshStageShort
<1>3. CASE SendAccepted(c, k)
  <2>1. /\ UNCHANGED <<deposit, allowance>>
        /\ \A e \in Calls \ {c} : call'[e] = call[e]
        /\ call'[c].op = call[c].op /\ call'[c].mint = call[c].mint
        /\ call'[c].end = "running" =>
              k # "deposit" /\ call'[c].pos = call[c].pos /\ call'[c].sub = "wait"
        /\ tx'[c][k] = [tx[c][k] EXCEPT !.status = "pending"]
    BY <1>3, AcceptedFacts DEF l1vars
  <2>2. CASE call'[c].end # "running"
    BY <1>1, <2>1, <2>2, FreshStageShort
  <2>3. CASE call'[c].end = "running"
    <3>1. tx'[c][k].amount = tx[c][k].amount
      BY <2>1 DEF NonceInv, TypeOK, L1Txs
    <3>2. Stage(c)' = k /\ NeededAmount(c, k)' = NeededAmount(c, k)
      BY <1>1, <2>1, <2>3 DEF Stage, ScriptOf, Obj, NeededAmount
    <3>3. tx[c][k].amount = NeededAmount(c, k)
      BY <1>1, <2>1, <2>3 DEF ShortUntilSent
    <3>4. ShortOf(c)'
      BY <2>1, <2>3, <3>1, <3>2, <3>3 DEF ShortOf
    <3>. QED
      BY <1>1, <2>1, <3>4, AloneShort
  <2>. QED
    BY <2>2, <2>3
<1>. QED
  BY <1>2, <1>3

\* A running call is past sending the approval that is mined.
LEMMA ShortMined ==
    ASSUME SharedBridge, NonceInv, PoolKnown, ShortUntilSent, NEW c \in Calls,
           NEW k \in Kinds, NEW s \in {"ok", "reverted"}, Mining(c, k, s)
    PROVE  ShortUntilSent'
<1>1. MinedMove(c, k, s)
  BY MinedFacts
<1>2. ASSUME NEW d \in Calls PROVE ShortOf(d)'
  <2>. SUFFICES ASSUME Running(d)' PROVE ShortOf(d)'
    BY DEF ShortOf
  <2>1. /\ Running(d) /\ d = c /\ Stage(d) = k /\ call[d].sub = "wait" /\ k \in Approvals
        /\ UNCHANGED <<deposit, call>>
        /\ tx'[c][k] = [tx[c][k] EXCEPT !.status = s]
    BY <1>1 DEF MinedMove, Running
  <2>2. tx'[c][k].amount = tx[c][k].amount
    BY <2>1 DEF NonceInv, TypeOK, L1Txs
  <2>3. Stage(d)' = k /\ NeededAmount(d, k)' = NeededAmount(d, k)
    BY <2>1 DEF Stage, ScriptOf, Obj, NeededAmount
  <2>4. tx[d][k].amount = NeededAmount(d, k)
    BY <2>1 DEF ShortUntilSent
  <2>. QED
    BY <2>1, <2>2, <2>3, <2>4 DEF ShortOf
<1>. QED
  BY <1>2 DEF ShortUntilSent, ShortOf

LEMMA ShortNext ==
    ASSUME Waits, SharedBridge
    PROVE  Requested /\ NonceInv /\ ObjectInv /\ PoolKnown /\ ShortUntilSent /\ [Next]_vars
           => ShortUntilSent'
<1>. SUFFICES ASSUME Requested, NonceInv, ObjectInv, PoolKnown, ShortUntilSent, [Next]_vars
              PROVE  ShortUntilSent'
  OBVIOUS
<1>1. ASSUME NEW c \in Calls, Begin(c) PROVE ShortUntilSent'
  <2>1. ASSUME NEW e \in Calls PROVE ShortOf(e)'
    <3>1. call'[e].end = "running" => call'[e].sub = "check"
      BY <1>1, BeginFacts DEF Running
    <3>. QED
      BY <3>1 DEF ShortOf, Running
  <2>. QED
    BY <2>1 DEF ShortUntilSent, ShortOf
<1>2. ASSUME NEW c \in Calls, Step(c) \/ RpcFails(c) PROVE ShortUntilSent'
  <2>1. CASE PlainMove(c)
    BY <2>1, FreshStageShort DEF PlainMove
  <2>2. CASE EndMove(c)
    <3>1. PICK why \in Ends \ {"idle", "running", "underpriced", "nonceTooLow"} :
             call' = [call EXCEPT ![c].end = why]
      BY <2>2 DEF EndMove
    <3>2. call'[c].end # "running" /\ \A e \in Calls \ {c} : call'[e] = call[e]
      BY <3>1 DEF NonceInv, TypeOK, CallStates
    <3>. QED
      BY <2>2, <3>2, FreshStageShort DEF EndMove
  <2>3. CASE DefaultNonce(c)
    <3>1. Running(c) /\ call' = [call EXCEPT ![c] = [After(c, 1) EXCEPT !.given = GivenNonce(c)]]
      BY <2>3 DEF DefaultNonce, At, Running
    <3>2. After(c, 1).sub = "check" /\ After(c, 1) \in CallStates
      BY <3>1, AfterMove, AfterFacts DEF NonceInv
    <3>3. call'[c].sub = "check" /\ \A e \in Calls \ {c} : call'[e] = call[e]
      BY <3>1, <3>2 DEF NonceInv, TypeOK, CallStates
    <3>. QED
      BY <3>1, <3>3, FreshStageShort
  <2>4. CASE BuildDeposit(c)
    <3>1. Running(c) /\ (Advance(c, 1) \/ Raise(c, "simulation"))
      BY <2>4 DEF BuildDeposit, At, Running
    <3>2. Raise(c, "simulation") =>
             call'[c].end # "running" /\ \A e \in Calls \ {c} : call'[e] = call[e]
      BY DEF Raise, NonceInv, TypeOK, CallStates
    <3>. QED
      BY <3>1, <3>2, AdvanceFacts, FreshStageShort
  <2>5. ASSUME NEW k \in Approvals, CheckAllowance(c, k) \/ BuildApproval(c, k)
        PROVE  ShortUntilSent'
    BY <2>5, ShortCheckAllowance, ShortBuildApproval
  <2>6. ASSUME NEW k \in Approvals, ApprovalReceipt(c, k) PROVE ShortUntilSent'
    <3>1. Running(c) /\ Advance(c, 1)
      BY <2>6 DEF ApprovalReceipt, At, Running
    <3>. QED
      BY <3>1, AdvanceFacts, FreshStageShort
  <2>7. ASSUME NEW k \in Kinds, SendRejected(c, k) \/ SendAccepted(c, k)
        PROVE  ShortUntilSent'
    BY <2>7, ShortSend
  <2>. QED
    BY <1>2, <2>1, <2>2, <2>3, <2>4, <2>5, <2>6, <2>7, StepKinds
<1>3. ASSUME NEW c \in Calls, Mine(c) PROVE ShortUntilSent'
  BY <1>3, MineKinds, ShortMined
<1>4. CASE ChangeBaseFee \/ UNCHANGED vars
  <2>1. UNCHANGED <<deposit, call, tx, allowance>>
    BY <1>4 DEF ChangeBaseFee, vars, l1vars
  <2>. QED
    BY <2>1 DEF ShortUntilSent, Running, Stage, ScriptOf, Obj, ApprovedSpender,
                PullSpender, NeededAmount
<1>. QED
  BY <1>1, <1>2, <1>3, <1>4 DEF Next

LEMMA ShortInit == Init => ShortUntilSent
<1>. SUFFICES ASSUME Init PROVE ShortUntilSent
  OBVIOUS
<1>1. \A c \in Calls : ~Running(c)
  BY DEF Init, NewCall, Running
<1>. QED
  BY <1>1 DEF ShortUntilSent

LEMMA ShortInvariant == ASSUME Waits, SharedBridge PROVE Spec => []ShortUntilSent
<1>1. Spec => []NonceInv /\ []ObjectInv /\ []PoolKnown /\ []Requested
  BY NonceInvariant, ObjectInvariant, PoolInvariant, RequestedInvariant, PTL
<1>2. Requested /\ NonceInv /\ ObjectInv /\ PoolKnown /\ ShortUntilSent /\ [Next]_vars
      => ShortUntilSent'
  BY ShortNext
<1>. QED
  BY <1>1, <1>2, ShortInit, PTL DEF Spec

\* Only SendAccepted puts an approval in the pool.
LEMMA PendingIsSent ==
    ASSUME NonceInv, [Next]_vars, NEW c \in Calls, NEW k \in Approvals,
           tx[c][k].status = "built", tx'[c][k].status = "pending"
    PROVE  Sending(c, k)
<1>. k \in Kinds /\ k # "deposit" /\ tx \in [Calls -> [Kinds -> L1Txs]]
  BY DEF Approvals, Kinds, NonceInv, TypeOK
<1>1. ASSUME UNCHANGED tx PROVE FALSE
  BY <1>1
<1>2. ASSUME NEW d \in Calls, Step(d) \/ RpcFails(d) PROVE Sending(c, k)
  <2>1. CASE PlainMove(d) \/ EndMove(d) \/ DefaultNonce(d)
    BY <1>1, <2>1 DEF PlainMove, EndMove, DefaultNonce
  <2>2. CASE BuildDeposit(d)
    <3>1. tx'[c][k] = tx[c][k]
      BY <2>2 DEF BuildDeposit
    <3>. QED
      BY <3>1
  <2>3. ASSUME NEW j \in Approvals, CheckAllowance(d, j) \/ ApprovalReceipt(d, j)
        PROVE  FALSE
    BY <1>1, <2>3 DEF CheckAllowance, ApprovalReceipt
  <2>4. ASSUME NEW j \in Approvals, BuildApproval(d, j) PROVE FALSE
    <3>1. tx'[c][k].status \in {"built", tx[c][k].status}
      <4>1. CASE c = d /\ k = j
        BY <2>4, <4>1 DEF BuildApproval
      <4>2. CASE ~(c = d /\ k = j)
        BY <2>4, <4>2 DEF BuildApproval
      <4>. QED
        BY <4>1, <4>2
    <3>. QED
      BY <3>1
  <2>5. ASSUME NEW j \in Kinds, SendRejected(d, j) PROVE FALSE
    <3>1. tx'[c][k].status \in {"rejected", tx[c][k].status}
      <4>1. CASE c = d /\ k = j
        BY <2>5, <4>1 DEF SendRejected, L1Txs
      <4>2. CASE ~(c = d /\ k = j)
        BY <2>5, <4>2 DEF SendRejected
      <4>. QED
        BY <4>1, <4>2
    <3>. QED
      BY <3>1
  <2>6. ASSUME NEW j \in Kinds, SendAccepted(d, j) PROVE Sending(c, k)
    <3>1. CASE c = d /\ k = j
      BY <2>6, <3>1 DEF SendAccepted
    <3>2. CASE ~(c = d /\ k = j)
      <4>1. tx'[c][k] \in {tx[c][k], [tx[c][k] EXCEPT !.status = "dropped"]}
        BY <2>6, <3>2 DEF SendAccepted
      <4>. QED
        BY <4>1 DEF L1Txs
    <3>. QED
      BY <3>1, <3>2
  <2>. QED
    BY <1>2, <2>1, <2>2, <2>3, <2>4, <2>5, <2>6, StepKinds
<1>3. ASSUME NEW d \in Calls, Mine(d) PROVE FALSE
  <2>1. PICK j \in Kinds, s \in {"ok", "reverted"} : tx' = [tx EXCEPT ![d][j].status = s]
    BY <1>3, MineKinds DEF Mining
  <2>2. CASE c = d /\ k = j
    <3>1. tx'[c][k].status = s
      BY <2>1, <2>2 DEF L1Txs
    <3>. QED
      BY <3>1
  <2>3. CASE ~(c = d /\ k = j)
    BY <2>1, <2>3
  <2>. QED
    BY <2>2, <2>3
<1>4. ASSUME NEW d \in Calls, Begin(d) PROVE FALSE
  BY <1>1, <1>4 DEF Begin
<1>5. CASE ChangeBaseFee \/ UNCHANGED vars
  BY <1>1, <1>5 DEF ChangeBaseFee, vars
<1>. QED
  BY <1>2, <1>3, <1>4, <1>5 DEF Next

\* An approval is sent only where the allowance falls short, at the moment it is
\* sent: between the check and the send nothing of a program that waits is mined.
THEOREM ApprovedWhenShort ==
    ASSUME Waits, SharedBridge PROVE Spec => ApprovalOnlyWhenShort
<1>1. Spec => []NonceInv /\ []PoolKnown
  BY NonceInvariant, PoolInvariant, PTL
<1>2. Spec => []ShortUntilSent
  BY ShortInvariant
<1>3. NonceInv /\ PoolKnown /\ ShortUntilSent /\ [Next]_vars
      => [\A c \in Calls, k \in Approvals :
             tx[c][k].status = "built" /\ tx'[c][k].status = "pending"
             => allowance[k][ApprovedSpender(c, k)] < tx[c][k].amount]_vars
  <2>. SUFFICES ASSUME NonceInv, PoolKnown, ShortUntilSent, [Next]_vars,
                       NEW c \in Calls, NEW k \in Approvals,
                       tx[c][k].status = "built", tx'[c][k].status = "pending"
                PROVE  allowance[k][ApprovedSpender(c, k)] < tx[c][k].amount
    OBVIOUS
  <2>1. Sending(c, k) /\ k \in Kinds
    BY PendingIsSent DEF Approvals, Kinds
  <2>2. Running(c) /\ Stage(c) = k /\ call[c].sub = "send"
    BY <2>1, SendingFacts DEF Approvals
  <2>. QED
    BY <2>2 DEF ShortUntilSent
<1>. QED
  BY <1>1, <1>2, <1>3, PTL DEF Spec, ApprovalOnlyWhenShort

-----------------------------------------------------------------------------
(***************************************************************************)
(* Allowances that suffice once the approval is over.                      *)
(***************************************************************************)

\* No script approves a token twice.
LEMMA ScriptOnce ==
    ASSUME NEW o \in Methods, NEW r \in Routes, NEW i \in 1..Len(Script(o, r)),
           NEW j \in 1..(i - 1), Script(o, r)[i] \in Approvals
    PROVE  Script(o, r)[j] # Script(o, r)[i]
<1>. USE DEF Script, Builder, Submit, Measure, DirectRoutes, Methods, Approvals
<1>1. CASE r = "ethOnEth"
  BY <1>1, SMT
<1>2. CASE r = "tokenOnEth"
  BY <1>2, SMT
<1>3. CASE r = "ethOnNonEth"
  BY <1>3, SMT
<1>4. CASE r = "baseOnNonEth"
  BY <1>4, SMT
<1>5. CASE r = "nonBaseOnNonEth"
  BY <1>5, SMT
<1>. QED
  BY <1>1, <1>2, <1>3, <1>4, <1>5 DEF Routes

\* A call at the approval of kind k, not yet awaiting it, has not got over it.
LEMMA NotYetApproved ==
    ASSUME NonceInv, NEW c \in Calls, Running(c), NEW k \in Approvals, Stage(c) = k
    PROVE  Approved(c, k) => call[c].sub = "wait" /\ Mined(c, k)
<1>1. /\ call[c].pos \in 1..Len(ScriptOf(c))
      /\ call[c].op \in Methods /\ Obj(c).route \in Routes
  BY CallFacts DEF NonceInv, InScript
<1>2. \A i \in 1..(call[c].pos - 1) : ScriptOf(c)[i] # k
  BY <1>1, ScriptOnce DEF ScriptOf, Stage
<1>. QED
  BY <1>2 DEF Approved

\* Past a stage, a call has got over what it had before, and that stage.
LEMMA ApprovedBefore ==
    ASSUME NonceInv, NEW c \in Calls, Running(c), NEW k \in Approvals,
           ScriptOf(c)' = ScriptOf(c), call'[c].sub = "check",
           call'[c].pos = call[c].pos + 1, Approved(c, k)'
    PROVE  Approved(c, k) \/ Stage(c) = k
<1>1. call[c].pos \in Nat \ {0}
  BY CallFacts DEF NonceInv
<1>2. PICK i \in 1..(call'[c].pos - 1) : ScriptOf(c)[i] = k
  BY DEF Approved
<1>3. i \in 1..(call[c].pos - 1) \/ i = call[c].pos
  BY <1>1, <1>2
<1>. QED
  BY <1>2, <1>3 DEF Approved, Stage

\* The same of the pricing.
LEMMA CostedBefore ==
    ASSUME NonceInv, NEW c \in Calls, Running(c), ScriptOf(c)' = ScriptOf(c),
           call'[c].pos = call[c].pos + 1, Costed(c, call[c])'
    PROVE  Costed(c, call[c]) \/ Stage(c) = "cost"
<1>1. call[c].pos \in Nat \ {0}
  BY CallFacts DEF NonceInv
<1>2. PICK i \in 1..(call'[c].pos - 1) : ScriptOf(c)[i] = "cost"
  BY DEF Costed
<1>3. i \in 1..(call[c].pos - 1) \/ i = call[c].pos
  BY <1>1, <1>2
<1>. QED
  BY <1>2, <1>3 DEF Costed, Stage

\* What the builder mints for a deposit is not nothing.
LEMMA MintIsSome ==
    ASSUME FairCost > 0, NonceInv, NEW c \in Calls, Obj(c).route # "ethOnEth"
    PROVE  MintValue(Obj(c)) > 0
<1>1. Obj(c) \in Deposits /\ baseFee \in BaseFees /\ FairCost \in Nat
  BY CallFacts, FeesAssumption DEF NonceInv, TypeOK
<1>2. EstimationPrice(Obj(c), baseFee) \in Nat
  BY <1>1, FeesAreNat
<1>3. Cost(Obj(c)) > 0 /\ Cost(Obj(c)) \in Nat
  BY <1>1, <1>2 DEF Cost, BaseCost
<1>4. Obj(c).tip \in Nat /\ Obj(c).amount \in Nat
  BY <1>1 DEF Deposits
<1>. QED
  BY <1>3, <1>4 DEF MintValue

\* CoveredOnceApproved for one call: the mint value, the allowances of a running call,
\* and those of a deposit that is built or sent.
MintOf(c) ==
    Running(c) /\ Costed(c, call[c]) /\ Obj(c).route # "ethOnEth" => call[c].mint > 0

CoveredOf(c) ==
    \A k \in Pulled(Obj(c).route) :
        Flagged(c, k) /\ tx[c][k].status # "reverted" =>
            (Running(c) /\ Approved(c, k)
             => allowance[k][PullSpender(c, k)] >= NeededAmount(c, k))

SentOf(c) ==
    tx[c]["deposit"].status = "pending"
    \/ (Running(c) /\ tx[c]["deposit"].status = "built") =>
        \A k \in Pulled(Obj(c).route) :
            Flagged(c, k) /\ tx[c][k].status # "reverted"
            => AllowanceCovers(c, tx[c]["deposit"], k)

LEMMA CoveredParts ==
    ASSUME SharedBridge, FairCost > 0
    PROVE  CoveredOnceApproved <=> \A c \in Calls : MintOf(c) /\ CoveredOf(c) /\ SentOf(c)
BY DEF CoveredOnceApproved, MintOf, CoveredOf, SentOf

\* While a call runs, no other does, and none of their deposits is in the pool.
LEMMA AloneCovered ==
    ASSUME SharedBridge, FairCost > 0, PoolKnown, NEW c \in Calls, Running(c),
           \A e \in Calls \ {c} : call'[e] = call[e] /\ tx'[e] = tx[e],
           MintOf(c)', CoveredOf(c)', SentOf(c)'
    PROVE  CoveredOnceApproved'
<1>1. ASSUME NEW e \in Calls \ {c} PROVE MintOf(e)' /\ CoveredOf(e)' /\ SentOf(e)'
  <2>1. ~Running(e)'
    BY DEF PoolKnown, Running
  <2>2. tx'[e]["deposit"].status # "pending"
    BY DEF PoolKnown, Kinds
  <2>. QED
    BY <2>1, <2>2 DEF MintOf, CoveredOf, SentOf
<1>2. \A e \in Calls : MintOf(e)' /\ CoveredOf(e)' /\ SentOf(e)'
  BY <1>1
<1>. QED
  BY <1>2 DEF CoveredOnceApproved, MintOf, CoveredOf, SentOf

\* Before its send stage a running call has no deposit on the way.
LEMMA UnsentYet ==
    ASSUME PoolKnown, NEW c \in Calls, Running(c), Stage(c) # "send",
           tx'[c]["deposit"] = tx[c]["deposit"]
    PROVE  SentOf(c)'
<1>1. tx[c]["deposit"].status \notin {"pending", "built"}
  BY DEF PoolKnown, Kinds, Waiting, Approvals
<1>. QED
  BY <1>1 DEF SentOf

\* A call that ends has nothing to be covered but a deposit it has sent.
LEMMA EndedCovered ==
    ASSUME PoolKnown, NEW c \in Calls, Running(c), ~Running(c)',
           tx'[c]["deposit"] = tx[c]["deposit"]
    PROVE  MintOf(c)' /\ CoveredOf(c)' /\ SentOf(c)'
<1>1. tx[c]["deposit"].status # "pending"
  BY DEF PoolKnown, Kinds, Waiting, Approvals
<1>. QED
  BY <1>1 DEF MintOf, CoveredOf, SentOf

\* A call goes on to its next stage without pricing anything, and what it approves
\* there is covered.
LEMMA CoveredGoesOn ==
    ASSUME SharedBridge, FairCost > 0, NonceInv, ObjectInv, ObjectInv', NEW c \in Calls,
           MintOf(c), CoveredOf(c), Running(c), Stage(c) # "cost",
           UNCHANGED <<asked, allowance>>,
           call'[c].op = call[c].op,
           \A k \in Approvals : tx'[c][k] = tx[c][k],
           call'[c].end = "running" =>
              /\ call'[c].sub = "check"
              /\ call'[c].pos = call[c].pos + 1
              /\ call'[c].mint = call[c].mint
              /\ Obj(c)'.amount = Obj(c).amount,
           \A k \in Pulled(Obj(c).route) :
              Stage(c) = k /\ Flagged(c, k) /\ tx[c][k].status # "reverted"
              => allowance[k][PullSpender(c, k)] >= NeededAmount(c, k)
    PROVE  MintOf(c)' /\ CoveredOf(c)'
<1>1. /\ Obj(c)'.route = Obj(c).route
      /\ ScriptOf(c)' = ScriptOf(c)
      /\ \A k \in Approvals :
            /\ PullSpender(c, k)' = PullSpender(c, k)
            /\ Flagged(c, k)' <=> Flagged(c, k)
  BY SameScripts
<1>2. MintOf(c)'
  BY <1>1, CostedBefore DEF MintOf, Running
<1>3. ASSUME NEW k \in Pulled(Obj(c).route), Flagged(c, k), tx[c][k].status # "reverted",
             Running(c)', Approved(c, k)'
      PROVE  allowance'[k][PullSpender(c, k)'] >= NeededAmount(c, k)'
  <2>1. k \in Approvals
    BY DEF Pulled
  <2>2. Approved(c, k) \/ Stage(c) = k
    BY <1>1, <1>3, <2>1, ApprovedBefore DEF Running
  <2>3. allowance[k][PullSpender(c, k)] >= NeededAmount(c, k)
    BY <1>3, <2>2 DEF CoveredOf
  <2>4. NeededAmount(c, k)' = NeededAmount(c, k)
    BY <1>3 DEF NeededAmount, Running
  <2>. QED
    BY <1>1, <2>1, <2>3, <2>4
<1>4. CoveredOf(c)'
  <2>. SUFFICES ASSUME NEW k \in Pulled(Obj(c)'.route), Flagged(c, k)',
                       tx'[c][k].status # "reverted", Running(c)', Approved(c, k)'
                PROVE  allowance'[k][PullSpender(c, k)'] >= NeededAmount(c, k)'
    BY DEF CoveredOf
  <2>1. k \in Pulled(Obj(c).route) /\ k \in Approvals
    BY <1>1 DEF Pulled
  <2>2. Flagged(c, k) /\ tx[c][k].status # "reverted"
    BY <1>1, <2>1
  <2>. QED
    BY <1>3, <2>1, <2>2
<1>. QED
  BY <1>2, <1>4

\* A call goes on within the approval of kind k, which is not over.
LEMMA CoveredStays ==
    ASSUME SharedBridge, FairCost > 0, NonceInv, ObjectInv, ObjectInv', NEW c \in Calls,
           MintOf(c), CoveredOf(c), Running(c), NEW k \in Approvals, Stage(c) = k,
           call[c].sub # "wait",
           UNCHANGED <<asked, deposit, allowance>>,
           call'[c].op = call[c].op,
           \A j \in Approvals \ {k} : tx'[c][j] = tx[c][j],
           call'[c].end = "running" =>
              /\ call'[c].pos = call[c].pos
              /\ call'[c].mint = call[c].mint
              /\ call'[c].sub = "wait" => ~Mined(c, k)'
    PROVE  MintOf(c)' /\ CoveredOf(c)'
<1>1. /\ Obj(c)' = Obj(c)
      /\ ScriptOf(c)' = ScriptOf(c)
      /\ \A j \in Approvals :
            /\ PullSpender(c, j)' = PullSpender(c, j)
            /\ Flagged(c, j)' <=> Flagged(c, j)
  BY SameScripts DEF Obj
<1>2. MintOf(c)'
  BY <1>1 DEF MintOf, Running, Costed
<1>3. CoveredOf(c)'
  <2>. SUFFICES ASSUME NEW j \in Pulled(Obj(c)'.route), Flagged(c, j)',
                       tx'[c][j].status # "reverted", Running(c)', Approved(c, j)'
                PROVE  allowance'[j][PullSpender(c, j)'] >= NeededAmount(c, j)'
    BY DEF CoveredOf
  <2>1. j \in Pulled(Obj(c).route) /\ j \in Approvals
    BY <1>1 DEF Pulled
  <2>2. Stage(c)' = k
    BY <1>1 DEF Stage, Running
  <2>3. \/ \E i \in 1..(call[c].pos - 1) : ScriptOf(c)[i] = j
        \/ j = k /\ call'[c].sub = "wait" /\ Mined(c, j)'
    BY <1>1, <2>2 DEF Approved, Running
  <2>4. \E i \in 1..(call[c].pos - 1) : ScriptOf(c)[i] = j
    BY <2>3 DEF Running
  <2>5. Approved(c, j) /\ j # k
    BY <2>1, <2>4, NotYetApproved DEF Approved
  <2>6. Flagged(c, j) /\ tx[c][j].status # "reverted"
    BY <1>1, <2>1, <2>5
  <2>7. allowance[j][PullSpender(c, j)] >= NeededAmount(c, j)
    BY <2>1, <2>5, <2>6 DEF CoveredOf
  <2>8. NeededAmount(c, j)' = NeededAmount(c, j)
    BY <1>1 DEF NeededAmount, Running
  <2>. QED
    BY <1>1, <2>1, <2>7, <2>8
<1>. QED
  BY <1>2, <1>3

LEMMA CoveredPlain ==
    ASSUME SharedBridge, FairCost > 0, NonceInv, ObjectInv, ObjectInv', PoolKnown,
           CoveredOnceApproved, NEW c \in Calls, PlainMove(c)
    PROVE  CoveredOnceApproved'
<1>1. /\ Running(c) /\ Stage(c) \notin Approvals \cup {"nonce", "build", "send"}
      /\ UNCHANGED <<asked, tx, allowance>>
      /\ \A e \in Calls \ {c} : call'[e] = call[e]
      /\ call'[c].op = call[c].op
  BY DEF PlainMove, l1vars
<1>2. /\ Obj(c)'.route = Obj(c).route
      /\ ScriptOf(c)' = ScriptOf(c)
      /\ \A k \in Approvals :
            /\ PullSpender(c, k)' = PullSpender(c, k)
            /\ Flagged(c, k)' <=> Flagged(c, k)
  BY <1>1, SameScripts
<1>3. MintOf(c) /\ CoveredOf(c)
  BY CoveredParts
<1>4. CASE ~Running(c)'
  BY <1>1, <1>4, EndedCovered, AloneCovered
<1>5. CASE Running(c)'
  <2>1. /\ call'[c].sub = "check"
        /\ call'[c].pos = call[c].pos + 1 \/ (Stage(c) = "gas" /\ call'[c].pos = call[c].pos + 4)
        /\ Stage(c) \notin {"cost", "request"} => call'[c].mint = call[c].mint
        /\ Stage(c) = "cost" => call'[c].mint = MintValue(Obj(c))
        /\ Stage(c) = "request" /\ Obj(c).route # "ethOnEth" /\ call[c].mint > 0 =>
              call'[c].mint = call[c].mint
        /\ Stage(c) # "dummy" => Obj(c)'.amount = Obj(c).amount
    BY <1>5 DEF PlainMove, Running
  <2>2. MintOf(c)'
    <3>. SUFFICES ASSUME Costed(c, call[c])', Obj(c).route # "ethOnEth"
                  PROVE  call'[c].mint > 0
      BY <1>2 DEF MintOf
    <3>1. CASE Stage(c) = "cost"
      BY <2>1, <3>1, MintIsSome
    <3>2. CASE Stage(c) # "cost"
      <4>1. Costed(c, call[c])
        BY <1>1, <1>2, <2>1, <3>2, CostedBefore, StagePlaces
      <4>2. call[c].mint > 0
        BY <1>1, <1>3, <4>1 DEF MintOf
      <4>. QED
        BY <2>1, <3>2, <4>2
    <3>. QED
      BY <3>1, <3>2
  <2>3. CoveredOf(c)'
    <3>. SUFFICES ASSUME NEW k \in Pulled(Obj(c)'.route), Flagged(c, k)',
                         tx'[c][k].status # "reverted", Approved(c, k)'
                  PROVE  allowance'[k][PullSpender(c, k)'] >= NeededAmount(c, k)'
      BY DEF CoveredOf
    <3>1. k \in Pulled(Obj(c).route) /\ k \in Approvals
      BY <1>2 DEF Pulled
    <3>2. Approved(c, k)
      <4>1. CASE Stage(c) = "gas"
        BY <1>1, <3>1, <4>1, StageApprovals DEF Approved
      <4>2. CASE Stage(c) # "gas"
        BY <1>1, <1>2, <2>1, <3>1, <4>2, ApprovedBefore
      <4>. QED
        BY <4>1, <4>2
    <3>3. \E i \in 1..(call[c].pos - 1) : ScriptOf(c)[i] = k
      BY <1>1, <3>1, <3>2 DEF Approved
    <3>4. k = "token" => Obj(c)'.amount = Obj(c).amount
      <4>1. Stage(c) # "dummy"
        <5>. SUFFICES ASSUME Stage(c) = "dummy" PROVE FALSE
          OBVIOUS
        <5>1. call[c].pos = 1
          BY <1>1, StageApprovals
        <5>. QED
          BY <3>3, <5>1
      <4>. QED
        BY <2>1, <4>1
    <3>5. k = "base" => call'[c].mint = call[c].mint
      <4>. SUFFICES ASSUME k = "base" PROVE call'[c].mint = call[c].mint
        OBVIOUS
      <4>1. Stage(c) # "cost"
        BY <1>1, <3>3, StageApprovals
      <4>2. CASE Stage(c) = "request"
        <5>1. Costed(c, call[c]) /\ Obj(c).route # "ethOnEth"
          BY <1>1, <3>1, <4>2, StagePlaces DEF Pulled, EthRoutes
        <5>. QED
          BY <1>1, <1>3, <2>1, <4>2, <5>1 DEF MintOf
      <4>. QED
        BY <2>1, <4>1, <4>2
    <3>6. NeededAmount(c, k)' = NeededAmount(c, k)
      BY <3>1, <3>4, <3>5 DEF NeededAmount, Approvals
    <3>7. allowance[k][PullSpender(c, k)] >= NeededAmount(c, k)
      BY <1>1, <1>2, <1>3, <3>1, <3>2 DEF CoveredOf
    <3>. QED
      BY <1>1, <1>2, <3>1, <3>6, <3>7
  <2>. QED
    BY <1>1, <2>2, <2>3, UnsentYet, AloneCovered
<1>. QED
  BY <1>4, <1>5

LEMMA CoveredEnd ==
    ASSUME SharedBridge, FairCost > 0, NonceInv, PoolKnown, CoveredOnceApproved,
           NEW c \in Calls, EndMove(c)
    PROVE  CoveredOnceApproved'
<1>1. PICK why \in Ends \ {"idle", "running", "underpriced", "nonceTooLow"} :
         call' = [call EXCEPT ![c].end = why]
  BY DEF EndMove
<1>2. call'[c].end = why /\ \A e \in Calls \ {c} : call'[e] = call[e]
  BY <1>1 DEF NonceInv, TypeOK, CallStates
<1>3. Running(c) /\ ~Running(c)' /\ UNCHANGED tx
  BY <1>2 DEF EndMove, Running
<1>. QED
  BY <1>2, <1>3, EndedCovered, AloneCovered

LEMMA CoveredDefaultNonce ==
    ASSUME SharedBridge, FairCost > 0, NonceInv, ObjectInv, ObjectInv', PoolKnown,
           CoveredOnceApproved, NEW c \in Calls, DefaultNonce(c)
    PROVE  CoveredOnceApproved'
<1>. DEFINE d == [Obj(c) EXCEPT !.nonce = IF @ = None THEN count ELSE @]
            n == [After(c, 1) EXCEPT !.given = GivenNonce(c)]
<1>1. /\ Running(c) /\ Stage(c) = "nonce" /\ UNCHANGED <<asked, tx, allowance>>
      /\ deposit' = [deposit EXCEPT ![ObjOf[c]] = d]
      /\ call' = [call EXCEPT ![c] = n]
  BY DEF DefaultNonce, At, Running, Stage, SetObj, l1vars
<1>2. /\ Obj(c) \in Deposits /\ After(c, 1) \in CallStates
      /\ After(c, 1).op = call[c].op /\ After(c, 1).sub = "check"
      /\ After(c, 1).pos = call[c].pos + 1 /\ After(c, 1).mint = call[c].mint
  BY <1>1, CallFacts, AfterFacts, AfterMove DEF NonceInv
<1>3. /\ d.amount = Obj(c).amount
      /\ n.op = call[c].op /\ n.sub = "check" /\ n.pos = call[c].pos + 1
      /\ n.mint = call[c].mint
  BY <1>2 DEF Deposits, CallStates
<1>. HIDE DEF d, n
<1>4. /\ Obj(c)' = d /\ call'[c] = n
      /\ \A e \in Calls \ {c} : call'[e] = call[e]
  BY <1>1, DepositAssumption DEF NonceInv, TypeOK, Obj
<1>5. MintOf(c) /\ CoveredOf(c)
  BY CoveredParts
<1>6. MintOf(c)' /\ CoveredOf(c)'
  <2>1. \A k \in Pulled(Obj(c).route) : Stage(c) # k
    BY <1>1 DEF Pulled, Approvals
  <2>2. \A k \in Approvals : tx'[c][k] = tx[c][k]
    BY <1>1
  <2>. QED
    BY <1>1, <1>3, <1>4, <1>5, <2>1, <2>2, CoveredGoesOn
<1>. QED
  BY <1>1, <1>4, <1>6, UnsentYet, AloneCovered

\* A deposit is built when every token it pulls is covered.
LEMMA CoveredBuildDeposit ==
    ASSUME SharedBridge, FairCost > 0, NonceInv, ObjectInv, ObjectInv', PoolKnown,
           CoveredOnceApproved, NEW c \in Calls, BuildDeposit(c)
    PROVE  CoveredOnceApproved'
<1>1. /\ Running(c) /\ Stage(c) = "build" /\ UNCHANGED <<asked, deposit, allowance>>
  BY DEF BuildDeposit, At, Running, Stage, l1vars
<1>2. MintOf(c) /\ CoveredOf(c)
  BY CoveredParts
<1>3. CASE Obj(c).gas \/ Simulates(c, Draft(c))
  <2>1. tx' = [tx EXCEPT ![c]["deposit"] = Draft(c)] /\ Advance(c, 1)
    BY <1>3 DEF BuildDeposit
  <2>2. /\ tx'[c]["deposit"] = Draft(c)
        /\ \A k \in Approvals : tx'[c][k] = tx[c][k]
        /\ \A e \in Calls \ {c} : tx'[e] = tx[e]
    BY <2>1 DEF NonceInv, TypeOK, Kinds, Approvals
  <2>3. /\ \A e \in Calls \ {c} : call'[e] = call[e]
        /\ call'[c].op = call[c].op /\ call'[c].sub = "check"
        /\ call'[c].pos = call[c].pos + 1 /\ call'[c].mint = call[c].mint
    BY <1>1, <2>1, AdvanceFacts
  <2>4. Obj(c)' = Obj(c)
    BY <1>1 DEF Obj
  <2>5. MintOf(c)' /\ CoveredOf(c)'
    <3>1. \A k \in Pulled(Obj(c).route) : Stage(c) # k
      BY <1>1 DEF Pulled, Approvals
    <3>. QED
      BY <1>1, <1>2, <2>2, <2>3, <2>4, <3>1, CoveredGoesOn
  <2>6. SentOf(c)'
    <3>. SUFFICES ASSUME NEW k \in Pulled(Obj(c).route), Flagged(c, k)',
                         tx'[c][k].status # "reverted"
                  PROVE  AllowanceCovers(c, tx[c]["deposit"], k)'
      BY <2>4 DEF SentOf
    <3>1. k \in Approvals /\ Flagged(c, k) /\ tx[c][k].status # "reverted"
      BY <2>2, <2>4 DEF Pulled, Flagged
    <3>2. Approved(c, k)
      BY <1>1, StageApprovals DEF Approved
    <3>3. allowance[k][PullSpender(c, k)] >= NeededAmount(c, k)
      BY <1>1, <1>2, <3>1, <3>2 DEF CoveredOf
    <3>4. PullAmount(Draft(c), k) = NeededAmount(c, k)
      BY DEF PullAmount, Draft, NeededAmount
    <3>5. allowance'[k][PullSpender(c, k)'] >= PullAmount(tx'[c]["deposit"], k)
      BY <1>1, <2>2, <2>4, <3>3, <3>4 DEF PullSpender
    <3>. QED
      BY <3>5 DEF AllowanceCovers
  <2>. QED
    BY <1>1, <2>2, <2>3, <2>5, <2>6, AloneCovered
<1>4. CASE ~(Obj(c).gas \/ Simulates(c, Draft(c)))
  <2>1. EndMove(c)
    BY <1>4 DEF BuildDeposit, EndMove, Raise, Ends, At, Running
  <2>. QED
    BY <2>1, CoveredEnd
<1>. QED
  BY <1>3, <1>4

LEMMA CoveredApproval ==
    ASSUME SharedBridge, FairCost > 0, NonceInv, ObjectInv, ObjectInv', PoolKnown,
           CoveredOnceApproved, NEW c \in Calls, NEW k \in Approvals,
           CheckAllowance(c, k) \/ BuildApproval(c, k) \/ ApprovalReceipt(c, k)
    PROVE  CoveredOnceApproved'
<1>1. /\ Running(c) /\ Stage(c) = k /\ Stage(c) \notin {"cost", "send"}
      /\ UNCHANGED <<asked, allowance>>
  BY DEF CheckAllowance, BuildApproval, ApprovalReceipt, At, Running, Stage, l1vars, Approvals
<1>2. MintOf(c) /\ CoveredOf(c)
  BY CoveredParts
<1>3. CASE CheckAllowance(c, k) /\ NeedsApproval(c, k)
  <2>1. /\ call[c].sub = "check" /\ UNCHANGED <<deposit, tx>>
        /\ call' = [call EXCEPT ![c].sub = "approve"]
    BY <1>3 DEF CheckAllowance
  <2>2. /\ \A e \in Calls \ {c} : call'[e] = call[e]
        /\ call'[c].op = call[c].op /\ call'[c].sub = "approve"
        /\ call'[c].pos = call[c].pos /\ call'[c].mint = call[c].mint
    BY <2>1, SubFacts
  <2>3. MintOf(c)' /\ CoveredOf(c)'
    BY <1>1, <1>2, <2>1, <2>2, CoveredStays
  <2>. QED
    BY <1>1, <2>1, <2>2, <2>3, UnsentYet, AloneCovered
<1>4. CASE CheckAllowance(c, k) /\ ~NeedsApproval(c, k)
  <2>1. UNCHANGED <<deposit, tx>> /\ Advance(c, 1)
    BY <1>4 DEF CheckAllowance
  <2>2. /\ \A e \in Calls \ {c} : call'[e] = call[e]
        /\ call'[c].op = call[c].op /\ call'[c].sub = "check"
        /\ call'[c].pos = call[c].pos + 1 /\ call'[c].mint = call[c].mint
    BY <1>1, <2>1, AdvanceFacts
  <2>3. Flagged(c, k) => allowance[k][PullSpender(c, k)] >= NeededAmount(c, k)
    <3>1. /\ allowance \in [Approvals -> [Bridges -> Nat]] /\ Obj(c) \in Deposits
          /\ call[c] \in CallStates
      BY CallFacts DEF NonceInv, TypeOK
    <3>2. allowance[k][PullSpender(c, k)] \in Nat /\ NeededAmount(c, k) \in Nat
      BY <3>1, FeesAssumption
         DEF PullSpender, Bridges, NeededAmount, Deposits, CallStates, Optional
    <3>. QED
      BY <1>4, <3>2 DEF NeedsApproval, CheckedSpender
  <2>4. \A j \in Pulled(Obj(c).route) :
           Stage(c) = j /\ Flagged(c, j) /\ tx[c][j].status # "reverted"
           => allowance[j][PullSpender(c, j)] >= NeededAmount(c, j)
    BY <1>1, <2>3
  <2>5. /\ Obj(c)' = Obj(c) /\ \A j \in Approvals : tx'[c][j] = tx[c][j]
    BY <2>1 DEF Obj
  <2>6. MintOf(c)' /\ CoveredOf(c)'
    BY <1>1, <1>2, <2>2, <2>4, <2>5, CoveredGoesOn
  <2>. QED
    BY <1>1, <2>1, <2>2, <2>6, UnsentYet, AloneCovered
<1>5. CASE BuildApproval(c, k)
  <2>. DEFINE t == [status |-> "built", nonce |-> count, cap |-> NetworkPrice(baseFee),
                    prio |-> NetworkPrice(baseFee), mint |-> 0, value |-> 0,
                    amount |-> NeededAmount(c, k)]
  <2>1. /\ call[c].sub = "approve" /\ UNCHANGED deposit
        /\ tx' = [tx EXCEPT ![c][k] = t]
        /\ call' = [call EXCEPT ![c].sub = "send"]
    BY <1>5 DEF BuildApproval
  <2>. HIDE DEF t
  <2>2. /\ \A e \in Calls \ {c} : call'[e] = call[e] /\ tx'[e] = tx[e]
        /\ call'[c].op = call[c].op /\ call'[c].sub = "send"
        /\ call'[c].pos = call[c].pos /\ call'[c].mint = call[c].mint
    BY <2>1, SubFacts DEF NonceInv, TypeOK
  <2>3. /\ \A j \in Approvals \ {k} : tx'[c][j] = tx[c][j]
        /\ tx'[c]["deposit"] = tx[c]["deposit"]
    BY <2>1 DEF NonceInv, TypeOK, Kinds, Approvals
  <2>4. MintOf(c)' /\ CoveredOf(c)'
    BY <1>1, <1>2, <2>1, <2>2, <2>3, CoveredStays
  <2>. QED
    BY <1>1, <2>2, <2>3, <2>4, UnsentYet, AloneCovered
<1>6. CASE ApprovalReceipt(c, k)
  <2>. DEFINE d == [Obj(c) EXCEPT !.nonce = NonceAfterApproval(c)]
  <2>1. /\ UNCHANGED tx /\ call[c].sub = "wait" /\ Mined(c, k)
        /\ deposit' = [deposit EXCEPT ![ObjOf[c]] = d] /\ Advance(c, 1)
    BY <1>6 DEF ApprovalReceipt, SetObj
  <2>2. d.amount = Obj(c).amount
    BY CallFacts DEF NonceInv, Deposits
  <2>. HIDE DEF d
  <2>3. Obj(c)' = d
    BY <2>1, DepositAssumption DEF NonceInv, TypeOK, Obj
  <2>4. /\ \A e \in Calls \ {c} : call'[e] = call[e]
        /\ call'[c].op = call[c].op /\ call'[c].sub = "check"
        /\ call'[c].pos = call[c].pos + 1 /\ call'[c].mint = call[c].mint
    BY <1>1, <2>1, AdvanceFacts
  <2>5. \A j \in Pulled(Obj(c).route) :
           Stage(c) = j /\ Flagged(c, j) /\ tx[c][j].status # "reverted"
           => allowance[j][PullSpender(c, j)] >= NeededAmount(c, j)
    <3>1. Approved(c, k)
      BY <1>1, <2>1 DEF Approved
    <3>. QED
      BY <1>1, <1>2, <3>1 DEF CoveredOf
  <2>6. \A j \in Approvals : tx'[c][j] = tx[c][j]
    BY <2>1
  <2>7. MintOf(c)' /\ CoveredOf(c)'
    BY <1>1, <1>2, <2>2, <2>3, <2>4, <2>5, <2>6, CoveredGoesOn
  <2>. QED
    BY <1>1, <2>1, <2>4, <2>7, UnsentYet, AloneCovered
<1>. QED
  BY <1>3, <1>4, <1>5, <1>6

LEMMA CoveredSend ==
    ASSUME SharedBridge, FairCost > 0, NonceInv, ObjectInv, ObjectInv', PoolKnown,
           CoveredOnceApproved, NEW c \in Calls, NEW k \in Kinds,
           SendRejected(c, k) \/ SendAccepted(c, k)
    PROVE  CoveredOnceApproved'
<1>1. /\ Running(c) /\ tx[c][k].status = "built"
      /\ k # "deposit" => k \in Approvals /\ Stage(c) = k /\ call[c].sub = "send"
      /\ tx[c][k] \in L1Txs
  BY SendingFacts DEF SendRejected, SendAccepted, NonceInv, TypeOK
<1>2. MintOf(c) /\ CoveredOf(c) /\ SentOf(c)
  BY CoveredParts
<1>3. CASE SendRejected(c, k)
  <2>1. /\ k = "deposit"
        /\ call' = [call EXCEPT ![c].end = "nonceTooLow"]
        /\ tx' = [tx EXCEPT ![c][k].status = "rejected"]
    BY <1>3, RejectedFacts
  <2>2. /\ call'[c].end = "nonceTooLow"
        /\ \A e \in Calls \ {c} : call'[e] = call[e] /\ tx'[e] = tx[e]
    BY <2>1 DEF NonceInv, TypeOK, CallStates
  <2>3. tx'[c]["deposit"].status = "rejected"
    BY <1>1, <2>1 DEF NonceInv, TypeOK, L1Txs
  <2>4. MintOf(c)' /\ CoveredOf(c)' /\ SentOf(c)'
    BY <2>2, <2>3 DEF MintOf, CoveredOf, SentOf, Running
  <2>. QED
    BY <1>1, <2>2, <2>4, AloneCovered
<1>4. CASE SendAccepted(c, k)
  <2>1. /\ UNCHANGED <<asked, deposit, allowance>>
        /\ \A e \in Calls \ {c} : call'[e] = call[e]
        /\ call'[c].op = call[c].op /\ call'[c].mint = call[c].mint
        /\ call'[c].end \in {"running", "returned", "rpcError"}
        /\ call'[c].end = "running" =>
              k # "deposit" /\ call'[c].pos = call[c].pos /\ call'[c].sub = "wait"
    BY <1>4, AcceptedFacts DEF l1vars
  <2>2. \A d \in Calls, j \in Kinds :
           tx'[d][j] = IF d = c /\ j = k THEN [tx[c][k] EXCEPT !.status = "pending"]
                       ELSE tx[d][j]
    BY <1>4, AcceptedFacts
  <2>3. \A e \in Calls \ {c} : tx'[e] = tx[e]
    <3>1. tx' = [d \in Calls |-> [j \in Kinds |-> tx'[d][j]]]
      BY <1>4 DEF SendAccepted
    <3>2. tx \in [Calls -> [Kinds -> L1Txs]]
      BY DEF NonceInv, TypeOK
    <3>. QED
      BY <2>2, <3>1, <3>2
  <2>4. CASE k = "deposit"
    <3>1. ~Running(c)'
      BY <2>1, <2>4 DEF Running
    <3>2. tx'[c]["deposit"] = [tx[c]["deposit"] EXCEPT !.status = "pending"]
      BY <2>2, <2>4
    <3>3. \A j \in Approvals : tx'[c][j] = tx[c][j]
      BY <2>2, <2>4 DEF Approvals, Kinds
    <3>4. Obj(c)' = Obj(c)
      BY <2>1 DEF Obj
    <3>5. SentOf(c)'
      <4>. SUFFICES ASSUME NEW j \in Pulled(Obj(c).route), Flagged(c, j)',
                           tx'[c][j].status # "reverted"
                    PROVE  AllowanceCovers(c, tx[c]["deposit"], j)'
        BY <3>4 DEF SentOf
      <4>1. j \in Approvals /\ Flagged(c, j) /\ tx[c][j].status # "reverted"
        BY <3>3, <3>4 DEF Pulled, Flagged
      <4>2. AllowanceCovers(c, tx[c]["deposit"], j)
        BY <1>1, <1>2, <2>4, <4>1 DEF SentOf
      <4>3. PullAmount(tx'[c]["deposit"], j) = PullAmount(tx[c]["deposit"], j)
        BY <1>1, <2>4, <3>2 DEF PullAmount, L1Txs
      <4>4. PullSpender(c, j)' = PullSpender(c, j)
        BY <3>4 DEF PullSpender
      <4>. QED
        BY <2>1, <4>2, <4>3, <4>4 DEF AllowanceCovers
    <3>6. MintOf(c)' /\ CoveredOf(c)'
      BY <3>1 DEF MintOf, CoveredOf
    <3>. QED
      BY <1>1, <2>1, <2>3, <3>5, <3>6, AloneCovered
  <2>5. CASE k # "deposit"
    <3>1. /\ \A j \in Approvals \ {k} : tx'[c][j] = tx[c][j]
          /\ tx'[c]["deposit"] = tx[c]["deposit"]
      BY <2>2, <2>5 DEF Approvals, Kinds
    <3>2. ~Mined(c, k)'
      <4>1. tx'[c][k].status = "pending"
        BY <1>1, <2>2 DEF L1Txs
      <4>. QED
        BY <4>1 DEF Mined
    <3>3. MintOf(c)' /\ CoveredOf(c)'
      BY <1>1, <1>2, <2>1, <2>5, <3>1, <3>2, CoveredStays
    <3>4. Stage(c) # "send"
      BY <1>1, <2>5 DEF Approvals
    <3>. QED
      BY <1>1, <2>1, <2>3, <3>1, <3>3, <3>4, UnsentYet, AloneCovered
  <2>. QED
    BY <2>4, <2>5
<1>. QED
  BY <1>3, <1>4

\* When something is mined no deposit is on its way any more.
LEMMA MinedSent ==
    ASSUME NonceInv, PoolKnown, CoveredOnceApproved, SharedBridge, FairCost > 0,
           NEW c \in Calls, NEW k \in Kinds, NEW s \in {"ok", "reverted"}, Mining(c, k, s),
           NEW d \in Calls
    PROVE  MintOf(d)' /\ SentOf(d)'
<1>1. MinedMove(c, k, s)
  BY MinedFacts
<1>2. MintOf(d)'
  <2>1. UNCHANGED <<deposit, call>> /\ MintOf(d)
    BY <1>1, CoveredParts DEF MinedMove
  <2>. QED
    BY <2>1 DEF MintOf, Running, Costed, ScriptOf, Obj
<1>3. tx'[d]["deposit"].status # "pending"
  <2>1. CASE d = c /\ k = "deposit"
    BY <1>1, <2>1 DEF MinedMove
  <2>2. CASE d # c \/ k # "deposit"
    BY <1>1, <2>2 DEF MinedMove, Kinds
  <2>. QED
    BY <2>1, <2>2
<1>4. Running(d)' => tx'[d]["deposit"].status # "built"
  <2>. SUFFICES ASSUME Running(d)' PROVE tx'[d]["deposit"].status # "built"
    OBVIOUS
  <2>1. Running(d) /\ d = c /\ k \in Approvals /\ Stage(d) = k
    BY <1>1 DEF MinedMove, Running
  <2>2. tx'[d]["deposit"] = tx[d]["deposit"]
    BY <1>1, <2>1 DEF MinedMove, Approvals, Kinds
  <2>3. tx[d]["deposit"].status # "built"
    BY <2>1 DEF PoolKnown, Kinds, Approvals
  <2>. QED
    BY <2>2, <2>3
<1>. QED
  BY <1>2, <1>3, <1>4 DEF SentOf

LEMMA CoveredMineDeposit ==
    ASSUME NonceInv, PoolKnown, CoveredOnceApproved, SharedBridge, FairCost > 0,
           NEW c \in Calls, MineDeposit(c)
    PROVE  CoveredOnceApproved'
<1>1. PICK s \in {"ok", "reverted"} : Mining(c, "deposit", s)
  BY DEF MineDeposit, Mining
<1>2. MinedMove(c, "deposit", s)
  BY <1>1, MinedFacts DEF Kinds
<1>3. ASSUME NEW d \in Calls PROVE MintOf(d)' /\ CoveredOf(d)' /\ SentOf(d)'
  <2>1. ~Running(d)'
    BY <1>2 DEF MinedMove, Running, Approvals
  <2>2. MintOf(d)' /\ SentOf(d)'
    BY <1>1, MinedSent DEF Kinds
  <2>. QED
    BY <2>1, <2>2 DEF CoveredOf
<1>. QED
  BY <1>3 DEF CoveredOnceApproved, MintOf, CoveredOf, SentOf

\* The approval that a running call awaits gives the bridge what the deposit needs.
LEMMA CoveredMineApproval ==
    ASSUME NonceInv, Requested, ObjectInv, PoolKnown, ShortUntilSent, CoveredOnceApproved,
           SharedBridge, FairCost > 0,
           NEW c \in Calls, NEW k \in Approvals, MineApproval(c, k)
    PROVE  CoveredOnceApproved'
<1>. k \in Kinds
  BY DEF Approvals, Kinds
<1>1. PICK s \in {"ok", "reverted"} :
         /\ Mining(c, k, s)
         /\ s = "ok" => allowance' = [allowance EXCEPT ![k][ApprovedSpender(c, k)] =
                                                            tx[c][k].amount]
         /\ s = "reverted" => UNCHANGED allowance
  BY DEF MineApproval, Mining
<1>2. MinedMove(c, k, s)
  BY <1>1, MinedFacts
<1>3. ASSUME NEW d \in Calls PROVE CoveredOf(d)'
  <2>. SUFFICES ASSUME NEW j \in Pulled(Obj(d)'.route), Flagged(d, j)',
                       tx'[d][j].status # "reverted", Running(d)', Approved(d, j)'
                PROVE  allowance'[j][PullSpender(d, j)'] >= NeededAmount(d, j)'
    BY DEF CoveredOf
  <2>1. UNCHANGED <<deposit, call>>
    BY <1>2 DEF MinedMove
  <2>2. Running(d) /\ d = c /\ Stage(d) = k /\ call[d].sub = "wait"
    BY <1>2, <2>1 DEF MinedMove, Running
  <2>3. j \in Approvals /\ j \in Pulled(Obj(c).route) /\ Flagged(c, j)
    BY <2>1, <2>2 DEF Pulled, Flagged, Obj
  <2>4. /\ PullSpender(d, j)' = PullSpender(c, j)
        /\ NeededAmount(d, j)' = NeededAmount(c, j)
    BY <2>1, <2>2 DEF PullSpender, NeededAmount, Obj
  <2>5. PullSpender(c, k) \in Bridges /\ allowance \in [Approvals -> [Bridges -> Nat]]
    BY CallFacts, FeesAssumption DEF PullSpender, Bridges, Deposits, Optional, NonceInv, TypeOK
  <2>6. CASE j = k
    <3>1. s = "ok"
      BY <1>2, <2>2, <2>6 DEF MinedMove
    <3>2. allowance'[k][PullSpender(c, k)] = tx[c][k].amount
      BY <1>1, <2>5, <3>1, OneSpender
    <3>3. tx[c][k].amount = NeededAmount(c, k)
      BY <2>2 DEF ShortUntilSent
    <3>4. NeededAmount(c, k) \in Nat
      BY CallFacts DEF NeededAmount, Deposits, CallStates, NonceInv
    <3>. QED
      BY <2>4, <2>6, <3>2, <3>3, <3>4
  <2>7. CASE j # k
    <3>1. allowance'[j] = allowance[j]
      BY <1>1, <2>3, <2>5, <2>7
    <3>2. Approved(c, j)
      BY <2>1, <2>2, <2>7 DEF Approved, Stage, ScriptOf, Obj
    <3>3. tx[c][j].status # "reverted"
      BY <1>2, <2>2, <2>3, <2>7 DEF MinedMove, Approvals, Kinds
    <3>4. allowance[j][PullSpender(c, j)] >= NeededAmount(c, j)
      BY <2>2, <2>3, <3>2, <3>3, CoveredParts DEF CoveredOf
    <3>. QED
      BY <2>4, <3>1, <3>4
  <2>. QED
    BY <2>6, <2>7
<1>4. \A d \in Calls : MintOf(d)' /\ CoveredOf(d)' /\ SentOf(d)'
  BY <1>1, <1>3, MinedSent
<1>. QED
  BY <1>4 DEF CoveredOnceApproved, MintOf, CoveredOf, SentOf

LEMMA CoveredBegin ==
    ASSUME Waits, SharedBridge, FairCost > 0, NonceInv, NEW c \in Calls, Begin(c)
    PROVE  CoveredOnceApproved'
<1>1. /\ \A d \in Calls : ~Running(d)
      /\ \A e \in Calls \ {c} : call'[e] = call[e]
      /\ call'[c].pos = 1 /\ call'[c].sub = "check"
      /\ UNCHANGED tx
  BY BeginFacts
<1>2. \A d \in Calls : tx'[d]["deposit"].status # "pending"
  BY <1>1, BeginFacts DEF Kinds
<1>3. tx'[c]["deposit"].status = "none"
  BY <1>1, BeginFacts DEF Kinds
<1>4. MintOf(c)' /\ CoveredOf(c)' /\ SentOf(c)'
  BY <1>1, <1>2, <1>3 DEF MintOf, CoveredOf, SentOf, Costed, Approved
<1>5. ASSUME NEW e \in Calls \ {c} PROVE MintOf(e)' /\ CoveredOf(e)' /\ SentOf(e)'
  <2>1. ~Running(e)'
    BY <1>1 DEF Running
  <2>. QED
    BY <1>2, <2>1 DEF MintOf, CoveredOf, SentOf
<1>6. \A e \in Calls : MintOf(e)' /\ CoveredOf(e)' /\ SentOf(e)'
  BY <1>4, <1>5
<1>. QED
  BY <1>6 DEF CoveredOnceApproved, MintOf, CoveredOf, SentOf

LEMMA CoveredInit == Init => CoveredOnceApproved
<1>. SUFFICES ASSUME Init PROVE CoveredOnceApproved
  OBVIOUS
<1>1. \A c \in Calls : ~Running(c) /\ tx[c]["deposit"].status = "none"
  BY DEF Init, NewCall, Running, NoTx, Kinds
<1>. QED
  BY <1>1 DEF CoveredOnceApproved

LEMMA CoveredNext ==
    ASSUME Waits, SharedBridge, FairCost > 0
    PROVE  /\ Requested /\ NonceInv /\ ObjectInv /\ ObjectInv' /\ PoolKnown
           /\ ShortUntilSent /\ CoveredOnceApproved /\ [Next]_vars
           => CoveredOnceApproved'
<1>. SUFFICES ASSUME Requested, NonceInv, ObjectInv, ObjectInv', PoolKnown,
                     ShortUntilSent, CoveredOnceApproved, [Next]_vars
              PROVE  CoveredOnceApproved'
  OBVIOUS
<1>1. ASSUME NEW c \in Calls, Begin(c) PROVE CoveredOnceApproved'
  BY <1>1, CoveredBegin
<1>2. ASSUME NEW c \in Calls, Step(c) \/ RpcFails(c) PROVE CoveredOnceApproved'
  <2>1. CASE PlainMove(c) \/ EndMove(c)
    BY <2>1, CoveredPlain, CoveredEnd
  <2>2. CASE DefaultNonce(c) \/ BuildDeposit(c)
    BY <2>2, CoveredDefaultNonce, CoveredBuildDeposit
  <2>3. ASSUME NEW k \in Approvals,
               CheckAllowance(c, k) \/ BuildApproval(c, k) \/ ApprovalReceipt(c, k)
        PROVE  CoveredOnceApproved'
    BY <2>3, CoveredApproval
  <2>4. ASSUME NEW k \in Kinds, SendRejected(c, k) \/ SendAccepted(c, k)
        PROVE  CoveredOnceApproved'
    BY <2>4, CoveredSend
  <2>. QED
    BY <1>2, <2>1, <2>2, <2>3, <2>4, StepKinds
<1>3. ASSUME NEW c \in Calls, Mine(c) PROVE CoveredOnceApproved'
  BY <1>3, CoveredMineDeposit, CoveredMineApproval DEF Mine
<1>4. CASE ChangeBaseFee \/ UNCHANGED vars
  <2>1. UNCHANGED <<deposit, call, tx, allowance>>
    BY <1>4 DEF ChangeBaseFee, vars, l1vars
  <2>2. ASSUME NEW c \in Calls PROVE MintOf(c)' /\ CoveredOf(c)' /\ SentOf(c)'
    <3>1. MintOf(c) /\ CoveredOf(c) /\ SentOf(c)
      BY CoveredParts
    <3>2. /\ Obj(c)' = Obj(c) /\ ScriptOf(c)' = ScriptOf(c) /\ Stage(c)' = Stage(c)
          /\ Running(c)' <=> Running(c)
      BY <2>1 DEF Obj, ScriptOf, Stage, Running
    <3>. QED
      BY <2>1, <3>1, <3>2 DEF MintOf, CoveredOf, SentOf, Costed, Approved, Mined, Flagged,
         PullSpender, NeededAmount, AllowanceCovers
  <2>. QED
    BY <2>2 DEF CoveredOnceApproved, MintOf, CoveredOf, SentOf
<1>. QED
  BY <1>1, <1>2, <1>3, <1>4 DEF Next

LEMMA CoveredInvariant ==
    ASSUME Waits, SharedBridge, FairCost > 0 PROVE Spec => []CoveredOnceApproved
<1>1. /\ Spec => []NonceInv /\ []ObjectInv /\ []PoolKnown /\ []Requested
      /\ Spec => []ShortUntilSent
  BY NonceInvariant, ObjectInvariant, PoolInvariant, RequestedInvariant, ShortInvariant, PTL
<1>2. /\ Requested /\ NonceInv /\ ObjectInv /\ ObjectInv' /\ PoolKnown
      /\ ShortUntilSent /\ CoveredOnceApproved /\ [Next]_vars
      => CoveredOnceApproved'
  BY CoveredNext
<1>. QED
  BY <1>1, <1>2, CoveredInit, PTL DEF Spec

\* With approvals enabled, a deposit of a program that waits finds the allowances it
\* pulls when it reaches L1, unless its own approval reverted.
THEOREM ApprovalsAreEnough ==
    ASSUME Waits, SharedBridge, FairCost > 0 PROVE Spec => []ApprovalsCoverDeposit
<1>1. CoveredOnceApproved => ApprovalsCoverDeposit
  BY DEF CoveredOnceApproved, ApprovalsCoverDeposit
<1>. QED
  BY <1>1, CoveredInvariant, PTL

\* The invariant of a program that waits, each part under its own condition.
THEOREM WaitingInvariant == ASSUME Waits PROVE Spec => []WaitingInv
<1>1. Spec => []NextNonce
  <2>1. CASE FreshObjects
    BY <2>1, NextNonceInvariant
  <2>2. CASE ~FreshObjects
    <3>1. NextNonce
      BY <2>2 DEF NextNonce
    <3>. QED
      BY <3>1, PTL
  <2>. QED
    BY <2>1, <2>2
<1>2. Spec => []ShortUntilSent
  <2>1. CASE SharedBridge
    BY <2>1, ShortInvariant
  <2>2. CASE ~SharedBridge
    <3>1. ShortUntilSent
      BY <2>2 DEF ShortUntilSent
    <3>. QED
      BY <3>1, PTL
  <2>. QED
    BY <2>1, <2>2
<1>3. Spec => []CoveredOnceApproved
  <2>1. CASE SharedBridge /\ FairCost > 0
    BY <2>1, CoveredInvariant
  <2>2. CASE ~(SharedBridge /\ FairCost > 0)
    <3>1. CoveredOnceApproved
      BY <2>2 DEF CoveredOnceApproved
    <3>. QED
      BY <3>1, PTL
  <2>. QED
    BY <2>1, <2>2
<1>4. PoolKnown /\ NextNonce /\ ShortUntilSent /\ CoveredOnceApproved => WaitingInv
  BY DEF WaitingInv
<1>. QED
  BY <1>1, <1>2, <1>3, <1>4, PoolInvariant, PTL

=============================================================================
