--------------------------- MODULE TokenAssets_proofs ---------------------------
(***************************************************************************)
(* Proofs about TokenAssets: whatever tokens there are, an address stands  *)
(* for one asset wherever it is resolved.  The inductive invariant is      *)
(* ResolvedInv.                                                            *)
(***************************************************************************)
EXTENDS TokenAssets, TLAPS

-----------------------------------------------------------------------------
(***************************************************************************)
(* Addresses.                                                              *)
(***************************************************************************)

\* The names of the addresses of ETH and of the base token are no tokens'.
LEMMA NotAssets ==
    /\ "zero" \notin Assets /\ "base" \notin Assets /\ "BASE" \notin Assets
    /\ "ETH" \in Assets
    /\ None \notin Assets
BY TokenAssetsAssumption DEF Assets

\* No address is None, and addresses differ if their parts do.
LEMMA AddressesDiffer ==
    /\ None \notin Addresses
    /\ \A a, b : (L1(a) = L1(b) <=> a = b) /\ (L2(a) = L2(b) <=> a = b) /\ L1(a) # L2(b)
<1>1. None \notin Addresses
  <2>. DEFINE Names == Assets \cup {"zero", "base", "BASE"}
  <2>1. \A x \in Addresses : \E a \in Names : x = L1(a) \/ x = L2(a)
    BY DEF Addresses, L1Names, L2Names, LEGACY_ETH_ADDRESS, L2_BASE_TOKEN_ADDRESS, ChecksumBase
  <2>2. \A a \in Names : L1(a) \in {"L1", "L2"} \X Names /\ L2(a) \in {"L1", "L2"} \X Names
    BY DEF L1, L2
  <2>3. None \notin {"L1", "L2"} \X Names
    BY TokenAssetsAssumption
  <2>. QED  BY <2>1, <2>2, <2>3
<1>2. ASSUME NEW a, NEW b PROVE (L1(a) = L1(b) <=> a = b) /\ (L2(a) = L2(b) <=> a = b)
  <2>1. L1(a)[2] = a /\ L1(b)[2] = b /\ L2(a)[2] = a /\ L2(b)[2] = b
    BY DEF L1, L2
  <2>. QED  BY <2>1
<1>3. ASSUME NEW a, NEW b PROVE L1(a) # L2(b)
  <2>1. L1(a)[1] = "L1" /\ L2(b)[1] = "L2"
    BY DEF L1, L2
  <2>. QED  BY <2>1
<1>. QED  BY <1>1, <1>2, <1>3

\* The asset named by an address of L1 is what it is normalized to.
LEMMA NamedOnL1 ==
    ASSUME NEW name \in L1Names
    PROVE  /\ Named(name) \in Assets
           /\ Normalized(name) = L1(Named(name))
           /\ name \in EthAddresses <=> Named(name) = "ETH"
           /\ name \in EthAddresses <=> Normalized(name) = ETH_ADDRESS_IN_CONTRACTS
           /\ name \notin EthAddresses => Normalized(name) = name
<1>1. PICK a \in Assets \cup {"zero"} : name = L1(a)
  BY DEF L1Names, LEGACY_ETH_ADDRESS
<1>2. name # None
  BY AddressesDiffer DEF Addresses
<1>3. name # L2_BASE_TOKEN_ADDRESS /\ name # ChecksumBase
  BY <1>1, AddressesDiffer DEF L2_BASE_TOKEN_ADDRESS, ChecksumBase
<1>4. name[2] = a
  BY <1>1 DEF L1
<1>. QED
  BY <1>1, <1>2, <1>3, <1>4, NotAssets, AddressesDiffer
  DEF Named, Normalized, EthAddresses, LEGACY_ETH_ADDRESS, ETH_ADDRESS_IN_CONTRACTS

\* The asset named by an address of L2.
LEMMA NamedOnL2 ==
    /\ Named(L2_BASE_TOKEN_ADDRESS) = base
    /\ Named(ChecksumBase) = base
    /\ \A a \in Assets : Named(L2(a)) = a
<1>1. Named(L2_BASE_TOKEN_ADDRESS) = base /\ Named(ChecksumBase) = base
  BY DEF Named
<1>2. ASSUME NEW a \in Assets PROVE Named(L2(a)) = a
  <2>1. L2(a) # None /\ L2(a) \notin EthAddresses
    BY AddressesDiffer
    DEF Addresses, L2Names, EthAddresses, LEGACY_ETH_ADDRESS, ETH_ADDRESS_IN_CONTRACTS
  <2>2. L2(a) # L2_BASE_TOKEN_ADDRESS /\ L2(a) # ChecksumBase
    BY NotAssets, AddressesDiffer DEF L2_BASE_TOKEN_ADDRESS, ChecksumBase
  <2>3. L2(a)[2] = a
    BY DEF L2
  <2>. QED  BY <2>1, <2>2, <2>3 DEF Named
<1>. QED  BY <1>1, <1>2

\* What an L2 address holds.
LEMMA AtAddress ==
    ASSUME TokenAssetsTypeOK
    PROVE  /\ AssetAt(L2_BASE_TOKEN_ADDRESS) = base
           /\ AssetAt(ChecksumBase) = None
           /\ \A a \in Assets : AssetAt(L2(a)) = IF a \in deployed THEN a ELSE None
<1>1. AssetAt(L2_BASE_TOKEN_ADDRESS) = base
  BY DEF AssetAt
<1>2. AssetAt(ChecksumBase) = None
  BY NotAssets, AddressesDiffer
  DEF AssetAt, TokenAssetsTypeOK, L2_BASE_TOKEN_ADDRESS, ChecksumBase
<1>3. ASSUME NEW a \in Assets PROVE AssetAt(L2(a)) = IF a \in deployed THEN a ELSE None
  <2>1. L2(a) # L2_BASE_TOKEN_ADDRESS
    BY NotAssets, AddressesDiffer DEF L2_BASE_TOKEN_ADDRESS
  <2>2. (\E b \in deployed : L2(a) = L2(b)) <=> a \in deployed
    BY AddressesDiffer
  <2>3. L2(a)[2] = a
    BY DEF L2
  <2>. QED  BY <2>1, <2>2, <2>3 DEF AssetAt
<1>. QED  BY <1>1, <1>2, <1>3

\* What stands for an asset in an L2 transaction is the asset's address.
LEMMA Standing ==
    ASSUME ResolvedInv, NEW c \in Calls, StandsFor(c), NameFits(c),
           calls[c].op \in {"transfer", "withdraw", "balance"}
    PROVE  /\ Named(calls[c].name) \in Assets
           /\ calls[c].name # ChecksumBase =>
                 AssetAt(calls[c].token) =
                     IF Named(calls[c].name) \in deployed \cup {base}
                     THEN Named(calls[c].name) ELSE None
           /\ calls[c].name = ChecksumBase => calls[c].token = ChecksumBase
           /\ IsEth(calls[c].token) <=> Named(calls[c].name) = base
           /\ calls[c].token = L2_BASE_TOKEN_ADDRESS => Named(calls[c].name) = base
<1>. DEFINE a == Named(calls[c].name)
<1>1. a \in Assets
  <2>1. calls[c].name \in L2Names \cup EthAddresses \cup {None}
    BY DEF NameFits, NamesOf
  <2>2. base \in Assets
    BY DEF ResolvedInv, TokenAssetsTypeOK
  <2>3. CASE calls[c].name \in L2Names
    BY <2>2, <2>3, NamedOnL2 DEF L2Names
  <2>4. CASE calls[c].name \in EthAddresses
    <3>1. calls[c].name \in L1Names
      BY <2>4, NotAssets
      DEF EthAddresses, L1Names, ETH_ADDRESS_IN_CONTRACTS
    <3>. QED  BY <3>1, NamedOnL1
  <2>5. CASE calls[c].name = None
    BY <2>2, <2>5 DEF Named
  <2>. QED  BY <2>1, <2>3, <2>4, <2>5
<1>2. ASSUME a # base
      PROVE  L2(a) # L2_BASE_TOKEN_ADDRESS /\ ~IsEth(L2(a))
  BY <1>1, <1>2, NotAssets, AddressesDiffer
  DEF IsEth, Lower, EthAddresses, LEGACY_ETH_ADDRESS, ETH_ADDRESS_IN_CONTRACTS,
      L2_BASE_TOKEN_ADDRESS, ChecksumBase
<1>3. IsEth(L2_BASE_TOKEN_ADDRESS) /\ IsEth(ChecksumBase)
  BY DEF IsEth, Lower
<1>4. calls[c].name = ChecksumBase => a = base
  BY NamedOnL2
<1>5. CASE calls[c].name = ChecksumBase
  BY <1>1, <1>3, <1>4, <1>5 DEF StandsFor
<1>6. CASE calls[c].name # ChecksumBase /\ a = base
  BY <1>1, <1>3, <1>6, AtAddress DEF StandsFor, ResolvedInv
<1>7. CASE calls[c].name # ChecksumBase /\ a # base
  BY <1>1, <1>2, <1>7, AtAddress DEF StandsFor, ResolvedInv
<1>. QED  BY <1>5, <1>6, <1>7

-----------------------------------------------------------------------------
(***************************************************************************)
(* The invariant, one call at a time.                                      *)
(***************************************************************************)

CallInv(c) ==
    /\ NameFits(c)
    /\ Resolved(c)
    /\ SeesNow(c)
    /\ MovesNamed(c)
    /\ AnswersNamed(c)
    /\ Agrees(c)
    /\ EstimatesDeposit(c)

LEMMA InvByCall ==
    ResolvedInv <=> TokenAssetsTypeOK /\ HeldIsDeployed /\ \A c \in Calls : CallInv(c)
BY DEF ResolvedInv, CallInv, NamedAssetMoves, BalanceIsOfNamedAsset, AddressesAgree,
       EstimateIsOfTheDeposit

\* What a step leaves alone of a call keeps the invariant of the call.
LEMMA CallStill ==
    ASSUME ResolvedInv, NEW d \in Calls, base' = base, calls'[d] = calls[d],
           seen[d] \subseteq seen'[d],
           balance'[Named(calls[d].name)] = balance[Named(calls[d].name)]
           \/ balance'[Named(calls[d].name)] \in seen'[d]
    PROVE  CallInv(d)'
<1>1. CallInv(d)
  BY InvByCall
<1>2. \A name : Named(name)' = Named(name)
  BY DEF Named
<1>3. NameFits(d)' /\ Resolved(d)'
  BY <1>1, <1>2
  DEF CallInv, NameFits, NamesOf, Resolved, CallAt, OnItsWay, StandsFor, L1Names, L2Names,
      Normalized, L1, L2
<1>4. SeesNow(d)'
  BY <1>1, <1>2 DEF CallInv, SeesNow
<1>5. MovesNamed(d)' /\ Agrees(d)' /\ AnswersNamed(d)'
  BY <1>1, <1>2 DEF CallInv, MovesNamed, Agrees, AnswersNamed, Done
<1>6. EstimatesDeposit(d)'
  BY <1>1, <1>2 DEF CallInv, EstimatesDeposit, DepositedTx, BridgeOf, Done
<1>. QED  BY <1>3, <1>4, <1>5, <1>6 DEF CallInv

\* A call that is on its way has nothing to answer for yet.
LEMMA NotDone ==
    ASSUME NEW c \in Calls, calls'[c].pc # "returned"
    PROVE  (MovesNamed(c) /\ AnswersNamed(c) /\ Agrees(c) /\ EstimatesDeposit(c))'
BY DEF MovesNamed, AnswersNamed, Agrees, EstimatesDeposit, Done

\* The invariant after a step, from the calls.
LEMMA Together ==
    ASSUME TokenAssetsTypeOK', HeldIsDeployed', \A c \in Calls : CallInv(c)'
    PROVE  ResolvedInv'
BY DEF ResolvedInv, CallInv, NamedAssetMoves, BalanceIsOfNamedAsset, AddressesAgree,
       EstimateIsOfTheDeposit

\* A call has the fields of a call.
LEMMA CallFields ==
    ASSUME TokenAssetsTypeOK, NEW c \in Calls
    PROVE  /\ calls[c] \in CallStates
           /\ calls[c].op \in Ops
           /\ calls[c].name \in Addresses \cup {None}
           /\ calls[c].bridge \in {None, "custom"}
           /\ calls[c].token \in Addresses \cup {None}
<1>1. calls[c] \in CallStates
  BY DEF TokenAssetsTypeOK
<1>. QED  BY <1>1 DEF CallStates

\* Going on changes where a call is, and the address it works with.
LEMMA GoesOn ==
    ASSUME TokenAssetsTypeOK, NEW c \in Calls, NEW place \in Places,
           NEW token \in Addresses \cup {None}, GoOn(c, place, token)
    PROVE  /\ calls' \in [Calls -> CallStates]
           /\ calls'[c].pc = place /\ calls'[c].token = token
           /\ calls'[c].op = calls[c].op /\ calls'[c].name = calls[c].name
           /\ calls'[c].bridge = calls[c].bridge
           /\ \A d \in Calls \ {c} : calls'[d] = calls[d]
<1>1. calls \in [Calls -> CallStates]
  BY DEF TokenAssetsTypeOK
<1>2. calls' = [calls EXCEPT ![c] = [calls[c] EXCEPT !.pc = place, !.token = token]]
  BY <1>1 DEF GoOn, CallStates
<1>3. [calls[c] EXCEPT !.pc = place, !.token = token] \in CallStates
  BY <1>1 DEF CallStates
<1>4. calls'[c] = [calls[c] EXCEPT !.pc = place, !.token = token]
  BY <1>1, <1>2
<1>5. calls' \in [Calls -> CallStates] /\ \A d \in Calls \ {c} : calls'[d] = calls[d]
  BY <1>1, <1>2, <1>3
<1>6. calls[c] \in CallStates
  BY <1>1
<1>. QED  BY <1>4, <1>5, <1>6 DEF CallStates

\* The address a call may have to look up is an address.
LEMMA Translated ==
    \A a \in Assets : L1(a) \in Addresses /\ L2(a) \in Addresses
BY DEF Addresses, L1Names, L2Names

\* The parts of the invariant that speak of the chain alone are kept by what moves nothing.
LEMMA ChainStill ==
    ASSUME ResolvedInv, UNCHANGED <<base, deployed, balance>>,
           base_token' \in {None, L1(base)}, bridge_addresses' \in BOOLEAN,
           calls' \in [Calls -> CallStates], seen' \in [Calls -> SUBSET Nat]
    PROVE  TokenAssetsTypeOK' /\ HeldIsDeployed'
<1>1. TokenAssetsTypeOK'
  <2>1. TokenAssetsTypeOK
    BY DEF ResolvedInv
  <2>. QED  BY <2>1 DEF TokenAssetsTypeOK, CallStates, Addresses, L1Names, L2Names, L1, Txs
<1>2. HeldIsDeployed'
  BY DEF ResolvedInv, HeldIsDeployed
<1>. QED  BY <1>1, <1>2

\* What a step of one call has to keep.
LEMMA OneCallMoves ==
    ASSUME ResolvedInv, NEW c \in Calls, UNCHANGED <<base, deployed, balance>>,
           base_token' \in {None, L1(base)}, bridge_addresses' \in BOOLEAN,
           calls' \in [Calls -> CallStates], seen' \in [Calls -> SUBSET Nat],
           \A d \in Calls \ {c} : calls'[d] = calls[d] /\ seen'[d] = seen[d],
           CallInv(c)'
    PROVE  ResolvedInv'
<1>1. TokenAssetsTypeOK' /\ HeldIsDeployed'
  BY ChainStill
<1>2. ASSUME NEW d \in Calls \ {c} PROVE CallInv(d)'
  BY <1>2, CallStill
<1>. QED  BY <1>1, <1>2, Together

-----------------------------------------------------------------------------
(***************************************************************************)
(* The three ways of ending.                                               *)
(***************************************************************************)

LEMMA ReturnEnds ==
    ASSUME TokenAssetsTypeOK, NEW c \in Calls, NEW answer \in Addresses \cup {None},
           NEW had \in BOOLEAN,
           calls' = [calls EXCEPT ![c].pc = "returned", ![c].answer = answer, ![c].had = had]
    PROVE  /\ calls' \in [Calls -> CallStates]
           /\ calls'[c].pc = "returned" /\ calls'[c].answer = answer /\ calls'[c].had = had
           /\ calls'[c].op = calls[c].op /\ calls'[c].name = calls[c].name
           /\ calls'[c].bridge = calls[c].bridge
           /\ \A d \in Calls \ {c} : calls'[d] = calls[d]
<1>. DEFINE new == [calls[c] EXCEPT !.pc = "returned", !.answer = answer, !.had = had]
<1>1. calls \in [Calls -> CallStates]
  BY DEF TokenAssetsTypeOK
<1>2. calls[c] \in CallStates
  BY <1>1
<1>3. calls' = [calls EXCEPT ![c] = new]
  BY <1>1 DEF CallStates
<1>4. new \in CallStates
  BY <1>2 DEF CallStates, Places
<1>5. new.pc = "returned" /\ new.answer = answer /\ new.had = had
      /\ new.op = calls[c].op /\ new.name = calls[c].name /\ new.bridge = calls[c].bridge
  BY <1>2 DEF CallStates
<1>. HIDE DEF new
<1>6. calls' \in [Calls -> CallStates] /\ \A d \in Calls \ {c} : calls'[d] = calls[d]
  BY ZenonT(30), <1>1, <1>3, <1>4
<1>7. calls'[c] = new
  BY <1>1, <1>3
<1>. QED  BY <1>5, <1>6, <1>7

LEMMA AnswerEnds ==
    ASSUME TokenAssetsTypeOK, NEW c \in Calls, NEW answer \in Addresses \cup {None},
           Return(c, answer)
    PROVE  /\ calls' \in [Calls -> CallStates]
           /\ calls'[c].pc = "returned" /\ calls'[c].answer = answer
           /\ calls'[c].op = calls[c].op /\ calls'[c].name = calls[c].name
           /\ calls'[c].bridge = calls[c].bridge
           /\ \A d \in Calls \ {c} : calls'[d] = calls[d]
<1>1. calls \in [Calls -> CallStates] /\ calls[c] \in CallStates
  BY DEF TokenAssetsTypeOK
<1>2. calls[c].had \in BOOLEAN
  BY <1>1 DEF CallStates
<1>3. calls' = [calls EXCEPT ![c].pc = "returned", ![c].answer = answer,
                             ![c].had = calls[c].had]
  BY <1>1 DEF Return, CallStates
<1>. QED  BY ZenonT(30), <1>2, <1>3, ReturnEnds

LEMMA TxEnds ==
    ASSUME TokenAssetsTypeOK, NEW c \in Calls, NEW tx \in Txs, ReturnTx(c, tx)
    PROVE  /\ calls' \in [Calls -> CallStates]
           /\ calls'[c].pc = "returned" /\ calls'[c].tx = tx
           /\ calls'[c].op = calls[c].op /\ calls'[c].name = calls[c].name
           /\ calls'[c].bridge = calls[c].bridge
           /\ \A d \in Calls \ {c} : calls'[d] = calls[d]
<1>. DEFINE new == [calls[c] EXCEPT !.pc = "returned", !.tx = tx]
<1>1. calls \in [Calls -> CallStates] /\ calls[c] \in CallStates
  BY DEF TokenAssetsTypeOK
<1>2. calls' = [calls EXCEPT ![c] = new]
  BY <1>1 DEF ReturnTx, CallStates
<1>3. new \in CallStates
  BY <1>1 DEF CallStates, Places
<1>4. new.pc = "returned" /\ new.tx = tx
      /\ new.op = calls[c].op /\ new.name = calls[c].name /\ new.bridge = calls[c].bridge
  BY <1>1 DEF CallStates
<1>. HIDE DEF new
<1>5. calls' \in [Calls -> CallStates] /\ \A d \in Calls \ {c} : calls'[d] = calls[d]
  BY <1>1, <1>2, <1>3
<1>6. calls'[c] = new
  BY <1>1, <1>2
<1>. QED  BY <1>4, <1>5, <1>6

LEMMA AmountEnds ==
    ASSUME TokenAssetsTypeOK, NEW c \in Calls, NEW n \in Nat, NEW failed \in BOOLEAN,
           ReturnAmount(c, n, failed)
    PROVE  /\ calls' \in [Calls -> CallStates]
           /\ calls'[c].pc = "returned" /\ calls'[c].amount = n /\ calls'[c].failed = failed
           /\ calls'[c].op = calls[c].op /\ calls'[c].name = calls[c].name
           /\ calls'[c].bridge = calls[c].bridge
           /\ \A d \in Calls \ {c} : calls'[d] = calls[d]
<1>. DEFINE new == [calls[c] EXCEPT !.pc = "returned", !.amount = n, !.failed = failed]
<1>1. calls \in [Calls -> CallStates] /\ calls[c] \in CallStates
  BY DEF TokenAssetsTypeOK
<1>2. calls' = [calls EXCEPT ![c] = new]
  BY <1>1 DEF ReturnAmount, CallStates
<1>3. new \in CallStates
  BY <1>1 DEF CallStates, Places
<1>4. new.pc = "returned" /\ new.amount = n /\ new.failed = failed
      /\ new.op = calls[c].op /\ new.name = calls[c].name /\ new.bridge = calls[c].bridge
  BY <1>1 DEF CallStates
<1>. HIDE DEF new
<1>5. calls' \in [Calls -> CallStates] /\ \A d \in Calls \ {c} : calls'[d] = calls[d]
  BY <1>1, <1>2, <1>3
<1>6. calls'[c] = new
  BY <1>1, <1>2
<1>. QED  BY <1>4, <1>5, <1>6

LEMMA StepEnds ==
    ASSUME TokenAssetsTypeOK, NEW c \in Calls, NEW place \in Places,
           calls' = [calls EXCEPT ![c].pc = place]
    PROVE  /\ calls' \in [Calls -> CallStates]
           /\ calls'[c].pc = place /\ calls'[c].token = calls[c].token
           /\ calls'[c].op = calls[c].op /\ calls'[c].name = calls[c].name
           /\ calls'[c].bridge = calls[c].bridge
           /\ \A d \in Calls \ {c} : calls'[d] = calls[d]
<1>1. calls \in [Calls -> CallStates] /\ calls[c] \in CallStates
  BY DEF TokenAssetsTypeOK
<1>2. calls[c].token \in Addresses \cup {None}
  BY <1>1 DEF CallStates
<1>3. GoOn(c, place, calls[c].token)
  BY <1>1 DEF GoOn, CallStates
<1>. QED  BY <1>2, <1>3, GoesOn

\* The names, and what the history has of the asset named, outlive a step.
LEMMA CallKept ==
    ASSUME ResolvedInv, NEW c \in Calls, UNCHANGED <<base, balance>>,
           calls'[c].op = calls[c].op, calls'[c].name = calls[c].name,
           calls'[c].bridge = calls[c].bridge,
           calls[c].pc # "idle", seen' = seen
    PROVE  NameFits(c)' /\ SeesNow(c)' /\ Named(calls[c].name)' = Named(calls[c].name)
<1>1. \A name : Named(name)' = Named(name)
  BY DEF Named
<1>2. NameFits(c) /\ SeesNow(c)
  BY DEF ResolvedInv
<1>. QED
  BY <1>1, <1>2 DEF NameFits, NamesOf, SeesNow, L1Names, L2Names, L2

-----------------------------------------------------------------------------
(***************************************************************************)
(* The steps of a call.                                                    *)
(***************************************************************************)

\* A name that a call may have.
LEMMA NamesAre ==
    ASSUME NEW c \in Calls, NameFits(c), calls[c].op \in Ops
    PROVE  /\ calls[c].op \in {"l2Address", "estimate"} => calls[c].name \in L1Names
           /\ calls[c].op = "l1Address" =>
                 calls[c].name \in L2Names \cup {LEGACY_ETH_ADDRESS}
           /\ calls[c].op \in {"transfer", "withdraw", "balance"} =>
                 calls[c].name \in L2Names \cup EthAddresses \cup {None}
           /\ calls[c].name = None => calls[c].op \in {"transfer", "withdraw", "balance"}
           /\ EthAddresses \subseteq L1Names
<1>1. None \notin L1Names \cup L2Names /\ LEGACY_ETH_ADDRESS \in L1Names
  BY AddressesDiffer DEF Addresses, L1Names
<1>2. EthAddresses \subseteq L1Names
  BY NotAssets DEF EthAddresses, L1Names, ETH_ADDRESS_IN_CONTRACTS
<1>. QED  BY <1>1, <1>2 DEF NameFits, NamesOf, Ops

\* Every name that a call may have names an asset.
LEMMA NamedIsAsset ==
    ASSUME TokenAssetsTypeOK, NEW c \in Calls, NameFits(c)
    PROVE  Named(calls[c].name) \in Assets
<1>1. calls[c].op \in Ops /\ base \in Assets
  BY CallFields DEF TokenAssetsTypeOK
<1>2. calls[c].name \in L1Names \cup L2Names \cup {None}
  BY <1>1, NamesAre DEF Ops, L1Names
<1>3. CASE calls[c].name \in L1Names
  BY <1>3, NamedOnL1
<1>4. CASE calls[c].name \in L2Names
  BY <1>1, <1>4, NamedOnL2 DEF L2Names
<1>5. CASE calls[c].name = None
  BY <1>1, <1>5 DEF Named
<1>. QED  BY <1>2, <1>3, <1>4, <1>5

\* A name on L2 stands for its asset.
LEMMA StandsAsIs ==
    ASSUME ResolvedInv, NEW c \in Calls, calls[c].name \in L2Names
    PROVE  /\ calls[c].name = ChecksumBase \/ Named(calls[c].name) = base
              \/ calls[c].name = L2(Named(calls[c].name))
           /\ Named(calls[c].name) = base =>
                 calls[c].name \in {ChecksumBase, L2_BASE_TOKEN_ADDRESS}
<1>1. calls[c].name # L2(base)
  BY DEF ResolvedInv, NameFits
<1>2. CASE calls[c].name \in {L2_BASE_TOKEN_ADDRESS, ChecksumBase}
  BY <1>2, NamedOnL2
<1>3. CASE \E a \in Assets : calls[c].name = L2(a)
  <2>1. PICK a \in Assets : calls[c].name = L2(a)
    BY <1>3
  <2>2. Named(calls[c].name) = a /\ a # base
    BY <2>1, <1>1, NamedOnL2
  <2>. QED  BY <2>1, <2>2
<1>. QED  BY <1>2, <1>3 DEF L2Names

LEMMA NormalizedIsAddress ==
    ASSUME NEW name \in L1Names
    PROVE  Normalized(name) \in Addresses
BY NamedOnL1, Translated

\* A call that goes on and is resolved so far.
LEMMA GoesOnResolved ==
    ASSUME ResolvedInv, NEW c \in Calls, NEW place \in Places \ {"idle", "returned"},
           NEW token \in Addresses \cup {None}, GoOn(c, place, token),
           calls[c].pc # "idle", UNCHANGED <<base, deployed, balance, seen>>,
           base_token' \in {None, L1(base)}, bridge_addresses' \in BOOLEAN,
           Resolved(c)'
    PROVE  ResolvedInv'
<1>1. TokenAssetsTypeOK
  BY DEF ResolvedInv
<1>2. /\ calls' \in [Calls -> CallStates]
      /\ calls'[c].pc = place /\ calls'[c].op = calls[c].op
      /\ calls'[c].name = calls[c].name /\ calls'[c].bridge = calls[c].bridge
      /\ \A d \in Calls \ {c} : calls'[d] = calls[d]
  BY <1>1, GoesOn
<1>3. NameFits(c)' /\ SeesNow(c)'
  BY <1>2, CallKept
<1>4. (MovesNamed(c) /\ AnswersNamed(c) /\ Agrees(c) /\ EstimatesDeposit(c))'
  BY <1>2, NotDone
<1>5. CallInv(c)'
  BY <1>3, <1>4 DEF CallInv
<1>6. seen' \in [Calls -> SUBSET Nat]
  BY <1>1 DEF TokenAssetsTypeOK
<1>. QED  BY <1>2, <1>5, <1>6, OneCallMoves

\* A call that ends and answers for what it did.
LEMMA EndsResolved ==
    ASSUME ResolvedInv, NEW c \in Calls, calls' \in [Calls -> CallStates],
           calls'[c].pc \in {"returned", "raised"},
           calls'[c].op = calls[c].op, calls'[c].name = calls[c].name,
           calls'[c].bridge = calls[c].bridge,
           \A d \in Calls \ {c} : calls'[d] = calls[d],
           calls[c].pc # "idle", UNCHANGED <<base, deployed, balance, seen>>,
           base_token' \in {None, L1(base)}, bridge_addresses' \in BOOLEAN,
           (MovesNamed(c) /\ AnswersNamed(c) /\ Agrees(c) /\ EstimatesDeposit(c))'
    PROVE  ResolvedInv'
<1>1. NameFits(c)' /\ SeesNow(c)'
  BY CallKept
<1>2. Resolved(c)'
  BY DEF Resolved, CallAt
<1>3. CallInv(c)'
  BY <1>1, <1>2 DEF CallInv
<1>4. seen' \in [Calls -> SUBSET Nat]
  BY DEF ResolvedInv, TokenAssetsTypeOK
<1>. QED  BY <1>3, <1>4, OneCallMoves

LEMMA ReadBaseTokenKeeps ==
    ASSUME ResolvedInv, NEW c \in Calls, ReadBaseToken(c)
    PROVE  ResolvedInv'
<1>. DEFINE token == calls[c].token
            op == calls[c].op
            name == calls[c].name
<1>1. TokenAssetsTypeOK /\ calls[c].pc = "base" /\ NameFits(c)
  BY DEF ResolvedInv, ReadBaseToken, CallAt
<1>2. op # "l1Address" /\ name \in L1Names /\ token = Normalized(name)
  BY <1>1 DEF ResolvedInv, Resolved, OnItsWay, CallAt
<1>3. token \in Addresses /\ L2_BASE_TOKEN_ADDRESS \in Addresses /\ op \in Ops
  BY <1>1, <1>2, NormalizedIsAddress, CallFields DEF Addresses, L2Names
<1>4. /\ UNCHANGED <<base, deployed, balance, seen>>
      /\ base_token' \in {None, L1(base)} /\ bridge_addresses' \in BOOLEAN
      /\ (L1Names' = L1Names) /\ \A n : Normalized(n)' = Normalized(n) /\ Named(n)' = Named(n)
  BY <1>1 DEF ReadBaseToken, TokenAssetsTypeOK, L1Names, Normalized, Named
<1>5. name # ChecksumBase /\ token = L1(Named(name))
  <2>1. ChecksumBase \notin L1Names
    BY AddressesDiffer DEF L1Names, ChecksumBase, LEGACY_ETH_ADDRESS
  <2>. QED  BY <2>1, <1>2, NamedOnL1
<1>6. CASE token # L1(base) /\ GoOn(c, "bridges", token)
  <2>1. /\ calls'[c].pc = "bridges" /\ calls'[c].token = token
        /\ calls'[c].op = op /\ calls'[c].name = name
    BY <1>1, <1>3, <1>6, GoesOn DEF Places
  <2>2. Resolved(c)'
    BY <1>2, <1>4, <1>6, <2>1 DEF Resolved, CallAt, OnItsWay
  <2>. QED  BY <1>1, <1>3, <1>4, <1>6, <2>2, GoesOnResolved DEF Places
<1>7. CASE token = L1(base) /\ op = "l2Address" /\ Return(c, L2_BASE_TOKEN_ADDRESS)
  <2>1. /\ calls' \in [Calls -> CallStates]
        /\ calls'[c].pc = "returned" /\ calls'[c].answer = L2_BASE_TOKEN_ADDRESS
        /\ calls'[c].op = op /\ calls'[c].name = name /\ calls'[c].bridge = calls[c].bridge
        /\ \A d \in Calls \ {c} : calls'[d] = calls[d]
    BY <1>1, <1>3, <1>7, AnswerEnds
  <2>2. Named(name) = base
    BY <1>5, <1>7, AddressesDiffer
  <2>3. (MovesNamed(c) /\ AnswersNamed(c) /\ Agrees(c) /\ EstimatesDeposit(c))'
    BY <1>4, <1>7, <2>1, <2>2, NamedOnL2
    DEF MovesNamed, AnswersNamed, Agrees, EstimatesDeposit, Done
  <2>. QED  BY <1>1, <1>4, <2>1, <2>3, EndsResolved
<1>8. CASE token = L1(base) /\ op = "estimate" /\ ReturnTx(c, DirectTx)
  <2>1. /\ calls' \in [Calls -> CallStates]
        /\ calls'[c].pc = "returned" /\ calls'[c].tx = DirectTx
        /\ calls'[c].op = op /\ calls'[c].name = name /\ calls'[c].bridge = calls[c].bridge
        /\ \A d \in Calls \ {c} : calls'[d] = calls[d]
    BY <1>1, <1>8, TxEnds DEF Txs
  <2>2. (IF name \in EthAddresses THEN ETH_ADDRESS_IN_CONTRACTS ELSE name) = L1(base)
    BY <1>2, <1>8, NamedOnL1
  <2>3. DepositedTx(c)' = DirectTx
    BY <1>4, <2>1, <2>2 DEF DepositedTx
  <2>4. (MovesNamed(c) /\ AnswersNamed(c) /\ Agrees(c) /\ EstimatesDeposit(c))'
    BY <1>8, <2>1, <2>3 DEF MovesNamed, AnswersNamed, Agrees, EstimatesDeposit, Done
  <2>. QED  BY <1>1, <1>4, <2>1, <2>4, EndsResolved
<1>9. CASE /\ token = L1(base) /\ op \in {"transfer", "withdraw", "balance"}
           /\ GoOn(c, "act", L2_BASE_TOKEN_ADDRESS)
  <2>1. /\ calls'[c].pc = "act" /\ calls'[c].token = L2_BASE_TOKEN_ADDRESS
        /\ calls'[c].op = op /\ calls'[c].name = name
    BY <1>1, <1>3, <1>9, GoesOn DEF Places
  <2>2. Named(name) = base
    BY <1>5, <1>9, AddressesDiffer
  <2>3. Resolved(c)'
    BY <1>4, <1>5, <1>9, <2>1, <2>2 DEF Resolved, CallAt, StandsFor
  <2>. QED  BY <1>1, <1>3, <1>4, <1>9, <2>3, GoesOnResolved DEF Places
<1>. QED  BY <1>6, <1>7, <1>8, <1>9 DEF ReadBaseToken

LEMMA ReadBridgesKeeps ==
    ASSUME ResolvedInv, NEW c \in Calls, ReadBridges(c)
    PROVE  ResolvedInv'
<1>. DEFINE token == calls[c].token
            place == IF calls[c].op = "estimate" THEN "act" ELSE "lookup"
<1>1. TokenAssetsTypeOK /\ calls[c].pc = "bridges" /\ GoOn(c, place, token)
  BY DEF ResolvedInv, ReadBridges, CallAt
<1>2. token \in Addresses \cup {None} /\ place \in Places \ {"idle", "returned"}
  BY <1>1, CallFields DEF Places
<1>3. /\ UNCHANGED <<base, deployed, balance, seen>>
      /\ base_token' \in {None, L1(base)} /\ bridge_addresses' \in BOOLEAN
      /\ L1Names' = L1Names /\ L2Names' = L2Names /\ \A n : Normalized(n)' = Normalized(n)
  BY <1>1 DEF ReadBridges, TokenAssetsTypeOK, L1Names, L2Names, Normalized
<1>4. /\ calls'[c].pc = place /\ calls'[c].token = token
      /\ calls'[c].op = calls[c].op /\ calls'[c].name = calls[c].name
      /\ calls'[c].bridge = calls[c].bridge
  BY <1>1, <1>2, GoesOn
<1>5. IF calls[c].op = "l1Address"
      THEN token = calls[c].name /\ calls[c].name \in L2Names
      ELSE OnItsWay(c) /\ token # L1(base)
  BY <1>1 DEF ResolvedInv, Resolved, CallAt
<1>6. Resolved(c)'
  BY <1>3, <1>4, <1>5 DEF Resolved, CallAt, OnItsWay
<1>. QED  BY <1>1, <1>2, <1>3, <1>6, GoesOnResolved

LEMMA BeginKeeps ==
    ASSUME ResolvedInv, NEW c \in Calls, Begin(c)
    PROVE  ResolvedInv'
<1>. DEFINE op == calls[c].op
            name == calls[c].name
<1>1. TokenAssetsTypeOK /\ calls[c].pc = "idle" /\ NameFits(c) /\ op \in Ops
  BY CallFields DEF ResolvedInv, Begin, CallAt
<1>2. /\ UNCHANGED <<base, base_token, bridge_addresses, deployed, balance>>
      /\ seen' = [seen EXCEPT ![c] = {balance[Named(name)]}]
      /\ L1Names' = L1Names /\ L2Names' = L2Names
      /\ \A n : Normalized(n)' = Normalized(n) /\ Named(n)' = Named(n)
  BY DEF Begin, L1Names, L2Names, Normalized, Named
<1>3. Named(name) \in Assets
  BY <1>1, NamedIsAsset
<1>4. balance[Named(name)] \in Nat /\ seen' \in [Calls -> SUBSET Nat]
  BY <1>1, <1>2, <1>3 DEF TokenAssetsTypeOK
<1>5. base_token' \in {None, L1(base)} /\ bridge_addresses' \in BOOLEAN
  BY <1>1, <1>2 DEF TokenAssetsTypeOK
<1>6. /\ \A d \in Calls \ {c} : seen'[d] = seen[d]
      /\ balance[Named(name)] \in seen'[c]
  BY <1>1, <1>2 DEF TokenAssetsTypeOK
<1>7. ASSUME calls' \in [Calls -> CallStates], calls'[c].op = op, calls'[c].name = name,
             calls'[c].bridge = calls[c].bridge,
             \A d \in Calls \ {c} : calls'[d] = calls[d],
             Resolved(c)', (MovesNamed(c) /\ AnswersNamed(c) /\ Agrees(c) /\ EstimatesDeposit(c))'
      PROVE  ResolvedInv'
  <2>1. NameFits(c)'
    BY <1>1, <1>2, <1>7 DEF NameFits, NamesOf, L2
  <2>2. SeesNow(c)'
    BY <1>2, <1>6, <1>7 DEF SeesNow
  <2>3. CallInv(c)'
    BY <1>7, <2>1, <2>2 DEF CallInv
  <2>. QED  BY <1>2, <1>4, <1>5, <1>6, <1>7, <2>3, OneCallMoves
<1>8. ASSUME NEW place \in {"act", "base", "bridges"}, NEW token \in Addresses,
             GoOn(c, place, token),
             /\ calls'[c].pc = place /\ calls'[c].token = token
             /\ calls'[c].op = op /\ calls'[c].name = name
             /\ calls'[c].bridge = calls[c].bridge
             => Resolved(c)'
      PROVE  ResolvedInv'
  <2>1. /\ calls' \in [Calls -> CallStates]
        /\ calls'[c].pc = place /\ calls'[c].token = token
        /\ calls'[c].op = op /\ calls'[c].name = name
        /\ calls'[c].bridge = calls[c].bridge
        /\ \A d \in Calls \ {c} : calls'[d] = calls[d]
    BY <1>1, <1>8, GoesOn DEF Places
  <2>2. (MovesNamed(c) /\ AnswersNamed(c) /\ Agrees(c) /\ EstimatesDeposit(c))'
    BY <2>1, NotDone
  <2>. QED  BY <1>7, <1>8, <2>1, <2>2
<1>9. CASE StandsForBase(c) /\ GoOn(c, "act", L2_BASE_TOKEN_ADDRESS)
  <2>1. name = None /\ op \in {"transfer", "withdraw", "balance"}
    BY <1>1, <1>9, NamesAre DEF StandsForBase
  <2>2. Named(name) = base /\ name # ChecksumBase /\ L2_BASE_TOKEN_ADDRESS \in Addresses
    BY <2>1, AddressesDiffer DEF Named, Addresses, L2Names
  <2>3. /\ calls'[c].pc = "act" /\ calls'[c].token = L2_BASE_TOKEN_ADDRESS
        /\ calls'[c].op = op /\ calls'[c].name = name
        => Resolved(c)'
    BY <1>2, <2>1, <2>2 DEF Resolved, CallAt, StandsFor
  <2>. QED  BY <1>8, <1>9, <2>2, <2>3
<1>10. CASE ~StandsForBase(c) /\ AsksForBase(c) /\ GoOn(c, "base", Normalized(name))
  <2>1. name \in L1Names /\ op # "l1Address"
    BY <1>1, <1>10, NamesAre DEF AsksForBase
  <2>2. Normalized(name) \in Addresses
    BY <2>1, NormalizedIsAddress
  <2>3. /\ calls'[c].pc = "base" /\ calls'[c].token = Normalized(name)
        /\ calls'[c].op = op /\ calls'[c].name = name
        => Resolved(c)'
    BY <1>2, <2>1 DEF Resolved, CallAt, OnItsWay
  <2>. QED  BY <1>8, <1>10, <2>2, <2>3
<1>11. CASE calls[c].bridge # None /\ GoOn(c, "act", Normalized(name))
  <2>1. op = "estimate" /\ name \in L1Names
    BY <1>1, <1>11, NamesAre DEF NameFits
  <2>2. Normalized(name) \in Addresses
    BY <2>1, NormalizedIsAddress
  <2>3. /\ calls'[c].pc = "act" /\ calls'[c].token = Normalized(name)
        /\ calls'[c].op = op /\ calls'[c].name = name /\ calls'[c].bridge = calls[c].bridge
        => Resolved(c)'
    BY <1>2, <1>11, <2>1 DEF Resolved, CallAt, OnItsWay
  <2>. QED  BY <1>8, <1>11, <2>2, <2>3
<1>12. CASE op = "l1Address" /\ name = LEGACY_ETH_ADDRESS /\ Return(c, name)
  <2>1. name \in Addresses
    BY <1>12 DEF Addresses, L1Names
  <2>2. /\ calls' \in [Calls -> CallStates]
        /\ calls'[c].pc = "returned" /\ calls'[c].answer = name
        /\ calls'[c].op = op /\ calls'[c].name = name /\ calls'[c].bridge = calls[c].bridge
        /\ \A d \in Calls \ {c} : calls'[d] = calls[d]
    BY <1>1, <1>12, <2>1, AnswerEnds
  <2>3. Resolved(c)'
    BY <2>2 DEF Resolved, CallAt
  <2>4. (MovesNamed(c) /\ AnswersNamed(c) /\ Agrees(c) /\ EstimatesDeposit(c))'
    BY <1>12, <2>2 DEF MovesNamed, AnswersNamed, Agrees, EstimatesDeposit, Done
  <2>. QED  BY <1>7, <2>2, <2>3, <2>4
<1>13. CASE op = "l1Address" /\ name # LEGACY_ETH_ADDRESS /\ GoOn(c, "bridges", name)
  <2>1. name \in L2Names
    BY <1>1, <1>13, NamesAre
  <2>2. /\ calls'[c].pc = "bridges" /\ calls'[c].token = name
        /\ calls'[c].op = op /\ calls'[c].name = name
        => Resolved(c)'
    BY <1>2, <1>13, <2>1 DEF Resolved, CallAt
  <2>3. name \in Addresses
    BY <2>1 DEF Addresses
  <2>. QED  BY <1>8, <1>13, <2>2, <2>3
<1>14. CASE /\ op \in {"transfer", "withdraw", "balance"} /\ name \in L2Names
            /\ GoOn(c, "act", name)
  <2>2. /\ calls'[c].pc = "act" /\ calls'[c].token = name
        /\ calls'[c].op = op /\ calls'[c].name = name
        => Resolved(c)'
    BY <1>2, <1>14, StandsAsIs DEF Resolved, CallAt, StandsFor, L2
  <2>3. name \in Addresses
    BY <1>14 DEF Addresses
  <2>. QED  BY <1>8, <1>14, <2>2, <2>3
<1>. QED  BY <1>9, <1>10, <1>11, <1>12, <1>13, <1>14 DEF Begin

LEMMA LookupKeeps ==
    ASSUME ResolvedInv, NEW c \in Calls, Lookup(c)
    PROVE  ResolvedInv'
<1>. DEFINE token == calls[c].token
            op == calls[c].op
            name == calls[c].name
<1>1. TokenAssetsTypeOK /\ calls[c].pc = "lookup" /\ NameFits(c) /\ op \in Ops
  BY CallFields DEF ResolvedInv, Lookup, CallAt
<1>2. /\ UNCHANGED <<base, deployed, balance, seen>>
      /\ base_token' \in {None, L1(base)} /\ bridge_addresses' \in BOOLEAN
      /\ \A n : Named(n)' = Named(n)
  BY <1>1 DEF Lookup, TokenAssetsTypeOK, Named
<1>3. IF op = "l1Address" THEN token = name /\ name \in L2Names
      ELSE OnItsWay(c) /\ token # L1(base)
  BY <1>1 DEF ResolvedInv, Resolved, CallAt
<1>4. ASSUME op # "l1Address"
      PROVE  /\ Named(name) \in Assets /\ Named(name) # base
             /\ token[2] = Named(name) /\ name # ChecksumBase
             /\ L2(token[2]) \in Addresses
  <2>1. name \in L1Names /\ token = L1(Named(name)) /\ Named(name) \in Assets
    BY <1>3, <1>4, NamedOnL1 DEF OnItsWay
  <2>2. ChecksumBase \notin L1Names
    BY AddressesDiffer DEF L1Names, ChecksumBase, LEGACY_ETH_ADDRESS
  <2>3. token[2] = Named(name)
    BY <2>1 DEF L1
  <2>. QED  BY <1>3, <1>4, <2>1, <2>2, <2>3, Translated
<1>5. CASE op = "l2Address" /\ Return(c, L2(token[2]))
  <2>1. /\ calls' \in [Calls -> CallStates]
        /\ calls'[c].pc = "returned" /\ calls'[c].answer = L2(token[2])
        /\ calls'[c].op = op /\ calls'[c].name = name /\ calls'[c].bridge = calls[c].bridge
        /\ \A d \in Calls \ {c} : calls'[d] = calls[d]
    BY <1>1, <1>4, <1>5, AnswerEnds
  <2>2. Named(L2(token[2])) = Named(name)
    BY <1>4, <1>5, NamedOnL2
  <2>3. (MovesNamed(c) /\ AnswersNamed(c) /\ Agrees(c) /\ EstimatesDeposit(c))'
    BY <1>2, <1>5, <2>1, <2>2 DEF MovesNamed, AnswersNamed, Agrees, EstimatesDeposit, Done
  <2>. QED  BY <1>1, <1>2, <2>1, <2>3, EndsResolved
<1>6. CASE /\ op = "l1Address"
           /\ calls' = [calls EXCEPT ![c].pc = "returned", ![c].answer = L1TokenAddress(token),
                                     ![c].had = token[2] \in deployed]
  <2>1. token = name /\ name \in L2Names
    BY <1>3, <1>6
  <2>2. /\ \/ Named(L1TokenAddress(token)) = Named(name)
           \/ L1TokenAddress(token) = LEGACY_ETH_ADDRESS /\ Named(name) = base
           \/ L1TokenAddress(token) = LEGACY_ETH_ADDRESS /\ token[2] \notin deployed
        /\ L1TokenAddress(token) \in Addresses
    <3>1. CASE \E a \in deployed : token = L2(a)
      <4>1. PICK a \in deployed : token = L2(a)
        BY <3>1
      <4>2. a \in Assets /\ token[2] = a /\ L1TokenAddress(token) = L1(a)
        BY <1>1, <4>1 DEF TokenAssetsTypeOK, L1TokenAddress, L2
      <4>3. L1(a) \in L1Names /\ L1(a) # LEGACY_ETH_ADDRESS
        BY <4>2, NotAssets, AddressesDiffer DEF L1Names, LEGACY_ETH_ADDRESS
      <4>4. Named(L1(a)) = a
        BY <4>3, NamedOnL1, AddressesDiffer DEF Normalized
      <4>5. Named(name) = a
        BY <2>1, <4>1, <4>2, NamedOnL2
      <4>. QED  BY <4>2, <4>3, <4>4, <4>5 DEF Addresses
    <3>2. CASE ~\E a \in deployed : token = L2(a)
      <4>1. L1TokenAddress(token) = LEGACY_ETH_ADDRESS /\ LEGACY_ETH_ADDRESS \in Addresses
        BY <3>2 DEF L1TokenAddress, Addresses, L1Names
      <4>2. CASE token \in {L2_BASE_TOKEN_ADDRESS, ChecksumBase}
        BY <2>1, <4>1, <4>2, NamedOnL2
      <4>3. CASE \E a \in Assets : token = L2(a)
        BY <3>2, <4>1, <4>3 DEF L2
      <4>. QED  BY <2>1, <4>2, <4>3 DEF L2Names
    <3>. QED  BY <3>1, <3>2
  <2>3. (token[2] \in deployed) \in BOOLEAN
    OBVIOUS
  <2>4. /\ calls' \in [Calls -> CallStates]
        /\ calls'[c].pc = "returned" /\ calls'[c].answer = L1TokenAddress(token)
        /\ calls'[c].had = (token[2] \in deployed)
        /\ calls'[c].op = op /\ calls'[c].name = name /\ calls'[c].bridge = calls[c].bridge
        /\ \A d \in Calls \ {c} : calls'[d] = calls[d]
    BY <1>1, <1>6, <2>2, <2>3, ReturnEnds
  <2>5. MovesNamed(c)' /\ AnswersNamed(c)' /\ EstimatesDeposit(c)'
    BY <1>6, <2>4 DEF MovesNamed, AnswersNamed, EstimatesDeposit, Done
  <2>6. Agrees(c)'
    BY <1>2, <1>6, <2>2, <2>4 DEF Agrees, Done
  <2>. QED  BY <1>1, <1>2, <2>4, <2>5, <2>6, EndsResolved
<1>7. CASE op \in {"transfer", "withdraw", "balance"} /\ GoOn(c, "act", L2(token[2]))
  <2>1. /\ calls'[c].pc = "act" /\ calls'[c].token = L2(token[2])
        /\ calls'[c].op = op /\ calls'[c].name = name
    BY <1>1, <1>4, <1>7, GoesOn DEF Places
  <2>2. Resolved(c)'
    BY <1>2, <1>4, <1>7, <2>1 DEF Resolved, CallAt, StandsFor, L2
  <2>. QED  BY <1>1, <1>2, <1>4, <1>7, <2>2, GoesOnResolved DEF Places
<1>. QED  BY <1>5, <1>6, <1>7 DEF Lookup

LEMMA EstimateKeeps ==
    ASSUME ResolvedInv, NEW c \in Calls, Estimate(c)
    PROVE  ResolvedInv'
<1>. DEFINE token == calls[c].token
            name == calls[c].name
            tx == BridgeTx(BridgeOf(c), token)
<1>1. TokenAssetsTypeOK /\ calls[c].pc = "act" /\ calls[c].op = "estimate"
  BY DEF ResolvedInv, Estimate, CallAt
<1>2. /\ UNCHANGED <<base, deployed, balance, seen>>
      /\ base_token' \in {None, L1(base)} /\ bridge_addresses' \in BOOLEAN
      /\ \A n : Named(n)' = Named(n)
  BY <1>1 DEF Estimate, TokenAssetsTypeOK, Named
<1>3. OnItsWay(c) /\ (calls[c].bridge # None \/ token # L1(base))
  BY <1>1 DEF ResolvedInv, Resolved, CallAt
<1>4. name \in L1Names /\ token \in Addresses /\ token = L1(Named(name))
  BY <1>3, NamedOnL1, NormalizedIsAddress DEF OnItsWay
<1>5. tx \in Txs
  <2>1. BridgeOf(c) \in {"shared", "custom"}
    BY <1>1, CallFields DEF BridgeOf
  <2>. QED  BY <1>4, <2>1 DEF Txs
<1>6. /\ calls' \in [Calls -> CallStates]
      /\ calls'[c].pc = "returned" /\ calls'[c].tx = tx
      /\ calls'[c].op = "estimate" /\ calls'[c].name = name
      /\ calls'[c].bridge = calls[c].bridge
      /\ \A d \in Calls \ {c} : calls'[d] = calls[d]
  BY <1>1, <1>5, TxEnds DEF Estimate
<1>7. (IF name \in EthAddresses THEN ETH_ADDRESS_IN_CONTRACTS ELSE name) = token
  BY <1>3, <1>4, NamedOnL1 DEF OnItsWay
<1>8. token # L1(base) => DepositedTx(c)' = tx
  BY <1>2, <1>6, <1>7 DEF DepositedTx, BridgeOf, BridgeTx
<1>9. token = L1(base) => Named(name) = base
  BY <1>4, AddressesDiffer
<1>10. (MovesNamed(c) /\ AnswersNamed(c) /\ Agrees(c) /\ EstimatesDeposit(c))'
  BY <1>2, <1>3, <1>6, <1>8, <1>9 DEF MovesNamed, AnswersNamed, Agrees, EstimatesDeposit, Done
<1>. QED  BY <1>1, <1>2, <1>6, <1>10, EndsResolved

LEMMA ReadBalanceKeeps ==
    ASSUME ResolvedInv, NEW c \in Calls, ReadBalance(c)
    PROVE  ResolvedInv'
<1>. DEFINE name == calls[c].name
            held == AssetAt(calls[c].token)
            n == IF held = None THEN 0 ELSE balance[held]
<1>1. TokenAssetsTypeOK /\ calls[c].pc = "act" /\ calls[c].op = "balance"
  BY DEF ResolvedInv, ReadBalance, CallAt
<1>2. /\ UNCHANGED <<base, deployed, balance, seen>>
      /\ base_token' \in {None, L1(base)} /\ bridge_addresses' \in BOOLEAN
  BY <1>1 DEF ReadBalance, TokenAssetsTypeOK
<1>3. NameFits(c) /\ StandsFor(c) /\ balance[Named(name)] \in seen[c]
  BY <1>1 DEF ResolvedInv, Resolved, CallAt, SeesNow
<1>4. Named(name) \in Assets /\ None \notin Assets
  BY <1>1, <1>3, Standing, NotAssets
<1>5. n \in Nat /\ (n \in seen[c] \/ (n = 0 /\ name = ChecksumBase))
  <2>1. CASE name = ChecksumBase
    BY <1>1, <1>3, <2>1, Standing, AtAddress
  <2>2. CASE name # ChecksumBase /\ Named(name) \in deployed \cup {base}
    BY <1>1, <1>3, <1>4, <2>2, Standing DEF TokenAssetsTypeOK
  <2>3. CASE name # ChecksumBase /\ Named(name) \notin deployed \cup {base}
    <3>1. balance[Named(name)] = 0
      BY <1>1, <1>4, <2>3 DEF ResolvedInv, HeldIsDeployed, TokenAssetsTypeOK
    <3>2. n = 0
      BY <1>1, <1>3, <2>3, Standing
    <3>. QED  BY <1>3, <3>1, <3>2
  <2>. QED  BY <2>1, <2>2, <2>3
<1>6. /\ calls' \in [Calls -> CallStates]
      /\ calls'[c].pc = "returned" /\ calls'[c].amount = n
      /\ calls'[c].op = "balance" /\ calls'[c].name = name
      /\ calls'[c].bridge = calls[c].bridge
      /\ \A d \in Calls \ {c} : calls'[d] = calls[d]
  <2>1. ReturnAmount(c, n, FALSE)
    BY DEF ReadBalance
  <2>. QED  BY <1>1, <1>5, <2>1, AmountEnds
<1>7. AnswersNamed(c)'
  BY <1>2, <1>5, <1>6 DEF AnswersNamed
<1>8. (MovesNamed(c) /\ Agrees(c) /\ EstimatesDeposit(c))'
  BY <1>6 DEF MovesNamed, Agrees, EstimatesDeposit, Done
<1>. QED  BY <1>1, <1>2, <1>6, <1>7, <1>8, EndsResolved

LEMMA SendKeeps ==
    ASSUME ResolvedInv, NEW c \in Calls, Send(c)
    PROVE  ResolvedInv'
<1>1. /\ TokenAssetsTypeOK /\ calls[c].pc = "act" /\ calls[c].op \in {"transfer", "withdraw"}
      /\ calls' = [calls EXCEPT ![c].pc = "sent"]
  BY DEF ResolvedInv, Send, CallAt
<1>2. /\ UNCHANGED <<base, deployed, balance, seen>>
      /\ base_token' \in {None, L1(base)}
      /\ \A n : Named(n)' = Named(n)
  BY <1>1 DEF Send, TokenAssetsTypeOK, Named
<1>3. bridge_addresses' \in BOOLEAN
  BY <1>1 DEF Send, TokenAssetsTypeOK
<1>4. StandsFor(c)
  BY <1>1 DEF ResolvedInv, Resolved, CallAt
<1>5. /\ calls'[c].pc = "sent" /\ calls'[c].token = calls[c].token
      /\ calls'[c].op = calls[c].op /\ calls'[c].name = calls[c].name
  BY <1>1, StepEnds DEF Places
<1>6. Resolved(c)'
  BY <1>1, <1>2, <1>4, <1>5 DEF Resolved, CallAt, StandsFor, L2
<1>7. calls[c].token \in Addresses \cup {None}
  BY <1>1, CallFields
<1>8. GoOn(c, "sent", calls[c].token)
  <2>1. calls \in [Calls -> CallStates] /\ calls[c] \in CallStates
    BY <1>1 DEF TokenAssetsTypeOK
  <2>. QED  BY <1>1, <2>1 DEF GoOn, CallStates
<1>. QED  BY <1>1, <1>2, <1>3, <1>6, <1>7, <1>8, GoesOnResolved DEF Places

LEMMA CallFailsKeeps ==
    ASSUME ResolvedInv, NEW c \in Calls, CallFails(c)
    PROVE  ResolvedInv'
<1>1. TokenAssetsTypeOK /\ calls[c].pc # "idle"
  BY DEF ResolvedInv, CallFails
<1>2. /\ UNCHANGED <<base, deployed, balance, seen>>
      /\ base_token' \in {None, L1(base)} /\ bridge_addresses' \in BOOLEAN
  BY <1>1 DEF CallFails, TokenAssetsTypeOK
<1>3. CASE Swallowed(c) /\ ReturnAmount(c, 0, TRUE)
  <2>1. /\ calls' \in [Calls -> CallStates]
        /\ calls'[c].pc = "returned" /\ calls'[c].amount = 0 /\ calls'[c].failed = TRUE
        /\ calls'[c].op = calls[c].op /\ calls'[c].name = calls[c].name
        /\ calls'[c].bridge = calls[c].bridge
        /\ \A d \in Calls \ {c} : calls'[d] = calls[d]
    BY <1>1, <1>3, AmountEnds
  <2>2. calls[c].op = "balance"
    BY <1>3 DEF Swallowed
  <2>3. (MovesNamed(c) /\ AnswersNamed(c) /\ Agrees(c) /\ EstimatesDeposit(c))'
    BY <2>1, <2>2 DEF MovesNamed, AnswersNamed, Agrees, EstimatesDeposit, Done
  <2>. QED  BY <1>1, <1>2, <2>1, <2>3, EndsResolved
<1>4. CASE calls' = [calls EXCEPT ![c].pc = "raised"]
  <2>1. /\ calls' \in [Calls -> CallStates]
        /\ calls'[c].pc = "raised"
        /\ calls'[c].op = calls[c].op /\ calls'[c].name = calls[c].name
        /\ calls'[c].bridge = calls[c].bridge
        /\ \A d \in Calls \ {c} : calls'[d] = calls[d]
    BY <1>1, <1>4, StepEnds DEF Places
  <2>2. (MovesNamed(c) /\ AnswersNamed(c) /\ Agrees(c) /\ EstimatesDeposit(c))'
    BY <2>1, NotDone
  <2>. QED  BY <1>1, <1>2, <2>1, <2>2, EndsResolved
<1>. QED  BY <1>3, <1>4 DEF CallFails

LEMMA ExecuteKeeps ==
    ASSUME ResolvedInv, NEW c \in Calls, Execute(c)
    PROVE  ResolvedInv'
<1>. DEFINE name == calls[c].name
            a == IF calls[c].op = "transfer" THEN Transferred(c) ELSE Withdrawn(c)
            moves == a # None /\ balance[a] > 0
            had == balance[Named(name)] > 0
            moved == IF moves THEN a ELSE None
            new == [calls[c] EXCEPT !.pc = "returned", !.moved = moved, !.had = had]
<1>1. TokenAssetsTypeOK /\ calls[c].pc = "sent"
  BY DEF ResolvedInv, Execute, CallAt
<1>2. calls[c].op \in {"transfer", "withdraw"} /\ StandsFor(c) /\ NameFits(c)
  BY <1>1 DEF ResolvedInv, Resolved, CallAt
<1>3. Named(name) \in Assets /\ None \notin Assets
  BY <1>2, Standing, NotAssets
<1>4. \/ a = Named(name)
      \/ a = None /\ Named(name) \notin deployed \cup {base}
      \/ a = None /\ name = ChecksumBase /\ calls[c].op = "withdraw"
  <2>1. CASE calls[c].op = "transfer"
    BY <1>1, <1>2, <1>3, <2>1, Standing, NamedOnL2 DEF Transferred
  <2>2. CASE calls[c].op = "withdraw"
    <3>1. ChecksumBase # L2_BASE_TOKEN_ADDRESS
      BY AddressesDiffer DEF ChecksumBase, L2_BASE_TOKEN_ADDRESS
    <3>. QED  BY <1>1, <1>2, <1>3, <2>2, <3>1, Standing, AtAddress DEF Withdrawn
  <2>. QED  BY <1>2, <2>1, <2>2
<1>5. a \in Assets \cup {None} /\ (moves => a = Named(name)) /\ had \in BOOLEAN
  BY <1>3, <1>4
<1>6. /\ moved \in Assets \cup {None}
      /\ \/ moved = Named(name)
         \/ moved = None /\ ~had
         \/ moved = None /\ name = ChecksumBase /\ calls[c].op = "withdraw"
  <2>1. CASE a = Named(name)
    BY <1>3, <2>1
  <2>2. CASE a = None /\ Named(name) \notin deployed \cup {base}
    <3>1. ~had
      BY <1>3, <2>2 DEF ResolvedInv, HeldIsDeployed
    <3>. QED  BY <2>2, <3>1
  <2>3. CASE a = None /\ name = ChecksumBase /\ calls[c].op = "withdraw"
    BY <2>3
  <2>. QED  BY <1>4, <2>1, <2>2, <2>3
<1>. HIDE DEF moves
<1>7. /\ UNCHANGED <<base, base_token, bridge_addresses, deployed>>
      /\ balance' = IF moves THEN [balance EXCEPT ![a] = @ - 1] ELSE balance
      /\ calls' = [calls EXCEPT ![c].pc = "returned", ![c].moved = moved, ![c].had = had]
      /\ Seen
  BY DEF Execute, moves
<1>. HIDE DEF a, had, moved
<1>8. balance' \in [Assets -> Nat] /\ \A b \in Assets : balance'[b] > 0 => balance[b] > 0
  <2>1. moves => a \in Assets /\ balance[a] > 0
    BY <1>3, <1>5 DEF moves
  <2>. QED  BY <1>1, <1>7, <2>1 DEF TokenAssetsTypeOK
<1>9. /\ calls' \in [Calls -> CallStates]
      /\ calls'[c].pc = "returned" /\ calls'[c].moved = moved /\ calls'[c].had = had
      /\ calls'[c].op = calls[c].op /\ calls'[c].name = name
      /\ calls'[c].bridge = calls[c].bridge
      /\ \A d \in Calls \ {c} : calls'[d] = calls[d]
  <2>1. calls \in [Calls -> CallStates] /\ calls[c] \in CallStates
    BY <1>1 DEF TokenAssetsTypeOK
  <2>2. calls' = [calls EXCEPT ![c] = new]
    BY <1>7, <2>1 DEF CallStates
  <2>3. new \in CallStates
    BY <1>5, <1>6, <2>1 DEF CallStates, Places
  <2>4. /\ new.pc = "returned" /\ new.moved = moved /\ new.had = had
        /\ new.op = calls[c].op /\ new.name = name /\ new.bridge = calls[c].bridge
    BY <2>1 DEF CallStates
  <2>. HIDE DEF new
  <2>. QED  BY <2>1, <2>2, <2>3, <2>4
<1>10. \A n : Named(n)' = Named(n)
  BY <1>7 DEF Named
<1>11. ASSUME NEW d \in Calls, Named(calls[d].name) \in Assets
       PROVE  seen[d] \subseteq seen'[d] /\ balance'[Named(calls[d].name)] \in seen'[d]
  BY <1>1, <1>7, <1>10, <1>11 DEF Seen, TokenAssetsTypeOK
<1>12. \A d \in Calls : Named(calls[d].name) \in Assets
  BY <1>1, NamedIsAsset DEF ResolvedInv
<1>13. seen' \in [Calls -> SUBSET Nat]
  BY <1>1, <1>7, <1>8, <1>10, <1>12 DEF Seen, TokenAssetsTypeOK
<1>14. TokenAssetsTypeOK' /\ HeldIsDeployed'
  <2>1. HeldIsDeployed'
    BY <1>7, <1>8 DEF ResolvedInv, HeldIsDeployed
  <2>. QED
    BY <1>1, <1>7, <1>8, <1>9, <1>13, <2>1
    DEF TokenAssetsTypeOK, CallStates, Addresses, L1Names, L2Names, L1, Txs
<1>15. ASSUME NEW d \in Calls \ {c} PROVE CallInv(d)'
  BY <1>7, <1>9, <1>11, <1>12, CallStill
<1>16. CallInv(c)'
  <2>1. NameFits(c)' /\ SeesNow(c)'
    BY <1>2, <1>7, <1>9, <1>10, <1>11, <1>12 DEF NameFits, NamesOf, SeesNow, L1Names, L2Names, L2
  <2>2. Resolved(c)'
    BY <1>9 DEF Resolved, CallAt
  <2>3. MovesNamed(c)'
    BY <1>6, <1>9, <1>10 DEF MovesNamed
  <2>4. (AnswersNamed(c) /\ Agrees(c) /\ EstimatesDeposit(c))'
    BY <1>2, <1>9 DEF AnswersNamed, Agrees, EstimatesDeposit, Done
  <2>. QED  BY <2>1, <2>2, <2>3, <2>4 DEF CallInv
<1>. QED  BY <1>14, <1>15, <1>16, Together

-----------------------------------------------------------------------------
(***************************************************************************)
(* The invariant of the specification.                                     *)
(***************************************************************************)

LEMMA DepositedKeeps ==
    ASSUME ResolvedInv, NEW a \in Assets, Deposited(a)
    PROVE  ResolvedInv'
<1>1. TokenAssetsTypeOK /\ HeldIsDeployed
  BY DEF ResolvedInv
<1>2. /\ UNCHANGED <<base, base_token, bridge_addresses, calls>>
      /\ balance' = [balance EXCEPT ![a] = @ + 1]
      /\ deployed' = deployed \cup ({a} \ {base})
      /\ Seen
  BY DEF Deposited
<1>3. balance' \in [Assets -> Nat]
  BY <1>1, <1>2 DEF TokenAssetsTypeOK
<1>4. \A n : Named(n)' = Named(n)
  BY <1>2 DEF Named
<1>5. \A d \in Calls : Named(calls[d].name) \in Assets
  BY <1>1, NamedIsAsset DEF ResolvedInv
<1>6. ASSUME NEW d \in Calls
      PROVE  seen[d] \subseteq seen'[d] /\ balance'[Named(calls[d].name)] \in seen'[d]
  BY <1>1, <1>2, <1>4, <1>5 DEF Seen, TokenAssetsTypeOK
<1>7. seen' \in [Calls -> SUBSET Nat]
  BY <1>1, <1>2, <1>3, <1>4, <1>5 DEF Seen, TokenAssetsTypeOK
<1>8. HeldIsDeployed'
  BY <1>1, <1>2 DEF HeldIsDeployed, TokenAssetsTypeOK
<1>9. TokenAssetsTypeOK'
  BY <1>1, <1>2, <1>3, <1>7
  DEF TokenAssetsTypeOK, CallStates, Addresses, L1Names, L2Names, L1, Txs
<1>10. ASSUME NEW d \in Calls PROVE CallInv(d)'
  BY <1>2, <1>6, CallStill
<1>. QED  BY <1>8, <1>9, <1>10, Together

LEMMA InitResolved ==
    Init => ResolvedInv
<1>. SUFFICES ASSUME Init PROVE ResolvedInv
  OBVIOUS
<1>1. \A new \in NewCalls : new \in CallStates
  <2>1. ASSUME NEW op \in Ops, NEW name \in Addresses \cup {None}, NEW bridge \in {None, "custom"}
        PROVE  NewCall(op, name, bridge) \in CallStates
    BY DEF NewCall, CallStates, Places
  <2>2. ASSUME NEW op \in Ops PROVE NamesOf(op) \subseteq Addresses \cup {None}
    <3>1. EthAddresses \subseteq Addresses /\ LEGACY_ETH_ADDRESS \in Addresses
      BY NotAssets DEF EthAddresses, Addresses, L1Names, ETH_ADDRESS_IN_CONTRACTS
    <3>. QED  BY <3>1 DEF NamesOf, Addresses
  <2>. QED  BY <2>1, <2>2 DEF NewCalls
<1>2. TokenAssetsTypeOK
  BY <1>1 DEF Init, TokenAssetsTypeOK
<1>3. HeldIsDeployed
  BY DEF Init, HeldIsDeployed
<1>4. ASSUME NEW c \in Calls PROVE CallInv(c)
  <2>1. calls[c].pc = "idle"
    BY DEF Init, NewCalls, NewCall
  <2>2. NameFits(c)
    BY DEF Init, NewCalls, NewCall, NameFits
  <2>3. Resolved(c) /\ SeesNow(c)
    BY <2>1 DEF Resolved, SeesNow, CallAt
  <2>4. MovesNamed(c) /\ AnswersNamed(c) /\ Agrees(c) /\ EstimatesDeposit(c)
    BY <2>1 DEF MovesNamed, AnswersNamed, Agrees, EstimatesDeposit, Done
  <2>. QED  BY <2>2, <2>3, <2>4 DEF CallInv
<1>. QED  BY <1>2, <1>3, <1>4, InvByCall

LEMMA NextKeeps ==
    ResolvedInv /\ [Next]_vars => ResolvedInv'
<1>. SUFFICES ASSUME ResolvedInv, [Next]_vars PROVE ResolvedInv'
  OBVIOUS
<1>1. ASSUME NEW a \in Assets, Deposited(a) PROVE ResolvedInv'
  BY <1>1, DepositedKeeps
<1>2. ASSUME NEW c \in Calls,
             \/ Begin(c) \/ ReadBaseToken(c) \/ ReadBridges(c) \/ Lookup(c)
             \/ Estimate(c) \/ ReadBalance(c) \/ Send(c) \/ Execute(c)
             \/ CallFails(c)
      PROVE  ResolvedInv'
  BY <1>2, BeginKeeps, ReadBaseTokenKeeps, ReadBridgesKeeps, LookupKeeps, EstimateKeeps,
     ReadBalanceKeeps, SendKeeps, ExecuteKeeps, CallFailsKeeps
<1>3. CASE UNCHANGED vars
  <2>1. TokenAssetsTypeOK' /\ HeldIsDeployed'
    BY <1>3
    DEF vars, ResolvedInv, TokenAssetsTypeOK, HeldIsDeployed, CallStates, Addresses,
        L1Names, L2Names, L1, Txs
  <2>2. ASSUME NEW d \in Calls PROVE CallInv(d)'
    BY <1>3, CallStill DEF vars
  <2>. QED  BY <2>1, <2>2, Together
<1>. QED  BY <1>1, <1>2, <1>3 DEF Next

\* However calls and deposits interleave, an address that is on its way through the
\* caches and the bridge stands for the asset that the program named.
THEOREM ResolvedInvariant == Spec => []ResolvedInv
<1>. QED  BY InitResolved, NextKeeps, PTL DEF Spec

\* A transfer and a withdrawal move the asset that their address names, on a chain of
\* any base token (TxTransfer, TxWithdraw, get_transfer_transaction,
\* get_withdraw_transaction).
THEOREM AssetMovedIsNamed == Spec => []NamedAssetMoves
<1>1. ResolvedInv => NamedAssetMoves
  BY DEF ResolvedInv
<1>. QED  BY <1>1, ResolvedInvariant, PTL

\* zks_get_balance answers a balance that the account had of the asset named, while the
\* call ran, unless a failed RPC or the spelling of the base token made it a zero.
THEOREM BalanceIsNamed == Spec => []BalanceIsOfNamedAsset
<1>1. ResolvedInv => BalanceIsOfNamedAsset
  BY DEF ResolvedInv
<1>. QED  BY <1>1, ResolvedInvariant, PTL

\* l1_token_address and l2_token_address answer an address of the same asset, but where
\* ETH's stands for what has none.
THEOREM AddressesAreOfOneAsset == Spec => []AddressesAgree
<1>1. ResolvedInv => AddressesAgree
  BY DEF ResolvedInv
<1>. QED  BY <1>1, ResolvedInvariant, PTL

\* The L2 gas of a deposit is estimated for the L2 transaction that deposit asks for.
THEOREM EstimatedIsDeposited == Spec => []EstimateIsOfTheDeposit
<1>1. ResolvedInv => EstimateIsOfTheDeposit
  BY DEF ResolvedInv
<1>. QED  BY <1>1, ResolvedInvariant, PTL

=============================================================================
