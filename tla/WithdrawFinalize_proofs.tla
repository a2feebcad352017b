------------------------ MODULE WithdrawFinalize_proofs ------------------------
(***************************************************************************)
(* Proofs about WithdrawFinalize.                                          *)
(***************************************************************************)
EXTENDS WithdrawFinalize, FiniteSetTheorems, FunctionTheorems, TLAPS

\* What the proof of RevertOnlyWhenPaid needs of TypeOK.  The positions found in the
\* receipt's lists are left out: what is known of them is proved further on.
Shaped ==
    /\ phase \in 1..4
    /\ DOMAIN tx = Calls
    /\ DOMAIN call = Calls
    /\ \A c \in Calls : DOMAIN tx[c] = {"status", "nonce"}
    /\ \A c \in Calls :
          DOMAIN call[c] = {"pc", "end", "log", "proof", "nonce", "legacy", "bridge"}

PaidIndInv == Shaped /\ BuiltWasAccepted

LEMMA ExecutedIsLast ==
    ASSUME phase \in 1..4
    PROVE  InPhase("executed") <=> phase = 4
BY DEF InPhase, Phases

LEMMA PaidInit == Init => PaidIndInv
BY DEF Init, PaidIndInv, Shaped, BuiltWasAccepted, NewCall, Phases

\* Until its transaction is built a call has none: whatever it changes of itself,
\* the invariant says nothing of it.
LEMMA BeforeBuild ==
    ASSUME PaidIndInv, NEW c \in Calls, call[c].pc # "send", call'[c].pc # "send",
           \A d \in Calls \ {c} : call'[d] = call[d],
           UNCHANGED <<outputs, phase, tx, finalized>>
    PROVE  BuiltWasAccepted'
BY DEF PaidIndInv, BuiltWasAccepted, InPhase, PayerOf

\* A call that ends, or goes to "send", keeps what L1 looks at.
LEMMA LookupSteps ==
    ASSUME PaidIndInv, NEW c \in Calls,
           ReadReceipt(c) \/ ReadProof(c) \/ ReadNonce(c) \/ ChooseBridge(c)
           \/ Probe(c) \/ ReadL1Bridge(c) \/ Ask(c)
    PROVE  PaidIndInv'
<1>1. call[c].pc # "send"
  BY DEF ReadReceipt, ReadProof, ReadNonce, ChooseBridge, Probe, ReadL1Bridge, Ask, At
<1>2. UNCHANGED <<outputs, phase, tx, finalized>>
  BY DEF ReadReceipt, ReadProof, ReadNonce, ChooseBridge, Probe, ReadL1Bridge, Ask, chainvars
<1>3. Shaped' /\ call'[c].pc # "send" /\ \A d \in Calls \ {c} : call'[d] = call[d]
  <2> USE DEF PaidIndInv, Shaped, At, End, Goto
  <2>1. CASE ReadReceipt(c)
    BY <1>2, <2>1 DEF ReadReceipt
  <2>2. CASE ReadProof(c)
    BY <1>2, <2>2 DEF ReadProof
  <2>3. CASE ReadNonce(c)
    BY <1>2, <2>3 DEF ReadNonce
  <2>4. CASE ChooseBridge(c)
    BY <1>2, <2>4 DEF ChooseBridge
  <2>5. CASE Probe(c)
    BY <1>2, <2>5 DEF Probe
  <2>6. CASE ReadL1Bridge(c)
    BY <1>2, <2>6 DEF ReadL1Bridge
  <2>7. CASE Ask(c)
    BY <1>2, <2>7 DEF Ask
  <2> QED BY <2>1, <2>2, <2>3, <2>4, <2>5, <2>6, <2>7
<1> QED BY <1>1, <1>2, <1>3, BeforeBuild DEF PaidIndInv

\* The simulation of build_transaction establishes the invariant for its call.
LEMMA BuildStep ==
    ASSUME PaidIndInv, NEW c \in Calls, Build(c)
    PROVE  PaidIndInv'
<1> USE DEF PaidIndInv
<1>1. CASE ~Simulates(c)
  <2>1. Shaped' /\ call'[c].pc # "send" /\ \A d \in Calls \ {c} : call'[d] = call[d]
    BY <1>1 DEF Build, At, End, Shaped, chainvars
  <2>2. call[c].pc # "send" /\ UNCHANGED <<outputs, phase, tx, finalized>>
    BY <1>1 DEF Build, At, chainvars
  <2> QED BY <2>1, <2>2, BeforeBuild
<1>2. CASE Simulates(c)
  <2>1. Shaped'
    BY <1>2 DEF Build, Goto, Shaped, chainvars
  <2>2. /\ call' = [call EXCEPT ![c].pc = "send"]
        /\ tx' = [tx EXCEPT ![c] = [status |-> "built", nonce |-> call[c].nonce]]
        /\ UNCHANGED <<outputs, phase, finalized>>
    BY <1>2 DEF Build, Goto, chainvars
  <2>3. /\ InPhase("executed")
        /\ call[c].log = call[c].proof
        /\ call[c].bridge \in Bridges
        /\ call[c].bridge = PayerOf(call[c].log)
    BY <1>2 DEF Simulates, Accepts
  <2>4. BuiltWasAccepted'
    BY <2>2, <2>3 DEF BuiltWasAccepted, InPhase, PayerOf, Shaped
  <2> QED BY <2>1, <2>4
<1> QED BY <1>1, <1>2

\* Sending, and failing, change the status of transactions that are built, never to
\* "reverted", and nothing that L1 looks at.
LEMMA SendSteps ==
    ASSUME PaidIndInv, NEW c \in Calls,
           SendRejected(c) \/ SendAccepted(c) \/ RpcFails(c)
    PROVE  PaidIndInv'
<1> USE DEF PaidIndInv
<1>1. CASE SendRejected(c)
  <2>1. Shaped'
    BY <1>1 DEF SendRejected, End, Shaped, chainvars
  <2>2. /\ tx' = [tx EXCEPT ![c].status = "rejected"]
        /\ \E why \in Ends : call' = [call EXCEPT ![c].end = why]
        /\ UNCHANGED <<outputs, phase, finalized>>
    BY <1>1 DEF SendRejected, End, Ends, chainvars
  <2>3. tx[c].status # "none"
    BY <1>1 DEF SendRejected, At, BuiltWasAccepted
  <2>4. BuiltWasAccepted'
    BY <2>2, <2>3 DEF Shaped, BuiltWasAccepted, InPhase, PayerOf
  <2> QED BY <2>1, <2>4
<1>2. CASE SendAccepted(c)
  <2>1. Shaped'
    BY <1>2 DEF SendAccepted, End, Shaped, chainvars
  <2>2. /\ \E why \in Ends : call' = [call EXCEPT ![c].end = why]
        /\ UNCHANGED <<outputs, phase, finalized>>
    BY <1>2 DEF SendAccepted, End, Ends, chainvars
  <2>3. \A d \in Calls : /\ tx'[d].status # "none" <=> tx[d].status # "none"
                         /\ tx'[d].status = "reverted" => tx[d].status = "reverted"
    BY <1>2 DEF SendAccepted, At, Rivals, Shaped, BuiltWasAccepted
  <2>4. BuiltWasAccepted'
    BY <2>2, <2>3 DEF Shaped, BuiltWasAccepted, InPhase, PayerOf
  <2> QED BY <2>1, <2>4
<1>3. CASE RpcFails(c)
  <2>1. Shaped'
    BY <1>3 DEF RpcFails, End, Shaped, chainvars
  <2>2. BuiltWasAccepted'
    BY <1>3 DEF RpcFails, End, Shaped, BuiltWasAccepted, InPhase, PayerOf, chainvars
  <2> QED BY <2>1, <2>2
<1> QED BY <1>1, <1>2, <1>3

\* A batch that is executed stays so.
LEMMA AdvanceStep ==
    ASSUME PaidIndInv, AdvanceBatch
    PROVE  PaidIndInv'
<1>1. phase < 4 /\ phase' = phase + 1 /\ UNCHANGED <<outputs, call, tx, finalized>>
  BY DEF AdvanceBatch, Phases
<1>2. ~InPhase("executed")
  BY <1>1, ExecutedIsLast DEF PaidIndInv, Shaped
<1> QED BY <1>1, <1>2 DEF PaidIndInv, Shaped, BuiltWasAccepted

\* L1 reverts a transaction that its simulation accepted only when its withdrawal
\* is paid meanwhile; what is paid stays paid.
LEMMA MineStep ==
    ASSUME PaidIndInv, NEW c \in Calls, Mine(c)
    PROVE  PaidIndInv'
<1> USE DEF PaidIndInv
<1>1. Shaped'
  BY DEF Mine, Shaped
<1>2. /\ tx' = [tx EXCEPT ![c].status = IF Accepts(c) THEN "ok" ELSE "reverted"]
      /\ finalized \subseteq finalized'
      /\ UNCHANGED <<outputs, phase, call>>
  BY DEF Mine
<1>3. ~Accepts(c) => call[c].log \in finalized
  BY DEF Mine, Accepts, BuiltWasAccepted
<1>4. BuiltWasAccepted'
  BY <1>2, <1>3 DEF Mine, BuiltWasAccepted, InPhase, PayerOf, Shaped
<1> QED BY <1>1, <1>4

LEMMA PaidNext == PaidIndInv /\ [Next]_vars => PaidIndInv'
<1> SUFFICES ASSUME PaidIndInv, [Next]_vars
             PROVE  PaidIndInv'
  OBVIOUS
<1>1. CASE AdvanceBatch
  BY <1>1, AdvanceStep
<1>2. CASE \E c \in Calls : Step(c) \/ RpcFails(c) \/ Mine(c)
  <2> PICK c \in Calls : Step(c) \/ RpcFails(c) \/ Mine(c)
    BY <1>2
  <2>1. CASE Step(c)
    BY <2>1, LookupSteps, BuildStep, SendSteps DEF Step
  <2>2. CASE RpcFails(c)
    BY <2>2, SendSteps
  <2>3. CASE Mine(c)
    BY <2>3, MineStep
  <2> QED BY <2>1, <2>2, <2>3
<1>3. CASE UNCHANGED vars
  BY <1>3 DEF vars, chainvars, PaidIndInv, Shaped, BuiltWasAccepted, InPhase, PayerOf
<1> QED BY <1>1, <1>2, <1>3 DEF Next

\* finalize_withdrawal never has a transaction included that reverts for another
\* reason than that a second finalization of the withdrawal was paid first: its
\* simulation, the immutable receipt and proof and the chosen bridge exclude it.
THEOREM RevertOnlyWhenPaid == Spec => []RevertsOnlyWhenPaid
<1>1. PaidIndInv => RevertsOnlyWhenPaid
  BY DEF PaidIndInv, BuiltWasAccepted, RevertsOnlyWhenPaid
<1> QED BY PaidInit, PaidNext, <1>1, PTL DEF Spec

-----------------------------------------------------------------------------
(***************************************************************************)
(* What filtering a list finds.  Positions are counted rather than listed: *)
(* the element at index k of a set in order has k - 1 elements below it.   *)
(***************************************************************************)
Below(K, j) == {i \in K : i < j}

LEMMA BelowGrows ==
    ASSUME NEW K \in SUBSET Nat, IsFiniteSet(K)
    PROVE  /\ Cardinality(K) \in Nat
           /\ \A j \in K : Cardinality(Below(K, j)) \in Nat
                           /\ Cardinality(Below(K, j)) < Cardinality(K)
           /\ \A i, j \in K : i < j => Cardinality(Below(K, i)) < Cardinality(Below(K, j))
<1>1. \A j \in K : /\ IsFiniteSet(Below(K, j)) /\ Cardinality(Below(K, j)) \in Nat
                   /\ Cardinality(Below(K, j)) <= Cardinality(K)
                   /\ Cardinality(Below(K, j)) # Cardinality(K)
  <2> TAKE j \in K
  <2>1. Below(K, j) \in SUBSET K /\ j \notin Below(K, j)
    BY DEF Below
  <2>2. /\ IsFiniteSet(Below(K, j)) /\ Cardinality(Below(K, j)) <= Cardinality(K)
        /\ Cardinality(K) = Cardinality(Below(K, j)) => K = Below(K, j)
    BY <2>1, FS_Subset
  <2>3. Cardinality(Below(K, j)) \in Nat
    BY <2>2, FS_CardinalityType
  <2> QED BY <2>1, <2>2, <2>3
<1>2. Cardinality(K) \in Nat
  BY FS_CardinalityType
<1>3. ASSUME NEW i \in K, NEW j \in K, i < j
      PROVE  Cardinality(Below(K, i)) < Cardinality(Below(K, j))
  <2>1. Below(K, i) \in SUBSET Below(K, j)
    <3>1. \A h \in K : h < i => h < j
      BY <1>3
    <3> QED BY <3>1 DEF Below
  <2>2. i \in Below(K, j) /\ i \notin Below(K, i)
    BY <1>3 DEF Below
  <2>3. /\ Cardinality(Below(K, i)) <= Cardinality(Below(K, j))
        /\ Cardinality(Below(K, i)) # Cardinality(Below(K, j))
    BY <1>1, <2>1, <2>2, FS_Subset
  <2> QED BY <1>1, <2>3
<1> QED BY <1>1, <1>2, <1>3

\* Is s the list of K in ascending order?
Lists(s, K) ==
    /\ s \in [1..Cardinality(K) -> K]
    /\ \A k, m \in 1..Cardinality(K) : k < m => s[k] < s[m]

\* Every finite set of positions can be listed: each has its rank, and the ranks are
\* as many as the positions.
LEMMA ListExists ==
    ASSUME NEW K \in SUBSET Nat, IsFiniteSet(K)
    PROVE  \E s : Lists(s, K)
<1> DEFINE n == Cardinality(K)
           r == [j \in K |-> Cardinality(Below(K, j)) + 1]
<1>1. /\ n \in Nat
      /\ \A j \in K : r[j] \in 1..n
      /\ \A i, j \in K : i < j => r[i] < r[j]
  BY BelowGrows
<1>2. r \in [K -> 1..n]
  BY <1>1
<1> HIDE DEF n, r
<1>3. \A i, j \in K : r[i] = r[j] => i = j
  <2> SUFFICES ASSUME NEW i \in K, NEW j \in K, i # j PROVE r[i] # r[j]
    OBVIOUS
  <2>1. i < j \/ j < i
    OBVIOUS
  <2>2. r[i] < r[j] \/ r[j] < r[i]
    BY <1>1, <2>1
  <2>3. r[i] \in Nat /\ r[j] \in Nat
    BY <1>1
  <2> QED BY <2>2, <2>3
<1>4. r \in Injection(K, 1..n)
  BY <1>2, <1>3, Fun_IsInj
<1>5. IsFiniteSet(1..n) /\ Cardinality(1..n) = n
  BY <1>1, FS_Interval
<1>6. r \in Surjection(K, 1..n)
  BY <1>4, <1>5, FS_Injection DEF n
<1>7. \A k \in 1..n : \E j \in K : r[j] = k
  BY <1>6, Fun_SurjectionProperties
<1> DEFINE s == [k \in 1..n |-> CHOOSE j \in K : r[j] = k]
<1>8. \A k \in 1..n : s[k] \in K /\ r[s[k]] = k
  BY <1>7
<1>9. s \in [1..n -> K]
  BY <1>8
<1> HIDE DEF s
<1>10. ASSUME NEW k \in 1..n, NEW m \in 1..n, k < m
       PROVE  s[k] < s[m]
  <2>1. s[k] \in Nat /\ s[m] \in Nat /\ s[k] \in K /\ s[m] \in K
    BY <1>8
  <2>2. s[k] # s[m]
    BY <1>8, <1>10
  <2>3. ~(s[m] < s[k])
    <3> SUFFICES ASSUME s[m] < s[k] PROVE FALSE
      OBVIOUS
    <3>1. r[s[m]] < r[s[k]]
      BY <1>1, <2>1
    <3>2. m < k
      BY <1>8, <3>1
    <3> QED BY <1>1, <1>10, <3>2
  <2> QED BY <2>1, <2>2, <2>3
<1> QED BY <1>9, <1>10 DEF Lists, n

\* Where an element is listed tells how many are below it.
LEMMA ListCounts ==
    ASSUME NEW K \in SUBSET Nat, IsFiniteSet(K), NEW s, Lists(s, K),
           NEW k \in 1..Cardinality(K)
    PROVE  /\ Cardinality(Below(K, s[k])) = k - 1
           /\ \A j \in K : \E m \in 1..Cardinality(K) : s[m] = j
<1> DEFINE n == Cardinality(K)
<1>1. n \in Nat /\ IsFiniteSet(1..n) /\ Cardinality(1..n) = n
  BY FS_CardinalityType, FS_Interval
<1>2. s \in [1..n -> K] /\ \A i, m \in 1..n : i < m => s[i] < s[m]
  BY DEF Lists
<1> HIDE DEF n
<1>3. \A i, m \in 1..n : s[i] = s[m] => i = m
  <2> SUFFICES ASSUME NEW i \in 1..n, NEW m \in 1..n, i # m PROVE s[i] # s[m]
    OBVIOUS
  <2>1. i < m \/ m < i
    BY <1>1
  <2>2. s[i] < s[m] \/ s[m] < s[i]
    BY <1>2, <2>1
  <2>3. s[i] \in Nat /\ s[m] \in Nat
    BY <1>2
  <2> QED BY <2>2, <2>3
<1>4. s \in Injection(1..n, K)
  BY <1>2, <1>3, Fun_IsInj
<1>5. s \in Surjection(1..n, K)
  BY <1>1, <1>4, FS_Injection DEF n
<1>6. \A j \in K : \E m \in 1..n : s[m] = j
  BY <1>5 DEF Surjection
<1>7. k \in 1..n /\ k \in Nat /\ 1..(k - 1) \subseteq 1..n
  BY <1>1 DEF n
<1> DEFINE g == [m \in 1..(k - 1) |-> s[m]]
<1>8. g \in [1..(k - 1) -> Below(K, s[k])]
  <2>1. \A m \in 1..(k - 1) : m \in 1..n /\ m < k
    BY <1>1, <1>7
  <2>2. \A m \in 1..(k - 1) : s[m] \in Below(K, s[k])
    BY <1>2, <1>7, <2>1 DEF Below
  <2> QED BY <2>2
<1>9. \A i, m \in 1..(k - 1) : g[i] = g[m] => i = m
  BY <1>3, <1>7
<1>10. \A j \in Below(K, s[k]) : \E m \in 1..(k - 1) : g[m] = j
  <2> TAKE j \in Below(K, s[k])
  <2>1. PICK m \in 1..n : s[m] = j
    BY <1>6 DEF Below
  <2>2. s[m] < s[k] /\ s[m] \in Nat /\ s[k] \in Nat
    BY <1>2, <1>7, <2>1 DEF Below
  <2>3. m # k /\ ~(k < m)
    BY <1>2, <1>7, <2>2
  <2>4. m \in 1..(k - 1)
    BY <1>7, <2>3
  <2> QED BY <2>1, <2>4
<1> HIDE DEF g
<1>11. g \in Injection(1..(k - 1), Below(K, s[k]))
  BY <1>8, <1>9, Fun_IsInj
<1>12. g \in Surjection(1..(k - 1), Below(K, s[k]))
  BY <1>8, <1>10, Fun_IsSurj
<1>13. IsFiniteSet(Below(K, s[k]))
  <2>1. Below(K, s[k]) \in SUBSET K
    BY DEF Below
  <2> QED BY <2>1, FS_Subset
<1>14. IsFiniteSet(1..(k - 1)) /\ Cardinality(1..(k - 1)) = k - 1
  BY <1>7, FS_Interval
<1>15. Cardinality(Below(K, s[k])) = k - 1
  BY <1>11, <1>12, <1>13, <1>14, FS_Injection
<1> QED BY <1>6, <1>15 DEF n

LEMMA InOrderLists ==
    ASSUME NEW K \in SUBSET Nat, IsFiniteSet(K)
    PROVE  Lists(InOrder(K), K) /\ Len(InOrder(K)) = Cardinality(K)
<1>1. Cardinality(K) \in Nat
  BY FS_CardinalityType
<1>2. PICK s : Lists(s, K)
  BY ListExists
<1>3. s \in [1..Cardinality(K) -> K] /\ \A i, j \in DOMAIN s : i < j => s[i] < s[j]
  BY <1>2 DEF Lists
<1>4. /\ InOrder(K) \in [1..Cardinality(K) -> K]
      /\ \A i, j \in DOMAIN InOrder(K) : i < j => InOrder(K)[i] < InOrder(K)[j]
  BY <1>3 DEF InOrder
<1>5. Lists(InOrder(K), K)
  BY <1>4 DEF Lists
<1> QED BY <1>1, <1>4, <1>5

-----------------------------------------------------------------------------
\* The messages of the transaction, by position.
MessagesAt == {j \in 1..Len(outputs) : IsMessage(j)}

LEMMA MessageTypes ==
    ASSUME outputs \in OutputSeqs
    PROVE  /\ Len(outputs) \in Nat
           /\ \A j \in 1..Len(outputs) : j \in Nat /\ outputs[j] \in OutputKinds
           /\ \A K \in SUBSET (1..Len(outputs)) : K \in SUBSET Nat /\ IsFiniteSet(K)
           /\ MessagesAt \in SUBSET (1..Len(outputs))
<1>1. outputs \in Seq(OutputKinds)
  BY FinalizeAssumption
<1>2. Len(outputs) \in Nat /\ \A j \in 1..Len(outputs) : j \in Nat /\ outputs[j] \in OutputKinds
  BY <1>1
<1>3. IsFiniteSet(1..Len(outputs))
  BY <1>2, FS_Interval
<1>4. \A K \in SUBSET (1..Len(outputs)) : K \in SUBSET Nat /\ IsFiniteSet(K)
  BY <1>2, <1>3, FS_Subset
<1> QED BY <1>2, <1>4 DEF MessagesAt

LEMMA CountedByPosition ==
    ASSUME outputs \in OutputSeqs, NEW c \in Calls, NEW j \in 1..Len(outputs)
    PROVE  Counted(c, j) <=>
              j \in MessagesAt /\ Cardinality(Below(MessagesAt, j)) = IndexOf[c]
<1>1. {i \in 1..(j - 1) : IsMessage(i)} = Below(MessagesAt, j)
  BY MessageTypes DEF Below, MessagesAt
<1> QED BY <1>1 DEF Counted, MessagesAt

\* A call counts its way to one message.
LEMMA OneCounted ==
    ASSUME outputs \in OutputSeqs, NEW c \in Calls,
           NEW j \in 1..Len(outputs), NEW h \in 1..Len(outputs),
           Counted(c, j), Counted(c, h)
    PROVE  j = h
<1>1. /\ j \in MessagesAt /\ h \in MessagesAt
      /\ Cardinality(Below(MessagesAt, j)) = Cardinality(Below(MessagesAt, h))
  BY CountedByPosition
<1>2. j \in Nat /\ h \in Nat /\ MessagesAt \in SUBSET Nat /\ IsFiniteSet(MessagesAt)
  BY MessageTypes
<1>3. ~(j < h) /\ ~(h < j)
  BY <1>1, <1>2, BelowGrows
<1> QED BY <1>2, <1>3

\* The log that _get_withdraw_log takes from the receipt is of the message with "index"
\* messages before it.
LEMMA LogFound ==
    ASSUME outputs \in OutputSeqs, NEW c \in Calls, IndexOf[c] < Len(WithdrawLogs)
    PROVE  /\ WithdrawLogs[IndexOf[c] + 1] \in 1..Len(outputs)
           /\ Counted(c, WithdrawLogs[IndexOf[c] + 1])
<1>1. WithdrawLogs = InOrder(MessagesAt)
  <2>1. {j \in 1..Len(outputs) : outputs[j] # "log" /\ IsMessage(j)} = MessagesAt
    BY DEF MessagesAt, IsMessage, Messages, Withdrawals
  <2> QED BY <2>1 DEF WithdrawLogs
<1>2. MessagesAt \in SUBSET Nat /\ IsFiniteSet(MessagesAt)
  BY MessageTypes
<1>3. /\ Lists(WithdrawLogs, MessagesAt) /\ Len(WithdrawLogs) = Cardinality(MessagesAt)
      /\ Cardinality(MessagesAt) \in Nat
  BY <1>1, <1>2, InOrderLists, FS_CardinalityType
<1>4. IndexOf[c] \in Nat
  BY FinalizeAssumption
<1> DEFINE k == IndexOf[c] + 1
<1>5. k \in 1..Cardinality(MessagesAt)
  BY <1>3, <1>4
<1>6. WithdrawLogs[k] \in MessagesAt
  BY <1>3, <1>5 DEF Lists
<1>7. Cardinality(Below(MessagesAt, WithdrawLogs[k])) = k - 1
  BY <1>2, <1>3, <1>5, ListCounts
<1>8. Cardinality(Below(MessagesAt, WithdrawLogs[k])) = IndexOf[c]
  BY <1>4, <1>7
<1> QED BY <1>6, <1>8, MessageTypes, CountedByPosition

\* So is the log whose proof is asked for: the L1Messenger's l2ToL1Logs are the same
\* messages in the same order, whatever the other contracts log in between.
LEMMA ProofFound ==
    ASSUME outputs \in OutputSeqs, NEW c \in Calls, IndexOf[c] < Len(WithdrawLogs)
    PROVE  /\ L2ToL1Logs[WithdrawL2ToL1Logs[IndexOf[c] + 1]] \in 1..Len(outputs)
           /\ Counted(c, L2ToL1Logs[WithdrawL2ToL1Logs[IndexOf[c] + 1]])
<1> DEFINE M == MessagesAt
           E == {j \in 1..Len(outputs) : outputs[j] # "event"}
           L == L2ToL1Logs
           W == {k \in 1..Len(L) : IsMessage(L[k])}
           w == WithdrawL2ToL1Logs
<1>1. /\ M \in SUBSET Nat /\ IsFiniteSet(M) /\ E \in SUBSET Nat /\ IsFiniteSet(E)
      /\ M \in SUBSET E
  BY MessageTypes DEF MessagesAt, IsMessage, Messages, Withdrawals
<1>2. L = InOrder(E) /\ w = InOrder(W)
  BY DEF L2ToL1Logs, WithdrawL2ToL1Logs
<1>3. Lists(L, E) /\ Len(L) = Cardinality(E) /\ Cardinality(E) \in Nat
  BY <1>1, <1>2, InOrderLists, FS_CardinalityType
<1>4. W \in SUBSET Nat /\ IsFiniteSet(W) /\ \A k \in W : k \in 1..Cardinality(E)
  <2>1. IsFiniteSet(1..Len(L))
    BY <1>3, FS_Interval
  <2>2. W \in SUBSET (1..Len(L))
    OBVIOUS
  <2> HIDE DEF W
  <2>3. IsFiniteSet(W)
    BY <2>1, <2>2, FS_Subset
  <2>4. \A k \in 1..Len(L) : k \in Nat /\ k \in 1..Cardinality(E)
    BY <1>3
  <2> QED BY <2>2, <2>3, <2>4
<1>5. Lists(w, W) /\ Len(w) = Cardinality(W) /\ Cardinality(W) \in Nat
  BY <1>2, <1>4, InOrderLists, FS_CardinalityType
<1>6. \A k \in W : L[k] \in M
  <2> TAKE k \in W
  <2>1. L[k] \in E
    BY <1>3, <1>4 DEF Lists
  <2>2. IsMessage(L[k])
    OBVIOUS
  <2> QED BY <2>1, <2>2 DEF MessagesAt
<1>7. \A j \in M : \E k \in W : L[k] = j
  <2> TAKE j \in M
  <2>1. j \in E /\ IsMessage(j)
    BY <1>1 DEF MessagesAt
  <2>2. 1 \in 1..Cardinality(E)
    <3>1. Cardinality(E) # 0
      BY <1>1, <2>1, FS_EmptySet
    <3> QED BY <1>3, <3>1
  <2>3. PICK k \in 1..Cardinality(E) : L[k] = j
    <3> HIDE DEF E, L
    <3>1. \A h \in E : \E m \in 1..Cardinality(E) : L[m] = h
      BY <1>1, <1>3, <2>2, ListCounts
    <3> QED BY <2>1, <3>1
  <2> QED BY <1>3, <2>1, <2>3
<1>8. \A k, m \in W : k < m => L[k] < L[m]
  BY <1>3, <1>4 DEF Lists
<1> HIDE DEF M, E, L, W, w
<1>9. Cardinality(W) = Cardinality(M)
  <2> DEFINE b == [k \in W |-> L[k]]
  <2>1. b \in [W -> M]
    BY <1>6
  <2>2. \A k, m \in W : b[k] = b[m] => k = m
    <3> SUFFICES ASSUME NEW k \in W, NEW m \in W, k # m PROVE L[k] # L[m]
      OBVIOUS
    <3>1. k < m \/ m < k
      BY <1>4
    <3>2. L[k] < L[m] \/ L[m] < L[k]
      BY <1>8, <3>1
    <3>3. L[k] \in Nat /\ L[m] \in Nat
      BY <1>1, <1>6
    <3> QED BY <3>2, <3>3
  <2>3. \A j \in M : \E k \in W : b[k] = j
    BY <1>7
  <2> HIDE DEF b
  <2>4. b \in Injection(W, M) /\ b \in Surjection(W, M)
    BY <2>1, <2>2, <2>3, Fun_IsInj, Fun_IsSurj
  <2> QED BY <1>1, <2>4, FS_Injection
<1> DEFINE s == [k \in 1..Cardinality(M) |-> L[w[k]]]
<1>10. Lists(s, M)
  <2>1. w \in [1..Cardinality(M) -> W] /\ \A k, m \in 1..Cardinality(M) : k < m => w[k] < w[m]
    BY <1>5, <1>9 DEF Lists
  <2>2. \A k \in 1..Cardinality(M) : s[k] = L[w[k]] /\ s[k] \in M
    BY <1>6, <2>1
  <2>3. s \in [1..Cardinality(M) -> M]
    BY <2>2
  <2>4. \A k, m \in 1..Cardinality(M) : k < m => s[k] < s[m]
    BY <1>8, <2>1, <2>2
  <2> HIDE DEF s
  <2> QED BY <2>3, <2>4 DEF Lists
<1>11. IndexOf[c] \in Nat /\ IndexOf[c] < Cardinality(M) /\ Cardinality(M) \in Nat
  <2>1. WithdrawLogs = InOrder(M)
    <3>1. {j \in 1..Len(outputs) : outputs[j] # "log" /\ IsMessage(j)} = M
      BY DEF M, MessagesAt, IsMessage, Messages, Withdrawals
    <3> QED BY <3>1 DEF WithdrawLogs
  <2> QED BY <1>1, <2>1, InOrderLists, FS_CardinalityType, FinalizeAssumption
<1>12. IndexOf[c] + 1 \in 1..Cardinality(M)
  BY <1>11
<1> DEFINE j == L[w[IndexOf[c] + 1]]
<1>13. s[IndexOf[c] + 1] = j
  BY <1>12
<1> HIDE DEF s, j
<1>14. j \in M /\ Cardinality(Below(M, j)) = IndexOf[c]
  <2>1. s[IndexOf[c] + 1] \in M
    BY <1>10, <1>12 DEF Lists
  <2>2. Cardinality(Below(M, s[IndexOf[c] + 1])) = (IndexOf[c] + 1) - 1
    BY <1>1, <1>10, <1>12, ListCounts
  <2> QED BY <1>11, <1>13, <2>1, <2>2
<1>15. j \in 1..Len(outputs) /\ Counted(c, j)
  BY <1>14, MessageTypes, CountedByPosition DEF M
<1> QED BY <1>15 DEF j, L, w

-----------------------------------------------------------------------------
\* What the invariant says of call c alone.
KnowsOf(c) ==
    /\ call[c].pc # "receipt" =>
          /\ IndexOf[c] < Len(WithdrawLogs)
          /\ call[c].log \in 1..Len(outputs)
          /\ Counted(c, call[c].log)
    /\ IF call[c].pc \in {"receipt", "proof"} THEN call[c].proof = 0
       ELSE call[c].proof \in 1..Len(outputs) /\ Counted(c, call[c].proof)
    /\ OpOf[c] = "check" => ~call[c].legacy /\ call[c].pc # "probe"
    /\ call[c].pc = "ask" =>
          /\ OpOf[c] = "check"
          /\ outputs[call[c].log] \in Withdrawals => call[c].bridge = PayerOf(call[c].log)
    /\ before[c] \subseteq finalized

AnswerOf(c) ==
    \A j \in 1..Len(outputs) :
        Counted(c, j) /\ outputs[j] \in Withdrawals =>
            /\ call[c].end = "true" => j \in finalized
            /\ call[c].end = "false" => j \notin before[c]

\* A step of call c before its transaction is built.
Own(c) ==
    /\ outputs' = outputs /\ phase' = phase /\ count' = count /\ finalized' = finalized
    /\ tx' = tx
    /\ call' \in [Calls -> CallStates]
    /\ before' \in [Calls -> SUBSET Nat]
    /\ \A d \in Calls \ {c} : call'[d] = call[d] /\ before'[d] = before[d]
    /\ KnowsOf(c)' /\ AnswerOf(c)'

LEMMA OwnStep ==
    ASSUME FinalizeInv, NEW c \in Calls, Own(c), PaidIndInv'
    PROVE  FinalizeInv'
<1>1. TypeOK'
  BY DEF Own, FinalizeInv, PaidInv, TypeOK
<1>2. \A d \in Calls \ {c} : KnowsOf(d)' /\ AnswerOf(d)'
  <2> TAKE d \in Calls \ {c}
  <2>1. KnowsOf(d) /\ AnswerOf(d)
    BY DEF FinalizeInv, LookedUp, AnswersCounted, KnowsOf, AnswerOf
  <2>2. /\ outputs' = outputs /\ finalized' = finalized
        /\ call'[d] = call[d] /\ before'[d] = before[d]
    BY DEF Own
  <2>3. WithdrawLogs' = WithdrawLogs /\ \A j : Counted(d, j)' <=> Counted(d, j)
    BY <2>2 DEF WithdrawLogs, Counted, IsMessage
  <2> QED BY <2>1, <2>2, <2>3 DEF KnowsOf, AnswerOf, PayerOf
<1>3. \A d \in Calls : KnowsOf(d)' /\ AnswerOf(d)'
  BY <1>2 DEF Own
<1>4. LookedUp' /\ AnswersCounted'
  BY <1>3 DEF LookedUp, AnswersCounted, KnowsOf, AnswerOf
<1> QED BY <1>1, <1>4 DEF FinalizeInv, PaidInv, PaidIndInv

\* Outputs that are kept hold the same messages.
LEMMA OutputsKept ==
    ASSUME outputs' = outputs, NEW c \in Calls
    PROVE  /\ WithdrawLogs' = WithdrawLogs
           /\ \A j : Counted(c, j)' <=> Counted(c, j)
           /\ \A j : PayerOf(j)' = PayerOf(j)
BY DEF WithdrawLogs, Counted, IsMessage, PayerOf

LEMMA CallKnows ==
    ASSUME FinalizeInv, NEW c \in Calls
    PROVE  /\ KnowsOf(c) /\ AnswerOf(c)
           /\ call[c] \in CallStates /\ outputs \in OutputSeqs
           /\ call \in [Calls -> CallStates]
           /\ \A j \in 1..Len(outputs) : j \in Nat
<1>1. \A j \in 1..Len(outputs) : j \in Nat
  BY MessageTypes DEF FinalizeInv, PaidInv, TypeOK
<1> QED BY <1>1 DEF FinalizeInv, LookedUp, AnswersCounted, KnowsOf, AnswerOf, PaidInv, TypeOK

LEMMA ReadReceiptStep ==
    ASSUME FinalizeInv, NEW c \in Calls, ReadReceipt(c)
    PROVE  Own(c)
<1> DEFINE found == WithdrawLogs[IndexOf[c] + 1]
<1>1. /\ outputs' = outputs /\ phase' = phase /\ count' = count /\ finalized' = finalized
      /\ tx' = tx /\ call[c].end = "running" /\ call[c].pc = "receipt"
      /\ before' = [before EXCEPT ![c] = finalized]
  BY DEF ReadReceipt, At, chainvars
<1>2. /\ KnowsOf(c) /\ call[c] \in CallStates /\ call \in [Calls -> CallStates]
      /\ outputs \in OutputSeqs /\ finalized \in SUBSET Nat /\ before \in [Calls -> SUBSET Nat]
  BY CallKnows DEF FinalizeInv, PaidInv, TypeOK
<1>3. /\ before' \in [Calls -> SUBSET Nat] /\ before'[c] = finalized
      /\ \A d \in Calls \ {c} : before'[d] = before[d]
  BY <1>1, <1>2
<1>4. CASE \E why \in {"notFound", "noLog", "noBatch"} : call' = [call EXCEPT ![c].end = why]
  <2>1. PICK why \in {"notFound", "noLog", "noBatch"} : call' = [call EXCEPT ![c].end = why]
    BY <1>4
  <2>2. /\ call' \in [Calls -> CallStates] /\ \A d \in Calls \ {c} : call'[d] = call[d]
        /\ call'[c] = [call[c] EXCEPT !.end = why]
    BY <1>2, <2>1 DEF CallStates, Ends
  <2>3. /\ call'[c].pc = "receipt" /\ call'[c].proof = call[c].proof /\ call'[c].end = why
        /\ call'[c].legacy = call[c].legacy
    BY <1>1, <1>2, <2>2 DEF CallStates
  <2>4. KnowsOf(c)' /\ AnswerOf(c)'
    BY <1>1, <1>2, <1>3, <2>3 DEF KnowsOf, AnswerOf
  <2> QED BY <1>1, <1>3, <2>2, <2>4 DEF Own
<1>5. CASE /\ IndexOf[c] < Len(WithdrawLogs)
           /\ call' = [call EXCEPT ![c].pc = "proof", ![c].log = found]
  <2>1. found \in 1..Len(outputs) /\ found \in Nat /\ Counted(c, found)
    BY <1>2, <1>5, LogFound, MessageTypes
  <2>2. /\ call' \in [Calls -> CallStates] /\ \A d \in Calls \ {c} : call'[d] = call[d]
        /\ call'[c] = [call[c] EXCEPT !.pc = "proof", !.log = found]
    <3> HIDE DEF found
    <3> QED BY <1>2, <1>5, <2>1 DEF CallStates, Places
  <2>3. /\ call'[c].pc = "proof" /\ call'[c].proof = call[c].proof /\ call'[c].end = "running"
        /\ call'[c].legacy = call[c].legacy /\ call'[c].log = found
    BY <1>1, <1>2, <2>2 DEF CallStates
  <2>4. KnowsOf(c)'
    BY <1>1, <1>2, <1>3, <1>5, <2>1, <2>3, OutputsKept DEF KnowsOf
  <2>5. AnswerOf(c)'
    BY <2>3 DEF AnswerOf
  <2> QED BY <1>1, <1>3, <2>2, <2>4, <2>5 DEF Own
<1>6. IndexOf[c] \in Nat /\ Len(WithdrawLogs) \in Nat
  <2>1. {j \in 1..Len(outputs) : outputs[j] # "log" /\ IsMessage(j)} = MessagesAt
    BY DEF MessagesAt, IsMessage, Messages, Withdrawals
  <2> QED BY <1>2, <2>1, MessageTypes, InOrderLists, FS_CardinalityType, FinalizeAssumption
          DEF WithdrawLogs
<1> QED BY <1>4, <1>5, <1>6 DEF ReadReceipt, End

LEMMA ReadProofStep ==
    ASSUME FinalizeInv, NEW c \in Calls, ReadProof(c)
    PROVE  Own(c)
<1>0. PICK found : found = L2ToL1Logs[WithdrawL2ToL1Logs[IndexOf[c] + 1]]
  OBVIOUS
<1>1. /\ outputs' = outputs /\ phase' = phase /\ count' = count /\ finalized' = finalized
      /\ tx' = tx /\ before' = before /\ call[c].end = "running" /\ call[c].pc = "proof"
  BY DEF ReadProof, At, chainvars
<1>2. /\ KnowsOf(c) /\ call[c] \in CallStates /\ call \in [Calls -> CallStates]
      /\ outputs \in OutputSeqs /\ before \in [Calls -> SUBSET Nat]
  BY CallKnows DEF FinalizeInv, PaidInv, TypeOK
<1>3. CASE call' = [call EXCEPT ![c].end = "noProof"]
  <2>1. /\ call' \in [Calls -> CallStates] /\ \A d \in Calls \ {c} : call'[d] = call[d]
        /\ call'[c] = [call[c] EXCEPT !.end = "noProof"]
    BY <1>2, <1>3 DEF CallStates, Ends
  <2>2. /\ call'[c].pc = "proof" /\ call'[c].proof = call[c].proof /\ call'[c].end = "noProof"
        /\ call'[c].legacy = call[c].legacy /\ call'[c].log = call[c].log
    BY <1>1, <1>2, <2>1 DEF CallStates
  <2>3. KnowsOf(c)'
    BY <1>1, <1>2, <2>2, OutputsKept DEF KnowsOf
  <2>4. AnswerOf(c)'
    BY <2>2 DEF AnswerOf
  <2> QED BY <1>1, <1>2, <2>1, <2>3, <2>4 DEF Own
<1>4. CASE \E place \in {"nonce", "bridge"} :
              call' = [call EXCEPT ![c].pc = place, ![c].proof = found]
  <2>0. PICK place \in {"nonce", "bridge"} :
              call' = [call EXCEPT ![c].pc = place, ![c].proof = found]
    BY <1>4
  <2>1. found \in 1..Len(outputs) /\ found \in Nat /\ Counted(c, found)
    BY <1>0, <1>1, <1>2, ProofFound, MessageTypes DEF KnowsOf
  <2>2. /\ call' \in [Calls -> CallStates] /\ \A d \in Calls \ {c} : call'[d] = call[d]
        /\ call'[c] = [call[c] EXCEPT !.pc = place, !.proof = found]
    BY <1>2, <2>0, <2>1 DEF CallStates, Places
  <2>3. /\ call'[c].pc = place /\ call'[c].proof = found /\ call'[c].end = "running"
        /\ call'[c].legacy = call[c].legacy /\ call'[c].log = call[c].log
    BY <1>1, <1>2, <2>2 DEF CallStates
  <2>4. KnowsOf(c)'
    BY <1>1, <1>2, <2>1, <2>3, OutputsKept DEF KnowsOf
  <2>5. AnswerOf(c)'
    BY <2>3 DEF AnswerOf
  <2> QED BY <1>1, <1>2, <2>2, <2>4, <2>5 DEF Own
<1> QED BY <1>0, <1>3, <1>4 DEF ReadProof, End, ProofIndex

\* The steps between the proof and the simulation: the log and the proof are kept, and a
\* check comes to the bridge that pays what it found.
LEMMA BridgeSteps ==
    ASSUME FinalizeInv, NEW c \in Calls,
           ReadNonce(c) \/ ChooseBridge(c) \/ Probe(c) \/ ReadL1Bridge(c)
    PROVE  Own(c)
<1>1. /\ outputs' = outputs /\ phase' = phase /\ count' = count /\ finalized' = finalized
      /\ tx' = tx /\ before' = before /\ call[c].end = "running"
      /\ call[c].pc \in {"nonce", "bridge", "probe", "l1bridge"}
  BY DEF ReadNonce, ChooseBridge, Probe, ReadL1Bridge, At, chainvars
<1>2. /\ KnowsOf(c) /\ call[c] \in CallStates /\ call \in [Calls -> CallStates]
      /\ outputs \in OutputSeqs /\ before \in [Calls -> SUBSET Nat] /\ count \in Nat
      /\ OpOf[c] \in Methods
  BY CallKnows, FinalizeAssumption DEF FinalizeInv, PaidInv, TypeOK
<1>3. /\ call' \in [Calls -> CallStates] /\ \A d \in Calls \ {c} : call'[d] = call[d]
      /\ call'[c].log = call[c].log /\ call'[c].proof = call[c].proof
      /\ call'[c].end \in {"running", "noBridge"}
      /\ call'[c].pc \in Places \ {"receipt", "proof"}
  <2>1. CASE ReadNonce(c)
    BY <1>1, <1>2, <2>1 DEF ReadNonce, CallStates, Places
  <2>2. CASE ChooseBridge(c)
    BY <1>1, <1>2, <2>2 DEF ChooseBridge, Goto, CallStates, Places, Bridges
  <2>3. CASE Probe(c)
    <3>1. PICK answer \in BOOLEAN :
            call' = [call EXCEPT ![c].pc = "l1bridge", ![c].legacy = answer]
      BY <2>3 DEF Probe, LegacyAnswers
    <3> QED BY <1>1, <1>2, <3>1 DEF CallStates, Places
  <2>4. CASE ReadL1Bridge(c)
    BY <1>1, <1>2, <2>4 DEF ReadL1Bridge, End, CallStates, Places, Ends, Bridges
  <2> QED BY <2>1, <2>2, <2>3, <2>4
<1>4. /\ OpOf[c] = "check" => ~call'[c].legacy /\ call'[c].pc # "probe"
      /\ call'[c].pc = "ask" =>
            /\ OpOf[c] = "check"
            /\ outputs[call[c].log] \in Withdrawals => call'[c].bridge = PayerOf(call[c].log)
  <2>0. OpOf[c] = "check" => ~call[c].legacy /\ call[c].pc # "probe"
    BY <1>2 DEF KnowsOf
  <2>1. CASE ReadNonce(c)
    BY <1>1, <1>2, <2>0, <2>1 DEF ReadNonce, CallStates
  <2>2. CASE ChooseBridge(c)
    BY <1>1, <1>2, <2>0, <2>2 DEF ChooseBridge, Goto, CallStates, PayerOf, Methods, Withdrawals
  <2>3. CASE Probe(c)
    <3>1. OpOf[c] # "check"
      BY <2>0, <2>3 DEF Probe, At
    <3>2. PICK answer \in BOOLEAN :
            call' = [call EXCEPT ![c].pc = "l1bridge", ![c].legacy = answer]
      BY <2>3 DEF Probe, LegacyAnswers
    <3> QED BY <1>2, <3>1, <3>2 DEF CallStates
  <2>4. CASE ReadL1Bridge(c)
    BY <1>1, <1>2, <2>0, <2>4 DEF ReadL1Bridge, End, CallStates, PayerOf, Methods, Withdrawals
  <2> QED BY <2>1, <2>2, <2>3, <2>4
<1>5. KnowsOf(c)'
  <2>1. /\ IndexOf[c] < Len(WithdrawLogs)
        /\ call[c].log \in 1..Len(outputs) /\ Counted(c, call[c].log)
        /\ call[c].proof \in 1..Len(outputs) /\ Counted(c, call[c].proof)
        /\ before[c] \subseteq finalized
    BY <1>1, <1>2 DEF KnowsOf
  <2>2. /\ WithdrawLogs' = WithdrawLogs
        /\ \A j : Counted(c, j)' <=> Counted(c, j)
        /\ \A j : PayerOf(j)' = PayerOf(j)
    BY <1>1, OutputsKept
  <2> QED BY <1>1, <1>3, <1>4, <2>1, <2>2 DEF KnowsOf
<1>6. AnswerOf(c)'
  BY <1>3 DEF AnswerOf
<1> QED BY <1>1, <1>2, <1>3, <1>5, <1>6 DEF Own

\* The bridge answers for the message that was counted, and what it has not paid
\* was not paid when the call began.
LEMMA AskStep ==
    ASSUME FinalizeInv, NEW c \in Calls, Ask(c)
    PROVE  Own(c)
<1>1. /\ outputs' = outputs /\ phase' = phase /\ count' = count /\ finalized' = finalized
      /\ tx' = tx /\ before' = before /\ call[c].pc = "ask"
  BY DEF Ask, At, chainvars
<1>2. /\ KnowsOf(c) /\ call[c] \in CallStates /\ call \in [Calls -> CallStates]
      /\ outputs \in OutputSeqs /\ before \in [Calls -> SUBSET Nat]
  BY CallKnows DEF FinalizeInv, PaidInv, TypeOK
<1>3. PICK why \in {"true", "false"} :
        /\ call' = [call EXCEPT ![c].end = why]
        /\ why = "true" <=> call[c].bridge = PayerOf(call[c].proof) /\ call[c].proof \in finalized
  BY DEF Ask, End
<1>4. /\ call' \in [Calls -> CallStates] /\ \A d \in Calls \ {c} : call'[d] = call[d]
      /\ call'[c] = [call[c] EXCEPT !.end = why]
  BY <1>2, <1>3 DEF CallStates, Ends
<1>5. /\ call'[c].pc = "ask" /\ call'[c].proof = call[c].proof /\ call'[c].end = why
      /\ call'[c].legacy = call[c].legacy /\ call'[c].log = call[c].log
      /\ call'[c].bridge = call[c].bridge
  BY <1>1, <1>2, <1>4 DEF CallStates
<1>6. KnowsOf(c)'
  BY <1>1, <1>2, <1>5, OutputsKept DEF KnowsOf
<1>7. AnswerOf(c)'
  <2>1. /\ call[c].log \in 1..Len(outputs) /\ Counted(c, call[c].log)
        /\ call[c].proof \in 1..Len(outputs) /\ Counted(c, call[c].proof)
        /\ outputs[call[c].log] \in Withdrawals => call[c].bridge = PayerOf(call[c].log)
        /\ before[c] \subseteq finalized
    BY <1>1, <1>2 DEF KnowsOf
  <2>2. call[c].proof = call[c].log
    BY <1>2, <2>1, OneCounted
  <2>3. outputs[call[c].proof] \in Withdrawals => (why = "true" <=> call[c].proof \in finalized)
    BY <1>3, <2>1, <2>2
  <2>4. \A j \in 1..Len(outputs) : Counted(c, j) => j = call[c].proof
    BY <1>2, <2>1, OneCounted
  <2> QED BY <1>1, <1>5, <2>1, <2>3, <2>4, OutputsKept DEF AnswerOf
<1> QED BY <1>1, <1>2, <1>4, <1>6, <1>7 DEF Own

\* Building, sending, failing and mining change nothing of what a call has looked up.
Late(d) ==
    /\ call'[d].log = call[d].log /\ call'[d].proof = call[d].proof
    /\ call'[d].legacy = call[d].legacy /\ call'[d].bridge = call[d].bridge
    /\ call'[d].pc = call[d].pc \/ (call[d].pc = "build" /\ call'[d].pc = "send")
    /\ call'[d].end = call[d].end \/ call'[d].end \notin {"true", "false"}

LEMMA LateStep ==
    ASSUME FinalizeInv, PaidIndInv', TypeOK',
           outputs' = outputs, before' = before, finalized \subseteq finalized',
           \A d \in Calls : Late(d)
    PROVE  FinalizeInv'
<1>1. \A d \in Calls : KnowsOf(d)' /\ AnswerOf(d)'
  <2> TAKE d \in Calls
  <2>1. KnowsOf(d) /\ AnswerOf(d)
    BY CallKnows
  <2>2. /\ WithdrawLogs' = WithdrawLogs
        /\ \A j : Counted(d, j)' <=> Counted(d, j)
        /\ \A j : PayerOf(j)' = PayerOf(j)
    BY OutputsKept
  <2>3. KnowsOf(d)'
    BY <2>1, <2>2 DEF KnowsOf, Late
  <2>4. AnswerOf(d)'
    BY <2>1, <2>2 DEF AnswerOf, Late
  <2> QED BY <2>3, <2>4
<1>2. LookedUp' /\ AnswersCounted'
  BY <1>1 DEF LookedUp, AnswersCounted, KnowsOf, AnswerOf
<1> QED BY <1>2 DEF FinalizeInv, PaidInv, PaidIndInv

LEMMA SubmitStep ==
    ASSUME FinalizeInv, PaidIndInv', NEW c \in Calls,
           Build(c) \/ SendRejected(c) \/ SendAccepted(c) \/ RpcFails(c)
    PROVE  FinalizeInv'
<1>1. /\ outputs' = outputs /\ before' = before /\ finalized' = finalized
      /\ phase' = phase /\ count' = count
  BY DEF Build, SendRejected, SendAccepted, RpcFails, chainvars
<1>2. /\ call[c] \in CallStates /\ call \in [Calls -> CallStates]
      /\ tx \in [Calls -> L1Txs] /\ tx[c] \in L1Txs
  BY DEF FinalizeInv, PaidInv, TypeOK
<1>3. \/ call' = [call EXCEPT ![c].pc = "send"] /\ call[c].pc = "build"
      \/ \E why \in Ends \ {"true", "false"} : call' = [call EXCEPT ![c].end = why]
  BY DEF Build, SendRejected, SendAccepted, RpcFails, At, Goto, End, Ends
<1>4. call' \in [Calls -> CallStates] /\ \A d \in Calls : Late(d)
  <2>1. CASE call' = [call EXCEPT ![c].pc = "send"] /\ call[c].pc = "build"
    <3>1. call' \in [Calls -> CallStates]
      BY <1>2, <2>1 DEF CallStates, Places
    <3>2. call'[c] = [call[c] EXCEPT !.pc = "send"] /\ \A d \in Calls \ {c} : call'[d] = call[d]
      BY <1>2, <2>1
    <3>3. Late(c)
      BY <1>2, <2>1, <3>2 DEF Late, CallStates
    <3> QED BY <3>1, <3>2, <3>3 DEF Late
  <2>2. CASE \E why \in Ends \ {"true", "false"} : call' = [call EXCEPT ![c].end = why]
    <3>0. PICK why \in Ends \ {"true", "false"} : call' = [call EXCEPT ![c].end = why]
      BY <2>2
    <3>1. call' \in [Calls -> CallStates]
      BY <1>2, <3>0 DEF CallStates
    <3>2. call'[c] = [call[c] EXCEPT !.end = why] /\ \A d \in Calls \ {c} : call'[d] = call[d]
      BY <1>2, <3>0
    <3>3. Late(c)
      BY <1>2, <3>2 DEF Late, CallStates
    <3> QED BY <3>1, <3>2, <3>3 DEF Late
  <2> QED BY <1>3, <2>1, <2>2
<1>5. tx' \in [Calls -> L1Txs]
  <2>1. CASE Build(c)
    BY <1>2, <2>1 DEF Build, L1Txs, CallStates
  <2>2. CASE SendRejected(c)
    BY <1>2, <2>2 DEF SendRejected, L1Txs
  <2>3. CASE SendAccepted(c)
    <3>1. \A d \in Calls : tx'[d] \in L1Txs
      BY <1>2, <2>3 DEF SendAccepted, L1Txs
    <3>2. DOMAIN tx' = Calls /\ tx' = [d \in Calls |-> tx'[d]]
      BY <2>3 DEF SendAccepted
    <3> QED BY <3>1, <3>2
  <2>4. CASE RpcFails(c)
    BY <1>2, <2>4 DEF RpcFails
  <2> QED BY <2>1, <2>2, <2>3, <2>4
<1>6. TypeOK'
  BY <1>1, <1>4, <1>5 DEF FinalizeInv, PaidInv, TypeOK
<1> QED BY <1>1, <1>4, <1>6, LateStep

LEMMA ChainStep ==
    ASSUME FinalizeInv, PaidIndInv', AdvanceBatch \/ \E c \in Calls : Mine(c)
    PROVE  FinalizeInv'
<1>1. outputs' = outputs /\ before' = before /\ call' = call
  BY DEF AdvanceBatch, Mine
<1>2. /\ phase \in 1..Len(Phases) /\ tx \in [Calls -> L1Txs] /\ count \in Nat
      /\ finalized \in SUBSET Nat /\ \A c \in Calls : call[c] \in CallStates
  BY DEF FinalizeInv, PaidInv, TypeOK
<1>3. /\ phase' \in 1..Len(Phases) /\ tx' \in [Calls -> L1Txs] /\ count' \in Nat
      /\ finalized' \in SUBSET Nat /\ finalized \subseteq finalized'
  <2>1. CASE AdvanceBatch
    BY <1>2, <2>1 DEF AdvanceBatch, Phases
  <2>2. CASE \E c \in Calls : Mine(c)
    <3>1. PICK c \in Calls : Mine(c)
      BY <2>2
    <3>2. tx[c] \in L1Txs /\ call[c].log \in Nat
      BY <1>2 DEF CallStates
    <3> QED BY <1>2, <3>1, <3>2 DEF Mine, L1Txs
  <2> QED BY <2>1, <2>2
<1>4. TypeOK'
  BY <1>1, <1>3 DEF FinalizeInv, PaidInv, TypeOK
<1>5. \A d \in Calls : Late(d)
  BY <1>1 DEF Late
<1> QED BY <1>1, <1>3, <1>4, <1>5, LateStep

LEMMA FinalizeInit == Init => FinalizeInv
<1> SUFFICES ASSUME Init PROVE FinalizeInv
  OBVIOUS
<1>1. TypeOK
  BY DEF Init, TypeOK, NewCall, CallStates, L1Txs, Phases, Places, Ends
<1>2. BuiltWasAccepted
  BY PaidInit DEF PaidIndInv
<1>3. /\ \A c \in Calls : call[c] = NewCall /\ before[c] = {}
      /\ finalized = {}
  BY DEF Init
<1>4. LookedUp
  BY <1>3 DEF LookedUp, NewCall
<1>5. AnswersCounted
  BY <1>3 DEF AnswersCounted, NewCall
<1> QED BY <1>1, <1>2, <1>4, <1>5 DEF FinalizeInv, PaidInv

LEMMA FinalizeNext == PaidIndInv /\ FinalizeInv /\ [Next]_vars => FinalizeInv'
<1> SUFFICES ASSUME PaidIndInv, FinalizeInv, [Next]_vars
             PROVE  FinalizeInv'
  OBVIOUS
<1>1. PaidIndInv'
  BY PaidNext
<1>2. CASE AdvanceBatch \/ \E c \in Calls : Mine(c)
  BY <1>1, <1>2, ChainStep
<1>3. ASSUME NEW c \in Calls, Step(c) \/ RpcFails(c)
      PROVE  FinalizeInv'
  <2>1. CASE ReadReceipt(c) \/ ReadProof(c) \/ ReadNonce(c) \/ ChooseBridge(c) \/ Probe(c)
             \/ ReadL1Bridge(c) \/ Ask(c)
    <3>1. Own(c)
      BY <2>1, ReadReceiptStep, ReadProofStep, BridgeSteps, AskStep
    <3> QED BY <1>1, <3>1, OwnStep
  <2>2. CASE Build(c) \/ SendRejected(c) \/ SendAccepted(c) \/ RpcFails(c)
    BY <1>1, <2>2, SubmitStep
  <2> QED BY <1>3, <2>1, <2>2 DEF Step
<1>4. CASE UNCHANGED vars
  <2>1. /\ outputs' = outputs /\ phase' = phase /\ call' = call /\ tx' = tx /\ count' = count
        /\ finalized' = finalized /\ before' = before
    BY <1>4 DEF vars, chainvars
  <2>2. TypeOK'
    BY <2>1 DEF FinalizeInv, PaidInv, TypeOK
  <2>3. \A d \in Calls : Late(d)
    BY <2>1 DEF Late
  <2> QED BY <1>1, <2>1, <2>2, <2>3, LateStep
<1> QED BY <1>2, <1>3, <1>4 DEF Next

LEMMA FinalizeAlways == Spec => []FinalizeInv
<1>1. Spec => []PaidIndInv
  BY PaidInit, PaidNext, PTL DEF Spec
<1> QED BY <1>1, FinalizeInit, FinalizeNext, PTL DEF Spec

\* Every behaviour keeps the invariant of the finalization, types included: what is
\* looked up in the receipt and in the l2ToL1Logs are positions of the transaction.
THEOREM PaidInvariant == Spec => []PaidInv
<1>1. FinalizeInv => PaidInv
  BY DEF FinalizeInv
<1> QED BY <1>1, FinalizeAlways, PTL

-----------------------------------------------------------------------------
(***************************************************************************)
(* From the message that is counted to the withdrawal asked for.           *)
(***************************************************************************)
WithdrawalsAt == {j \in 1..Len(outputs) : outputs[j] \in Withdrawals}

LEMMA WithdrawalByPosition ==
    ASSUME outputs \in OutputSeqs, NEW c \in Calls, NEW j \in 1..Len(outputs)
    PROVE  /\ WithdrawalsAt \in SUBSET MessagesAt
           /\ Below(WithdrawalsAt, j) \in SUBSET Below(MessagesAt, j)
           /\ IsFiniteSet(Below(MessagesAt, j)) /\ IsFiniteSet(Below(WithdrawalsAt, j))
           /\ IsWithdrawal(c, j) <=>
                 j \in WithdrawalsAt /\ Cardinality(Below(WithdrawalsAt, j)) = IndexOf[c]
<1>1. {i \in 1..(j - 1) : outputs[i] \in Withdrawals} = Below(WithdrawalsAt, j)
  BY MessageTypes DEF Below, WithdrawalsAt
<1>2. WithdrawalsAt \in SUBSET MessagesAt
  BY DEF WithdrawalsAt, MessagesAt, IsMessage, Messages
<1>3. /\ Below(WithdrawalsAt, j) \in SUBSET Below(MessagesAt, j)
      /\ Below(MessagesAt, j) \in SUBSET (1..Len(outputs))
      /\ Below(WithdrawalsAt, j) \in SUBSET (1..Len(outputs))
  BY <1>2, MessageTypes DEF Below
<1>4. IsFiniteSet(Below(MessagesAt, j)) /\ IsFiniteSet(Below(WithdrawalsAt, j))
  BY <1>3, MessageTypes
<1> QED BY <1>1, <1>2, <1>3, <1>4 DEF IsWithdrawal, WithdrawalsAt

\* As long as every message is a withdrawal, counting messages is counting withdrawals.
LEMMA AllWithdrawals ==
    ASSUME outputs \in OutputSeqs, NEW c \in Calls, NEW j \in 1..Len(outputs),
           ~PlainUpTo(j)
    PROVE  IsWithdrawal(c, j) <=> Counted(c, j)
<1>1. \A i \in 1..j : i \in 1..Len(outputs) /\ (i \in MessagesAt <=> i \in WithdrawalsAt)
  BY MessageTypes DEF PlainUpTo, MessagesAt, WithdrawalsAt, IsMessage, Messages
<1>2. Below(MessagesAt, j) = Below(WithdrawalsAt, j)
  <2>1. \A i \in 1..Len(outputs) : i < j => i \in 1..j
    BY MessageTypes
  <2> QED BY <1>1, <2>1 DEF Below, MessagesAt, WithdrawalsAt
<1>3. j \in MessagesAt <=> j \in WithdrawalsAt
  BY <1>1, MessageTypes
<1> QED BY <1>2, <1>3, CountedByPosition, WithdrawalByPosition

\* From the first other message on, the message that is counted is not the withdrawal
\* with that index: fewer withdrawals than messages stand before it.
LEMMA PlainShifts ==
    ASSUME outputs \in OutputSeqs, NEW c \in Calls, NEW j \in 1..Len(outputs),
           PlainUpTo(j), Counted(c, j)
    PROVE  ~IsWithdrawal(c, j)
<1>1. PICK i \in 1..j : outputs[i] = "plain"
  BY DEF PlainUpTo
<1>2. i \in 1..Len(outputs) /\ i \in MessagesAt /\ i \notin WithdrawalsAt
  BY <1>1, MessageTypes DEF MessagesAt, WithdrawalsAt, IsMessage, Messages, Withdrawals
<1>3. CASE i = j
  BY <1>2, <1>3, WithdrawalByPosition
<1>4. CASE i # j
  <2>1. i \in Below(MessagesAt, j) /\ i \notin Below(WithdrawalsAt, j)
    BY <1>2, <1>4, MessageTypes DEF Below
  <2>2. Cardinality(Below(WithdrawalsAt, j)) # Cardinality(Below(MessagesAt, j))
    BY <2>1, WithdrawalByPosition, FS_Subset
  <2> QED BY <2>2, WithdrawalByPosition, CountedByPosition
<1> QED BY <1>3, <1>4

\* For every transaction and every index, the log of the receipt and the log that is
\* proven are of one message (_get_withdraw_log and _get_withdraw_l2_to_l1_log filter
\* their lists apart); that message is the withdrawal the program asked for if and
\* only if no other message stands before it or in its place.
THEOREM TheAskedWithdrawalIsProven == Spec => []ProvesAskedWithdrawal
<1>1. FinalizeInv => ProvesAskedWithdrawal
  <2> SUFFICES ASSUME FinalizeInv, NEW c \in Calls, call[c].proof # 0
               PROVE  /\ call[c].log = call[c].proof
                      /\ IsWithdrawal(c, call[c].log) <=> ~PlainUpTo(call[c].log)
    BY DEF ProvesAskedWithdrawal
  <2>1. /\ outputs \in OutputSeqs
        /\ call[c].log \in 1..Len(outputs) /\ Counted(c, call[c].log)
        /\ call[c].proof \in 1..Len(outputs) /\ Counted(c, call[c].proof)
    BY CallKnows DEF KnowsOf
  <2>2. call[c].log = call[c].proof
    BY <2>1, OneCounted
  <2>3. ~PlainUpTo(call[c].log) => IsWithdrawal(c, call[c].log)
    BY <2>1, AllWithdrawals
  <2>4. PlainUpTo(call[c].log) => ~IsWithdrawal(c, call[c].log)
    BY <2>1, PlainShifts
  <2> QED BY <2>2, <2>3, <2>4
<1> QED BY <1>1, FinalizeAlways, PTL

\* is_withdrawal_finalized answers for the withdrawal asked for, from a state of L1 not
\* older than the call, if no other message stands before that withdrawal.
THEOREM AnswersAreFresh == Spec => []AnswerIsFresh
<1>1. FinalizeInv => AnswerIsFresh
  <2> SUFFICES ASSUME FinalizeInv, NEW c \in Calls, NEW j \in 1..Len(outputs),
                      IsWithdrawal(c, j), ~PlainUpTo(j)
               PROVE  /\ call[c].end = "true" => j \in finalized
                      /\ call[c].end = "false" => j \notin before[c]
    BY DEF AnswerIsFresh
  <2>1. outputs \in OutputSeqs /\ AnswerOf(c)
    BY CallKnows
  <2>2. Counted(c, j) /\ outputs[j] \in Withdrawals
    BY <2>1, AllWithdrawals DEF IsWithdrawal
  <2> QED BY <2>1, <2>2 DEF AnswerOf
<1> QED BY <1>1, FinalizeAlways, PTL

=============================================================================
