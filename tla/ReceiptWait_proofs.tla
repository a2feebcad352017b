-------------------------- MODULE ReceiptWait_proofs --------------------------
(***************************************************************************)
(* Proofs about ReceiptWait: what wait_finalized returns is final for good *)
(* (FinalityInv), a confirmation belongs together (ConfirmationInv), and a *)
(* timeout is not a missed finality (DueInv).                              *)
(***************************************************************************)
EXTENDS ReceiptWait, TLAPS

\* What is settled stays settled as long as the finalized prefix of the chain
\* only grows.
LEMMA SettledStays ==
    ASSUME NEW t, NEW r, Settled(t, r), TypeOK,
           final \in Nat, final' \in Nat, final <= final',
           \A i \in 1..final : chain'[i] = chain[i]
    PROVE  Settled(t, r)'
BY DEF Settled, InBlock

\* A step of the chain leaves the finalized prefix alone.
LEMMA PrefixKept ==
    ASSUME TypeOK, Chain
    PROVE  /\ chain' \in Seq(Blocks)
           /\ open' \in SUBSET Txs
           /\ sealed' \in Nat
           /\ final' \in 0..Len(chain')
           /\ final <= final'
           /\ \A i \in 1..final : chain'[i] = chain[i]
           /\ UNCHANGED wait
           /\ due' \in [Waits -> BOOLEAN]
<1>. USE DEF TypeOK
<1>1. CASE \E t \in Txs : Execute(t)
  BY <1>1 DEF Execute
<1>2. CASE Seal
  <2>1. [hash |-> sealed, txs |-> open] \in Blocks
    BY DEF Blocks
  <2>. QED
    BY <1>2, <2>1 DEF Seal
<1>3. ASSUME NEW n \in final..Len(chain), Revert(n)
      PROVE  /\ chain' \in Seq(Blocks)
             /\ Len(chain') = n
             /\ \A i \in 1..final : chain'[i] = chain[i]
  <2>1. chain' = SubSeq(chain, 1, n) /\ n \in Nat /\ n <= Len(chain)
    BY <1>3 DEF Revert
  <2>. QED
    BY <2>1
<1>4. CASE \E n \in final..Len(chain) : Revert(n)
  <2>1. PICK n \in final..Len(chain) : Revert(n)
    BY <1>4
  <2>2. UNCHANGED <<sealed, final, wait, due>> /\ open' = {}
    BY <2>1 DEF Revert
  <2>. QED
    BY <1>3, <2>1, <2>2
<1>5. CASE \E n \in (final + 1)..Len(chain) : Finalize(n)
  BY <1>5 DEF Finalize
<1>. QED
  BY <1>1, <1>2, <1>4, <1>5 DEF Chain

LEMMA ChainStep ==
    ASSUME FinalityInv, Chain
    PROVE  FinalityInv'
<1>. USE DEF FinalityInv
<1>1. TypeOK'
  BY PrefixKept DEF TypeOK
<1>2. BlockWasFinal'
  <2>1. \A w \in Waits : wait[w].block \in Nat
    BY DEF TypeOK, WaitStates
  <2>2. final \in Nat /\ final' \in Nat /\ final <= final' /\ wait' = wait
    BY PrefixKept, <1>1 DEF TypeOK
  <2>3. BlockWasFinal
    OBVIOUS
  <2>. HIDE DEF FinalityInv
  <2>. QED
    BY <2>1, <2>2, <2>3 DEF BlockWasFinal
<1>3. ASSUME NEW t, NEW r, Settled(t, r) PROVE Settled(t, r)'
  <2>1. final \in Nat /\ final' \in Nat
    BY <1>1 DEF TypeOK
  <2>. QED
    BY <1>3, <2>1, PrefixKept, SettledStays
<1>4. SettledReceipts'
  BY PrefixKept, <1>3 DEF SettledReceipts
<1>. QED
  BY <1>1, <1>2, <1>4

\* A step of wait w that leaves it as s preserves the invariant when s satisfies
\* its parts.
LEMMA WaitStep ==
    ASSUME FinalityInv, NEW w \in Waits,
           NEW s \in WaitStates,
           wait' = [wait EXCEPT ![w] = s],
           due' \in [Waits -> BOOLEAN],
           UNCHANGED chainvars,
           s.block <= final,
           s.kind = "finalized" =>
              /\ /\ s.pc \in {"test", "sleep", "returned"}
                 /\ s.receipt # None
                 /\ s.receipt.hash # None
                 /\ s.receipt.number <= s.block
                 => Settled(TxOf[w], s.receipt)
              /\ s.pc \notin {"fetch", "proof"}
              /\ s.pc = "returned" =>
                    /\ s.receipt # None
                    /\ s.receipt.hash # None
                    /\ s.receipt.number <= s.block
    PROVE  FinalityInv'
<1>. USE DEF FinalityInv, chainvars
<1>1. TypeOK'
  BY DEF TypeOK
<1>2. \A v \in Waits : wait'[v] = IF v = w THEN s ELSE wait[v]
  BY DEF TypeOK
<1>3. BlockWasFinal'
  BY <1>2 DEF BlockWasFinal
<1>4. \A t, r : Settled(t, r)' <=> Settled(t, r)
  BY DEF Settled, InBlock
<1>5. SettledReceipts'
  BY <1>2, <1>4 DEF SettledReceipts
<1>. QED
  BY <1>1, <1>3, <1>5

\* A step that only moves the call to another place.
LEMMA GotoStep ==
    ASSUME FinalityInv, NEW w \in Waits, NEW p \in Places, Goto(w, p),
           UNCHANGED <<chainvars, due>>,
           p \in {"sleep", "returned"} => wait[w].pc = "test",
           p # "test",
           p \in {"fetch", "proof"} => wait[w].kind # "finalized",
           p = "returned" /\ wait[w].kind = "finalized" => Satisfied(w)
    PROVE  FinalityInv'
<1>. DEFINE s == [wait[w] EXCEPT !.pc = p]
<1>1. /\ s \in WaitStates
      /\ s.pc = p /\ s.block = wait[w].block /\ s.receipt = wait[w].receipt
      /\ s.kind = wait[w].kind
      /\ wait' = [wait EXCEPT ![w] = s]
  BY DEF Goto, FinalityInv, TypeOK, WaitStates
<1>2. s.block <= final /\ due' \in [Waits -> BOOLEAN]
  BY <1>1 DEF FinalityInv, BlockWasFinal, TypeOK
<1>3. s.receipt # None => s.receipt \in Receipts
  BY <1>1 DEF WaitStates
<1>4. s.kind = "finalized" =>
         /\ /\ s.pc \in {"test", "sleep", "returned"}
            /\ s.receipt # None
            /\ s.receipt.hash # None
            /\ s.receipt.number <= s.block
            => Settled(TxOf[w], s.receipt)
         /\ s.pc \notin {"fetch", "proof"}
         /\ s.pc = "returned" =>
               /\ s.receipt # None
               /\ s.receipt.hash # None
               /\ s.receipt.number <= s.block
  BY <1>1, <1>3
     DEF FinalityInv, SettledReceipts, Satisfied, Reaches, FinalizedNumber, Receipts
<1>. HIDE DEF s
<1>. QED
  BY <1>1, <1>2, <1>4, WaitStep

LEMMA ReadFinalizedStep ==
    ASSUME FinalityInv, NEW w \in Waits, ReadFinalized(w)
    PROVE  FinalityInv'
<1>. DEFINE s == [wait[w] EXCEPT !.pc = "receipt", !.block = final]
<1>1. /\ s \in WaitStates
      /\ s.pc = "receipt" /\ s.block = final
      /\ wait' = [wait EXCEPT ![w] = s]
      /\ s.block <= final
  <2>1. final \in Nat
    BY DEF FinalityInv, TypeOK
  <2>2. wait \in [Waits -> WaitStates]
    BY DEF FinalityInv, TypeOK
  <2>3. s \in WaitStates /\ s.pc = "receipt" /\ s.block = final
    BY <2>1, <2>2 DEF Places, WaitStates
  <2>4. wait' = [wait EXCEPT ![w] = s]
    BY <2>2 DEF ReadFinalized
  <2>. QED
    BY <2>1, <2>3, <2>4
<1>2. due' \in [Waits -> BOOLEAN] /\ UNCHANGED chainvars
  <2>1. IsFinal(TxOf[w]) \in BOOLEAN
    BY DEF IsFinal
  <2>. QED
    BY <2>1 DEF ReadFinalized, FinalityInv, TypeOK
<1>. HIDE DEF s
<1>. QED
  BY <1>1, <1>2, WaitStep

LEMMA ReadReceiptStep ==
    ASSUME FinalityInv, NEW w \in Waits, ReadReceipt(w)
    PROVE  FinalityInv'
<1>1. PICK r \in Answers :
         /\ MayAnswer(TxOf[w], r)
         /\ wait' = [wait EXCEPT ![w].pc = "test", ![w].receipt = r]
  BY DEF ReadReceipt
<1>2. r \in Receipts \cup {None}
  <2>1. chain \in Seq(Blocks)
    BY DEF FinalityInv, TypeOK
  <2>2. Len(chain) \in Nat /\ \A i \in 1..Len(chain) : chain[i] \in Blocks
    BY <2>1
  <2>3. \A i \in 1..Len(chain) : chain[i].hash \in Nat
    BY <2>2 DEF Blocks
  <2>. QED
    BY <2>2, <2>3 DEF Answers, Receipts, OpenReceipt, SealedReceipt,
                        OutcomeIn, Outcomes
<1>3. r # None /\ r.hash # None /\ r.number <= final => Settled(TxOf[w], r)
  BY <1>1, WaitAssumption
     DEF MayAnswer, OpenReceipt, SealedReceipt, Settled, FinalityInv, TypeOK
<1>. DEFINE s == [wait[w] EXCEPT !.pc = "test", !.receipt = r]
<1>4. /\ s \in WaitStates
      /\ s.pc = "test" /\ s.receipt = r /\ s.block = wait[w].block
      /\ wait' = [wait EXCEPT ![w] = s]
  <2>1. wait \in [Waits -> WaitStates]
    BY DEF FinalityInv, TypeOK
  <2>. QED
    BY <1>1, <1>2, <2>1 DEF Places, WaitStates
<1>5. s.block <= final
  BY <1>4 DEF FinalityInv, BlockWasFinal
<1>6. s.receipt # None /\ s.receipt.hash # None /\ s.receipt.number <= s.block
      => Settled(TxOf[w], s.receipt)
  <2>1. s.block \in Nat /\ final \in Nat
    BY <1>4 DEF FinalityInv, TypeOK, WaitStates
  <2>2. r # None => r.number \in Nat
    BY <1>2 DEF Receipts
  <2>3. s.receipt = r
    BY <1>4
  <2>. HIDE DEF s
  <2>. QED
    BY <1>3, <1>5, <2>1, <2>2, <2>3
<1>7. due' \in [Waits -> BOOLEAN] /\ UNCHANGED chainvars
  BY DEF ReadReceipt, FinalityInv, TypeOK
<1>. HIDE DEF s
<1>. QED
  BY <1>4, <1>5, <1>6, <1>7, WaitStep

LEMMA SleepStep ==
    ASSUME FinalityInv, NEW w \in Waits, Sleep(w)
    PROVE  FinalityInv'
<1>1. CASE Goto(w, "timeout")
  BY <1>1, GotoStep DEF Sleep, Places
<1>2. CASE /\ wait[w].polls + 1 < MaxPolls
           /\ wait' = [wait EXCEPT ![w].pc = FirstRead(wait[w].kind), ![w].polls = @ + 1]
  <2>. DEFINE s == [wait[w] EXCEPT !.pc = FirstRead(wait[w].kind), !.polls = @ + 1]
  <2>1. /\ s \in WaitStates
        /\ s.pc = FirstRead(s.kind) /\ s.block = wait[w].block
        /\ wait' = [wait EXCEPT ![w] = s]
    <3>1. wait[w] \in WaitStates /\ wait[w].polls \in 0..(MaxPolls - 1)
      BY DEF FinalityInv, TypeOK, WaitStates
    <3>2. wait[w].polls + 1 \in 0..(MaxPolls - 1)
      BY <1>2, <3>1, WaitAssumption
    <3>3. FirstRead(wait[w].kind) \in Places
      BY DEF FirstRead, Places
    <3>. QED
      BY <1>2, <3>1, <3>2, <3>3 DEF WaitStates, FinalityInv, TypeOK
  <2>2. s.block <= final /\ s.pc \notin {"test", "sleep", "returned", "fetch", "proof"}
    BY <2>1 DEF FinalityInv, BlockWasFinal, FirstRead
  <2>3. due' \in [Waits -> BOOLEAN] /\ UNCHANGED chainvars
    BY DEF Sleep, FinalityInv, TypeOK
  <2>. HIDE DEF s
  <2>. QED
    BY <2>1, <2>2, <2>3, WaitStep
<1>. QED
  BY <1>1, <1>2 DEF Sleep

LEMMA TestStep ==
    ASSUME FinalityInv, NEW w \in Waits, Test(w)
    PROVE  FinalityInv'
BY GotoStep DEF Test, Places

\* Only a wait for a priority operation gets as far as the transaction itself.
LEMMA FetchStep ==
    ASSUME FinalityInv, NEW w \in Waits, Fetch(w)
    PROVE  FinalityInv'
<1>1. wait[w].kind # "finalized"
  BY DEF Fetch, FinalityInv, SettledReceipts
<1>2. PICK p \in {"notFound", "returned"} : Goto(w, p)
  BY DEF Fetch
<1>. DEFINE s == [wait[w] EXCEPT !.pc = p]
<1>3. /\ s \in WaitStates /\ s.block = wait[w].block /\ s.kind = wait[w].kind
      /\ wait' = [wait EXCEPT ![w] = s]
  BY <1>2 DEF Goto, FinalityInv, TypeOK, Places, WaitStates
<1>4. s.block <= final /\ due' \in [Waits -> BOOLEAN] /\ UNCHANGED chainvars
  BY <1>3 DEF FinalityInv, BlockWasFinal, TypeOK, Fetch
<1>. HIDE DEF s
<1>. QED
  BY <1>1, <1>3, <1>4, WaitStep

LEMMA LogsAreNumbered ==
    ASSUME NEW outcome \in Outcomes
    PROVE  /\ ResultLog(LogsOf(outcome)) \in DOMAIN LogsOf(outcome)
           /\ LogsOf(outcome)[ResultLog(LogsOf(outcome))].sender = "bootloader"
           /\ ResultLog(LogsOf(outcome)) \in Nat
           /\ \A i \in DOMAIN LogsOf(outcome) : LogsOf(outcome)[i].sender \in Senders
<1>. DEFINE logs == LogsOf(outcome)
<1>1. /\ DOMAIN logs \subseteq {1, 2}
      /\ \A i \in DOMAIN logs : logs[i].sender \in Senders
      /\ \E i \in DOMAIN logs : logs[i].sender = "bootloader"
  BY DEF LogsOf, Senders
<1>. HIDE DEF logs
<1>. QED
  BY <1>1 DEF ResultLog, logs

LEMMA LocateStep ==
    ASSUME FinalityInv, NEW w \in Waits, Locate(w)
    PROVE  FinalityInv'
<1>. DEFINE r == wait[w].receipt
            log == ResultLog(LogsOf(r.outcome))
<1>1. wait[w].kind # "finalized" /\ UNCHANGED <<chainvars, due>>
  BY DEF Locate, QueryKinds
<1>2. CASE Goto(w, "raised") \/ Goto(w, "refused")
  BY <1>1, <1>2, GotoStep DEF Places
<1>3. CASE r # None /\ wait' = [wait EXCEPT ![w].pc = "proof", ![w].log = log]
  <2>1. wait[w] \in WaitStates /\ wait \in [Waits -> WaitStates]
    BY DEF FinalityInv, TypeOK
  <2>2. r.outcome \in Outcomes
    BY <1>3, <2>1 DEF WaitStates, Receipts
  <2>3. log \in Nat
    BY <2>2, LogsAreNumbered
  <2>. HIDE DEF log
  <2>. DEFINE s == [wait[w] EXCEPT !.pc = "proof", !.log = log]
  <2>4. /\ s \in WaitStates
        /\ s.block = wait[w].block /\ s.kind = wait[w].kind
        /\ wait' = [wait EXCEPT ![w] = s]
    BY <1>3, <2>1, <2>3 DEF WaitStates, Places
  <2>5. s.block <= final /\ due' \in [Waits -> BOOLEAN] /\ UNCHANGED chainvars
    BY <1>1, <2>4 DEF FinalityInv, BlockWasFinal, TypeOK
  <2>. HIDE DEF s
  <2>. QED
    BY <1>1, <2>4, <2>5, WaitStep
<1>. QED
  BY <1>2, <1>3 DEF Locate

LEMMA AskProofStep ==
    ASSUME FinalityInv, NEW w \in Waits, AskProof(w)
    PROVE  FinalityInv'
<1>0. wait[w].kind # "finalized"
  BY DEF AskProof, FinalityInv, SettledReceipts
<1>1. CASE Goto(w, "raised") /\ UNCHANGED <<chainvars, due>>
  BY <1>1, GotoStep DEF Places
<1>2. ASSUME NEW q \in Proofs, UNCHANGED <<chainvars, due>>,
             wait' = [wait EXCEPT ![w].pc = "returned", ![w].proof = q]
      PROVE  FinalityInv'
  <2>. DEFINE s == [wait[w] EXCEPT !.pc = "returned", !.proof = q]
  <2>1. wait[w] \in WaitStates /\ wait \in [Waits -> WaitStates]
    BY DEF FinalityInv, TypeOK
  <2>2. /\ s \in WaitStates
        /\ s.block = wait[w].block /\ s.kind = wait[w].kind
        /\ wait' = [wait EXCEPT ![w] = s]
    BY <1>2, <2>1 DEF WaitStates, Places
  <2>3. s.block <= final /\ due' \in [Waits -> BOOLEAN] /\ UNCHANGED chainvars
    BY <1>2, <2>2 DEF FinalityInv, BlockWasFinal, TypeOK
  <2>. HIDE DEF s
  <2>. QED
    BY <1>0, <2>2, <2>3, WaitStep
<1>3. ASSUME NEW i \in 1..Len(chain),
             wait[w].log \in DOMAIN LogsOf(OutcomeIn(chain[i].hash))
      PROVE  [hash |-> chain[i].hash,
              sender |-> LogsOf(OutcomeIn(chain[i].hash))[wait[w].log].sender] \in Proofs
  <2>0. chain[i] \in Blocks
    BY DEF FinalityInv, TypeOK
  <2>1. chain[i].hash \in Nat
    BY <2>0 DEF Blocks
  <2>2. OutcomeIn(chain[i].hash) \in Outcomes
    BY DEF OutcomeIn, Outcomes
  <2>3. LogsOf(OutcomeIn(chain[i].hash))[wait[w].log].sender \in Senders
    BY <1>3, <2>2, LogsAreNumbered
  <2>. QED
    BY <2>1, <2>3 DEF Proofs
<1>. QED
  BY <1>1, <1>2, <1>3 DEF AskProof

LEMMA RpcFailsStep ==
    ASSUME FinalityInv, NEW w \in Waits, RpcFails(w)
    PROVE  FinalityInv'
BY GotoStep DEF RpcFails, Places

-----------------------------------------------------------------------------

LEMMA FinalityInvInit == Init => FinalityInv
<1>. SUFFICES ASSUME Init PROVE FinalityInv
  OBVIOUS
<1>. USE DEF Init
<1>1. TypeOK
  BY WaitAssumption DEF TypeOK, WaitStates, Places, FirstRead
<1>2. BlockWasFinal
  BY DEF BlockWasFinal
<1>3. SettledReceipts
  BY DEF SettledReceipts, FirstRead
<1>. QED
  BY <1>1, <1>2, <1>3 DEF FinalityInv

LEMMA FinalityInvNext == FinalityInv /\ [Next]_vars => FinalityInv'
<1>. SUFFICES ASSUME FinalityInv, [Next]_vars PROVE FinalityInv'
  OBVIOUS
<1>1. CASE Chain
  BY <1>1, ChainStep
<1>2. ASSUME NEW w \in Waits, Step(w) PROVE FinalityInv'
  BY <1>2, ReadFinalizedStep, ReadReceiptStep, TestStep, SleepStep, FetchStep,
     LocateStep, AskProofStep DEF Step
<1>3. ASSUME NEW w \in Waits, RpcFails(w) PROVE FinalityInv'
  BY <1>3, RpcFailsStep
<1>4. CASE UNCHANGED vars
  <2>. USE <1>4 DEF vars, chainvars
  <2>1. TypeOK' /\ BlockWasFinal'
    BY DEF FinalityInv, TypeOK, BlockWasFinal
  <2>2. SettledReceipts'
    BY DEF FinalityInv, SettledReceipts, Settled, InBlock
  <2>. QED
    BY <2>1, <2>2 DEF FinalityInv
<1>. QED
  BY <1>1, <1>2, <1>3, <1>4 DEF Next

\* Type correctness, and the finalized number a wait compares with is never ahead
\* of the chain's: for any number of waits, blocks and polls.
THEOREM FinalityInvariant == Spec => []FinalityInv
  BY FinalityInvInit, FinalityInvNext, PTL DEF Spec

\* The receipt wait_finalized returns is of a final block, for good, in whatever
\* order the chain seals, reverts and finalizes blocks between its two RPCs.
THEOREM FinalizedReceipt == Spec => []FinalizedReceiptStays
<1>1. FinalityInv => FinalizedReceiptStays
  BY DEF FinalityInv, SettledReceipts, FinalizedReceiptStays
<1>. QED
  BY <1>1, FinalityInvariant, PTL

-----------------------------------------------------------------------------
(***************************************************************************)
(* What get_priority_op_confirmation returns is of one execution.          *)
(***************************************************************************)

LEMMA ConfirmationInvInit == Init => ConfirmationInv
<1>. SUFFICES ASSUME Init PROVE ConfirmationInv
  OBVIOUS
<1>1. FinalityInv
  BY FinalityInvInit
<1>2. chain = << >> /\ open = {} /\ Len(chain) = 0
  BY DEF Init
<1>3. \A w \in Waits : wait[w].receipt = None /\ wait[w].pc \in {"block", "receipt"}
  BY DEF Init, FirstRead
<1>4. ChainInv
  BY <1>2 DEF ChainInv
<1>5. ReceiptsTrue /\ ProofsMatch
  BY <1>3 DEF ReceiptsTrue, ProofsMatch
<1>. QED
  BY <1>1, <1>4, <1>5 DEF ConfirmationInv

\* A step of the chain, as far as hashes and contents of its blocks go: what was
\* not there before has a new hash or is not there at all.
LEMMA ChainInvStep ==
    ASSUME TypeOK, ChainInv, Chain
    PROVE  /\ ChainInv'
           /\ sealed <= sealed' /\ sealed \in Nat /\ sealed' \in Nat
           /\ UNCHANGED wait
           /\ \A i \in 1..Len(chain') :
                 \/ chain'[i].hash = sealed
                 \/ i \in 1..Len(chain) /\ chain'[i] = chain[i]
<1>0. chain \in Seq(Blocks) /\ sealed \in Nat /\ open \in SUBSET Txs
  BY DEF TypeOK
<1>1. CASE \E t \in Txs : Execute(t)
  <2>1. PICK t \in Txs : Execute(t)
    BY <1>1
  <2>2. UNCHANGED <<chain, sealed, wait>> /\ open' = open \cup {t}
        /\ \A i \in 1..Len(chain) : ~InBlock(t, i)
    BY <2>1 DEF Execute
  <2>3. ChainInv'
    BY <2>2 DEF ChainInv, InBlock
  <2>. QED
    BY <1>0, <2>2, <2>3
<1>2. CASE Seal
  <2>1. /\ chain' = Append(chain, [hash |-> sealed, txs |-> open])
        /\ open' = {} /\ sealed' = sealed + 1 /\ UNCHANGED wait
    BY <1>2 DEF Seal
  <2>2. /\ Len(chain) \in Nat /\ Len(chain') = Len(chain) + 1
        /\ \A i \in 1..Len(chain) : chain'[i] = chain[i]
        /\ chain'[Len(chain) + 1] = [hash |-> sealed, txs |-> open]
    BY <1>0, <2>1
  <2>3. ASSUME NEW i \in 1..Len(chain) PROVE chain[i].hash \in Nat
    <3>1. chain[i] \in Blocks
      BY <1>0
    <3>. QED
      BY <3>1 DEF Blocks
  <2>4. ASSUME NEW i \in 1..Len(chain')
        PROVE  \/ i = Len(chain) + 1 /\ chain'[i].hash = sealed /\ chain'[i].txs = open
               \/ i \in 1..Len(chain) /\ chain'[i] = chain[i]
    <3>1. CASE i = Len(chain) + 1
      BY <3>1, <2>2
    <3>2. CASE i \in 1..Len(chain)
      BY <3>2, <2>2
    <3>. QED
      BY <3>1, <3>2, <2>2
  <2>5. \A i \in 1..Len(chain') : chain'[i].hash < sealed'
    <3>. TAKE i \in 1..Len(chain')
    <3>1. CASE chain'[i].hash = sealed
      BY <3>1, <1>0, <2>1
    <3>2. CASE i \in 1..Len(chain) /\ chain'[i] = chain[i]
      BY <3>2, <1>0, <2>1, <2>3 DEF ChainInv
    <3>. QED
      BY <3>1, <3>2, <2>4
  <2>6. \A i \in 1..Len(chain) : chain[i].hash < sealed
    BY DEF ChainInv
  <2>7. ASSUME NEW i \in 1..Len(chain'), NEW j \in 1..Len(chain'),
               chain'[i].hash = chain'[j].hash
        PROVE  i = j
    <3>1. CASE i \in 1..Len(chain) /\ j \in 1..Len(chain)
      BY <3>1, <2>7, <2>2 DEF ChainInv
    <3>2. CASE i \in 1..Len(chain) /\ j = Len(chain) + 1
      BY <3>2, <2>7, <2>2, <2>3, <2>6, <1>0
    <3>3. CASE j \in 1..Len(chain) /\ i = Len(chain) + 1
      BY <3>3, <2>7, <2>2, <2>3, <2>6, <1>0
    <3>. QED
      BY <3>1, <3>2, <3>3, <2>4
  <2>8. ASSUME NEW t \in Txs, NEW i \in 1..Len(chain'), NEW j \in 1..Len(chain'),
               t \in chain'[i].txs, t \in chain'[j].txs
        PROVE  i = j
    <3>1. \A k \in 1..Len(chain) : t \in open => t \notin chain[k].txs
      BY DEF ChainInv, InBlock
    <3>2. CASE i \in 1..Len(chain) /\ j \in 1..Len(chain)
      BY <3>2, <2>8, <2>2 DEF ChainInv, InBlock
    <3>3. CASE i = Len(chain) + 1 \/ j = Len(chain) + 1
      BY <3>1, <3>3, <2>8, <2>2, <2>4
    <3>. QED
      BY <3>2, <3>3, <2>4
  <2>9. ChainInv'
    BY <2>1, <2>5, <2>7, <2>8 DEF ChainInv, InBlock
  <2>. QED
    BY <1>0, <2>1, <2>4, <2>9
<1>3. CASE \E n \in final..Len(chain) : Revert(n)
  <2>1. PICK n \in final..Len(chain) : Revert(n)
    BY <1>3
  <2>2. /\ chain' = SubSeq(chain, 1, n) /\ open' = {}
        /\ UNCHANGED <<sealed, wait>>
        /\ n \in Nat /\ n <= Len(chain)
    BY <2>1 DEF Revert, TypeOK
  <2>3. Len(chain') = n /\ \A i \in 1..n : i \in 1..Len(chain) /\ chain'[i] = chain[i]
    BY <1>0, <2>2
  <2>4. ChainInv'
    <3>1. \A i \in 1..Len(chain') : i \in 1..Len(chain) /\ chain'[i] = chain[i]
      BY <2>3
    <3>2. \A i \in 1..Len(chain') : chain'[i].hash < sealed'
      BY <2>2, <3>1 DEF ChainInv
    <3>3. \A i, j \in 1..Len(chain') : chain'[i].hash = chain'[j].hash => i = j
      BY <3>1 DEF ChainInv
    <3>4. \A t \in Txs : \A i, j \in 1..Len(chain') :
             t \in chain'[i].txs /\ t \in chain'[j].txs => i = j
      BY <3>1 DEF ChainInv, InBlock
    <3>5. \A t \in open' : FALSE
      BY <2>2
    <3>. QED
      BY <3>2, <3>3, <3>4, <3>5 DEF ChainInv, InBlock
  <2>. QED
    BY <1>0, <2>2, <2>3, <2>4
<1>4. CASE \E n \in (final + 1)..Len(chain) : Finalize(n)
  <2>1. UNCHANGED <<chain, open, sealed, wait>>
    BY <1>4 DEF Finalize
  <2>2. ChainInv'
    BY <2>1 DEF ChainInv, InBlock
  <2>. QED
    BY <1>0, <2>1, <2>2
<1>. QED
  BY <1>1, <1>2, <1>3, <1>4 DEF Chain

LEMMA ConfirmationChainStep ==
    ASSUME ConfirmationInv, Chain
    PROVE  ConfirmationInv'
<1>1. FinalityInv' /\ TypeOK
  BY ChainStep DEF ConfirmationInv, FinalityInv
<1>2. /\ ChainInv'
      /\ sealed <= sealed' /\ sealed \in Nat /\ sealed' \in Nat
      /\ UNCHANGED wait
      /\ \A i \in 1..Len(chain') :
            \/ chain'[i].hash = sealed
            \/ i \in 1..Len(chain) /\ chain'[i] = chain[i]
  BY <1>1, ChainInvStep DEF ConfirmationInv
<1>3. \A w \in Waits : wait[w].receipt # None => wait[w].receipt \in Receipts
  BY <1>1 DEF TypeOK, WaitStates
<1>4. ReceiptsTrue'
  <2>. SUFFICES ASSUME NEW w \in Waits,
                       wait[w].receipt # None, wait[w].receipt.hash # None
                PROVE  /\ wait[w].receipt.hash < sealed'
                       /\ wait[w].receipt.outcome = OutcomeIn(wait[w].receipt.hash)
                       /\ \A i \in 1..Len(chain') :
                             chain'[i].hash = wait[w].receipt.hash => TxOf[w] \in chain'[i].txs
    BY <1>2 DEF ReceiptsTrue, InBlock
  <2>1. /\ wait[w].receipt.hash < sealed
        /\ wait[w].receipt.outcome = OutcomeIn(wait[w].receipt.hash)
        /\ \A i \in 1..Len(chain) :
              chain[i].hash = wait[w].receipt.hash => TxOf[w] \in chain[i].txs
    BY DEF ConfirmationInv, ReceiptsTrue, InBlock
  <2>2. wait[w].receipt.hash \in Nat
    BY <1>3 DEF Receipts
  <2>. QED
    BY SMTT(30), <1>2, <2>1, <2>2
<1>5. ProofsMatch'
  <2>. SUFFICES ASSUME NEW w \in Waits, wait[w].kind = "confirmation",
                       wait[w].pc = "returned", wait[w].receipt.hash # None,
                       wait[w].receipt # None,
                       \A i \in 1..Len(chain) : chain[i].hash # wait[w].receipt.hash
                PROVE  \A i \in 1..Len(chain') : chain'[i].hash # wait[w].receipt.hash
    BY <1>2 DEF ConfirmationInv, ProofsMatch
  <2>1. wait[w].receipt.hash < sealed /\ wait[w].receipt.hash \in Nat
    BY <1>3 DEF ConfirmationInv, ReceiptsTrue, Receipts
  <2>. QED
    BY <1>2, <2>1
<1>. QED
  BY <1>1, <1>2, <1>4, <1>5 DEF ConfirmationInv

\* A step of call w that leaves it as s, when s satisfies its parts of the invariant.
LEMMA ConfirmationWaitStep ==
    ASSUME ConfirmationInv, FinalityInv', NEW w \in Waits, NEW s \in WaitStates,
           wait' = [wait EXCEPT ![w] = s],
           UNCHANGED chainvars,
           s.receipt # None /\ s.receipt.hash # None =>
              /\ s.receipt.hash < sealed
              /\ s.receipt.outcome = OutcomeIn(s.receipt.hash)
              /\ \A i \in 1..Len(chain) :
                    chain[i].hash = s.receipt.hash => InBlock(TxOf[w], i),
           s.pc = "fetch" => s.kind \in WaitKinds,
           s.pc = "proof" =>
              s.receipt # None /\ s.log = ResultLog(LogsOf(s.receipt.outcome)),
           s.kind = "confirmation" /\ s.pc = "returned" =>
              /\ s.receipt # None
              /\ s.receipt.hash # None =>
                    \/ s.proof = [hash |-> s.receipt.hash, sender |-> "bootloader"]
                    \/ \A i \in 1..Len(chain) : chain[i].hash # s.receipt.hash
    PROVE  ConfirmationInv'
<1>. USE DEF chainvars
<1>1. \A v \in Waits : wait'[v] = IF v = w THEN s ELSE wait[v]
  BY DEF ConfirmationInv, FinalityInv, TypeOK
<1>2. ChainInv'
  BY DEF ConfirmationInv, ChainInv, InBlock
<1>3. ReceiptsTrue'
  BY <1>1 DEF ConfirmationInv, ReceiptsTrue, InBlock
<1>4. ProofsMatch'
  BY <1>1 DEF ConfirmationInv, ProofsMatch
<1>. QED
  BY <1>2, <1>3, <1>4 DEF ConfirmationInv

\* A step that keeps what the call has read.
LEMMA ConfirmationGotoStep ==
    ASSUME ConfirmationInv, FinalityInv', NEW w \in Waits, NEW s \in WaitStates,
           wait' = [wait EXCEPT ![w] = s],
           UNCHANGED chainvars,
           s.kind = wait[w].kind, s.receipt = wait[w].receipt,
           s.pc = "fetch" => s.kind \in WaitKinds,
           s.pc # "proof",
           s.pc = "returned" => s.kind \in WaitKinds
    PROVE  ConfirmationInv'
<1>1. s.receipt # None /\ s.receipt.hash # None =>
         /\ s.receipt.hash < sealed
         /\ s.receipt.outcome = OutcomeIn(s.receipt.hash)
         /\ \A i \in 1..Len(chain) : chain[i].hash = s.receipt.hash => InBlock(TxOf[w], i)
  BY DEF ConfirmationInv, ReceiptsTrue
<1>. QED
  BY <1>1, ConfirmationWaitStep DEF WaitKinds

\* What a move to place p makes of the call.
LEMMA GotoState ==
    ASSUME TypeOK, NEW w \in Waits, NEW p \in Places, Goto(w, p)
    PROVE  \E s \in WaitStates :
              /\ wait' = [wait EXCEPT ![w] = s]
              /\ s.pc = p /\ s.kind = wait[w].kind /\ s.receipt = wait[w].receipt
              /\ s.block = wait[w].block
<1>. DEFINE s == [wait[w] EXCEPT !.pc = p]
<1>1. wait[w] \in WaitStates
  BY DEF TypeOK
<1>2. s \in WaitStates /\ s.pc = p /\ s.kind = wait[w].kind
      /\ s.receipt = wait[w].receipt /\ s.block = wait[w].block
  BY <1>1 DEF WaitStates
<1>3. wait' = [wait EXCEPT ![w] = s]
  BY DEF Goto
<1>. QED
  BY <1>2, <1>3

LEMMA ConfirmationReadReceipt ==
    ASSUME ConfirmationInv, FinalityInv', NEW w \in Waits, ReadReceipt(w)
    PROVE  ConfirmationInv'
<1>1. PICK r \in Answers :
         /\ MayAnswer(TxOf[w], r)
         /\ wait' = [wait EXCEPT ![w].pc = "test", ![w].receipt = r]
  BY DEF ReadReceipt
<1>. DEFINE s == [wait[w] EXCEPT !.pc = "test", !.receipt = r]
<1>2. wait' = [wait EXCEPT ![w] = s]
  BY <1>1
<1>3. wait[w] \in WaitStates /\ wait \in [Waits -> WaitStates] /\ wait' \in [Waits -> WaitStates]
  BY DEF ConfirmationInv, FinalityInv, TypeOK
<1>4. s \in WaitStates /\ s.pc = "test" /\ s.receipt = r
  <2>1. s = wait'[w]
    BY <1>2, <1>3
  <2>. QED
    BY <1>3, <2>1 DEF WaitStates
<1>5. r # None /\ r.hash # None =>
         \E i \in 1..Len(chain) : InBlock(TxOf[w], i) /\ r = SealedReceipt(i)
  BY <1>1 DEF MayAnswer, OpenReceipt
<1>6. r # None /\ r.hash # None =>
         /\ r.hash < sealed
         /\ r.outcome = OutcomeIn(r.hash)
         /\ \A i \in 1..Len(chain) : chain[i].hash = r.hash => InBlock(TxOf[w], i)
  BY <1>5 DEF SealedReceipt, ConfirmationInv, ChainInv
<1>7. UNCHANGED chainvars
  BY DEF ReadReceipt
<1>. HIDE DEF s
<1>. QED
  BY <1>2, <1>4, <1>6, <1>7, ConfirmationWaitStep

LEMMA ConfirmationLocate ==
    ASSUME ConfirmationInv, FinalityInv', NEW w \in Waits, Locate(w)
    PROVE  ConfirmationInv'
<1>. DEFINE r == wait[w].receipt
            log == ResultLog(LogsOf(r.outcome))
<1>0. UNCHANGED chainvars /\ TypeOK
  BY DEF Locate, ConfirmationInv, FinalityInv
<1>1. ASSUME NEW p \in {"raised", "refused"}, Goto(w, p) PROVE ConfirmationInv'
  BY <1>0, <1>1, GotoState, ConfirmationGotoStep DEF Places
<1>2. CASE r # None /\ wait' = [wait EXCEPT ![w].pc = "proof", ![w].log = log]
  <2>. DEFINE s == [wait[w] EXCEPT !.pc = "proof", !.log = log]
  <2>. HIDE DEF log
  <2>1. wait' = [wait EXCEPT ![w] = s]
    BY <1>2
  <2>2. wait[w] \in WaitStates /\ wait \in [Waits -> WaitStates] /\ wait' \in [Waits -> WaitStates]
    BY DEF ConfirmationInv, FinalityInv, TypeOK
  <2>3. s \in WaitStates /\ s = wait'[w]
    BY <2>1, <2>2
  <2>4. s.pc = "proof" /\ s.receipt = r /\ s.log = log
    BY <2>2 DEF WaitStates
  <2>5. r # None /\ r.hash # None =>
           /\ r.hash < sealed
           /\ r.outcome = OutcomeIn(r.hash)
           /\ \A i \in 1..Len(chain) : chain[i].hash = r.hash => InBlock(TxOf[w], i)
    BY DEF ConfirmationInv, ReceiptsTrue
  <2>6. s.log = ResultLog(LogsOf(s.receipt.outcome)) /\ s.receipt # None
    BY <1>2, <2>4 DEF log
  <2>7. s.receipt # None /\ s.receipt.hash # None =>
           /\ s.receipt.hash < sealed
           /\ s.receipt.outcome = OutcomeIn(s.receipt.hash)
           /\ \A i \in 1..Len(chain) : chain[i].hash = s.receipt.hash => InBlock(TxOf[w], i)
    BY <2>4, <2>5
  <2>. HIDE DEF s, r
  <2>. QED
    BY <1>0, <2>1, <2>3, <2>4, <2>6, <2>7, ConfirmationWaitStep
<1>. QED
  BY <1>1, <1>2 DEF Locate

LEMMA ConfirmationAskProof ==
    ASSUME ConfirmationInv, FinalityInv', NEW w \in Waits, AskProof(w)
    PROVE  ConfirmationInv'
<1>. DEFINE r == wait[w].receipt
<1>0. UNCHANGED chainvars /\ TypeOK /\ wait[w].pc = "proof"
      /\ r # None /\ wait[w].log = ResultLog(LogsOf(r.outcome))
  BY DEF AskProof, ConfirmationInv, FinalityInv, ProofsMatch
<1>1. CASE Goto(w, "raised")
  BY <1>0, <1>1, GotoState, ConfirmationGotoStep DEF Places
<1>2. ASSUME NEW i \in 1..Len(chain), InBlock(TxOf[w], i), NEW q,
             q = [hash |-> chain[i].hash,
                  sender |-> LogsOf(OutcomeIn(chain[i].hash))[wait[w].log].sender],
             wait' = [wait EXCEPT ![w].pc = "returned", ![w].proof = q]
      PROVE  ConfirmationInv'
  <2>. DEFINE s == [wait[w] EXCEPT !.pc = "returned", !.proof = q]
  <2>1. wait' = [wait EXCEPT ![w] = s]
    BY <1>2
  <2>2. wait[w] \in WaitStates /\ wait \in [Waits -> WaitStates] /\ wait' \in [Waits -> WaitStates]
    BY DEF ConfirmationInv, FinalityInv, TypeOK
  <2>3. s \in WaitStates /\ s = wait'[w]
    BY <2>1, <2>2
  <2>4. s.pc = "returned" /\ s.receipt = r /\ s.proof = q
    BY <2>2 DEF WaitStates
  <2>5. r.hash # None =>
           /\ r.hash < sealed
           /\ r.outcome = OutcomeIn(r.hash)
           /\ \A j \in 1..Len(chain) : chain[j].hash = r.hash => InBlock(TxOf[w], j)
    BY <1>0 DEF ConfirmationInv, ReceiptsTrue
  <2>6. ASSUME r.hash # None, NEW j \in 1..Len(chain), chain[j].hash = r.hash
        PROVE  q = [hash |-> r.hash, sender |-> "bootloader"]
    <3>1. j = i
      BY <1>2, <2>5, <2>6, WaitAssumption DEF ConfirmationInv, ChainInv
    <3>2. OutcomeIn(chain[i].hash) = r.outcome /\ r.outcome \in Outcomes
      BY <2>5, <2>6, <3>1 DEF OutcomeIn, Outcomes
    <3>3. LogsOf(r.outcome)[wait[w].log].sender = "bootloader"
      BY <1>0, <3>2, LogsAreNumbered
    <3>. QED
      BY <1>2, <2>6, <3>1, <3>2, <3>3
  <2>7. s.receipt.hash # None =>
           \/ s.proof = [hash |-> s.receipt.hash, sender |-> "bootloader"]
           \/ \A j \in 1..Len(chain) : chain[j].hash # s.receipt.hash
    BY <2>4, <2>6
  <2>. HIDE DEF s
  <2>. QED
    BY <1>0, <2>1, <2>3, <2>4, <2>5, <2>7, ConfirmationWaitStep
<1>. QED
  BY <1>1, <1>2 DEF AskProof

\* The steps that only move the call, or read the finalized number.
LEMMA ConfirmationMove ==
    ASSUME ConfirmationInv, FinalityInv', NEW w \in Waits,
           Test(w) \/ Fetch(w) \/ RpcFails(w) \/ ReadFinalized(w) \/ Sleep(w)
    PROVE  ConfirmationInv'
<1>0. UNCHANGED chainvars /\ TypeOK
  BY DEF Test, Fetch, RpcFails, ReadFinalized, Sleep, ConfirmationInv, FinalityInv
<1>1. CASE Test(w)
  <2>1. PICK p \in {"sleep", "fetch", "returned"} : Goto(w, p) /\ wait[w].kind \in WaitKinds
    BY <1>1 DEF Test
  <2>. QED
    BY <1>0, <2>1, GotoState, ConfirmationGotoStep DEF Places
<1>2. CASE Fetch(w)
  <2>1. PICK p \in {"notFound", "returned"} : Goto(w, p)
    BY <1>2 DEF Fetch
  <2>2. wait[w].kind \in WaitKinds
    BY <1>2 DEF Fetch, ConfirmationInv, ProofsMatch
  <2>. QED
    BY <1>0, <2>1, <2>2, GotoState, ConfirmationGotoStep DEF Places
<1>3. CASE RpcFails(w) \/ Goto(w, "timeout")
  <2>1. PICK p \in {"rpcError", "timeout"} : Goto(w, p)
    BY <1>3 DEF RpcFails
  <2>. QED
    BY <1>0, <2>1, GotoState, ConfirmationGotoStep DEF Places
<1>4. ASSUME NEW s, wait' = [wait EXCEPT ![w] = s], s.kind = wait[w].kind,
             s.receipt = wait[w].receipt, s.pc \in {"block", "receipt"}
      PROVE  ConfirmationInv'
  <2>1. s \in WaitStates
    <3>1. wait \in [Waits -> WaitStates] /\ wait' \in [Waits -> WaitStates]
      BY DEF ConfirmationInv, FinalityInv, TypeOK
    <3>. QED
      BY <3>1, <1>4
  <2>. QED
    BY <1>0, <1>4, <2>1, ConfirmationGotoStep
<1>5. wait \in [Waits -> WaitStates] /\ wait[w] \in WaitStates
  BY <1>0 DEF TypeOK
<1>6. CASE ReadFinalized(w)
  <2>. DEFINE s == [wait[w] EXCEPT !.pc = "receipt", !.block = final]
  <2>1. wait' = [wait EXCEPT ![w] = s]
    BY <1>6 DEF ReadFinalized
  <2>2. s.kind = wait[w].kind /\ s.receipt = wait[w].receipt /\ s.pc = "receipt"
    BY <1>5 DEF WaitStates
  <2>. HIDE DEF s
  <2>. QED
    BY <1>4, <2>1, <2>2
<1>7. CASE wait' = [wait EXCEPT ![w].pc = FirstRead(wait[w].kind), ![w].polls = @ + 1]
  <2>. DEFINE s == [wait[w] EXCEPT !.pc = FirstRead(wait[w].kind), !.polls = @ + 1]
  <2>1. wait' = [wait EXCEPT ![w] = s]
    BY <1>7
  <2>2. s.kind = wait[w].kind /\ s.receipt = wait[w].receipt /\ s.pc \in {"block", "receipt"}
    BY <1>5 DEF WaitStates, FirstRead
  <2>. HIDE DEF s
  <2>. QED
    BY <1>4, <2>1, <2>2
<1>. QED
  BY <1>1, <1>2, <1>3, <1>6, <1>7 DEF Sleep

LEMMA ConfirmationInvNext == ConfirmationInv /\ [Next]_vars => ConfirmationInv'
<1>. SUFFICES ASSUME ConfirmationInv, [Next]_vars PROVE ConfirmationInv'
  OBVIOUS
<1>0. FinalityInv'
  BY FinalityInvNext DEF ConfirmationInv
<1>1. CASE Chain
  BY <1>1, ConfirmationChainStep
<1>2. ASSUME NEW w \in Waits, Step(w) \/ RpcFails(w) PROVE ConfirmationInv'
  BY <1>0, <1>2, ConfirmationMove, ConfirmationReadReceipt, ConfirmationLocate,
     ConfirmationAskProof DEF Step
<1>3. CASE UNCHANGED vars
  BY <1>0, <1>3 DEF vars, chainvars, ConfirmationInv, ChainInv, ReceiptsTrue,
                    ProofsMatch, InBlock
<1>. QED
  BY <1>1, <1>2, <1>3 DEF Next

\* The proof get_priority_op_confirmation returns is of the bootloader's log of the
\* execution whose receipt it read, as long as the block of that receipt stands, for
\* any number of calls, transactions and blocks.
THEOREM ConfirmationBelongsTogether == Spec => []ConfirmationIsOfItsReceipt
<1>1. ConfirmationInv => ConfirmationIsOfItsReceipt
  BY DEF ConfirmationInv, ProofsMatch, ConfirmationIsOfItsReceipt
<1>. QED
  BY <1>1, ConfirmationInvInit, ConfirmationInvNext, PTL DEF Spec


-----------------------------------------------------------------------------
(***************************************************************************)
(* A wait does not miss that its transaction is final.                     *)
(***************************************************************************)

\* The transactions of the finalized blocks stay where they are.
LEMMA DueChainStep ==
    ASSUME DueInv, Chain
    PROVE  DueIsFound'
<1>1. /\ UNCHANGED wait
      /\ \A i \in 1..final : chain'[i] = chain[i]
  BY PrefixKept DEF DueInv, ConfirmationInv, FinalityInv
<1>2. UNCHANGED due
  BY DEF Chain, Execute, Seal, Revert, Finalize
<1>3. ASSUME NEW w \in Waits, NEW i \in 1..wait[w].block, InBlock(TxOf[w], i)
      PROVE  InBlock(TxOf[w], i)'
  <2>1. wait[w] \in WaitStates /\ wait[w].block <= final /\ final \in Nat
    BY DEF DueInv, ConfirmationInv, FinalityInv, TypeOK, BlockWasFinal
  <2>2. wait[w].block \in Nat
    BY <2>1 DEF WaitStates
  <2>3. i \in 1..final
    BY <2>1, <2>2
  <2>. QED
    BY <1>1, <1>3, <2>3 DEF InBlock
<1>4. \A w \in Waits : Satisfied(w)' <=> Satisfied(w)
  BY <1>1 DEF Satisfied, Reaches, FinalizedNumber
<1>. QED
  BY <1>1, <1>2, <1>3, <1>4 DEF DueInv, DueIsFound

\* A step of call w, as far as the other calls go.
LEMMA DueOthers ==
    ASSUME DueInv, NEW w \in Waits, NEW s \in WaitStates, NEW d \in BOOLEAN,
           wait' = [wait EXCEPT ![w] = s], due' = [due EXCEPT ![w] = d],
           UNCHANGED chainvars,
           s.kind = "finalized" /\ d =>
              /\ s.pc = "receipt" => \E i \in 1..s.block : InBlock(TxOf[w], i)
              /\ s.pc = "test" =>
                    /\ s.receipt # None /\ s.receipt.hash # None
                    /\ s.block >= s.receipt.number
              /\ s.pc \notin {"sleep", "timeout"}
    PROVE  DueIsFound'
<1>1. /\ wait \in [Waits -> WaitStates] /\ due \in [Waits -> BOOLEAN]
  BY DEF DueInv, ConfirmationInv, FinalityInv, TypeOK
<1>2. \A v \in Waits : /\ wait'[v] = IF v = w THEN s ELSE wait[v]
                       /\ due'[v] = IF v = w THEN d ELSE due[v]
  BY <1>1
<1>3. \A v \in Waits \ {w} : Satisfied(v)' <=> Satisfied(v)
  BY <1>2 DEF Satisfied, Reaches, FinalizedNumber
<1>4. \A t, i : InBlock(t, i)' <=> InBlock(t, i)
  BY DEF InBlock, chainvars
<1>5. s.kind = "finalized" /\ d /\ s.pc = "test" => Satisfied(w)'
  BY <1>2 DEF Satisfied, Reaches, FinalizedNumber
<1>. QED
  BY <1>2, <1>3, <1>4, <1>5 DEF DueInv, DueIsFound

LEMMA DueReadFinalized ==
    ASSUME DueInv, NEW w \in Waits, ReadFinalized(w)
    PROVE  DueIsFound'
<1>. DEFINE s == [wait[w] EXCEPT !.pc = "receipt", !.block = final]
<1>1. wait \in [Waits -> WaitStates] /\ wait[w] \in WaitStates /\ final \in Nat
  BY DEF DueInv, ConfirmationInv, FinalityInv, TypeOK
<1>2. s \in WaitStates /\ s.pc = "receipt" /\ s.block = final
  BY <1>1 DEF WaitStates, Places
<1>3. wait' = [wait EXCEPT ![w] = s]
  BY DEF ReadFinalized
<1>4. IsFinal(TxOf[w]) \in BOOLEAN /\ due' = [due EXCEPT ![w] = IsFinal(TxOf[w])]
      /\ UNCHANGED chainvars
  BY DEF ReadFinalized, IsFinal
<1>5. IsFinal(TxOf[w]) => \E i \in 1..s.block : InBlock(TxOf[w], i)
  BY <1>2 DEF IsFinal
<1>. HIDE DEF s
<1>. QED
  BY <1>2, <1>3, <1>4, <1>5, DueOthers

LEMMA DueReadReceipt ==
    ASSUME DueInv, NEW w \in Waits, ReadReceipt(w)
    PROVE  DueIsFound'
<1>1. PICK r \in Answers :
         /\ MayAnswer(TxOf[w], r)
         /\ wait' = [wait EXCEPT ![w].pc = "test", ![w].receipt = r]
  BY DEF ReadReceipt
<1>. DEFINE s == [wait[w] EXCEPT !.pc = "test", !.receipt = r]
<1>2. /\ wait \in [Waits -> WaitStates] /\ wait[w] \in WaitStates
      /\ wait' \in [Waits -> WaitStates] /\ due[w] \in BOOLEAN
      /\ due \in [Waits -> BOOLEAN]
  <2>1. TypeOK
    BY DEF DueInv, ConfirmationInv, FinalityInv
  <2>2. TypeOK'
    BY ReadReceiptStep DEF DueInv, ConfirmationInv, FinalityInv
  <2>. QED
    BY <2>1, <2>2 DEF TypeOK
<1>3. wait' = [wait EXCEPT ![w] = s]
  BY <1>1
<1>4. s \in WaitStates
  <2>1. s = wait'[w]
    BY <1>2, <1>3
  <2>. QED
    BY <1>2, <2>1
<1>5. /\ s.pc = "test" /\ s.receipt = r
      /\ s.block = wait[w].block /\ s.kind = wait[w].kind
  BY <1>2 DEF WaitStates
<1>6. ASSUME wait[w].kind = "finalized", due[w]
      PROVE  r # None /\ r.hash # None /\ wait[w].block >= r.number
  <2>1. PICK i \in 1..wait[w].block : InBlock(TxOf[w], i)
    BY <1>6 DEF ReadReceipt, DueInv, DueIsFound
  <2>2. i \in 1..Len(chain) /\ wait[w].block \in Nat
    <3>1. wait[w].block <= final /\ final \in 0..Len(chain)
      BY DEF DueInv, ConfirmationInv, FinalityInv, TypeOK, BlockWasFinal
    <3>2. wait[w].block \in Nat /\ Len(chain) \in Nat
      BY <1>2 DEF WaitStates, DueInv, ConfirmationInv, FinalityInv, TypeOK
    <3>. QED
      BY <3>1, <3>2
  <2>3. TxOf[w] \in Txs
    BY WaitAssumption
  <2>4. r = SealedReceipt(i)
    <3>1. TxOf[w] \notin open
      BY <2>1, <2>2 DEF DueInv, ConfirmationInv, ChainInv
    <3>2. \A j \in 1..Len(chain) : InBlock(TxOf[w], j) => j = i
      BY <2>1, <2>2, <2>3 DEF DueInv, ConfirmationInv, ChainInv
    <3>. QED
      BY <1>1, <2>1, <2>2, <3>1, <3>2 DEF MayAnswer
  <2>5. chain[i].hash \in Nat
    <3>1. chain[i] \in Blocks
      BY <2>2 DEF DueInv, ConfirmationInv, FinalityInv, TypeOK
    <3>. QED
      BY <3>1 DEF Blocks
  <2>6. r.hash \in Nat /\ r.number = i /\ r # None
    <3>1. r \in Receipts
      BY <2>2, <2>4, <2>5 DEF SealedReceipt, Receipts, OutcomeIn, Outcomes
    <3>. QED
      BY <2>2, <2>4, <2>5, <3>1, WaitAssumption DEF SealedReceipt
  <2>. QED
    BY <2>2, <2>6, WaitAssumption
<1>7. due' = [due EXCEPT ![w] = due[w]] /\ UNCHANGED chainvars
  BY <1>2 DEF ReadReceipt
<1>. HIDE DEF s
<1>. QED
  BY <1>2, <1>3, <1>4, <1>5, <1>6, <1>7, DueOthers

\* A step that keeps what the call has read, and leaves "test" for "sleep" only if the
\* receipt does not satisfy it.
LEMMA DueMove ==
    ASSUME DueInv, NEW w \in Waits, NEW p \in Places, Goto(w, p),
           UNCHANGED <<chainvars, due>>,
           p \notin {"receipt", "test"},
           p = "sleep" => wait[w].pc = "test" /\ ~Satisfied(w),
           p = "timeout" => wait[w].pc = "sleep"
    PROVE  DueIsFound'
<1>1. TypeOK
  BY DEF DueInv, ConfirmationInv, FinalityInv
<1>2. PICK s \in WaitStates :
         /\ wait' = [wait EXCEPT ![w] = s]
         /\ s.pc = p /\ s.kind = wait[w].kind /\ s.receipt = wait[w].receipt
         /\ s.block = wait[w].block
  BY <1>1, GotoState
<1>3. due' = [due EXCEPT ![w] = due[w]] /\ due[w] \in BOOLEAN
  BY <1>1 DEF TypeOK
<1>4. s.kind = "finalized" /\ due[w] => s.pc \notin {"sleep", "timeout"}
  BY <1>2 DEF DueInv, DueIsFound
<1>. QED
  BY <1>2, <1>3, <1>4, DueOthers

LEMMA DueStep ==
    ASSUME DueInv, NEW w \in Waits, Step(w) \/ RpcFails(w)
    PROVE  DueIsFound'
<1>1. CASE Test(w)
  BY <1>1, DueMove DEF Test, Places
<1>2. CASE Fetch(w)
  BY <1>2, DueMove DEF Fetch, Places
<1>3. CASE RpcFails(w)
  BY <1>3, DueMove DEF RpcFails, Places
<1>4. wait \in [Waits -> WaitStates] /\ wait[w] \in WaitStates
      /\ due \in [Waits -> BOOLEAN] /\ TypeOK
  BY DEF DueInv, ConfirmationInv, FinalityInv, TypeOK
<1>5. CASE Sleep(w)
  <2>1. wait[w].pc = "sleep" /\ UNCHANGED <<chainvars, due>>
    BY <1>5 DEF Sleep
  <2>2. CASE Goto(w, "timeout")
    BY <2>1, <2>2, DueMove DEF Places
  <2>3. CASE /\ wait[w].polls + 1 < MaxPolls
             /\ wait' = [wait EXCEPT ![w].pc = FirstRead(wait[w].kind), ![w].polls = @ + 1]
    <3>. DEFINE s == [wait[w] EXCEPT !.pc = FirstRead(wait[w].kind), !.polls = @ + 1]
    <3>1. wait' = [wait EXCEPT ![w] = s]
      BY <2>3
    <3>2. s \in WaitStates
      <4>1. TypeOK'
        BY <1>5, SleepStep DEF DueInv, ConfirmationInv, FinalityInv
      <4>2. s = wait'[w]
        BY <1>4, <3>1
      <4>. QED
        BY <4>1, <4>2 DEF TypeOK
    <3>3. s.kind = wait[w].kind
      BY <1>4 DEF WaitStates
    <3>4. due' = [due EXCEPT ![w] = due[w]] /\ due[w] \in BOOLEAN
      BY <1>4, <2>1
    <3>5. ~(wait[w].kind = "finalized" /\ due[w])
      BY <2>1 DEF DueInv, DueIsFound
    <3>. HIDE DEF s
    <3>. QED
      BY <2>1, <3>1, <3>2, <3>3, <3>4, <3>5, DueOthers
  <2>. QED
    BY <1>5, <2>2, <2>3 DEF Sleep
<1>6. CASE Locate(w) \/ AskProof(w)
  <2>1. UNCHANGED <<chainvars, due>> /\ wait[w].kind # "finalized"
    BY <1>6 DEF Locate, QueryKinds, AskProof, DueInv, ConfirmationInv, FinalityInv,
                SettledReceipts
  <2>2. PICK s : wait' = [wait EXCEPT ![w] = s] /\ s.kind = wait[w].kind
    <3>1. CASE \E p \in Places : Goto(w, p)
      BY <1>4, <3>1, GotoState
    <3>2. CASE \E n : wait' = [wait EXCEPT ![w].pc = "proof", ![w].log = n]
      <4>1. PICK n : wait' = [wait EXCEPT ![w] = [wait[w] EXCEPT !.pc = "proof", !.log = n]]
        BY <3>2
      <4>2. [wait[w] EXCEPT !.pc = "proof", !.log = n].kind = wait[w].kind
        BY <1>4 DEF WaitStates
      <4>. QED
        BY <4>1, <4>2
    <3>3. CASE \E q : wait' = [wait EXCEPT ![w].pc = "returned", ![w].proof = q]
      <4>1. PICK q : wait' = [wait EXCEPT ![w] = [wait[w] EXCEPT !.pc = "returned", !.proof = q]]
        BY <3>3
      <4>2. [wait[w] EXCEPT !.pc = "returned", !.proof = q].kind = wait[w].kind
        BY <1>4 DEF WaitStates
      <4>. QED
        BY <4>1, <4>2
    <3>. QED
      BY <1>6, <3>1, <3>2, <3>3 DEF Locate, AskProof, Places
  <2>3. s \in WaitStates
    <3>1. TypeOK'
      BY <1>6, LocateStep, AskProofStep DEF DueInv, ConfirmationInv, FinalityInv
    <3>. QED
      BY <1>4, <2>2, <3>1 DEF TypeOK
  <2>4. due' = [due EXCEPT ![w] = due[w]] /\ due[w] \in BOOLEAN
    BY <1>4, <2>1
  <2>. QED
    BY <2>1, <2>2, <2>3, <2>4, DueOthers
<1>. QED
  BY <1>1, <1>2, <1>3, <1>5, <1>6, DueReadFinalized, DueReadReceipt DEF Step

LEMMA DueInvInit == Init => DueInv
<1>. SUFFICES ASSUME Init PROVE DueInv
  OBVIOUS
<1>1. \A w \in Waits : due[w] = FALSE
  BY DEF Init
<1>. QED
  BY <1>1, ConfirmationInvInit DEF DueInv, DueIsFound

LEMMA DueInvNext == DueInv /\ [Next]_vars => DueInv'
<1>. SUFFICES ASSUME DueInv, [Next]_vars PROVE DueInv'
  OBVIOUS
<1>1. ConfirmationInv'
  BY ConfirmationInvNext DEF DueInv
<1>2. CASE UNCHANGED vars
  BY <1>1, <1>2 DEF vars, chainvars, DueInv, DueIsFound, InBlock, Satisfied, Reaches,
                    FinalizedNumber
<1>. QED
  BY <1>1, <1>2, DueChainStep, DueStep DEF Next, DueInv

\* wait_finalized does not time out on a transaction that was final when its last poll
\* began, for any number of waits, transactions, blocks and polls.
THEOREM NoFinalityMissed == Spec => []NoMissedFinality
<1>1. DueInv => NoMissedFinality
  BY DEF DueInv, DueIsFound, NoMissedFinality
<1>. QED
  BY <1>1, DueInvInit, DueInvNext, PTL DEF Spec


=============================================================================
