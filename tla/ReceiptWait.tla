----------------------------- MODULE ReceiptWait -----------------------------
(***************************************************************************)
(* What is read of an L2 transaction while the chain moves: the polling    *)
(* waits of the ZkSync module (wait_for_transaction_receipt,               *)
(* wait_finalized, get_l2_transaction_from_priority_op) and the queries of *)
(* a priority operation (get_priority_op_confirmation and                  *)
(* claim_failed_deposit).  Each RPC is an action of its own; between any   *)
(* two of them the L2 chain executes transactions, seals blocks, reverts   *)
(* blocks that are not final and finalizes others.                         *)
(***************************************************************************)
EXTENDS Integers, Sequences

CONSTANTS
    None,       \* Python's None
    Waits,      \* calls of the methods
    Txs,        \* L2 transactions
    TxOf,       \* the transaction each call waits for
    KindsOf,    \* the methods each call may be of
    FailedIn,   \* the hashes of the blocks in which a priority operation fails
    MaxBlocks,  \* bound: the blocks the chain ever seals
    MaxPolls    \* bound: the polls that fit in a timeout

WaitKinds == {"receipt", "finalized", "priorityOp"}
QueryKinds == {"confirmation", "claim"}

\* A block: the hash is the number of blocks sealed before it, so no two blocks
\* share one.
Blocks == [hash: Nat, txs: SUBSET Txs]

\* A receipt; the hash is absent while the block is still open.  The outcome tells
\* the logs it carries.
Outcomes == {"success", "failure"}
Receipts == [hash: Nat \cup {None}, number: Nat, outcome: Outcomes]

ASSUME WaitAssumption ==
    /\ None \notin Int /\ None \notin Receipts
    /\ TxOf \in [Waits -> Txs]
    /\ KindsOf \in [Waits -> SUBSET (WaitKinds \cup QueryKinds)]
    /\ MaxBlocks \in Nat
    /\ MaxPolls \in Nat \ {0}

Places == {"block", "receipt", "test", "sleep", "fetch", "proof",
           "returned", "timeout", "rpcError", "notFound", "refused", "raised"}
Over == {"returned", "timeout", "rpcError", "notFound", "refused", "raised"}

Senders == {"contract", "bootloader"}

\* A proof is of one log of one execution.
Proofs == [hash: Nat, sender: Senders]

\* The local state of a call: its method and place, the finalized number and the receipt it
\* has read, the polls it has made, the log it asks a proof of and the proof.
WaitStates ==
    [kind: WaitKinds \cup QueryKinds, pc: Places, block: Nat, receipt: Receipts \cup {None}, polls: 0..(MaxPolls - 1),
     log: Nat, proof: Proofs \cup {None}]

VARIABLES
    chain,      \* the sealed L2 blocks after genesis
    open,       \* the transactions of the block not yet sealed
    sealed,     \* number of blocks ever sealed
    final,      \* number of the finalized block
    wait,       \* the local state of each call
    due         \* was the transaction final when the last poll began? (history)

chainvars == <<chain, open, sealed, final>>
vars == <<chainvars, wait, due>>

-----------------------------------------------------------------------------
(***************************************************************************)
(* The L2 chain, not part of the repository.                               *)
(***************************************************************************)

InBlock(t, i) == t \in chain[i].txs
IsFinal(t) == \E i \in 1..final : InBlock(t, i)

Execute(t) ==
    /\ t \notin open
    /\ \A i \in 1..Len(chain) : ~InBlock(t, i)
    /\ open' = open \cup {t}
    /\ UNCHANGED <<chain, sealed, final, wait, due>>

Seal ==
    /\ sealed < MaxBlocks
    /\ chain' = Append(chain, [hash |-> sealed, txs |-> open])
    /\ open' = {}
    /\ sealed' = sealed + 1
    /\ UNCHANGED <<final, wait, due>>

\* The blocks after number n are taken back.
Revert(n) ==
    /\ n < Len(chain)
    /\ chain' = SubSeq(chain, 1, n)
    /\ open' = {}
    /\ UNCHANGED <<sealed, final, wait, due>>

Finalize(n) ==
    /\ n <= Len(chain)
    /\ final' = n
    /\ UNCHANGED <<chain, open, sealed, wait, due>>

\* What a priority operation comes to in the block with hash h.
OutcomeIn(h) == IF h \in FailedIn THEN "failure" ELSE "success"

\* The receipts of the open block, which will have the next hash, and of block i.
OpenReceipt ==
    [hash |-> None, number |-> Len(chain) + 1, outcome |-> OutcomeIn(sealed)]
SealedReceipt(i) ==
    [hash |-> chain[i].hash, number |-> i, outcome |-> OutcomeIn(chain[i].hash)]

\* The receipt that the node has for t: none, one of the open block, or one of a
\* sealed block.
MayAnswer(t, r) ==
    \/ r = None /\ t \notin open /\ \A i \in 1..Len(chain) : ~InBlock(t, i)
    \/ t \in open /\ r = OpenReceipt
    \/ \E i \in 1..Len(chain) : InBlock(t, i) /\ r = SealedReceipt(i)

Answers == {None, OpenReceipt} \cup {SealedReceipt(i) : i \in 1..Len(chain)}

\* The l2_to_l1_logs of a priority operation: the messages of the contract it
\* calls, if it succeeds, and the bootloader's log of the outcome, a word.
LogsOf(outcome) ==
    IF outcome = "failure"
    THEN << [sender |-> "bootloader", value |-> "0x00"] >>
    ELSE << [sender |-> "contract", value |-> "0x2a"],
            [sender |-> "bootloader", value |-> "0x01"] >>

-----------------------------------------------------------------------------
(***************************************************************************)
(* The code.                                                               *)
(***************************************************************************)

FirstRead(kind) == IF kind = "finalized" THEN "block" ELSE "receipt"

Goto(w, place) == wait' = [wait EXCEPT ![w].pc = place]

\* wait_finalized asks for the finalized block first.
ReadFinalized(w) ==
    /\ wait[w].pc = "block"
    /\ wait' = [wait EXCEPT ![w].pc = "receipt", ![w].block = final]
    /\ due' = [due EXCEPT ![w] = IsFinal(TxOf[w])]
    /\ UNCHANGED chainvars

\* Then for the receipt; TransactionNotFound stands for None.
ReadReceipt(w) ==
    /\ wait[w].pc = "receipt"
    /\ \E r \in Answers :
          /\ MayAnswer(TxOf[w], r)
          /\ wait' = [wait EXCEPT ![w].pc = "test", ![w].receipt = r]
    /\ UNCHANGED <<chainvars, due>>

\* A bug: the finalized block is asked for after the receipt.
FinalizedNumberAfter(w) == final

\* The number the receipt's block is compared with.
FinalizedNumber(w) == wait[w].block

\* A bug: the finalized block itself does not count.
ReachesStrictly(n, m) == n > m

Reaches(n, m) == n >= m

Satisfied(w) ==
    LET r == wait[w].receipt
    IN  /\ r # None
        /\ r.hash # None
        /\ wait[w].kind = "finalized" => Reaches(FinalizedNumber(w), r.number)

Test(w) ==
    /\ wait[w].pc = "test"
    /\ wait[w].kind \in WaitKinds
    /\ Goto(w, IF ~Satisfied(w) THEN "sleep"
               ELSE IF wait[w].kind = "priorityOp" THEN "fetch" ELSE "returned")
    /\ UNCHANGED <<chainvars, due>>

\* A bug: the sleep never looks at the time.
ExpiresNever(w) == FALSE

Expires(w) == TRUE

\* The sleep between two polls raises once the timeout has passed: at any poll,
\* the last that fits at the latest.
Sleep(w) ==
    /\ wait[w].pc = "sleep"
    /\ \/ /\ wait[w].polls + 1 < MaxPolls
          /\ wait' = [wait EXCEPT ![w].pc = FirstRead(wait[w].kind), ![w].polls = @ + 1]
       \/ Expires(w) /\ Goto(w, "timeout")
    /\ UNCHANGED <<chainvars, due>>

\* get_l2_transaction_from_priority_op asks for the transaction once the receipt
\* is there, and raises if it is gone.
Fetch(w) ==
    /\ wait[w].pc = "fetch"
    /\ Goto(w, IF MayAnswer(TxOf[w], None) THEN "notFound" ELSE "returned")
    /\ UNCHANGED <<chainvars, due>>

\* A bug: the position of the bootloader's log among the bootloader's logs.
ResultLogFiltered(logs) == 1

\* The position of the bootloader's log among all of the receipt.
ResultLog(logs) == CHOOSE i \in DOMAIN logs : logs[i].sender = "bootloader"

\* A member of the Enum ZkSyncAddresses, which is equal to no string.
EthAddress == "ZkSyncAddresses.ETH_ADDRESS"

\* claim_failed_deposit refuses a deposit whose result is not the zero address.
Refused(logs) == logs[ResultLog(logs)].value # EthAddress

\* The two queries look for the bootloader's log in the receipt, and raise when
\* there is no receipt.  What claim_failed_deposit does not refuse would be fetched
\* next, by a formatter that raises: no deposit gets that far.
Locate(w) ==
    /\ wait[w].pc = "test"
    /\ wait[w].kind \in QueryKinds
    /\ LET r == wait[w].receipt
           logs == LogsOf(r.outcome)
       IN  IF r = None THEN Goto(w, "raised")
           ELSE IF wait[w].kind = "claim"
           THEN Goto(w, IF Refused(logs) THEN "refused" ELSE "raised")
           ELSE wait' = [wait EXCEPT ![w].pc = "proof", ![w].log = ResultLog(logs)]
    /\ UNCHANGED <<chainvars, due>>

\* get_priority_op_confirmation asks for the proof of the log at that position, in
\* the block that has the transaction by now.  Without one the formatter raises.
AskProof(w) ==
    /\ wait[w].pc = "proof"
    /\ \/ \E i \in 1..Len(chain) :
             LET logs == LogsOf(OutcomeIn(chain[i].hash))
             IN  /\ InBlock(TxOf[w], i)
                 /\ wait[w].log \in DOMAIN logs
                 /\ wait' = [wait EXCEPT
                        ![w].pc = "returned",
                        ![w].proof = [hash |-> chain[i].hash,
                                      sender |-> logs[wait[w].log].sender]]
       \/ /\ \A i \in 1..Len(chain) :
                InBlock(TxOf[w], i)
                => wait[w].log \notin DOMAIN LogsOf(OutcomeIn(chain[i].hash))
          /\ Goto(w, "raised")
    /\ UNCHANGED <<chainvars, due>>

\* Any other error of an RPC leaves the method.
RpcFails(w) ==
    /\ wait[w].pc \in {"block", "receipt", "fetch", "proof"}
    /\ Goto(w, "rpcError")
    /\ UNCHANGED <<chainvars, due>>

-----------------------------------------------------------------------------
Init ==
    /\ chain = << >>
    /\ open = {}
    /\ sealed = 0
    /\ final = 0
    /\ \E kind \in [Waits -> WaitKinds \cup QueryKinds] :
          /\ \A w \in Waits : kind[w] \in KindsOf[w]
          /\ wait = [w \in Waits |->
                        [kind |-> kind[w], pc |-> FirstRead(kind[w]), block |-> 0,
                         receipt |-> None, polls |-> 0, log |-> 0, proof |-> None]]
    /\ due = [w \in Waits |-> FALSE]

Chain ==
    \/ \E t \in Txs : Execute(t)
    \/ Seal
    \/ \E n \in final..Len(chain) : Revert(n)
    \/ \E n \in (final + 1)..Len(chain) : Finalize(n)

Step(w) ==
    \/ ReadFinalized(w) \/ ReadReceipt(w) \/ Test(w) \/ Sleep(w) \/ Fetch(w)
    \/ Locate(w) \/ AskProof(w)

Next == Chain \/ \E w \in Waits : Step(w) \/ RpcFails(w)

Spec == Init /\ [][Next]_vars

\* A wait keeps polling; the chain need not move.
FairSpec == Spec /\ \A w \in Waits : WF_vars(Step(w))

-----------------------------------------------------------------------------
TypeOK ==
    /\ chain \in Seq(Blocks)
    /\ open \in SUBSET Txs
    /\ sealed \in Nat
    /\ final \in 0..Len(chain)
    /\ wait \in [Waits -> WaitStates]
    /\ due \in [Waits -> BOOLEAN]

\* The receipt r is what the node answers for t for ever: its block is final.
Settled(t, r) ==
    /\ r.number \in 1..final
    /\ InBlock(t, r.number)
    /\ chain[r.number].hash = r.hash

\* What wait_finalized returns can not be taken back: the receipt it returns is
\* that of a finalized block, although the receipt and the finalized number come
\* from two RPCs and blocks may be reverted between them.  The finalized number
\* has to be the older of the two.
FinalizedReceiptStays ==
    \A w \in Waits :
        wait[w].kind = "finalized" /\ wait[w].pc = "returned"
        => Settled(TxOf[w], wait[w].receipt)

\* wait_finalized does not time out on a transaction that was final when its
\* last poll began.
NoMissedFinality ==
    \A w \in Waits :
        wait[w].kind = "finalized" /\ wait[w].pc = "timeout" => ~due[w]

\* What get_priority_op_confirmation returns belongs together: the proof is of the
\* bootloader's log of the execution whose receipt gave the batch, unless the block
\* of that receipt has been reverted since, or was not sealed when it was read.
ConfirmationIsOfItsReceipt ==
    \A w \in Waits :
        LET r == wait[w].receipt
        IN  /\ wait[w].kind = "confirmation"
            /\ wait[w].pc = "returned"
            /\ r.hash # None
            /\ \E i \in 1..Len(chain) : chain[i].hash = r.hash
            => wait[w].proof = [hash |-> r.hash, sender |-> "bootloader"]

\* claim_failed_deposit does not take a deposit that failed for a successful one.
FailedDepositsClaimed ==
    \A w \in Waits : wait[w].pc = "refused" => wait[w].receipt.outcome # "failure"

\* Every wait returns or raises, even if the chain stops.
WaitsEnd == \A w \in Waits : <>(wait[w].pc \in Over)

-----------------------------------------------------------------------------
(***************************************************************************)
(* The inductive invariants of the proofs.                                 *)
(***************************************************************************)

\* The finalized number a wait has read is not ahead of the chain's.
BlockWasFinal == \A w \in Waits : wait[w].block <= final

\* A receipt at or below the finalized number the wait has read is settled, and
\* one a "finalized" wait returned is at or below it.
SettledReceipts ==
    \A w \in Waits :
        wait[w].kind = "finalized" =>
            /\ /\ wait[w].pc \in {"test", "sleep", "returned"}
               /\ wait[w].receipt # None
               /\ wait[w].receipt.hash # None
               /\ wait[w].receipt.number <= wait[w].block
               => Settled(TxOf[w], wait[w].receipt)
            /\ wait[w].pc \notin {"fetch", "proof"}
            /\ wait[w].pc = "returned" =>
                  /\ wait[w].receipt # None
                  /\ wait[w].receipt.hash # None
                  /\ wait[w].receipt.number <= wait[w].block

FinalityInv == TypeOK /\ BlockWasFinal /\ SettledReceipts

\* A hash is never given twice, and a transaction is in one block at most.
ChainInv ==
    /\ \A i \in 1..Len(chain) : chain[i].hash < sealed
    /\ \A i, j \in 1..Len(chain) : chain[i].hash = chain[j].hash => i = j
    /\ \A t \in Txs : \A i, j \in 1..Len(chain) : InBlock(t, i) /\ InBlock(t, j) => i = j
    /\ \A t \in open : \A i \in 1..Len(chain) : ~InBlock(t, i)

\* A block is the one of a receipt that was read only if it has the transaction.
ReceiptsTrue ==
    \A w \in Waits :
        LET r == wait[w].receipt
        IN  r # None /\ r.hash # None =>
                /\ r.hash < sealed
                /\ r.outcome = OutcomeIn(r.hash)
                /\ \A i \in 1..Len(chain) : chain[i].hash = r.hash => InBlock(TxOf[w], i)

\* The proof asked for is of the log found in the receipt, and the one returned is
\* of the receipt's block as long as there is such a block.
ProofsMatch ==
    \A w \in Waits :
        LET r == wait[w].receipt
        IN  /\ wait[w].pc = "fetch" => wait[w].kind \in WaitKinds
            /\ wait[w].pc = "proof" => r # None /\ wait[w].log = ResultLog(LogsOf(r.outcome))
            /\ wait[w].kind = "confirmation" /\ wait[w].pc = "returned" =>
                  /\ r # None
                  /\ r.hash # None =>
                        \/ wait[w].proof = [hash |-> r.hash, sender |-> "bootloader"]
                        \/ \A i \in 1..Len(chain) : chain[i].hash # r.hash

ConfirmationInv == FinalityInv /\ ChainInv /\ ReceiptsTrue /\ ProofsMatch

\* A wait that began a poll when its transaction was final finds its receipt.
DueIsFound ==
    \A w \in Waits :
        wait[w].kind = "finalized" /\ due[w] =>
            /\ wait[w].pc = "receipt" => \E i \in 1..wait[w].block : InBlock(TxOf[w], i)
            /\ wait[w].pc = "test" => Satisfied(w)
            /\ wait[w].pc \notin {"sleep", "timeout"}

DueInv == ConfirmationInv /\ DueIsFound

=============================================================================
