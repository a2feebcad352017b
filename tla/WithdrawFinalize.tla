--------------------------- MODULE WithdrawFinalize ---------------------------
(***************************************************************************)
(* WalletL1's finalize_withdrawal and is_withdrawal_finalized for the      *)
(* withdrawals of one L2 transaction, as processes that share one L1       *)
(* account.  An action is the code between two RPC answers; meanwhile the  *)
(* transaction's batch advances and L1 mines.                              *)
(***************************************************************************)
EXTENDS Integers, Sequences, FiniteSets

CONSTANTS
    None,           \* Python's None
    Calls,          \* calls of the two methods
    OpOf,           \* the method of each call
    IndexOf,        \* the index argument of each call, from 0
    OutputSeqs,     \* what the L2 transaction may have put out
    ProbeMayFail    \* can the RPC of is_l2_bridge_legacy fail?

Methods == {"finalize", "check"}

\* A withdrawal is a message, named for the contract that sends it: the base token
\* (L2BaseToken), an L2 shared bridge or a legacy L2 bridge.  Any other contract may
\* send a message too ("plain").  The L1Messenger makes of each message a receipt log
\* and an L2-to-L1 log, which are its own whoever sent the message.  Other contracts
\* make receipt logs ("event") and L2-to-L1 logs ("log") of their own.
Withdrawals == {"base", "shared", "legacy"}
Messages == Withdrawals \cup {"plain"}
OutputKinds == Messages \cup {"event", "log"}
Bridges == {"shared", "legacy"}

ASSUME FinalizeAssumption ==
    /\ None \notin Int
    /\ OpOf \in [Calls -> Methods]
    /\ IndexOf \in [Calls -> Nat]
    /\ OutputSeqs \subseteq Seq(OutputKinds)
    /\ ProbeMayFail \in BOOLEAN

Phases == <<"none", "mined", "batched", "executed">>
Places == {"receipt", "proof", "nonce", "bridge", "probe", "l1bridge", "build", "send", "ask"}
Ends == {"running", "sent", "true", "false", "notFound", "noLog", "noBatch", "noProof",
         "noBridge", "reverts", "nonceTooLow", "underpriced", "rpcError"}

\* The local state of a call; "log" and "proof" are positions in outputs, "legacy"
\* is the answer of is_l2_bridge_legacy.
CallStates ==
    [pc: Places, end: Ends, log: Nat, proof: Nat, nonce: Nat,
     legacy: BOOLEAN, bridge: Bridges \cup {None}]

L1Txs == [status: {"none", "built", "rejected", "pending", "dropped", "ok", "reverted"},
          nonce: Nat]

VARIABLES
    outputs,    \* the outputs of the L2 transaction, in order
    phase,      \* how far its batch is: an index of Phases
    call,       \* the local state of each call
    tx,         \* the L1 transaction of each call
    count,      \* the account's confirmed L1 nonce
    finalized,  \* the withdrawals paid out, by bridge (positions in outputs)
    before      \* what was paid out when the call began (history)

chainvars == <<phase, count, finalized>>
vars == <<outputs, phase, call, tx, count, finalized, before>>

InPhase(p) == \E i \in 1..phase : Phases[i] = p

-----------------------------------------------------------------------------
(***************************************************************************)
(* Finding the withdrawal in the receipt.                                  *)
(***************************************************************************)

\* The positions in a set, in ascending order: what filtering a list keeps of it.
InOrder(K) ==
    CHOOSE s \in [1..Cardinality(K) -> K] : \A i, j \in DOMAIN s : i < j => s[i] < s[j]

IsMessage(j) == outputs[j] \in Messages

\* The transaction's l2ToL1Logs.
L2ToL1Logs == InOrder({j \in 1..Len(outputs) : outputs[j] # "event"})

\* _get_withdraw_log: the logs in the receipt, which has no "log", of the L1Messenger.
WithdrawLogs == InOrder({j \in 1..Len(outputs) : outputs[j] # "log" /\ IsMessage(j)})

\* A bug: the index counts every L2-to-L1 log.
WithdrawL2ToL1LogsUnfiltered == [k \in 1..Len(L2ToL1Logs) |-> k]

\* _get_withdraw_l2_to_l1_log: the indices in l2ToL1Logs of the L1Messenger's.
WithdrawL2ToL1Logs == InOrder({k \in 1..Len(L2ToL1Logs) : IsMessage(L2ToL1Logs[k])})

\* The withdrawal the program asks for: the one with "index" withdrawals before it.
IsWithdrawal(c, j) ==
    /\ outputs[j] \in Withdrawals
    /\ Cardinality({i \in 1..(j - 1) : outputs[i] \in Withdrawals}) = IndexOf[c]

\* The message the code counts its way to: the one with "index" messages before it.
Counted(c, j) ==
    /\ IsMessage(j)
    /\ Cardinality({i \in 1..(j - 1) : IsMessage(i)}) = IndexOf[c]

\* A message that is no withdrawal stands at j or before it.
PlainUpTo(j) == \E i \in 1..j : outputs[i] = "plain"

-----------------------------------------------------------------------------
(***************************************************************************)
(* The L1 contracts, not part of the repository.                           *)
(***************************************************************************)

\* The L1 bridge that pays the withdrawal at position j; none pays a plain message.
PayerOf(j) == CASE outputs[j] = "legacy" -> "legacy"
                [] outputs[j] = "plain"  -> None
                [] OTHER                 -> "shared"

\* finalizeWithdrawal succeeds in the current state of L1.
Accepts(c) ==
    /\ InPhase("executed")
    /\ call[c].log = call[c].proof
    /\ call[c].bridge \in Bridges
    /\ call[c].bridge = PayerOf(call[c].log)
    /\ call[c].log \notin finalized

-----------------------------------------------------------------------------
(***************************************************************************)
(* The code.                                                               *)
(***************************************************************************)

At(c, place) == call[c].end = "running" /\ call[c].pc = place
Goto(c, place) == call' = [call EXCEPT ![c].pc = place]
End(c, why) == call' = [call EXCEPT ![c].end = why]

\* The receipt and the message's log in it; l1BatchTxIndex is absent until the
\* transaction is in a batch.
ReadReceipt(c) ==
    /\ At(c, "receipt")
    /\ before' = [before EXCEPT ![c] = finalized]
    /\ IF ~InPhase("mined") THEN End(c, "notFound")
       ELSE IF IndexOf[c] >= Len(WithdrawLogs) THEN End(c, "noLog")
       ELSE IF ~InPhase("batched") THEN End(c, "noBatch")
       ELSE call' = [call EXCEPT ![c].pc = "proof", ![c].log = WithdrawLogs[IndexOf[c] + 1]]
    /\ UNCHANGED <<outputs, chainvars, tx>>

\* A bug: the check leaves the index at its default.
ProofIndexDefault(c) == IF OpOf[c] = "check" THEN 0 ELSE IndexOf[c]

\* The index passed on to _get_withdraw_l2_to_l1_log.
ProofIndex(c) == IndexOf[c]

\* zks_get_log_proof: the node proves a log once its batch is executed on L1.
ReadProof(c) ==
    /\ At(c, "proof")
    /\ IF InPhase("executed")
       THEN call' = [call EXCEPT
                        ![c].pc = IF OpOf[c] = "finalize" THEN "nonce" ELSE "bridge",
                        ![c].proof = L2ToL1Logs[WithdrawL2ToL1Logs[ProofIndex(c) + 1]]]
       ELSE End(c, "noProof")
    /\ UNCHANGED <<outputs, chainvars, tx, before>>

ReadNonce(c) ==
    /\ At(c, "nonce")
    /\ call' = [call EXCEPT ![c].pc = "bridge", ![c].nonce = count]
    /\ UNCHANGED <<outputs, chainvars, tx, before>>

\* The base token's withdrawals are the shared bridge's; is_withdrawal_finalized
\* takes any other sender for an L2 shared bridge.
ChooseBridge(c) ==
    LET next == IF OpOf[c] = "finalize" THEN "build" ELSE "ask"
    IN  /\ At(c, "bridge")
        /\ IF outputs[call[c].log] = "base"
           THEN call' = [call EXCEPT ![c].pc = next, ![c].bridge = "shared"]
           ELSE Goto(c, IF OpOf[c] = "finalize" THEN "probe" ELSE "l1bridge")
        /\ UNCHANGED <<outputs, chainvars, tx, before>>

\* is_l2_bridge_legacy: legacy is what does not answer l1SharedBridge(), for
\* whatever reason; a sender that is no bridge may have such a function or not.
LegacyAnswers(c) ==
    {outputs[call[c].log] = "legacy"} \cup
    (IF ProbeMayFail \/ outputs[call[c].log] = "plain" THEN {TRUE} ELSE {})

Probe(c) ==
    /\ At(c, "probe")
    /\ \E answer \in LegacyAnswers(c) :
          call' = [call EXCEPT ![c].pc = "l1bridge", ![c].legacy = answer]
    /\ UNCHANGED <<outputs, chainvars, tx, before>>

\* The L1 counterpart of the sender: l1Bridge() of a legacy bridge, l1SharedBridge()
\* of another.  A legacy bridge has no l1SharedBridge(); what a shared bridge
\* answers to l1Bridge() is the legacy L1 bridge, if it has one.  A sender that is
\* no bridge answers either, or neither.
ReadL1Bridge(c) ==
    LET next == IF OpOf[c] = "finalize" THEN "build" ELSE "ask"
        isLegacy == outputs[call[c].log] = "legacy"
    IN  /\ At(c, "l1bridge")
        /\ \/ /\ isLegacy => call[c].legacy
              /\ call' = [call EXCEPT ![c].pc = next,
                                      ![c].bridge = IF call[c].legacy THEN "legacy" ELSE "shared"]
           \/ /\ isLegacy # call[c].legacy \/ outputs[call[c].log] = "plain"
              /\ End(c, "noBridge")
        /\ UNCHANGED <<outputs, chainvars, tx, before>>

Simulates(c) == Accepts(c)

\* A bug: the transaction is built with a gas limit of its own, without a simulation.
BuildUnsimulated(c) ==
    /\ At(c, "build")
    /\ tx' = [tx EXCEPT ![c] = [status |-> "built", nonce |-> call[c].nonce]]
    /\ Goto(c, "send")
    /\ UNCHANGED <<outputs, chainvars, before>>

\* build_transaction estimates the gas of finalizeWithdrawal.
Build(c) ==
    /\ At(c, "build")
    /\ IF Simulates(c)
       THEN /\ tx' = [tx EXCEPT ![c] = [status |-> "built", nonce |-> call[c].nonce]]
            /\ Goto(c, "send")
       ELSE End(c, "reverts") /\ UNCHANGED tx
    /\ UNCHANGED <<outputs, chainvars, before>>

Rivals(c) == {d \in Calls : tx[d].status = "pending" /\ tx[d].nonce = tx[c].nonce}

\* send_raw_transaction: a second transaction of a nonce replaces the first or is
\* refused, as its fees decide.
SendRejected(c) ==
    /\ At(c, "send")
    /\ tx[c].nonce < count \/ Rivals(c) # {}
    /\ tx' = [tx EXCEPT ![c].status = "rejected"]
    /\ End(c, IF tx[c].nonce < count THEN "nonceTooLow" ELSE "underpriced")
    /\ UNCHANGED <<outputs, chainvars, before>>

SendAccepted(c) ==
    /\ At(c, "send")
    /\ tx[c].nonce >= count
    /\ tx' = [d \in Calls |->
                 IF d = c THEN [tx[c] EXCEPT !.status = "pending"]
                 ELSE IF d \in Rivals(c) THEN [tx[d] EXCEPT !.status = "dropped"] ELSE tx[d]]
    /\ \E why \in {"sent", "rpcError"} : End(c, why)
    /\ UNCHANGED <<outputs, chainvars, before>>

\* isWithdrawalFinalized of the bridge.
Ask(c) ==
    /\ At(c, "ask")
    /\ End(c, IF call[c].bridge = PayerOf(call[c].proof) /\ call[c].proof \in finalized
              THEN "true" ELSE "false")
    /\ UNCHANGED <<outputs, chainvars, tx, before>>

RpcFails(c) ==
    /\ call[c].end = "running"
    /\ End(c, "rpcError")
    /\ UNCHANGED <<outputs, chainvars, tx, before>>

-----------------------------------------------------------------------------
\* The batch of the L2 transaction advances.
AdvanceBatch ==
    /\ phase < Len(Phases)
    /\ phase' = phase + 1
    /\ UNCHANGED <<outputs, call, tx, count, finalized, before>>

\* L1 mines the transaction of call c.
Mine(c) ==
    /\ tx[c].status = "pending"
    /\ tx[c].nonce = count
    /\ count' = count + 1
    /\ tx' = [tx EXCEPT ![c].status = IF Accepts(c) THEN "ok" ELSE "reverted"]
    /\ finalized' = finalized \cup (IF Accepts(c) THEN {call[c].log} ELSE {})
    /\ UNCHANGED <<outputs, phase, call, before>>

NewCall == [pc |-> "receipt", end |-> "running", log |-> 0, proof |-> 0, nonce |-> 0,
            legacy |-> FALSE, bridge |-> None]

Init ==
    /\ outputs \in OutputSeqs
    /\ phase = 1
    /\ call = [c \in Calls |-> NewCall]
    /\ tx = [c \in Calls |-> [status |-> "none", nonce |-> 0]]
    /\ count = 0
    /\ finalized = {}
    /\ before = [c \in Calls |-> {}]

Step(c) ==
    \/ ReadReceipt(c)
    \/ ReadProof(c)
    \/ ReadNonce(c)
    \/ ChooseBridge(c)
    \/ Probe(c)
    \/ ReadL1Bridge(c)
    \/ Build(c)
    \/ SendRejected(c)
    \/ SendAccepted(c)
    \/ Ask(c)

Next == AdvanceBatch \/ \E c \in Calls : Step(c) \/ RpcFails(c) \/ Mine(c)

Spec == Init /\ [][Next]_vars

-----------------------------------------------------------------------------
TypeOK ==
    /\ outputs \in OutputSeqs
    /\ phase \in 1..Len(Phases)
    /\ call \in [Calls -> CallStates]
    /\ tx \in [Calls -> L1Txs]
    /\ count \in Nat
    /\ finalized \in SUBSET Nat
    /\ before \in [Calls -> SUBSET Nat]

\* The receipt's log and the Merkle proof come from two lists that are filtered
\* apart; with the same index both are of one message.  It is the withdrawal the
\* program asked for exactly when no contract has sent another message before it:
\* _get_withdraw_log counts those too.
ProvesAskedWithdrawal ==
    \A c \in Calls :
        call[c].proof # 0 =>
            /\ call[c].log = call[c].proof
            /\ IsWithdrawal(c, call[c].log) <=> ~PlainUpTo(call[c].log)

\* "You may pass an index of the withdrawal you want to finalize": the log that is
\* proven is of the withdrawal with that index.  The code breaks it.
FindsIndexedWithdrawal ==
    \A c \in Calls : call[c].proof # 0 => IsWithdrawal(c, call[c].proof)

\* A finalization that L1 includes and reverts is one that another call has
\* already paid out: build_transaction's simulation has excluded everything else.
RevertsOnlyWhenPaid ==
    \A c \in Calls : tx[c].status = "reverted" => call[c].log \in finalized

\* is_withdrawal_finalized answers from a state of L1 not older than the call:
\* TRUE only for a withdrawal that is paid, FALSE only for one that was not yet
\* when the call began, as long as the withdrawal asked for comes before any
\* message that is none.
AnswerIsFresh ==
    \A c \in Calls : \A j \in 1..Len(outputs) :
        IsWithdrawal(c, j) /\ ~PlainUpTo(j) =>
            /\ call[c].end = "true" => j \in finalized
            /\ call[c].end = "false" => j \notin before[c]

-----------------------------------------------------------------------------
(***************************************************************************)
(* The inductive invariant of the proofs.                                  *)
(***************************************************************************)

\* A call whose transaction is built changes nothing any more that L1 looks at,
\* and what L1 looks at is as it was in the simulation, or the withdrawal is paid.
BuiltWasAccepted ==
    \A c \in Calls :
        /\ tx[c].status # "none" <=> call[c].pc = "send"
        /\ tx[c].status # "none" =>
              /\ InPhase("executed")
              /\ call[c].log = call[c].proof
              /\ call[c].bridge \in Bridges
              /\ call[c].bridge = PayerOf(call[c].log)
        /\ tx[c].status = "reverted" => call[c].log \in finalized

PaidInv == TypeOK /\ BuiltWasAccepted

\* A call knows the message it has counted its way to, and then a proof of the same; a
\* check asks the bridge that pays it, if one does.  What was paid when a call began
\* stays so.
LookedUp ==
    \A c \in Calls :
        /\ call[c].pc # "receipt" =>
              /\ IndexOf[c] < Len(WithdrawLogs)
              /\ call[c].log \in 1..Len(outputs)
              /\ Counted(c, call[c].log)
        /\ IF call[c].pc \in {"receipt", "proof"} THEN call[c].proof = 0
           ELSE call[c].proof \in 1..Len(outputs) /\ Counted(c, call[c].proof)
        /\ OpOf[c] = "check" => ~call[c].legacy /\ call[c].pc # "probe"
        /\ call[c].pc = "ask" =>
              /\ OpOf[c] = "check"
              /\ outputs[call[c].log] \in Withdrawals => call[c].bridge = PayerOf(call[c].log)
        /\ before[c] \subseteq finalized

\* An answer is about the message that is counted.
AnswersCounted ==
    \A c \in Calls : \A j \in 1..Len(outputs) :
        Counted(c, j) /\ outputs[j] \in Withdrawals =>
            /\ call[c].end = "true" => j \in finalized
            /\ call[c].end = "false" => j \notin before[c]

\* The inductive invariant of both methods.
FinalizeInv == PaidInv /\ LookedUp /\ AnswersCounted

=============================================================================
