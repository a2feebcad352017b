---------------------------- MODULE MCReceiptWait ----------------------------
(***************************************************************************)
(* Instances of ReceiptWait for TLC.                                       *)
(***************************************************************************)
EXTENDS ReceiptWait, TLC

CONSTANTS w1, w2, t1, t2

\* A call of any method about one of two transactions.  No call sees another, so
\* one is enough.
AnyKind == [w \in Waits |-> WaitKinds \cup QueryKinds]
OneClaim == [w \in Waits |-> {"claim"}]
SameTx == [w \in Waits |-> t1]

=============================================================================
