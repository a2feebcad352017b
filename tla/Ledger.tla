-------------------------------- MODULE Ledger --------------------------------
(***************************************************************************)
(* What the senders of an account owe the program that calls them: every   *)
(* job it hands out is executed at most once, however often it is retried. *)
(***************************************************************************)
EXTENDS Naturals, Sequences

CONSTANT Jobs

VARIABLE executed   \* the jobs executed, in order

Init == executed = << >>

Execute(j) ==
    /\ \A i \in 1..Len(executed) : executed[i] # j
    /\ executed' = Append(executed, j)

Next == \E j \in Jobs : Execute(j)

Spec == Init /\ [][Next]_executed

=============================================================================
