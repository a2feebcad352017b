SPECIFICATION Spec
CONSTANTS
    None = None
    c1 = c1
    c2 = c2
    c3 = c3
    Calls = {c1, c2, c3}
    OpOf <- TwoFinalize
    IndexOf <- SameIndex
    OutputSeqs <- MCOutputSeqs
    ProbeMayFail = TRUE
INVARIANTS
    PaidInv
    RevertsOnlyWhenPaid
    ProvesAskedWithdrawal
    AnswerIsFresh
CHECK_DEADLOCK FALSE
