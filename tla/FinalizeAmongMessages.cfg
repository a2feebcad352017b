SPECIFICATION Spec
CONSTANTS
    None = None
    c1 = c1
    c2 = c2
    c3 = c3
    Calls = {c1}
    OpOf <- OneFinalize
    IndexOf <- FirstIndex
    OutputSeqs <- OutputsBeforeWithdrawal
    ProbeMayFail = FALSE
INVARIANTS
    FindsIndexedWithdrawal
CHECK_DEADLOCK FALSE
