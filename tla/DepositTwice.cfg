SPECIFICATION TwiceSpec
SYMMETRY Alike
CONSTANTS
    None = None
    c1 = c1
    c2 = c2
    c3 = c3
    o1 = o1
    o2 = o2
    BaseFees <- MCBaseFees
    Priority = 1
    FairCost = 3
    Calls = {c1, c2, c3}
    Objects = {o1, o2}
    ObjOf <- RetryAndOther
    Ops = {"deposit", "fullFee"}
    Requests <- TwiceRequests
    Grants <- NothingGranted
    Discipline = "concurrent"
    ApprovalMayRevert = TRUE
INVARIANTS
    NonceInv
    AtMostOneDepositPerObject
    OnlyFeeQueriesChangeAmount
\* Both calls end, and the base fee may stay.
CHECK_DEADLOCK FALSE
