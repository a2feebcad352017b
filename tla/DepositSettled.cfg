SPECIFICATION Spec
SYMMETRY Alike
CONSTANTS
    None = None
    c1 = c1
    c2 = c2
    c3 = c3
    o1 = o1
    o2 = o2
    BaseFees <- MCBaseFees
    Priority = 1
    FairCost = 3
    Calls = {c1, c2}
    Objects = {c1, c2}
    ObjOf <- OwnObjects
    Ops = {"deposit"}
    Requests <- SettledRequests
    Grants <- NothingGranted
    Discipline = "settled"
    ApprovalMayRevert = TRUE
INVARIANTS
    NoncesAccepted
    ApprovalsCoverDeposit
PROPERTY
    ApprovalOnlyWhenShort
