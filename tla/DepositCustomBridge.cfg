SPECIFICATION Spec
CONSTANTS
    None = None
    c1 = c1
    c2 = c2
    c3 = c3
    o1 = o1
    o2 = o2
    BaseFees <- MCBaseFees
    Priority = 1
    FairCost = 3
    Calls = {c1}
    Objects = {o1}
    ObjOf <- OneCall
    Ops = {"deposit"}
    Requests <- CustomBridgeRequests
    Grants <- NothingGranted
    Discipline = "sequential"
    ApprovalMayRevert = TRUE
INVARIANTS
    ApprovalsCoverDeposit
