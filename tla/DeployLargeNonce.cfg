SPECIFICATION Spec
CONSTANTS
    None = None
    c1 = c1
    c2 = c2
    c3 = c3
    o1 = o1
    o2 = o2
    Calls = {c1}
    Objects = {o1}
    ObjOf <- OneCall
    Requests <- OneCreate
    StartNonces = {0}
    StartDeployments = {256}
    ByteOrder = "little"
    WordBytes = 4
INVARIANTS
    PredictedIsDeployed
CHECK_DEADLOCK FALSE
