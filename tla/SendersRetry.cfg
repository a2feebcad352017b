SPECIFICATION Spec
SYMMETRY SameObject
CONSTANTS
    None = None
    c1 = c1
    c2 = c2
    c3 = c3
    o1 = o1
    o2 = o2
    Calls = {c1, c2, c3}
    Objects = {o1, o2}
    ObjOf <- RetryAndOther
    Requests <- MCRequests
    StartNonces = {0, 1}
    StartDeployments = {7}
    ByteOrder = "little"
    WordBytes = 4
INVARIANTS
    TypeOK
    SenderInv
    ChosenNonceSent
    CollisionsExplained
    DeployReturnsItsContract
    PredictedIsDeployed
PROPERTIES
    ExecutesOnce
CHECK_DEADLOCK FALSE
