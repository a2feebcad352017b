SPECIFICATION SigningSpec
CONSTANTS
    N = 3
    Root = 2
    Schemas <- MCSchemas
    LikeBasic <- MCLikeBasic
    None = None
    c1 = c1
    c2 = c2
    o1 = o1
    Calls = {c1, c2}
    Objects = {o1}
    ObjOf <- OneObject
    ThisChain = 1
    NetworkFee = 7
    Wanted <- MCWanted
INVARIANTS
    Transaction712TypeOK
    GatheredIsReachable
    KeyErrorExplained
    SignatureKept
    SignaturesExplained
    OnlyProgramsSendStaleSignatures
    PaymasterKept
PROPERTY
    WalkEnds
\* All structs are described and all calls end.
CHECK_DEADLOCK FALSE
