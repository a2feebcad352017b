SPECIFICATION Spec
CONSTANTS
    None = None
    w1 = w1
    w2 = w2
    t1 = t1
    t2 = t2
    Waits = {w1}
    Txs = {t1}
    TxOf <- SameTx
    KindsOf <- OneClaim
    MaxBlocks = 3
    MaxPolls = 2
    FailedIn = {1}
INVARIANTS
    FailedDepositsClaimed
CHECK_DEADLOCK FALSE
