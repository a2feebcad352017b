SPECIFICATION FairSpec
CONSTANTS
    None = None
    w1 = w1
    w2 = w2
    t1 = t1
    t2 = t2
    Waits = {w1}
    Txs = {t1, t2}
    TxOf <- SameTx
    KindsOf <- AnyKind
    FailedIn = {1, 2}
    MaxBlocks = 4
    MaxPolls = 3
INVARIANTS
    FinalityInv
    FinalizedReceiptStays
    NoMissedFinality
    ConfirmationIsOfItsReceipt
PROPERTIES
    WaitsEnd
CHECK_DEADLOCK FALSE
