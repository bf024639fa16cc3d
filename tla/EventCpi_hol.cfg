CONSTANTS
    t1 = t1
    t2 = t2
    Txs <- TwoTxs
    MaxSlot = 3
    MaxNotify = 1
    Horizon = 1
    Dropped <- DropT1
    RpcErrors = FALSE
    None = None
SPECIFICATION FairSpec
PROPERTY
    ConfirmedEventuallyDequeued
