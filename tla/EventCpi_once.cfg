CONSTANTS
    t1 = t1
    t2 = t2
    Txs <- TwoTxs
    MaxSlot = 3
    MaxNotify = 2
    Horizon = 1
    Dropped <- NoTxs
    RpcErrors = TRUE
    None = None
SPECIFICATION Spec
INVARIANTS
    ExactlyOnceDelivery
