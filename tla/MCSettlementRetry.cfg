CONSTANTS
    Order = {o1}
    Txn = {t1, t2}
    Handler = {h1}
    Consumer = {c1}
    NoTxn = NoTxn
    NoOrder = NoOrder
    MaxFaults = 0
SPECIFICATION FairSpec
PROPERTY CaptureIsPaid
CHECK_DEADLOCK FALSE
