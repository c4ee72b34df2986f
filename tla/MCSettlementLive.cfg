\* Liveness under one fault: a crash, a lost receipt, a dead payment page.
CONSTANTS
    Order = {o1}
    Txn = {t1, t2, t3}
    Handler = {h1, h2}
    Consumer = {c1}
    NoTxn = NoTxn
    NoOrder = NoOrder
    MaxFaults = 1
SPECIFICATION FairSpec
PROPERTIES
    CaptureBooked
    EveryReportAnswered
    PaidIsMailed
\* The payment page may fail, and then nothing more happens.
CHECK_DEADLOCK FALSE
