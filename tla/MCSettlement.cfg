\* Two racing webhook requests, three attempts on two orders, two faults.
CONSTANTS
    Order = {o1, o2}
    Txn = {t1, t2, t3}
    Handler = {h1, h2}
    Consumer = {c1, c2}
    NoTxn = NoTxn
    NoOrder = NoOrder
    MaxFaults = 2
SPECIFICATION Spec
SYMMETRY Symmetry
INVARIANTS
    TypeOK
    Agreement
    PaidIsCaptured
    ReceiptIsDue
    ReceiptsBounded
    StrandedStaysPending
PROPERTIES
    SettledForever
    ImplementsLedger
\* Both payment pages may fail, and then nothing more happens.
CHECK_DEADLOCK FALSE
