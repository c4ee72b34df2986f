\* Two requests in one process, with two cleanups under them.
CONSTANTS
    Product = {p1}
    Process = {a1}
    Request = {r1, r2}
    Cleaner = {k1, k2}
    NoView = NoView
    NoProduct = NoProduct
    NoProcess = NoProcess
    MaxCarts = 2
SPECIFICATION Spec
SYMMETRY Symmetry
INVARIANTS
    TypeOK
    StaleIsMissed
PROPERTIES
    AnswersFresh
    CleanupSpares
