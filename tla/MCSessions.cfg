\* Two requests at a time on two accounts.
CONSTANTS
    Email = {e1, e2}
    Request = {r1, r2}
    NoEmail = NoEmail
    MaxRows = 2
    MaxLogins = 2
    MaxLinks = 2
    MaxClock = 1
SPECIFICATION Spec
SYMMETRY Symmetry
INVARIANTS
    TypeOK
    OneTokenPerSession
    ResetEndsSessions
    AdminsBounded
PROPERTY
    ImplementsLedger
CHECK_DEADLOCK FALSE
