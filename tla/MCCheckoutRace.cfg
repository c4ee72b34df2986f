\* Two requests of one or two users race on one code.
CONSTANTS
    User = {u1, u2}
    Product = {p1}
    Code = {c1}
    Order = {o1, o2, o3}
    Worker = {w1, w2}
    Price = {2670}
    Terms <- MCLimitTerms
    Limit = {0, 1}
    NoUser = NoUser
    NoCode = NoCode
    NoOrder = NoOrder
    MaxAdds = 1
SPECIFICATION Spec
SYMMETRY Symmetry
INVARIANTS
    UsageAccounting
    LimitOverrun
    PerUserOverrun
    OrderedOverrun
