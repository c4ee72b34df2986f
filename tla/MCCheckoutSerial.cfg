CONSTANTS
    User = {u1}
    Product = {p1, p2}
    Code = {c1}
    Order = {o1, o2}
    Worker = {w1}
    Price = {2670, 2753}
    Terms <- MCOfferTerms
    Limit = {0, 1}
    NoUser = NoUser
    NoCode = NoCode
    NoOrder = NoOrder
    MaxAdds = 1
SPECIFICATION Spec
SYMMETRY Symmetry
INVARIANTS
    TypeOK
    LimitOverrun
    OrderedOverrun
    PriceLocked
PROPERTY
    ClearsWhatItOrders
