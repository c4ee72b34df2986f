\* An admin changes only the type of a fixed code of 150 EGP.
CONSTANTS
    User = {u1}
    Product = {p1}
    Code = {c1}
    Order = {o1}
    Worker = {w1}
    Price = {2670}
    Terms <- MCOfferTerms
    Limit = {0}
    NoUser = NoUser
    NoCode = NoCode
    NoOrder = NoOrder
    MaxAdds = 1
SPECIFICATION Spec
INVARIANT PercentageCapped
