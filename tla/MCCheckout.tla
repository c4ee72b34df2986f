----------------------------- MODULE MCCheckout -----------------------------
EXTENDS Checkout, TLC

T(type, value, perUserLimit) ==
    [type |-> type, value |-> value, maxDiscount |-> 0, minPurchase |-> 0,
     perUserLimit |-> perUserLimit]

\* One offer, with and without a limit per user.
MCLimitTerms == {T("PERCENTAGE", 10, 0), T("PERCENTAGE", 10, 1)}

\* Offers that reject a total, escape the rejection or exceed 100%.
MCOfferTerms == {T("PERCENTAGE", 100, 0), T("FIXED_AMOUNT", 150, 0),
                 [T("PERCENTAGE", 150, 0) EXCEPT !.minPurchase = 5000]}

Symmetry == Permutations(User) \cup Permutations(Product) \cup
            Permutations(Worker) \cup Permutations(Order)

=============================================================================
