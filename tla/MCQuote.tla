------------------------------ MODULE MCQuote ------------------------------
(* Carts of one or two items; the least price, and prices with and without  *)
(* a half-cent discount.                                                    *)
EXTENDS Quote

MCPrice == {99, 115, 150, 2670, 2753}
MCValue == {1, 10, 50, 99, 100, 150}
MCMaxDiscount == {0, 75, 1000}

\* The pair of prices whose doubles leave a residue at 100% off.
MCZeroPrice == {2670, 2753}

=============================================================================
