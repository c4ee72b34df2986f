------------------------------ MODULE Pricing ------------------------------
(***************************************************************************)
(* The arithmetic of an order: calculateDiscount, the order total, and the *)
(* two independent roundings an amount goes through on its way to the      *)
(* database (Decimal(10,2)) and to the payment gateway (integer cents).    *)
(*                                                                         *)
(* The code computes in binary doubles.  Every amount here is an integer   *)
(* number of hundredths of a cent, a unit in which an integer percentage   *)
(* of a price is exact; what the doubles add to the exact value is a       *)
(* residue too small to matter except where a comparison or a rounding     *)
(* sits exactly on its boundary, and there both outcomes are possible.     *)
(***************************************************************************)
EXTENDS Integers, FiniteSets, FiniteSetsExt

Cent == 100
EGP == 100 * Cent

DiscountTypes == {"PERCENTAGE", "FIXED_AMOUNT"}

MinOf(a, b) == IF a <= b THEN a ELSE b

\* What a code promises; amounts in cents, 0 where the column is null or 0, for
\* the code tests both the same way (`maxDiscount && ...`).
TermsType == [type : DiscountTypes, value : Nat, maxDiscount : Nat,
              minPurchase : Nat, perUserLimit : Nat]

\* An order without a code.
NoTerms == [type |-> "NONE", value |-> 0, maxDiscount |-> 0,
            minPurchase |-> 0, perUserLimit |-> 0]

Subtotal(items) == MapThenSumSet(LAMBDA i : i.price * Cent, items)

\* Mutant: maxDiscount is not looked at.
OfferUncapped(subtotal, t) ==
    IF t.type # "PERCENTAGE" THEN t.value * EGP
                             ELSE (subtotal * t.value) \div 100

\* What the code grants before it is limited to the subtotal: a percentage, up
\* to maxDiscount, or an amount in EGP.
Offer(subtotal, t) ==
    LET percentage == (subtotal * t.value) \div 100
    IN  IF t.type # "PERCENTAGE" THEN t.value * EGP
        ELSE IF t.maxDiscount # 0 THEN MinOf(percentage, t.maxDiscount * Cent)
        ELSE percentage

CalculateDiscount(subtotal, t) == MinOf(Offer(subtotal, t), subtotal)

\* Mutant: the fraction of a cent is cut off.
CutCents(amount) == {amount \div Cent}

\* The cents an amount may be stored as.  An amount half-way between two
\* cents goes up or down with the residue of the doubles: 0.145 as `discount`
\* is stored 0.15 while 0.29 - 0.145 is sent to the gateway as 14 cents.
RoundedCents(amount) ==
    IF amount % Cent = 50 THEN {amount \div Cent, (amount \div Cent) + 1}
                          ELSE {(amount + 50) \div Cent}

\* The sum of doubles is exact for one price and for twice the same price.
Residual(items) ==
    Cardinality(items) > 2 \/ Cardinality({i.price : i \in items}) > 1

\* The outcomes of `total <= 0`.  An offer above the subtotal is clamped to it
\* and leaves exactly zero.  An offer equal to the subtotal is computed apart
\* from it and may fall short by a residue, which then passes for a positive
\* total: 26.70 + 27.53 with 100% off gives 54.230000000000004 - 54.23 > 0.
Rejections(subtotal, residual, t) ==
    LET offer == Offer(subtotal, t)
    IN  IF offer < subtotal THEN {FALSE}
        ELSE IF offer = subtotal /\ residual THEN BOOLEAN
        ELSE {TRUE}

TotalRejected(items, t) == Rejections(Subtotal(items), Residual(items), t)

=============================================================================
