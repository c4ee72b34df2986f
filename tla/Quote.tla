------------------------------- MODULE Quote -------------------------------
(***************************************************************************)
(* The amounts of one order, from the prices in the cart to the order row, *)
(* the payment row and the charge registered with the gateway:             *)
(* OrdersService.createOrder lines 37-70 and 76-107, PaymentService.       *)
(* createPayment lines 134-135.  Amounts in the rows are cents.            *)
(***************************************************************************)
EXTENDS Pricing

CONSTANTS
    Price,          \* prices of products, in cents
    MaxItems,       \* at most this many items in the cart
    Value,          \* discountValue of the code, an integer (CreateDiscountCodeDto)
    MaxDiscount     \* maxDiscount of the code in cents, 0 for none

\* The least price a product is given, in cents.
MinPrice == 99

ASSUME QuoteAssumption ==
    /\ Price \subseteq {p \in Nat : p >= MinPrice}
    /\ MaxItems \in Nat \ {0}
    /\ Value \subseteq Nat \ {0}
    /\ MaxDiscount \subseteq Nat

VARIABLES
    cart,   \* the items of the cart read by createOrder
    code,   \* the discount code of the request, or NoTerms
    left,   \* items `reduce` has not reached
    sum,    \* its accumulator, the subtotal once nothing is left
    order   \* the rows written

vars == <<cart, code, left, sum, order>>

Item == [product : 1 .. MaxItems, price : Price]

\* One product per cart, so a cart is a set of items with distinct products.
Carts == {items \in SUBSET Item :
            /\ items # {}
            /\ \A i, j \in items : i.product = j.product => i = j}

Terms == [type : DiscountTypes, value : Value, maxDiscount : MaxDiscount,
          minPurchase : {0}, perUserLimit : {0}]

Pending == [status |-> "none"]
Rejected == [status |-> "rejected"]

discount == CalculateDiscount(sum, code)

Init ==
    /\ cart \in Carts
    /\ code \in Terms \cup {NoTerms}
    /\ left = cart
    /\ sum = 0
    /\ order = Pending

\* Mutant: the accumulator is not carried from one item to the next.
AddOverwrites ==
    \E item \in left :
        /\ sum' = item.price * Cent
        /\ left' = left \ {item}
        /\ UNCHANGED <<cart, code, order>>

\* One step of `reduce`; the amounts are exact, so its order does not matter.
Add ==
    \E item \in left :
        /\ sum' = sum + item.price * Cent
        /\ left' = left \ {item}
        /\ UNCHANGED <<cart, code, order>>

summed == left = {} /\ order = Pending

rejections == Rejections(sum, Residual(cart), code)

\* 400 "Order total cannot be zero or negative".
Reject ==
    /\ summed
    /\ TRUE \in rejections
    /\ order' = Rejected
    /\ UNCHANGED <<cart, code, left, sum>>

\* The rows of the order and of its payment, and the charge, each rounded on
\* its own; the order total and the payment amount are the same double stored
\* by the same database.
Place(total, charged) ==
    /\ summed
    /\ FALSE \in rejections
    /\ \E d \in RoundedCents(discount), t \in RoundedCents(total),
          charge \in RoundedCents(charged) :
          order' = [status |-> "placed",
                    subtotal |-> sum \div Cent,
                    discountAmount |-> d,
                    total |-> t,
                    amountCents |-> charge]
    /\ UNCHANGED <<cart, code, left, sum>>

\* Mutants: the discount added; the discount left out of the total; the
\* gateway asked for the subtotal.
AcceptAddsDiscount == Place(sum + discount, sum + discount)

AcceptUndiscounted == Place(sum, sum)

AcceptChargesSubtotal == Place(sum - discount, sum)

Accept == Place(sum - discount, sum - discount)

Next == Add \/ Reject \/ Accept

Spec == Init /\ [][Next]_vars

placed == order.status = "placed"

Distance(a, b) == IF a <= b THEN b - a ELSE a - b

-----------------------------------------------------------------------------
TypeOK ==
    /\ cart \in Carts
    /\ code \in Terms \cup {NoTerms}
    /\ left \subseteq cart
    /\ sum \in Nat
    /\ order \in {Pending, Rejected} \cup
                 [status : {"placed"}, subtotal : Nat, discountAmount : Nat,
                  total : Nat, amountCents : Nat]
    /\ placed => /\ order.discountAmount <= order.subtotal
                 /\ order.total <= order.subtotal

\* The loop of createOrder sums what it has passed, every item once, and the
\* subtotal stored with the order is the sum over its cart
\* (orders.service.ts:37 and 77).
SumsTheCart ==
    /\ sum = Subtotal(cart \ left)
    /\ placed => order.subtotal * Cent = Subtotal(cart)

\* The discounts a code allows on a subtotal: no more than the subtotal, than
\* the percentage (or the fixed value), or than the cap of a percentage code.
Promised(d, subtotal, t) ==
    /\ d <= subtotal
    /\ t.type = "PERCENTAGE" =>
         /\ d * 100 <= subtotal * t.value
         /\ t.maxDiscount > 0 => d <= t.maxDiscount * Cent
    /\ t.type = "FIXED_AMOUNT" => d <= t.value * EGP

\* The discount is what the terms promise and no more: the code's min/cap
\* cascade grants the largest amount that exceeds none of the limits
\* (calculate-discount.util.ts), on every cart.
DiscountIsReference ==
    code # NoTerms => /\ Promised(discount, sum, code)
                      /\ ~Promised(discount + 1, sum, code)

halfCent == discount % Cent = 50

\* What the customer sees adds up: the stored discount and the stored total
\* give the stored subtotal, and are a cent apart from it only when the
\* discount ends on half a cent, for each is rounded alone (createOrder stores
\* all three).
RowsBalance ==
    placed =>
      LET rows == order.discountAmount + order.total
      IN  /\ Distance(rows, order.subtotal) <= 1
          /\ ~halfCent => rows = order.subtotal

\* The charge registered with the gateway is within one cent of the payment
\* row, and differs only for a discount that ends on half a cent (createPayment
\* rounds the double again instead of reading the row back).
ChargeNearPayment ==
    placed => /\ Distance(order.amountCents, order.total) <= 1
              /\ ~halfCent \/ code = NoTerms => order.amountCents = order.total

\* The check on `total` lets a free order through only when the code covers
\* the whole subtotal of several items, whose sum leaves a residue: no price a
\* product can have makes a partial discount of whole per cent round to a total
\* of zero (orders.service.ts:68).
FreeOnlyByResidue ==
    placed /\ order.total = 0 => /\ code # NoTerms
                                 /\ discount = sum
                                 /\ \E i, j \in cart : i # j

\* orders.service.ts:69 "Order total cannot be zero or negative".
PlacedTotalPositive ==
    placed => order.total > 0

=============================================================================
