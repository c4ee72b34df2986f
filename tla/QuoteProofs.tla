---------------------------- MODULE QuoteProofs ----------------------------
(***************************************************************************)
(* The amounts of an order, for every cart, every price a product can have *)
(* and every code: the arithmetic is exact up to the two roundings, and    *)
(* the lemmas about Offer and RoundedCents bound what those can do.        *)
(***************************************************************************)
EXTENDS Quote, PricingProofs

-----------------------------------------------------------------------------
(* The operators of Pricing. *)

\* Whole and rest of a division by a hundred.
LEMMA Hundredths ==
    ASSUME NEW a \in Nat
    PROVE  /\ a \div 100 \in Nat
           /\ a % 100 \in 0 .. 99
           /\ a = 100 * (a \div 100) + (a % 100)
  <1>1. a \div 100 \in Nat
    OBVIOUS
  <1>2. a % 100 \in 0 .. 99
    OBVIOUS
  <1>3. a = 100 * (a \div 100) + (a % 100)
    OBVIOUS
  <1> QED BY <1>1, <1>2, <1>3

\* An amount is stored as a whole number of cents at most half a cent away.
LEMMA RoundedIsNear ==
    ASSUME NEW a \in Nat, NEW c \in RoundedCents(a)
    PROVE  /\ c \in Nat
           /\ 100 * c <= a + 50
           /\ a <= 100 * c + 50
  <1>1. CASE a % 100 = 50
    <2>1. c = a \div 100 \/ c = (a \div 100) + 1
      BY <1>1 DEF RoundedCents, Cent
    <2> QED BY <1>1, <2>1, Hundredths
  <1>2. CASE a % 100 # 50
    <2>1. c = (a + 50) \div 100
      BY <1>2 DEF RoundedCents, Cent
    <2>2. a + 50 \in Nat
      OBVIOUS
    <2> QED BY <2>1, <2>2, Hundredths
  <1> QED BY <1>1, <1>2

\* Away from half a cent the nearest cent is the only outcome.
LEMMA RoundedIsNearest ==
    ASSUME NEW a \in Nat, NEW c \in RoundedCents(a), a % 100 # 50
    PROVE  /\ c \in Nat
           /\ 100 * c < a + 50
           /\ a < 100 * c + 50
  <1>1. c = (a + 50) \div 100
    BY DEF RoundedCents, Cent
  <1>2. a + 50 \in Nat
    OBVIOUS
  <1>3. (a + 50) % 100 # 0
    OBVIOUS
  <1> QED BY <1>1, <1>2, <1>3, Hundredths

\* What a code offers and what is granted of it.
LEMMA OfferType ==
    ASSUME NEW s \in Nat, NEW t \in Terms \cup {NoTerms}
    PROVE  /\ t.value \in Nat
           /\ t.maxDiscount \in Nat
           /\ Offer(s, t) \in Nat
           /\ CalculateDiscount(s, t) \in Nat
           /\ CalculateDiscount(s, t) <= s
           /\ CalculateDiscount(s, t) <= Offer(s, t)
  <1>1. t.value \in Nat /\ t.maxDiscount \in Nat
    <2>1. CASE t \in Terms
      BY <2>1, QuoteAssumption DEF Terms
    <2>2. CASE t = NoTerms
      BY <2>2 DEF NoTerms
    <2> QED BY <2>1, <2>2
  <1>2. s * t.value \in Nat /\ t.value * EGP \in Nat /\ t.maxDiscount * Cent \in Nat
    BY <1>1 DEF EGP, Cent
  <1>3. (s * t.value) \div 100 \in Nat
    BY <1>2, Hundredths
  <1>4. Offer(s, t) \in Nat
    BY <1>2, <1>3 DEF Offer, MinOf
  <1> QED BY <1>1, <1>4 DEF CalculateDiscount, MinOf

\* The discount is the largest amount the terms allow.
LEMMA DiscountIsLargest ==
    ASSUME NEW s \in Nat, NEW t \in Terms
    PROVE  LET d == CalculateDiscount(s, t)
           IN  Promised(d, s, t) /\ ~Promised(d + 1, s, t)
  <1> DEFINE X == (s * t.value) \div 100
             d == CalculateDiscount(s, t)
  <1>1. t.value \in Nat /\ t.maxDiscount \in Nat /\ d \in Nat
    BY OfferType
  <1>2. t.type \in DiscountTypes
    BY DEF Terms
  <1>3. s * t.value \in Nat
    BY <1>1
  <1>4. X \in Nat /\ 100 * X <= s * t.value /\ s * t.value < 100 * (X + 1)
    <2> HIDE DEF X
    <2> DEFINE P == s * t.value
    <2>1. P \in Nat /\ X = P \div 100
      BY <1>3 DEF X
    <2>2. X \in Nat /\ 100 * X <= P /\ P < 100 * (X + 1)
      <3> HIDE DEF P
      <3> QED BY <2>1, Hundredths
    <2> QED BY <2>2
  <1>5. CASE t.type = "PERCENTAGE"
    <2>1. Offer(s, t) = IF t.maxDiscount # 0 THEN MinOf(X, t.maxDiscount * 100) ELSE X
      BY <1>5 DEF Offer, Cent
    <2>2. d = MinOf(Offer(s, t), s)
      BY DEF CalculateDiscount
    <2> DEFINE P == s * t.value
    <2>3. P \in Nat /\ 100 * X <= P /\ P < 100 * (X + 1)
      BY <1>3, <1>4
    <2> HIDE DEF P, X, d
    <2>4. Promised(d, s, t) <=> /\ d <= s
                                /\ d * 100 <= P
                                /\ t.maxDiscount > 0 => d <= t.maxDiscount * 100
      BY <1>5 DEF Promised, Cent, P
    <2>5. Promised(d + 1, s, t) <=> /\ d + 1 <= s
                                    /\ (d + 1) * 100 <= P
                                    /\ t.maxDiscount > 0 => d + 1 <= t.maxDiscount * 100
      BY <1>5 DEF Promised, Cent, P
    <2>6. X \in Nat
      BY <1>4
    <2> QED BY <1>1, <2>1, <2>2, <2>3, <2>4, <2>5, <2>6 DEF MinOf, d
  <1>6. CASE t.type = "FIXED_AMOUNT"
    <2>1. d = MinOf(t.value * EGP, s)
      BY <1>6 DEF CalculateDiscount, Offer
    <2> QED BY <1>1, <1>6, <2>1 DEF Promised, MinOf, EGP, Cent
  <1> QED BY <1>2, <1>5, <1>6 DEF DiscountTypes

\* An offer below a subtotal that products can have leaves more than half a
\* cent: integer percentages of whole cents leave at least a hundredth of the
\* subtotal, the other offers are whole cents.
LEMMA PartialOfferLeaves ==
    ASSUME NEW n \in Nat, n >= MinPrice, NEW t \in Terms \cup {NoTerms},
           Offer(100 * n, t) < 100 * n
    PROVE  100 * n - CalculateDiscount(100 * n, t) > 50
  <1> DEFINE s == 100 * n
             o == Offer(s, t)
  <1>1. s \in Nat /\ t.value \in Nat /\ t.maxDiscount \in Nat /\ o \in Nat
    BY OfferType
  <1>2. CalculateDiscount(s, t) = o
    BY <1>1 DEF CalculateDiscount, MinOf
  <1>3. (s * t.value) \div 100 = n * t.value
    <2>1. s * t.value = 100 * (n * t.value)
      BY <1>1
    <2> DEFINE q == n * t.value
    <2>2. q \in Nat
      BY <1>1
    <2>3. (100 * q) \div 100 = q
      <3> HIDE DEF q
      <3> QED BY <2>2
    <2> QED BY <2>1, <2>3
  <1>4. CASE t.type # "PERCENTAGE"
    <2>1. o = 10000 * t.value
      BY <1>1, <1>4 DEF Offer, EGP, Cent
    <2> QED BY <1>1, <1>2, <2>1
  <1>5. CASE t.type = "PERCENTAGE" /\ o = 100 * t.maxDiscount
    BY <1>1, <1>2, <1>5
  <1>6. CASE t.type = "PERCENTAGE" /\ o = n * t.value
    <2>1. t.value <= 99
      <3> SUFFICES ASSUME t.value >= 100 PROVE FALSE
        BY <1>1
      <3>1. n * t.value >= n * 100
        BY <1>1
      <3> QED BY <1>1, <1>6, <3>1
    <2>2. n * t.value <= n * 99
      BY <1>1, <2>1
    <2> QED BY <1>1, <1>2, <1>6, <2>2 DEF MinPrice
  <1>7. t.type = "PERCENTAGE" => o = 100 * t.maxDiscount \/ o = n * t.value
    BY <1>1, <1>3 DEF Offer, MinOf, Cent
  <1> QED BY <1>4, <1>5, <1>6, <1>7

-----------------------------------------------------------------------------
(* The inductive invariant. *)

\* What reduce has summed is the sum of what it has passed.
Passed == sum = Subtotal(cart \ left)

\* It is whole cents, and once an item was passed at least the price of one
\* product.
Summing ==
    /\ sum % Cent = 0
    /\ left # cart => sum >= MinPrice * Cent

\* The rows of a placed order are roundings of the amounts they stand for,
\* and the check on the total let it through.
RowsRound ==
    /\ order # Pending => left = {}
    /\ placed => /\ order.subtotal = sum \div Cent
                 /\ order.discountAmount \in RoundedCents(discount)
                 /\ order.total \in RoundedCents(sum - discount)
                 /\ order.amountCents \in RoundedCents(sum - discount)
                 /\ FALSE \in rejections

IInv == TypeOK /\ Passed /\ Summing /\ RowsRound

\* Rounded apart, the discount and the rest of a subtotal of whole cents are
\* stored within a cent of it, and exactly unless half a cent was divided.
LEMMA RowsOfSubtotal ==
    ASSUME NEW s \in Nat, s % 100 = 0,
           NEW x \in Nat, x <= s,
           NEW d \in RoundedCents(x),
           NEW t \in RoundedCents(s - x)
    PROVE  /\ d \in Nat /\ t \in Nat /\ s \div 100 \in Nat
           /\ d <= s \div 100
           /\ t <= s \div 100
           /\ Distance(d + t, s \div 100) <= 1
           /\ x % 100 # 50 => d + t = s \div 100
  <1>1. s - x \in Nat
    OBVIOUS
  <1>2. s = 100 * (s \div 100) /\ s \div 100 \in Nat
    BY Hundredths
  <1>3. d \in Nat /\ 100 * d <= x + 50 /\ x <= 100 * d + 50
    BY RoundedIsNear
  <1>4. t \in Nat /\ 100 * t <= s - x + 50 /\ s - x <= 100 * t + 50
    BY <1>1, RoundedIsNear
  <1> DEFINE n == s \div 100
  <1>5. n \in Nat /\ s = 100 * n
    BY <1>2
  <1> HIDE DEF n
  <1>6. d <= n /\ t <= n /\ d + t <= n + 1 /\ n <= d + t + 1
    BY <1>3, <1>4, <1>5
  <1>7. Distance(d + t, n) <= 1
    BY <1>3, <1>4, <1>5, <1>6 DEF Distance
  <1>8. ASSUME x % 100 # 50 PROVE d + t = n
    <2>1. (s - x) % 100 # 50
      BY <1>5, <1>8
    <2>2. 100 * d < x + 50 /\ x < 100 * d + 50
      BY <1>8, RoundedIsNearest
    <2>3. 100 * t < s - x + 50 /\ s - x < 100 * t + 50
      BY <1>1, <2>1, RoundedIsNearest
    <2> QED BY <1>3, <1>4, <1>5, <2>2, <2>3
  <1> QED BY <1>3, <1>4, <1>5, <1>6, <1>7, <1>8 DEF n

\* Two roundings of what is left of a subtotal differ by at most a cent, and
\* only when it ends on half a cent.
LEMMA ChargeOfTotal ==
    ASSUME NEW s \in Nat, s % 100 = 0,
           NEW x \in Nat, x <= s,
           NEW c \in RoundedCents(s - x),
           NEW t \in RoundedCents(s - x)
    PROVE  /\ c \in Nat /\ t \in Nat
           /\ Distance(c, t) <= 1
           /\ x % 100 # 50 => c = t
  <1>1. s - x \in Nat
    OBVIOUS
  <1>2. s = 100 * (s \div 100) /\ s \div 100 \in Nat
    BY Hundredths
  <1>3. c \in Nat /\ 100 * c <= s - x + 50 /\ s - x <= 100 * c + 50
    BY <1>1, RoundedIsNear
  <1>4. t \in Nat /\ 100 * t <= s - x + 50 /\ s - x <= 100 * t + 50
    BY <1>1, RoundedIsNear
  <1>5. Distance(c, t) <= 1
    BY <1>1, <1>3, <1>4 DEF Distance
  <1>6. ASSUME x % 100 # 50 PROVE c = t
    <2>1. (s - x) % 100 # 50
      <3> DEFINE n == s \div 100
      <3>1. n \in Nat /\ s = 100 * n
        BY <1>2
      <3> HIDE DEF n
      <3> QED BY <1>6, <3>1
    <2> QED BY <1>1, <2>1, RoundedIsNearest
  <1> QED BY <1>3, <1>4, <1>5, <1>6

\* An item of a cart has the price of a product.
LEMMA PriceType ==
    ASSUME cart \in Carts, NEW i \in cart
    PROVE  i.price \in Nat /\ i.price >= MinPrice
  BY QuoteAssumption DEF Carts, Item

\* A cart has one item for each of at most MaxItems products, each with a price.
LEMMA CartPriced == ASSUME cart \in Carts PROVE Priced(cart)
  <1> DEFINE f == [i \in cart |-> i.product]
  <1>1. f \in Injection(cart, 1 .. MaxItems)
    BY DEF Injection, IsInjective, Carts, Item
  <1>2. IsFiniteSet(1 .. MaxItems)
    BY QuoteAssumption, FS_Interval
  <1>3. IsFiniteSet(cart)
    BY <1>1, <1>2, FS_Injection
  <1> QED BY <1>3, PriceType DEF Priced

LEMMA PartPriced ==
    ASSUME cart \in Carts, NEW items, items \subseteq cart
    PROVE  Priced(items)
  BY CartPriced, FS_Subset DEF Priced

LEMMA InitIInv == Init => IInv
  <1> SUFFICES ASSUME Init PROVE IInv
    OBVIOUS
  <1>1. ~placed
    BY DEF Init, placed, Pending
  <1>2. TypeOK
    BY <1>1 DEF Init, TypeOK, Pending
  <1>3. Summing
    BY DEF Init, Summing, Cent
  <1>4. RowsRound
    BY <1>1 DEF Init, RowsRound
  <1>5. Passed
    <2>1. cart \ left = {} /\ sum = 0 /\ Priced({})
      BY PartPriced DEF Init
    <2>2. Subtotal({}) = 0
      BY <2>1, SubtotalAdds
    <2> QED BY <2>1, <2>2 DEF Passed
  <1> QED BY <1>2, <1>3, <1>4, <1>5 DEF IInv

LEMMA AddIInv == IInv /\ Add => IInv'
  <1> SUFFICES ASSUME IInv, Add PROVE IInv'
    OBVIOUS
  <1>1. PICK item \in left : /\ sum' = sum + item.price * Cent
                             /\ left' = left \ {item}
                             /\ UNCHANGED <<cart, code, order>>
    BY DEF Add
  <1>2. item.price \in Nat /\ item.price >= MinPrice
    BY <1>1, PriceType DEF IInv, TypeOK
  <1>3. order = Pending /\ ~placed
    BY <1>1 DEF IInv, RowsRound, Pending, placed
  <1>4. ~placed'
    BY <1>1, <1>3 DEF placed
  <1>5. TypeOK'
    BY <1>1, <1>2, <1>3, <1>4 DEF IInv, TypeOK, Cent
  <1>6. Summing'
    <2>1. sum \in Nat /\ sum % 100 = 0
      BY DEF IInv, TypeOK, Summing, Cent
    <2>2. (sum + item.price * 100) % 100 = 0
      BY <1>2, <2>1
    <2>3. sum + item.price * 100 >= MinPrice * 100
      BY <1>2, <2>1 DEF MinPrice
    <2> QED BY <1>1, <2>2, <2>3 DEF Summing, Cent
  <1>7. RowsRound'
    BY <1>1, <1>3, <1>4 DEF RowsRound
  <1>8. Passed'
    <2> DEFINE passed == cart \ left'
    <2>1. /\ passed \ {item} = cart \ left
          /\ item \in passed
          /\ passed \subseteq cart
      BY <1>1 DEF IInv, TypeOK
    <2>2. Priced(passed)
      BY <2>1, PartPriced DEF IInv, TypeOK
    <2>3. Subtotal(passed) = Subtotal(cart \ left) + Amount(item)
      BY <2>1, <2>2, SubtotalAdds
    <2> QED BY <1>1, <2>3 DEF IInv, Passed, Amount
  <1> QED BY <1>5, <1>6, <1>7, <1>8 DEF IInv

LEMMA RejectIInv == IInv /\ Reject => IInv'
  <1> SUFFICES ASSUME IInv, Reject PROVE IInv'
    OBVIOUS
  <1>1. ~placed'
    BY DEF Reject, Rejected, placed
  <1>2. TypeOK'
    BY <1>1 DEF IInv, TypeOK, Reject
  <1>3. Summing'
    BY DEF IInv, Summing, Reject
  <1>4. RowsRound'
    BY <1>1 DEF RowsRound, Reject, summed
  <1>5. Passed'
    BY DEF IInv, Passed, Reject
  <1> QED BY <1>2, <1>3, <1>4, <1>5 DEF IInv

LEMMA AcceptIInv == IInv /\ Accept => IInv'
  <1> SUFFICES ASSUME IInv, Accept PROVE IInv'
    OBVIOUS
  <1>1. /\ left = {} /\ FALSE \in rejections
        /\ UNCHANGED <<cart, code, left, sum>>
    BY DEF Accept, Place, summed
  <1>2. PICK d \in RoundedCents(discount), t \in RoundedCents(sum - discount),
             c \in RoundedCents(sum - discount) :
               order' = [status |-> "placed", subtotal |-> sum \div Cent,
                         discountAmount |-> d, total |-> t, amountCents |-> c]
    BY DEF Accept, Place
  <1>3. sum \in Nat /\ sum % 100 = 0 /\ discount \in Nat /\ discount <= sum
    BY OfferType DEF IInv, TypeOK, Summing, Cent, discount
  <1>4. /\ d \in Nat /\ t \in Nat /\ sum \div 100 \in Nat
        /\ d <= sum \div 100 /\ t <= sum \div 100
    BY <1>3, RowsOfSubtotal
  <1>5. c \in Nat
    BY <1>3, ChargeOfTotal
  <1>6. TypeOK'
    BY <1>1, <1>2, <1>4, <1>5 DEF IInv, TypeOK, Cent
  <1>7. Summing'
    BY <1>1 DEF IInv, Summing
  <1>8. discount' = discount /\ rejections' = rejections
    BY <1>1 DEF discount, rejections
  <1>9. RowsRound'
    BY <1>1, <1>2, <1>8 DEF RowsRound
  <1>10. Passed'
    BY <1>1 DEF IInv, Passed
  <1> QED BY <1>6, <1>7, <1>9, <1>10 DEF IInv

\* The invariant is inductive.
THEOREM Inductive == Spec => []IInv
  <1>1. IInv /\ [Next]_vars => IInv'
    <2> SUFFICES ASSUME IInv, [Next]_vars PROVE IInv'
      OBVIOUS
    <2>1. CASE UNCHANGED vars
      BY <2>1 DEF IInv, TypeOK, Passed, Summing, RowsRound, placed, discount, rejections, vars
    <2> QED BY <2>1, AddIInv, RejectIInv, AcceptIInv DEF Next
  <1> QED BY <1>1, InitIInv, PTL DEF Spec

-----------------------------------------------------------------------------
(* What it shows. *)

\* The amounts keep their types, and neither the discount nor the total of an
\* order exceeds its subtotal, on any cart with any code.
THEOREM TypeCorrect == Spec => []TypeOK
  <1>1. IInv => TypeOK
    BY DEF IInv
  <1> QED BY <1>1, Inductive, PTL

\* The subtotal of every order is the sum over its cart, however many items that
\* has and in whatever order the loop takes them.
THEOREM SumsItems == Spec => []SumsTheCart
  <1>1. IInv => SumsTheCart
    <2> SUFFICES ASSUME IInv PROVE SumsTheCart
      OBVIOUS
    <2>1. sum = Subtotal(cart \ left)
      BY DEF IInv, Passed
    <2>2. ASSUME placed PROVE order.subtotal * Cent = Subtotal(cart)
      <3>1. left = {} /\ order.subtotal = sum \div 100
        BY <2>2 DEF IInv, RowsRound, placed, Pending, Cent
      <3>2. cart \ left = cart
        BY <3>1
      <3>3. sum \in Nat /\ sum % 100 = 0
        BY DEF IInv, TypeOK, Summing, Cent
      <3>4. (sum \div 100) * 100 = sum
        BY <3>3, Hundredths
      <3> QED BY <2>1, <3>1, <3>2, <3>4 DEF Cent
    <2> QED BY <2>1, <2>2 DEF SumsTheCart
  <1> QED BY <1>1, Inductive, PTL

\* Every discount is the largest amount its terms promise.
THEOREM DiscountPromised == Spec => []DiscountIsReference
  <1>1. IInv => DiscountIsReference
    BY DiscountIsLargest DEF IInv, TypeOK, DiscountIsReference, discount
  <1> QED BY <1>1, Inductive, PTL

\* The rows of every order balance to the cent, half a cent excepted.
THEOREM RowsBalanced == Spec => []RowsBalance
  <1>1. IInv => RowsBalance
    <2> SUFFICES ASSUME IInv, placed PROVE RowsBalance
      BY DEF RowsBalance
    <2>1. sum \in Nat /\ sum % 100 = 0 /\ discount \in Nat /\ discount <= sum
      BY OfferType DEF IInv, TypeOK, Summing, Cent, discount
    <2> QED BY <2>1, RowsOfSubtotal DEF IInv, RowsRound, RowsBalance, halfCent, Cent
  <1> QED BY <1>1, Inductive, PTL

\* Every charge is the payment row to the cent, half a cent excepted.
THEOREM ChargeIsNear == Spec => []ChargeNearPayment
  <1>1. IInv => ChargeNearPayment
    <2> SUFFICES ASSUME IInv, placed PROVE ChargeNearPayment
      BY DEF ChargeNearPayment
    <2>1. sum \in Nat /\ sum % 100 = 0 /\ discount \in Nat /\ discount <= sum
      BY OfferType DEF IInv, TypeOK, Summing, Cent, discount
    <2>2. /\ Distance(order.amountCents, order.total) <= 1
          /\ ~halfCent => order.amountCents = order.total
      <3>1. /\ order.amountCents \in RoundedCents(sum - discount)
            /\ order.total \in RoundedCents(sum - discount)
        BY DEF IInv, RowsRound
      <3> DEFINE c == order.amountCents
                 t == order.total
      <3>2. c \in RoundedCents(sum - discount) /\ t \in RoundedCents(sum - discount)
        BY <3>1
      <3> HIDE DEF c, t
      <3>3. Distance(c, t) <= 1 /\ (discount % 100 # 50 => c = t)
        BY <2>1, <3>2, ChargeOfTotal
      <3> QED BY <3>3 DEF halfCent, Cent, c, t
    <2>3. code = NoTerms => ~halfCent
      BY <2>1 DEF discount, CalculateDiscount, Offer, NoTerms, MinOf, halfCent, EGP, Cent
    <2> QED BY <2>2, <2>3 DEF ChargeNearPayment
  <1> QED BY <1>1, Inductive, PTL

\* A cart of one item leaves no residue.
LEMMA ResidueNeedsItems ==
    ASSUME NEW items, items # {}, Residual(items)
    PROVE  \E i, j \in items : i # j
  <1> SUFFICES ASSUME \A i, j \in items : i = j PROVE FALSE
    OBVIOUS
  <1>1. PICK i \in items : items = {i}
    OBVIOUS
  <1>2. {k.price : k \in items} = {i.price}
    BY <1>1
  <1>3. Cardinality(items) = 1 /\ Cardinality({k.price : k \in items}) = 1
    BY <1>1, <1>2, FS_Singleton
  <1> QED BY <1>3 DEF Residual

\* The only orders of a total of zero are those of several items whose code
\* covers the whole subtotal, whatever the prices and the code.
THEOREM FreeOrders == Spec => []FreeOnlyByResidue
  <1>1. IInv => FreeOnlyByResidue
    <2> SUFFICES ASSUME IInv, placed, order.total = 0
                 PROVE  /\ code # NoTerms
                        /\ discount = sum
                        /\ \E i, j \in cart : i # j
      BY DEF FreeOnlyByResidue
    <2> DEFINE offer == Offer(sum, code)
    <2>1. /\ sum \in Nat /\ sum % 100 = 0 /\ code \in Terms \cup {NoTerms}
          /\ left = {} /\ cart # {} /\ FALSE \in rejections
          /\ 0 \in RoundedCents(sum - discount)
      <3>0. order # Pending
        BY DEF placed, Pending
      <3>1. /\ order # Pending
            /\ order.total \in RoundedCents(sum - discount)
            /\ FALSE \in rejections
        BY <3>0 DEF IInv, RowsRound
      <3>2. left = {}
        BY <3>1 DEF IInv, RowsRound
      <3>3. sum \in Nat /\ code \in Terms \cup {NoTerms} /\ cart # {}
        BY DEF IInv, TypeOK, Carts
      <3> QED BY <3>1, <3>2, <3>3 DEF IInv, Summing, Cent
    <2>2. sum >= 100 * MinPrice
      BY <2>1 DEF IInv, Summing, Cent, MinPrice
    <2>3. /\ offer \in Nat /\ discount \in Nat /\ discount <= sum
      BY <2>1, OfferType DEF discount
    <2>4. sum - discount <= 50
      BY <2>1, <2>3, RoundedIsNear
    <2>5. ~(offer < sum)
      <3> DEFINE n == sum \div 100
      <3>1. n \in Nat /\ sum = 100 * n
        BY <2>1, Hundredths
      <3>2. n >= MinPrice
        BY <2>2, <3>1 DEF MinPrice
      <3> HIDE DEF n
      <3>3. ASSUME offer < sum PROVE sum - discount > 50
        BY <2>1, <3>1, <3>2, <3>3, PartialOfferLeaves DEF discount
      <3> QED BY <2>1, <2>3, <2>4, <3>3
    <2>6. offer = sum /\ Residual(cart)
      BY <2>1, <2>5 DEF rejections, Rejections
    <2>7. discount = sum
      BY <2>1, <2>3, <2>6 DEF discount, CalculateDiscount, MinOf
    <2>8. code # NoTerms
      BY <2>2, <2>1, <2>6 DEF Offer, NoTerms, EGP, Cent, MinPrice
    <2> QED BY <2>1, <2>6, <2>7, <2>8, ResidueNeedsItems
  <1> QED BY <1>1, Inductive, PTL

-----------------------------------------------------------------------------
(* Carts compared *)

\* What a code grants on a subtotal of n cents, by type.
LEMMA GrantedOnCents ==
    ASSUME NEW n \in Nat, NEW t \in Terms \cup {NoTerms}
    PROVE  LET s == 100 * n
               d == CalculateDiscount(s, t)
           IN  /\ t.type # "PERCENTAGE" => d = MinOf(10000 * t.value, s)
               /\ t.type = "PERCENTAGE" /\ t.maxDiscount = 0 =>
                     d = MinOf(n * t.value, s)
               /\ t.type = "PERCENTAGE" /\ t.maxDiscount # 0 =>
                     d = MinOf(MinOf(n * t.value, 100 * t.maxDiscount), s)
  <1> DEFINE s == 100 * n
  <1>1. s \in Nat /\ t.value \in Nat /\ t.maxDiscount \in Nat
    BY OfferType
  <1> DEFINE q == n * t.value
  <1>2. q \in Nat /\ s * t.value = 100 * q
    BY <1>1
  <1>3. (100 * q) \div 100 = q
    <2> HIDE DEF q
    <2> QED BY <1>2
  <1>4. (s * t.value) \div 100 = q
    BY <1>2, <1>3
  <1>5. t.value * 10000 = 10000 * t.value /\ t.maxDiscount * 100 = 100 * t.maxDiscount
    BY <1>1
  <1> QED BY <1>4, <1>5 DEF CalculateDiscount, Offer, EGP, Cent

\* A dearer cart never gets a smaller discount with the same code, and never
\* costs less: calculateDiscount is monotone in the subtotal, and so is what it
\* leaves to pay.
LEMMA DearerCosts ==
    ASSUME NEW m \in Nat, NEW n \in Nat, m <= n, NEW t \in Terms \cup {NoTerms}
    PROVE  LET less == CalculateDiscount(100 * m, t)
               more == CalculateDiscount(100 * n, t)
           IN  less <= more /\ 100 * m - less <= 100 * n - more
  <1>1. t.value \in Nat /\ t.maxDiscount \in Nat
    BY OfferType
  <1> DEFINE v == t.value
             c == 100 * t.maxDiscount
             p == m * v
             q == n * v
             less == CalculateDiscount(100 * m, t)
             more == CalculateDiscount(100 * n, t)
  <1>2. p \in Nat /\ q \in Nat /\ c \in Nat
    BY <1>1
  \* Up to 100% the rest of the price grows with it; from there on the discount
  \* without a cap is the whole price.
  <1>3. /\ p <= q
        /\ v <= 100 => 100 * m - p <= 100 * n - q
        /\ v > 100 => 100 * m <= p /\ 100 * n <= q
    <2>1. PICK k \in Nat : n = m + k
      <3>1. n - m \in Nat /\ n = m + (n - m)
        OBVIOUS
      <3> QED BY <3>1
    <2>2. k * v \in Nat /\ q = p + k * v
      BY <1>1, <2>1
    <2>3. v <= 100 => k * v <= k * 100
      BY <1>1
    <2>4. v > 100 => m * 100 <= p /\ n * 100 <= q
      BY <1>1
    <2> QED BY <1>1, <1>2, <2>1, <2>2, <2>3, <2>4
  <1>4. CASE t.type # "PERCENTAGE"
    <2>0. \A k \in Nat : CalculateDiscount(100 * k, t) = MinOf(10000 * v, 100 * k)
      BY <1>4, GrantedOnCents
    <2>1. /\ less = MinOf(10000 * v, 100 * m)
          /\ more = MinOf(10000 * v, 100 * n)
      BY <2>0
    <2> HIDE DEF less, more
    <2>2. v \in Nat
      BY <1>1
    <2> HIDE DEF v
    <2> QED BY <2>1, <2>2 DEF MinOf, less, more
  <1>5. CASE t.type = "PERCENTAGE" /\ t.maxDiscount = 0
    <2>1. /\ less = MinOf(p, 100 * m)
          /\ more = MinOf(q, 100 * n)
      BY <1>5, GrantedOnCents
    <2>2. v \in Nat
      BY <1>1
    <2> HIDE DEF less, more, v, p, q, c
    <2>3. less <= more /\ 100 * m - less <= 100 * n - more
      BY <1>2, <1>3, <2>1, <2>2 DEF MinOf
    <2> QED BY <2>3 DEF less, more
  <1>6. CASE t.type = "PERCENTAGE" /\ t.maxDiscount # 0
    <2>1. /\ less = MinOf(MinOf(p, c), 100 * m)
          /\ more = MinOf(MinOf(q, c), 100 * n)
      BY <1>6, GrantedOnCents
    <2>2. v \in Nat
      BY <1>1
    <2> HIDE DEF less, more, v, p, q, c
    <2>3. less <= more /\ 100 * m - less <= 100 * n - more
      BY <1>2, <1>3, <2>1, <2>2 DEF MinOf
    <2> QED BY <2>3 DEF less, more
  <1> QED BY <1>4, <1>5, <1>6

\* Another item in the cart never lowers what an order with the same code costs,
\* nor its discount (createOrder lines 37-67).
THEOREM AnotherItemCosts ==
    ASSUME NEW items, Priced(items), NEW i \in items, NEW t \in Terms \cup {NoTerms}
    PROVE  LET some == Subtotal(items \ {i})
               all  == Subtotal(items)
           IN  /\ CalculateDiscount(some, t) <= CalculateDiscount(all, t)
               /\ some - CalculateDiscount(some, t) <= all - CalculateDiscount(all, t)
  <1>1. Priced(items \ {i}) /\ i.price \in Nat
    BY FS_Subset DEF Priced
  <1>2. PICK m \in Nat : Subtotal(items \ {i}) = 100 * m
    BY <1>1, SubtotalInCents
  <1>3. PICK n \in Nat : Subtotal(items) = 100 * n
    BY SubtotalInCents
  <1>4. Subtotal(items) = Subtotal(items \ {i}) + i.price * 100
    BY SubtotalAdds DEF Amount, Cent
  <1>5. m <= n
    BY <1>1, <1>2, <1>3, <1>4
  <1>6. /\ CalculateDiscount(100 * m, t) <= CalculateDiscount(100 * n, t)
        /\ 100 * m - CalculateDiscount(100 * m, t) <= 100 * n - CalculateDiscount(100 * n, t)
    BY <1>5, DearerCosts
  <1> QED BY <1>2, <1>3, <1>6

=============================================================================
