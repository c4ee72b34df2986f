------------------------------ MODULE Checkout ------------------------------
(***************************************************************************)
(* From a cart to a committed order: CartService.addItem, removeItem and   *)
(* clearCart on the database rows, OrdersService.createOrder with its      *)
(* private validateAndGetDiscount, and the administration of discount      *)
(* codes in DiscountService.  The amounts of an order are in Quote.        *)
(*                                                                         *)
(* A worker is a request being served, in any of the app's processes;      *)
(* every `await` of createOrder and addItem ends an action, so any other   *)
(* request may run between a read and the write that relies on it.  The    *)
(* $transaction of createOrder is one action: its writes commit together   *)
(* and it reads nothing.                                                   *)
(***************************************************************************)
EXTENDS Pricing

CONSTANTS
    User, Product, Code, Order,
    Worker,         \* requests served at one time
    Price,          \* product prices, in cents
    Terms,          \* what an admin may ask of a code
    Limit,          \* usageLimit an admin may set; 0 is null or 0, no limit
    NoUser, NoCode, NoOrder,
    MaxAdds         \* bound: no more adds of an item once a cart had so many

Item == [product : Product, price : Price]

OrderType == [user : User, items : SUBSET Item, code : Code \cup {NoCode}]

ASSUME CheckoutAssumption ==
    /\ Price \subseteq Nat \ {0}
    /\ Terms \subseteq TermsType
    /\ Limit \subseteq Nat
    /\ MaxAdds \in Nat
    /\ IsFiniteSet(Worker)
    /\ NoUser \notin User
    /\ NoCode \notin Code
    /\ NoOrder \notin OrderType

VARIABLES
    product,    \* products: price, listed (published and not deleted)
    cart,       \* the cart_items of each user's cart
    code,       \* discount_codes; a row is "none", "live" or "removed"
    usages,     \* discount_usages
    orders,     \* orders with their items; NoOrder before the row exists
    worker,     \* requests in progress
    added,      \* history: how often each item was put in each cart
    widest      \* history: the most permissive limits a code ever had

vars == <<product, cart, code, usages, orders, worker, added, widest>>

codes == <<code, usages, widest>>
carts == <<cart, added>>

IdleWorker == [pc |-> "idle", user |-> NoUser, items |-> {}, code |-> NoCode,
               terms |-> NoTerms]

\* Before startsAt, from then to expiresAt, after it.
Windows == {"early", "open", "over"}

NoRow(status) ==
    [status |-> status, isActive |-> FALSE, window |-> "over",
     usageLimit |-> 0, usageCount |-> 0, terms |-> NoTerms]

Init ==
    /\ product \in [Product -> [price : Price, listed : {TRUE}]]
    /\ cart = [u \in User |-> {}]
    /\ code = [c \in Code |-> NoRow("none")]
    /\ usages = {}
    /\ orders = [o \in Order |-> NoOrder]
    /\ worker = [w \in Worker |-> IdleWorker]
    /\ added = [u \in User |-> [i \in Item |-> 0]]
    /\ widest = [c \in Code |-> [usage |-> 0, perUser |-> 0]]

Finish(w) == worker' = [worker EXCEPT ![w] = IdleWorker]

Serve(w, pc, user, items, c, terms) ==
    worker' = [worker EXCEPT ![w] =
                 [pc |-> pc, user |-> user, items |-> items, code |-> c,
                  terms |-> terms]]

Continue(w, pc, terms) ==
    Serve(w, pc, worker[w].user, worker[w].items, worker[w].code, terms)

-----------------------------------------------------------------------------
(* Products and carts *)

\* update, publish, unpublish and remove of ProductsService, as far as a cart
\* can tell: the price changes, the product becomes available or not.
ChangeProduct(p, price, listed) ==
    /\ product[p] # [price |-> price, listed |-> listed]
    /\ product' = [product EXCEPT ![p] = [price |-> price, listed |-> listed]]
    /\ UNCHANGED <<carts, codes, orders, worker>>

\* addItem reads the product, and with it the price to lock.
AddRead(w, u, p) ==
    /\ worker[w].pc = "idle"
    /\ product[p].listed
    /\ added[u][[product |-> p, price |-> product[p].price]] < MaxAdds
    /\ Serve(w, "add", u, {[product |-> p, price |-> product[p].price]},
             NoCode, NoTerms)
    /\ UNCHANGED <<product, carts, codes, orders>>

HasProduct(items, p) == \E i \in items : i.product = p

\* Mutant: no unique index behind the check.
AddWriteAlways(w) ==
    LET u == worker[w].user
    IN  /\ worker[w].pc = "add"
        /\ \E i \in worker[w].items :
              /\ cart' = [cart EXCEPT ![u] = @ \cup {i}]
              /\ added' = [added EXCEPT ![u][i] = @ + 1]
        /\ Finish(w)
        /\ UNCHANGED <<product, codes, orders>>

\* addItem writes the item: 409 if its read of the cart finds the product, and
\* the unique index (cartId, productId) throws if only its write does.
AddWrite(w) ==
    LET u == worker[w].user
    IN  /\ worker[w].pc = "add"
        /\ \E i \in worker[w].items :
              \/ /\ HasProduct(cart[u], i.product)
                 /\ UNCHANGED carts
              \/ /\ ~HasProduct(cart[u], i.product)
                 /\ cart' = [cart EXCEPT ![u] = @ \cup {i}]
                 /\ added' = [added EXCEPT ![u][i] = @ + 1]
        /\ Finish(w)
        /\ UNCHANGED <<product, codes, orders>>

RemoveItem(u, i) ==
    /\ i \in cart[u]
    /\ cart' = [cart EXCEPT ![u] = @ \ {i}]
    /\ UNCHANGED <<product, added, codes, orders, worker>>

ClearCart(u) ==
    /\ cart[u] # {}
    /\ cart' = [cart EXCEPT ![u] = {}]
    /\ UNCHANGED <<product, added, codes, orders, worker>>

-----------------------------------------------------------------------------
(* createOrder *)

\* The cart is read with its items, whether or not their products are still
\* available; an empty cart is answered 400.
ReadCart(w, u, c) ==
    /\ worker[w].pc = "idle"
    /\ cart[u] # {}
    /\ Serve(w, IF c = NoCode THEN "commit" ELSE "discount", u, cart[u], c,
             NoTerms)
    /\ UNCHANGED <<product, carts, codes, orders>>

\* Mutant: one more than the limit.
RedeemableOnceMore(c) ==
    /\ code[c].status = "live"
    /\ code[c].isActive
    /\ code[c].window = "open"
    /\ code[c].usageLimit # 0 => code[c].usageCount <= code[c].usageLimit

\* The code as validateAndGetDiscount reads it, lines 243-267.
Redeemable(c) ==
    /\ code[c].status = "live"
    /\ code[c].isActive
    /\ code[c].window = "open"
    /\ code[c].usageLimit # 0 => code[c].usageCount < code[c].usageLimit

UsagesOf(c) == {g \in usages : g.code = c}
UsagesBy(c, u) == {g \in usages : g.code = c /\ g.user = u}

\* The outcomes of the minimum purchase, line 286, and of the total, line 68.
PriceAccepted(items, t) ==
    {Subtotal(items) >= t.minPurchase * Cent /\ ~rejected :
        rejected \in TotalRejected(items, t)}

\* With terms t the request goes on to the transaction or is answered 400.
Decide(w, t) ==
    \/ /\ TRUE \in PriceAccepted(worker[w].items, t)
       /\ Continue(w, "commit", t)
    \/ /\ FALSE \in PriceAccepted(worker[w].items, t)
       /\ Finish(w)

\* The code is read and checked; its row is not read again, only the usages of
\* a code with a perUserLimit are.
ReadDiscount(w) ==
    LET c == worker[w].code
    IN  /\ worker[w].pc = "discount"
        /\ \/ ~Redeemable(c) /\ Finish(w)
           \/ /\ Redeemable(c)
              /\ code[c].terms.perUserLimit # 0
              /\ Continue(w, "count", code[c].terms)
           \/ /\ Redeemable(c)
              /\ code[c].terms.perUserLimit = 0
              /\ Decide(w, code[c].terms)
        /\ UNCHANGED <<product, carts, codes, orders>>

\* Mutant: one more than the limit per user.
CountUsagesOnceMore(w) ==
    LET used == Cardinality(UsagesBy(worker[w].code, worker[w].user))
        t == worker[w].terms
    IN  /\ worker[w].pc = "count"
        /\ \/ used <= t.perUserLimit /\ Decide(w, t)
           \/ used > t.perUserLimit /\ Finish(w)
        /\ UNCHANGED <<product, carts, codes, orders>>

CountUsages(w) ==
    LET used == Cardinality(UsagesBy(worker[w].code, worker[w].user))
        t == worker[w].terms
    IN  /\ worker[w].pc = "count"
        /\ \/ used < t.perUserLimit /\ Decide(w, t)
           \/ used >= t.perUserLimit /\ Finish(w)
        /\ UNCHANGED <<product, carts, codes, orders>>

\* The writes of the transaction, for order o with its items; the usage and its
\* count if there is a code; the carts it leaves behind.
PlaceOrder(w, o, items, carts_) ==
    LET r == worker[w]
    IN  /\ r.pc = "commit"
        /\ orders[o] = NoOrder
        /\ orders' = [orders EXCEPT ![o] =
                        [user |-> r.user, items |-> items, code |-> r.code]]
        /\ IF r.code = NoCode
             THEN UNCHANGED <<code, usages>>
             ELSE /\ usages' = usages \cup
                        {[code |-> r.code, user |-> r.user, order |-> o]}
                  /\ code' = [code EXCEPT ![r.code].usageCount = @ + 1]
        /\ cart' = carts_
        /\ Finish(w)
        /\ UNCHANGED <<product, added, widest>>

CodeInPlace(w) ==
    worker[w].code # NoCode => code[worker[w].code].status = "live"

Emptied(u) == [cart EXCEPT ![u] = {}]

\* Mutants: the usage without its foreign key; the price of today; the cart
\* left as it is; items no longer available left out.
CommitDangling(w, o) ==
    PlaceOrder(w, o, worker[w].items, Emptied(worker[w].user))

CommitCurrentPrice(w, o) ==
    /\ CodeInPlace(w)
    /\ PlaceOrder(w, o, {[product |-> i.product, price |-> product[i.product].price] :
                            i \in worker[w].items},
                  Emptied(worker[w].user))

CommitKeepsCart(w, o) ==
    /\ CodeInPlace(w)
    /\ PlaceOrder(w, o, worker[w].items, cart)

CommitSkipsUnlisted(w, o) ==
    /\ CodeInPlace(w)
    /\ PlaceOrder(w, o, {i \in worker[w].items : product[i.product].listed},
                  Emptied(worker[w].user))

\* The transaction: the order with its items, its payment (PlaceOrder of
\* Settlement), the usage, and the cart emptied of whatever is in it by now.
Commit(w, o) ==
    /\ CodeInPlace(w)
    /\ PlaceOrder(w, o, worker[w].items, Emptied(worker[w].user))

\* The transaction is rolled back, or the request ends before it: the usage of
\* a code removed meanwhile violates its foreign key, the database throws, the
\* process dies.
RequestFails(w) ==
    /\ worker[w].pc # "idle"
    /\ Finish(w)
    /\ UNCHANGED <<product, carts, codes, orders>>

-----------------------------------------------------------------------------
(* Discount codes *)

TooHigh(t) == t.type = "PERCENTAGE" /\ t.value > 100

\* The more permissive of two limits, 0 being none.
Wider(a, b) == IF a = 0 \/ b = 0 THEN 0 ELSE IF a < b THEN b ELSE a

\* A code is created active, with an expiresAt to come or gone.
CreateCode(c, t, limit, window) ==
    /\ code[c].status = "none"
    /\ ~TooHigh(t)
    /\ window # "early"
    /\ code' = [code EXCEPT ![c] =
                  [status |-> "live", isActive |-> TRUE, window |-> window,
                   usageLimit |-> limit, usageCount |-> 0, terms |-> t]]
    /\ widest' = [widest EXCEPT ![c] =
                    [usage |-> limit, perUser |-> t.perUserLimit]]
    /\ UNCHANGED <<product, carts, usages, orders, worker>>

\* The request names at least the fields it changes.  A percentage above 100
\* is refused only in a request that names both the type and the value.
UpdateCode(c, t, limit, window) ==
    /\ code[c].status = "live"
    /\ TooHigh(t) => t.type = code[c].terms.type \/ t.value = code[c].terms.value
    /\ code' = [code EXCEPT ![c] =
                  [status |-> "live", isActive |-> code[c].isActive,
                   window |-> window, usageLimit |-> limit,
                   usageCount |-> code[c].usageCount, terms |-> t]]
    /\ widest' = [widest EXCEPT ![c] =
                    [usage |-> Wider(@.usage, limit),
                     perUser |-> Wider(@.perUser, t.perUserLimit)]]
    /\ UNCHANGED <<product, carts, usages, orders, worker>>

\* activate and deactivate.
SetActive(c, active) ==
    /\ code[c].status = "live"
    /\ code[c].isActive # active
    /\ code' = [code EXCEPT ![c].isActive = active]
    /\ UNCHANGED <<product, carts, usages, widest, orders, worker>>

\* Time passes startsAt, then expiresAt.
TimePasses(c) ==
    /\ code[c].status = "live"
    /\ \/ code[c].window = "early" /\ code' = [code EXCEPT ![c].window = "open"]
       \/ code[c].window = "open" /\ code' = [code EXCEPT ![c].window = "over"]
    /\ UNCHANGED <<product, carts, usages, widest, orders, worker>>

\* The usages go with the code (ON DELETE CASCADE); orders keep its id.
RemoveCode(c) ==
    /\ code[c].status = "live"
    /\ code' = [code EXCEPT ![c] = NoRow("removed")]
    /\ usages' = usages \ UsagesOf(c)
    /\ UNCHANGED <<product, carts, widest, orders, worker>>

-----------------------------------------------------------------------------
Shopping ==
    \/ \E p \in Product, price \in Price, listed \in BOOLEAN :
          ChangeProduct(p, price, listed)
    \/ \E w \in Worker, u \in User, p \in Product : AddRead(w, u, p)
    \/ \E w \in Worker : AddWrite(w)
    \/ \E u \in User : \E i \in cart[u] : RemoveItem(u, i)
    \/ \E u \in User : ClearCart(u)

CreatingOrder ==
    \/ \E w \in Worker, u \in User, c \in Code \cup {NoCode} : ReadCart(w, u, c)
    \/ \E w \in Worker :
          \/ ReadDiscount(w)
          \/ CountUsages(w)
          \/ \E o \in Order : Commit(w, o)
          \/ RequestFails(w)

Administration ==
    \E c \in Code :
       \/ \E t \in Terms, limit \in Limit, window \in Windows :
             \/ CreateCode(c, t, limit, window)
             \/ UpdateCode(c, t, limit, window)
       \/ \E active \in BOOLEAN : SetActive(c, active)
       \/ TimePasses(c)
       \/ RemoveCode(c)

Next == Shopping \/ CreatingOrder \/ Administration

Spec == Init /\ [][Next]_vars

-----------------------------------------------------------------------------
(* Type invariant *)

CodeType == [status : {"none", "live", "removed"}, isActive : BOOLEAN,
             window : Windows, usageLimit : Nat, usageCount : Nat,
             terms : TermsType \cup {NoTerms}]

UsageType == [code : Code, user : User, order : Order]

WorkerType == [pc : {"idle", "add", "discount", "count", "commit"},
               user : User \cup {NoUser}, items : SUBSET Item,
               code : Code \cup {NoCode}, terms : TermsType \cup {NoTerms}]

OneItemPerProduct(items) ==
    \A i, j \in items : i.product = j.product => i = j

TypeOK ==
    /\ product \in [Product -> [price : Price, listed : BOOLEAN]]
    /\ cart \in [User -> SUBSET Item]
    /\ \A u \in User : OneItemPerProduct(cart[u])
    /\ code \in [Code -> CodeType]
    /\ usages \in SUBSET UsageType
    /\ orders \in [Order -> OrderType \cup {NoOrder}]
    /\ worker \in [Worker -> WorkerType]
    /\ added \in [User -> [Item -> Nat]]
    /\ widest \in [Code -> [usage : Nat, perUser : Nat]]

-----------------------------------------------------------------------------
(* Safety *)

OrdersWith(c) == {o \in Order : orders[o] # NoOrder /\ orders[o].code = c}

\* The counter of a code, its usages and the orders that used it always agree,
\* in spite of racing orders and of the code being removed under them: the
\* usages of a code are the orders placed with it, and a code that is not there
\* has none.
UsageAccounting ==
    /\ \A g \in usages : /\ orders[g.order] # NoOrder
                         /\ orders[g.order].code = g.code
                         /\ orders[g.order].user = g.user
    /\ \A c \in Code :
          /\ code[c].status = "live" =>
                /\ code[c].usageCount = Cardinality(UsagesOf(c))
                /\ {g.order : g \in UsagesOf(c)} = OrdersWith(c)
          /\ code[c].status # "live" => UsagesOf(c) = {}

\* Requests that found code c redeemable and have not committed yet.
Holders(c) ==
    {w \in Worker : worker[w].code = c /\ worker[w].pc \in {"count", "commit"}}

HoldersBy(c, u) ==
    {w \in Worker : worker[w].code = c /\ worker[w].user = u /\ worker[w].pc = "commit"}

\* How far the check of usageLimit can be overrun: by the other requests served
\* at the time of the last one that passed it, and no further.  With one worker
\* the limit is exact.
LimitOverrun ==
    \A c \in Code :
        code[c].status = "live" /\ widest[c].usage # 0 =>
            code[c].usageCount + Cardinality(Holders(c)) + 1
                <= widest[c].usage + Cardinality(Worker)

\* The same for the usages of one user and perUserLimit.
PerUserOverrun ==
    \A c \in Code, u \in User :
        code[c].status = "live" /\ widest[c].perUser # 0 =>
            Cardinality(UsagesBy(c, u)) + Cardinality(HoldersBy(c, u)) + 1
                <= widest[c].perUser + Cardinality(Worker)

\* schema.prisma:198 "Lock price when added": what is ordered was put in that
\* user's cart, at the price it is ordered at, whatever the price is by then.
PriceLocked ==
    \A o \in Order : orders[o] # NoOrder =>
        \A i \in orders[o].items : added[orders[o].user][i] > 0

OrdersOf(u, i) ==
    {o \in Order : orders[o] # NoOrder /\ orders[o].user = u /\ i \in orders[o].items}

\* orders.service.ts:128 "Clear the cart after order creation": each time an
\* item is put in a cart it is ordered by no more than the requests that can
\* hold that cart at one time; with one worker, once.  Two requests that read
\* the cart before either commits do order it twice.
OrderedOverrun ==
    \A u \in User, i \in Item :
        Cardinality(OrdersOf(u, i)) <= added[u][i] * Cardinality(Worker)

\* orders.service.ts:84 "Create order items from cart items", then clear the
\* cart: what creating an order takes out of the carts is what it orders.  True
\* while requests do not overlap.
ClearsWhatItOrders ==
    [][\A o \in Order : orders[o] = NoOrder /\ orders'[o] # NoOrder =>
          \A u \in User : cart[u] \ cart'[u] \subseteq
              IF u = orders'[o].user THEN orders'[o].items ELSE {}]_vars

-----------------------------------------------------------------------------
(* What the repository says and the code does not do *)

\* schema.prisma:218 usageLimit "Total times it can be used": so while requests
\* do not overlap; LimitOverrun says by how much it fails when they do.
UsageLimitHonoured ==
    \A c \in Code : code[c].status = "live" /\ widest[c].usage # 0 =>
        code[c].usageCount <= widest[c].usage

\* discount.service.ts:119 'Percentage discount cannot exceed 100%'.
PercentageCapped ==
    \A c \in Code : code[c].status = "live" => ~TooHigh(code[c].terms)

=============================================================================
