----------------------------- MODULE CartCache -----------------------------
(***************************************************************************)
(* The cart of one user as CartService shows it: the row with its items,   *)
(* and in the memory of each app process the cached cart and the discount  *)
(* code applied to it (CacheModule.register keeps both in the process;     *)
(* the Redis options of redis.config.ts are not used).  Carts of           *)
(* different users share products and codes only.                          *)
(*                                                                         *)
(* A query takes effect in the database in one action; what the process    *)
(* does with its answer, cache operations included, is another, since they *)
(* complete in the same turn of the event loop.  Between the two any other *)
(* request may run, in this process or another.  createOrder, the admins   *)
(* and the nightly cleanupExpiredCarts change the cart and tell no cache.  *)
(***************************************************************************)
EXTENDS Naturals

CONSTANTS
    Product,
    Process,        \* app processes
    Request,        \* requests of the user served at one time
    Cleaner,        \* cleanups running at one time
    NoView, NoProduct, NoProcess,
    MaxCarts        \* bound: no more carts once so many were created

ASSUME CartCacheAssumption ==
    /\ NoProduct \notin Product
    /\ NoProcess \notin Process
    /\ Process \cap Request = {}
    /\ MaxCarts \in Nat

VARIABLES
    cart,       \* the user's row in carts, its items in cart_items
    listed,     \* products that are published and not deleted
    active,     \* isActive of the discount code; it may be over or used up
    view,       \* the cart cached by each process
    applied,    \* whether the process holds the code for this cart
    missed,     \* history: the cart cached by each process missed a change
    request,    \* the user's requests in progress
    cleaner     \* cleanups in progress: the cart they found expired

vars == <<cart, listed, active, view, applied, missed, request, cleaner>>

caches == <<view, applied, missed>>

\* A cart as it is shown: its items, whether it has a code, and a discount.
View == [items : SUBSET Product, code : BOOLEAN, discounted : BOOLEAN]

Blank == [items |-> {}, code |-> FALSE, discounted |-> FALSE]

ASSUME NoViewAssumption == NoView \notin View

\* Items of products no longer available are filtered out.
Visible == cart.items \cap listed

\* What a request at process p reads while nothing changes.
FreshView(p) == [items |-> Visible, code |-> applied[p],
                 discounted |-> applied[p] /\ active]

HasRow == cart.age # "none"

\* A request at process p that has shown nothing yet; Now, if it is about no
\* product any more, or never was.
About(pc, op, p, product, id) ==
    [pc |-> pc, op |-> op, process |-> p, product |-> product, cart |-> id,
     got |-> Blank, sure |-> FALSE]
Now(pc, op, p) == About(pc, op, p, NoProduct, 0)

Idle == Now("idle", "none", NoProcess)

\* A cart that expired and was extended afterwards is "revived".
Init ==
    /\ cart = [id |-> 0, items |-> {}, age |-> "none"]
    /\ listed = Product
    /\ active = TRUE
    /\ view = [p \in Process |-> NoView]
    /\ applied = [p \in Process |-> FALSE]
    /\ missed = [p \in Process |-> FALSE]
    /\ request = [r \in Request |-> Idle]
    /\ cleaner = [k \in Cleaner |-> [pc |-> "idle", cart |-> 0]]

-----------------------------------------------------------------------------
(* Steps of a request *)

\* r goes on with record q, and nobody else is concerned.
Goes(r, q) == request' = [request EXCEPT ![r] = q]

\* r goes on with record q, having changed what the others see: what they read
\* or wrote before may no longer be the cart.
Disturbed == [s \in Request |-> [request[s] EXCEPT !.sure = FALSE]]
Wrote(r, q) == request' = [Disturbed EXCEPT ![r] = [q EXCEPT !.sure = TRUE]]

\* The carts cached by processes P miss a change: nobody drops them for it.
Misses(P) ==
    /\ missed' = [p \in Process |-> missed[p] \/ (p \in P /\ view[p] # NoView)]
    /\ UNCHANGED <<view, applied>>

\* A process drops its cached cart.
Drops(p) ==
    /\ view' = [view EXCEPT ![p] = NoView]
    /\ missed' = [missed EXCEPT ![p] = FALSE]

Begin(r, op, p, product, pc, id) ==
    /\ request[r].pc = "idle"
    /\ Goes(r, About(pc, op, p, product, id))

At(r, pc) == [request[r] EXCEPT !.pc = pc]

\* getCart without a cached cart; a cached one is answered at once.
GetCart(r, p) ==
    /\ view[p] = NoView
    /\ Begin(r, "show", p, NoProduct, "read", 0)
    /\ UNCHANGED <<cart, listed, active, caches, cleaner>>

\* fetchCartFromDB is one findUnique, for which Prisma sends a query for the row,
\* one for its items and one for their products, without a transaction.  The
\* request is sure of the cart until something changes it.
ReadRow(r) ==
    /\ request[r].pc = "read"
    /\ Goes(r, [At(r, IF HasRow THEN "items" ELSE "create") EXCEPT
                  !.cart = cart.id, !.sure = TRUE])
    /\ UNCHANGED <<cart, listed, active, caches, cleaner>>

InCart(r) == HasRow /\ cart.id = request[r].cart

ReadItems(r) ==
    /\ request[r].pc = "items"
    /\ Goes(r, [At(r, "products") EXCEPT
                  !.got.items = IF InCart(r) THEN cart.items ELSE {}])
    /\ UNCHANGED <<cart, listed, active, caches, cleaner>>

\* Items of products that are not available are filtered out.
ReadProducts(r) ==
    /\ request[r].pc = "products"
    /\ Goes(r, [At(r, "got") EXCEPT !.got.items = @ \cap listed])
    /\ UNCHANGED <<cart, listed, active, caches, cleaner>>

NewCart(items) ==
    /\ ~HasRow
    /\ cart.id < MaxCarts
    /\ cart' = [id |-> cart.id + 1, items |-> items, age |-> "fresh"]

\* A user without a cart gets one; the unique userId lets only one request.
CreateCart(r) ==
    /\ request[r].pc = "create"
    /\ NewCart({})
    /\ Goes(r, [At(r, "got") EXCEPT !.got.items = {}])
    /\ UNCHANGED <<listed, active, caches, cleaner>>

\* The cart v is cached, if it was not, and the request goes on; late, if v may
\* be of before some change.  A request to apply a code sets the code, drops the
\* cart and reads it again, unless the cart is empty or below the code's
\* minPurchase; any other answers v.
Fill(r, v, late) ==
    LET p == request[r].process
    IN  \/ /\ request[r].op = "apply"
           /\ v.items # {}
           /\ applied' = [applied EXCEPT ![p] = TRUE]
           /\ Drops(p)
           /\ Wrote(r, Now("read", "show", p))
        \/ /\ view' = [view EXCEPT ![p] = v]
           /\ missed' = [missed EXCEPT ![p] = late]
           /\ Goes(r, Idle)
           /\ UNCHANGED applied

\* The rest of getCart: without a code in the cache the cart is complete.
FillPlain(r) ==
    /\ request[r].pc = "got"
    /\ ~applied[request[r].process]
    /\ Fill(r, request[r].got, ~request[r].sure)
    /\ UNCHANGED <<cart, listed, active, cleaner>>

SeeCode(r) ==
    /\ request[r].pc = "got"
    /\ applied[request[r].process]
    /\ Goes(r, [At(r, "code") EXCEPT !.got.code = TRUE])
    /\ UNCHANGED <<cart, listed, active, caches, cleaner>>

\* The discount is computed for any active code, valid or not.
ReadCode(r) ==
    /\ request[r].pc = "code"
    /\ Goes(r, [At(r, "priced") EXCEPT !.got.discounted = active])
    /\ UNCHANGED <<cart, listed, active, caches, cleaner>>

FillPriced(r) ==
    /\ request[r].pc = "priced"
    /\ Fill(r, request[r].got, ~request[r].sure)
    /\ UNCHANGED <<cart, listed, active, cleaner>>

\* addItem reads the product, then the cart, 409 if the product is in it.
AddRead(r, p, i) ==
    /\ i \in listed
    /\ Begin(r, "show", p, i, "find", 0)
    /\ UNCHANGED <<cart, listed, active, caches, cleaner>>

AddFind(r) ==
    /\ request[r].pc = "find"
    /\ request[r].product \notin cart.items
    /\ Goes(r, [At(r, IF HasRow THEN "item" ELSE "row") EXCEPT !.cart = cart.id])
    /\ UNCHANGED <<cart, listed, active, caches, cleaner>>

\* What a request writes is missed by the caches of the other processes; its own
\* process drops the cart, if the request gets that far.
WritesAt(p) == Misses(Process \ {p})

AddRow(r) ==
    /\ request[r].pc = "row"
    /\ NewCart({request[r].product})
    /\ WritesAt(request[r].process)
    /\ Wrote(r, Now("written", "show", request[r].process))
    /\ UNCHANGED <<listed, active, cleaner>>

\* The row's id is a foreign key, (cart, product) is unique.
AddItem(r) ==
    /\ request[r].pc = "item"
    /\ InCart(r)
    /\ request[r].product \notin cart.items
    /\ cart' = [cart EXCEPT !.items = @ \cup {request[r].product}]
    /\ WritesAt(request[r].process)
    /\ Wrote(r, At(r, "extend"))
    /\ UNCHANGED <<listed, active, cleaner>>

Extend(r) ==
    /\ request[r].pc = "extend"
    /\ InCart(r)
    /\ cart' = [cart EXCEPT !.age = IF @ = "expired" THEN "revived" ELSE @]
    /\ Goes(r, [Now("written", "show", request[r].process) EXCEPT !.sure = request[r].sure])
    /\ UNCHANGED <<listed, active, caches, cleaner>>

\* removeItem deletes by the id of the item it read, which must still be there.
RemoveItem(r, p, i) ==
    /\ request[r].pc = "idle"
    /\ i \in cart.items
    /\ cart' = [cart EXCEPT !.items = @ \ {i}]
    /\ WritesAt(p)
    /\ Wrote(r, Now("written", "show", p))
    /\ UNCHANGED <<listed, active, cleaner>>

\* clearCart reads the cart, and deletes the items of that one.
ClearRead(r, p) ==
    /\ Begin(r, "clear", p, NoProduct, IF HasRow THEN "clear" ELSE "written", cart.id)
    /\ UNCHANGED <<cart, listed, active, caches, cleaner>>

ClearItems(r) ==
    /\ request[r].pc = "clear"
    /\ cart' = IF InCart(r) THEN [cart EXCEPT !.items = {}] ELSE cart
    /\ WritesAt(request[r].process)
    /\ Wrote(r, Now("written", "clear", request[r].process))
    /\ UNCHANGED <<listed, active, cleaner>>

\* Mutant: the cached cart is kept, and answered.
InvalidateNot(r) ==
    LET p == request[r].process
    IN  /\ request[r].pc = "written"
        /\ IF request[r].op = "clear" \/ view[p] # NoView
             THEN Goes(r, Idle)
             ELSE Goes(r, At(r, "read"))
        /\ UNCHANGED <<cart, listed, active, caches, cleaner>>

\* invalidateCache, and getCart in the same turn, so that it misses.
Invalidate(r) ==
    /\ request[r].pc = "written"
    /\ Drops(request[r].process)
    /\ IF request[r].op = "clear" THEN Goes(r, Idle) ELSE Goes(r, At(r, "read"))
    /\ UNCHANGED <<cart, listed, active, applied, cleaner>>

\* applyDiscount refuses a code that is not active, not yet or no longer valid or
\* used up (such a request does not happen here); its cart may be the cached one.
ApplyRead(r, p) ==
    /\ active
    /\ Begin(r, "apply", p, NoProduct, "vetted", 0)
    /\ UNCHANGED <<cart, listed, active, caches, cleaner>>

Apply(r) ==
    LET p == request[r].process
    IN  /\ request[r].pc = "vetted"
        /\ IF view[p] = NoView
             THEN /\ Goes(r, At(r, "read"))
                  /\ UNCHANGED caches
             ELSE Fill(r, view[p], missed[p])
        /\ UNCHANGED <<cart, listed, active, cleaner>>

\* Mutant: the cart cached with the discount is kept.
RemoveDiscountOnly(r, p) ==
    /\ request[r].pc = "idle"
    /\ applied' = [applied EXCEPT ![p] = FALSE]
    /\ Wrote(r, Now("read", "show", p))
    /\ UNCHANGED <<cart, listed, active, view, missed, cleaner>>

RemoveDiscount(r, p) ==
    /\ request[r].pc = "idle"
    /\ applied' = [applied EXCEPT ![p] = FALSE]
    /\ Drops(p)
    /\ Wrote(r, Now("read", "show", p))
    /\ UNCHANGED <<cart, listed, active, cleaner>>

\* A query fails: the row, the item or the cart is there already or no more,
\* or the database is.  An item added stays in the cart, and in no cache.
RequestFails(r) ==
    /\ request[r].pc \in {"read", "items", "products", "create", "code", "find",
                          "row", "item", "extend", "clear"}
    /\ Misses(IF request[r].pc = "extend" THEN {request[r].process} ELSE {})
    /\ Goes(r, Idle)
    /\ UNCHANGED <<cart, listed, active, cleaner>>

-----------------------------------------------------------------------------
(* What no request of CartService does *)

Disturb == request' = Disturbed /\ Misses(Process)

\* The transaction of createOrder empties the cart.
Order ==
    /\ cart.items # {}
    /\ cart' = [cart EXCEPT !.items = {}]
    /\ Disturb
    /\ UNCHANGED <<listed, active, cleaner>>

ChangeProduct(i) ==
    /\ listed' = IF i \in listed THEN listed \ {i} ELSE listed \cup {i}
    /\ Disturb
    /\ UNCHANGED <<cart, active, cleaner>>

ChangeCode ==
    /\ active' = ~active
    /\ Disturb
    /\ UNCHANGED <<cart, listed, cleaner>>

\* The lifetime of a cached cart, and of a code in the cache, ends.
ExpireView(p) ==
    /\ view[p] # NoView
    /\ Drops(p)
    /\ UNCHANGED <<cart, listed, active, applied, request, cleaner>>

ExpireCode(p) ==
    /\ applied[p]
    /\ applied' = [applied EXCEPT ![p] = FALSE]
    /\ missed' = [missed EXCEPT ![p] = view[p] # NoView]
    /\ request' = Disturbed
    /\ UNCHANGED <<cart, listed, active, view, cleaner>>

\* A process dies with its memory and its requests.
Crash(p) ==
    /\ Drops(p)
    /\ applied' = [applied EXCEPT ![p] = FALSE]
    /\ request' = [r \in Request |-> IF request[r].process = p THEN Idle
                                     ELSE Disturbed[r]]
    /\ UNCHANGED <<cart, listed, active, cleaner>>

-----------------------------------------------------------------------------
(* cleanupExpiredCarts *)

\* Seven days pass without an item added.
CartExpires ==
    /\ cart.age \in {"fresh", "revived"}
    /\ cart' = [cart EXCEPT !.age = "expired"]
    /\ UNCHANGED <<listed, active, caches, request, cleaner>>

CleanGoes(k, pc, id) == cleaner' = [cleaner EXCEPT ![k] = [pc |-> pc, cart |-> id]]

CleanRead(k) ==
    /\ cleaner[k].pc = "idle"
    /\ cart.age = "expired"
    /\ CleanGoes(k, "items", cart.id)
    /\ UNCHANGED <<cart, listed, active, caches, request>>

\* Mutant: the items of the user's cart, whichever it is by now.
CleanItemsOfUser(k) ==
    /\ cleaner[k].pc = "items"
    /\ cart' = [cart EXCEPT !.items = {}]
    /\ CleanGoes(k, "row", 0)
    /\ Disturb
    /\ UNCHANGED <<listed, active>>

\* The items of the cart that was read, even if it was extended since.
CleanItems(k) ==
    /\ cleaner[k].pc = "items"
    /\ cart' = IF cart.id = cleaner[k].cart THEN [cart EXCEPT !.items = {}] ELSE cart
    /\ CleanGoes(k, "row", 0)
    /\ Disturb
    /\ UNCHANGED <<listed, active>>

\* Mutant: the items of a cart do not go with it.
CleanRowOnly(k) ==
    /\ cleaner[k].pc = "row"
    /\ cart' = IF cart.age = "expired" THEN [cart EXCEPT !.age = "none"] ELSE cart
    /\ CleanGoes(k, "idle", 0)
    /\ Disturb
    /\ UNCHANGED <<listed, active>>

\* The carts that are expired by now, with any items put in them since.
CleanRow(k) ==
    /\ cleaner[k].pc = "row"
    /\ cart' = IF cart.age = "expired"
                 THEN [cart EXCEPT !.items = {}, !.age = "none"]
                 ELSE cart
    /\ CleanGoes(k, "idle", 0)
    /\ Disturb
    /\ UNCHANGED <<listed, active>>

CleanFails(k) ==
    /\ cleaner[k].pc # "idle"
    /\ CleanGoes(k, "idle", 0)
    /\ UNCHANGED <<cart, listed, active, caches, request>>

-----------------------------------------------------------------------------
Serving(r, p) ==
    \/ GetCart(r, p)
    \/ \E i \in Product : AddRead(r, p, i) \/ RemoveItem(r, p, i)
    \/ ClearRead(r, p)
    \/ ApplyRead(r, p)
    \/ RemoveDiscount(r, p)

RequestStep(r) ==
    \/ ReadRow(r)
    \/ ReadItems(r)
    \/ ReadProducts(r)
    \/ CreateCart(r)
    \/ FillPlain(r)
    \/ SeeCode(r)
    \/ ReadCode(r)
    \/ FillPriced(r)
    \/ AddFind(r)
    \/ AddRow(r)
    \/ AddItem(r)
    \/ Extend(r)
    \/ ClearItems(r)
    \/ Invalidate(r)
    \/ Apply(r)
    \/ RequestFails(r)

Environment ==
    \/ Order
    \/ \E i \in Product : ChangeProduct(i)
    \/ ChangeCode
    \/ \E p \in Process : ExpireView(p) \/ ExpireCode(p) \/ Crash(p)

Cleanup ==
    \/ CartExpires
    \/ \E k \in Cleaner : CleanRead(k) \/ CleanItems(k) \/ CleanRow(k) \/ CleanFails(k)

Next ==
    \/ \E r \in Request : RequestStep(r) \/ \E p \in Process : Serving(r, p)
    \/ Environment
    \/ Cleanup

Spec == Init /\ [][Next]_vars

-----------------------------------------------------------------------------
(* Type invariant *)

RequestType ==
    [pc : {"idle", "read", "items", "products", "create", "got", "code", "priced",
           "find", "row", "item", "extend", "clear", "written", "vetted"},
     op : {"none", "show", "clear", "apply"},
     process : Process \cup {NoProcess}, product : Product \cup {NoProduct},
     cart : 0 .. MaxCarts, got : View, sure : BOOLEAN]

TypeOK ==
    /\ cart \in [id : 0 .. MaxCarts, items : SUBSET Product,
                 age : {"none", "fresh", "expired", "revived"}]
    /\ ~HasRow => cart.items = {}
    /\ listed \in SUBSET Product
    /\ active \in BOOLEAN
    /\ view \in [Process -> View \cup {NoView}]
    /\ applied \in [Process -> BOOLEAN]
    /\ missed \in [Process -> BOOLEAN]
    /\ request \in [Request -> RequestType]
    /\ \A r \in Request : request[r].pc # "idle" => request[r].process \in Process
    /\ cleaner \in [Cleaner -> [pc : {"idle", "items", "row"}, cart : 0 .. MaxCarts]]

-----------------------------------------------------------------------------
(* Safety *)

\* cart.service.ts:121 "Invalidate cache and return fresh cart": what a request
\* answers is the cart as it is then, unless something changed the cart after the
\* request wrote it or began to read it: in spite of its reading the cart piece
\* by piece, and of older reads that fill the cache meanwhile.
AnswersFresh ==
    [][\A r \in Request, p \in Process :
             /\ request[r].sure
             /\ request[r].process = p
             /\ request[r].pc \in {"written", "got", "priced"}
             /\ request'[r].pc = "idle"
             /\ view'[p] # NoView
             => view'[p] = FreshView(p)']_vars

\* A cached cart is the cart, unless it missed a change: one made by others than
\* the requests of its process, one that overtook the read that filled the cache,
\* or that of an addItem that broke off.  Every other change finds a request that
\* is about to drop the cached cart.
StaleIsMissed ==
    \A p \in Process :
        \/ view[p] \in {NoView, FreshView(p)}
        \/ missed[p]
        \/ \E r \in Request : /\ request[r].process = p
                              /\ request[r].pc \in {"extend", "written"}

\* schedule-tasks.service.ts:124 "Find expired carts": a cleanup takes what is in
\* the cart only if the cart is expired at that moment, or, and then the row is
\* left, if it is the cart that this cleanup found expired, extended since by an
\* addItem.  So a cart that replaced the one it found loses nothing before it
\* expires itself.
CleanupSpares ==
    [][\A k \in Cleaner : cleaner'[k] # cleaner[k] /\ cart' # cart =>
          \/ cart.age = "expired"
          \/ /\ cart.age = "revived"
             /\ cleaner[k].pc = "items"
             /\ cleaner[k].cart = cart.id
             /\ cart'.age = cart.age]_vars

=============================================================================
