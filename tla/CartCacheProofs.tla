-------------------------- MODULE CartCacheProofs --------------------------
(***************************************************************************)
(* Theorems of CartCache, for any products, processes, requests, cleanups  *)
(* and bound on carts.                                                     *)
(***************************************************************************)
EXTENDS CartCache, TLAPS

-----------------------------------------------------------------------------
(* The inductive invariant *)

\* What a request has in hand: the product it adds, and of the cart it shows the
\* items first, then the code, then the discount.
HandOK(q) ==
    /\ q.pc \in {"find", "row", "item"} => q.product \in Product
    /\ q.pc \notin {"code", "priced"} => ~q.got.code
    /\ q.pc = "code" => q.got.code
    /\ q.pc # "priced" => ~q.got.discounted

InHand == \A r \in Request : HandOK(request[r])

\* A request that nothing has overtaken since it wrote or began to read is at the
\* cart of the moment, and what it has read is what it would read now.
FreshOK(q) ==
    q.sure =>
        /\ q.pc = "items" => HasRow /\ q.cart = cart.id
        /\ q.pc = "products" => q.got.items = cart.items
        /\ q.pc \in {"got", "code"} => q.got.items = Visible
        /\ q.pc = "code" => applied[q.process]
        /\ q.pc = "priced" => q.got = FreshView(q.process)

SureFresh == \A r \in Request : FreshOK(request[r])

\* A cleanup about to delete the items of a cart found that cart expired.
Cleaning ==
    \A k \in Cleaner :
        /\ cleaner[k].cart <= cart.id
        /\ cleaner[k].pc = "items" /\ cleaner[k].cart = cart.id => cart.age # "fresh"

IInv == TypeOK /\ InHand /\ SureFresh /\ Cleaning

-----------------------------------------------------------------------------
(* Records *)

Serves(q) == q \in RequestType /\ (q.pc # "idle" => q.process \in Process)

\* The requests are well typed.
RequestsOK ==
    /\ request \in [Request -> RequestType]
    /\ \A r \in Request : request[r].pc # "idle" => request[r].process \in Process

\* What a request is turned into by going on, or by another's write, is a request.
LEMMA IdleOK == Serves(Idle)
  BY CartCacheAssumption DEF Serves, Idle, Now, About, RequestType, Blank, View

LEMMA AtOK ==
    ASSUME RequestsOK, NEW r \in Request, request[r].pc # "idle",
           NEW pc \in {"read", "items", "products", "create", "got", "code", "priced",
                       "find", "row", "item", "extend", "clear", "written", "vetted"}
    PROVE  /\ Serves(At(r, pc))
           /\ At(r, pc) = [request[r] EXCEPT !.pc = pc]
           /\ At(r, pc).pc = pc
           /\ At(r, pc).got = request[r].got
           /\ At(r, pc).sure = request[r].sure
           /\ At(r, pc).process = request[r].process
           /\ At(r, pc).op = request[r].op
           /\ At(r, pc).product = request[r].product
           /\ At(r, pc).cart = request[r].cart
  BY DEF RequestsOK, Serves, At, RequestType

LEMMA NowOK ==
    ASSUME NEW pc \in {"read", "written"}, NEW op \in {"show", "clear"}, NEW p \in Process
    PROVE  /\ Serves(Now(pc, op, p))
           /\ Now(pc, op, p).pc = pc
           /\ Now(pc, op, p).got = Blank
           /\ Now(pc, op, p).process = p
<1>1. Blank \in View
  BY DEF Blank, View
<1>2. Now(pc, op, p) \in RequestType
  BY <1>1, CartCacheAssumption DEF Now, About, RequestType
<1> QED
  BY <1>2 DEF Now, About, Serves

LEMMA SureOK ==
    ASSUME NEW q, Serves(q), NEW b \in BOOLEAN
    PROVE  /\ Serves([q EXCEPT !.sure = b])
           /\ [q EXCEPT !.sure = b].pc = q.pc
           /\ [q EXCEPT !.sure = b].got = q.got
           /\ [q EXCEPT !.sure = b].process = q.process
           /\ [q EXCEPT !.sure = b].op = q.op
           /\ [q EXCEPT !.sure = b].product = q.product
           /\ [q EXCEPT !.sure = b].cart = q.cart
           /\ [q EXCEPT !.sure = b].sure = b
  BY DEF Serves, RequestType

LEMMA CartOK ==
    ASSUME NEW q, Serves(q), NEW id \in 0 .. MaxCarts
    PROVE  /\ Serves([q EXCEPT !.cart = id])
           /\ [q EXCEPT !.cart = id].pc = q.pc
           /\ [q EXCEPT !.cart = id].got = q.got
           /\ [q EXCEPT !.cart = id].product = q.product
           /\ [q EXCEPT !.cart = id].sure = q.sure
           /\ [q EXCEPT !.cart = id].cart = id
  BY DEF Serves, RequestType

LEMMA GoesOK ==
    ASSUME RequestsOK, NEW r \in Request, NEW q, Serves(q), Goes(r, q)
    PROVE  /\ RequestsOK'
           /\ request'[r] = q
           /\ \A s \in Request \ {r} : request'[s] = request[s]
  BY DEF RequestsOK, Serves, Goes

LEMMA DisturbedOK ==
    ASSUME RequestsOK
    PROVE  /\ Disturbed \in [Request -> RequestType]
           /\ \A s \in Request : /\ Disturbed[s].pc = request[s].pc
                                 /\ Disturbed[s].got = request[s].got
                                 /\ Disturbed[s].process = request[s].process
                                 /\ Disturbed[s].op = request[s].op
                                 /\ Disturbed[s].product = request[s].product
                                 /\ ~Disturbed[s].sure
  BY DEF RequestsOK, Disturbed, RequestType

LEMMA WroteOK ==
    ASSUME RequestsOK, NEW r \in Request, NEW q, Serves(q), Wrote(r, q)
    PROVE  /\ RequestsOK'
           /\ request'[r] = [q EXCEPT !.sure = TRUE]
           /\ \A s \in Request \ {r} : request'[s] = Disturbed[s]
<1>1. Serves([q EXCEPT !.sure = TRUE])
  BY SureOK
<1>2. request' = [Disturbed EXCEPT ![r] = [q EXCEPT !.sure = TRUE]]
  BY DEF Wrote
<1>3. \A s \in Request \ {r} : request'[s] = Disturbed[s]
  BY <1>2, DisturbedOK
<1>4. request'[r] = [q EXCEPT !.sure = TRUE]
  BY <1>2, DisturbedOK
<1>5. RequestsOK'
  BY <1>1, <1>2, DisturbedOK DEF RequestsOK, Serves
<1> QED
  BY <1>3, <1>4, <1>5

-----------------------------------------------------------------------------
(* The requests after a step *)

\* Whoever reads the cart or the code finds them the same as before.
Same ==
    /\ cart'.items = cart.items
    /\ listed' = listed
    /\ active' = active
    /\ applied' = applied
    /\ HasRow => HasRow' /\ cart'.id = cart.id

\* A request goes on.
LEMMA GoesKeeps ==
    ASSUME IInv, NEW r \in Request, NEW q, Serves(q), HandOK(q), FreshOK(q),
           Goes(r, q), Same
    PROVE  RequestsOK' /\ InHand' /\ SureFresh'
<1>1. RequestsOK
  BY DEF IInv, TypeOK, RequestsOK
<1>2. RequestsOK' /\ request'[r] = q /\ \A s \in Request \ {r} : request'[s] = request[s]
  BY <1>1, GoesOK
<1>3. ASSUME NEW s \in Request
      PROVE  HandOK(request[s])' /\ FreshOK(request[s])'
  <2>1. CASE s = r
    BY <1>2, <2>1 DEF HandOK, FreshOK, FreshView, Same, Visible
  <2>2. CASE s # r
    BY <1>2, <2>2 DEF IInv, InHand, SureFresh, HandOK, FreshOK, FreshView, Same, Visible
  <2> QED
    BY <2>1, <2>2
<1> QED
  BY <1>2, <1>3 DEF InHand, SureFresh

\* A request writes: it has computed nothing yet, and the others are no longer sure
\* of the cart.
LEMMA WroteKeeps ==
    ASSUME IInv, NEW r \in Request, NEW q, Serves(q), HandOK(q),
           q.pc \notin {"items", "products", "got", "code", "priced"}, Wrote(r, q)
    PROVE  RequestsOK' /\ InHand' /\ SureFresh'
<1>1. RequestsOK
  BY DEF IInv, TypeOK, RequestsOK
<1>2. /\ RequestsOK'
      /\ request'[r] = [q EXCEPT !.sure = TRUE]
      /\ \A s \in Request \ {r} : request'[s] = Disturbed[s]
  BY <1>1, WroteOK
<1>3. /\ request'[r].pc = q.pc
      /\ request'[r].got = q.got
      /\ request'[r].product = q.product
  BY <1>2, SureOK
<1>4. ASSUME NEW s \in Request
      PROVE  HandOK(request[s])' /\ FreshOK(request[s])'
  <2>1. CASE s = r
    BY <1>3, <2>1 DEF HandOK, FreshOK
  <2>2. CASE s # r
    BY <1>1, <1>2, <2>2, DisturbedOK DEF IInv, InHand, HandOK, FreshOK
  <2> QED
    BY <2>1, <2>2
<1> QED
  BY <1>2, <1>4 DEF InHand, SureFresh

LEMMA DisturbKeeps ==
    ASSUME IInv, request' = Disturbed
    PROVE  RequestsOK' /\ InHand' /\ SureFresh'
<1>1. RequestsOK
  BY DEF IInv, TypeOK, RequestsOK
<1> QED
  BY <1>1, DisturbedOK
     DEF IInv, RequestsOK, InHand, SureFresh, HandOK, FreshOK

-----------------------------------------------------------------------------
(* The steps of a request *)

\* The type invariant but for the requests.
DataOK ==
    /\ cart \in [id : 0 .. MaxCarts, items : SUBSET Product,
                 age : {"none", "fresh", "expired", "revived"}]
    /\ ~HasRow => cart.items = {}
    /\ listed \in SUBSET Product
    /\ active \in BOOLEAN
    /\ view \in [Process -> View \cup {NoView}]
    /\ applied \in [Process -> BOOLEAN]
    /\ missed \in [Process -> BOOLEAN]
    /\ cleaner \in [Cleaner -> [pc : {"idle", "items", "row"}, cart : 0 .. MaxCarts]]

Requests == RequestsOK /\ InHand /\ SureFresh

LEMMA IInvParts == IInv <=> DataOK /\ Requests /\ Cleaning
  BY DEF IInv, TypeOK, DataOK, Requests, RequestsOK

LEMMA PartsKept ==
    ASSUME DataOK', Requests', Cleaning'
    PROVE  IInv'
  BY DEF IInv, TypeOK, DataOK, Requests, RequestsOK

LEMMA MissesOK ==
    ASSUME DataOK, NEW P, Misses(P)
    PROVE  /\ missed' \in [Process -> BOOLEAN]
           /\ view' = view
           /\ applied' = applied
           /\ \A p \in Process : p \in P => view'[p] = NoView \/ missed'[p]
           /\ \A p \in Process : p \notin P => missed'[p] = missed[p]
  BY DEF Misses, DataOK

LEMMA DropsOK ==
    ASSUME DataOK, NEW p \in Process, Drops(p)
    PROVE  /\ missed' \in [Process -> BOOLEAN]
           /\ view' \in [Process -> View \cup {NoView}]
           /\ view'[p] = NoView
           /\ \A g \in Process \ {p} : view'[g] = view[g] /\ missed'[g] = missed[g]
  BY DEF Drops, DataOK

LEMMA QuietStep ==
    ASSUME IInv, Requests', UNCHANGED <<cart, listed, active, caches, cleaner>>
    PROVE  IInv'
<1>1. DataOK' /\ Cleaning'
  BY IInvParts DEF DataOK, HasRow, Cleaning, caches
<1> QED
  BY <1>1, PartsKept

\* The steps that change nothing but the request.
LEMMA BeginOK ==
    ASSUME NEW pc \in {"read", "find", "vetted", "clear", "written"},
           NEW op \in {"show", "apply", "clear"},
           NEW p \in Process, NEW i \in Product \cup {NoProduct}, NEW id \in 0 .. MaxCarts,
           pc = "find" => i \in Product
    PROVE  LET q == About(pc, op, p, i, id) IN Serves(q) /\ HandOK(q) /\ FreshOK(q)
<1>1. Blank \in View
  BY DEF Blank, View
<1>2. About(pc, op, p, i, id) \in RequestType
  BY <1>1 DEF About, RequestType
<1> QED
  BY <1>2 DEF About, Serves, HandOK, FreshOK, Blank

LEMMA BeginStep ==
    ASSUME IInv, NEW r \in Request, NEW p \in Process,
           NEW pc \in {"read", "find", "vetted", "clear", "written"},
           NEW op \in {"show", "apply", "clear"},
           NEW i \in Product \cup {NoProduct}, NEW id \in 0 .. MaxCarts,
           pc = "find" => i \in Product,
           Begin(r, op, p, i, pc, id),
           UNCHANGED <<cart, listed, active, caches, cleaner>>
    PROVE  IInv'
<1> DEFINE q == About(pc, op, p, i, id)
<1>1. Goes(r, q)
  BY DEF Begin
<1>2. Serves(q) /\ HandOK(q) /\ FreshOK(q)
  BY BeginOK
<1>3. Same
  BY DEF Same, HasRow, caches
<1> HIDE DEF q
<1>4. Requests'
  BY <1>1, <1>2, <1>3, GoesKeeps DEF Requests
<1> QED
  BY <1>4, QuietStep

LEMMA GetCartStep ==
    ASSUME IInv, NEW r \in Request, NEW p \in Process, GetCart(r, p)
    PROVE  IInv'
  BY BeginStep, CartCacheAssumption DEF GetCart

LEMMA AddReadStep ==
    ASSUME IInv, NEW r \in Request, NEW p \in Process, NEW i \in Product, AddRead(r, p, i)
    PROVE  IInv'
  BY BeginStep, CartCacheAssumption DEF AddRead

LEMMA ClearReadStep ==
    ASSUME IInv, NEW r \in Request, NEW p \in Process, ClearRead(r, p)
    PROVE  IInv'
<1>1. cart.id \in 0 .. MaxCarts
  BY IInvParts DEF DataOK
<1>2. PICK pc \in {"clear", "written"} : Begin(r, "clear", p, NoProduct, pc, cart.id)
  BY DEF ClearRead
<1> QED
  BY <1>1, <1>2, BeginStep DEF ClearRead

LEMMA AddFindStep ==
    ASSUME IInv, NEW r \in Request, AddFind(r)
    PROVE  IInv'
<1>1. /\ RequestsOK /\ DataOK
      /\ HandOK(request[r])
      /\ request[r].pc = "find"
  BY IInvParts DEF Requests, InHand, AddFind
<1>2. Same /\ UNCHANGED <<cart, listed, active, caches, cleaner>>
  BY DEF AddFind, Same, HasRow, caches
<1>3. PICK pc \in {"item", "row"} : Goes(r, [At(r, pc) EXCEPT !.cart = cart.id])
  BY DEF AddFind
<1>4. PICK a : /\ a = At(r, pc) /\ Serves(a)
               /\ a.pc = pc /\ a.got = request[r].got /\ a.product = request[r].product
  BY <1>1, AtOK
<1> DEFINE q == [a EXCEPT !.cart = cart.id]
<1>5. Serves(q) /\ q.pc = pc /\ q.got = request[r].got /\ q.product = request[r].product
  BY <1>1, <1>4, CartOK DEF DataOK
<1>6. HandOK(q) /\ FreshOK(q)
  BY <1>1, <1>5 DEF HandOK, FreshOK
<1> HIDE DEF q
<1>7. Goes(r, q)
  BY <1>3, <1>4 DEF q
<1>8. Requests'
  BY <1>2, <1>5, <1>6, <1>7, GoesKeeps DEF Requests
<1> QED
  BY <1>2, <1>8, QuietStep

LEMMA ApplyReadStep ==
    ASSUME IInv, NEW r \in Request, NEW p \in Process, ApplyRead(r, p)
    PROVE  IInv'
  BY BeginStep, CartCacheAssumption DEF ApplyRead

LEMMA ReadRowStep ==
    ASSUME IInv, NEW r \in Request, ReadRow(r)
    PROVE  IInv'
<1> DEFINE pc == IF HasRow THEN "items" ELSE "create"
<1>1. RequestsOK /\ DataOK /\ HandOK(request[r]) /\ request[r].pc = "read"
  BY IInvParts DEF Requests, InHand, ReadRow
<1>2. Same /\ UNCHANGED <<cart, listed, active, caches, cleaner>>
  BY DEF ReadRow, Same, HasRow, caches
<1>3. pc \in {"items", "create"} /\ (pc = "items" => HasRow)
  OBVIOUS
<1>4. Goes(r, [At(r, pc) EXCEPT !.cart = cart.id, !.sure = TRUE])
  BY DEF ReadRow
<1> HIDE DEF pc
<1>5. PICK a : a = At(r, pc) /\ Serves(a) /\ a.pc = pc /\ a.got = request[r].got
  BY <1>1, <1>3, AtOK
<1> DEFINE c == [a EXCEPT !.cart = cart.id]
           q == [c EXCEPT !.sure = TRUE]
<1>6. Serves(q) /\ q.pc = pc /\ q.got = request[r].got /\ q.cart = cart.id
  <2>1. Serves(c) /\ c.pc = pc /\ c.got = request[r].got /\ c.cart = cart.id
    BY <1>1, <1>5, CartOK DEF DataOK
  <2> HIDE DEF c
  <2> QED
    BY <2>1, SureOK
<1>7. HandOK(q) /\ FreshOK(q)
  BY <1>1, <1>3, <1>6 DEF HandOK, FreshOK
<1>9. Goes(r, q)
  BY <1>4, <1>5 DEF Serves, RequestType
<1> HIDE DEF q
<1>8. Requests'
  BY <1>2, <1>6, <1>7, <1>9, GoesKeeps DEF Requests
<1> QED
  BY <1>2, <1>8, QuietStep

\* A request at pc that has learned the items S and nothing else.
LEMMA ReadOK ==
    ASSUME RequestsOK, NEW r \in Request, request[r].pc \in {"items", "products", "create"},
           HandOK(request[r]), NEW pc \in {"products", "got"}, NEW S \in SUBSET Product
    PROVE  LET q == [At(r, pc) EXCEPT !.got.items = S]
           IN  /\ Serves(q)
               /\ q.pc = pc
               /\ q.got.items = S
               /\ q.sure = request[r].sure
               /\ HandOK(q)
<1>1. PICK a : /\ a = At(r, pc) /\ Serves(a)
               /\ a.pc = pc /\ a.got = request[r].got /\ a.sure = request[r].sure
  BY AtOK
<1>2. PICK q : q = [a EXCEPT !.got.items = S]
  OBVIOUS
<1>4. /\ Serves(q)
      /\ q.pc = pc
      /\ q.got.items = S
      /\ q.sure = request[r].sure
      /\ q.got.code = request[r].got.code
      /\ q.got.discounted = request[r].got.discounted
  BY <1>1, <1>2 DEF Serves, RequestType, View
<1>3. HandOK(q)
  BY <1>4 DEF HandOK
<1> QED
  BY <1>1, <1>2, <1>3, <1>4

LEMMA ReadItemsStep ==
    ASSUME IInv, NEW r \in Request, ReadItems(r)
    PROVE  IInv'
<1> DEFINE S == IF InCart(r) THEN cart.items ELSE {}
           q == [At(r, "products") EXCEPT !.got.items = S]
<1>1. /\ RequestsOK /\ DataOK
      /\ HandOK(request[r])
      /\ FreshOK(request[r])
      /\ request[r].pc = "items"
  BY IInvParts DEF Requests, InHand, SureFresh, ReadItems
<1>2. Same /\ UNCHANGED <<cart, listed, active, caches, cleaner>>
  BY DEF ReadItems, Same, HasRow, caches
<1>3. S \in SUBSET Product
  BY <1>1 DEF DataOK
<1>4. request[r].sure => S = cart.items
  BY <1>1 DEF FreshOK, InCart
<1>5. Goes(r, q)
  BY DEF ReadItems
<1> HIDE DEF S
<1>6. Serves(q) /\ HandOK(q) /\ q.pc = "products" /\ q.got.items = S /\ q.sure = request[r].sure
  BY <1>1, <1>3, ReadOK
<1>7. FreshOK(q)
  BY <1>4, <1>6 DEF FreshOK
<1> HIDE DEF q
<1>8. Requests'
  BY <1>2, <1>5, <1>6, <1>7, GoesKeeps DEF Requests
<1> QED
  BY <1>2, <1>8, QuietStep

LEMMA ReadProductsStep ==
    ASSUME IInv, NEW r \in Request, ReadProducts(r)
    PROVE  IInv'
<1> DEFINE S == request[r].got.items \cap listed
           q == [At(r, "got") EXCEPT !.got.items = S]
<1>1. /\ RequestsOK /\ DataOK
      /\ HandOK(request[r])
      /\ FreshOK(request[r])
      /\ request[r].pc = "products"
  BY IInvParts DEF Requests, InHand, SureFresh, ReadProducts
<1>2. Same /\ UNCHANGED <<cart, listed, active, caches, cleaner>>
  BY DEF ReadProducts, Same, HasRow, caches
<1>3. S \in SUBSET Product
  BY <1>1 DEF DataOK
<1>4. request[r].sure => S = Visible
  BY <1>1 DEF FreshOK, Visible
<1>5. Goes(r, q)
  <2>1. At(r, "got").got = request[r].got /\ At(r, "got") \in RequestType
    BY <1>1, AtOK DEF Serves
  <2> QED
    BY <2>1 DEF ReadProducts, RequestType, View
<1> HIDE DEF S
<1>6. Serves(q) /\ HandOK(q) /\ q.pc = "got" /\ q.got.items = S /\ q.sure = request[r].sure
  BY <1>1, <1>3, ReadOK
<1>7. FreshOK(q)
  BY <1>4, <1>6 DEF FreshOK
<1> HIDE DEF q
<1>8. Requests'
  BY <1>2, <1>5, <1>6, <1>7, GoesKeeps DEF Requests
<1> QED
  BY <1>2, <1>8, QuietStep

LEMMA SeeCodeStep ==
    ASSUME IInv, NEW r \in Request, SeeCode(r)
    PROVE  IInv'
<1>1. /\ RequestsOK
      /\ HandOK(request[r])
      /\ FreshOK(request[r])
      /\ request[r].pc = "got"
      /\ applied[request[r].process]
  BY IInvParts DEF Requests, InHand, SureFresh, SeeCode
<1>2. PICK a : /\ a = At(r, "code") /\ Serves(a) /\ a.process = request[r].process
               /\ a.pc = "code" /\ a.got = request[r].got /\ a.sure = request[r].sure
  BY <1>1, AtOK
<1>8. PICK q : q = [a EXCEPT !.got.code = TRUE]
  OBVIOUS
<1>3. /\ Serves(q)
      /\ q.pc = "code"
      /\ q.process = request[r].process
      /\ q.sure = request[r].sure
      /\ q.got.items = request[r].got.items
      /\ q.got.code = TRUE
      /\ q.got.discounted = request[r].got.discounted
  BY <1>2, <1>8 DEF Serves, RequestType, View
<1>4. HandOK(q) /\ FreshOK(q)
  BY <1>1, <1>3 DEF HandOK, FreshOK
<1>5. Goes(r, q) /\ UNCHANGED <<cart, listed, active, caches, cleaner>>
  BY <1>2, <1>8 DEF SeeCode
<1>6. Same
  BY <1>5 DEF Same, HasRow, caches
<1>7. Requests'
  BY <1>3, <1>4, <1>5, <1>6, GoesKeeps DEF Requests
<1> QED
  BY <1>5, <1>7, QuietStep

LEMMA ReadCodeStep ==
    ASSUME IInv, NEW r \in Request, ReadCode(r)
    PROVE  IInv'
<1> DEFINE q == [At(r, "priced") EXCEPT !.got.discounted = active]
<1>1. /\ RequestsOK
      /\ HandOK(request[r])
      /\ FreshOK(request[r])
      /\ request[r].pc = "code"
      /\ active \in BOOLEAN
  BY IInvParts DEF Requests, InHand, SureFresh, ReadCode, DataOK
<1>2. At(r, "priced") \in RequestType /\ Serves(At(r, "priced"))
  BY <1>1, AtOK DEF Serves
<1>3. /\ Serves(q)
      /\ q.pc = "priced"
      /\ q.process = request[r].process
      /\ q.sure = request[r].sure
      /\ q.got = [items |-> request[r].got.items, code |-> request[r].got.code,
                  discounted |-> active]
  BY <1>1, <1>2, AtOK DEF Serves, RequestType, View
<1>4. HandOK(q) /\ FreshOK(q)
  BY <1>1, <1>3 DEF HandOK, FreshOK, FreshView
<1>5. Goes(r, q) /\ UNCHANGED <<cart, listed, active, caches, cleaner>>
  BY DEF ReadCode
<1>6. Same
  BY <1>5 DEF Same, HasRow, caches
<1> HIDE DEF q
<1>7. Requests'
  BY <1>3, <1>4, <1>5, <1>6, GoesKeeps DEF Requests
<1> QED
  BY <1>5, <1>7, QuietStep

LEMMA IdleKeeps == Serves(Idle) /\ HandOK(Idle) /\ FreshOK(Idle)
  BY IdleOK DEF HandOK, FreshOK, Idle, Now, About, Blank

LEMMA RequestFailsStep ==
    ASSUME IInv, NEW r \in Request, RequestFails(r)
    PROVE  IInv'
<1>1. /\ DataOK /\ Cleaning
      /\ Goes(r, Idle)
      /\ UNCHANGED <<cart, listed, active, cleaner>>
  BY IInvParts DEF RequestFails
<1>2. missed' \in [Process -> BOOLEAN] /\ view' = view /\ applied' = applied
  BY <1>1, MissesOK DEF RequestFails
<1>3. Same
  BY <1>1, <1>2 DEF Same, HasRow
<1>4. Requests'
  BY <1>1, <1>3, IdleKeeps, GoesKeeps DEF Requests
<1>5. DataOK' /\ Cleaning'
  BY <1>1, <1>2 DEF DataOK, HasRow, Cleaning
<1> QED
  BY <1>4, <1>5, PartsKept

\* The end of getCart, in a request to show the cart or to apply a code.
LEMMA FillStep ==
    ASSUME IInv, NEW r \in Request, request[r].pc # "idle", NEW v \in View,
           NEW late \in BOOLEAN, Fill(r, v, late), UNCHANGED <<cart, listed, active, cleaner>>
    PROVE  IInv'
<1> DEFINE p == request[r].process
           q == Now("read", "show", p)
<1>1. p \in Process
  BY IInvParts DEF Requests, RequestsOK
<1>2. DataOK /\ Cleaning
  BY IInvParts
<1>3. UNCHANGED applied => Same
  BY DEF Same, HasRow
<1>4. DataOK'
  <2>1. missed' \in [Process -> BOOLEAN] /\ view' \in [Process -> View \cup {NoView}]
    BY <1>1, <1>2, DropsOK DEF DataOK, Fill
  <2> QED
    BY <1>1, <1>2, <2>1 DEF DataOK, HasRow, Fill
<1>5. Cleaning'
  BY <1>2 DEF Cleaning
<1>6. CASE Wrote(r, q)
  <2>1. Serves(q) /\ q.pc = "read" /\ q.got = Blank
    BY <1>1, NowOK
  <2>2. HandOK(q)
    BY <2>1 DEF HandOK, Blank
  <2> HIDE DEF q
  <2>3. Requests'
    BY <1>6, <2>1, <2>2, WroteKeeps DEF Requests
  <2> QED
    BY <1>4, <1>5, <2>3, PartsKept
<1>7. CASE Goes(r, Idle) /\ UNCHANGED applied
  <2>1. Requests'
    BY <1>3, <1>7, IdleKeeps, GoesKeeps DEF Requests
  <2> QED
    BY <1>4, <1>5, <2>1, PartsKept
<1> QED
  BY <1>6, <1>7 DEF Fill

LEMMA FillPlainStep ==
    ASSUME IInv, NEW r \in Request, FillPlain(r) \/ FillPriced(r)
    PROVE  IInv'
<1>1. request[r].got \in View /\ (~request[r].sure) \in BOOLEAN
  BY IInvParts DEF Requests, RequestsOK, RequestType
<1> QED
  BY <1>1, FillStep DEF FillPlain, FillPriced

LEMMA ApplyStep ==
    ASSUME IInv, NEW r \in Request, Apply(r)
    PROVE  IInv'
<1> DEFINE p == request[r].process
<1>1. RequestsOK /\ HandOK(request[r]) /\ request[r].pc = "vetted" /\ p \in Process
  BY IInvParts DEF Requests, RequestsOK, InHand, Apply
<1>2. CASE view[p] = NoView
  <2>1. Goes(r, At(r, "read")) /\ UNCHANGED <<cart, listed, active, caches, cleaner>>
    BY <1>2 DEF Apply
  <2>2. Serves(At(r, "read")) /\ HandOK(At(r, "read")) /\ FreshOK(At(r, "read"))
    BY <1>1, AtOK DEF HandOK, FreshOK
  <2>3. Same
    BY <2>1 DEF Same, HasRow, caches
  <2>4. Requests'
    BY <2>1, <2>2, <2>3, GoesKeeps DEF Requests
  <2> QED
    BY <2>1, <2>4, QuietStep
<1>3. CASE view[p] # NoView
  <2>1. view[p] \in View /\ missed[p] \in BOOLEAN
    BY <1>1, <1>3, IInvParts DEF DataOK
  <2> QED
    BY <1>1, <1>3, <2>1, FillStep DEF Apply
<1> QED
  BY <1>2, <1>3

LEMMA CreateCartStep ==
    ASSUME IInv, NEW r \in Request, CreateCart(r)
    PROVE  IInv'
<1> DEFINE q == [At(r, "got") EXCEPT !.got.items = {}]
<1>1. /\ RequestsOK /\ DataOK /\ Cleaning
      /\ HandOK(request[r])
      /\ request[r].pc = "create"
  BY IInvParts DEF Requests, InHand, CreateCart
<1>2. At(r, "got") \in RequestType /\ Serves(At(r, "got"))
  BY <1>1, AtOK DEF Serves
<1>3. /\ Serves(q)
      /\ q.pc = "got"
      /\ q.got.items = {}
      /\ q.got.code = request[r].got.code
      /\ q.got.discounted = request[r].got.discounted
  BY <1>1, <1>2, AtOK DEF Serves, RequestType, View
<1>4. Visible = {} /\ Visible' = {}
  BY <1>1 DEF CreateCart, NewCart, Visible, DataOK
<1>5. HandOK(q) /\ FreshOK(q)
  BY <1>1, <1>3, <1>4 DEF HandOK, FreshOK
<1>6. Goes(r, q) /\ Same
  BY <1>1 DEF CreateCart, NewCart, Same, DataOK, caches
<1> HIDE DEF q
<1>7. Requests'
  BY <1>3, <1>5, <1>6, GoesKeeps DEF Requests
<1>8. DataOK'
  BY <1>1, CartCacheAssumption DEF CreateCart, NewCart, DataOK, HasRow, caches
<1>9. Cleaning'
  BY <1>1 DEF CreateCart, NewCart, DataOK, Cleaning
<1> QED
  BY <1>7, <1>8, <1>9, PartsKept

LEMMA AddRowStep ==
    ASSUME IInv, NEW r \in Request, AddRow(r)
    PROVE  IInv'
<1> DEFINE q == Now("written", "show", request[r].process)
<1>1. /\ RequestsOK /\ DataOK /\ Cleaning
      /\ request[r].pc = "row"
      /\ request[r].product \in Product
      /\ request[r].process \in Process
  BY IInvParts DEF Requests, RequestsOK, InHand, HandOK, AddRow
<1>2. Serves(q) /\ q.pc = "written" /\ q.got = Blank
  BY <1>1, NowOK
<1>3. HandOK(q)
  BY <1>2 DEF HandOK, Blank
<1>4. Wrote(r, q)
  BY DEF AddRow
<1> HIDE DEF q
<1>5. Requests'
  BY <1>2, <1>3, <1>4, WroteKeeps DEF Requests
<1>8. missed' \in [Process -> BOOLEAN] /\ view' = view /\ applied' = applied
  BY <1>1, MissesOK DEF AddRow, WritesAt
<1>6. DataOK'
  BY <1>1, <1>8, CartCacheAssumption DEF AddRow, NewCart, DataOK, HasRow
<1>7. Cleaning'
  BY <1>1 DEF AddRow, NewCart, DataOK, Cleaning
<1> QED
  BY <1>5, <1>6, <1>7, PartsKept

LEMMA AddItemStep ==
    ASSUME IInv, NEW r \in Request, AddItem(r)
    PROVE  IInv'
<1> DEFINE q == At(r, "extend")
<1>1. /\ RequestsOK /\ DataOK /\ Cleaning
      /\ HandOK(request[r])
      /\ request[r].pc = "item"
      /\ request[r].product \in Product
      /\ HasRow
  BY IInvParts DEF Requests, InHand, HandOK, AddItem, InCart
<1>2. Serves(q) /\ q.pc = "extend" /\ q.got = request[r].got
  BY <1>1, AtOK
<1>3. HandOK(q)
  BY <1>1, <1>2 DEF HandOK
<1>4. Wrote(r, q)
  BY DEF AddItem
<1> HIDE DEF q
<1>5. Requests'
  BY <1>2, <1>3, <1>4, WroteKeeps DEF Requests
<1>8. missed' \in [Process -> BOOLEAN] /\ view' = view /\ applied' = applied
  BY <1>1, MissesOK DEF AddItem, WritesAt
<1>6. DataOK'
  BY <1>1, <1>8 DEF AddItem, DataOK, HasRow
<1>7. Cleaning'
  BY <1>1 DEF AddItem, DataOK, Cleaning
<1> QED
  BY <1>5, <1>6, <1>7, PartsKept

LEMMA ExtendStep ==
    ASSUME IInv, NEW r \in Request, Extend(r)
    PROVE  IInv'
<1> DEFINE b == Now("written", "show", request[r].process)
           q == [b EXCEPT !.sure = request[r].sure]
<1>1. /\ RequestsOK /\ DataOK /\ Cleaning
      /\ request[r].sure \in BOOLEAN
      /\ request[r].process \in Process
      /\ request[r].pc = "extend"
  BY IInvParts DEF Requests, RequestsOK, RequestType, Extend
<1>2. Serves(b) /\ b.pc = "written" /\ b.got = Blank
  BY <1>1, NowOK
<1>3. Serves(q) /\ q.pc = "written" /\ q.got = Blank
  BY <1>1, <1>2, SureOK
<1>4. HandOK(q) /\ FreshOK(q)
  BY <1>3 DEF HandOK, FreshOK, Blank
<1>5. Goes(r, q)
  BY DEF Extend
<1>6. Same
  BY <1>1 DEF Extend, InCart, Same, HasRow, DataOK, caches
<1> HIDE DEF b, q
<1>7. Requests'
  BY <1>3, <1>4, <1>5, <1>6, GoesKeeps DEF Requests
<1>8. DataOK'
  BY <1>1 DEF Extend, DataOK, HasRow, caches
<1>9. Cleaning'
  BY <1>1 DEF Extend, DataOK, Cleaning
<1> QED
  BY <1>7, <1>8, <1>9, PartsKept

\* The writes of removeItem, clearCart and removeDiscount, and what follows.
LEMMA RewriteStep ==
    ASSUME IInv, NEW r \in Request, NEW p \in Process, NEW pc \in {"read", "written"},
           NEW op \in {"show", "clear"}, Wrote(r, Now(pc, op, p)),
           DataOK', Cleaning'
    PROVE  IInv'
<1> DEFINE q == Now(pc, op, p)
<1>1. Serves(q) /\ q.pc = pc /\ q.got = Blank
  BY NowOK
<1>2. HandOK(q)
  BY <1>1 DEF HandOK, Blank
<1> HIDE DEF q
<1>3. Wrote(r, q)
  BY DEF q
<1>4. Requests'
  BY <1>1, <1>2, <1>3, WroteKeeps DEF Requests
<1> QED
  BY <1>4, PartsKept

LEMMA RemoveItemStep ==
    ASSUME IInv, NEW r \in Request, NEW p \in Process, NEW i \in Product, RemoveItem(r, p, i)
    PROVE  IInv'
<1>1. DataOK /\ Cleaning
  BY IInvParts
<1>2. missed' \in [Process -> BOOLEAN] /\ view' = view /\ applied' = applied
  BY <1>1, MissesOK DEF RemoveItem, WritesAt
<1>3. DataOK' /\ Cleaning'
  BY <1>1, <1>2 DEF RemoveItem, DataOK, HasRow, Cleaning
<1> QED
  BY <1>3, RewriteStep DEF RemoveItem

LEMMA ClearItemsStep ==
    ASSUME IInv, NEW r \in Request, ClearItems(r)
    PROVE  IInv'
<1>1. DataOK /\ Cleaning /\ request[r].pc = "clear"
  BY IInvParts DEF ClearItems
<1>2. PICK p \in Process : p = request[r].process
  BY <1>1, IInvParts DEF Requests, RequestsOK
<1>3. missed' \in [Process -> BOOLEAN] /\ view' = view /\ applied' = applied
  BY <1>1, MissesOK DEF ClearItems, WritesAt
<1>4. DataOK' /\ Cleaning'
  BY <1>1, <1>3 DEF ClearItems, DataOK, HasRow, Cleaning
<1> QED
  BY <1>2, <1>4, RewriteStep DEF ClearItems

LEMMA RemoveDiscountStep ==
    ASSUME IInv, NEW r \in Request, NEW p \in Process, RemoveDiscount(r, p)
    PROVE  IInv'
<1>1. DataOK /\ Cleaning
  BY IInvParts
<1>2. missed' \in [Process -> BOOLEAN] /\ view' \in [Process -> View \cup {NoView}]
  BY <1>1, DropsOK DEF RemoveDiscount
<1>3. DataOK' /\ Cleaning'
  BY <1>1, <1>2 DEF RemoveDiscount, DataOK, HasRow, Cleaning
<1> QED
  BY <1>3, RewriteStep DEF RemoveDiscount

LEMMA InvalidateStep ==
    ASSUME IInv, NEW r \in Request, Invalidate(r)
    PROVE  IInv'
<1>1. /\ RequestsOK /\ DataOK /\ Cleaning
      /\ HandOK(request[r])
      /\ request[r].pc = "written"
      /\ request[r].process \in Process
  BY IInvParts DEF Requests, RequestsOK, InHand, Invalidate
<1>7. missed' \in [Process -> BOOLEAN] /\ view' \in [Process -> View \cup {NoView}]
  BY <1>1, DropsOK DEF Invalidate
<1>2. DataOK' /\ Cleaning'
  BY <1>1, <1>7 DEF Invalidate, DataOK, HasRow, Cleaning
<1>3. Same
  BY DEF Invalidate, Same, HasRow
<1>4. Serves(At(r, "read")) /\ HandOK(At(r, "read")) /\ FreshOK(At(r, "read"))
  BY <1>1, AtOK DEF HandOK, FreshOK
<1>5. PICK q : Goes(r, q) /\ Serves(q) /\ HandOK(q) /\ FreshOK(q)
  BY <1>4, IdleKeeps DEF Invalidate
<1>6. Requests'
  BY <1>3, <1>5, GoesKeeps DEF Requests
<1> QED
  BY <1>2, <1>6, PartsKept

-----------------------------------------------------------------------------
(* The steps of everybody else *)

LEMMA DisturbMisses ==
    ASSUME DataOK, Disturb
    PROVE  missed' \in [Process -> BOOLEAN] /\ view' = view /\ applied' = applied
  BY MissesOK DEF Disturb

LEMMA OrderStep == IInv /\ Order => IInv'
<1> SUFFICES ASSUME IInv, Order PROVE IInv'
  OBVIOUS
<1>1. DataOK /\ Cleaning
  BY IInvParts
<1>2. DataOK' /\ Cleaning'
  BY <1>1, DisturbMisses DEF Order, DataOK, HasRow, Cleaning
<1>3. Requests'
  BY DisturbKeeps DEF Order, Disturb, Requests
<1> QED
  BY <1>2, <1>3, PartsKept

LEMMA ChangeProductStep ==
    ASSUME IInv, NEW i \in Product, ChangeProduct(i)
    PROVE  IInv'
<1>1. DataOK /\ Cleaning
  BY IInvParts
<1>2. DataOK' /\ Cleaning'
  BY <1>1, DisturbMisses DEF ChangeProduct, DataOK, HasRow, Cleaning
<1>3. Requests'
  BY DisturbKeeps DEF ChangeProduct, Disturb, Requests
<1> QED
  BY <1>2, <1>3, PartsKept

LEMMA ChangeCodeStep == IInv /\ ChangeCode => IInv'
<1> SUFFICES ASSUME IInv, ChangeCode PROVE IInv'
  OBVIOUS
<1>1. DataOK /\ Cleaning
  BY IInvParts
<1>2. DataOK' /\ Cleaning'
  BY <1>1, DisturbMisses DEF ChangeCode, DataOK, HasRow, Cleaning
<1>3. Requests'
  BY DisturbKeeps DEF ChangeCode, Disturb, Requests
<1> QED
  BY <1>2, <1>3, PartsKept

\* Nothing that the requests have in hand changes.
LEMMA AsideStep ==
    ASSUME IInv, UNCHANGED request, Same, DataOK', Cleaning'
    PROVE  IInv'
<1>1. Requests'
  BY IInvParts
     DEF Requests, RequestsOK, InHand, HandOK, SureFresh, FreshOK, FreshView, Same, Visible
<1> QED
  BY <1>1, PartsKept

LEMMA ExpireViewStep ==
    ASSUME IInv, NEW p \in Process, ExpireView(p)
    PROVE  IInv'
<1>1. DataOK /\ Cleaning
  BY IInvParts
<1>3. missed' \in [Process -> BOOLEAN] /\ view' \in [Process -> View \cup {NoView}]
  BY <1>1, DropsOK DEF ExpireView
<1>2. DataOK' /\ Cleaning'
  BY <1>1, <1>3 DEF ExpireView, DataOK, HasRow, Cleaning
<1> QED
  BY <1>2, AsideStep DEF ExpireView, Same, HasRow

LEMMA ExpireCodeStep ==
    ASSUME IInv, NEW p \in Process, ExpireCode(p)
    PROVE  IInv'
<1>1. DataOK /\ Cleaning
  BY IInvParts
<1>2. DataOK' /\ Cleaning'
  BY <1>1 DEF ExpireCode, DataOK, HasRow, Cleaning
<1>3. Requests'
  BY DisturbKeeps DEF ExpireCode, Requests
<1> QED
  BY <1>2, <1>3, PartsKept

LEMMA CrashStep ==
    ASSUME IInv, NEW p \in Process, Crash(p)
    PROVE  IInv'
<1>1. DataOK /\ Cleaning /\ RequestsOK /\ InHand
  BY IInvParts DEF Requests
<1>7. missed' \in [Process -> BOOLEAN] /\ view' \in [Process -> View \cup {NoView}]
  BY <1>1, DropsOK DEF Crash
<1>2. DataOK' /\ Cleaning'
  BY <1>1, <1>7 DEF Crash, DataOK, HasRow, Cleaning
<1>3. request' = [r \in Request |-> IF request[r].process = p THEN Idle ELSE Disturbed[r]]
  BY DEF Crash
<1>4. ASSUME NEW r \in Request
      PROVE  /\ request'[r] \in RequestType
             /\ request'[r].pc # "idle" => request'[r].process \in Process
             /\ HandOK(request[r])'
             /\ FreshOK(request[r])'
  <2>1. CASE request[r].process = p
    <3>1. request'[r] = Idle
      BY <1>3, <2>1
    <3>2. Idle.pc = "idle" /\ Idle.got = Blank /\ ~Idle.sure
      BY DEF Idle, Now, About
    <3> QED
      BY <3>1, <3>2, IdleOK DEF Serves, HandOK, FreshOK, Blank
  <2>2. CASE request[r].process # p
    <3>1. request'[r] = Disturbed[r]
      BY <1>3, <2>2
    <3> QED
      BY <1>1, <3>1, DisturbedOK DEF RequestsOK, InHand, HandOK, FreshOK
  <2> QED
    BY <2>1, <2>2
<1>5. RequestsOK'
  BY <1>3, <1>4 DEF RequestsOK
<1>6. Requests'
  BY <1>4, <1>5 DEF Requests, InHand, SureFresh
<1> QED
  BY <1>2, <1>6, PartsKept

LEMMA CartExpiresStep == IInv /\ CartExpires => IInv'
<1> SUFFICES ASSUME IInv, CartExpires PROVE IInv'
  OBVIOUS
<1>1. DataOK /\ Cleaning
  BY IInvParts
<1>2. DataOK' /\ Cleaning'
  BY <1>1 DEF CartExpires, DataOK, HasRow, Cleaning, caches
<1>3. Same
  BY <1>1 DEF CartExpires, Same, HasRow, DataOK, caches
<1> QED
  BY <1>2, <1>3, AsideStep DEF CartExpires, caches

LEMMA CleanReadStep ==
    ASSUME IInv, NEW k \in Cleaner, CleanRead(k) \/ CleanFails(k)
    PROVE  IInv'
<1>1. DataOK /\ Cleaning
  BY IInvParts
<1>2. DataOK' /\ Cleaning'
  BY <1>1, CartCacheAssumption
     DEF CleanRead, CleanFails, CleanGoes, DataOK, HasRow, Cleaning, caches
<1> QED
  BY <1>2, AsideStep DEF CleanRead, CleanFails, Same, HasRow, caches

LEMMA CleanItemsStep ==
    ASSUME IInv, NEW k \in Cleaner, CleanItems(k)
    PROVE  IInv'
<1>1. DataOK /\ Cleaning
  BY IInvParts
<1>6. missed' \in [Process -> BOOLEAN] /\ view' = view /\ applied' = applied
  BY <1>1, DisturbMisses DEF CleanItems
<1>2. DataOK'
  BY <1>1, <1>6, CartCacheAssumption DEF CleanItems, CleanGoes, DataOK, HasRow
<1>3. cart'.id = cart.id /\ cart'.age = cart.age
  BY <1>1 DEF CleanItems, DataOK
<1>4. Cleaning'
  BY <1>1, <1>3 DEF CleanItems, CleanGoes, Cleaning, DataOK
<1>5. Requests'
  BY DisturbKeeps DEF CleanItems, Disturb, Requests
<1> QED
  BY <1>2, <1>4, <1>5, PartsKept

LEMMA CleanRowStep ==
    ASSUME IInv, NEW k \in Cleaner, CleanRow(k)
    PROVE  IInv'
<1>1. DataOK /\ Cleaning
  BY IInvParts
<1>2. DataOK'
  <2>1. cleaner' \in [Cleaner -> [pc : {"idle", "items", "row"}, cart : 0 .. MaxCarts]]
    BY <1>1, CartCacheAssumption DEF CleanRow, CleanGoes, DataOK
  <2>4. missed' \in [Process -> BOOLEAN] /\ view' = view /\ applied' = applied
    BY <1>1, DisturbMisses DEF CleanRow
  <2>2. CASE cart.age = "expired"
    <3>1. cart' = [id |-> cart.id, items |-> {}, age |-> "none"]
      BY <1>1, <2>2 DEF CleanRow, DataOK
    <3> QED
      BY <1>1, <2>1, <2>4, <3>1 DEF CleanRow, DataOK
  <2>3. CASE cart.age # "expired"
    BY <1>1, <2>1, <2>4, <2>3 DEF CleanRow, DataOK, HasRow
  <2> QED
    BY <2>2, <2>3
<1>3. cart'.id = cart.id /\ (cart'.age = "fresh" => cart.age = "fresh")
  BY <1>1 DEF CleanRow, DataOK
<1>4. Cleaning'
  BY <1>1, <1>3 DEF CleanRow, CleanGoes, Cleaning, DataOK
<1>5. Requests'
  BY DisturbKeeps DEF CleanRow, Disturb, Requests
<1> QED
  BY <1>2, <1>4, <1>5, PartsKept

-----------------------------------------------------------------------------
(* The invariant holds *)

LEMMA InitInvariant == Init => IInv
<1> SUFFICES ASSUME Init PROVE IInv
  OBVIOUS
<1>1. DataOK
  BY CartCacheAssumption DEF Init, DataOK, HasRow
<1>2. Cleaning
  BY DEF Init, Cleaning
<1>3. Serves(Idle) /\ HandOK(Idle) /\ FreshOK(Idle)
  BY IdleKeeps
<1>4. request = [r \in Request |-> Idle]
  BY DEF Init
<1>5. Requests
  BY <1>3, <1>4 DEF Requests, RequestsOK, InHand, SureFresh, Serves
<1> QED
  BY <1>1, <1>2, <1>5, IInvParts

LEMMA StepInvariant == IInv /\ [Next]_vars => IInv'
<1> SUFFICES ASSUME IInv, [Next]_vars PROVE IInv'
  OBVIOUS
<1>1. CASE UNCHANGED vars
  <2>1. DataOK' /\ Cleaning'
    BY <1>1, IInvParts DEF vars, DataOK, HasRow, Cleaning
  <2> QED
    BY <1>1, <2>1, AsideStep DEF vars, Same, HasRow
<1>2. ASSUME NEW r \in Request, RequestStep(r)
      PROVE  IInv'
  BY <1>2, ReadRowStep, ReadItemsStep, ReadProductsStep, CreateCartStep, FillPlainStep,
     SeeCodeStep, ReadCodeStep, AddFindStep, AddRowStep, AddItemStep, ExtendStep,
     ClearItemsStep, InvalidateStep, ApplyStep, RequestFailsStep
     DEF RequestStep
<1>3. ASSUME NEW r \in Request, NEW p \in Process, Serving(r, p)
      PROVE  IInv'
  BY <1>3, GetCartStep, AddReadStep, RemoveItemStep, ClearReadStep, ApplyReadStep,
     RemoveDiscountStep DEF Serving
<1>4. CASE Environment
  BY <1>4, OrderStep, ChangeProductStep, ChangeCodeStep, ExpireViewStep, ExpireCodeStep,
     CrashStep DEF Environment
<1>5. CASE Cleanup
  BY <1>5, CartExpiresStep, CleanReadStep, CleanItemsStep, CleanRowStep DEF Cleanup
<1> QED
  BY <1>1, <1>2, <1>3, <1>4, <1>5 DEF Next

THEOREM Invariance == Spec => []IInv
BY InitInvariant, StepInvariant, PTL DEF Spec

\* Every reachable state is well typed.
THEOREM TypeCorrect == Spec => []TypeOK
<1>1. IInv => TypeOK
  BY DEF IInv
<1> QED
  BY <1>1, Invariance, PTL

-----------------------------------------------------------------------------
(* The steps of one request and the others *)

\* Where another request is does not change.
LEMMA OthersStay ==
    ASSUME RequestsOK, NEW r \in Request, NEW s \in Request \ {r},
           RequestStep(s) \/ \E p \in Process : Serving(s, p)
    PROVE  request'[r].pc = request[r].pc /\ request'[r].process = request[r].process
<1>1. PICK q : Goes(s, q) \/ Wrote(s, q)
  <2>1. CASE RequestStep(s)
    BY <2>1 DEF RequestStep, ReadRow, ReadItems, ReadProducts, CreateCart, FillPlain,
       SeeCode, ReadCode, FillPriced, AddFind, AddRow, AddItem, Extend, ClearItems,
       Invalidate, Apply, Fill, RequestFails
  <2>2. ASSUME NEW p \in Process, Serving(s, p)
        PROVE  \E q : Goes(s, q) \/ Wrote(s, q)
    BY <2>2 DEF Serving, GetCart, AddRead, RemoveItem, ClearRead, ApplyRead,
       RemoveDiscount, Begin
  <2> QED
    BY <2>1, <2>2
<1>2. CASE Goes(s, q)
  BY <1>2 DEF Goes, RequestsOK
<1>3. CASE Wrote(s, q)
  <2>1. request'[r] = Disturbed[r]
    BY <1>3, DisturbedOK DEF Wrote
  <2> QED
    BY <2>1, DisturbedOK
<1> QED
  BY <1>1, <1>2, <1>3

\* What the others do leaves a request where it is, unless its process dies.
LEMMA AsideStays ==
    ASSUME RequestsOK, NEW r \in Request, Environment \/ Cleanup,
           \A p \in Process : Crash(p) => request[r].process # p
    PROVE  request'[r].pc = request[r].pc /\ request'[r].process = request[r].process
<1>1. CASE request' = request
  BY <1>1
<1>2. CASE request' = Disturbed
  BY <1>2, DisturbedOK
<1>3. ASSUME NEW p \in Process, Crash(p)
      PROVE  request'[r] = Disturbed[r]
  BY <1>3 DEF Crash
<1>4. request' = request \/ request' = Disturbed \/ \E p \in Process : Crash(p)
  BY DEF Environment, Cleanup, Order, ChangeProduct, ChangeCode, ExpireView, ExpireCode,
     CartExpires, CleanRead, CleanItems, CleanRow, CleanFails, Disturb
<1> QED
  BY <1>1, <1>2, <1>3, <1>4, DisturbedOK

-----------------------------------------------------------------------------
(* The answer of a request *)

\* A request that is done and leaves a cart in the cache has filled it.
LEMMA Answers ==
    ASSUME IInv, NEW r \in Request, RequestStep(r), request'[r].pc = "idle",
           request[r].pc \in {"written", "got", "priced"},
           view'[request[r].process] # NoView
    PROVE  FillPlain(r) \/ FillPriced(r)
<1>1. RequestsOK /\ request[r].process \in Process /\ DataOK
  BY IInvParts DEF Requests, RequestsOK
<1>2. ~SeeCode(r)
  <2> SUFFICES ASSUME SeeCode(r) PROVE FALSE
    OBVIOUS
  <2>1. At(r, "code").pc = "code" /\ At(r, "code") \in RequestType
    BY <1>1, AtOK DEF Serves
  <2>2. request'[r].pc = "code"
    BY <1>1, <2>1 DEF SeeCode, Goes, RequestsOK, RequestType
  <2> QED
    BY <2>2
<1>3. ~Invalidate(r)
  BY <1>1, DropsOK DEF Invalidate
<1> QED
  BY <1>2, <1>3 DEF RequestStep, ReadRow, ReadItems, ReadProducts, CreateCart, ReadCode,
     AddFind, AddRow, AddItem, Extend, ClearItems, Apply, RequestFails

\* What a request fills the cache with is the cart, if the request is sure of it.
LEMMA AnswerIsFresh ==
    ASSUME IInv, NEW r \in Request, FillPlain(r) \/ FillPriced(r), request[r].sure
    PROVE  request[r].got = FreshView(request[r].process)
<1> DEFINE p == request[r].process
           got == request[r].got
<1>1. /\ DataOK
      /\ p \in Process
      /\ got \in View
      /\ HandOK(request[r])
      /\ FreshOK(request[r])
  BY IInvParts DEF Requests, RequestsOK, RequestType, InHand, SureFresh, FillPlain, FillPriced
<1>2. CASE FillPriced(r)
  BY <1>1, <1>2 DEF FillPriced, FreshOK
<1>3. CASE FillPlain(r)
  <2>1. got.items = Visible /\ ~got.code /\ ~got.discounted /\ ~applied[p]
    BY <1>1, <1>3 DEF FillPlain, HandOK, FreshOK
  <2>2. got = [items |-> Visible, code |-> FALSE, discounted |-> FALSE]
    BY <1>1, <2>1 DEF View
  <2>3. applied[p] = FALSE
    BY <1>1, <2>1 DEF DataOK
  <2>4. FreshView(p) = [items |-> Visible, code |-> FALSE, discounted |-> FALSE]
    BY <2>3 DEF FreshView
  <2> QED
    BY <2>2, <2>4
<1> QED
  BY <1>2, <1>3

\* Whatever a request was asked for, with any number of requests and processes: it
\* answers the cart of the moment, unless somebody else changed the cart after the
\* request wrote it or began to read it.
THEOREM AnswersAreFresh == Spec => AnswersFresh
<1> DEFINE Shows ==
      \A r \in Request, p \in Process :
          /\ request[r].sure
          /\ request[r].process = p
          /\ request[r].pc \in {"written", "got", "priced"}
          /\ request'[r].pc = "idle"
          /\ view'[p] # NoView
          => view'[p] = FreshView(p)'
<1>1. ASSUME IInv, [Next]_vars
      PROVE  [Shows]_vars
  <2> SUFFICES ASSUME Next PROVE Shows
    BY <1>1
  <2> SUFFICES ASSUME NEW r \in Request, NEW p \in Process,
                      request[r].sure,
                      request[r].process = p,
                      request[r].pc \in {"written", "got", "priced"},
                      request'[r].pc = "idle",
                      view'[p] # NoView
               PROVE  view'[p] = FreshView(p)'
    OBVIOUS
  <2>1. RequestsOK /\ DataOK
    BY <1>1, IInvParts DEF Requests
  <2>2. ~(Environment \/ Cleanup)
    <3> SUFFICES ASSUME Environment \/ Cleanup PROVE FALSE
      OBVIOUS
    <3>1. ASSUME NEW s \in Process, Crash(s), s = p
          PROVE  FALSE
      BY <2>1, <3>1, DropsOK DEF Crash
    <3> QED
      BY <2>1, <3>1, AsideStays
  <2>3. ASSUME NEW s \in Request \ {r}
        PROVE  ~RequestStep(s) /\ \A g \in Process : ~Serving(s, g)
    BY <2>1, OthersStay
  <2>4. ASSUME NEW g \in Process
        PROVE  ~Serving(r, g)
    BY DEF Serving, GetCart, AddRead, RemoveItem, ClearRead, ApplyRead, RemoveDiscount, Begin
  <2>5. RequestStep(r)
    BY <2>2, <2>3, <2>4 DEF Next
  <2>6. FillPlain(r) \/ FillPriced(r)
    BY <1>1, <2>5, Answers
  <2>7. Fill(r, request[r].got, ~request[r].sure) /\ UNCHANGED <<cart, listed, active>>
    BY <2>6 DEF FillPlain, FillPriced
  <2>8. view'[p] = request[r].got /\ applied' = applied
    BY <2>1, <2>7, DropsOK DEF Fill, DataOK
  <2>9. request[r].got = FreshView(p)
    BY <1>1, <2>6, AnswerIsFresh
  <2>10. FreshView(p)' = FreshView(p)
    BY <2>7, <2>8 DEF FreshView, Visible
  <2> QED
    BY <2>8, <2>9, <2>10
<1>2. [][Next]_vars /\ []IInv => [][Shows]_vars
  BY <1>1, PTL
<1>3. [][Shows]_vars => AnswersFresh
  BY DEF AnswersFresh
<1> QED
  BY <1>2, <1>3, Invariance DEF Spec

-----------------------------------------------------------------------------
(* The cached carts *)

\* A request of process p is about to drop the cart that p has cached.
Dropping(r, p) == request[r].process = p /\ request[r].pc \in {"extend", "written"}

Excused(p) ==
    \/ view[p] \in {NoView, FreshView(p)}
    \/ missed[p]
    \/ \E r \in Request : Dropping(r, p)

LEMMA StaleParts == StaleIsMissed <=> \A p \in Process : Excused(p)
  BY DEF StaleIsMissed, Excused, Dropping

LEMMA StaleNext ==
    ASSUME \A p \in Process : Excused(p)'
    PROVE  StaleIsMissed'
  BY DEF StaleIsMissed, Excused, Dropping

\* Nothing changes that concerns process p.
LEMMA ExcusedKept ==
    ASSUME NEW p \in Process, Excused(p),
           view'[p] = view[p], missed'[p] = missed[p], applied'[p] = applied[p],
           cart'.items = cart.items, listed' = listed, active' = active,
           \A r \in Request : Dropping(r, p) => Dropping(r, p)'
    PROVE  Excused(p)'
<1>1. FreshView(p)' = FreshView(p)
  BY DEF FreshView, Visible
<1> QED
  BY <1>1 DEF Excused

LEMMA ExcusedMissed ==
    ASSUME NEW p \in Process, view'[p] = NoView \/ missed'[p]
    PROVE  Excused(p)'
  BY DEF Excused

\* The requests that go on, and those that only go on.
LEMMA GoesAlone ==
    ASSUME RequestsOK, NEW r \in Request, NEW q, Goes(r, q)
    PROVE  /\ request'[r] = q
           /\ \A s \in Request \ {r}, p \in Process : Dropping(s, p) => Dropping(s, p)'
  BY DEF RequestsOK, Goes, Dropping

LEMMA WroteAlone ==
    ASSUME RequestsOK, NEW r \in Request, NEW q, Serves(q), Wrote(r, q)
    PROVE  /\ request'[r].pc = q.pc
           /\ request'[r].process = q.process
           /\ \A s \in Request \ {r}, p \in Process : Dropping(s, p) => Dropping(s, p)'
<1>1. /\ request'[r] = [q EXCEPT !.sure = TRUE]
      /\ \A s \in Request \ {r} : request'[s] = Disturbed[s]
  BY WroteOK
<1>2. request'[r].pc = q.pc /\ request'[r].process = q.process
  BY <1>1, SureOK
<1> QED
  BY <1>1, <1>2, DisturbedOK DEF Dropping

\* A step that concerns no cache, of a request that was not about to drop a cart.
LEMMA QuietExcused ==
    ASSUME RequestsOK, StaleIsMissed, NEW r \in Request, NEW q, Goes(r, q),
           request[r].pc \notin {"extend", "written"},
           cart'.items = cart.items, UNCHANGED <<listed, active, caches>>
    PROVE  StaleIsMissed'
<1>1. ASSUME NEW p \in Process
      PROVE  Excused(p)'
  <2>1. \A s \in Request : Dropping(s, p) => Dropping(s, p)'
    BY GoesAlone DEF Dropping
  <2> QED
    BY <2>1, StaleParts, ExcusedKept DEF caches
<1> QED
  BY <1>1, StaleNext

\* A write: the other processes miss it, and the request is about to drop the cart.
LEMMA WriteExcused ==
    ASSUME RequestsOK, DataOK, NEW r \in Request, NEW q, Serves(q),
           q.pc \in {"extend", "written"}, Wrote(r, q), WritesAt(q.process)
    PROVE  StaleIsMissed'
<1>1. ASSUME NEW p \in Process
      PROVE  Excused(p)'
  <2>1. CASE p = q.process
    <3>1. Dropping(r, p)'
      BY <2>1, WroteAlone DEF Dropping
    <3> QED
      BY <3>1 DEF Excused
  <2>2. CASE p # q.process
    BY <2>2, MissesOK, ExcusedMissed DEF WritesAt
  <2> QED
    BY <2>1, <2>2
<1> QED
  BY <1>1, StaleNext

LEMMA DisturbExcused ==
    ASSUME DataOK, Disturb
    PROVE  StaleIsMissed'
<1>1. \A p \in Process : view'[p] = NoView \/ missed'[p]
  BY MissesOK DEF Disturb
<1> QED
  BY <1>1, ExcusedMissed, StaleNext

\* One process has a new cache, that is excused; the others go on as they were.
LEMMA OneExcused ==
    ASSUME StaleIsMissed, NEW p \in Process, Excused(p)',
           \A g \in Process \ {p} : /\ view'[g] = view[g]
                                    /\ missed'[g] = missed[g]
                                    /\ applied'[g] = applied[g],
           cart'.items = cart.items, UNCHANGED <<listed, active>>,
           \A g \in Process \ {p}, r \in Request : Dropping(r, g) => Dropping(r, g)'
    PROVE  StaleIsMissed'
<1>1. ASSUME NEW g \in Process \ {p}
      PROVE  Excused(g)'
  BY StaleParts, ExcusedKept
<1> QED
  BY <1>1, StaleNext

LEMMA FillExcused ==
    ASSUME IInv, StaleIsMissed, NEW r \in Request,
           request[r].pc \notin {"idle", "extend", "written"},
           NEW v \in View, NEW late \in BOOLEAN, Fill(r, v, late),
           UNCHANGED <<cart, listed, active>>,
           \/ late
           \/ v = FreshView(request[r].process)
           \/ view[request[r].process] = v /\ missed[request[r].process] = late
    PROVE  StaleIsMissed'
<1>1. PICK p \in Process : RequestsOK /\ DataOK /\ p = request[r].process
  BY IInvParts DEF Requests, RequestsOK
<1> DEFINE q == Now("read", "show", p)
<1>2. \A s \in Request, g \in Process : Dropping(s, g) => s # r
  BY DEF Dropping
<1>3. CASE Drops(p) /\ applied' = [applied EXCEPT ![p] = TRUE] /\ Wrote(r, q)
  <2>1. Serves(q)
    BY <1>1, NowOK
  <2> HIDE DEF q
  <2>2. \A s \in Request, g \in Process : Dropping(s, g) => Dropping(s, g)'
    BY <1>1, <1>2, <1>3, <2>1, WroteAlone
  <2>3. Excused(p)'
    BY <1>1, <1>3, DropsOK, ExcusedMissed
  <2>4. \A g \in Process \ {p} : /\ view'[g] = view[g]
                                 /\ missed'[g] = missed[g]
                                 /\ applied'[g] = applied[g]
    BY <1>1, <1>3, DropsOK DEF DataOK
  <2> QED
    BY <1>1, <2>2, <2>3, <2>4, OneExcused
<1>4. CASE /\ view' = [view EXCEPT ![p] = v]
           /\ missed' = [missed EXCEPT ![p] = late]
           /\ Goes(r, Idle)
           /\ UNCHANGED applied
  <2>1. \A s \in Request, g \in Process : Dropping(s, g) => Dropping(s, g)'
    BY <1>1, <1>2, <1>4, GoesAlone
  <2>2. view'[p] = v /\ missed'[p] = late
    BY <1>1, <1>4 DEF DataOK
  <2>3. FreshView(p)' = FreshView(p)
    BY <1>4 DEF FreshView, Visible
  <2>4. Excused(p)'
    <3>1. CASE late
      BY <1>1, <2>2, <3>1, ExcusedMissed
    <3>2. CASE v = FreshView(p)
      BY <2>2, <2>3, <3>2 DEF Excused
    <3>3. CASE view[p] = v /\ missed[p] = late
      <4>1. /\ Excused(p)
            /\ view'[p] = view[p] /\ missed'[p] = missed[p] /\ applied'[p] = applied[p]
            /\ cart'.items = cart.items /\ listed' = listed /\ active' = active
        BY <1>1, <1>4, <2>2, <3>3, StaleParts
      <4> QED
        BY <2>1, <4>1, ExcusedKept
    <3> QED
      BY <1>1, <3>1, <3>2, <3>3
  <2>5. \A g \in Process \ {p} : /\ view'[g] = view[g]
                                 /\ missed'[g] = missed[g]
                                 /\ applied'[g] = applied[g]
    BY <1>1, <1>4 DEF DataOK
  <2> QED
    BY <1>1, <2>1, <2>4, <2>5, OneExcused
<1> QED
  BY <1>1, <1>3, <1>4 DEF Fill

LEMMA FillPlainExcused ==
    ASSUME IInv, StaleIsMissed, NEW r \in Request, FillPlain(r) \/ FillPriced(r)
    PROVE  StaleIsMissed'
<1>1. request[r].got \in View /\ request[r].sure \in BOOLEAN
  BY IInvParts DEF Requests, RequestsOK, RequestType
<1>2. ~request[r].sure \/ request[r].got = FreshView(request[r].process)
  BY AnswerIsFresh
<1>3. /\ Fill(r, request[r].got, ~request[r].sure)
      /\ request[r].pc \in {"got", "priced"}
      /\ UNCHANGED <<cart, listed, active>>
  BY DEF FillPlain, FillPriced
<1>4. (~request[r].sure) \in BOOLEAN
  OBVIOUS
<1> QED
  BY <1>1, <1>2, <1>3, <1>4, FillExcused

LEMMA ApplyExcused ==
    ASSUME IInv, StaleIsMissed, NEW r \in Request, Apply(r)
    PROVE  StaleIsMissed'
<1> DEFINE p == request[r].process
<1>1. RequestsOK /\ DataOK /\ p \in Process /\ request[r].pc = "vetted"
  BY IInvParts DEF Requests, RequestsOK, Apply
<1>2. CASE view[p] = NoView
  <2>1. Goes(r, At(r, "read")) /\ UNCHANGED <<cart, listed, active, caches>>
    BY <1>2 DEF Apply
  <2> QED
    BY <1>1, <2>1, QuietExcused
<1>3. CASE view[p] # NoView
  <2>1. Fill(r, view[p], missed[p]) /\ UNCHANGED <<cart, listed, active>>
    BY <1>3 DEF Apply
  <2>2. view[p] \in View /\ missed[p] \in BOOLEAN
    BY <1>1, <1>3 DEF DataOK
  <2> QED
    BY <1>1, <2>1, <2>2, FillExcused
<1> QED
  BY <1>2, <1>3

LEMMA ExtendExcused ==
    ASSUME IInv, StaleIsMissed, NEW r \in Request, Extend(r)
    PROVE  StaleIsMissed'
<1> DEFINE b == Now("written", "show", request[r].process)
           q == [b EXCEPT !.sure = request[r].sure]
<1>1. RequestsOK /\ DataOK /\ request[r].process \in Process /\ request[r].sure \in BOOLEAN
  BY IInvParts DEF Requests, RequestsOK, RequestType, Extend
<1>2. Serves(b) /\ b.pc = "written" /\ b.process = request[r].process
  BY <1>1, NowOK
<1>3. q.pc = "written" /\ q.process = request[r].process
  <2> HIDE DEF b
  <2> QED
    BY <1>1, <1>2, SureOK
<1>4. Goes(r, q) /\ cart'.items = cart.items /\ UNCHANGED <<listed, active, caches>>
  BY <1>1 DEF Extend, DataOK
<1> HIDE DEF b, q
<1>5. ASSUME NEW p \in Process
      PROVE  Excused(p)'
  <2>1. request'[r] = q
    BY <1>1, <1>4, GoesAlone
  <2>2. \A s \in Request : Dropping(s, p) => Dropping(s, p)'
    BY <1>1, <1>3, <1>4, <2>1, GoesAlone DEF Dropping
  <2> QED
    BY <1>4, <2>2, StaleParts, ExcusedKept DEF caches
<1> QED
  BY <1>5, StaleNext

LEMMA RequestFailsExcused ==
    ASSUME IInv, StaleIsMissed, NEW r \in Request, RequestFails(r)
    PROVE  StaleIsMissed'
<1>1. PICK p \in Process : RequestsOK /\ DataOK /\ p = request[r].process
  BY IInvParts DEF Requests, RequestsOK, RequestFails
<1>2. Goes(r, Idle) /\ UNCHANGED <<cart, listed, active>>
  BY DEF RequestFails
<1>3. PICK P : Misses(P) /\ P = IF request[r].pc = "extend" THEN {p} ELSE {}
  BY <1>1 DEF RequestFails
<1>4. /\ view' = view /\ applied' = applied
      /\ \A g \in Process \ {p} : missed'[g] = missed[g]
  BY <1>1, <1>3, MissesOK
<1>5. \A s \in Request, g \in Process :
          Dropping(s, g) /\ (g # p \/ request[r].pc # "extend") => Dropping(s, g)'
  BY <1>1, <1>2, GoesAlone DEF Dropping, RequestFails
<1>6. Excused(p)'
  <2>1. CASE request[r].pc = "extend"
    BY <1>1, <1>3, <2>1, MissesOK, ExcusedMissed
  <2>2. CASE request[r].pc # "extend"
    <3>1. missed'[p] = missed[p]
      BY <1>1, <1>3, <2>2, MissesOK
    <3> QED
      BY <1>1, <1>2, <1>4, <1>5, <2>2, <3>1, StaleParts, ExcusedKept
  <2> QED
    BY <2>1, <2>2
<1> QED
  BY <1>1, <1>2, <1>4, <1>5, <1>6, OneExcused

LEMMA InvalidateExcused ==
    ASSUME IInv, StaleIsMissed, NEW r \in Request, Invalidate(r)
    PROVE  StaleIsMissed'
<1>1. PICK p \in Process : RequestsOK /\ DataOK /\ p = request[r].process
  BY IInvParts DEF Requests, RequestsOK, Invalidate
<1>2. PICK q : Goes(r, q)
  BY DEF Invalidate
<1>3. Drops(p) /\ UNCHANGED <<cart, listed, active, applied>>
  BY <1>1 DEF Invalidate
<1>4. Excused(p)'
  BY <1>1, <1>3, DropsOK, ExcusedMissed
<1>5. \A g \in Process \ {p}, s \in Request : Dropping(s, g) => Dropping(s, g)'
  BY <1>1, <1>2, GoesAlone DEF Dropping
<1>6. \A g \in Process \ {p} : view'[g] = view[g] /\ missed'[g] = missed[g]
  BY <1>1, <1>3, DropsOK
<1> QED
  BY <1>1, <1>3, <1>4, <1>5, <1>6, OneExcused

LEMMA RemoveDiscountExcused ==
    ASSUME IInv, StaleIsMissed, NEW r \in Request, NEW p \in Process, RemoveDiscount(r, p)
    PROVE  StaleIsMissed'
<1> DEFINE q == Now("read", "show", p)
<1>1. RequestsOK /\ DataOK /\ request[r].pc = "idle"
  BY IInvParts DEF Requests, RemoveDiscount
<1>2. /\ Drops(p) /\ applied' = [applied EXCEPT ![p] = FALSE]
      /\ Wrote(r, q) /\ UNCHANGED <<cart, listed, active>>
  BY DEF RemoveDiscount
<1>3. Serves(q)
  BY NowOK
<1> HIDE DEF q
<1>4. \A s \in Request, g \in Process : Dropping(s, g) => Dropping(s, g)'
  BY <1>1, <1>2, <1>3, WroteAlone DEF Dropping
<1>5. Excused(p)'
  BY <1>1, <1>2, DropsOK, ExcusedMissed
<1>6. \A g \in Process \ {p} : /\ view'[g] = view[g]
                               /\ missed'[g] = missed[g]
                               /\ applied'[g] = applied[g]
  BY <1>1, <1>2, DropsOK DEF DataOK
<1> QED
  BY <1>2, <1>4, <1>5, <1>6, OneExcused

\* The cache of one process ends, or the process itself.
LEMMA EndExcused ==
    ASSUME IInv, StaleIsMissed, NEW p \in Process, ExpireView(p) \/ ExpireCode(p) \/ Crash(p)
    PROVE  StaleIsMissed'
<1>1. RequestsOK /\ DataOK
  BY IInvParts DEF Requests
<1>2. view'[p] = NoView \/ missed'[p]
  BY <1>1, DropsOK DEF ExpireView, ExpireCode, Crash, DataOK
<1>3. \A g \in Process \ {p} : /\ view'[g] = view[g]
                               /\ missed'[g] = missed[g]
                               /\ applied'[g] = applied[g]
  BY <1>1, DropsOK DEF ExpireView, ExpireCode, Crash, DataOK
<1>4. cart'.items = cart.items /\ UNCHANGED <<listed, active>>
  BY DEF ExpireView, ExpireCode, Crash
<1>5. ASSUME NEW g \in Process \ {p}, NEW r \in Request, Dropping(r, g)
      PROVE  Dropping(r, g)'
  <2>1. CASE request' = request
    BY <1>5, <2>1 DEF Dropping
  <2>2. CASE request'[r] = Disturbed[r]
    BY <1>1, <1>5, <2>2, DisturbedOK DEF Dropping
  <2>3. request' = request \/ request'[r] = Disturbed[r]
    BY <1>5 DEF ExpireView, ExpireCode, Crash, Dropping
  <2> QED
    BY <2>1, <2>2, <2>3
<1>6. Excused(p)'
  BY <1>2, ExcusedMissed
<1> QED
  BY <1>3, <1>4, <1>5, <1>6, OneExcused

\* Only the cart's age, or a cleanup's progress, changes.
LEMMA StillExcused ==
    ASSUME StaleIsMissed, cart'.items = cart.items,
           UNCHANGED <<listed, active, caches, request>>
    PROVE  StaleIsMissed'
<1>1. ASSUME NEW p \in Process
      PROVE  Excused(p)'
  BY StaleParts, ExcusedKept DEF caches, Dropping
<1> QED
  BY <1>1, StaleNext

LEMMA RequestExcused ==
    ASSUME IInv, StaleIsMissed, NEW r \in Request, RequestStep(r)
    PROVE  StaleIsMissed'
<1>1. RequestsOK /\ DataOK
  BY IInvParts DEF Requests
<1>2. CASE ReadRow(r) \/ ReadItems(r) \/ ReadProducts(r) \/ CreateCart(r)
           \/ SeeCode(r) \/ ReadCode(r) \/ AddFind(r)
  <2>1. /\ request[r].pc \notin {"extend", "written"}
        /\ \E q : Goes(r, q)
        /\ UNCHANGED <<listed, active, caches>>
    BY <1>2 DEF ReadRow, ReadItems, ReadProducts, CreateCart, SeeCode, ReadCode, AddFind
  <2>2. cart'.items = cart.items
    <3>1. CASE CreateCart(r)
      BY <1>1, <3>1 DEF CreateCart, NewCart, DataOK
    <3>2. CASE ~CreateCart(r)
      BY <1>2, <3>2 DEF ReadRow, ReadItems, ReadProducts, SeeCode, ReadCode, AddFind
    <3> QED
      BY <3>1, <3>2
  <2> QED
    BY <1>1, <2>1, <2>2, QuietExcused
<1>3. CASE AddRow(r) \/ ClearItems(r)
  <2>1. PICK op \in {"show", "clear"} :
            /\ Wrote(r, Now("written", op, request[r].process))
            /\ WritesAt(request[r].process)
            /\ request[r].pc # "idle"
    BY <1>3 DEF AddRow, ClearItems
  <2>2. PICK q : /\ q = Now("written", op, request[r].process) /\ Serves(q)
                 /\ q.pc = "written" /\ q.process = request[r].process
    BY <1>1, <2>1, NowOK DEF RequestsOK
  <2> QED
    BY <1>1, <2>1, <2>2, WriteExcused
<1>4. CASE AddItem(r)
  <2>1. Wrote(r, At(r, "extend")) /\ WritesAt(request[r].process) /\ request[r].pc = "item"
    BY <1>4 DEF AddItem
  <2>2. PICK q : /\ q = At(r, "extend") /\ Serves(q)
                 /\ q.pc = "extend" /\ q.process = request[r].process
    BY <1>1, <2>1, AtOK
  <2> QED
    BY <1>1, <2>1, <2>2, WriteExcused
<1> QED
  BY <1>2, <1>3, <1>4, FillPlainExcused, ExtendExcused, InvalidateExcused, ApplyExcused,
     RequestFailsExcused DEF RequestStep

LEMMA ServingExcused ==
    ASSUME IInv, StaleIsMissed, NEW r \in Request, NEW p \in Process, Serving(r, p)
    PROVE  StaleIsMissed'
<1>1. RequestsOK /\ DataOK
  BY IInvParts DEF Requests
<1>2. CASE GetCart(r, p) \/ (\E i \in Product : AddRead(r, p, i)) \/ ClearRead(r, p)
           \/ ApplyRead(r, p)
  <2>1. /\ request[r].pc = "idle"
        /\ \E q : Goes(r, q)
        /\ UNCHANGED <<cart, listed, active, caches>>
    BY <1>2 DEF GetCart, AddRead, ClearRead, ApplyRead, Begin
  <2> QED
    BY <1>1, <2>1, QuietExcused
<1>3. ASSUME NEW i \in Product, RemoveItem(r, p, i)
      PROVE  StaleIsMissed'
  <2>1. PICK q : q = Now("written", "show", p) /\ Serves(q) /\ q.pc = "written" /\ q.process = p
    BY NowOK
  <2> QED
    BY <1>1, <1>3, <2>1, WriteExcused DEF RemoveItem
<1> QED
  BY <1>2, <1>3, RemoveDiscountExcused DEF Serving

LEMMA AsideExcused ==
    ASSUME IInv, StaleIsMissed, Environment \/ Cleanup
    PROVE  StaleIsMissed'
<1>1. DataOK
  BY IInvParts
<1>2. CASE Disturb
  BY <1>1, <1>2, DisturbExcused
<1>3. ASSUME NEW p \in Process, ExpireView(p) \/ ExpireCode(p) \/ Crash(p)
      PROVE  StaleIsMissed'
  BY <1>3, EndExcused
<1>4. CASE CartExpires \/ \E k \in Cleaner : CleanRead(k) \/ CleanFails(k)
  <2>1. cart'.items = cart.items /\ UNCHANGED <<listed, active, caches, request>>
    BY <1>1, <1>4 DEF CartExpires, CleanRead, CleanFails, DataOK
  <2> QED
    BY <2>1, StillExcused
<1> QED
  BY <1>2, <1>3, <1>4
     DEF Environment, Cleanup, Order, ChangeProduct, ChangeCode, CleanItems, CleanRow

\* With any number of processes and requests, a cached cart that is not the cart
\* missed a change that no request of its process made, or was read before one, or
\* is about to be dropped.
THEOREM StaleCacheMissed == Spec => []StaleIsMissed
<1>1. Init => StaleIsMissed
  BY DEF Init, StaleIsMissed
<1>2. IInv /\ StaleIsMissed /\ [Next]_vars => StaleIsMissed'
  <2> SUFFICES ASSUME IInv, StaleIsMissed, [Next]_vars PROVE StaleIsMissed'
    OBVIOUS
  <2>1. CASE UNCHANGED vars
    BY <2>1, StillExcused DEF vars, caches
  <2>2. CASE Next
    BY <2>2, RequestExcused, ServingExcused, AsideExcused DEF Next
  <2> QED
    BY <2>1, <2>2
<1> QED
  BY <1>1, <1>2, Invariance, PTL DEF Spec

-----------------------------------------------------------------------------
(* The cleanup *)

\* Whichever cleanups run, and whatever the user does meanwhile, a cleanup takes
\* from the cart that replaced the one it found expired only when that expired.
THEOREM CleanupSparesFresh == Spec => CleanupSpares
<1> DEFINE Spares ==
      \A k \in Cleaner : cleaner'[k] # cleaner[k] /\ cart' # cart =>
          \/ cart.age = "expired"
          \/ /\ cart.age = "revived"
             /\ cleaner[k].pc = "items"
             /\ cleaner[k].cart = cart.id
             /\ cart'.age = cart.age
<1>1. ASSUME IInv, [Next]_vars
      PROVE  [Spares]_vars
  <2> SUFFICES ASSUME Next PROVE Spares
    BY <1>1
  <2> SUFFICES ASSUME NEW k \in Cleaner, cleaner'[k] # cleaner[k], cart' # cart
               PROVE  \/ cart.age = "expired"
                      \/ /\ cart.age = "revived"
                         /\ cleaner[k].pc = "items"
                         /\ cleaner[k].cart = cart.id
                         /\ cart'.age = cart.age
    OBVIOUS
  <2>1. DataOK /\ Cleaning
    BY <1>1, IInvParts
  <2>2. PICK j \in Cleaner : CleanItems(j) \/ CleanRow(j)
    <3>1. ~\E r \in Request : RequestStep(r)
      BY DEF RequestStep, ReadRow, ReadItems, ReadProducts, CreateCart, FillPlain, SeeCode,
         ReadCode, FillPriced, AddFind, AddRow, AddItem, Extend, ClearItems, Invalidate,
         Apply, RequestFails
    <3>2. ~\E r \in Request, p \in Process : Serving(r, p)
      BY DEF Serving, GetCart, AddRead, RemoveItem, ClearRead, ApplyRead, RemoveDiscount
    <3>3. ~Environment
      BY DEF Environment, Order, ChangeProduct, ChangeCode, ExpireView, ExpireCode, Crash
    <3> QED
      BY <3>1, <3>2, <3>3 DEF Next, Cleanup, CartExpires, CleanRead, CleanFails
  <2>3. j = k
    BY <2>1, <2>2 DEF CleanItems, CleanRow, CleanGoes, DataOK
  <2>4. CASE CleanItems(k)
    <3>1. cart.id = cleaner[k].cart /\ cart' = [cart EXCEPT !.items = {}]
      BY <2>4 DEF CleanItems
    <3>2. cart.age \in {"expired", "revived"}
      <4>1. cart.age # "none"
        BY <2>1, <3>1 DEF DataOK, HasRow
      <4> QED
        BY <2>1, <2>4, <3>1, <4>1 DEF CleanItems, Cleaning, DataOK
    <3> QED
      BY <2>1, <2>4, <3>1, <3>2 DEF CleanItems, DataOK
  <2>5. CASE CleanRow(k)
    BY <2>5 DEF CleanRow
  <2> QED
    BY <2>2, <2>3, <2>4, <2>5
<1>2. [][Next]_vars /\ []IInv => [][Spares]_vars
  BY <1>1, PTL
<1>3. [][Spares]_vars => CleanupSpares
  BY DEF CleanupSpares
<1> QED
  BY <1>2, <1>3, Invariance DEF Spec

=============================================================================
