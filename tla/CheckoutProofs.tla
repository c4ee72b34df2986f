--------------------------- MODULE CheckoutProofs ---------------------------
(***************************************************************************)
(* Theorems about Checkout for every set of users, products, codes,        *)
(* orders, prices and terms, and every finite set of workers.              *)
(***************************************************************************)
EXTENDS Checkout, FiniteSetTheorems, TLAPS

-----------------------------------------------------------------------------
(* The inductive invariant *)

\* A busy worker serves a user, and one that looks at a code has a code.
Working ==
    \A w \in Worker :
        /\ worker[w].pc # "idle" => worker[w].user \in User
        /\ worker[w].pc \in {"discount", "count"} => worker[w].code \in Code
        /\ worker[w].pc = "count" => code[worker[w].code].status # "none"

\* An order placed with a code was placed after the code was created.
UncreatedUnused ==
    \A c \in Code : code[c].status = "none" => OrdersWith(c) = {}

\* What is in a cart, or was when a worker read it, was put there.
Added ==
    /\ \A u \in User : \A i \in cart[u] : added[u][i] > 0
    /\ \A w \in Worker : worker[w].pc \in {"discount", "count", "commit"} =>
          \A i \in worker[w].items : added[worker[w].user][i] > 0

\* The limits a code has, and those a worker read, lie within the widest.
WithinWidest ==
    /\ \A c \in Code : code[c].status = "live" =>
          /\ widest[c].usage # 0 =>
                code[c].usageLimit # 0 /\ code[c].usageLimit <= widest[c].usage
          /\ widest[c].perUser # 0 =>
                /\ code[c].terms.perUserLimit # 0
                /\ code[c].terms.perUserLimit <= widest[c].perUser
    /\ \A w \in Worker : worker[w].pc = "count" =>
          LET c == worker[w].code
          IN  code[c].status = "live" /\ widest[c].perUser # 0 =>
                worker[w].terms.perUserLimit <= widest[c].perUser

IInv ==
    /\ TypeOK
    /\ Working
    /\ IsFiniteSet(usages)
    /\ UsageAccounting
    /\ UncreatedUnused
    /\ Added
    /\ PriceLocked
    /\ WithinWidest

-----------------------------------------------------------------------------
(* Initial states *)

LEMMA InitIInv == Init => IInv
  <1> SUFFICES ASSUME Init PROVE IInv
    OBVIOUS
  <1> USE CheckoutAssumption
  <1>1. \A w \in Worker : worker[w] = IdleWorker
    BY DEF Init
  <1>2. TypeOK
    BY DEF Init, TypeOK, IdleWorker, NoRow, CodeType, WorkerType, Windows,
           OneItemPerProduct
  <1>3. Working /\ Added /\ PriceLocked
    BY DEF Init, Working, Added, PriceLocked, IdleWorker
  <1>4. IsFiniteSet(usages) /\ UsageAccounting /\ UncreatedUnused
    BY FS_EmptySet DEF Init, UsageAccounting, UncreatedUnused, OrdersWith, UsagesOf, NoRow
  <1>5. WithinWidest
    BY DEF Init, WithinWidest, IdleWorker, NoRow
  <1> QED
    BY <1>2, <1>3, <1>4, <1>5 DEF IInv

-----------------------------------------------------------------------------
(* What a step may do to the workers and to the codes *)

\* Deciding goes on to the transaction or ends the request.
LEMMA DecideMoves ==
    ASSUME NEW w \in Worker, NEW t, Decide(w, t)
    PROVE  \/ worker' = [worker EXCEPT ![w] =
                            [pc |-> "commit", user |-> worker[w].user,
                             items |-> worker[w].items, code |-> worker[w].code,
                             terms |-> t]]
           \/ worker' = [worker EXCEPT ![w] = IdleWorker]
  BY DEF Decide, Finish, Continue, Serve

\* Counting one more add.
LEMMA OneMoreAdd ==
    ASSUME NEW f \in [Item -> Nat], NEW i \in Item
    PROVE  [f EXCEPT ![i] = f[i] + 1] \in [Item -> Nat]
  OBVIOUS

\* A code keeps its type when one of its columns changes.
LEMMA CodeFields ==
    ASSUME NEW f \in [Code -> CodeType], NEW c \in Code
    PROVE  /\ \A n \in Nat : [f EXCEPT ![c].usageCount = n] \in [Code -> CodeType]
           /\ \A b \in BOOLEAN : [f EXCEPT ![c].isActive = b] \in [Code -> CodeType]
           /\ \A s \in Windows : [f EXCEPT ![c].window = s] \in [Code -> CodeType]
  BY DEF CodeType

LEMMA TypeStep == IInv /\ [Next]_vars => TypeOK'
  <1> SUFFICES ASSUME IInv, [Next]_vars PROVE TypeOK'
    OBVIOUS
  <1> USE CheckoutAssumption DEF carts, codes, WorkerType, OneItemPerProduct
  <1>0. TypeOK /\ Working
    BY DEF IInv
  <1>a. IdleWorker \in WorkerType
    BY DEF IdleWorker
  <1>1. ASSUME NEW p \in Product, NEW price \in Price, NEW listed \in BOOLEAN,
               ChangeProduct(p, price, listed)
        PROVE  TypeOK'
    BY <1>0, <1>1 DEF TypeOK, ChangeProduct
  <1>2. ASSUME NEW w \in Worker, NEW u \in User, NEW p \in Product, AddRead(w, u, p)
        PROVE  TypeOK'
    <2>1. [product |-> p, price |-> product[p].price] \in Item
      BY <1>0 DEF TypeOK, Item
    <2>2. worker' \in [Worker -> WorkerType]
      BY <1>0, <1>2, <2>1 DEF TypeOK, AddRead, Serve
    <2> QED
      BY <1>0, <1>2, <2>2 DEF TypeOK, AddRead
  <1>3. ASSUME NEW w \in Worker, AddWrite(w) PROVE TypeOK'
    <2> DEFINE u == worker[w].user
    <2>1. worker[w].items \subseteq Item /\ u \in User
      BY <1>0, <1>3 DEF TypeOK, Working, AddWrite
    <2>2. worker' \in [Worker -> WorkerType]
      BY <1>0, <1>a, <1>3 DEF TypeOK, AddWrite, Finish
    <2>3. PICK i \in worker[w].items :
             \/ UNCHANGED carts
             \/ /\ ~HasProduct(cart[u], i.product)
                /\ cart' = [cart EXCEPT ![u] = @ \cup {i}]
                /\ added' = [added EXCEPT ![u][i] = @ + 1]
      BY <1>3 DEF AddWrite
    <2>i. i \in Item
      BY <2>1
    <2>4. cart' \in [User -> SUBSET Item] /\ added' \in [User -> [Item -> Nat]]
      <3>1. CASE UNCHANGED carts
        BY <1>0, <3>1 DEF TypeOK
      <3>2. CASE /\ cart' = [cart EXCEPT ![u] = @ \cup {i}]
                 /\ added' = [added EXCEPT ![u][i] = @ + 1]
        <4>1. added[u] \in [Item -> Nat] /\ added[u][i] \in Nat
          BY <1>0, <2>1, <2>i DEF TypeOK
        <4>2. [added[u] EXCEPT ![i] = @ + 1] \in [Item -> Nat]
          BY <2>i, <4>1, OneMoreAdd
        <4>3. added' = [added EXCEPT ![u] = [added[u] EXCEPT ![i] = @ + 1]]
          BY <3>2
        <4>4. added' \in [User -> [Item -> Nat]]
          BY <1>0, <2>1, <4>2, <4>3 DEF TypeOK
        <4>5. cart' \in [User -> SUBSET Item]
          BY <1>0, <2>1, <2>i, <3>2 DEF TypeOK
        <4> QED
          BY <4>4, <4>5
      <3> QED
        BY <2>3, <3>1, <3>2
    <2>5. \A v \in User : OneItemPerProduct(cart'[v])
      BY <1>0, <2>1, <2>3 DEF TypeOK, HasProduct
    <2> QED
      BY <1>0, <1>3, <2>2, <2>4, <2>5 DEF TypeOK, AddWrite
  <1>4. ASSUME NEW u \in User, NEW i \in cart[u], RemoveItem(u, i) PROVE TypeOK'
    BY <1>0, <1>4 DEF TypeOK, RemoveItem
  <1>5. ASSUME NEW u \in User, ClearCart(u) PROVE TypeOK'
    BY <1>0, <1>5 DEF TypeOK, ClearCart
  <1>6. ASSUME NEW w \in Worker, NEW u \in User, NEW c \in Code \cup {NoCode},
               ReadCart(w, u, c)
        PROVE  TypeOK'
    <2>1. worker' \in [Worker -> WorkerType]
      BY <1>0, <1>6 DEF TypeOK, ReadCart, Serve
    <2> QED
      BY <1>0, <1>6, <2>1 DEF TypeOK, ReadCart
  <1>7. ASSUME NEW w \in Worker, ReadDiscount(w) PROVE TypeOK'
    <2>1. worker[w].code \in Code
      BY <1>0, <1>7 DEF Working, ReadDiscount
    <2>2. code[worker[w].code].terms \in TermsType \cup {NoTerms}
      BY <1>0, <2>1 DEF TypeOK, CodeType
    <2>3. worker' \in [Worker -> WorkerType]
      BY <1>0, <1>a, <1>7, <2>2, DecideMoves
      DEF TypeOK, ReadDiscount, Finish, Continue, Serve
    <2> QED
      BY <1>0, <1>7, <2>3 DEF TypeOK, ReadDiscount
  <1>8. ASSUME NEW w \in Worker, CountUsages(w) PROVE TypeOK'
    <2>1. worker' \in [Worker -> WorkerType]
      BY <1>0, <1>a, <1>8, DecideMoves DEF TypeOK, CountUsages, Finish
    <2> QED
      BY <1>0, <1>8, <2>1 DEF TypeOK, CountUsages
  <1>9. ASSUME NEW w \in Worker, NEW o \in Order, Commit(w, o) PROVE TypeOK'
    <2>1. worker[w] \in WorkerType /\ worker[w].user \in User
      BY <1>0, <1>9 DEF TypeOK, Working, Commit, PlaceOrder
    <2>2. orders' \in [Order -> OrderType \cup {NoOrder}]
      BY <1>0, <1>9, <2>1 DEF TypeOK, Commit, PlaceOrder, OrderType
    <2>3. cart' \in [User -> SUBSET Item] /\ \A v \in User : OneItemPerProduct(cart'[v])
      BY <1>0, <1>9, <2>1 DEF TypeOK, Commit, PlaceOrder, Emptied
    <2>4. worker' \in [Worker -> WorkerType]
      BY <1>0, <1>a, <1>9 DEF TypeOK, Commit, PlaceOrder, Finish
    <2>5. usages' \in SUBSET UsageType
      BY <1>0, <1>9, <2>1 DEF TypeOK, Commit, PlaceOrder, UsageType
    <2>6. code' \in [Code -> CodeType]
      <3>1. CASE worker[w].code = NoCode
        BY <1>0, <1>9, <3>1 DEF TypeOK, Commit, PlaceOrder
      <3>2. CASE worker[w].code # NoCode
        <4>1. PICK c \in Code : c = worker[w].code
          BY <2>1, <3>2
        <4>2. code' = [code EXCEPT ![c].usageCount = code[c].usageCount + 1]
          BY <1>9, <3>2, <4>1 DEF Commit, PlaceOrder
        <4>3. code \in [Code -> CodeType] /\ code[c].usageCount + 1 \in Nat
          BY <1>0 DEF TypeOK, CodeType
        <4> QED
          BY <4>2, <4>3, CodeFields
      <3> QED
        BY <3>1, <3>2
    <2>7. UNCHANGED <<product, added, widest>>
      BY <1>9 DEF Commit, PlaceOrder
    <2> QED
      BY <1>0, <2>2, <2>3, <2>4, <2>5, <2>6, <2>7 DEF TypeOK
  <1>10. ASSUME NEW w \in Worker, RequestFails(w) PROVE TypeOK'
    <2>1. worker' \in [Worker -> WorkerType]
      BY <1>0, <1>a, <1>10 DEF TypeOK, RequestFails, Finish
    <2> QED
      BY <1>0, <1>10, <2>1 DEF TypeOK, RequestFails
  <1>11. ASSUME NEW c \in Code, NEW t \in Terms, NEW limit \in Limit, NEW window \in Windows,
                CreateCode(c, t, limit, window)
         PROVE  TypeOK'
    <2>1. t \in TermsType /\ limit \in Nat /\ t.perUserLimit \in Nat
      BY DEF TermsType
    <2> QED
      BY <1>0, <1>11, <2>1 DEF TypeOK, CreateCode, CodeType
  <1>12. ASSUME NEW c \in Code, NEW t \in Terms, NEW limit \in Limit, NEW window \in Windows,
                UpdateCode(c, t, limit, window)
         PROVE  TypeOK'
    <2>1. t \in TermsType /\ limit \in Nat /\ t.perUserLimit \in Nat
      BY DEF TermsType
    <2>2. code' \in [Code -> CodeType]
      BY <1>0, <1>12, <2>1 DEF TypeOK, UpdateCode, CodeType
    <2>3. widest' \in [Code -> [usage : Nat, perUser : Nat]]
      BY <1>0, <1>12, <2>1 DEF TypeOK, UpdateCode, Wider
    <2> QED
      BY <1>0, <1>12, <2>2, <2>3 DEF TypeOK, UpdateCode
  <1>13. ASSUME NEW c \in Code, NEW active \in BOOLEAN, SetActive(c, active) PROVE TypeOK'
    <2>1. code' \in [Code -> CodeType]
      BY <1>0, <1>13, CodeFields DEF TypeOK, SetActive
    <2> QED
      BY <1>0, <1>13, <2>1 DEF TypeOK, SetActive
  <1>14. ASSUME NEW c \in Code, TimePasses(c) PROVE TypeOK'
    <2>1. PICK window \in Windows : code' = [code EXCEPT ![c].window = window]
      BY <1>14 DEF TimePasses, Windows
    <2>2. code' \in [Code -> CodeType]
      BY <1>0, <2>1, CodeFields DEF TypeOK
    <2> QED
      BY <1>0, <1>14, <2>2 DEF TypeOK, TimePasses
  <1>15. ASSUME NEW c \in Code, RemoveCode(c) PROVE TypeOK'
    BY <1>0, <1>15 DEF TypeOK, RemoveCode, NoRow, CodeType, Windows
  <1>16. CASE UNCHANGED vars
    BY <1>0, <1>16 DEF TypeOK, vars
  <1> QED
    BY <1>1, <1>2, <1>3, <1>4, <1>5, <1>6, <1>7, <1>8, <1>9, <1>10, <1>11, <1>12,
       <1>13, <1>14, <1>15, <1>16 DEF Next, Shopping, CreatingOrder, Administration

-----------------------------------------------------------------------------
(* What a step may do to one worker, and to one code *)

LEMMA WorkerLife ==
    ASSUME IInv, [Next]_vars, NEW w \in Worker
    PROVE  \/ worker'[w] = worker[w]
           \/ worker'[w] = IdleWorker
           \/ \E u \in User, p \in Product : AddRead(w, u, p)
           \/ \E u \in User, c \in Code \cup {NoCode} : ReadCart(w, u, c)
           \/ ReadDiscount(w)
           \/ CountUsages(w)
  <1> DEFINE Moved(x) == worker'[w] = worker[w] \/ x = w
  <1>0. worker \in [Worker -> WorkerType]
    BY DEF IInv, TypeOK
  <1>1. ASSUME NEW x \in Worker, NEW u \in User, NEW p \in Product, AddRead(x, u, p)
        PROVE  Moved(x)
    BY <1>0, <1>1 DEF AddRead, Serve
  <1>2. ASSUME NEW x \in Worker,
               NEW u \in User, NEW c \in Code \cup {NoCode}, ReadCart(x, u, c)
        PROVE  Moved(x)
    BY <1>0, <1>2 DEF ReadCart, Serve
  <1>3. ASSUME NEW x \in Worker, ReadDiscount(x) PROVE Moved(x)
    BY <1>0, <1>3, DecideMoves DEF ReadDiscount, Continue, Serve, Finish
  <1>4. ASSUME NEW x \in Worker, CountUsages(x) PROVE Moved(x)
    BY <1>0, <1>4, DecideMoves DEF CountUsages, Finish
  <1>5. ASSUME NEW x \in Worker, Finish(x)
        PROVE  worker'[w] \in {worker[w], IdleWorker}
    BY <1>0, <1>5 DEF Finish
  <1>6. ASSUME Shopping PROVE \/ worker' = worker
                              \/ \E x \in Worker : Finish(x)
                              \/ \E x \in Worker, u \in User, p \in Product :
                                    AddRead(x, u, p)
    BY <1>6 DEF Shopping, ChangeProduct, AddWrite, RemoveItem, ClearCart
  <1>7. ASSUME CreatingOrder
        PROVE  \/ \E x \in Worker, u \in User, c \in Code \cup {NoCode} : ReadCart(x, u, c)
               \/ \E x \in Worker : ReadDiscount(x) \/ CountUsages(x) \/ Finish(x)
    BY <1>7 DEF CreatingOrder, Commit, PlaceOrder, RequestFails
  <1>8. ASSUME Administration \/ UNCHANGED vars PROVE worker' = worker
    BY <1>8 DEF Administration, CreateCode, UpdateCode, SetActive, TimePasses,
                RemoveCode, vars
  <1> QED
    BY <1>1, <1>2, <1>3, <1>4, <1>5, <1>6, <1>7, <1>8 DEF Next

\* A code is created, removed, used by an order that commits, or keeps its
\* usages and orders.
LEMMA CodeLife ==
    ASSUME IInv, [Next]_vars, NEW c \in Code
    PROVE  \/ /\ code[c].status = "none"
              /\ code'[c].status = "live"
              /\ code'[c].usageCount = 0
              /\ UNCHANGED <<usages, orders>>
           \/ /\ code[c].status = "live"
              /\ code'[c].status = "removed"
              /\ usages' = usages \ UsagesOf(c)
              /\ UNCHANGED orders
           \/ \E w \in Worker, o \in Order : Commit(w, o) /\ worker[w].code = c
           \/ /\ code'[c].status = code[c].status
              /\ code'[c].usageCount = code[c].usageCount
              /\ UsagesOf(c)' = UsagesOf(c)
              /\ OrdersWith(c)' = OrdersWith(c)
  <1> DEFINE Kept == /\ code'[c].status = code[c].status
                     /\ code'[c].usageCount = code[c].usageCount
                     /\ UsagesOf(c)' = UsagesOf(c)
                     /\ OrdersWith(c)' = OrdersWith(c)
  <1>0. TypeOK /\ code \in [Code -> CodeType] /\ Working
    BY DEF IInv, TypeOK
  <1>1. ASSUME UNCHANGED <<code, usages, orders>> PROVE Kept
    BY <1>1 DEF UsagesOf, OrdersWith
  <1>2. ASSUME UNCHANGED <<usages, orders>>,
               code'[c].status = code[c].status, code'[c].usageCount = code[c].usageCount
        PROVE  Kept
    BY <1>2 DEF UsagesOf, OrdersWith
  <1>3. ASSUME Shopping \/ UNCHANGED vars PROVE Kept
    <2>1. UNCHANGED <<code, usages, orders>>
      BY <1>3 DEF Shopping, ChangeProduct, AddRead, AddWrite, RemoveItem, ClearCart,
                  codes, vars
    <2> QED
      BY <2>1, <1>1
  <1>4. ASSUME NEW w \in Worker, NEW o \in Order, Commit(w, o), worker[w].code # c
        PROVE  Kept
    <2> USE DEF Commit, PlaceOrder
    <2>1. /\ orders \in [Order -> OrderType \cup {NoOrder}] /\ orders[o] = NoOrder
          /\ orders' = [orders EXCEPT ![o] = [user |-> worker[w].user,
                           items |-> worker[w].items, code |-> worker[w].code]]
      BY <1>0, <1>4 DEF TypeOK
    <2>2. OrdersWith(c)' = OrdersWith(c)
      BY <1>4, <2>1 DEF OrdersWith
    <2>3. \/ UNCHANGED usages
          \/ usages' = usages \cup {[code |-> worker[w].code,
                                     user |-> worker[w].user, order |-> o]}
      BY <1>4
    <2>4. UsagesOf(c)' = UsagesOf(c)
      BY <1>4, <2>3 DEF UsagesOf
    <2>5. code'[c] = code[c]
      <3>1. CASE worker[w].code = NoCode
        BY <1>4, <3>1
      <3>2. CASE worker[w].code # NoCode
        BY <1>0, <1>4, <3>2
      <3> QED
        BY <3>1, <3>2
    <2> QED
      BY <2>2, <2>4, <2>5
  <1>5. ASSUME CreatingOrder, \A w \in Worker, o \in Order : ~Commit(w, o) PROVE Kept
    <2>1. UNCHANGED <<code, usages, orders>>
      BY <1>5 DEF CreatingOrder, ReadCart, ReadDiscount, CountUsages, RequestFails, codes
    <2> QED
      BY <2>1, <1>1
  <1>6. ASSUME NEW d \in Code, NEW t \in Terms, NEW limit \in Limit,
               NEW window \in Windows, CreateCode(d, t, limit, window), d # c
        PROVE  Kept
    BY <1>0, <1>2, <1>6 DEF CreateCode
  <1>7. ASSUME NEW t \in Terms, NEW limit \in Limit, NEW window \in Windows,
               CreateCode(c, t, limit, window)
        PROVE  /\ code[c].status = "none"
               /\ code'[c].status = "live"
               /\ code'[c].usageCount = 0
               /\ UNCHANGED <<usages, orders>>
    BY <1>0, <1>7 DEF CreateCode
  <1>8. ASSUME NEW d \in Code, NEW t \in Terms, NEW limit \in Limit,
               NEW window \in Windows, UpdateCode(d, t, limit, window)
        PROVE  Kept
    <2>1. /\ code'[c].status = code[c].status
          /\ code'[c].usageCount = code[c].usageCount
      BY <1>0, <1>8 DEF UpdateCode
    <2> QED
      BY <1>2, <1>8, <2>1 DEF UpdateCode
  <1>9. ASSUME NEW d \in Code, NEW active \in BOOLEAN, SetActive(d, active) PROVE Kept
    <2>1. /\ code'[c].status = code[c].status
          /\ code'[c].usageCount = code[c].usageCount
      BY <1>0, <1>9 DEF SetActive, CodeType
    <2> QED
      BY <1>2, <1>9, <2>1 DEF SetActive
  <1>10. ASSUME NEW d \in Code, TimePasses(d) PROVE Kept
    <2>1. PICK s \in Windows : code' = [code EXCEPT ![d].window = s]
      BY <1>10 DEF TimePasses, Windows
    <2>2. /\ code'[c].status = code[c].status
          /\ code'[c].usageCount = code[c].usageCount
      BY <1>0, <2>1 DEF CodeType
    <2> QED
      BY <1>2, <1>10, <2>2 DEF TimePasses
  <1>11. ASSUME NEW d \in Code, RemoveCode(d), d # c PROVE Kept
    <2>1. code'[c] = code[c] /\ orders' = orders /\ usages' = usages \ UsagesOf(d)
      BY <1>0, <1>11 DEF RemoveCode
    <2> QED
      BY <1>11, <2>1 DEF UsagesOf, OrdersWith
  <1>12. ASSUME RemoveCode(c)
         PROVE  /\ code[c].status = "live"
                /\ code'[c].status = "removed"
                /\ usages' = usages \ UsagesOf(c)
                /\ UNCHANGED orders
    BY <1>0, <1>12 DEF RemoveCode, NoRow
  <1>13. CASE Administration
    BY <1>6, <1>7, <1>8, <1>9, <1>10, <1>11, <1>12, <1>13 DEF Administration
  <1>14. CASE CreatingOrder
    BY <1>4, <1>5, <1>14
  <1> QED
    BY <1>3, <1>13, <1>14 DEF Next

\* The writes of a commit with code c, in one place.
LEMMA CommitWrites ==
    ASSUME IInv, NEW w \in Worker, NEW o \in Order, Commit(w, o)
    PROVE  /\ orders[o] = NoOrder /\ orders'[o] # NoOrder
           /\ orders'[o] = [user |-> worker[w].user, items |-> worker[w].items,
                            code |-> worker[w].code]
           /\ \A p \in Order : p # o => orders'[p] = orders[p]
           /\ worker[w].user \in User
           /\ worker[w].code = NoCode => usages' = usages /\ code' = code
           /\ worker[w].code # NoCode =>
                 /\ worker[w].code \in Code
                 /\ usages' = usages \cup {[code |-> worker[w].code,
                                             user |-> worker[w].user, order |-> o]}
                 /\ code[worker[w].code].status = "live"
                 /\ code'[worker[w].code].status = "live"
                 /\ code'[worker[w].code].usageCount = code[worker[w].code].usageCount + 1
                 /\ \A d \in Code : d # worker[w].code => code'[d] = code[d]
  <1> USE CheckoutAssumption DEF Commit, PlaceOrder
  <1> DEFINE r == [user |-> worker[w].user, items |-> worker[w].items,
                   code |-> worker[w].code]
  <1>0. TypeOK /\ Working
    BY DEF IInv
  <1>1. worker[w] \in WorkerType /\ worker[w].user \in User
    BY <1>0 DEF TypeOK, Working
  <1>2. r \in OrderType
    BY <1>1 DEF WorkerType, OrderType
  <1>3. orders \in [Order -> OrderType \cup {NoOrder}] /\ orders' = [orders EXCEPT ![o] = r]
    BY <1>0 DEF TypeOK
  <1>4. /\ orders[o] = NoOrder /\ orders'[o] = r /\ r # NoOrder
        /\ \A p \in Order : p # o => orders'[p] = orders[p]
    BY <1>2, <1>3
  <1>5. CASE worker[w].code = NoCode
    BY <1>1, <1>4, <1>5
  <1>6. CASE worker[w].code # NoCode
    <2>1. PICK c \in Code : c = worker[w].code
      BY <1>1, <1>6 DEF WorkerType
    <2>2. code \in [Code -> CodeType] /\ code[c].status = "live"
          /\ code' = [code EXCEPT ![c].usageCount = code[c].usageCount + 1]
      BY <1>0, <1>6, <2>1 DEF TypeOK, CodeInPlace
    <2>3. /\ code'[c].status = "live"
          /\ code'[c].usageCount = code[c].usageCount + 1
          /\ \A d \in Code : d # c => code'[d] = code[d]
      BY <2>2 DEF CodeType
    <2>4. usages' = usages \cup {[code |-> c, user |-> worker[w].user, order |-> o]}
      BY <1>6, <2>1
    <2> QED
      BY <1>1, <1>4, <1>6, <2>1, <2>2, <2>3, <2>4
  <1> QED
    BY <1>5, <1>6

-----------------------------------------------------------------------------
(* Workers *)

LEMMA WorkingStep == IInv /\ [Next]_vars => Working'
  <1> SUFFICES ASSUME IInv, [Next]_vars, NEW w \in Worker
               PROVE  /\ worker'[w].pc # "idle" => worker'[w].user \in User
                      /\ worker'[w].pc \in {"discount", "count"} => worker'[w].code \in Code
                      /\ worker'[w].pc = "count" =>
                            code'[worker'[w].code].status # "none"
    BY DEF Working
  <1> USE CheckoutAssumption
  <1>0. TypeOK /\ Working /\ worker \in [Worker -> WorkerType]
    BY DEF IInv, TypeOK
  <1>1. ASSUME NEW c \in Code, code[c].status # "none" PROVE code'[c].status # "none"
    BY <1>1, CodeLife, CommitWrites
  <1>2. CASE worker'[w] = worker[w]
    BY <1>0, <1>1, <1>2 DEF Working
  <1>3. CASE worker'[w] = IdleWorker
    BY <1>3 DEF IdleWorker
  <1>4. ASSUME NEW u \in User, NEW p \in Product, AddRead(w, u, p)
        PROVE  worker'[w].pc = "add" /\ worker'[w].user = u
    BY <1>0, <1>4 DEF AddRead, Serve
  <1>5. ASSUME NEW u \in User, NEW c \in Code \cup {NoCode}, ReadCart(w, u, c)
        PROVE  /\ worker'[w].pc \in {"discount", "commit"} /\ worker'[w].user = u
               /\ worker'[w].pc = "discount" => worker'[w].code \in Code
    BY <1>0, <1>5 DEF ReadCart, Serve
  <1>6. CASE ReadDiscount(w)
    <2>1. /\ worker[w].user \in User /\ worker[w].code \in Code
          /\ UNCHANGED code
      BY <1>0, <1>6 DEF Working, ReadDiscount, codes
    <2>2. \/ worker'[w] = IdleWorker
          \/ /\ worker'[w].user = worker[w].user /\ worker'[w].code = worker[w].code
             /\ worker'[w].pc \in {"count", "commit"}
             /\ code[worker[w].code].status = "live"
      BY <1>0, <1>6, DecideMoves DEF ReadDiscount, Continue, Serve, Finish, Redeemable
    <2> QED
      BY <2>1, <2>2, <1>3
  <1>7. CASE CountUsages(w)
    <2>1. worker[w].user \in User
      BY <1>0, <1>7 DEF Working, CountUsages
    <2>2. \/ worker'[w] = IdleWorker
          \/ worker'[w].user = worker[w].user /\ worker'[w].pc = "commit"
      BY <1>0, <1>7, DecideMoves DEF CountUsages, Finish
    <2> QED
      BY <2>1, <2>2, <1>3
  <1> QED
    BY <1>2, <1>3, <1>4, <1>5, <1>6, <1>7, WorkerLife

-----------------------------------------------------------------------------
(* Usages, counters and orders *)

\* Only a commit adds orders or usages.
LEMMA OrdersOnlyByCommit ==
    ASSUME [Next]_vars, \A w \in Worker, o \in Order : ~Commit(w, o)
    PROVE  orders' = orders /\ usages' \subseteq usages
  <1>1. CASE Shopping \/ UNCHANGED vars
    BY <1>1 DEF Shopping, ChangeProduct, AddRead, AddWrite, RemoveItem, ClearCart,
                codes, vars
  <1>2. CASE CreatingOrder
    BY <1>2 DEF CreatingOrder, ReadCart, ReadDiscount, CountUsages, RequestFails, codes
  <1>3. CASE Administration
    BY <1>3 DEF Administration, CreateCode, UpdateCode, SetActive, TimePasses, RemoveCode
  <1> QED
    BY <1>1, <1>2, <1>3 DEF Next

LEMMA UsageStep ==
    ASSUME IInv, [Next]_vars
    PROVE  IsFiniteSet(usages)' /\ UsageAccounting' /\ UncreatedUnused'
  <1> USE CheckoutAssumption
  <1>0. TypeOK /\ IsFiniteSet(usages) /\ UsageAccounting /\ UncreatedUnused
    BY DEF IInv
  <1>1. IsFiniteSet(usages')
    <2>1. ASSUME NEW w \in Worker, NEW o \in Order, Commit(w, o)
          PROVE  IsFiniteSet(usages')
      <3>1. \/ usages' = usages
            \/ \E g : usages' = usages \cup {g}
        BY <2>1, CommitWrites
      <3> QED
        BY <1>0, <3>1, FS_AddElement
    <2>2. ASSUME usages' \subseteq usages PROVE IsFiniteSet(usages')
      BY <1>0, <2>2, FS_Subset
    <2> QED
      BY <2>1, <2>2, OrdersOnlyByCommit
  <1>2. ASSUME NEW g \in usages'
        PROVE  /\ orders'[g.order] # NoOrder
               /\ orders'[g.order].code = g.code
               /\ orders'[g.order].user = g.user
    <2>1. \A h \in usages : /\ h.order \in Order
                            /\ orders[h.order] # NoOrder
                            /\ orders[h.order].code = h.code
                            /\ orders[h.order].user = h.user
      BY <1>0 DEF TypeOK, UsageType, UsageAccounting
    <2>2. ASSUME NEW w \in Worker, NEW o \in Order, Commit(w, o)
          PROVE  /\ orders'[g.order] # NoOrder
                 /\ orders'[g.order].code = g.code
                 /\ orders'[g.order].user = g.user
      <3>1. /\ orders[o] = NoOrder
            /\ orders'[o] # NoOrder
            /\ orders'[o] = [user |-> worker[w].user, items |-> worker[w].items,
                             code |-> worker[w].code]
            /\ \A p \in Order : p # o => orders'[p] = orders[p]
            /\ \/ usages' = usages
               \/ usages' = usages \cup {[code |-> worker[w].code,
                                         user |-> worker[w].user, order |-> o]}
        BY <2>2, CommitWrites
      <3>2. CASE g \in usages
        BY <2>1, <3>1, <3>2
      <3>3. CASE g = [code |-> worker[w].code, user |-> worker[w].user, order |-> o]
        BY <3>1, <3>3
      <3> QED
        BY <1>2, <3>1, <3>2, <3>3
    <2> QED
      BY <2>1, <2>2, <1>2, OrdersOnlyByCommit
  <1>3. ASSUME NEW c \in Code
        PROVE  /\ code'[c].status = "live" =>
                     /\ code'[c].usageCount = Cardinality(UsagesOf(c)')
                     /\ {g.order : g \in UsagesOf(c)'} = OrdersWith(c)'
               /\ code'[c].status # "live" => UsagesOf(c)' = {}
               /\ code'[c].status = "none" => OrdersWith(c)' = {}
    <2> DEFINE Goal == /\ code'[c].status = "live" =>
                             /\ code'[c].usageCount = Cardinality(UsagesOf(c)')
                             /\ {g.order : g \in UsagesOf(c)'} = OrdersWith(c)'
                       /\ code'[c].status # "live" => UsagesOf(c)' = {}
                       /\ code'[c].status = "none" => OrdersWith(c)' = {}
    <2>0. /\ code[c].status = "live" =>
                /\ code[c].usageCount = Cardinality(UsagesOf(c))
                /\ {g.order : g \in UsagesOf(c)} = OrdersWith(c)
          /\ code[c].status # "live" => UsagesOf(c) = {}
          /\ code[c].status = "none" => OrdersWith(c) = {}
      BY <1>0 DEF UsageAccounting, UncreatedUnused
    <2>1. ASSUME code[c].status = "none", code'[c].status = "live",
                 code'[c].usageCount = 0, UNCHANGED <<usages, orders>>
          PROVE  Goal
      <3>1. UsagesOf(c)' = {} /\ OrdersWith(c)' = {}
        BY <2>0, <2>1 DEF UsagesOf, OrdersWith
      <3> QED
        BY <2>1, <3>1, FS_EmptySet
    <2>2. ASSUME code'[c].status = "removed", usages' = usages \ UsagesOf(c)
          PROVE  Goal
      BY <2>2 DEF UsagesOf
    <2>3. ASSUME NEW w \in Worker, NEW o \in Order, Commit(w, o), worker[w].code = c
          PROVE  Goal
      <3> DEFINE g == [code |-> c, user |-> worker[w].user, order |-> o]
      <3>1. /\ code[c].status = "live" /\ code'[c].status = "live"
            /\ code'[c].usageCount = code[c].usageCount + 1
            /\ usages' = usages \cup {g}
            /\ orders[o] = NoOrder /\ orders'[o] # NoOrder /\ orders'[o].code = c
            /\ \A p \in Order : p # o => orders'[p] = orders[p]
        <4>1. worker[w].code # NoCode /\ worker[w].code = c
          BY <2>3
        <4>2. orders'[o] = [user |-> worker[w].user, items |-> worker[w].items,
                            code |-> worker[w].code]
          BY <2>3, CommitWrites
        <4>3. orders'[o].code = c
          BY <4>1, <4>2
        <4>4. /\ code[c].status = "live" /\ code'[c].status = "live"
              /\ code'[c].usageCount = code[c].usageCount + 1
              /\ usages' = usages \cup {g}
          BY <2>3, <4>1, CommitWrites
        <4>5. /\ orders[o] = NoOrder /\ orders'[o] # NoOrder
              /\ \A p \in Order : p # o => orders'[p] = orders[p]
          BY <2>3, CommitWrites
        <4> QED
          BY <4>3, <4>4, <4>5
      <3>2. UsagesOf(c)' = UsagesOf(c) \cup {g}
        BY <3>1 DEF UsagesOf
      <3>3. g \notin UsagesOf(c)
        BY <1>0, <3>1 DEF UsagesOf, UsageAccounting
      <3>4. IsFiniteSet(UsagesOf(c))
        BY <1>0, FS_Subset DEF UsagesOf
      <3>5. Cardinality(UsagesOf(c)') = Cardinality(UsagesOf(c)) + 1
        BY <3>2, <3>3, <3>4, FS_AddElement
      <3>6. OrdersWith(c)' = OrdersWith(c) \cup {o}
        BY <3>1 DEF OrdersWith
      <3>7. {h.order : h \in UsagesOf(c)'} = {h.order : h \in UsagesOf(c)} \cup {o}
        <4>1. g.order = o
          OBVIOUS
        <4> QED
          BY <3>2, <4>1
      <3> QED
        BY <2>0, <3>1, <3>5, <3>6, <3>7
    <2>4. ASSUME /\ code'[c].status = code[c].status
                 /\ code'[c].usageCount = code[c].usageCount
                 /\ UsagesOf(c)' = UsagesOf(c)
                 /\ OrdersWith(c)' = OrdersWith(c)
          PROVE  Goal
      BY <2>0, <2>4
    <2> QED
      BY <2>1, <2>2, <2>3, <2>4, CodeLife
  <1> QED
    BY <1>1, <1>2, <1>3 DEF UsageAccounting, UncreatedUnused

-----------------------------------------------------------------------------
(* Carts *)

\* Only addItem puts items in carts.
LEMMA OnlyAddsFill ==
    ASSUME IInv, [Next]_vars, \A w \in Worker : ~AddWrite(w)
    PROVE  added' = added /\ \A u \in User : cart'[u] \subseteq cart[u]
  <1> USE DEF carts
  <1>1. cart \in [User -> SUBSET Item]
    BY DEF IInv, TypeOK
  <1>2. CASE Shopping
    BY <1>1, <1>2 DEF Shopping, ChangeProduct, AddRead, RemoveItem, ClearCart
  <1>3. CASE CreatingOrder
    BY <1>1, <1>3 DEF CreatingOrder, ReadCart, ReadDiscount, CountUsages, RequestFails,
                      Commit, PlaceOrder, Emptied
  <1>4. CASE Administration \/ UNCHANGED vars
    BY <1>4 DEF Administration, CreateCode, UpdateCode, SetActive, TimePasses,
                RemoveCode, vars
  <1> QED
    BY <1>2, <1>3, <1>4 DEF Next

\* A step takes from carts, or puts in one cart an item that it counts.
LEMMA CartLife ==
    ASSUME IInv, [Next]_vars
    PROVE  \/ /\ added' = added
              /\ \A u \in User : cart'[u] \subseteq cart[u]
           \/ \E u \in User, i \in Item :
                 /\ cart' = [cart EXCEPT ![u] = cart[u] \cup {i}]
                 /\ added' = [added EXCEPT ![u][i] = added[u][i] + 1]
  <1>1. ASSUME NEW w \in Worker, AddWrite(w)
        PROVE  \/ added' = added /\ \A u \in User : cart'[u] \subseteq cart[u]
               \/ \E u \in User, i \in Item :
                     /\ cart' = [cart EXCEPT ![u] = cart[u] \cup {i}]
                     /\ added' = [added EXCEPT ![u][i] = added[u][i] + 1]
    <2>1. worker[w].user \in User /\ worker[w].items \subseteq Item
      BY <1>1 DEF IInv, TypeOK, Working, WorkerType, AddWrite
    <2> QED
      BY <1>1, <2>1 DEF AddWrite, carts
  <1> QED
    BY <1>1, OnlyAddsFill

LEMMA AddedStep ==
    ASSUME IInv, [Next]_vars
    PROVE  Added' /\ PriceLocked'
  <1>0. TypeOK /\ Working /\ Added /\ PriceLocked /\ worker \in [Worker -> WorkerType]
    BY DEF IInv, TypeOK
  <1>1. ASSUME NEW u \in User, NEW i \in Item
        PROVE  /\ added[u][i] > 0 => added'[u][i] > 0
               /\ i \in cart'[u] => i \in cart[u] \/ added'[u][i] > 0
    <2>0. added \in [User -> [Item -> Nat]] /\ cart \in [User -> SUBSET Item]
      BY <1>0 DEF TypeOK
    <2>1. ASSUME NEW v \in User, NEW j \in Item,
                 cart' = [cart EXCEPT ![v] = cart[v] \cup {j}],
                 added' = [added EXCEPT ![v][j] = added[v][j] + 1]
          PROVE  /\ added[u][i] > 0 => added'[u][i] > 0
                 /\ i \in cart'[u] => i \in cart[u] \/ added'[u][i] > 0
      <3>1. CASE u = v /\ i = j
        BY <2>0, <2>1, <3>1
      <3>2. CASE ~(u = v /\ i = j)
        BY <2>0, <2>1, <3>2
      <3> QED
        BY <3>1, <3>2
    <2> QED
      BY <2>1, CartLife
  <1>2. \A u \in User : \A i \in cart'[u] : added'[u][i] > 0
    <2>1. \A u \in User : cart'[u] \subseteq Item
      BY TypeStep DEF TypeOK
    <2> QED
      BY <1>0, <1>1, <2>1 DEF Added
  <1>3. ASSUME NEW w \in Worker, worker[w].pc \in {"discount", "count", "commit"},
               NEW i \in worker[w].items
        PROVE  added'[worker[w].user][i] > 0
    <2>1. worker[w].user \in User /\ i \in Item
      BY <1>0, <1>3 DEF Working, WorkerType
    <2> QED
      BY <1>0, <1>1, <1>3, <2>1 DEF Added
  <1>4. ASSUME NEW w \in Worker, worker'[w].pc \in {"discount", "count", "commit"},
               NEW i \in worker'[w].items
        PROVE  added'[worker'[w].user][i] > 0
    <2>1. CASE worker'[w] = worker[w]
      BY <1>3, <1>4, <2>1
    <2>2. CASE worker'[w] = IdleWorker
      BY <1>4, <2>2 DEF IdleWorker
    <2>3. ASSUME NEW u \in User, NEW p \in Product, AddRead(w, u, p)
          PROVE  worker'[w].pc = "add"
      BY <1>0, <2>3 DEF AddRead, Serve
    <2>4. ASSUME NEW u \in User, NEW c \in Code \cup {NoCode}, ReadCart(w, u, c)
          PROVE  added'[worker'[w].user][i] > 0
      <3>1. worker'[w].user = u /\ worker'[w].items = cart[u] /\ cart' = cart
        BY <1>0, <2>4 DEF ReadCart, Serve, carts
      <3> QED
        BY <1>2, <1>4, <3>1
    <2>5. CASE ReadDiscount(w)
      <3>1. \/ worker'[w] = IdleWorker
            \/ worker'[w].user = worker[w].user /\ worker'[w].items = worker[w].items
        BY <1>0, <2>5, DecideMoves DEF ReadDiscount, Continue, Serve, Finish
      <3> QED
        BY <1>3, <1>4, <2>2, <2>5, <3>1 DEF ReadDiscount
    <2>6. CASE CountUsages(w)
      <3>1. \/ worker'[w] = IdleWorker
            \/ worker'[w].user = worker[w].user /\ worker'[w].items = worker[w].items
        BY <1>0, <2>6, DecideMoves DEF CountUsages, Finish
      <3> QED
        BY <1>3, <1>4, <2>2, <2>6, <3>1 DEF CountUsages
    <2> QED
      BY <1>4, <2>1, <2>2, <2>3, <2>4, <2>5, <2>6, WorkerLife
  <1>5. ASSUME NEW o \in Order, orders'[o] # NoOrder, NEW i \in orders'[o].items
        PROVE  added'[orders'[o].user][i] > 0
    <2>1. CASE orders'[o] = orders[o]
      <3>1. orders[o].user \in User /\ i \in Item
        BY <1>0, <1>5, <2>1 DEF TypeOK, OrderType
      <3> QED
        BY <1>0, <1>1, <1>5, <2>1, <3>1 DEF PriceLocked
    <2>2. ASSUME NEW w \in Worker, Commit(w, o)
          PROVE  added'[orders'[o].user][i] > 0
      <3>1. /\ orders'[o].user = worker[w].user
            /\ orders'[o].items = worker[w].items
        <4>1. orders'[o] = [user |-> worker[w].user, items |-> worker[w].items,
                            code |-> worker[w].code]
          BY <2>2, CommitWrites
        <4> QED
          BY <4>1
      <3>2. worker[w].pc = "commit"
        BY <2>2 DEF Commit, PlaceOrder
      <3> QED
        BY <1>3, <1>5, <3>1, <3>2
    <2>3. ASSUME NEW w \in Worker, NEW p \in Order, p # o, Commit(w, p)
          PROVE  orders'[o] = orders[o]
      BY <2>3, CommitWrites
    <2> QED
      BY <2>1, <2>2, <2>3, OrdersOnlyByCommit
  <1> QED
    BY <1>2, <1>4, <1>5 DEF Added, PriceLocked

-----------------------------------------------------------------------------
(* Limits *)

\* Cardinalities of finite sets, as they are compared below.
LEMMA Sizes ==
    ASSUME NEW S, NEW T, IsFiniteSet(T), S \subseteq T
    PROVE  /\ IsFiniteSet(S)
           /\ Cardinality(S) \in Nat /\ Cardinality(T) \in Nat
           /\ Cardinality(S) <= Cardinality(T)
           /\ \A x \in T : x \notin S => Cardinality(S) + 1 <= Cardinality(T)
  <1>1. /\ IsFiniteSet(S)
        /\ Cardinality(S) \in Nat /\ Cardinality(T) \in Nat
        /\ Cardinality(S) <= Cardinality(T)
    BY FS_Subset, FS_CardinalityType
  <1>2. ASSUME NEW x \in T, x \notin S
        PROVE  Cardinality(S) + 1 <= Cardinality(T)
    <2>1. /\ IsFiniteSet(T \ {x})
          /\ Cardinality(T \ {x}) = Cardinality(T) - 1
      BY <1>2, FS_RemoveElement
    <2>2. S \subseteq T \ {x}
      BY <1>2
    <2>3. Cardinality(S) <= Cardinality(T \ {x})
      BY <2>1, <2>2, FS_Subset
    <2> QED
      BY <1>1, <2>1, <2>3
  <1> QED
    BY <1>1, <1>2

\* The limits of a live code lie within the widest, which only widen.
LEMMA LimitsWiden ==
    ASSUME IInv, [Next]_vars, NEW c \in Code, code'[c].status = "live"
    PROVE  /\ widest'[c].usage # 0 =>
                 /\ code'[c].usageLimit # 0
                 /\ code'[c].usageLimit <= widest'[c].usage
                 /\ code[c].status = "live" =>
                       widest[c].usage # 0 /\ widest[c].usage <= widest'[c].usage
           /\ widest'[c].perUser # 0 =>
                 /\ code'[c].terms.perUserLimit # 0
                 /\ code'[c].terms.perUserLimit <= widest'[c].perUser
                 /\ code[c].status = "live" =>
                       widest[c].perUser # 0 /\ widest[c].perUser <= widest'[c].perUser
  <1> USE CheckoutAssumption
  <1> DEFINE Same == /\ code'[c].usageLimit = code[c].usageLimit
                     /\ code'[c].terms = code[c].terms
                     /\ code'[c].status = code[c].status
                     /\ widest'[c] = widest[c]
  <1>0. /\ TypeOK /\ code \in [Code -> CodeType]
        /\ widest \in [Code -> [usage : Nat, perUser : Nat]]
        /\ WithinWidest
    BY DEF IInv, TypeOK
  <1>1. CASE Same
    <2>1. widest[c].usage \in Nat /\ widest[c].perUser \in Nat
      BY <1>0
    <2> QED
      BY <1>0, <1>1, <2>1 DEF WithinWidest
  <1>2. ASSUME NEW t \in Terms, NEW limit \in Limit, NEW window \in Windows,
               CreateCode(c, t, limit, window)
        PROVE  /\ code[c].status = "none"
               /\ code'[c].usageLimit = limit /\ code'[c].terms = t
               /\ widest'[c].usage = limit /\ widest'[c].perUser = t.perUserLimit
               /\ limit \in Nat /\ t.perUserLimit \in Nat
    BY <1>0, <1>2 DEF CreateCode, TermsType
  <1>3. ASSUME NEW t \in Terms, NEW limit \in Limit, NEW window \in Windows,
               UpdateCode(c, t, limit, window)
        PROVE  /\ code[c].status = "live"
               /\ code'[c].usageLimit = limit /\ code'[c].terms = t
               /\ widest'[c].usage = Wider(widest[c].usage, limit)
               /\ widest'[c].perUser = Wider(widest[c].perUser, t.perUserLimit)
               /\ limit \in Nat /\ t.perUserLimit \in Nat
               /\ widest[c].usage \in Nat /\ widest[c].perUser \in Nat
    BY <1>0, <1>3 DEF UpdateCode, TermsType
  <1>4. ASSUME NEW d \in Code, d # c, NEW t \in Terms, NEW limit \in Limit,
               NEW window \in Windows,
               CreateCode(d, t, limit, window) \/ UpdateCode(d, t, limit, window)
        PROVE  Same
    BY <1>0, <1>4 DEF CreateCode, UpdateCode
  <1>5. ASSUME NEW d \in Code, NEW active \in BOOLEAN, SetActive(d, active) PROVE Same
    BY <1>0, <1>5 DEF SetActive, CodeType
  <1>6. ASSUME NEW d \in Code, TimePasses(d) PROVE Same
    <2>1. PICK s \in Windows : code' = [code EXCEPT ![d].window = s]
      BY <1>6 DEF TimePasses, Windows
    <2> QED
      BY <1>0, <1>6, <2>1 DEF CodeType, TimePasses
  <1>7. ASSUME NEW d \in Code, RemoveCode(d) PROVE Same
    BY <1>0, <1>7 DEF RemoveCode, NoRow
  <1>8. ASSUME Shopping \/ UNCHANGED vars PROVE Same
    BY <1>8 DEF Shopping, ChangeProduct, AddRead, AddWrite, RemoveItem, ClearCart,
                codes, vars
  <1>9. ASSUME CreatingOrder PROVE Same
    <2>1. ASSUME NEW w \in Worker, NEW o \in Order, Commit(w, o) PROVE Same
      <3>1. widest' = widest
        BY <2>1 DEF Commit, PlaceOrder
      <3>2. CASE worker[w].code = NoCode
        BY <2>1, <3>1, <3>2, CommitWrites
      <3>3. CASE worker[w].code # NoCode
        <4>1. PICK d \in Code : d = worker[w].code
          BY <2>1, <3>3, CommitWrites
        <4>2. code' = [code EXCEPT ![d].usageCount = code[d].usageCount + 1]
          BY <2>1, <3>3, <4>1 DEF Commit, PlaceOrder
        <4> QED
          BY <1>0, <3>1, <4>2 DEF CodeType
      <3> QED
        BY <3>2, <3>3
    <2>2. ASSUME \A w \in Worker, o \in Order : ~Commit(w, o) PROVE Same
      BY <1>9, <2>2 DEF CreatingOrder, ReadCart, ReadDiscount, CountUsages,
                        RequestFails, codes
    <2> QED
      BY <2>1, <2>2
  <1>10. CASE Administration
    BY <1>1, <1>2, <1>3, <1>4, <1>5, <1>6, <1>7, <1>10 DEF Administration, Wider
  <1> QED
    BY <1>1, <1>8, <1>9, <1>10 DEF Next

-----------------------------------------------------------------------------
(* Requests that passed a check *)

\* A code that is live was live before, or has just been created.
LEMMA LiveOnce ==
    ASSUME IInv, [Next]_vars, NEW c \in Code, code'[c].status = "live",
           code[c].status # "none"
    PROVE  code[c].status = "live"
  BY CodeLife, CommitWrites

LEMMA WidestStep == ASSUME IInv, [Next]_vars PROVE WithinWidest'
  <1> USE CheckoutAssumption
  <1>0. /\ TypeOK /\ Working /\ WithinWidest
        /\ worker \in [Worker -> WorkerType]
        /\ code \in [Code -> CodeType]
        /\ widest \in [Code -> [usage : Nat, perUser : Nat]]
        /\ widest' \in [Code -> [usage : Nat, perUser : Nat]]
    BY TypeStep DEF IInv, TypeOK
  <1>1. \A c \in Code : code'[c].status = "live" =>
          /\ widest'[c].usage # 0 =>
                code'[c].usageLimit # 0 /\ code'[c].usageLimit <= widest'[c].usage
          /\ widest'[c].perUser # 0 =>
                /\ code'[c].terms.perUserLimit # 0
                /\ code'[c].terms.perUserLimit <= widest'[c].perUser
    BY LimitsWiden
  <1>2. ASSUME NEW w \in Worker, worker'[w].pc = "count",
               NEW c, c = worker'[w].code,
               code'[c].status = "live", widest'[c].perUser # 0
        PROVE  worker'[w].terms.perUserLimit <= widest'[c].perUser
    <2>1. CASE worker'[w] = worker[w]
      <3>1. c \in Code /\ code[c].status = "live"
        BY <1>0, <1>2, <2>1, LiveOnce DEF Working
      <3>2. widest[c].perUser # 0 /\ widest[c].perUser <= widest'[c].perUser
        BY <1>2, <3>1, LimitsWiden
      <3>3. worker[w].terms.perUserLimit <= widest[c].perUser
        BY <1>0, <1>2, <2>1, <3>1, <3>2 DEF WithinWidest
      <3>4. worker[w].terms.perUserLimit \in Nat
        BY <1>0 DEF WorkerType, TermsType, NoTerms
      <3>5. widest[c].perUser \in Nat /\ widest'[c].perUser \in Nat
        BY <1>0, <3>1
      <3> QED
        BY <2>1, <3>2, <3>3, <3>4, <3>5
    <2>2. ASSUME NEW u \in User, NEW p \in Product, AddRead(w, u, p) PROVE FALSE
      BY <1>0, <1>2, <2>2 DEF AddRead, Serve
    <2>3. ASSUME NEW u \in User, NEW d \in Code \cup {NoCode}, ReadCart(w, u, d)
          PROVE  FALSE
      BY <1>0, <1>2, <2>3 DEF ReadCart, Serve
    <2>4. CASE ReadDiscount(w)
      <3>1. /\ worker[w].code \in Code
            /\ worker'[w].code = worker[w].code
            /\ worker'[w].terms = code[worker[w].code].terms
            /\ UNCHANGED <<code, widest>>
        BY <1>0, <1>2, <2>4, DecideMoves
        DEF Working, ReadDiscount, Continue, Serve, Finish, IdleWorker, codes
      <3> QED
        BY <1>0, <1>2, <3>1 DEF WithinWidest
    <2>5. CASE CountUsages(w)
      BY <1>0, <1>2, <2>5, DecideMoves DEF CountUsages, Finish, IdleWorker
    <2> QED
      BY <1>2, <2>1, <2>2, <2>3, <2>4, <2>5, WorkerLife DEF IdleWorker
  <1> QED
    BY <1>1, <1>2 DEF WithinWidest

\* The requests that found a code redeemable are those of before, unless one
\* has just read the code.
LEMMA HoldersStep ==
    ASSUME IInv, [Next]_vars, NEW c \in Code
    PROVE  \/ Holders(c)' \subseteq Holders(c)
           \/ \E w \in Worker : /\ ReadDiscount(w)
                                /\ worker[w].code = c
                                /\ Redeemable(c)
  <1> USE CheckoutAssumption
  <1>0. Working /\ worker \in [Worker -> WorkerType]
    BY DEF IInv, TypeOK
  <1>1. SUFFICES ASSUME NEW w \in Worker, worker'[w].code = c,
                        worker'[w].pc \in {"count", "commit"},
                        ~(ReadDiscount(w) /\ worker[w].code = c /\ Redeemable(c))
                 PROVE  worker[w].code = c /\ worker[w].pc \in {"count", "commit"}
    BY DEF Holders
  <1>2. ASSUME NEW u \in User, NEW p \in Product, AddRead(w, u, p) PROVE FALSE
    BY <1>0, <1>1, <1>2 DEF AddRead, Serve
  <1>3. ASSUME NEW u \in User, NEW d \in Code \cup {NoCode}, ReadCart(w, u, d)
        PROVE  FALSE
    BY <1>0, <1>1, <1>3 DEF ReadCart, Serve
  <1>4. CASE ReadDiscount(w)
    BY <1>0, <1>1, <1>4, DecideMoves DEF ReadDiscount, Continue, Serve, Finish, IdleWorker
  <1>5. CASE CountUsages(w)
    BY <1>0, <1>1, <1>5, DecideMoves DEF CountUsages, Finish, IdleWorker
  <1> QED
    BY <1>1, <1>2, <1>3, <1>4, <1>5, WorkerLife DEF IdleWorker

\* The same for the requests of a user that passed the check of perUserLimit.
LEMMA HoldersByStep ==
    ASSUME IInv, [Next]_vars, NEW c \in Code, NEW u \in User
    PROVE  \/ HoldersBy(c, u)' \subseteq HoldersBy(c, u)
           \/ \E w \in Worker :
                 /\ worker[w].code = c /\ worker[w].user = u
                 /\ \/ ReadDiscount(w) /\ code[c].terms.perUserLimit = 0
                    \/ /\ CountUsages(w)
                       /\ Cardinality(UsagesBy(c, u)) < worker[w].terms.perUserLimit
  <1> USE CheckoutAssumption
  <1> DEFINE Passed(w) ==
        /\ worker[w].code = c /\ worker[w].user = u
        /\ \/ ReadDiscount(w) /\ code[c].terms.perUserLimit = 0
           \/ /\ CountUsages(w)
              /\ Cardinality(UsagesBy(c, u)) < worker[w].terms.perUserLimit
  <1>0. Working /\ worker \in [Worker -> WorkerType]
    BY DEF IInv, TypeOK
  <1>1. ASSUME NEW w \in Worker, worker'[w].code = c, worker'[w].user = u,
               worker'[w].pc = "commit", ~Passed(w)
        PROVE  worker[w].code = c /\ worker[w].user = u /\ worker[w].pc = "commit"
    <2>2. ASSUME NEW v \in User, NEW p \in Product, AddRead(w, v, p) PROVE FALSE
      BY <1>0, <1>1, <2>2 DEF AddRead, Serve
    <2>3. ASSUME NEW v \in User, NEW d \in Code \cup {NoCode}, ReadCart(w, v, d)
          PROVE  FALSE
      BY <1>0, <1>1, <2>3 DEF ReadCart, Serve
    <2>4. CASE ReadDiscount(w)
      BY <1>0, <1>1, <2>4, DecideMoves DEF ReadDiscount, Continue, Serve, Finish, IdleWorker
    <2>5. CASE CountUsages(w)
      BY <1>0, <1>1, <2>5, DecideMoves DEF CountUsages, Finish, IdleWorker
    <2> QED
      BY <1>1, <2>2, <2>3, <2>4, <2>5, WorkerLife DEF IdleWorker
  <1> QED
    BY <1>1 DEF HoldersBy

\* A commit lets go of the code.
LEMMA CommitLetsGo ==
    ASSUME IInv, [Next]_vars, NEW w \in Worker, NEW o \in Order, Commit(w, o),
           NEW c \in Code
    PROVE  /\ worker[w].pc = "commit"
           /\ Holders(c)' \subseteq Holders(c) \ {w}
           /\ \A u \in User : HoldersBy(c, u)' \subseteq HoldersBy(c, u) \ {w}
  <1>1. /\ worker[w].pc = "commit"
        /\ worker' = [worker EXCEPT ![w] = IdleWorker]
        /\ worker \in [Worker -> WorkerType]
    BY DEF IInv, TypeOK, Commit, PlaceOrder, Finish
  <1> QED
    BY <1>1 DEF Holders, HoldersBy, IdleWorker

-----------------------------------------------------------------------------
(* How far the limits can be overrun, when at most K requests hold a code *)
(* or serve one user at a time                                            *)

\* At any time at most K requests have passed the check of one code and not
\* committed.
HeldAtMost(K) == \A c \in Code : Cardinality(Holders(c)) <= K

\* Requests of user u being served.
RequestsOf(u) == {w \in Worker : worker[w].pc # "idle" /\ worker[w].user = u}

\* At any time at most K requests of one user are served.
ServedAtMost(K) == \A u \in User : Cardinality(RequestsOf(u)) <= K

\* LimitOverrun and PerUserOverrun, with K for the number of workers.
LimitWithin(K) ==
    \A c \in Code :
        code[c].status = "live" /\ widest[c].usage # 0 =>
            code[c].usageCount + Cardinality(Holders(c)) + 1 <= widest[c].usage + K

PerUserWithin(K) ==
    \A c \in Code, u \in User :
        code[c].status = "live" /\ widest[c].perUser # 0 =>
            Cardinality(UsagesBy(c, u)) + Cardinality(HoldersBy(c, u)) + 1
                <= widest[c].perUser + K

LEMMA LimitStep ==
    ASSUME NEW K \in Nat, IInv, LimitWithin(K), HeldAtMost(K)', [Next]_vars
    PROVE  LimitWithin(K)'
  <1> USE CheckoutAssumption
  <1> SUFFICES ASSUME NEW c \in Code, code'[c].status = "live", widest'[c].usage # 0
               PROVE  code'[c].usageCount + Cardinality(Holders(c)') + 1
                          <= widest'[c].usage + K
    BY DEF LimitWithin
  <1>0. /\ code \in [Code -> CodeType]
        /\ widest \in [Code -> [usage : Nat, perUser : Nat]]
        /\ widest' \in [Code -> [usage : Nat, perUser : Nat]]
        /\ LimitWithin(K) /\ WithinWidest
    BY TypeStep DEF IInv, TypeOK
  <1>1. /\ widest[c].usage \in Nat /\ widest'[c].usage \in Nat
        /\ code[c].usageCount \in Nat /\ code[c].usageLimit \in Nat
    BY <1>0 DEF CodeType
  <1>2. Holders(c) \subseteq Worker /\ Holders(c)' \subseteq Worker
    BY DEF Holders
  <1>3. /\ IsFiniteSet(Holders(c))
        /\ Cardinality(Holders(c)) \in Nat /\ Cardinality(Holders(c)') \in Nat
        /\ Cardinality(Holders(c)') <= K
    BY <1>2, Sizes DEF HeldAtMost
  <1>4. ASSUME code[c].status = "live"
        PROVE  /\ code[c].usageCount + Cardinality(Holders(c)) + 1
                      <= widest[c].usage + K
               /\ widest[c].usage # 0 /\ widest[c].usage <= widest'[c].usage
    BY <1>0, <1>4, LimitsWiden DEF LimitWithin
  <1>5. CASE code[c].status = "none" /\ code'[c].usageCount = 0
    BY <1>1, <1>3, <1>5
  <1>6. ASSUME NEW w \in Worker, NEW o \in Order, Commit(w, o), worker[w].code = c
        PROVE  code'[c].usageCount + Cardinality(Holders(c)') + 1
                   <= widest'[c].usage + K
    <2>1. code[c].status = "live" /\ code'[c].usageCount = code[c].usageCount + 1
      BY <1>6, CommitWrites
    <2>2. w \in Holders(c) /\ w \notin Holders(c)' /\ Holders(c)' \subseteq Holders(c)
      BY <1>6, CommitLetsGo DEF Holders
    <2>3. Cardinality(Holders(c)') + 1 <= Cardinality(Holders(c))
      BY <1>3, <2>2, Sizes
    <2> QED
      BY <1>1, <1>3, <1>4, <2>1, <2>3
  <1>7. CASE code'[c].status = code[c].status /\ code'[c].usageCount = code[c].usageCount
    <2>1. CASE Holders(c)' \subseteq Holders(c)
      <3>1. Cardinality(Holders(c)') <= Cardinality(Holders(c))
        BY <1>3, <2>1, Sizes
      <3> QED
        BY <1>1, <1>3, <1>4, <1>7, <3>1
    <2>2. ASSUME Redeemable(c)
          PROVE  code'[c].usageCount + Cardinality(Holders(c)') + 1
                     <= widest'[c].usage + K
      <3>1. code[c].usageLimit # 0 /\ code[c].usageLimit <= widest[c].usage
        BY <1>0, <1>4, <1>7 DEF WithinWidest
      <3>2. code[c].usageCount < code[c].usageLimit
        BY <2>2, <3>1 DEF Redeemable
      <3>3. code[c].usageCount + 1 <= widest'[c].usage
        BY <1>1, <1>4, <1>7, <3>1, <3>2
      <3> QED
        BY <1>1, <1>3, <1>7, <3>3
    <2> QED
      BY <2>1, <2>2, HoldersStep
  <1> QED
    BY <1>5, <1>6, <1>7, CodeLife

LEMMA PerUserStep ==
    ASSUME NEW K \in Nat, IInv, PerUserWithin(K), ServedAtMost(K)', [Next]_vars
    PROVE  PerUserWithin(K)'
  <1> USE CheckoutAssumption
  <1> SUFFICES ASSUME NEW c \in Code, NEW u \in User,
                      code'[c].status = "live", widest'[c].perUser # 0
               PROVE  Cardinality(UsagesBy(c, u)') + Cardinality(HoldersBy(c, u)') + 1
                          <= widest'[c].perUser + K
    BY DEF PerUserWithin
  <1>0. /\ worker \in [Worker -> WorkerType]
        /\ widest \in [Code -> [usage : Nat, perUser : Nat]]
        /\ widest' \in [Code -> [usage : Nat, perUser : Nat]]
        /\ IsFiniteSet(usages) /\ UsageAccounting /\ PerUserWithin(K) /\ WithinWidest
    BY TypeStep DEF IInv, TypeOK
  <1>1. widest[c].perUser \in Nat /\ widest'[c].perUser \in Nat
    BY <1>0
  <1>2. HoldersBy(c, u) \subseteq Worker /\ HoldersBy(c, u)' \subseteq Worker
    BY DEF HoldersBy
  <1>3. /\ IsFiniteSet(HoldersBy(c, u))
        /\ Cardinality(HoldersBy(c, u)) \in Nat /\ Cardinality(HoldersBy(c, u)') \in Nat
        /\ Cardinality(HoldersBy(c, u)') <= K
    <2>1. HoldersBy(c, u)' \subseteq RequestsOf(u)' /\ RequestsOf(u)' \subseteq Worker
      BY DEF HoldersBy, RequestsOf
    <2>2. IsFiniteSet(RequestsOf(u)') /\ Cardinality(RequestsOf(u)') \in Nat
      BY <2>1, Sizes
    <2>3. Cardinality(HoldersBy(c, u)') <= Cardinality(RequestsOf(u)')
      BY <2>1, <2>2, Sizes
    <2>4. Cardinality(RequestsOf(u)') <= K
      BY DEF ServedAtMost
    <2>5. /\ IsFiniteSet(HoldersBy(c, u))
          /\ Cardinality(HoldersBy(c, u)) \in Nat /\ Cardinality(HoldersBy(c, u)') \in Nat
      BY <1>2, Sizes
    <2> QED
      BY <2>2, <2>3, <2>4, <2>5
  <1>4. IsFiniteSet(UsagesBy(c, u)) /\ Cardinality(UsagesBy(c, u)) \in Nat
    <2>1. UsagesBy(c, u) \subseteq usages
      BY DEF UsagesBy
    <2> QED
      BY <1>0, <2>1, Sizes
  <1>5. ASSUME code[c].status = "live"
        PROVE  /\ Cardinality(UsagesBy(c, u)) + Cardinality(HoldersBy(c, u)) + 1
                      <= widest[c].perUser + K
               /\ widest[c].perUser # 0 /\ widest[c].perUser <= widest'[c].perUser
    BY <1>0, <1>5, LimitsWiden DEF PerUserWithin
  <1>6. ASSUME code[c].status = "none", UNCHANGED usages
        PROVE  Cardinality(UsagesBy(c, u)') = 0
    <2>1. UsagesOf(c) = {}
      BY <1>0, <1>6 DEF UsageAccounting
    <2>2. UsagesBy(c, u)' = {}
      BY <1>6, <2>1 DEF UsagesOf, UsagesBy
    <2> QED
      BY <2>2, FS_EmptySet
  <1>7. ASSUME NEW w \in Worker, NEW o \in Order, Commit(w, o), worker[w].code = c
        PROVE  Cardinality(UsagesBy(c, u)') + Cardinality(HoldersBy(c, u)') + 1
                   <= widest'[c].perUser + K
    <2> DEFINE g == [code |-> c, user |-> worker[w].user, order |-> o]
    <2>1. worker[w].code # NoCode
      BY <1>7
    <2>2. code[c].status = "live" /\ usages' = usages \cup {g}
      BY <1>7, <2>1, CommitWrites
    <2>3. CASE worker[w].user = u
      <3>1. UsagesBy(c, u)' = UsagesBy(c, u) \cup {g}
        BY <2>2, <2>3 DEF UsagesBy
      <3>2. Cardinality(UsagesBy(c, u)') <= Cardinality(UsagesBy(c, u)) + 1
        <4>1. \/ Cardinality(UsagesBy(c, u)') = Cardinality(UsagesBy(c, u))
              \/ Cardinality(UsagesBy(c, u)') = Cardinality(UsagesBy(c, u)) + 1
          BY <1>4, <3>1, FS_AddElement
        <4> QED
          BY <1>4, <4>1
      <3>3. /\ w \in HoldersBy(c, u) /\ w \notin HoldersBy(c, u)'
            /\ HoldersBy(c, u)' \subseteq HoldersBy(c, u)
        BY <1>7, <2>3, CommitLetsGo DEF HoldersBy
      <3>4. Cardinality(HoldersBy(c, u)') + 1 <= Cardinality(HoldersBy(c, u))
        BY <1>3, <3>3, Sizes
      <3>5. Cardinality(UsagesBy(c, u)') \in Nat
        BY <1>4, <3>1, FS_AddElement, FS_CardinalityType
      <3> QED
        BY <1>1, <1>3, <1>4, <1>5, <2>2, <3>2, <3>4, <3>5
    <2>4. CASE worker[w].user # u
      <3>1. UsagesBy(c, u)' = UsagesBy(c, u)
        BY <2>2, <2>4 DEF UsagesBy
      <3>2. HoldersBy(c, u)' \subseteq HoldersBy(c, u)
        BY <1>7, CommitLetsGo
      <3>3. Cardinality(HoldersBy(c, u)') <= Cardinality(HoldersBy(c, u))
        BY <1>3, <3>2, Sizes
      <3> QED
        BY <1>1, <1>3, <1>4, <1>5, <2>2, <3>1, <3>3
    <2> QED
      BY <2>3, <2>4
  <1>8. CASE code'[c].status = code[c].status /\ UsagesOf(c)' = UsagesOf(c)
    <2>1. UsagesBy(c, u)' = UsagesBy(c, u)
      <3>1. UsagesBy(c, u) = {g \in UsagesOf(c) : g.user = u}
        BY DEF UsagesBy, UsagesOf
      <3>2. UsagesBy(c, u)' = {g \in UsagesOf(c)' : g.user = u}
        BY DEF UsagesBy, UsagesOf
      <3> QED
        BY <1>8, <3>1, <3>2
    <2>2. CASE HoldersBy(c, u)' \subseteq HoldersBy(c, u)
      <3>1. Cardinality(HoldersBy(c, u)') <= Cardinality(HoldersBy(c, u))
        BY <1>3, <2>2, Sizes
      <3> QED
        BY <1>1, <1>3, <1>4, <1>5, <1>8, <2>1, <3>1
    <2>3. code[c].terms.perUserLimit # 0
      BY <1>0, <1>5, <1>8 DEF WithinWidest
    <2>4. ASSUME NEW w \in Worker, worker[w].code = c, CountUsages(w),
                 Cardinality(UsagesBy(c, u)) < worker[w].terms.perUserLimit
          PROVE  Cardinality(UsagesBy(c, u)') + Cardinality(HoldersBy(c, u)') + 1
                     <= widest'[c].perUser + K
      <3>1. worker[w].terms.perUserLimit <= widest[c].perUser
        BY <1>0, <1>5, <1>8, <2>4 DEF WithinWidest, CountUsages
      <3>2. worker[w].terms.perUserLimit \in Nat
        BY <1>0 DEF WorkerType, TermsType, NoTerms
      <3>3. Cardinality(UsagesBy(c, u)) + 1 <= widest'[c].perUser
        BY <1>1, <1>4, <1>5, <1>8, <2>4, <3>1, <3>2
      <3> QED
        BY <1>1, <1>3, <1>4, <2>1, <3>3
    <2> QED
      BY <2>2, <2>3, <2>4, HoldersByStep
  <1>9. CASE code[c].status = "none" /\ UNCHANGED usages
    BY <1>1, <1>3, <1>6, <1>9
  <1> QED
    BY <1>7, <1>8, <1>9, CodeLife

-----------------------------------------------------------------------------
(* How often an item is ordered *)

\* Requests that read item i out of u's cart and have not committed yet.
CartHolders(u, i) ==
    {w \in Worker : /\ worker[w].pc \in {"discount", "count", "commit"}
                    /\ worker[w].user = u
                    /\ i \in worker[w].items}

\* OrderedOverrun, with K for the number of workers.
OrderedWithin(K) ==
    \A u \in User, i \in Item : Cardinality(OrdersOf(u, i)) <= added[u][i] * K

\* While the item is in the cart K requests may come to hold it; once it is
\* not, those that do are all that can still order it.
Repeats(K) ==
    \A u \in User, i \in Item :
        /\ IsFiniteSet(OrdersOf(u, i))
        /\ i \in cart[u] =>
              Cardinality(OrdersOf(u, i)) + K <= added[u][i] * K
        /\ i \notin cart[u] =>
              Cardinality(OrdersOf(u, i)) + Cardinality(CartHolders(u, i))
                  <= added[u][i] * K

\* A request holds an item because it did before or because the cart has it.
LEMMA CartHoldersStep ==
    ASSUME IInv, [Next]_vars, NEW u \in User, NEW i \in Item, i \notin cart[u]
    PROVE  CartHolders(u, i)' \subseteq CartHolders(u, i)
  <1> SUFFICES ASSUME NEW w \in Worker,
                      worker'[w].pc \in {"discount", "count", "commit"},
                      worker'[w].user = u, i \in worker'[w].items
               PROVE  /\ worker[w].pc \in {"discount", "count", "commit"}
                      /\ worker[w].user = u
                      /\ i \in worker[w].items
    BY DEF CartHolders
  <1>0. worker \in [Worker -> WorkerType]
    BY DEF IInv, TypeOK
  <1>1. worker'[w] # IdleWorker
    BY DEF IdleWorker
  <1>2. ASSUME NEW v \in User, NEW p \in Product, AddRead(w, v, p)
        PROVE  FALSE
    BY <1>0, <1>2 DEF AddRead, Serve
  <1>3. ASSUME NEW v \in User, NEW c \in Code \cup {NoCode}, ReadCart(w, v, c)
        PROVE  FALSE
    BY <1>0, <1>3 DEF ReadCart, Serve
  <1>4. CASE ReadDiscount(w)
    BY <1>0, <1>1, <1>4, DecideMoves DEF ReadDiscount, Continue, Serve, Finish
  <1>5. CASE CountUsages(w)
    BY <1>0, <1>1, <1>5, DecideMoves DEF CountUsages, Finish
  <1> QED
    BY <1>1, <1>2, <1>3, <1>4, <1>5, WorkerLife

\* A commit empties the user's cart, orders what the request holds, and ends it.
LEMMA CommitOrders ==
    ASSUME IInv, [Next]_vars, NEW w \in Worker, NEW o \in Order, Commit(w, o),
           NEW u \in User, NEW i \in Item
    PROVE  \/ OrdersOf(u, i)' = OrdersOf(u, i)
           \/ /\ OrdersOf(u, i)' = OrdersOf(u, i) \cup {o}
              /\ o \notin OrdersOf(u, i)
              /\ w \in CartHolders(u, i)
              /\ CartHolders(u, i)' \subseteq CartHolders(u, i) \ {w}
              /\ cart'[u] = {}
  <1>1. /\ orders[o] = NoOrder /\ orders'[o] # NoOrder
        /\ orders'[o].user = worker[w].user /\ orders'[o].items = worker[w].items
        /\ \A p \in Order : p # o => orders'[p] = orders[p]
    <2>1. orders'[o] = [user |-> worker[w].user, items |-> worker[w].items,
                        code |-> worker[w].code]
      BY CommitWrites
    <2>2. /\ orders[o] = NoOrder /\ orders'[o] # NoOrder
          /\ \A p \in Order : p # o => orders'[p] = orders[p]
      BY CommitWrites
    <2> QED
      BY <2>1, <2>2
  <1>2. /\ worker[w].pc = "commit"
        /\ worker' = [worker EXCEPT ![w] = IdleWorker]
        /\ cart' = [cart EXCEPT ![worker[w].user] = {}]
        /\ worker \in [Worker -> WorkerType] /\ cart \in [User -> SUBSET Item]
    BY DEF IInv, TypeOK, Commit, PlaceOrder, Finish, Emptied
  <1>3. CASE worker[w].user = u /\ i \in worker[w].items
    <2>1. OrdersOf(u, i)' = OrdersOf(u, i) \cup {o} /\ o \notin OrdersOf(u, i)
      BY <1>1, <1>3 DEF OrdersOf
    <2>2. /\ w \in CartHolders(u, i)
          /\ CartHolders(u, i)' \subseteq CartHolders(u, i) \ {w}
          /\ cart'[u] = {}
      BY <1>2, <1>3 DEF CartHolders, IdleWorker
    <2> QED
      BY <2>1, <2>2
  <1>4. CASE ~(worker[w].user = u /\ i \in worker[w].items)
    BY <1>1, <1>4 DEF OrdersOf
  <1> QED
    BY <1>3, <1>4

\* An item that gets into a cart is counted.
LEMMA AddsCount ==
    ASSUME IInv, [Next]_vars, NEW u \in User, NEW i \in Item
    PROVE  /\ added[u][i] \in Nat
           /\ \/ added'[u][i] = added[u][i] /\ (i \in cart'[u] => i \in cart[u])
              \/ added'[u][i] = added[u][i] + 1
  <1>1. added \in [User -> [Item -> Nat]] /\ cart \in [User -> SUBSET Item]
    BY DEF IInv, TypeOK
  <1>2. ASSUME NEW v \in User, NEW j \in Item,
               cart' = [cart EXCEPT ![v] = cart[v] \cup {j}],
               added' = [added EXCEPT ![v][j] = added[v][j] + 1]
        PROVE  \/ added'[u][i] = added[u][i] /\ (i \in cart'[u] => i \in cart[u])
               \/ added'[u][i] = added[u][i] + 1
    <2>1. CASE u = v /\ i = j
      BY <1>1, <1>2, <2>1
    <2>2. CASE ~(u = v /\ i = j)
      BY <1>1, <1>2, <2>2
    <2> QED
      BY <2>1, <2>2
  <1> QED
    BY <1>1, <1>2, CartLife

\* At most K requests of a user hold an item of the cart.
LEMMA CartHoldersFew ==
    ASSUME NEW K \in Nat, ServedAtMost(K), NEW u \in User, NEW i
    PROVE  /\ IsFiniteSet(CartHolders(u, i))
           /\ Cardinality(CartHolders(u, i)) \in Nat
           /\ Cardinality(CartHolders(u, i)) <= K
  <1>1. CartHolders(u, i) \subseteq RequestsOf(u) /\ RequestsOf(u) \subseteq Worker
    BY DEF CartHolders, RequestsOf
  <1>2. IsFiniteSet(RequestsOf(u)) /\ Cardinality(RequestsOf(u)) \in Nat
    BY <1>1, CheckoutAssumption, Sizes
  <1>3. /\ IsFiniteSet(CartHolders(u, i))
        /\ Cardinality(CartHolders(u, i)) \in Nat
        /\ Cardinality(CartHolders(u, i)) <= Cardinality(RequestsOf(u))
    BY <1>1, <1>2, Sizes
  <1> QED
    BY <1>2, <1>3 DEF ServedAtMost

LEMMA RepeatsStep ==
    ASSUME NEW K \in Nat, IInv, Repeats(K), ServedAtMost(K), ServedAtMost(K)', [Next]_vars
    PROVE  Repeats(K)'
  <1> SUFFICES ASSUME NEW u \in User, NEW i \in Item
               PROVE  /\ IsFiniteSet(OrdersOf(u, i)')
                      /\ i \in cart'[u] =>
                            Cardinality(OrdersOf(u, i)') + K <= added'[u][i] * K
                      /\ i \notin cart'[u] =>
                            Cardinality(OrdersOf(u, i)') + Cardinality(CartHolders(u, i)')
                                <= added'[u][i] * K
    BY DEF Repeats
  <1> DEFINE O == OrdersOf(u, i)
             H == CartHolders(u, i)
  <1>1. IsFiniteSet(O) /\ Cardinality(O) \in Nat
    BY FS_CardinalityType DEF Repeats
  <1>3. PICK a \in Nat : a = added[u][i]
    BY AddsCount
  <1>4. PICK m \in Nat : m = a * K /\ (a + 1) * K = m + K
    OBVIOUS
  <1>5. PICK n \in Nat : /\ n = added'[u][i] * K
                         /\ n >= m
                         /\ i \in cart'[u] /\ i \notin cart[u] => n = m + K
    BY <1>3, <1>4, AddsCount
  <1>6. /\ i \in cart[u] => Cardinality(O) + K <= m
        /\ i \notin cart[u] => Cardinality(O) + Cardinality(H) <= m
    BY <1>3, <1>4 DEF Repeats
  <1>7. /\ IsFiniteSet(H)
        /\ Cardinality(H) \in Nat /\ Cardinality(H') \in Nat
        /\ Cardinality(H) <= K /\ Cardinality(H') <= K
    <2>1. Cardinality(H') \in Nat /\ Cardinality(H') <= K
      <3>1. H' \subseteq RequestsOf(u)' /\ RequestsOf(u)' \subseteq Worker
        BY DEF CartHolders, RequestsOf
      <3>2. IsFiniteSet(RequestsOf(u)') /\ Cardinality(RequestsOf(u)') \in Nat
        BY <3>1, CheckoutAssumption, Sizes
      <3>3. Cardinality(H') \in Nat /\ Cardinality(H') <= Cardinality(RequestsOf(u)')
        BY <3>1, <3>2, Sizes
      <3> QED
        BY <3>2, <3>3 DEF ServedAtMost
    <2> QED
      BY <2>1, CartHoldersFew
  <1>8. i \notin cart[u] => Cardinality(H') <= Cardinality(H)
    BY <1>7, Sizes, CartHoldersStep
  <1>9. CASE O' = O
    <2>1. i \in cart'[u] => Cardinality(O) + K <= n
      BY <1>1, <1>5, <1>6, <1>7
    <2>2. i \notin cart'[u] => Cardinality(O) + Cardinality(H') <= n
      BY <1>1, <1>5, <1>6, <1>7, <1>8
    <2> QED
      BY <1>1, <1>5, <1>9, <2>1, <2>2
  <1>10. ASSUME NEW w \in Worker, NEW o \in Order,
                O' = O \cup {o}, o \notin O, w \in H, H' \subseteq H \ {w}, cart'[u] = {}
         PROVE  /\ IsFiniteSet(O')
                /\ Cardinality(O') + Cardinality(H') <= n
    <2>1. IsFiniteSet(O') /\ Cardinality(O') = Cardinality(O) + 1
      BY <1>1, <1>10, FS_AddElement
    <2>2. Cardinality(H') + 1 <= Cardinality(H)
      <3>1. H' \subseteq H /\ w \notin H'
        BY <1>10
      <3> QED
        BY <1>7, <1>10, <3>1, Sizes
    <2> QED
      BY <1>1, <1>5, <1>6, <1>7, <2>1, <2>2
  <1>11. CASE \E w \in Worker, o \in Order : Commit(w, o)
    <2>1. PICK w \in Worker, o \in Order : Commit(w, o)
      BY <1>11
    <2>2. \/ O' = O
          \/ /\ O' = O \cup {o} /\ o \notin O
             /\ w \in H /\ H' \subseteq H \ {w} /\ cart'[u] = {}
      BY <2>1, CommitOrders
    <2>3. CASE O' = O
      BY <1>9, <2>3
    <2>4. CASE /\ O' = O \cup {o} /\ o \notin O
               /\ w \in H /\ H' \subseteq H \ {w} /\ cart'[u] = {}
      BY <1>5, <1>10, <2>4
    <2> QED
      BY <2>2, <2>3, <2>4
  <1>12. CASE ~\E w \in Worker, o \in Order : Commit(w, o)
    <2>1. orders' = orders
      BY <1>12, OrdersOnlyByCommit
    <2>2. O' = O
      BY <2>1 DEF OrdersOf
    <2> QED
      BY <1>9, <2>2
  <1> QED
    BY <1>11, <1>12

\* What Repeats says of the orders of an item.
LEMMA RepeatsOrdered ==
    ASSUME NEW K \in Nat, IInv, Repeats(K), ServedAtMost(K)
    PROVE  OrderedWithin(K)
  <1> SUFFICES ASSUME NEW u \in User, NEW i \in Item
               PROVE  Cardinality(OrdersOf(u, i)) <= added[u][i] * K
    BY DEF OrderedWithin
  <1>1. Cardinality(OrdersOf(u, i)) \in Nat
    BY FS_CardinalityType DEF Repeats
  <1>2. Cardinality(CartHolders(u, i)) \in Nat
    BY CartHoldersFew
  <1>3. added[u][i] \in Nat
    BY DEF IInv, TypeOK
  <1>4. PICK n \in Nat : n = added[u][i] * K
    BY <1>3
  <1> QED
    BY <1>1, <1>2, <1>4 DEF Repeats

\* Nothing has been redeemed, held or ordered yet.
LEMMA InitWithin ==
    ASSUME Init, NEW K \in Nat
    PROVE  LimitWithin(K) /\ PerUserWithin(K) /\ Repeats(K)
  <1>1. LimitWithin(K) /\ PerUserWithin(K)
    BY DEF Init, LimitWithin, PerUserWithin, NoRow
  <1>2. ASSUME NEW u \in User, NEW i \in Item
        PROVE  /\ IsFiniteSet(OrdersOf(u, i))
               /\ i \notin cart[u]
               /\ Cardinality(OrdersOf(u, i)) + Cardinality(CartHolders(u, i))
                      <= added[u][i] * K
    <2>1. OrdersOf(u, i) = {} /\ CartHolders(u, i) = {} /\ cart[u] = {} /\ added[u][i] = 0
      BY DEF Init, OrdersOf, CartHolders, IdleWorker
    <2> QED
      BY <2>1, FS_EmptySet
  <1> QED
    BY <1>1, <1>2 DEF Repeats

\* No more requests than workers are served, whatever they do.
LEMMA NoMoreThanWorkers ==
    /\ Cardinality(Worker) \in Nat
    /\ HeldAtMost(Cardinality(Worker))
    /\ ServedAtMost(Cardinality(Worker))
  <1>1. \A c \in Code : Holders(c) \subseteq Worker
    BY DEF Holders
  <1>2. \A u \in User : RequestsOf(u) \subseteq Worker
    BY DEF RequestsOf
  <1> QED
    BY <1>1, <1>2, CheckoutAssumption, Sizes DEF HeldAtMost, ServedAtMost

-----------------------------------------------------------------------------
(* Theorems *)

LEMMA IInvStep == IInv /\ [Next]_vars => IInv'
  <1> SUFFICES ASSUME IInv, [Next]_vars PROVE IInv'
    OBVIOUS
  <1> QED
    BY TypeStep, WorkingStep, UsageStep, AddedStep, WidestStep DEF IInv

\* The invariant that the others follow from: one induction over all the
\* interleavings of requests, administration and time.
THEOREM Invariance == Spec => []IInv
  BY InitIInv, IInvStep, PTL DEF Spec

\* Rows, requests and histories keep their types, and a cart has one item for
\* each product, though addItem checks that in a step of its own.
THEOREM TypeCorrect == Spec => []TypeOK
  BY Invariance, PTL DEF IInv

\* The counter of a code, its usages and the orders placed with it agree
\* whatever orders race and whenever codes are removed (createOrder's
\* transaction, DiscountService.remove).
THEOREM UsagesAccounted == Spec => []UsageAccounting
  BY Invariance, PTL DEF IInv

\* Every item ordered was put in the cart at the price it is ordered at,
\* whatever products cost by then (addItem's locked price, createOrder).
THEOREM PricesLocked == Spec => []PriceLocked
  BY Invariance, PTL DEF IInv

\* validateAndGetDiscount's unlocked check of usageLimit is overrun by less than
\* the number of requests that hold the code at one time.
THEOREM LimitByHolders ==
    ASSUME NEW K \in Nat
    PROVE  Spec /\ []HeldAtMost(K) => []LimitWithin(K)
  <1>1. Init => LimitWithin(K)
    BY InitWithin
  <1>2. IInv /\ LimitWithin(K) /\ HeldAtMost(K)' /\ [Next]_vars => LimitWithin(K)'
    BY LimitStep
  <1> QED
    BY <1>1, <1>2, Invariance, PTL DEF Spec

\* Its check of perUserLimit is overrun by less than the number of requests of
\* that user, whatever the requests of others.
THEOREM PerUserByRequests ==
    ASSUME NEW K \in Nat
    PROVE  Spec /\ []ServedAtMost(K) => []PerUserWithin(K)
  <1>1. Init => PerUserWithin(K)
    BY InitWithin
  <1>2. IInv /\ PerUserWithin(K) /\ ServedAtMost(K)' /\ [Next]_vars => PerUserWithin(K)'
    BY PerUserStep
  <1> QED
    BY <1>1, <1>2, Invariance, PTL DEF Spec

\* Requests that read one cart before it is cleared order its items again, but
\* no oftener for each time the item was added than the user has requests.
THEOREM OrderedByRequests ==
    ASSUME NEW K \in Nat
    PROVE  Spec /\ []ServedAtMost(K) => []OrderedWithin(K)
  <1>1. Init => Repeats(K)
    BY InitWithin
  <1>2. IInv /\ Repeats(K) /\ ServedAtMost(K) /\ ServedAtMost(K)' /\ [Next]_vars
           => Repeats(K)'
    BY RepeatsStep
  <1>3. IInv /\ Repeats(K) /\ ServedAtMost(K) => OrderedWithin(K)
    BY RepeatsOrdered
  <1> QED
    BY <1>1, <1>2, <1>3, Invariance, PTL DEF Spec

\* So usageLimit is overrun by at most the number of requests served at the
\* same time, less one.
THEOREM LimitOverrunBounded == Spec => []LimitOverrun
  <1> DEFINE W == Cardinality(Worker)
  <1>1. Init => LimitWithin(W)
    BY InitWithin, NoMoreThanWorkers
  <1>2. IInv /\ LimitWithin(W) /\ [Next]_vars => LimitWithin(W)'
    <2>1. W \in Nat /\ HeldAtMost(W)'
      BY NoMoreThanWorkers, PTL
    <2> QED
      BY <2>1, LimitStep
  <1>3. LimitWithin(W) => LimitOverrun
    BY DEF LimitWithin, LimitOverrun
  <1> QED
    BY <1>1, <1>2, <1>3, Invariance, PTL DEF Spec

\* The same for perUserLimit.
THEOREM PerUserOverrunBounded == Spec => []PerUserOverrun
  <1> DEFINE W == Cardinality(Worker)
  <1>1. Init => PerUserWithin(W)
    BY InitWithin, NoMoreThanWorkers
  <1>2. IInv /\ PerUserWithin(W) /\ [Next]_vars => PerUserWithin(W)'
    <2>1. W \in Nat /\ ServedAtMost(W)'
      BY NoMoreThanWorkers, PTL
    <2> QED
      BY <2>1, PerUserStep
  <1>3. PerUserWithin(W) => PerUserOverrun
    BY DEF PerUserWithin, PerUserOverrun
  <1> QED
    BY <1>1, <1>2, <1>3, Invariance, PTL DEF Spec

\* And for the orders of an item.
THEOREM OrderedOverrunBounded == Spec => []OrderedOverrun
  <1> DEFINE W == Cardinality(Worker)
  <1>1. Init => Repeats(W)
    BY InitWithin, NoMoreThanWorkers
  <1>2. IInv /\ Repeats(W) /\ [Next]_vars => Repeats(W)'
    <2>1. W \in Nat /\ ServedAtMost(W) /\ ServedAtMost(W)'
      BY NoMoreThanWorkers, PTL
    <2> QED
      BY <2>1, RepeatsStep
  <1>3. IInv /\ Repeats(W) => OrderedOverrun
    BY RepeatsOrdered, NoMoreThanWorkers DEF OrderedWithin, OrderedOverrun
  <1> QED
    BY <1>1, <1>2, <1>3, Invariance, PTL DEF Spec

\* With one request at a time between the check of a code and its commit,
\* usageLimit is never exceeded: the race is the only way to exceed it.
THEOREM ExclusiveLimitExact == Spec /\ []HeldAtMost(1) => []UsageLimitHonoured
  <1>1. Init => LimitWithin(1)
    BY InitWithin
  <1>2. IInv /\ LimitWithin(1) /\ HeldAtMost(1)' /\ [Next]_vars => LimitWithin(1)'
    BY LimitStep
  <1>3. IInv /\ LimitWithin(1) => UsageLimitHonoured
    <2> SUFFICES ASSUME IInv, LimitWithin(1), NEW c \in Code, code[c].status = "live",
                        widest[c].usage # 0
                 PROVE  code[c].usageCount <= widest[c].usage
      BY DEF UsageLimitHonoured
    <2>1. code[c].usageCount \in Nat /\ widest[c].usage \in Nat
      BY DEF IInv, TypeOK, CodeType
    <2>2. Cardinality(Holders(c)) \in Nat
      BY CheckoutAssumption, Sizes DEF Holders
    <2> QED
      BY <2>1, <2>2 DEF LimitWithin
  <1> QED
    BY <1>1, <1>2, <1>3, Invariance, PTL DEF Spec

\* So it is with one worker.
THEOREM SerialLimitExact ==
    ASSUME Cardinality(Worker) = 1
    PROVE  Spec => []UsageLimitHonoured
  <1>1. HeldAtMost(1)
    BY NoMoreThanWorkers
  <1> QED
    BY <1>1, ExclusiveLimitExact, PTL

-----------------------------------------------------------------------------
(* One request of a user at a time *)

\* What is in the cart of a user whose order is being created is ordered:
\* items may leave the cart under the request, none comes in.
CartInHand ==
    \A w \in Worker : worker[w].pc \in {"discount", "count", "commit"} =>
        cart[worker[w].user] \subseteq worker[w].items

\* Two requests of one user are the same.
LEMMA OnlyRequest ==
    ASSUME ServedAtMost(1), NEW u \in User, NEW v \in RequestsOf(u), NEW w \in RequestsOf(u)
    PROVE  v = w
  <1>1. IsFiniteSet(RequestsOf(u)) /\ Cardinality(RequestsOf(u)) \in Nat
    <2>1. RequestsOf(u) \subseteq Worker
      BY DEF RequestsOf
    <2> QED
      BY <2>1, CheckoutAssumption, Sizes
  <1>2. ASSUME v # w PROVE FALSE
    <2>1. IsFiniteSet({v}) /\ Cardinality({v}) = 1
      BY FS_Singleton
    <2>2. {v} \subseteq RequestsOf(u) /\ w \notin {v}
      BY <1>2
    <2>3. Cardinality({v}) + 1 <= Cardinality(RequestsOf(u))
      BY <1>1, <2>2, Sizes
    <2> QED
      BY <1>1, <2>1, <2>3 DEF ServedAtMost
  <1> QED
    BY <1>2

LEMMA CartInHandStep ==
    ASSUME IInv, CartInHand, ServedAtMost(1), [Next]_vars
    PROVE  CartInHand'
  <1> SUFFICES ASSUME NEW w \in Worker,
                      worker'[w].pc \in {"discount", "count", "commit"}
               PROVE  cart'[worker'[w].user] \subseteq worker'[w].items
    BY DEF CartInHand
  <1>0. worker \in [Worker -> WorkerType]
    BY DEF IInv, TypeOK
  <1>1. worker'[w] # IdleWorker
    BY DEF IdleWorker
  <1>3. ASSUME worker[w].pc \in {"discount", "count", "commit"}, NEW u \in User,
               u = worker[w].user
        PROVE  cart'[u] \subseteq cart[u]
    <2>1. ASSUME NEW v \in Worker, AddWrite(v) PROVE cart'[u] \subseteq cart[u]
      <3>1. worker[v].user # u
        <4>1. worker[v].pc = "add"
          BY <2>1 DEF AddWrite
        <4>2. ASSUME worker[v].user = u PROVE FALSE
          <5>1. v \in RequestsOf(u) /\ w \in RequestsOf(u)
            BY <1>3, <4>1, <4>2 DEF RequestsOf
          <5>2. v = w
            BY <5>1, OnlyRequest
          <5> QED
            BY <1>3, <4>1, <5>2
        <4> QED
          BY <4>2
      <3>2. cart \in [User -> SUBSET Item]
        BY DEF IInv, TypeOK
      <3> QED
        BY <2>1, <3>1, <3>2 DEF AddWrite, carts
    <2> QED
      BY <2>1, OnlyAddsFill
  <1>4. ASSUME worker[w].pc \in {"discount", "count", "commit"},
               worker'[w].user = worker[w].user, worker'[w].items = worker[w].items
        PROVE  cart'[worker'[w].user] \subseteq worker'[w].items
    <2>1. worker[w].user \in User
      BY <1>4 DEF IInv, Working
    <2> QED
      BY <1>3, <1>4, <2>1 DEF CartInHand
  <1>5. ASSUME NEW u \in User, NEW p \in Product, AddRead(w, u, p) PROVE FALSE
    BY <1>0, <1>5 DEF AddRead, Serve
  <1>6. ASSUME NEW u \in User, NEW c \in Code \cup {NoCode}, ReadCart(w, u, c)
        PROVE  cart'[worker'[w].user] \subseteq worker'[w].items
    BY <1>0, <1>6 DEF ReadCart, Serve, carts
  <1>7. CASE ReadDiscount(w)
    <2>1. worker'[w].user = worker[w].user /\ worker'[w].items = worker[w].items
      BY <1>0, <1>1, <1>7, DecideMoves DEF ReadDiscount, Continue, Serve, Finish
    <2> QED
      BY <1>4, <1>7, <2>1 DEF ReadDiscount
  <1>8. CASE CountUsages(w)
    <2>1. worker'[w].user = worker[w].user /\ worker'[w].items = worker[w].items
      BY <1>0, <1>1, <1>8, DecideMoves DEF CountUsages, Finish
    <2> QED
      BY <1>4, <1>8, <2>1 DEF CountUsages
  <1> QED
    BY <1>1, <1>4, <1>5, <1>6, <1>7, <1>8, WorkerLife

\* With one request at a time for each user, whatever the requests of others,
\* creating an order takes nothing out of a cart that it does not order: only an
\* addItem of the same user that overlaps createOrder can have its item cleared
\* unordered (the deleteMany of its transaction).
THEOREM OneRequestClears == Spec /\ []ServedAtMost(1) => ClearsWhatItOrders
  <1> DEFINE Cleared(o) ==
               \A u \in User : cart[u] \ cart'[u] \subseteq
                   IF u = orders'[o].user THEN orders'[o].items ELSE {}
             Clears ==
               \A o \in Order : orders[o] = NoOrder /\ orders'[o] # NoOrder => Cleared(o)
  <1>2. Init => CartInHand
    BY DEF Init, CartInHand, IdleWorker
  <1>3. IInv /\ CartInHand /\ ServedAtMost(1) /\ [Next]_vars => CartInHand'
    BY CartInHandStep
  <1>4. IInv /\ CartInHand /\ [Next]_vars => [Clears]_vars
    <2> SUFFICES ASSUME IInv, CartInHand, [Next]_vars, NEW o \in Order,
                        orders[o] = NoOrder, orders'[o] # NoOrder
                 PROVE  Cleared(o)
      OBVIOUS
    <2>1. PICK w \in Worker : Commit(w, o)
      BY OrdersOnlyByCommit, CommitWrites
    <2>2. orders'[o].user = worker[w].user /\ orders'[o].items = worker[w].items
      <3>1. orders'[o] = [user |-> worker[w].user, items |-> worker[w].items,
                          code |-> worker[w].code]
        BY <2>1, CommitWrites
      <3> QED
        BY <3>1
    <2>3. /\ worker[w].pc = "commit"
          /\ cart' = [cart EXCEPT ![worker[w].user] = {}]
          /\ cart \in [User -> SUBSET Item]
      BY <2>1 DEF IInv, TypeOK, Commit, PlaceOrder, Emptied
    <2>4. cart[worker[w].user] \subseteq worker[w].items
      BY <2>3 DEF CartInHand
    <2> QED
      BY <2>2, <2>3, <2>4
  <1> QED
    BY <1>2, <1>3, <1>4, Invariance, PTL DEF Spec, ClearsWhatItOrders

\* So it is with one worker.
THEOREM SerialClears ==
    ASSUME Cardinality(Worker) = 1
    PROVE  Spec => ClearsWhatItOrders
  <1>1. ServedAtMost(1)
    BY NoMoreThanWorkers
  <1> QED
    BY <1>1, OneRequestClears, PTL

\* With one request at a time for each user, an item is ordered once for each
\* time it was put in the cart, and perUserLimit is never exceeded.
THEOREM OneRequestExact ==
    Spec /\ []ServedAtMost(1) =>
        /\ [](\A u \in User, i \in Item : Cardinality(OrdersOf(u, i)) <= added[u][i])
        /\ [](\A c \in Code, u \in User :
                 code[c].status = "live" /\ widest[c].perUser # 0 =>
                     Cardinality(UsagesBy(c, u)) <= widest[c].perUser)
  <1> DEFINE Once ==
               \A u \in User, i \in Item : Cardinality(OrdersOf(u, i)) <= added[u][i]
             Honoured ==
               \A c \in Code, u \in User :
                  code[c].status = "live" /\ widest[c].perUser # 0 =>
                      Cardinality(UsagesBy(c, u)) <= widest[c].perUser
  <1>1. IInv /\ OrderedWithin(1) => Once
    <2>1. IInv => \A u \in User, i \in Item : added[u][i] \in Nat
      BY DEF IInv, TypeOK
    <2>2. IInv => \A u \in User, i \in Item : added[u][i] * 1 = added[u][i]
      BY <2>1
    <2> QED
      BY <2>2 DEF OrderedWithin
  <1>2. IInv /\ PerUserWithin(1) => Honoured
    <2> SUFFICES ASSUME IInv, PerUserWithin(1), NEW c \in Code, NEW u \in User,
                        code[c].status = "live", widest[c].perUser # 0
                 PROVE  Cardinality(UsagesBy(c, u)) <= widest[c].perUser
      OBVIOUS
    <2>1. UsagesBy(c, u) \subseteq usages /\ HoldersBy(c, u) \subseteq Worker
      BY DEF UsagesBy, HoldersBy
    <2>2. Cardinality(UsagesBy(c, u)) \in Nat /\ Cardinality(HoldersBy(c, u)) \in Nat
      BY <2>1, CheckoutAssumption, Sizes DEF IInv
    <2>3. widest[c].perUser \in Nat
      BY DEF IInv, TypeOK
    <2> QED
      BY <2>2, <2>3 DEF PerUserWithin
  <1>3. Init => PerUserWithin(1) /\ Repeats(1)
    BY InitWithin
  <1>4. IInv /\ PerUserWithin(1) /\ ServedAtMost(1)' /\ [Next]_vars => PerUserWithin(1)'
    BY PerUserStep
  <1>5. IInv /\ Repeats(1) /\ ServedAtMost(1) /\ ServedAtMost(1)' /\ [Next]_vars
           => Repeats(1)'
    BY RepeatsStep
  <1>6. IInv /\ Repeats(1) /\ ServedAtMost(1) => OrderedWithin(1)
    BY RepeatsOrdered
  <1> QED
    BY <1>1, <1>2, <1>3, <1>4, <1>5, <1>6, Invariance, PTL DEF Spec

=============================================================================
