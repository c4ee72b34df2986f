# A verification of the digital bookstore

TLA+ models of the bookstore's orders, discounts, payments, receipts, carts,
catalogue and accounts, their TLC configurations, and proofs checked by TLAPS. File names below are relative
to `src/modules/` of the repository unless they say otherwise.

## The system

A NestJS application over one MySQL database (Prisma), a cache, RabbitMQ, a mail
server and the Paymob gateway. Several app processes may run (`ecosystem.config.js`);
each runs the scheduled tasks, and `src/corn-worker.ts` runs them all again at 2 AM.
All concurrency is between requests, jobs and webhooks: each `await` gives way to
any other of them, in this process or another. Only the database is shared with
transactions.

| Component | State | Operations | Talks to | Status |
|---|---|---|---|---|
| Order creation (`orders/orders.service.ts`) | orders, order_items, payments, discount_usages | createOrder, validateAndGetDiscount | cart rows, discount rows, payment | modelled: Checkout, Settlement, Quote |
| Amounts (`common/utils/calculate-discount.util.ts`, createOrder, createPayment) | doubles, Decimal(10,2), cents | calculateDiscount, total, rounding | | modelled: Pricing, Quote |
| Payment initiation (`payment/payment.service.ts`) | none of its own | createPayment: token, order, key, URL | Paymob over HTTP | modelled: Settlement |
| Webhook (`webhooks/webhooks.controller.ts`) | orders.status, payments | handlePaymobWebhook | Paymob, queue | modelled: Settlement |
| Receipt queue (`queue/`, `main.ts`) | a RabbitMQ queue | emit, deliver, handlePaymentReceiptEmail | mail | modelled: Settlement |
| Mail (`mail/mail.service.ts`) | none | receipt, verification, reset | SMTP | modelled: Settlement, Sessions |
| Cart (`cart/cart.service.ts`) | carts, cart_items; in each process the cached cart and the applied code | getCart, addItem, removeItem, clearCart, applyDiscount, removeDiscount | products, codes | modelled: Checkout (prices, orders), CartCache (what is shown) |
| Discount codes (`cart/discount.service.ts`) | discount_codes, discount_usages | create, update, activate, deactivate, remove | orders | modelled: Checkout |
| Products (`products/`) | products, files | create, update, remove, publish, unpublish | categories, files, carts | modelled: Checkout (price, availability), Catalog (row, files, category) |
| Categories (`categories/`) | categories, images | create, update, remove | products, files | modelled: Catalog |
| Files (`files/`) | the uploads directory | uploadFile, deleteFile | disk | modelled: Catalog |
| Scheduled tasks (`schedule-tasks/`) | none of their own | end of sales, purge after 30 days, expired carts | products, files, carts | partly: the purge in Catalog, expired carts in CartCache |
| Sessions (`auth/`) | users, refresh_tokens | register, login, refresh, logout, OAuth, verify, reset | mail | modelled: Sessions |
| OAuth providers, controllers, guards, users, health | none | routing, formatting | | not modelled |

### What is hard

- **Check, then write.** createOrder reads the cart and the code outside the
  transaction that relies on them; the webhook reads `webhookReceived` outside
  the transaction that sets it.
- **Reports of the gateway** are repeated, race each other, and come for every
  attempt on one payment page, declined and captured ones.
- **Crashes** fall between the settlement, the receipt job and the answer; the
  payment page is created after the order is committed.
- **The queue** hands a job over before it is worked on, and does not write it
  to disk.
- **Amounts** are doubles, stored and charged through two separate roundings.
- **Accounts** are read, and written by id several queries later, with no
  transaction: registrations, refreshes and password resets overlap.
- **Discount codes** change, expire and are removed under the orders using them.
- **Files and rows** have no transaction in common: an upload precedes the row
  that names it, the deletion of the old file follows, and each of the three may
  fail, or be the last thing a process does.
- **Two caches per process** hold a cart and its code. Orders, administrators and
  the cleanup change the cart and tell no cache; a read that began before a write
  fills the cache after it.
- **The nightly tasks** run in the four app processes at the same second (and the
  cleanup of carts in `corn-worker.ts` too, which is started at that hour), and act
  on rows and ids that they read some queries earlier.

### What makes each part correct

Orders: every item at the price it was added at, out of the cart it was in, and
no oftener than overlapping requests explain; the same for the uses of a code;
counters that agree with the usages. Amounts: the discount the terms promise, rows that add up, a charge that
is the payment. Settlement: PAID only with money, rows that agree, no way back,
captured money in the books in the end, unless an attempt on the same order was
declined (`settlement_retry`), no receipt that is not due. Sessions: a
refresh never makes two of one; a reset ends the older ones; few first admins.
Catalogue: what is live, or may still be recovered, has its files and its
category; no file is lost sight of unless the code gives it up; what is deleted
goes in the end. Cart: a request answers the cart of the moment unless somebody
overtook it; a cached cart is stale only by changes that no request is to drop it
for; the cleanup spares a cart that replaced the one it found expired.

## Modules

| Module | What it is |
|---|---|
| `Pricing` | Operators for the arithmetic of an order. An amount is an integer number of hundredths of a cent, in which an integer percentage of a price is exact. Where a double may fall on either side of a boundary (a half cent, a total of exactly zero), both outcomes are possible. |
| `Quote` | One order's amounts from cart to charge: the loop over the cart, one item a step, then the rejection or the rows and the charge. |
| `Checkout` | Products (price, listed), cart rows, discount codes, usages, orders, and the requests in progress (`worker`). addItem is two actions, createOrder three or four (read the cart; read the code; count the user's usages; the transaction), administration of codes one each. |
| `OrderLedger` | The abstract specification of an order's money: opened once, settled PAID only if captured, never PENDING again, a receipt only for captured money. |
| `Settlement` | createPayment, the payer's attempts, the webhook requests in progress, the receipt queue, the consumers and the mail; crashes, a broker restart and failed sends. |
| `SessionLedger` | The abstract specification of sessions: they begin one at a time, each a new one, and end; none comes back. |
| `Sessions` | Accounts, refresh tokens, links and the requests that work on them, one action per query. |
| `Catalog` | Products and categories with their files: requests that upload, write and delete, the nightly purge, and the order items that keep a row. |
| `CartCache` | One user's cart as it is shown: the row, the cached cart and code of each process, the user's requests, the cleanup of expired carts. |
| `PricingProofs`, `QuoteProofs`, `SettlementProofs`, `CheckoutProofs`, `SessionsProofs`, `CatalogProofs`, `CartCacheProofs` | The theorems. |
| `MCQuote`, `MCCheckout`, `MCSettlement`, `MCSessions`, `MCCatalog`, `MCCartCache` | Values and symmetry for TLC. |

`Checkout` and `Quote` extend `Pricing`; `Settlement` implements `OrderLedger` and
`Sessions` implements `SessionLedger`. Names meet at the borders: the rows that
`Commit` of Checkout writes are what `PlaceOrder` of Settlement starts from, and
`Order` of Catalog and of CartCache is the part of the same transaction that
refers to a product and empties the cart.

**Quote and the code.** `sum` is the accumulator of `reduce` (line 37) and `left`
the items it has not reached: `Add` is one call of its function. The amounts are
exact, so items may be taken in any order; that doubles are not is in `Residual`
and `RoundedCents`. `Reject` and `Accept` are the two outcomes of the test of
`total` at line 68, both possible where a residue decides. Prices are at least
0.99 (`MinPrice`, the `@Min` of create-product.dto.ts, which update inherits),
and discountValue is an integer, as CreateDiscountCodeDto demands; the body of
an update of a code is not validated, so an administrator can store 99.99%. Such
codes are outside the model, and FreeOnlyByResidue would not hold for them.

**Settlement and the code.** `order` and `payment` are the columns that
`handlePaymobWebhook` reads or writes; `checkout` is how far createPayment got;
`attempt` is the gateway's side (external: `Pay`); `handler[h].pc` is `settle`
between the read at line 82 and the transaction, and `emit` between the
transaction and the answer. `Receive` answers a settled order at once (line 92).
`SettlePaid` and `SettleFailed` are the two transactions; neither reads
`webhookReceived` again, which is why two handlers can settle one order one
after the other. `EmitFails` is both the logged error of line 139 and a job lost
between `emit`, which is not awaited, and the broker. `Deliver` takes the job
out of the queue, as Nest's consumer without acknowledgements does. `BrokerRestart`
empties the queue: it is durable, but the client's messages are not persistent,
so they are lost although a comment at `src/main.ts:31` says otherwise.

**Checkout and the code.** `worker[w].items` is the `cart` constant of
createOrder, `terms` the `discount` row it holds. `Commit` is the whole
`$transaction`: the order with its items, the usage, the counter, and the cart
emptied of whatever is in it by then. `RequestFails` covers a rollback (the
usage's foreign key, when the code was removed), an error of the database and a
crash. A code's `window` stands for startsAt and expiresAt; `TimePasses` is the
clock. `UpdateCode` allows what `update` allows: its guard sees a percentage
above 100 only if the request carries both fields. The body of that request is
not validated (`discount.controller.ts:96`, `Partial<...>`); only the fields of
the form are modelled. `added` and `widest` are history variables of the
properties: how often an item was put in a cart, and the most permissive limits
a code has had. The payment row and createPayment of the same request are
`PlaceOrder` and `CallPaymob` of Settlement.

**Sessions and the code.** `user` is the row of an account (one per address:
email is unique, and a provider's account has its address), `tokens` is
refresh_tokens, `mailbox` the links that were mailed. `request[r].pc` names the
query a request is about to make: register is `RegisterFind`, `CountUsers`,
`CreateUser`, `SendMail`; refreshTokens `RefreshFind`, `Rotate`, `StoreToken`;
resetPassword `ResetFind`, `ResetPassword`, `Revoke`. Requests answered with an
error before they write are not actions, except where the outcome depends on a
race: the unique index in `CreateUser` and `OAuthCreate`, the deletion of a
token that is gone in `Rotate`. Links may expire at any time: a request for one
simply does not happen. A refresh token is a JWT of its account and the second
it was signed in (`SameText`), so a refresh within that second returns the text
it was given, which stays valid, and a logout deletes every row with the text.
`late` is a history variable: the sessions that a reset did not reach. A
provider's account is never an admin, not even as the first of all.

**Catalog and the code.** A row has a status: products are live, `deleted`
(deletedAt is set), `old` (for 30 days, `Age`) or `gone`; a category goes at
once. `request[r].pc` is where create or update stands: `upload` one file after
the other (`uploadFile`), `write` the row, `delete` the files it replaced.
`RequestFails` is every way to break off between them: a refused second upload
of an update, a slug that is taken or a category that is missing, both checked
after the uploads, a unique index or foreign key, a crash. `UploadFails` is the
one clean-up the code does, of the cover when createProduct cannot store the PDF.
An update writes by id alone, so the product may be deleted by then, and another
update may have replaced the files it read (`Displaced`). The purge reads the
old rows (`PurgeRead`), deletes their files one by one (`PurgeFile`), and then
their rows in one deleteMany (`PurgeRows`), which removes those that are old by
then or, if a single one was ordered, none: order_items refer to products
without a cascade. The files of such a product are deleted all the same, and it
blocks the purge for good. `leaked` is a history variable: the files that nothing
was going to delete any more, added to where the code gives one up.

**CartCache and the code.** `CacheModule.register` keeps both keys of a user in
the memory of the process, so each process has a `view` and an `applied`. A query
and what the process does with its answer are two actions; what it does is one,
since cache operations of the memory store complete in the same turn. getCart is
`GetCart`, the three queries of `fetchCartFromDB` (Prisma reads the row, its items
and their products apart, without a transaction): `ReadRow`, `ReadItems`,
`ReadProducts`, or `CreateCart` without a row; then `FillPlain`, or `SeeCode`,
`ReadCode` and `FillPriced` if a code is applied. addItem is `AddRead` (the product),
`AddFind` (the cart), `AddRow` or `AddItem` and `Extend` (the new expiresAt), then
`Invalidate` and a getCart; clearCart is `ClearRead`, `ClearItems`, `Invalidate`.
applyDiscount is `ApplyRead`, `Apply`, and `Fill` when its own getCart is done.
`Order`, `ChangeProduct`, `ChangeCode` and the cleanup come from outside. A
cart's `age` stands for expiresAt: a cart that expired and was extended is
`revived`, which the cleanup cannot tell from one that is expired when it deletes
items by the ids it read. `CleanRead`, `CleanItems` and `CleanRow` are the three
queries of `cleanupExpiredCarts`; the last tests the date again, so it takes a cart
that expired meanwhile with its items. Two history variables: a request is `sure`
while nothing changed the cart since it wrote it or began to read it, and a
process has `missed` a change if its cached cart is of before one that nobody
drops it for.

Three queries are merged with the next one where the model would not tell the
difference: removeItem's read of the item (deleted by its id, it must still be
there), the read of the cart and its items in addItem, and in Checkout's `Emptied`
the id of the cart, which only matters if the cart is replaced during createOrder.
So are, in Settlement, the commit of a failed payment and the 200 that follows
(a repeated report is answered the same), and in Sessions the lookup and the
comparison of the password in `Login` (the window before the token is stored is kept).

## Runs

| Run | Shows | Bounds, and why they are enough |
|---|---|---|
| `quote` | the loop sums every item once; the discount against what the terms promise; rows and charge exact but for half a cent; an order is free only by a residue | carts of 1 and 2 items over five prices, with the least price, half-cent discounts and a residual pair; codes below, at and above 100%, with and without a cap |
| `quote_zero` | *violation*: an order of 0.00 is placed | the pair 26.70 and 27.53 |
| `settlement` | rows, gateway and receipts agree; the ledger is implemented | 2 orders, 3 attempts (decline, decline, capture on one order, or split), 2 handlers so that two reports race, 2 faults so that a crash can follow a crash |
| `settlement_live` | captured money makes its order PAID unless an attempt on it was declined; answer and receipt happen | 1 order, 3 attempts, 2 handlers, 1 fault; no symmetry, which is unsound for liveness |
| `settlement_retry` | *violation*: captured after a decline stays FAILED | 2 attempts, 1 handler, no fault |
| `settlement_lost` | *violation*: one failed send loses the receipt | 1 fault |
| `checkout_race` | counters and usages agree; the limits of a code are overrun, and a cart is ordered again, by no more than the other requests | 2 users, 2 requests, 3 orders (one more than the limit and the overrun), a code with and without each limit, changed and removed at any time |
| `checkout_serial` | with one request at a time: exact limit, items ordered once, at their locked price, and only they leave the cart | 2 products, 2 prices, terms that reject a total, escape that or exceed 100% |
| `checkout_percentage` | *violation*: 150% off | 1 request |
| `catalog` | live and recently deleted rows have their files, no file is lost without a reason, categories stay, what is old is purged in the end | 2 products so that one blocks the other's purge, 1 category, 2 requests so that updates overlap, 1 purge, which may die among the files and start again, 5 files (a category, a product and an update of both its files, or two products and no update) |
| `cart_cache` | an answer that nobody overtook is the cart, read in pieces and past a cache; a cached cart is stale only by a missed change; a cleanup spares the cart that replaced the one it found until that expires too | 1 product, 2 requests in 1 process so that a read and a write race for its cache, 2 cleanups so that one finds the cart of the other gone, 2 carts so that a cart replaces another |
| `sessions` | refreshing never forks a session, a reset ends the older ones but those being stored, first admins are bounded, the session ledger is implemented | 2 accounts, 2 requests so that any two race, 2 rows and 2 logins (two sessions, or one that was refreshed), 2 links (register and reset, or two resets), 2 seconds |

Bounds in the guards: `MaxFaults` (Settlement), `MaxAdds` (Checkout), `MaxRows`,
`MaxLogins`, `MaxLinks` and `MaxClock` (Sessions), `MaxFiles` (Catalog) and
`MaxCarts` (CartCache). Deadlock is not checked in Quote, which ends, in
Settlement, which stops when every payment page failed, in Sessions, which stops
at its bounds, nor in Catalog, which stops when the files are used up and the
last row is gone. A second process in `cart_cache` is out of TLC's reach (above
ten million states) and is left to the proofs: all its properties are proved for
any number of processes. With a second purge `catalog` has almost five million
states. Its safety properties are proved for any number of purges; PurgeCompletes
is checked for one, and that purges which overlap complete is not shown.

`SumsTheCart` and `DiscountIsReference` compare the code's loop and its cascade of
minima with definitions that have neither: a sum over a set, and "as much as
exceeds none of the limits".

With two requests at a time, the last use of a code is taken twice, one user
uses a code twice that is limited to once, and two requests that read one cart
both order it. LimitOverrun, PerUserOverrun and OrderedOverrun say by how much:
at most the number of other requests that are past their check. With one
request at a time (`checkout_serial`) the three are exact: no limit is exceeded
and what was added once is ordered once. ClearsWhatItOrders holds only then: with two,
an item added between the read of the cart and the transaction vanishes.

The violations state what a comment, a message or a test of the repository
says.

### Fairness

`FairSpec` of Settlement assumes: a request or job in progress goes on (weak:
Node runs every ready callback); a queued job is handed to an idle consumer
(strong: other orders' jobs may take it first); and the gateway repeats a report
that was not answered with 200 until some handler takes it (strong, for the same
reason; this is Paymob's promise, external to the code). Nothing is assumed of
the payer, of createPayment or of faults.

`FairSpec` of Catalog assumes: the purge is started every night and goes on
(weak), and some night comes after which no purge breaks off. Without the second,
nothing would follow: each run starts over, and one that always died among the
files would never reach the rows. Nothing is assumed of requests.

## Proofs

`SettlementProofs` proves, for any sets of orders and attempts, any finite sets
of handlers and consumers and any number of faults, each safety property of the
run `settlement`. The inductive invariant `IInv` is TypeOK,
Agreement, PaidIsCaptured and ReceiptIsDue, strengthened by what those leave
out: an order with attempts had its page made (`Placed`, `SettledHasPage`), a
handler past the read works on an attempt that was made and one at `emit` on a
captured one (`Working`), a busy consumer holds an order (`Holding`).
Agreement alone is not inductive: without the handlers' part a settlement could
write to an order never placed. StrandedStaysPending follows from `IInv`.
ReceiptsBounded needs `Counted`, which counts the requests that work on an
order along with its receipts: before the first settlement there are no receipts
and no request is past it; after it no request takes up the order, and every
receipt replaces the request that emitted it, so that the sum cannot grow.
`Refinement` maps the rows to the ledger: every step is a step of it or a
stutter.

`PricingProofs` proves what the fold of `Subtotal` computes for any finite set of
priced items: `SubtotalAdds`, each item counts once, whichever the fold takes
first. That is an induction over the items. The library's induction theorems take
the claim as an operator, which the provers cannot instantiate; the proof takes
instead a smallest set for which the claim fails (`Smallest`), which exists since
strict inclusion is well-founded on finite sets, a fact without such a parameter.
In this way the recursion is shown to have a solution (`SumsExist`), only one
(`SumsAgree`), and one that any item can be taken out of (`TakenOut`).

`QuoteProofs` proves, for any prices of at least 0.99, any integer values, any
caps and any number of items, every property of the run `quote`. The arithmetic
is in lemmas about the operators: `RoundedIsNear` and `RoundedIsNearest` (a stored
amount is within half a cent, and strictly so unless it is half a cent off),
`DiscountIsLargest` (the cascade of calculateDiscount grants the largest amount
that the terms allow), `PartialOfferLeaves` (an offer below the subtotal leaves
more than half a cent: a whole per cent of 0.99 is 0.99 cents, and caps and fixed
values are whole cents), `RowsOfSubtotal` and `ChargeOfTotal`. `IInv` is TypeOK with

- `Passed`: the accumulator is the sum of the items passed, by `SubtotalAdds`; a
  cart is finite, having one item for each of MaxItems products (`CartPriced`);
- `Summing`: it is a whole number of cents, and at least one price once an item
  was passed, which is what `PartialOfferLeaves` needs;
- `RowsRound`: the rows are roundings of the discount and the total, and of
  nothing else, and the total was not rejected.

`FreeOrders` is the extent of the finding of `quote_zero`: an order of 0.00 is
placed only with a code that covers the subtotal of several items.
`AnotherItemCosts` compares two carts: one more item never makes the discount of
a code smaller, nor what is left to pay. The assumption is `QuoteAssumption`.

`CheckoutProofs` proves, for any sets of users, products, codes, orders, prices
and terms and any finite set of workers, TypeOK, UsageAccounting, PriceLocked,
LimitOverrun, PerUserOverrun and OrderedOverrun of Checkout. None of them is
inductive alone; `IInv`, which holds the first three, adds

- `Added`: what is in a cart, or was when a request read it, was put there. It
  carries PriceLocked over the gap between createOrder's read and transaction.
- `UncreatedUnused`: no order has a code that does not exist yet, so that a code
  starts with a counter, usages and orders that agree.
- `WithinWidest`: a code's limits, and the perUserLimit a request has in hand,
  lie within the widest the code ever had.
- `Working` and the finiteness of `usages`.

The argument for LimitOverrun counts: usageCount plus the requests past the
check never grows by a commit, which moves one from the second to the first; it
grows when a request passes the check, and then usageCount is below the limit.
The other two have invariants of their own in the same form, `PerUserWithin` and
`Repeats`: while an item is in the cart every add of it pays for K orders, of
which the last add's are unused; once it left, they are used up only by the
requests that still hold the cart. None of the three depends on the number of
workers, only on how many requests can be at the same thing at once, and they
are proved for any such number K:

- `LimitByHolders`: if never more than K requests are between the check of a code
  and its commit (`HeldAtMost`), its usageLimit is overrun by less than K.
- `PerUserByRequests`, `OrderedByRequests`: if never more than K requests of one
  user are served at once (`ServedAtMost`), his perUserLimit is overrun by less
  than K and each add of an item is ordered at most K times, whatever the
  requests of other users do.

The bounds that the runs check are the case where K is the number of workers. The
case K = 1 says what would mend the code, and that less would do than one request
at a time: to serialise the requests on one code makes usageLimit exact
(`ExclusiveLimitExact`), and to serialise the requests of each user makes
perUserLimit exact, orders every add once (`OneRequestExact`) and makes the cart
lose exactly what is ordered (`OneRequestClears`). The last rests on `CartInHand`:
what is in the cart of a user whose order is being created is in the hand of that
request, for only an add of the same user brings something in. With one worker
these hypotheses hold by themselves (`SerialLimitExact`, `SerialClears`).

The assumptions are `CheckoutAssumption` alone: prices and
limits are numbers, terms have the fields of the form, workers are finite, and
the three "none" values are no row's.

`SessionsProofs` proves every property of the run `sessions`, for any emails and
bounds and any finite set of requests. `IInv` adds to them

- `Busy`: what a request in progress has in hand is an account, a link that was
  made, or a session that began; a request that exchanges a token keeps its
  session, so that deleting the old row makes room for the new one.
- `TokensKnown`: every row's session began, so that a new login is a new one.
- `StoredLate`: ResetEndsSessions for the tokens on their way to a row, which
  is what makes it survive `StoreToken`.
- that an address without an account has no admin, and `Admins` is finite. The
  count of AdminsBounded then works like that of LimitOverrun: requests are
  admitted only while there is no admin, and each makes at most one.

`Refinement` shows that Sessions implements SessionLedger, where a session lives
in its token, stored or about to be (`Live`). Every query either begins one
session with the next login, or brings none in: `StoreToken` moves a session from
a request to a row, and `Rotate` takes its session from a row that is still there
at that moment (`Busy`). A refresh that a logout or a reset overtook
therefore brings nothing back.

It assumes `SessionsAssumption`: the bounds are numbers, requests are finite.

`CatalogProofs` proves each safety property of the run `catalog` for any sets of
products, categories, requests and purges and any number of files. `IInv` adds

- `RowNames`, `Creating`, `Updating`, `Busy`: a row has a file in each of its
  slots and no other, the files of different rows differ, an id is created by one
  request, and what a request has read was in a row.
- `NewFiles`: a file that is uploaded and not yet written belongs to one request
  and to no row. This is what a fresh name gives, and without it an update's
  deletion could hit another row.
- `OldFiles`: what a request is about to delete is in no row. It survives an
  overlapping update because that one writes files of its own.
- `Purging`: the victims of a purge were old when it read them, so they are old
  or gone, never recovered: no code clears deletedAt. LiveHasFiles rests on it.
- `Traced`: FilesAccounted by its second half.

It assumes `CatalogAssumption`: products and categories are different, NoRow is
neither, and MaxFiles is a number. CategoryKept needs only that a product being
created has a category in hand: the foreign key refuses what the count of
`remove` overlooks.

`CartCacheProofs` proves each property of the run `cart_cache` for any sets of
products, processes, requests and cleanups. `IInv` is TypeOK with

- `InHand`: a request learns of a cart the items, then the code, then the
  discount, and holds none of them before.
- `SureFresh`: while a request is sure, the row, the items, the visible items, the
  code and the discount it has read so far are what it would read now. At the end
  this is AnswersFresh; it is where the cache must not answer, and does not, since
  invalidation and the next read are one turn.
- `Cleaning`: a cleanup about to delete items found that cart expired, and a cart
  that replaced it has another id, so what it deletes from is never fresh.

StaleIsMissed is inductive beside `IInv`: a step concerns no cache (`QuietExcused`),
is a write, which leaves its request about to drop the cart and the other processes
with a missed change (`WriteExcused`), comes from outside (`DisturbExcused`), or
replaces the cache of one process (`OneExcused`); what a request fills it with is
the cart if the request is sure, by `SureFresh`, and of before a change if not. It
assumes `CartCacheAssumption` and `NoViewAssumption`: the "none" values are no
row's, and processes are not requests.

Every invariant and action property of a passing run is proved; ClearsWhatItOrders
under its hypothesis, one request of a user at a time. Only model-checked: the
liveness properties CaptureBooked, EveryReportAnswered, PaidIsMailed and
PurgeCompletes (fairness and ENABLED are outside the prover's fragment), and the
four violations, which are traces.

## Not modelled, and the plan

Controllers and guards (a request is an action of the service it calls), the
HMAC (a report that fails it changes nothing), logging, templates, health, the
providers' strategies. Slugs: their unique index makes a write fail, which
`RequestFails` of Catalog does. Files that are written in part: a failed upload
writes nothing here. `cleanupExpiredSales` and the sale's columns: one updateMany
that no other write depends on, and no cart or order reads them. Publication
dates.

What is left, in this order:

1. `Shop`: Checkout composed with Settlement, a request going on from `Commit`
   to `CallPaymob`, refining OrderLedger.
2. Sales as queries compute them, against what a cart locks (see below).
3. The proofs that `Shop` allows: what Commit of Checkout writes is what Settlement
   starts from.

### Remarks from reading the code

These are observations, not results of a run.

- `cart.service.ts:18` gives a lifetime in seconds to a cache that takes
  milliseconds: an applied code is forgotten after about ten minutes.
- `cart.service.ts:105` locks `product.price`, not the sale price that a product
  page shows; `products.service.ts:364` computes that price without looking at
  saleEndsAt, so that a sale lasts until the nightly task ends it.
- `permanentlyDeleteOldProducts` deletes the files of an ordered product every
  night and never its row, nor any other (`schedule-tasks.service.ts:96`).
- createOrder takes items whose product is no longer available, which getCart
  hides.
