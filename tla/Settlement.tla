----------------------------- MODULE Settlement -----------------------------
(***************************************************************************)
(* From a placed order to its receipt: PaymentService.createPayment against*)
(* the Paymob API, the payer's attempts at the gateway, the webhook that   *)
(* reports each attempt (WebhooksController), the receipt job it emits to  *)
(* RabbitMQ (QueueService) and the consumer that mails it (EmailConsumer). *)
(*                                                                         *)
(* Every `await` separates two actions.  Handlers are the webhook requests *)
(* being served at one time, in any of the app's processes; consumers are  *)
(* the receipt jobs being worked on.  The gateway reports an attempt until *)
(* it is answered with 200 and may report it again after that.             *)
(***************************************************************************)
EXTENDS Naturals, FiniteSets

CONSTANTS
    Order,          \* orders the shop may place
    Txn,            \* ids the gateway gives to payment attempts
    Handler,        \* webhook requests served at one time
    Consumer,       \* receipt jobs worked on at one time
    NoTxn,          \* "no transaction", "no attempt yet"
    NoOrder,        \* "no order"
    MaxFaults       \* bound on crashes, broker restarts and failed sends

ASSUME SettlementAssumption ==
    /\ NoTxn \notin Txn
    /\ NoTxn \notin [order : Order, success : BOOLEAN]
    /\ NoOrder \notin Order
    /\ IsFiniteSet(Handler)
    /\ IsFiniteSet(Consumer)
    /\ MaxFaults \in Nat

VARIABLES
    order,          \* orders table: status, paidAt set or null
    payment,        \* payments table: status, paymobTransactionId, paidAt, webhookReceived
    checkout,       \* where createPayment stands for an order
    attempt,        \* the gateway's transactions: their order and outcome
    answered,       \* transactions whose webhook was answered with 200
    handler,        \* webhook requests in progress
    queue,          \* receipt jobs in the broker, per order
    consumer,       \* receipt jobs handed to a consumer
    mails,          \* receipts handed to the mail server, per order
    faults          \* faults so far

vars == <<order, payment, checkout, attempt, answered, handler, queue,
          consumer, mails, faults>>

rows == <<order, payment>>
gateway == <<checkout, attempt>>
receipts == <<queue, consumer, mails>>

IdleHandler == [pc |-> "idle", txn |-> NoTxn]
IdleConsumer == [pc |-> "idle", order |-> NoOrder]

Init ==
    /\ order = [o \in Order |-> [status |-> "NONE", paidAt |-> FALSE]]
    /\ payment = [o \in Order |-> [status |-> "NONE", txn |-> NoTxn,
                                   paidAt |-> FALSE, webhookReceived |-> FALSE]]
    /\ checkout = [o \in Order |-> "none"]
    /\ attempt = [t \in Txn |-> NoTxn]
    /\ answered = {}
    /\ handler = [h \in Handler |-> IdleHandler]
    /\ queue = [o \in Order |-> 0]
    /\ consumer = [c \in Consumer |-> IdleConsumer]
    /\ mails = [o \in Order |-> 0]
    /\ faults = 0

Fault ==
    /\ faults < MaxFaults
    /\ faults' = faults + 1

-----------------------------------------------------------------------------
(* The order and its payment page *)

\* Mutant: a retry reopens an order that failed.
PlaceOrderAgain(o) ==
    /\ order[o].status \in {"NONE", "FAILED"}
    /\ order' = [order EXCEPT ![o].status = "PENDING"]
    /\ payment' = [payment EXCEPT ![o].status = "PENDING"]
    /\ checkout' = [checkout EXCEPT ![o] = "auth"]
    /\ UNCHANGED <<attempt, answered, handler, receipts, faults>>

\* The transaction of createOrder: the order and its payment, both PENDING.
\* How the cart and the discount get there is the subject of Checkout.
PlaceOrder(o) ==
    /\ checkout[o] = "none"
    /\ order' = [order EXCEPT ![o].status = "PENDING"]
    /\ payment' = [payment EXCEPT ![o].status = "PENDING"]
    /\ checkout' = [checkout EXCEPT ![o] = "auth"]
    /\ UNCHANGED <<attempt, answered, handler, receipts, faults>>

\* getAuthToken, registerOrder and getPaymentKey, one HTTP call each; the last
\* gives the URL the payer is redirected to.
CallPaymob(o) ==
    /\ \/ checkout[o] = "auth" /\ checkout' = [checkout EXCEPT ![o] = "register"]
       \/ checkout[o] = "register" /\ checkout' = [checkout EXCEPT ![o] = "key"]
       \/ checkout[o] = "key" /\ checkout' = [checkout EXCEPT ![o] = "url"]
    /\ UNCHANGED <<rows, attempt, answered, handler, receipts, faults>>

\* Mutant: the call also fails after the payer has the URL.
PaymobFailsLate(o) ==
    /\ checkout[o] \in {"auth", "register", "key", "url"}
    /\ Fault
    /\ checkout' = [checkout EXCEPT ![o] = "failed"]
    /\ UNCHANGED <<rows, attempt, answered, handler, receipts>>

\* Any of the calls throws, a setting is missing or the process dies: the
\* request ends and nothing in the code takes the order up again.
PaymobFails(o) ==
    /\ checkout[o] \in {"auth", "register", "key"}
    /\ Fault
    /\ checkout' = [checkout EXCEPT ![o] = "failed"]
    /\ UNCHANGED <<rows, attempt, answered, handler, receipts>>

Succeeded(t, o) == attempt[t] = [order |-> o, success |-> TRUE]

Captured(o) == \E t \in Txn : Succeeded(t, o)

\* External: the payer tries to pay; a declined attempt may be repeated on the
\* same page, a captured order is closed at the gateway.
Pay(o, t, success) ==
    /\ checkout[o] = "url"
    /\ attempt[t] = NoTxn
    /\ ~Captured(o)
    /\ attempt' = [attempt EXCEPT ![t] = [order |-> o, success |-> success]]
    /\ UNCHANGED <<rows, checkout, answered, handler, receipts, faults>>

-----------------------------------------------------------------------------
(* The webhook *)

\* Mutant: the check of webhookReceived is dropped.
ReceiveAlways(h, t) ==
    /\ handler[h].pc = "idle"
    /\ attempt[t] # NoTxn
    /\ handler' = [handler EXCEPT ![h] = [pc |-> "settle", txn |-> t]]
    /\ UNCHANGED <<rows, gateway, answered, receipts, faults>>

\* Mutant: a report that was processed before is answered with an error.
ReceiveConflict(h, t) ==
    /\ handler[h].pc = "idle"
    /\ attempt[t] # NoTxn
    /\ ~payment[attempt[t].order].webhookReceived
    /\ handler' = [handler EXCEPT ![h] = [pc |-> "settle", txn |-> t]]
    /\ UNCHANGED <<rows, gateway, answered, receipts, faults>>

\* The order is read with its payment; an order whose webhook was received is
\* answered at once, any other goes on with what was read.
Receive(h, t) ==
    /\ handler[h].pc = "idle"
    /\ attempt[t] # NoTxn
    /\ IF payment[attempt[t].order].webhookReceived
         THEN /\ answered' = answered \cup {t}
              /\ UNCHANGED handler
         ELSE /\ handler' = [handler EXCEPT ![h] = [pc |-> "settle", txn |-> t]]
              /\ UNCHANGED answered
    /\ UNCHANGED <<rows, gateway, receipts, faults>>

\* The writes of a successful settlement, the request going on at pc.
MarkPaid(h, status, pc) ==
    LET t == handler[h].txn
        o == attempt[t].order
    IN  /\ order' = [order EXCEPT ![o] = [status |-> "PAID", paidAt |-> TRUE]]
        /\ payment' = [payment EXCEPT ![o] =
                         [status |-> status, txn |-> t,
                          paidAt |-> TRUE, webhookReceived |-> TRUE]]
        /\ handler' = [handler EXCEPT ![h] = [pc |-> pc, txn |-> t]]
        /\ UNCHANGED <<gateway, answered, receipts, faults>>

\* Mutants: the order's status written to the payment; the outcome of the
\* attempt not looked at; no receipt emitted.
SettlePaidWrongStatus(h) ==
    /\ handler[h].pc = "settle"
    /\ attempt[handler[h].txn].success
    /\ MarkPaid(h, "PAID", "emit")

SettlePaidAny(h) ==
    /\ handler[h].pc = "settle"
    /\ MarkPaid(h, "COMPLETED", "emit")

SettlePaidNoReceipt(h) ==
    /\ handler[h].pc = "settle"
    /\ attempt[handler[h].txn].success
    /\ MarkPaid(h, "COMPLETED", "idle")

\* The transaction of a successful attempt; webhookReceived is not read again.
SettlePaid(h) ==
    /\ handler[h].pc = "settle"
    /\ attempt[handler[h].txn].success
    /\ MarkPaid(h, "COMPLETED", "emit")

\* The writes of a failed settlement.
MarkFailed(h, received, next) ==
    LET o == attempt[handler[h].txn].order
    IN  /\ order' = [order EXCEPT ![o] =
                       [status |-> "FAILED", paidAt |-> order[o].paidAt]]
        /\ payment' = [payment EXCEPT ![o] =
                         [status |-> "FAILED", txn |-> payment[o].txn,
                          paidAt |-> payment[o].paidAt,
                          webhookReceived |-> received]]
        /\ handler' = [handler EXCEPT ![h] = next]
        /\ UNCHANGED <<gateway, receipts, faults>>

Declined(h) ==
    /\ handler[h].pc = "settle"
    /\ ~attempt[handler[h].txn].success

\* Mutants: webhookReceived left to a later, successful report; a receipt
\* emitted for a failure as well.
SettleFailedOpen(h) ==
    /\ Declined(h)
    /\ MarkFailed(h, FALSE, IdleHandler)
    /\ answered' = answered \cup {handler[h].txn}

SettleFailedWithReceipt(h) ==
    /\ Declined(h)
    /\ MarkFailed(h, TRUE, [handler[h] EXCEPT !.pc = "emit"])
    /\ UNCHANGED answered

\* The transaction of a declined attempt, then the 200: paidAt and the
\* transaction id of the payment are left as they are.
SettleFailed(h) ==
    /\ Declined(h)
    /\ MarkFailed(h, TRUE, IdleHandler)
    /\ answered' = answered \cup {handler[h].txn}

\* sendPaymentReceiptEmail, then the 200.
EmitReceipt(h) ==
    LET t == handler[h].txn
        o == attempt[t].order
    IN  /\ handler[h].pc = "emit"
        /\ queue' = [queue EXCEPT ![o] = @ + 1]
        /\ handler' = [handler EXCEPT ![h] = IdleHandler]
        /\ answered' = answered \cup {t}
        /\ UNCHANGED <<rows, gateway, consumer, mails, faults>>

\* The broker cannot be reached: the error is logged, the webhook answered.
EmitFails(h) ==
    /\ handler[h].pc = "emit"
    /\ Fault
    /\ handler' = [handler EXCEPT ![h] = IdleHandler]
    /\ answered' = answered \cup {handler[h].txn}
    /\ UNCHANGED <<rows, gateway, receipts>>

\* Mutant: the 200 is sent before the work is done.
CrashAfterAnswer(h) ==
    /\ handler[h].pc # "idle"
    /\ Fault
    /\ handler' = [handler EXCEPT ![h] = IdleHandler]
    /\ answered' = answered \cup {handler[h].txn}
    /\ UNCHANGED <<rows, gateway, receipts>>

\* The process dies, or the database transaction throws and is rolled back:
\* the gateway gets no 200.
HandlerCrash(h) ==
    /\ handler[h].pc # "idle"
    /\ Fault
    /\ handler' = [handler EXCEPT ![h] = IdleHandler]
    /\ UNCHANGED <<rows, gateway, answered, receipts>>

-----------------------------------------------------------------------------
(* The receipt *)

\* The broker forgets a job as it hands it over (the consumer has noAck).
Deliver(c, o) ==
    /\ consumer[c].pc = "idle"
    /\ queue[o] > 0
    /\ queue' = [queue EXCEPT ![o] = @ - 1]
    /\ consumer' = [consumer EXCEPT ![c] = [pc |-> "read", order |-> o]]
    /\ UNCHANGED <<rows, gateway, answered, handler, mails, faults>>

\* handlePaymentReceiptEmail drops the job of an order that is not PAID.
ReadOrder(c) ==
    /\ consumer[c].pc = "read"
    /\ consumer' = [consumer EXCEPT ![c] =
                      IF order[consumer[c].order].status = "PAID"
                        THEN [pc |-> "send", order |-> consumer[c].order]
                        ELSE IdleConsumer]
    /\ UNCHANGED <<rows, gateway, answered, handler, queue, mails, faults>>

SendMail(c) ==
    /\ consumer[c].pc = "send"
    /\ mails' = [mails EXCEPT ![consumer[c].order] = @ + 1]
    /\ consumer' = [consumer EXCEPT ![c] = IdleConsumer]
    /\ UNCHANGED <<rows, gateway, answered, handler, queue, faults>>

\* The read or the mail server throws, or the process dies: the error is
\* rethrown, the broker no longer has the job.
ConsumerFails(c) ==
    /\ consumer[c].pc # "idle"
    /\ Fault
    /\ consumer' = [consumer EXCEPT ![c] = IdleConsumer]
    /\ UNCHANGED <<rows, gateway, answered, handler, queue, mails>>

\* The queue is durable, its messages are not persistent.
BrokerRestart ==
    /\ \E o \in Order : queue[o] > 0
    /\ Fault
    /\ queue' = [o \in Order |-> 0]
    /\ UNCHANGED <<rows, gateway, answered, handler, consumer, mails>>

-----------------------------------------------------------------------------
HandlerStep(h) ==
    SettlePaid(h) \/ SettleFailed(h) \/ EmitReceipt(h)

ConsumerStep(c) ==
    ReadOrder(c) \/ SendMail(c)

Next ==
    \/ \E o \in Order :
          \/ PlaceOrder(o)
          \/ CallPaymob(o)
          \/ PaymobFails(o)
          \/ \E t \in Txn, success \in BOOLEAN : Pay(o, t, success)
    \/ \E h \in Handler :
          \/ \E t \in Txn : Receive(h, t)
          \/ SettlePaid(h)
          \/ SettleFailed(h)
          \/ EmitReceipt(h)
          \/ EmitFails(h)
          \/ HandlerCrash(h)
    \/ \E c \in Consumer :
          \/ \E o \in Order : Deliver(c, o)
          \/ ReadOrder(c)
          \/ SendMail(c)
          \/ ConsumerFails(c)
    \/ BrokerRestart

Spec == Init /\ [][Next]_vars

\* A request that is being served goes on, a job is handed to a consumer, and
\* the gateway repeats a report until it is answered.  Strong fairness of the
\* report: other reports may take the same handler again and again.
Redeliver(t) == t \notin answered /\ \E h \in Handler : Receive(h, t)

Fairness ==
    /\ \A t \in Txn : SF_vars(Redeliver(t))
    /\ \A h \in Handler : WF_vars(HandlerStep(h))
    /\ \A c \in Consumer : WF_vars(ConsumerStep(c))
    /\ \A o \in Order : SF_vars(\E c \in Consumer : Deliver(c, o))

FairSpec == Spec /\ Fairness

-----------------------------------------------------------------------------
(* Type invariant *)

TypeOK ==
    /\ order \in [Order -> [status : {"NONE", "PENDING", "PAID", "FAILED"},
                            paidAt : BOOLEAN]]
    /\ payment \in [Order -> [status : {"NONE", "PENDING", "COMPLETED", "FAILED"},
                              txn : Txn \cup {NoTxn},
                              paidAt : BOOLEAN,
                              webhookReceived : BOOLEAN]]
    /\ checkout \in [Order -> {"none", "auth", "register", "key", "url", "failed"}]
    /\ attempt \in [Txn -> [order : Order, success : BOOLEAN] \cup {NoTxn}]
    /\ answered \in SUBSET Txn
    /\ handler \in [Handler -> [pc : {"idle", "settle", "emit"},
                                txn : Txn \cup {NoTxn}]]
    /\ queue \in [Order -> Nat]
    /\ consumer \in [Consumer -> [pc : {"idle", "read", "send"},
                                  order : Order \cup {NoOrder}]]
    /\ mails \in [Order -> Nat]
    /\ faults \in Nat

-----------------------------------------------------------------------------
(* Safety *)

\* The order row, the payment row and webhookReceived always tell one story,
\* whichever handlers settle the order in whichever order, with one exception
\* the code leaves: FAILED after PAID keeps paidAt and the transaction id
\* (the two transactions of handlePaymobWebhook).
Agreement ==
    \A o \in Order :
        /\ payment[o].webhookReceived <=> order[o].status \in {"PAID", "FAILED"}
        /\ order[o].status = "PAID" <=> payment[o].status = "COMPLETED"
        /\ order[o].status = "FAILED" <=> payment[o].status = "FAILED"
        /\ order[o].status = "PAID" => order[o].paidAt
        /\ order[o].paidAt = payment[o].paidAt
        /\ payment[o].paidAt <=> payment[o].txn # NoTxn

\* A transaction id in the payment row is a captured transaction of that very
\* order, so no interleaving of reports marks an order PAID without money.
PaidIsCaptured ==
    \A o \in Order :
        /\ payment[o].txn # NoTxn => Succeeded(payment[o].txn, o)
        /\ order[o].status = "PAID" => Captured(o)

\* A receipt exists, as a job, in a consumer or in the mail, only for captured
\* money, even where the order has meanwhile been flipped to FAILED.
ReceiptIsDue ==
    \A o \in Order :
        \/ queue[o] > 0
        \/ mails[o] > 0
        \/ \E c \in Consumer : consumer[c].pc # "idle" /\ consumer[c].order = o
        => Captured(o)

WithConsumer(o) == {c \in Consumer : consumer[c].pc # "idle" /\ consumer[c].order = o}

\* Only the requests that read the order before the first settlement can emit
\* a receipt: there are never more than requests served at one time, and one
\* handler means at most one receipt (the check at webhooks.controller.ts:92).
ReceiptsBounded ==
    \A o \in Order :
        queue[o] + Cardinality(WithConsumer(o)) + mails[o] <= Cardinality(Handler)

\* An order whose payment page could not be made is never settled: createPayment
\* runs once, after the order is committed, and nothing repeats it.
StrandedStaysPending ==
    \A o \in Order : checkout[o] = "failed" => order[o].status = "PENDING"

\* No step takes a settled order back or forgets that its webhook came.
SettledForever ==
    [][\A o \in Order : payment[o].webhookReceived =>
          /\ payment'[o].webhookReceived
          /\ order'[o].status \in {"PAID", "FAILED"}
          /\ payment[o].txn # NoTxn => payment'[o].txn # NoTxn]_vars

-----------------------------------------------------------------------------
(* Liveness *)

\* An attempt of order o was declined.
Refused(o) == \E t \in Txn : attempt[t] # NoTxn /\ attempt[t].order = o /\ ~attempt[t].success

\* The transaction at webhooks.controller.ts:111: an order whose money was
\* captured becomes PAID in the end, although handlers crash and answers are
\* lost, unless an attempt of it was declined: then the decline may be settled
\* first, and the order stays FAILED (CaptureIsPaid).
CaptureBooked ==
    \A o \in Order : Captured(o) ~> order[o].status = "PAID" \/ Refused(o)

\* Every report is answered in the end: none is rejected for ever.
EveryReportAnswered ==
    \A t \in Txn : attempt[t] # NoTxn ~> t \in answered

\* A paid order gets its receipt, unless something fails or a report that raced
\* flips the order: emitting, handing over and mailing are each tried once.
PaidIsMailed ==
    \A o \in Order :
        order[o].status = "PAID"
            ~> mails[o] > 0 \/ order[o].status = "FAILED" \/ faults > 0

\* README.md:27 "Email queue with retry logic": a job that reached a consumer
\* while its order was PAID is mailed, in spite of one failure.
JobIsMailed ==
    \A o \in Order :
        (\E c \in Consumer : consumer[c] = [pc |-> "send", order |-> o])
            ~> mails[o] > 0

\* payment.service.ts:84 "Each payment attempt gets a unique key (supports
\* retries)": a payer whose second attempt is captured has a PAID order.
CaptureIsPaid ==
    \A o \in Order : Captured(o) ~> order[o].status = "PAID"

-----------------------------------------------------------------------------
(* Refinement *)

Ledger == INSTANCE OrderLedger WITH
    status <- [o \in Order |-> order[o].status],
    captured <- {o \in Order : Captured(o)},
    receipted <- {o \in Order : mails[o] > 0}

\* Every step of the payment pipeline is a step of the ledger or none.
ImplementsLedger == Ledger!Spec

=============================================================================
