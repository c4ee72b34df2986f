-------------------------- MODULE SettlementProofs --------------------------
(***************************************************************************)
(* Theorems about Settlement for every set of orders, transactions,        *)
(* handlers and consumers, the last two finite, and every number of faults.*)
(***************************************************************************)
EXTENDS Settlement, FiniteSetTheorems, TLAPS

-----------------------------------------------------------------------------
(* The inductive invariant *)

\* An attempt at the gateway presupposes a payment page, and a payment page a
\* placed order.
Placed ==
    /\ \A o \in Order : order[o].status = "NONE" <=> checkout[o] = "none"
    /\ \A t \in Txn : attempt[t] # NoTxn => checkout[attempt[t].order] = "url"

\* A busy handler works on a transaction the gateway has, and a handler that
\* emits a receipt works on a captured one.
Working ==
    \A h \in Handler :
        /\ handler[h].pc # "idle" => /\ handler[h].txn \in Txn
                                     /\ attempt[handler[h].txn] # NoTxn
        /\ handler[h].pc = "emit" => attempt[handler[h].txn].success

\* A settled order was settled by a report, so it has a payment page.
SettledHasPage ==
    \A o \in Order : order[o].status \in {"PAID", "FAILED"} => checkout[o] = "url"

\* Busy consumers hold an order.
Holding ==
    \A c \in Consumer : consumer[c].pc # "idle" => consumer[c].order \in Order

WithHandler(o) ==
    {h \in Handler : handler[h].pc # "idle" /\ attempt[handler[h].txn].order = o}

\* Receipts and requests that may still make one: before the first settlement of
\* an order nothing was emitted, and after it no request takes the order up.
Counted(o) ==
    IF payment[o].webhookReceived
      THEN queue[o] + Cardinality(WithConsumer(o)) + mails[o]
             + Cardinality(WithHandler(o)) <= Cardinality(Handler)
      ELSE /\ queue[o] = 0
           /\ WithConsumer(o) = {}
           /\ mails[o] = 0
           /\ \A h \in WithHandler(o) : handler[h].pc = "settle"

IInv ==
    /\ TypeOK
    /\ Agreement
    /\ Placed
    /\ Working
    /\ SettledHasPage
    /\ Holding
    /\ PaidIsCaptured
    /\ ReceiptIsDue
    /\ \A o \in Order : Counted(o)

-----------------------------------------------------------------------------
(* Initial states *)

LEMMA InitIInv == Init => IInv
  <1> SUFFICES ASSUME Init PROVE IInv
    OBVIOUS
  <1> USE SettlementAssumption DEF Init, IdleHandler, IdleConsumer
  <1>1. TypeOK
    BY DEF TypeOK
  <1>2. Agreement /\ Placed /\ Working /\ SettledHasPage /\ Holding
    BY DEF Agreement, Placed, Working, SettledHasPage, Holding
  <1>3. PaidIsCaptured /\ ReceiptIsDue
    BY DEF PaidIsCaptured, ReceiptIsDue
  <1>4. ASSUME NEW o \in Order PROVE Counted(o)
    BY DEF Counted, WithConsumer, WithHandler
  <1> QED
    BY <1>1, <1>2, <1>3, <1>4 DEF IInv

-----------------------------------------------------------------------------
(* Types *)

\* The order a busy handler works on.
LEMMA HandledOrder ==
    ASSUME TypeOK, Working, NEW h \in Handler, handler[h].pc # "idle"
    PROVE  /\ handler[h].txn \in Txn
           /\ attempt[handler[h].txn] \in [order : Order, success : BOOLEAN]
           /\ attempt[handler[h].txn].order \in Order
  BY DEF TypeOK, Working

LEMMA TypeStep == IInv /\ [Next]_vars => TypeOK'
  <1> SUFFICES ASSUME IInv, [Next]_vars PROVE TypeOK'
    OBVIOUS
  <1> USE SettlementAssumption DEF rows, gateway, receipts
  <1>0. TypeOK /\ Working /\ Holding
    BY DEF IInv
  <1>1. ASSUME NEW o \in Order, PlaceOrder(o) PROVE TypeOK'
    <2>1. UNCHANGED <<attempt, answered, handler, receipts, faults>>
      BY <1>1 DEF PlaceOrder
    <2>2. /\ order' = [order EXCEPT ![o].status = "PENDING"]
          /\ payment' = [payment EXCEPT ![o].status = "PENDING"]
          /\ checkout' = [checkout EXCEPT ![o] = "auth"]
      BY <1>1 DEF PlaceOrder
    <2>3. order' \in [Order -> [status : {"NONE", "PENDING", "PAID", "FAILED"},
                                paidAt : BOOLEAN]]
      BY <1>0, <2>2 DEF TypeOK
    <2>4. payment' \in [Order -> [status : {"NONE", "PENDING", "COMPLETED", "FAILED"},
                                  txn : Txn \cup {NoTxn},
                                  paidAt : BOOLEAN,
                                  webhookReceived : BOOLEAN]]
      BY <1>0, <2>2 DEF TypeOK
    <2>5. checkout' \in [Order -> {"none", "auth", "register", "key", "url", "failed"}]
      BY <1>0, <2>2 DEF TypeOK
    <2> QED
      BY <1>0, <2>1, <2>3, <2>4, <2>5 DEF TypeOK
  <1>2. ASSUME NEW o \in Order, CallPaymob(o) PROVE TypeOK'
    BY <1>0, <1>2 DEF TypeOK, CallPaymob
  <1>3. ASSUME NEW o \in Order, PaymobFails(o) PROVE TypeOK'
    BY <1>0, <1>3 DEF TypeOK, PaymobFails, Fault
  <1>4. ASSUME NEW o \in Order, NEW t \in Txn, NEW s \in BOOLEAN, Pay(o, t, s)
        PROVE  TypeOK'
    BY <1>0, <1>4 DEF TypeOK, Pay
  <1>5. ASSUME NEW h \in Handler, NEW t \in Txn, Receive(h, t) PROVE TypeOK'
    <2>1. UNCHANGED <<rows, gateway, receipts, faults>>
      BY <1>5 DEF Receive
    <2>2. answered' \in SUBSET Txn
      BY <1>0, <1>5 DEF TypeOK, Receive
    <2>3. \/ handler' = handler
          \/ handler' = [handler EXCEPT ![h] = [pc |-> "settle", txn |-> t]]
      BY <1>5 DEF Receive
    <2> QED
      BY <1>0, <2>1, <2>2, <2>3 DEF TypeOK
  <1>6. ASSUME NEW h \in Handler, SettlePaid(h) PROVE TypeOK'
    BY <1>0, <1>6, HandledOrder DEF TypeOK, SettlePaid, MarkPaid
  <1>7. ASSUME NEW h \in Handler, SettleFailed(h) PROVE TypeOK'
    BY <1>0, <1>7, HandledOrder
    DEF TypeOK, SettleFailed, Declined, MarkFailed, IdleHandler
  <1>8. ASSUME NEW h \in Handler, EmitReceipt(h) PROVE TypeOK'
    BY <1>0, <1>8, HandledOrder DEF TypeOK, EmitReceipt, IdleHandler
  <1>9. ASSUME NEW h \in Handler, EmitFails(h) PROVE TypeOK'
    BY <1>0, <1>9, HandledOrder DEF TypeOK, EmitFails, Fault, IdleHandler
  <1>10. ASSUME NEW h \in Handler, HandlerCrash(h) PROVE TypeOK'
    BY <1>0, <1>10 DEF TypeOK, HandlerCrash, Fault, IdleHandler
  <1>11. ASSUME NEW c \in Consumer, NEW o \in Order, Deliver(c, o) PROVE TypeOK'
    BY <1>0, <1>11 DEF TypeOK, Deliver
  <1>12. ASSUME NEW c \in Consumer, ReadOrder(c) PROVE TypeOK'
    BY <1>0, <1>12 DEF TypeOK, Holding, ReadOrder, IdleConsumer
  <1>13. ASSUME NEW c \in Consumer, SendMail(c) PROVE TypeOK'
    BY <1>0, <1>13 DEF TypeOK, Holding, SendMail, IdleConsumer
  <1>14. ASSUME NEW c \in Consumer, ConsumerFails(c) PROVE TypeOK'
    BY <1>0, <1>14 DEF TypeOK, ConsumerFails, Fault, IdleConsumer
  <1>15. CASE BrokerRestart
    BY <1>0, <1>15 DEF TypeOK, BrokerRestart, Fault
  <1>16. CASE UNCHANGED vars
    BY <1>0, <1>16 DEF TypeOK, vars
  <1> QED
    BY <1>1, <1>2, <1>3, <1>4, <1>5, <1>6, <1>7, <1>8, <1>9, <1>10, <1>11,
       <1>12, <1>13, <1>14, <1>15, <1>16 DEF Next

-----------------------------------------------------------------------------
(* The gateway's transactions *)

\* A captured transaction is a transaction.
LEMMA SucceededIsAttempt ==
    ASSUME NEW t \in Txn, NEW o \in Order, Succeeded(t, o)
    PROVE  attempt[t] # NoTxn
  <1>1. [order |-> o, success |-> TRUE] \in [order : Order, success : BOOLEAN]
    OBVIOUS
  <1> QED
    BY <1>1, SettlementAssumption DEF Succeeded

\* What the gateway reported once stays as it is.
LEMMA AttemptsKept ==
    ASSUME TypeOK, [Next]_vars
    PROVE  /\ \A t \in Txn : attempt[t] # NoTxn => attempt'[t] = attempt[t]
           /\ \A o \in Order : Captured(o) => Captured(o)'
  <1> USE SettlementAssumption DEF rows, gateway, receipts
  <1>1. ASSUME NEW o \in Order, NEW t \in Txn, NEW s \in BOOLEAN, Pay(o, t, s)
        PROVE  \A u \in Txn : attempt[u] # NoTxn => attempt'[u] = attempt[u]
    BY <1>1 DEF TypeOK, Pay
  <1>2. ASSUME UNCHANGED attempt
        PROVE  \A u \in Txn : attempt[u] # NoTxn => attempt'[u] = attempt[u]
    BY <1>2
  <1>3. \A t \in Txn : attempt[t] # NoTxn => attempt'[t] = attempt[t]
    BY <1>1, <1>2 DEF Next, vars, PlaceOrder, CallPaymob, PaymobFails, Receive,
       SettlePaid, MarkPaid, SettleFailed, MarkFailed, EmitReceipt, EmitFails,
       HandlerCrash, Deliver, ReadOrder, SendMail, ConsumerFails, BrokerRestart
  <1>4. ASSUME NEW o \in Order, Captured(o) PROVE Captured(o)'
    <2>1. PICK t \in Txn : Succeeded(t, o)
      BY <1>4 DEF Captured
    <2>2. attempt[t] # NoTxn
      BY <1>4, <2>1, SucceededIsAttempt
    <2>3. attempt'[t] = attempt[t]
      BY <1>3, <2>2
    <2> QED
      BY <2>1, <2>3 DEF Captured, Succeeded
  <1> QED
    BY <1>3, <1>4

\* A handler that settles an order as paid works on captured money.
LEMMA SettlesCaptured ==
    ASSUME TypeOK, Working, NEW h \in Handler, handler[h].pc # "idle",
           attempt[handler[h].txn].success
    PROVE  Succeeded(handler[h].txn, attempt[handler[h].txn].order)
  BY HandledOrder DEF Succeeded, TypeOK

-----------------------------------------------------------------------------
(* Orders, payments and the gateway *)

LEMMA AgreementStep == IInv /\ [Next]_vars => Agreement'
  <1> SUFFICES ASSUME IInv, [Next]_vars PROVE Agreement'
    OBVIOUS
  <1> USE SettlementAssumption DEF rows, gateway, receipts
  <1>0. TypeOK /\ Working /\ Agreement /\ Placed
    BY DEF IInv
  <1>1. ASSUME NEW o \in Order, PlaceOrder(o) PROVE Agreement'
    BY <1>0, <1>1 DEF TypeOK, Placed, Agreement, PlaceOrder
  <1>2. ASSUME NEW h \in Handler, SettlePaid(h) PROVE Agreement'
    <2>1. /\ handler[h].txn \in Txn
          /\ attempt[handler[h].txn].order \in Order
      BY <1>0, <1>2, HandledOrder DEF SettlePaid
    <2>2. handler[h].txn # NoTxn
      BY <2>1
    <2> QED
      BY <1>0, <1>2, <2>1, <2>2 DEF TypeOK, Agreement, SettlePaid, MarkPaid
  <1>3. ASSUME NEW h \in Handler, SettleFailed(h) PROVE Agreement'
    BY <1>0, <1>3, HandledOrder
    DEF TypeOK, Agreement, SettleFailed, Declined, MarkFailed
  <1>4. CASE UNCHANGED rows
    BY <1>0, <1>4 DEF Agreement
  <1> QED
    BY <1>1, <1>2, <1>3, <1>4 DEF Next, vars, CallPaymob, PaymobFails, Pay,
       Receive, EmitReceipt, EmitFails, HandlerCrash, Deliver, ReadOrder,
       SendMail, ConsumerFails, BrokerRestart

LEMMA PlacedStep == IInv /\ [Next]_vars => Placed'
  <1> SUFFICES ASSUME IInv, [Next]_vars PROVE Placed'
    OBVIOUS
  <1> USE SettlementAssumption DEF rows, gateway, receipts
  <1>0. TypeOK /\ Working /\ Placed
    BY DEF IInv
  <1>1. ASSUME NEW o \in Order, PlaceOrder(o) PROVE Placed'
    BY <1>0, <1>1 DEF TypeOK, Placed, PlaceOrder
  <1>2. ASSUME NEW o \in Order, CallPaymob(o) PROVE Placed'
    BY <1>0, <1>2 DEF TypeOK, Placed, CallPaymob
  <1>3. ASSUME NEW o \in Order, PaymobFails(o) PROVE Placed'
    BY <1>0, <1>3 DEF TypeOK, Placed, PaymobFails
  <1>4. ASSUME NEW o \in Order, NEW t \in Txn, NEW s \in BOOLEAN, Pay(o, t, s)
        PROVE  Placed'
    BY <1>0, <1>4 DEF TypeOK, Placed, Pay
  <1>5. ASSUME NEW h \in Handler, SettlePaid(h) PROVE Placed'
    BY <1>0, <1>5, HandledOrder DEF TypeOK, Placed, Working, SettlePaid, MarkPaid
  <1>6. ASSUME NEW h \in Handler, SettleFailed(h) PROVE Placed'
    BY <1>0, <1>6, HandledOrder
    DEF TypeOK, Placed, Working, SettleFailed, Declined, MarkFailed
  <1>7. CASE UNCHANGED <<rows, gateway>>
    BY <1>0, <1>7 DEF Placed
  <1> QED
    BY <1>1, <1>2, <1>3, <1>4, <1>5, <1>6, <1>7 DEF Next, vars,
       Receive, EmitReceipt, EmitFails, HandlerCrash, Deliver, ReadOrder,
       SendMail, ConsumerFails, BrokerRestart

LEMMA SettledHasPageStep == IInv /\ [Next]_vars => SettledHasPage'
  <1> SUFFICES ASSUME IInv, [Next]_vars PROVE SettledHasPage'
    OBVIOUS
  <1> USE SettlementAssumption DEF rows, gateway, receipts
  <1>0. TypeOK /\ Working /\ Placed /\ SettledHasPage
    BY DEF IInv
  <1>1. ASSUME NEW o \in Order, PlaceOrder(o) PROVE SettledHasPage'
    BY <1>0, <1>1 DEF TypeOK, Placed, SettledHasPage, PlaceOrder
  <1>2. ASSUME NEW o \in Order, CallPaymob(o) PROVE SettledHasPage'
    BY <1>0, <1>2 DEF TypeOK, SettledHasPage, CallPaymob
  <1>3. ASSUME NEW o \in Order, PaymobFails(o) PROVE SettledHasPage'
    BY <1>0, <1>3 DEF TypeOK, SettledHasPage, PaymobFails
  <1>4. ASSUME NEW h \in Handler, SettlePaid(h) PROVE SettledHasPage'
    BY <1>0, <1>4, HandledOrder
    DEF TypeOK, Placed, Working, SettledHasPage, SettlePaid, MarkPaid
  <1>5. ASSUME NEW h \in Handler, SettleFailed(h) PROVE SettledHasPage'
    BY <1>0, <1>5, HandledOrder
    DEF TypeOK, Placed, Working, SettledHasPage, SettleFailed, Declined, MarkFailed
  <1>6. CASE UNCHANGED <<rows, checkout>>
    BY <1>0, <1>6 DEF SettledHasPage
  <1> QED
    BY <1>1, <1>2, <1>3, <1>4, <1>5, <1>6 DEF Next, vars, Pay,
       Receive, EmitReceipt, EmitFails, HandlerCrash, Deliver, ReadOrder,
       SendMail, ConsumerFails, BrokerRestart

LEMMA PaidIsCapturedStep == IInv /\ [Next]_vars => PaidIsCaptured'
  <1> SUFFICES ASSUME IInv, [Next]_vars PROVE PaidIsCaptured'
    OBVIOUS
  <1> USE SettlementAssumption DEF rows, gateway, receipts
  <1>0. TypeOK /\ Working /\ Agreement /\ PaidIsCaptured
    BY DEF IInv
  <1>1. ASSUME NEW o \in Order, payment'[o].txn # NoTxn
        PROVE  /\ payment'[o].txn \in Txn
               /\ attempt'[payment'[o].txn] = [order |-> o, success |-> TRUE]
    <2>1. CASE payment'[o].txn = payment[o].txn
      <3>1. payment[o].txn \in Txn /\ Succeeded(payment[o].txn, o)
        BY <1>0, <1>1, <2>1 DEF TypeOK, PaidIsCaptured
      <3>2. attempt[payment[o].txn] # NoTxn
        BY <3>1, SucceededIsAttempt
      <3> QED
        BY <1>0, <3>1, <3>2, <2>1, AttemptsKept DEF Succeeded
    <2>2. ASSUME NEW h \in Handler, SettlePaid(h), payment'[o].txn # payment[o].txn
          PROVE  /\ payment'[o].txn = handler[h].txn
                 /\ handler[h].txn \in Txn
                 /\ attempt'[handler[h].txn] = [order |-> o, success |-> TRUE]
      <3>1. /\ handler[h].txn \in Txn
            /\ attempt[handler[h].txn].order \in Order
            /\ Succeeded(handler[h].txn, attempt[handler[h].txn].order)
        BY <1>0, <2>2, SettlesCaptured, HandledOrder DEF SettlePaid
      <3>2. UNCHANGED attempt
        BY <2>2 DEF SettlePaid, MarkPaid
      <3>3. payment'[o].txn = handler[h].txn /\ o = attempt[handler[h].txn].order
        BY <1>0, <2>2, <3>1 DEF TypeOK, SettlePaid, MarkPaid
      <3> QED
        BY <3>1, <3>2, <3>3 DEF Succeeded
    <2>3. ASSUME NEW u \in Order, PlaceOrder(u) PROVE payment'[o].txn = payment[o].txn
      BY <1>0, <2>3 DEF TypeOK, PlaceOrder
    <2>4. ASSUME NEW h \in Handler, SettleFailed(h)
          PROVE  payment'[o].txn = payment[o].txn
      BY <1>0, <2>4 DEF TypeOK, SettleFailed, MarkFailed
    <2> QED
      BY <2>1, <2>2, <2>3, <2>4 DEF Next, vars, CallPaymob, PaymobFails, Pay,
         Receive, EmitReceipt, EmitFails, HandlerCrash, Deliver, ReadOrder,
         SendMail, ConsumerFails, BrokerRestart
  <1>2. ASSUME NEW o \in Order, order'[o].status = "PAID" PROVE Captured(o)'
    <2>1. payment'[o].txn # NoTxn
      BY <1>2, AgreementStep DEF Agreement
    <2> QED
      BY <1>1, <2>1 DEF Captured, Succeeded
  <1> QED
    BY <1>1, <1>2 DEF PaidIsCaptured, Succeeded

-----------------------------------------------------------------------------
(* Handlers, consumers and receipts *)

LEMMA WorkingStep == IInv /\ [Next]_vars => Working'
  <1> SUFFICES ASSUME IInv, [Next]_vars PROVE Working'
    OBVIOUS
  <1> USE SettlementAssumption DEF rows, gateway, receipts
  <1>0. TypeOK /\ Working
    BY DEF IInv
  <1>1. ASSUME UNCHANGED handler PROVE Working'
    BY <1>0, <1>1, AttemptsKept DEF Working
  <1>2. ASSUME NEW h \in Handler, NEW t \in Txn, Receive(h, t) PROVE Working'
    <2>1. \/ handler' = handler
          \/ handler' = [handler EXCEPT ![h] = [pc |-> "settle", txn |-> t]]
      BY <1>2 DEF Receive
    <2>2. UNCHANGED attempt /\ attempt[t] # NoTxn
      BY <1>2 DEF Receive
    <2> QED
      BY <1>0, <2>1, <2>2 DEF TypeOK, Working
  <1>3. ASSUME NEW h \in Handler, SettlePaid(h) PROVE Working'
    BY <1>0, <1>3, HandledOrder DEF TypeOK, Working, SettlePaid, MarkPaid
  <1>4. ASSUME NEW h \in Handler, SettleFailed(h) PROVE Working'
    BY <1>0, <1>4 DEF TypeOK, Working, SettleFailed, MarkFailed, IdleHandler
  <1>5. ASSUME NEW h \in Handler, EmitReceipt(h) PROVE Working'
    BY <1>0, <1>5 DEF TypeOK, Working, EmitReceipt, IdleHandler
  <1>6. ASSUME NEW h \in Handler, EmitFails(h) PROVE Working'
    BY <1>0, <1>6 DEF TypeOK, Working, EmitFails, IdleHandler
  <1>7. ASSUME NEW h \in Handler, HandlerCrash(h) PROVE Working'
    BY <1>0, <1>7 DEF TypeOK, Working, HandlerCrash, IdleHandler
  <1> QED
    BY <1>1, <1>2, <1>3, <1>4, <1>5, <1>6, <1>7 DEF Next, vars, PlaceOrder,
       CallPaymob, PaymobFails, Pay, Deliver, ReadOrder, SendMail,
       ConsumerFails, BrokerRestart

LEMMA HoldingStep == IInv /\ [Next]_vars => Holding'
  <1> SUFFICES ASSUME IInv, [Next]_vars PROVE Holding'
    OBVIOUS
  <1> USE SettlementAssumption DEF rows, gateway, receipts
  <1>0. TypeOK /\ Holding
    BY DEF IInv
  <1>1. CASE UNCHANGED consumer
    BY <1>0, <1>1 DEF Holding
  <1>2. ASSUME NEW c \in Consumer, NEW o \in Order, Deliver(c, o) PROVE Holding'
    BY <1>0, <1>2 DEF TypeOK, Holding, Deliver
  <1>3. ASSUME NEW c \in Consumer, ReadOrder(c) PROVE Holding'
    BY <1>0, <1>3 DEF TypeOK, Holding, ReadOrder, IdleConsumer
  <1>4. ASSUME NEW c \in Consumer, SendMail(c) PROVE Holding'
    BY <1>0, <1>4 DEF TypeOK, Holding, SendMail, IdleConsumer
  <1>5. ASSUME NEW c \in Consumer, ConsumerFails(c) PROVE Holding'
    BY <1>0, <1>5 DEF TypeOK, Holding, ConsumerFails, IdleConsumer
  <1> QED
    BY <1>1, <1>2, <1>3, <1>4, <1>5 DEF Next, vars, PlaceOrder, CallPaymob,
       PaymobFails, Pay, Receive, SettlePaid, MarkPaid, SettleFailed, MarkFailed,
       EmitReceipt, EmitFails, HandlerCrash, BrokerRestart

\* A receipt of o exists somewhere.
HasReceipt(o) ==
    \/ queue[o] > 0
    \/ mails[o] > 0
    \/ \E c \in Consumer : consumer[c].pc # "idle" /\ consumer[c].order = o

\* The only step that makes a receipt of an order is the emission by a handler
\* that settled it; every other step passes on the receipts there are.
LEMMA ReceiptOrigin ==
    ASSUME IInv, [Next]_vars, NEW o \in Order, HasReceipt(o)'
    PROVE  HasReceipt(o) \/ Captured(o)
  <1> USE SettlementAssumption DEF rows, gateway, receipts
  <1>0. TypeOK /\ Working /\ Holding
    BY DEF IInv
  <1>1. CASE UNCHANGED <<queue, consumer, mails>>
    BY <1>1 DEF HasReceipt
  <1>2. ASSUME NEW h \in Handler, EmitReceipt(h)
        PROVE  HasReceipt(o) \/ Captured(o)
    <2>1. Succeeded(handler[h].txn, attempt[handler[h].txn].order)
          /\ handler[h].txn \in Txn
      BY <1>0, <1>2, SettlesCaptured, HandledOrder DEF EmitReceipt, Working
    <2>2. CASE o = attempt[handler[h].txn].order
      BY <2>1, <2>2 DEF Captured
    <2>3. CASE o # attempt[handler[h].txn].order
      <3>1. queue'[o] = queue[o] /\ UNCHANGED <<consumer, mails>>
        BY <1>0, <1>2, <2>3 DEF TypeOK, EmitReceipt
      <3> QED
        BY <3>1 DEF HasReceipt
    <2> QED
      BY <2>2, <2>3
  <1>3. ASSUME NEW c \in Consumer, NEW u \in Order, Deliver(c, u)
        PROVE  HasReceipt(o)
    BY <1>0, <1>3 DEF TypeOK, HasReceipt, Deliver
  <1>4. ASSUME NEW c \in Consumer, ReadOrder(c) PROVE HasReceipt(o)
    BY <1>0, <1>4 DEF TypeOK, HasReceipt, ReadOrder, IdleConsumer
  <1>5. ASSUME NEW c \in Consumer, SendMail(c) PROVE HasReceipt(o)
    BY <1>0, <1>5 DEF TypeOK, Holding, HasReceipt, SendMail, IdleConsumer
  <1>6. ASSUME NEW c \in Consumer, ConsumerFails(c) PROVE HasReceipt(o)
    BY <1>0, <1>6 DEF TypeOK, HasReceipt, ConsumerFails, IdleConsumer
  <1>7. CASE BrokerRestart
    BY <1>0, <1>7 DEF TypeOK, HasReceipt, BrokerRestart
  <1> QED
    BY <1>1, <1>2, <1>3, <1>4, <1>5, <1>6, <1>7 DEF Next, vars, PlaceOrder,
       CallPaymob, PaymobFails, Pay, Receive, SettlePaid, MarkPaid,
       SettleFailed, MarkFailed, EmitFails, HandlerCrash

LEMMA ReceiptIsDueStep == IInv /\ [Next]_vars => ReceiptIsDue'
  <1> SUFFICES ASSUME IInv, [Next]_vars, NEW o \in Order, HasReceipt(o)'
               PROVE  Captured(o)'
    BY DEF ReceiptIsDue, HasReceipt
  <1>1. TypeOK /\ ReceiptIsDue
    BY DEF IInv
  <1>2. Captured(o)
    BY <1>1, ReceiptOrigin DEF ReceiptIsDue, HasReceipt
  <1> QED
    BY <1>1, <1>2, AttemptsKept

-----------------------------------------------------------------------------
(* How many receipts there are *)

\* A part of a finite set, with and without an element.
LEMMA Parts ==
    ASSUME NEW S, IsFiniteSet(S), NEW T \in SUBSET S
    PROVE  /\ Cardinality(S) \in Nat
           /\ Cardinality(T) \in Nat
           /\ Cardinality(T) <= Cardinality(S)
           /\ \A x : /\ Cardinality(T \ {x}) =
                          IF x \in T THEN Cardinality(T) - 1 ELSE Cardinality(T)
                     /\ Cardinality(T \cup {x}) =
                          IF x \in T THEN Cardinality(T) ELSE Cardinality(T) + 1
  BY FS_CardinalityType, FS_Subset, FS_AddElement, FS_RemoveElement

LEMMA HandlerParts ==
    ASSUME NEW T \in SUBSET Handler
    PROVE  /\ Cardinality(Handler) \in Nat
           /\ Cardinality(T) \in Nat
           /\ Cardinality(T) <= Cardinality(Handler)
           /\ \A x : Cardinality(T \ {x}) =
                       IF x \in T THEN Cardinality(T) - 1 ELSE Cardinality(T)
  BY Parts, SettlementAssumption

\* Removing an element, or adding one, from a set of handlers or consumers.
LEMMA HandlerWithout ==
    ASSUME NEW T \in SUBSET Handler, NEW x, NEW U, U = T \ {x}
    PROVE  Cardinality(U) = IF x \in T THEN Cardinality(T) - 1 ELSE Cardinality(T)
  BY HandlerParts

LEMMA ConsumerParts ==
    ASSUME NEW T \in SUBSET Consumer
    PROVE  /\ Cardinality(T) \in Nat
           /\ \A x : /\ Cardinality(T \ {x}) =
                          IF x \in T THEN Cardinality(T) - 1 ELSE Cardinality(T)
                     /\ Cardinality(T \cup {x}) =
                          IF x \in T THEN Cardinality(T) ELSE Cardinality(T) + 1
  BY Parts, SettlementAssumption

LEMMA ConsumerWithout ==
    ASSUME NEW T \in SUBSET Consumer, NEW x, NEW U, U = T \ {x}
    PROVE  Cardinality(U) = IF x \in T THEN Cardinality(T) - 1 ELSE Cardinality(T)
  BY ConsumerParts

\* A request that ends leaves its order to the others.
LEMMA HandlerLeaves ==
    ASSUME TypeOK, NEW h \in Handler, NEW o \in Order, UNCHANGED attempt,
           handler' = [handler EXCEPT ![h] = IdleHandler]
    PROVE  /\ WithHandler(o)' = WithHandler(o) \ {h}
           /\ \A g \in WithHandler(o)' : handler'[g] = handler[g]
  BY DEF TypeOK, WithHandler, IdleHandler

\* A job that a consumer is done with is in its hands no more.
LEMMA ConsumerLeaves ==
    ASSUME TypeOK, NEW c \in Consumer, NEW o \in Order,
           consumer' = [consumer EXCEPT ![c] = IdleConsumer]
    PROVE  WithConsumer(o)' = WithConsumer(o) \ {c}
  BY DEF TypeOK, WithConsumer, IdleConsumer

\* The receipts stay, and no new request takes up the order.
LEMMA CountedByHandler ==
    ASSUME TypeOK, NEW o \in Order, Counted(o), UNCHANGED <<rows, receipts>>,
           WithHandler(o)' \subseteq WithHandler(o),
           \A g \in WithHandler(o)' : handler'[g] = handler[g]
    PROVE  Counted(o)'
  <1> DEFINE W == WithHandler(o)
  <1>1. /\ W \in SUBSET Handler
        /\ W' \in SUBSET W
      BY DEF WithHandler
  <1>2. /\ Cardinality(W) \in Nat /\ Cardinality(W') \in Nat
        /\ Cardinality(W') <= Cardinality(W)
        /\ Cardinality(Handler) \in Nat
    <2>1. IsFiniteSet(W)
      BY <1>1, FS_Subset, SettlementAssumption
    <2> QED
      BY <1>1, <2>1, Parts, HandlerParts
  <1>3. UNCHANGED <<payment, queue, mails, WithConsumer(o)>>
    BY DEF rows, receipts, WithConsumer
  <1>4. WithConsumer(o) \in SUBSET Consumer
    BY DEF WithConsumer
  <1>5. queue[o] \in Nat /\ mails[o] \in Nat /\ Cardinality(WithConsumer(o)) \in Nat
    BY <1>4, ConsumerParts DEF TypeOK
  <1>6. CASE payment[o].webhookReceived
    BY <1>2, <1>3, <1>5, <1>6 DEF Counted
  <1>7. CASE ~payment[o].webhookReceived
    BY <1>1, <1>3, <1>7 DEF Counted
  <1> QED
    BY <1>6, <1>7

\* The requests stay, and there are no more receipts than before.
LEMMA CountedByReceipts ==
    ASSUME TypeOK, NEW o \in Order, Counted(o),
           UNCHANGED <<payment, handler, attempt>>,
           queue'[o] \in Nat, mails'[o] \in Nat,
           payment[o].webhookReceived =>
             queue'[o] + Cardinality(WithConsumer(o)') + mails'[o]
               <= queue[o] + Cardinality(WithConsumer(o)) + mails[o],
           ~payment[o].webhookReceived =>
             queue'[o] = 0 /\ WithConsumer(o)' = {} /\ mails'[o] = 0
    PROVE  Counted(o)'
  <1>1. UNCHANGED WithHandler(o)
    BY DEF WithHandler
  <1>2. /\ WithHandler(o) \in SUBSET Handler
        /\ WithConsumer(o) \in SUBSET Consumer
        /\ WithConsumer(o)' \in SUBSET Consumer
    BY DEF WithHandler, WithConsumer
  <1>3. /\ Cardinality(WithHandler(o)) \in Nat
        /\ Cardinality(Handler) \in Nat
        /\ Cardinality(WithConsumer(o)) \in Nat
        /\ Cardinality(WithConsumer(o)') \in Nat
        /\ queue[o] \in Nat /\ mails[o] \in Nat
    BY <1>2, HandlerParts, ConsumerParts DEF TypeOK
  <1>4. CASE payment[o].webhookReceived
    BY <1>1, <1>3, <1>4 DEF Counted
  <1>5. CASE ~payment[o].webhookReceived
    BY <1>1, <1>5 DEF Counted
  <1> QED
    BY <1>4, <1>5

\* The jobs in hand are numbers, before a step and after it.
LEMMA ConsumerCount ==
    ASSUME NEW o \in Order
    PROVE  /\ Cardinality(WithConsumer(o)) \in Nat
           /\ Cardinality(WithConsumer(o)') \in Nat
  <1>1. WithConsumer(o) \in SUBSET Consumer /\ WithConsumer(o)' \in SUBSET Consumer
    BY DEF WithConsumer
  <1> QED
    BY <1>1, ConsumerParts

\* A consumer drops its job.
LEMMA ConsumerEnds ==
    ASSUME TypeOK, NEW o \in Order, Counted(o), NEW c \in Consumer,
           consumer' = [consumer EXCEPT ![c] = IdleConsumer],
           UNCHANGED <<rows, gateway, handler, queue, mails>>
    PROVE  Counted(o)'
  <1> USE DEF rows, gateway
  <1>1. WithConsumer(o)' = WithConsumer(o) \ {c}
    BY ConsumerLeaves
  <1>2. WithConsumer(o) \in SUBSET Consumer
    BY DEF WithConsumer
  <1>3. queue[o] \in Nat /\ mails[o] \in Nat
    BY DEF TypeOK
  <1>4. /\ Cardinality(WithConsumer(o)') <= Cardinality(WithConsumer(o))
        /\ Cardinality(WithConsumer(o)) \in Nat
        /\ Cardinality(WithConsumer(o)') \in Nat
    <2>1. Cardinality(WithConsumer(o)') =
            IF c \in WithConsumer(o) THEN Cardinality(WithConsumer(o)) - 1
                                     ELSE Cardinality(WithConsumer(o))
      BY <1>1, <1>2, ConsumerWithout
    <2> QED
      BY <2>1, ConsumerCount
  <1>5. ~payment[o].webhookReceived =>
          queue'[o] = 0 /\ WithConsumer(o)' = {} /\ mails'[o] = 0
    BY <1>1 DEF Counted
  <1>6. payment[o].webhookReceived =>
          queue'[o] + Cardinality(WithConsumer(o)') + mails'[o]
            <= queue[o] + Cardinality(WithConsumer(o)) + mails[o]
    BY <1>3, <1>4
  <1> QED
    BY <1>3, <1>5, <1>6, CountedByReceipts

LEMMA CountedStep == IInv /\ [Next]_vars => \A o \in Order : Counted(o)'
  <1> SUFFICES ASSUME IInv, [Next]_vars, NEW o \in Order PROVE Counted(o)'
    OBVIOUS
  <1> USE DEF rows, gateway, receipts
  <1>0. TypeOK /\ Working /\ Holding /\ Counted(o)
    BY DEF IInv
  <1>1. CASE UNCHANGED <<handler, receipts>> /\ payment'[o].webhookReceived = payment[o].webhookReceived
    <2>1. UNCHANGED <<WithHandler(o), WithConsumer(o)>>
      BY <1>0, <1>1, AttemptsKept DEF WithHandler, WithConsumer, Working
    <2> QED
      BY <1>0, <1>1, <2>1 DEF Counted
  <1>2. ASSUME NEW u \in Order, PlaceOrder(u)
        PROVE  /\ UNCHANGED <<handler, receipts>>
               /\ payment'[o].webhookReceived = payment[o].webhookReceived
    BY <1>0, <1>2 DEF PlaceOrder, TypeOK
  <1>3. ASSUME NEW h \in Handler, NEW t \in Txn, Receive(h, t) PROVE Counted(o)'
    <2>1. CASE UNCHANGED handler
      BY <1>1, <1>3, <2>1 DEF Receive
    <2>2. CASE handler' # handler
      <3>1. /\ handler' = [handler EXCEPT ![h] = [pc |-> "settle", txn |-> t]]
            /\ ~payment[attempt[t].order].webhookReceived
            /\ handler[h].pc = "idle"
            /\ UNCHANGED <<rows, gateway, receipts>>
        BY <1>3, <2>2 DEF Receive
      <3>2. \A g \in Handler : g # h => handler'[g] = handler[g]
        BY <3>1, <1>0 DEF TypeOK
      <3>3. handler'[h] = [pc |-> "settle", txn |-> t]
        BY <3>1, <1>0 DEF TypeOK
      <3>4. CASE attempt[t].order = o
        <4>1. \A g \in WithHandler(o)' : handler'[g].pc = "settle"
          BY <1>0, <3>1, <3>2, <3>3, <3>4 DEF WithHandler, Counted
        <4>2. UNCHANGED WithConsumer(o)
          BY <3>1 DEF WithConsumer
        <4> QED
          BY <1>0, <3>1, <3>4, <4>1, <4>2 DEF Counted
      <3>5. CASE attempt[t].order # o
        <4>1. /\ WithHandler(o)' \subseteq WithHandler(o)
              /\ \A g \in WithHandler(o)' : handler'[g] = handler[g]
          BY <3>1, <3>2, <3>3, <3>5 DEF WithHandler
        <4> QED
          BY <1>0, <3>1, <4>1, CountedByHandler
      <3> QED
        BY <3>4, <3>5
    <2> QED
      BY <2>1, <2>2
  <1>4. ASSUME NEW h \in Handler, SettlePaid(h) PROVE Counted(o)'
    <2> DEFINE u == attempt[handler[h].txn].order
    <2>1. /\ handler[h].txn \in Txn /\ u \in Order
          /\ handler[h].pc = "settle"
          /\ handler' = [handler EXCEPT ![h] = [pc |-> "emit", txn |-> handler[h].txn]]
          /\ payment'[o].webhookReceived = (payment[o].webhookReceived \/ o = u)
          /\ o # u => payment'[o] = payment[o]
          /\ UNCHANGED <<attempt, receipts>>
      BY <1>0, <1>4, HandledOrder DEF SettlePaid, MarkPaid, TypeOK
    <2>2. UNCHANGED <<WithHandler(o), WithConsumer(o)>>
      BY <1>0, <2>1 DEF WithHandler, WithConsumer, TypeOK
    <2>3. CASE o = u /\ ~payment[o].webhookReceived
      <3>1. WithHandler(o) \in SUBSET Handler
        BY DEF WithHandler
      <3>2. WithConsumer(o)' = {} /\ Cardinality(WithConsumer(o)') = 0
        BY <1>0, <2>2, <2>3, FS_EmptySet DEF Counted
      <3>3. queue'[o] = 0 /\ mails'[o] = 0 /\ payment'[o].webhookReceived
        BY <1>0, <2>1, <2>3 DEF Counted
      <3>4. /\ Cardinality(WithHandler(o)') <= Cardinality(Handler)
            /\ Cardinality(WithHandler(o)') \in Nat
            /\ Cardinality(Handler) \in Nat
        BY <2>2, <3>1, HandlerParts
      <3>5. queue'[o] + Cardinality(WithConsumer(o)') + mails'[o]
              + Cardinality(WithHandler(o)') <= Cardinality(Handler)
        BY <3>2, <3>3, <3>4
      <3> QED
        BY <3>3, <3>5 DEF Counted
    <2>4. CASE o = u /\ payment[o].webhookReceived
      BY <1>0, <2>1, <2>2, <2>4 DEF Counted
    <2>5. CASE o # u
      <3>1. \A g \in WithHandler(o) : g # h
        BY <2>5 DEF WithHandler
      <3>2. \A g \in WithHandler(o) : handler'[g] = handler[g]
        BY <1>0, <2>1, <3>1 DEF WithHandler, TypeOK
      <3> QED
        BY <1>0, <2>1, <2>2, <2>5, <3>2 DEF Counted
    <2> QED
      BY <2>3, <2>4, <2>5
  <1>5. ASSUME NEW h \in Handler, SettleFailed(h) PROVE Counted(o)'
    <2> DEFINE u == attempt[handler[h].txn].order
    <2>1. /\ handler[h].txn \in Txn /\ u \in Order
          /\ handler[h].pc = "settle"
          /\ handler' = [handler EXCEPT ![h] = IdleHandler]
          /\ payment'[o].webhookReceived = (payment[o].webhookReceived \/ o = u)
          /\ o # u => payment'[o] = payment[o]
          /\ UNCHANGED <<attempt, receipts>>
      BY <1>0, <1>5, HandledOrder DEF SettleFailed, Declined, MarkFailed, TypeOK
    <2>2. /\ WithHandler(o)' = WithHandler(o) \ {h}
          /\ \A g \in WithHandler(o)' : handler'[g] = handler[g]
          /\ UNCHANGED WithConsumer(o)
      BY <1>0, <2>1, HandlerLeaves DEF WithConsumer
    <2>3. /\ WithHandler(o) \in SUBSET Handler
          /\ WithHandler(o)' \in SUBSET Handler
          /\ WithConsumer(o) \in SUBSET Consumer
      BY DEF WithHandler, WithConsumer
    <2>4. CASE o = u /\ ~payment[o].webhookReceived
      <3>1. WithConsumer(o)' = {} /\ Cardinality(WithConsumer(o)') = 0
        BY <1>0, <2>2, <2>4, FS_EmptySet DEF Counted
      <3>2. queue'[o] = 0 /\ mails'[o] = 0
        BY <1>0, <2>1, <2>4 DEF Counted
      <3>3. /\ Cardinality(WithHandler(o)') <= Cardinality(Handler)
            /\ Cardinality(WithHandler(o)') \in Nat
            /\ Cardinality(Handler) \in Nat
        BY <2>3, HandlerParts
      <3>4. payment'[o].webhookReceived
        BY <2>1, <2>4
      <3>5. queue'[o] + Cardinality(WithConsumer(o)') + mails'[o]
              + Cardinality(WithHandler(o)') <= Cardinality(Handler)
        BY <3>1, <3>2, <3>3
      <3> QED
        BY <3>4, <3>5 DEF Counted
    <2>5. CASE o = u /\ payment[o].webhookReceived
      <3>1. /\ Cardinality(WithHandler(o)') <= Cardinality(WithHandler(o))
            /\ Cardinality(WithHandler(o)) \in Nat
            /\ Cardinality(WithHandler(o)') \in Nat
            /\ Cardinality(Handler) \in Nat
        <4>1. Cardinality(WithHandler(o)') =
                IF h \in WithHandler(o) THEN Cardinality(WithHandler(o)) - 1
                                        ELSE Cardinality(WithHandler(o))
          BY <2>2, <2>3, HandlerWithout
        <4> QED
          BY <2>3, <4>1, HandlerParts
      <3>2. queue[o] \in Nat /\ mails[o] \in Nat /\ Cardinality(WithConsumer(o)) \in Nat
        BY <1>0, <2>3, ConsumerParts DEF TypeOK
      <3>3. queue[o] + Cardinality(WithConsumer(o)) + mails[o]
              + Cardinality(WithHandler(o)) <= Cardinality(Handler)
        BY <1>0, <2>5 DEF Counted
      <3>4. queue[o] + Cardinality(WithConsumer(o)) + mails[o]
              + Cardinality(WithHandler(o)') <= Cardinality(Handler)
        BY <3>1, <3>2, <3>3
      <3>5. payment'[o].webhookReceived /\ queue'[o] = queue[o] /\ mails'[o] = mails[o]
        BY <2>1, <2>5
      <3> QED
        BY <2>2, <3>4, <3>5 DEF Counted
    <2>6. CASE o # u
      <3>1. WithHandler(o)' = WithHandler(o)
        BY <2>2, <2>6 DEF WithHandler
      <3> QED
        BY <1>0, <2>1, <2>2, <2>6, <3>1 DEF Counted
    <2> QED
      BY <2>4, <2>5, <2>6
  <1>6. ASSUME NEW h \in Handler, EmitReceipt(h) PROVE Counted(o)'
    <2> DEFINE u == attempt[handler[h].txn].order
    <2>1. /\ u \in Order
          /\ handler[h].pc = "emit"
          /\ handler' = [handler EXCEPT ![h] = IdleHandler]
          /\ queue' = [queue EXCEPT ![u] = @ + 1]
          /\ UNCHANGED <<rows, attempt, consumer, mails>>
      BY <1>0, <1>6, HandledOrder DEF EmitReceipt
    <2>2. /\ WithHandler(o)' = WithHandler(o) \ {h}
          /\ \A g \in WithHandler(o)' : handler'[g] = handler[g]
          /\ UNCHANGED WithConsumer(o)
      BY <1>0, <2>1, HandlerLeaves DEF WithConsumer
    <2>3. CASE o # u
      <3>1. queue'[o] = queue[o] /\ WithHandler(o)' = WithHandler(o)
        BY <1>0, <2>1, <2>2, <2>3 DEF TypeOK, WithHandler
      <3> QED
        BY <1>0, <2>1, <2>2, <3>1 DEF Counted
    <2>4. CASE o = u
      <3>1. h \in WithHandler(o) /\ WithHandler(o) \in SUBSET Handler
            /\ WithConsumer(o) \in SUBSET Consumer
        BY <2>1, <2>4 DEF WithHandler, WithConsumer
      <3>2. payment[o].webhookReceived
        BY <1>0, <2>1, <3>1 DEF Counted
      <3>3. /\ Cardinality(WithHandler(o)') = Cardinality(WithHandler(o)) - 1
            /\ Cardinality(WithHandler(o)) \in Nat
            /\ Cardinality(Handler) \in Nat
            /\ queue'[o] = queue[o] + 1
            /\ queue[o] \in Nat /\ mails[o] \in Nat
            /\ Cardinality(WithConsumer(o)) \in Nat
        BY <1>0, <2>1, <2>2, <2>4, <3>1, HandlerParts, ConsumerParts DEF TypeOK
      <3> QED
        BY <1>0, <2>1, <2>2, <3>2, <3>3 DEF Counted
    <2> QED
      BY <2>3, <2>4
  <1>7. ASSUME NEW h \in Handler, EmitFails(h) \/ HandlerCrash(h) PROVE Counted(o)'
    <2>1. /\ handler' = [handler EXCEPT ![h] = IdleHandler]
          /\ UNCHANGED <<rows, gateway, receipts>>
      BY <1>7 DEF EmitFails, HandlerCrash
    <2>2. /\ WithHandler(o)' = WithHandler(o) \ {h}
          /\ \A g \in WithHandler(o)' : handler'[g] = handler[g]
      BY <1>0, <2>1, HandlerLeaves
    <2> QED
      BY <1>0, <2>1, <2>2, CountedByHandler
  <1>8. ASSUME NEW c \in Consumer, NEW u \in Order, Deliver(c, u) PROVE Counted(o)'
    <2>1. /\ consumer[c].pc = "idle"
          /\ queue[u] > 0
          /\ queue' = [queue EXCEPT ![u] = @ - 1]
          /\ consumer' = [consumer EXCEPT ![c] = [pc |-> "read", order |-> u]]
          /\ UNCHANGED <<rows, gateway, handler, mails>>
      BY <1>8 DEF Deliver
    <2>2. c \notin WithConsumer(o) /\ WithConsumer(o) \in SUBSET Consumer
      BY <2>1 DEF WithConsumer
    <2>3. WithConsumer(o)' = IF o = u THEN WithConsumer(o) \cup {c} ELSE WithConsumer(o)
      BY <1>0, <2>1 DEF WithConsumer, TypeOK
    <2>4. queue'[o] = IF o = u THEN queue[o] - 1 ELSE queue[o]
      BY <1>0, <2>1 DEF TypeOK
    <2>5. queue[o] \in Nat /\ mails[o] \in Nat /\ Cardinality(WithConsumer(o)) \in Nat
      BY <1>0, <2>2, ConsumerParts DEF TypeOK
    <2>6. Cardinality(WithConsumer(o) \cup {c}) = Cardinality(WithConsumer(o)) + 1
      BY <2>2, ConsumerParts
    <2>7. /\ queue'[o] \in Nat
          /\ queue'[o] + Cardinality(WithConsumer(o)')
               = queue[o] + Cardinality(WithConsumer(o))
      BY <2>1, <2>3, <2>4, <2>5, <2>6
    <2>8. ~payment[o].webhookReceived => o # u
      BY <1>0, <2>1, <2>5 DEF Counted
    <2>9. ~payment[o].webhookReceived => queue'[o] = 0 /\ WithConsumer(o)' = {} /\ mails'[o] = 0
      BY <1>0, <2>1, <2>3, <2>4, <2>8 DEF Counted
    <2> QED
      BY <1>0, <2>1, <2>5, <2>7, <2>9, ConsumerCount, CountedByReceipts
  <1>9. ASSUME NEW c \in Consumer, ReadOrder(c) PROVE Counted(o)'
    <2>1. /\ consumer[c].pc = "read"
          /\ \/ consumer' = [consumer EXCEPT ![c] = IdleConsumer]
             \/ consumer' = [consumer EXCEPT ![c] = [pc |-> "send", order |-> consumer[c].order]]
          /\ UNCHANGED <<rows, gateway, handler, queue, mails>>
      BY <1>9 DEF ReadOrder
    <2>2. CASE consumer' = [consumer EXCEPT ![c] = IdleConsumer]
      BY <1>0, <2>1, <2>2, ConsumerEnds
    <2>3. CASE consumer' = [consumer EXCEPT ![c] = [pc |-> "send", order |-> consumer[c].order]]
      <3>1. WithConsumer(o)' = WithConsumer(o)
        BY <1>0, <2>1, <2>3 DEF WithConsumer, TypeOK
      <3>2. WithHandler(o)' = WithHandler(o)
        BY <2>1 DEF WithHandler
      <3> QED
        BY <1>0, <2>1, <3>1, <3>2 DEF Counted
    <2> QED
      BY <2>1, <2>2, <2>3
  <1>10. ASSUME NEW c \in Consumer, SendMail(c) PROVE Counted(o)'
    <2> DEFINE u == consumer[c].order
    <2>1. /\ consumer[c].pc = "send" /\ u \in Order
          /\ consumer' = [consumer EXCEPT ![c] = IdleConsumer]
          /\ mails' = [mails EXCEPT ![u] = @ + 1]
          /\ UNCHANGED <<rows, gateway, handler, queue>>
      BY <1>0, <1>10 DEF SendMail, Holding
    <2>2. WithConsumer(o)' = WithConsumer(o) \ {c}
      BY <1>0, <2>1, ConsumerLeaves
    <2>3. (c \in WithConsumer(o) <=> o = u) /\ WithConsumer(o) \in SUBSET Consumer
      BY <2>1 DEF WithConsumer
    <2>4. mails'[o] = IF o = u THEN mails[o] + 1 ELSE mails[o]
      BY <1>0, <2>1 DEF TypeOK
    <2>5. queue[o] \in Nat /\ mails[o] \in Nat /\ Cardinality(WithConsumer(o)) \in Nat
      BY <1>0, <2>3, ConsumerParts DEF TypeOK
    <2>6. Cardinality(WithConsumer(o)') =
            IF o = u THEN Cardinality(WithConsumer(o)) - 1 ELSE Cardinality(WithConsumer(o))
      <3>1. Cardinality(WithConsumer(o)') =
              IF c \in WithConsumer(o) THEN Cardinality(WithConsumer(o)) - 1
                                       ELSE Cardinality(WithConsumer(o))
        BY <2>2, <2>3, ConsumerWithout
      <3> QED
        BY <2>3, <3>1
    <2>7. /\ mails'[o] \in Nat
          /\ Cardinality(WithConsumer(o)') + mails'[o]
               = Cardinality(WithConsumer(o)) + mails[o]
      BY <2>4, <2>5, <2>6
    <2>8. ~payment[o].webhookReceived => queue'[o] = 0 /\ WithConsumer(o)' = {} /\ mails'[o] = 0
      BY <1>0, <2>1, <2>2, <2>3, <2>4 DEF Counted
    <2> QED
      BY <1>0, <2>1, <2>5, <2>7, <2>8, ConsumerCount, CountedByReceipts
  <1>11. ASSUME NEW c \in Consumer, ConsumerFails(c) PROVE Counted(o)'
    BY <1>0, <1>11, ConsumerEnds DEF ConsumerFails
  <1>12. CASE BrokerRestart
    <2>1. /\ queue'[o] = 0
          /\ UNCHANGED <<rows, gateway, handler, consumer, mails, WithConsumer(o)>>
      BY <1>12 DEF BrokerRestart, WithConsumer
    <2>2. queue[o] \in Nat /\ mails[o] \in Nat
      BY <1>0 DEF TypeOK
    <2>3. ~payment[o].webhookReceived => queue'[o] = 0 /\ WithConsumer(o)' = {} /\ mails'[o] = 0
      BY <1>0, <2>1 DEF Counted
    <2> QED
      BY <1>0, <2>1, <2>2, <2>3, ConsumerCount, CountedByReceipts
  <1>13. ASSUME NEW u \in Order,
                \/ CallPaymob(u)
                \/ PaymobFails(u)
                \/ \E t \in Txn, s \in BOOLEAN : Pay(u, t, s)
         PROVE  Counted(o)'
    BY <1>1, <1>13 DEF CallPaymob, PaymobFails, Pay
  <1>14. CASE UNCHANGED vars
    BY <1>1, <1>14 DEF vars
  <1> QED
    BY <1>1, <1>2, <1>3, <1>4, <1>5, <1>6, <1>7, <1>8, <1>9, <1>10, <1>11,
       <1>12, <1>13, <1>14 DEF Next

-----------------------------------------------------------------------------
(* The theorems *)

LEMMA IInvStep == IInv /\ [Next]_vars => IInv'
  BY TypeStep, AgreementStep, PlacedStep, WorkingStep, SettledHasPageStep,
     HoldingStep, PaidIsCapturedStep, ReceiptIsDueStep, CountedStep DEF IInv

\* The invariant of the payment pipeline: everything below follows from it.
THEOREM Invariance == Spec => []IInv
  BY InitIInv, IInvStep, PTL DEF Spec

\* Every value stays in its type: the rows, the requests and the jobs.
THEOREM TypeCorrect == Spec => []TypeOK
  <1>1. IInv => TypeOK
    BY DEF IInv
  <1> QED
    BY <1>1, Invariance, PTL

\* The order row, the payment row and webhookReceived agree in every state,
\* for any number of racing webhook requests and any faults.
THEOREM RowsAgree == Spec => []Agreement
  <1>1. IInv => Agreement
    BY DEF IInv
  <1> QED
    BY <1>1, Invariance, PTL

\* No order is PAID, and no payment has a transaction id, without money the
\* gateway captured for that very order.
THEOREM NoPaymentWithoutMoney == Spec => []PaidIsCaptured
  <1>1. IInv => PaidIsCaptured
    BY DEF IInv
  <1> QED
    BY <1>1, Invariance, PTL

\* No receipt without captured money.
THEOREM NoReceiptWithoutMoney == Spec => []ReceiptIsDue
  <1>1. IInv => ReceiptIsDue
    BY DEF IInv
  <1> QED
    BY <1>1, Invariance, PTL

\* However often and in whatever order the gateway repeats its reports, an order
\* has no more receipts than requests that could race for its settlement.
THEOREM ReceiptsLimited == Spec => []ReceiptsBounded
  <1>1. IInv => ReceiptsBounded
    <2> SUFFICES ASSUME IInv, NEW o \in Order
        PROVE  queue[o] + Cardinality(WithConsumer(o)) + mails[o]
                 <= Cardinality(Handler)
      BY DEF ReceiptsBounded
    <2>1. /\ WithHandler(o) \in SUBSET Handler
          /\ WithConsumer(o) \in SUBSET Consumer
      BY DEF WithHandler, WithConsumer
    <2>2. /\ Cardinality(WithHandler(o)) \in Nat
          /\ Cardinality(Handler) \in Nat
          /\ Cardinality(WithConsumer(o)) \in Nat
          /\ queue[o] \in Nat
          /\ mails[o] \in Nat
      BY <2>1, HandlerParts, ConsumerParts DEF IInv, TypeOK
    <2>3. CASE payment[o].webhookReceived
      BY <2>2, <2>3 DEF IInv, Counted
    <2>4. CASE ~payment[o].webhookReceived
      <3>1. Cardinality(WithConsumer(o)) = 0
        BY <2>4, FS_EmptySet DEF IInv, Counted
      <3> QED
        BY <2>2, <2>4, <3>1 DEF IInv, Counted
    <2> QED
      BY <2>3, <2>4
  <1> QED
    BY <1>1, Invariance, PTL

\* An order without a payment page stays PENDING.
THEOREM StrandedOrders == Spec => []StrandedStaysPending
  <1>1. IInv => StrandedStaysPending
    BY DEF IInv, TypeOK, Placed, SettledHasPage, StrandedStaysPending
  <1> QED
    BY <1>1, Invariance, PTL

-----------------------------------------------------------------------------
(* What a step may never do *)

Kept(o) ==
    payment[o].webhookReceived =>
        /\ payment'[o].webhookReceived
        /\ order'[o].status \in {"PAID", "FAILED"}
        /\ payment[o].txn # NoTxn => payment'[o].txn # NoTxn

LEMMA KeptStep ==
    ASSUME IInv, [Next]_vars, NEW o \in Order
    PROVE  Kept(o)
  <1> USE SettlementAssumption DEF rows, gateway, receipts
  <1>0. TypeOK /\ Working /\ Agreement /\ Placed
    BY DEF IInv
  <1>1. CASE UNCHANGED rows
    BY <1>0, <1>1 DEF Agreement, Kept
  <1>2. ASSUME NEW u \in Order, PlaceOrder(u) PROVE Kept(o)
    BY <1>0, <1>2 DEF TypeOK, Agreement, Placed, PlaceOrder, Kept
  <1>3. ASSUME NEW h \in Handler, SettlePaid(h) PROVE Kept(o)
    <2>1. /\ handler[h].txn \in Txn
          /\ attempt[handler[h].txn].order \in Order
      BY <1>0, <1>3, HandledOrder DEF SettlePaid
    <2>2. handler[h].txn # NoTxn
      BY <2>1
    <2> QED
      BY <1>0, <1>3, <2>1, <2>2 DEF TypeOK, Agreement, SettlePaid, MarkPaid, Kept
  <1>4. ASSUME NEW h \in Handler, SettleFailed(h) PROVE Kept(o)
    BY <1>0, <1>4, HandledOrder
    DEF TypeOK, Agreement, SettleFailed, Declined, MarkFailed, Kept
  <1> QED
    BY <1>1, <1>2, <1>3, <1>4 DEF Next, vars, CallPaymob, PaymobFails, Pay,
       Receive, EmitReceipt, EmitFails, HandlerCrash, Deliver, ReadOrder,
       SendMail, ConsumerFails, BrokerRestart

\* A settled order never becomes pending again and its webhook is never
\* forgotten, however reports are repeated and raced.
THEOREM SettledStaysSettled == Spec => SettledForever
  <1>1. IInv /\ [Next]_vars =>
          [\A o \in Order : payment[o].webhookReceived =>
              /\ payment'[o].webhookReceived
              /\ order'[o].status \in {"PAID", "FAILED"}
              /\ payment[o].txn # NoTxn => payment'[o].txn # NoTxn]_vars
    BY KeptStep DEF Kept
  <1> QED
    BY <1>1, Invariance, PTL DEF Spec, SettledForever

-----------------------------------------------------------------------------
(* The pipeline implements the ledger *)

LEMMA InitLedger == Init => Ledger!Init
  <1> SUFFICES ASSUME Init PROVE Ledger!Init
    OBVIOUS
  <1>1. \A o \in Order : ~Captured(o)
    <2> SUFFICES ASSUME NEW o \in Order, NEW t \in Txn, Succeeded(t, o) PROVE FALSE
      BY DEF Captured
    <2> QED
      BY SucceededIsAttempt DEF Init
  <1> QED
    BY <1>1 DEF Init, Ledger!Init

LEMMA LedgerStep == IInv /\ [Next]_vars => [Ledger!Next]_Ledger!vars
  <1> SUFFICES ASSUME IInv, [Next]_vars PROVE [Ledger!Next]_Ledger!vars
    OBVIOUS
  <1> USE SettlementAssumption DEF rows, gateway, receipts
  <1> DEFINE status == [o \in Order |-> order[o].status]
             captured == {o \in Order : Captured(o)}
             receipted == {o \in Order : mails[o] > 0}
  <1>0. TypeOK /\ Working /\ Holding /\ Placed /\ ReceiptIsDue
    BY DEF IInv
  <1>1. CASE UNCHANGED <<order, attempt, mails>>
    <2>1. UNCHANGED <<status, captured, receipted>>
      BY <1>1 DEF Captured, Succeeded
    <2> QED
      BY <2>1 DEF Ledger!vars
  <1>2. ASSUME NEW o \in Order, PlaceOrder(o) PROVE Ledger!Open(o)
    <2>1. UNCHANGED <<captured, receipted>>
      BY <1>2 DEF PlaceOrder, Captured, Succeeded
    <2>2. order[o].status = "NONE"
      BY <1>0, <1>2 DEF PlaceOrder, Placed
    <2>3. status' = [status EXCEPT ![o] = "PENDING"]
      <3>1. \A u \in Order :
              order'[u].status = IF u = o THEN "PENDING" ELSE order[u].status
        BY <1>0, <1>2 DEF PlaceOrder, TypeOK
      <3> QED
        BY <3>1
    <2> QED
      BY <2>1, <2>2, <2>3 DEF Ledger!Open
  <1>3. ASSUME NEW o \in Order, NEW t \in Txn, NEW s \in BOOLEAN, Pay(o, t, s)
        PROVE  Ledger!Capture(o) \/ UNCHANGED Ledger!vars
    <2>1. UNCHANGED <<status, receipted>>
      BY <1>3 DEF Pay
    <2>2. attempt' = [attempt EXCEPT ![t] = [order |-> o, success |-> s]]
      BY <1>3 DEF Pay
    <2>3. \A u \in Order : u # o => (Captured(u)' <=> Captured(u))
      <3> SUFFICES ASSUME NEW u \in Order, u # o, Captured(u)' PROVE Captured(u)
        BY AttemptsKept, <1>0
      <3>1. PICK r \in Txn : attempt'[r] = [order |-> u, success |-> TRUE]
        BY DEF Captured, Succeeded
      <3>2. r # t
        BY <1>0, <2>2, <3>1 DEF TypeOK
      <3> QED
        BY <1>0, <2>2, <3>1, <3>2 DEF TypeOK, Captured, Succeeded
    <2>4. CASE Captured(o)'
      <3>1. captured' = captured \cup {o}
        BY <2>3, <2>4
      <3>2. status[o] # "NONE"
        BY <1>0, <1>3 DEF Pay, Placed
      <3> QED
        BY <2>1, <3>1, <3>2 DEF Ledger!Capture
    <2>5. CASE ~Captured(o)'
      <3>1. ~Captured(o)
        BY <2>5, <1>0, AttemptsKept
      <3>2. captured' = captured
        BY <2>3, <2>5, <3>1
      <3> QED
        BY <2>1, <3>2 DEF Ledger!vars
    <2> QED
      BY <2>4, <2>5
  <1>4. ASSUME NEW h \in Handler, SettlePaid(h)
        PROVE  Ledger!Settle(attempt[handler[h].txn].order, "PAID")
    <2> DEFINE o == attempt[handler[h].txn].order
    <2>1. handler[h].txn \in Txn /\ o \in Order /\ Succeeded(handler[h].txn, o)
      BY <1>0, <1>4, SettlesCaptured, HandledOrder DEF SettlePaid
    <2>2. UNCHANGED <<captured, receipted>>
      BY <1>4 DEF SettlePaid, MarkPaid, Captured, Succeeded
    <2>3. o \in captured
      BY <2>1 DEF Captured
    <2>4. order[o].status # "NONE"
      BY <1>0, <1>4, <2>1 DEF Placed, Working, SettlePaid
    <2>5. status' = [status EXCEPT ![o] = "PAID"]
      BY <1>0, <1>4, <2>1 DEF SettlePaid, MarkPaid, TypeOK
    <2> QED
      BY <2>1, <2>2, <2>3, <2>4, <2>5 DEF Ledger!Settle
  <1>5. ASSUME NEW h \in Handler, SettleFailed(h)
        PROVE  Ledger!Settle(attempt[handler[h].txn].order, "FAILED")
    <2> DEFINE o == attempt[handler[h].txn].order
    <2>1. handler[h].txn \in Txn /\ o \in Order
      BY <1>0, <1>5, HandledOrder DEF SettleFailed, Declined
    <2>2. UNCHANGED <<captured, receipted>>
      BY <1>5 DEF SettleFailed, MarkFailed, Captured, Succeeded
    <2>4. order[o].status # "NONE"
      BY <1>0, <1>5, <2>1 DEF Placed, Working, SettleFailed, Declined
    <2>5. status' = [status EXCEPT ![o] = "FAILED"]
      BY <1>0, <1>5, <2>1 DEF SettleFailed, MarkFailed, TypeOK
    <2> QED
      BY <2>1, <2>2, <2>4, <2>5 DEF Ledger!Settle
  <1>6. ASSUME NEW c \in Consumer, SendMail(c),
               NEW o \in Order, o = consumer[c].order
        PROVE  Ledger!SendReceipt(o)
    <2>1. UNCHANGED <<status, captured>>
      BY <1>6 DEF SendMail, Captured, Succeeded
    <2>2. o \in captured
      BY <1>0, <1>6 DEF SendMail, ReceiptIsDue
    <2>3. \A u \in Order : mails'[u] > 0 <=> mails[u] > 0 \/ u = o
      BY <1>0, <1>6 DEF SendMail, TypeOK
    <2>4. receipted' = receipted \cup {o}
      BY <2>3
    <2> QED
      BY <2>1, <2>2, <2>4 DEF Ledger!SendReceipt
  <1>7. Ledger!Next \/ UNCHANGED Ledger!vars \/ UNCHANGED <<order, attempt, mails>>
    <2>1. ASSUME NEW h \in Handler, SettlePaid(h) \/ SettleFailed(h)
          PROVE  Ledger!Next
      <3>1. attempt[handler[h].txn].order \in Order
        BY <1>0, <2>1, HandledOrder DEF SettlePaid, SettleFailed, Declined
      <3> QED
        BY <1>4, <1>5, <2>1, <3>1 DEF Ledger!Next
    <2>2. ASSUME NEW c \in Consumer, SendMail(c) PROVE Ledger!Next
      <3>1. consumer[c].order \in Order
        BY <1>0, <2>2 DEF SendMail, Holding
      <3>2. PICK o \in Order : o = consumer[c].order
        BY <3>1
      <3>3. Ledger!SendReceipt(o)
        BY <1>6, <2>2, <3>2
      <3> QED
        BY <3>3 DEF Ledger!Next
    <2>3. ASSUME NEW o \in Order, PlaceOrder(o) PROVE Ledger!Next
      BY <1>2, <2>3 DEF Ledger!Next
    <2>4. ASSUME NEW o \in Order, NEW t \in Txn, NEW s \in BOOLEAN, Pay(o, t, s)
          PROVE  Ledger!Next \/ UNCHANGED Ledger!vars
      BY <1>3, <2>4 DEF Ledger!Next
    <2> QED
      BY <2>1, <2>2, <2>3, <2>4 DEF Next, vars, CallPaymob, PaymobFails,
         Receive, EmitReceipt, EmitFails, HandlerCrash, Deliver, ReadOrder,
         ConsumerFails, BrokerRestart
  <1> QED
    BY <1>1, <1>7

\* The payment pipeline implements the ledger of OrderLedger.
THEOREM Refinement == Spec => ImplementsLedger
  BY InitLedger, LedgerStep, Invariance, PTL
  DEF Spec, ImplementsLedger, Ledger!Spec

=============================================================================
