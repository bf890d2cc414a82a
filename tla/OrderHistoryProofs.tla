------------------------- MODULE OrderHistoryProofs -------------------------
(***************************************************************************)
(* Proofs about what happens to one order over time: its shipping info and *)
(* dispatch, the stock taken for it once (OnceInv, on top of PaymentInv    *)
(* and TakenInv), and the life cycle it implements: under StageOf, every   *)
(* step of the handlers is one move of one order of OrderLifecycle, or     *)
(* nothing. They build on PaymentInv (OrderFulfilmentProofs).              *)
(***************************************************************************)
EXTENDS OrderFulfilmentProofs

\* A save, field by field.
LEMMA MergedFields ==
    ASSUME NEW s, NEW l, NEW e
    PROVE  LET m == Merged(s, l, e) IN
           /\ m.status = IF e.status = l.status THEN s.status ELSE e.status
           /\ m.paidAt = IF e.paidAt = l.paidAt THEN s.paidAt ELSE e.paidAt
           /\ m.shippingInfo = IF e.shippingInfo = l.shippingInfo
                               THEN s.shippingInfo ELSE e.shippingInfo
           /\ m.invoice = IF e.invoice = l.invoice THEN s.invoice ELSE e.invoice
           /\ m.vivaOrderCode = IF e.vivaOrderCode = l.vivaOrderCode
                                THEN s.vivaOrderCode ELSE e.vivaOrderCode
           /\ m.vivaTransactionId = IF e.vivaTransactionId = l.vivaTransactionId
                                    THEN s.vivaTransactionId ELSE e.vivaTransactionId
  BY DEF Merged, Changed

\* The documents a saving handler works with are well-typed.
LEMMA SavedDocs ==
    ASSUME TypeOK, NEW h \in Handler, at[h] # "idle"
    PROVE  /\ req[h].order \in Order
           /\ orders[req[h].order] \in Doc
           /\ req[h].base \in Doc
           /\ req[h].edit \in Doc
  BY DEF TypeOK, Request

\* No handler works on an order whose document is still to be created, except
\* the one that creates it.
LEMMA CreatorAlone ==
    ASSUME PaymentInv, NEW h \in Handler, CheckoutCreate(h),
           NEW g \in Handler, req[g].order = req[h].order
    PROVE  g = h
<1>1. req[h].order \in Order /\ at[h] = "create" /\ db[req[h].order] = "none"
  BY DEF CheckoutCreate, PaymentInv, TypeOK, Request, Routing
<1>2. at[g] \in Step \ {"idle"}
  BY <1>1, OrderFulfilmentAssumption DEF PaymentInv, TypeOK
<1>3. CASE at[g] \in CheckoutSteps
  BY <1>1, <1>3 DEF PaymentInv, Routing, CheckoutSteps
<1>4. CASE at[g] \in {"verify", "pay", "clearpaid", "save"}
  BY <1>1, <1>4 DEF PaymentInv, Routing, Payable
<1> QED
  BY <1>2, <1>3, <1>4 DEF Step, CheckoutSteps

-------------------------------------------------------------------------------
\* Only these steps change whether an order exists or is offered, or its document.
LEMMA StageWriters ==
    ASSUME [Next]_vars
    PROVE  \/ UNCHANGED <<db, orders, url>>
           \/ \E h \in Handler :
                \/ CheckoutCreate(h) \/ CheckoutAbort(h) \/ CheckoutClearCart(h)
                \/ SavePaid(h) \/ CheckoutSaveCode(h) \/ SaveEdit(h)
<1> DEFINE Kept == UNCHANGED <<db, orders, url>>
<1>1. ASSUME UNCHANGED world
      PROVE  Kept
  BY <1>1 DEF world
<1>2. CASE UNCHANGED vars
  BY <1>1, <1>2 DEF vars
<1>3. ASSUME NEW u \in Customer, NEW p \in Product, NEW q \in 0..MaxQty, EditCart(u, p, q)
      PROVE  Kept
  BY <1>3 DEF EditCart
<1>4. ASSUME NEW h \in Handler, NEW o \in Order,
             \/ CheckoutRead(h, o) \/ ConfirmPaid(h, o) \/ ConfirmByCode(h, o)
             \/ \E t \in Transaction : ConfirmByTransaction(h, o, t) \/ WebhookPay(h, o, t)
             \/ ReceivedLoad(h, o)
             \/ \E s \in ORDER_STATUS, i \in Invoice : StatusLoad(h, o, s, i)
             \/ \E i \in Invoice : InvoiceLoad(h, o, i)
      PROVE  Kept
  BY <1>1, <1>4
     DEF CheckoutRead, ConfirmPaid, ConfirmByTransaction, ConfirmByCode, WebhookPay,
         ReceivedLoad, StatusLoad, InvoiceLoad
<1>5. ASSUME NEW o \in Order, Pay(o) \/ WebhookIgnore(o)
      PROVE  Kept
  BY <1>5 DEF Pay, WebhookIgnore
<1>6. ASSUME NEW h \in Handler,
             \/ CreateOrderAtViva(h) \/ CheckoutVivaOrder(h) \/ ConfirmVerify(h)
             \/ ClearAfterPaid(h) \/ SaveMissing(h) \/ Reject(h) \/ Crash(h)
             \/ \E p \in Product : DecrementStock(h, p)
      PROVE  Kept
  BY <1>1, <1>6
     DEF CreateOrderAtViva, CheckoutVivaOrder, ConfirmVerify, ClearAfterPaid, SaveMissing,
         Reject, Crash, DecrementStock
<1> QED
  BY <1>2, <1>3, <1>4, <1>5, <1>6, NextActions

\* The only steps that write order documents.
LEMMA OrdersWriters ==
    ASSUME [Next]_vars, orders' # orders
    PROVE  \E h \in Handler :
             CheckoutSaveCode(h) \/ CheckoutCreate(h) \/ SaveEdit(h) \/ SavePaid(h)
  BY StageWriters DEF CheckoutAbort, CheckoutClearCart

-------------------------------------------------------------------------------
\* Shipping info, once there, is in the order and in every later copy of it.
LEMMA ShippingStep ==
    ASSUME PaymentInv, ShippingInv, [Next]_vars
    PROVE  ShippingInv'
<1> USE OrderFulfilmentAssumption
    DEF PaymentInv, TypeOK, world, handlers, history, Request, Doc, Step, Row,
        NewDoc, ShippingInv, OnTheWayHasShipping
<1>0. CASE UNCHANGED vars
  BY <1>0 DEF vars
<1>1. ASSUME NEW u \in Customer, NEW p \in Product, NEW q \in 0..MaxQty, EditCart(u, p, q)
      PROVE  ShippingInv'
  BY <1>1 DEF EditCart
<1>2. ASSUME NEW h \in Handler, NEW o \in Order, CheckoutRead(h, o)
      PROVE  ShippingInv'
  BY <1>2 DEF CheckoutRead, Begin
<1>3. ASSUME NEW h \in Handler, NEW o \in Order, ConfirmPaid(h, o)
      PROVE  ShippingInv'
  BY <1>3 DEF ConfirmPaid, Begin, AlreadyPaid
<1>4. ASSUME NEW h \in Handler, NEW o \in Order, NEW t \in Transaction,
             ConfirmByTransaction(h, o, t)
      PROVE  ShippingInv'
  BY <1>4 DEF ConfirmByTransaction, BeginPayment, Begin, AlreadyPaid, PaidEdit
<1>5. ASSUME NEW h \in Handler, NEW o \in Order, ConfirmByCode(h, o)
      PROVE  ShippingInv'
  BY <1>5 DEF ConfirmByCode, BeginPayment, Begin, AlreadyPaid, PaidEdit
<1>6. ASSUME NEW h \in Handler, NEW o \in Order, NEW t \in Transaction, WebhookPay(h, o, t)
      PROVE  ShippingInv'
  BY <1>6 DEF WebhookPay, BeginPayment, Begin, AlreadyPaid, PaidEdit
<1>7. ASSUME NEW h \in Handler, NEW o \in Order, ReceivedLoad(h, o)
      PROVE  ShippingInv'
  BY <1>7 DEF ReceivedLoad, Begin, ReceivedEdit
<1>8. ASSUME NEW h \in Handler, NEW o \in Order,
               NEW s \in ORDER_STATUS, NEW i \in Invoice, StatusLoad(h, o, s, i)
      PROVE  ShippingInv'
  BY <1>8 DEF StatusLoad, Begin, StatusEdit
<1>9. ASSUME NEW h \in Handler, NEW o \in Order, NEW i \in Invoice, InvoiceLoad(h, o, i)
      PROVE  ShippingInv'
  BY <1>9 DEF InvoiceLoad, Begin, InvoiceEdit
<1>10. ASSUME NEW o \in Order, Pay(o)
      PROVE  ShippingInv'
  BY <1>10 DEF Pay
<1>11. ASSUME NEW o \in Order, WebhookIgnore(o)
      PROVE  ShippingInv'
  BY <1>11 DEF WebhookIgnore
<1>12. ASSUME NEW h \in Handler, CheckoutCreate(h)
      PROVE  ShippingInv'
  <2>1. \A g \in Handler : req[g].order = req[h].order => g = h
    BY <1>12, CreatorAlone
  <2>2. req[h].base = NewDoc
    BY <1>12 DEF CheckoutCreate, Copies
  <2> QED
    BY <1>12, <2>1, <2>2 DEF CheckoutCreate, GoTo
<1>13. ASSUME NEW h \in Handler, CheckoutVivaOrder(h)
      PROVE  ShippingInv'
  BY <1>13 DEF CheckoutVivaOrder, Begin, CodeEdit
<1>14. ASSUME NEW h \in Handler, CheckoutSaveCode(h)
      PROVE  ShippingInv'
  BY <1>14 DEF CheckoutSaveCode, GoTo, Copies, CodeEdit, Merged, Changed
<1>15. ASSUME NEW h \in Handler, CheckoutClearCart(h)
      PROVE  ShippingInv'
  BY <1>15 DEF CheckoutClearCart, Finish, NoRequest
<1>16. ASSUME NEW h \in Handler, CheckoutAbort(h)
      PROVE  ShippingInv'
  BY <1>16 DEF CheckoutAbort, Finish, NoRequest
<1>17. ASSUME NEW h \in Handler, ConfirmVerify(h)
      PROVE  ShippingInv'
  <2>1. /\ req' = req \/ req' = [req EXCEPT ![h] = NoRequest]
        /\ UNCHANGED <<orders, early>>
    BY <1>17 DEF ConfirmVerify, GoTo, Finish
  <2>2. CASE req' = req
    BY <2>1, <2>2
  <2>3. CASE req' = [req EXCEPT ![h] = NoRequest]
    BY <1>17, <2>1, <2>3 DEF NoRequest
  <2> QED
    BY <2>1, <2>2, <2>3
<1>18. ASSUME NEW h \in Handler, SavePaid(h)
      PROVE  ShippingInv'
  BY <1>18 DEF SavePaid, Begin, Merged, Changed
<1>19. ASSUME NEW h \in Handler, ClearAfterPaid(h)
      PROVE  ShippingInv'
  BY <1>19 DEF ClearAfterPaid, Finish, NoRequest
<1>20. ASSUME NEW h \in Handler, SaveEdit(h)
      PROVE  ShippingInv'
  BY <1>20 DEF SaveEdit, Finish, NoRequest, Merged, Changed
<1>21. ASSUME NEW h \in Handler, SaveMissing(h)
      PROVE  ShippingInv'
  BY <1>21 DEF SaveMissing, Finish, NoRequest
<1>22. ASSUME NEW h \in Handler, Reject(h)
      PROVE  ShippingInv'
  <2>1. /\ req' = req \/ req' = [req EXCEPT ![h] = NoRequest]
        /\ UNCHANGED <<orders, early>>
    BY <1>22 DEF Reject, GoTo, Finish, Fault
  <2>2. CASE req' = req
    BY <2>1, <2>2
  <2>3. CASE req' = [req EXCEPT ![h] = NoRequest]
    BY <1>22, <2>1, <2>3 DEF NoRequest
  <2> QED
    BY <2>1, <2>2, <2>3
<1>23. ASSUME NEW h \in Handler, Crash(h)
      PROVE  ShippingInv'
  BY <1>23 DEF Crash, Fault, Finish, NoRequest
<1>24. ASSUME NEW h \in Handler, NEW p \in Product, DecrementStock(h, p)
      PROVE  ShippingInv'
  BY <1>24 DEF DecrementStock
<1>25. ASSUME NEW h \in Handler, CreateOrderAtViva(h)
      PROVE  ShippingInv'
  BY <1>25 DEF CreateOrderAtViva
<1> HIDE DEF PaymentInv, ShippingInv
<1> QED
  BY <1>0, <1>1, <1>2, <1>3, <1>4, <1>5, <1>6, <1>7, <1>8, <1>9, <1>10, <1>11,
     <1>12, <1>13, <1>14, <1>15, <1>16, <1>17, <1>18, <1>19, <1>20, <1>21, <1>22,
     <1>23, <1>24, <1>25, NextActions

\* However admin, customer and payment handlers save over each other, an order
\* that is on its way keeps its shipping info.
THEOREM OnTheWayAlwaysHasShipping == Spec => []OnTheWayHasShipping
<1>1. Init => ShippingInv
  BY DEF Init, ShippingInv, OnTheWayHasShipping, NewDoc, NoRequest
<1>2. PaymentInv /\ ShippingInv /\ [Next]_vars => ShippingInv'
  BY ShippingStep
<1>3. ShippingInv => OnTheWayHasShipping
  BY DEF ShippingInv
<1> QED
  BY <1>1, <1>2, <1>3, PaymentInvariant, PTL DEF Spec

-------------------------------------------------------------------------------
\* An unpaid order, or copy, that is not pending was dispatched early.
LEMMA DispatchStep ==
    ASSUME PaymentInv, DispatchInv, [Next]_vars
    PROVE  DispatchInv'
<1> USE OrderFulfilmentAssumption
    DEF PaymentInv, TypeOK, world, handlers, history, Request, Doc, Step, Row,
        DispatchInv, Routing, Copies, Payable, CheckoutSteps, NewDoc
<1>0. CASE UNCHANGED vars
  BY <1>0 DEF vars
<1>1. ASSUME NEW u \in Customer, NEW p \in Product, NEW q \in 0..MaxQty, EditCart(u, p, q)
      PROVE  DispatchInv'
  BY <1>1 DEF EditCart
<1>2. ASSUME NEW h \in Handler, NEW o \in Order, CheckoutRead(h, o)
      PROVE  DispatchInv'
  BY <1>2 DEF CheckoutRead, Begin
<1>3. ASSUME NEW h \in Handler, NEW o \in Order, ConfirmPaid(h, o)
      PROVE  DispatchInv'
  BY <1>3 DEF ConfirmPaid, Begin, AlreadyPaid
<1>4. ASSUME NEW h \in Handler, NEW o \in Order, NEW t \in Transaction,
             ConfirmByTransaction(h, o, t)
      PROVE  DispatchInv'
  BY <1>4 DEF ConfirmByTransaction, BeginPayment, Begin, AlreadyPaid, PaidEdit
<1>5. ASSUME NEW h \in Handler, NEW o \in Order, ConfirmByCode(h, o)
      PROVE  DispatchInv'
  BY <1>5 DEF ConfirmByCode, BeginPayment, Begin, AlreadyPaid, PaidEdit
<1>6. ASSUME NEW h \in Handler, NEW o \in Order, NEW t \in Transaction, WebhookPay(h, o, t)
      PROVE  DispatchInv'
  BY <1>6 DEF WebhookPay, BeginPayment, Begin, AlreadyPaid, PaidEdit
<1>7. ASSUME NEW h \in Handler, NEW o \in Order, ReceivedLoad(h, o)
      PROVE  DispatchInv'
  BY <1>7 DEF ReceivedLoad, Begin, ReceivedEdit
<1>8. ASSUME NEW h \in Handler, NEW o \in Order,
               NEW s \in ORDER_STATUS, NEW i \in Invoice, StatusLoad(h, o, s, i)
      PROVE  DispatchInv'
  BY <1>8 DEF StatusLoad, Begin, StatusEdit
<1>9. ASSUME NEW h \in Handler, NEW o \in Order, NEW i \in Invoice, InvoiceLoad(h, o, i)
      PROVE  DispatchInv'
  BY <1>9 DEF InvoiceLoad, Begin, InvoiceEdit
<1>10. ASSUME NEW o \in Order, Pay(o)
      PROVE  DispatchInv'
  BY <1>10 DEF Pay
<1>11. ASSUME NEW o \in Order, WebhookIgnore(o)
      PROVE  DispatchInv'
  BY <1>11 DEF WebhookIgnore
<1>12. ASSUME NEW h \in Handler, CheckoutCreate(h)
      PROVE  DispatchInv'
  BY <1>12 DEF CheckoutCreate, GoTo
<1>13. ASSUME NEW h \in Handler, CheckoutVivaOrder(h)
      PROVE  DispatchInv'
  BY <1>13 DEF CheckoutVivaOrder, Begin, CodeEdit
<1>14. ASSUME NEW h \in Handler, CheckoutSaveCode(h)
      PROVE  DispatchInv'
  <2>1. \A x \in Order : /\ orders'[x].paidAt = orders[x].paidAt
                         /\ orders'[x].status = orders[x].status
    <3>1. req[h].edit.paidAt = req[h].base.paidAt /\ req[h].edit.status = req[h].base.status
      BY <1>14 DEF CheckoutSaveCode, CodeEdit
    <3>2. LET m == Merged(orders[req[h].order], req[h].base, req[h].edit) IN
          m.paidAt = orders[req[h].order].paidAt /\ m.status = orders[req[h].order].status
      BY <3>1, MergedFields
    <3> QED
      BY <1>14, <3>2 DEF CheckoutSaveCode
  <2> QED
    BY <1>14, <2>1 DEF CheckoutSaveCode, GoTo
<1>15. ASSUME NEW h \in Handler, CheckoutClearCart(h)
      PROVE  DispatchInv'
  BY <1>15 DEF CheckoutClearCart, Finish, NoRequest
<1>16. ASSUME NEW h \in Handler, CheckoutAbort(h)
      PROVE  DispatchInv'
  BY <1>16 DEF CheckoutAbort, Finish, NoRequest
<1>17. ASSUME NEW h \in Handler, ConfirmVerify(h)
      PROVE  DispatchInv'
  <2>1. /\ req' = req \/ req' = [req EXCEPT ![h] = NoRequest]
        /\ UNCHANGED <<orders, early>>
    BY <1>17 DEF ConfirmVerify, GoTo, Finish
  <2>2. CASE req' = req
    BY <2>1, <2>2
  <2>3. CASE req' = [req EXCEPT ![h] = NoRequest]
    BY <1>17, <2>1, <2>3 DEF NoRequest
  <2> QED
    BY <2>1, <2>2, <2>3
<1>18. ASSUME NEW h \in Handler, SavePaid(h)
      PROVE  DispatchInv'
  BY <1>18, SavedDocs, MergedFields DEF SavePaid, Begin
<1>19. ASSUME NEW h \in Handler, ClearAfterPaid(h)
      PROVE  DispatchInv'
  BY <1>19 DEF ClearAfterPaid, Finish, NoRequest
<1>20. ASSUME NEW h \in Handler, SaveEdit(h)
      PROVE  DispatchInv'
  BY <1>20, SavedDocs, MergedFields DEF SaveEdit, Finish, NoRequest
<1>21. ASSUME NEW h \in Handler, SaveMissing(h)
      PROVE  DispatchInv'
  BY <1>21 DEF SaveMissing, Finish, NoRequest
<1>22. ASSUME NEW h \in Handler, Reject(h)
      PROVE  DispatchInv'
  <2>1. /\ req' = req \/ req' = [req EXCEPT ![h] = NoRequest]
        /\ UNCHANGED <<orders, early>>
    BY <1>22 DEF Reject, GoTo, Finish, Fault
  <2>2. CASE req' = req
    BY <2>1, <2>2
  <2>3. CASE req' = [req EXCEPT ![h] = NoRequest]
    BY <1>22, <2>1, <2>3 DEF NoRequest
  <2> QED
    BY <2>1, <2>2, <2>3
<1>23. ASSUME NEW h \in Handler, Crash(h)
      PROVE  DispatchInv'
  BY <1>23 DEF Crash, Fault, Finish, NoRequest
<1>24. ASSUME NEW h \in Handler, NEW p \in Product, DecrementStock(h, p)
      PROVE  DispatchInv'
  BY <1>24 DEF DecrementStock
<1>25. ASSUME NEW h \in Handler, CreateOrderAtViva(h)
      PROVE  DispatchInv'
  BY <1>25 DEF CreateOrderAtViva
<1> HIDE DEF PaymentInv, DispatchInv
<1> QED
  BY <1>0, <1>1, <1>2, <1>3, <1>4, <1>5, <1>6, <1>7, <1>8, <1>9, <1>10, <1>11,
     <1>12, <1>13, <1>14, <1>15, <1>16, <1>17, <1>18, <1>19, <1>20, <1>21, <1>22,
     <1>23, <1>24, <1>25, NextActions

\* What a paying handler has not still to take is taken.
LEMMA TakenStep ==
    ASSUME PaymentInv, TakenInv, [Next]_vars
    PROVE  TakenInv'
<1> USE OrderFulfilmentAssumption
    DEF PaymentInv, TypeOK, world, handlers, history, Request, Doc, Step, Row,
        TakenInv, PaidImpliesTaken, Paying, Lines, Routing, Copies, Payable, CheckoutSteps, NewDoc
<1>0. CASE UNCHANGED vars
  BY <1>0 DEF vars
<1>1. ASSUME NEW u \in Customer, NEW p \in Product, NEW q \in 0..MaxQty, EditCart(u, p, q)
      PROVE  TakenInv'
  BY <1>1 DEF EditCart
<1>2. ASSUME NEW h \in Handler, NEW o \in Order, CheckoutRead(h, o)
      PROVE  TakenInv'
  BY <1>2 DEF CheckoutRead, Begin
<1>3. ASSUME NEW h \in Handler, NEW o \in Order, ConfirmPaid(h, o)
      PROVE  TakenInv'
  BY <1>3 DEF ConfirmPaid, Begin, AlreadyPaid
<1>4. ASSUME NEW h \in Handler, NEW o \in Order, NEW t \in Transaction,
             ConfirmByTransaction(h, o, t)
      PROVE  TakenInv'
  BY <1>4 DEF ConfirmByTransaction, BeginPayment, Begin, AlreadyPaid, PaidEdit
<1>5. ASSUME NEW h \in Handler, NEW o \in Order, ConfirmByCode(h, o)
      PROVE  TakenInv'
  BY <1>5 DEF ConfirmByCode, BeginPayment, Begin, AlreadyPaid, PaidEdit
<1>6. ASSUME NEW h \in Handler, NEW o \in Order, NEW t \in Transaction, WebhookPay(h, o, t)
      PROVE  TakenInv'
  BY <1>6 DEF WebhookPay, BeginPayment, Begin, AlreadyPaid, PaidEdit
<1>7. ASSUME NEW h \in Handler, NEW o \in Order, ReceivedLoad(h, o)
      PROVE  TakenInv'
  BY <1>7 DEF ReceivedLoad, Begin, ReceivedEdit
<1>8. ASSUME NEW h \in Handler, NEW o \in Order,
               NEW s \in ORDER_STATUS, NEW i \in Invoice, StatusLoad(h, o, s, i)
      PROVE  TakenInv'
  BY <1>8 DEF StatusLoad, Begin, StatusEdit
<1>9. ASSUME NEW h \in Handler, NEW o \in Order, NEW i \in Invoice, InvoiceLoad(h, o, i)
      PROVE  TakenInv'
  BY <1>9 DEF InvoiceLoad, Begin, InvoiceEdit
<1>10. ASSUME NEW o \in Order, Pay(o)
      PROVE  TakenInv'
  BY <1>10 DEF Pay
<1>11. ASSUME NEW o \in Order, WebhookIgnore(o)
      PROVE  TakenInv'
  BY <1>11 DEF WebhookIgnore
<1>12. ASSUME NEW h \in Handler, CheckoutCreate(h)
      PROVE  TakenInv'
  BY <1>12 DEF CheckoutCreate, GoTo
<1>13. ASSUME NEW h \in Handler, CheckoutVivaOrder(h)
      PROVE  TakenInv'
  BY <1>13 DEF CheckoutVivaOrder, Begin, CodeEdit
<1>14. ASSUME NEW h \in Handler, CheckoutSaveCode(h)
      PROVE  TakenInv'
  <2>1. req[h].order \in Order /\ req[h].edit.paidAt = req[h].base.paidAt
    BY <1>14, SavedDocs DEF CheckoutSaveCode, CodeEdit
  <2>2. Merged(orders[req[h].order], req[h].base, req[h].edit).paidAt
          = orders[req[h].order].paidAt
    BY <2>1, MergedFields
  <2>3. \A x \in Order : orders'[x].paidAt = orders[x].paidAt
    BY <1>14, <2>1, <2>2 DEF CheckoutSaveCode
  <2> QED
    BY <1>14, <2>3 DEF CheckoutSaveCode, GoTo
<1>15. ASSUME NEW h \in Handler, CheckoutClearCart(h)
      PROVE  TakenInv'
  BY <1>15 DEF CheckoutClearCart, Finish, NoRequest
<1>16. ASSUME NEW h \in Handler, CheckoutAbort(h)
      PROVE  TakenInv'
  BY <1>16 DEF CheckoutAbort, Finish, NoRequest
<1>17. ASSUME NEW h \in Handler, ConfirmVerify(h)
      PROVE  TakenInv'
  <2>1. CASE GoTo(h, "pay")
    BY <1>17, <2>1 DEF ConfirmVerify, GoTo
  <2>2. CASE Finish(h)
    BY <1>17, <2>2 DEF ConfirmVerify, Finish, NoRequest
  <2> QED
    BY <1>17, <2>1, <2>2 DEF ConfirmVerify
<1>18. ASSUME NEW h \in Handler, SavePaid(h)
      PROVE  TakenInv'
  BY <1>18, SavedDocs, MergedFields DEF SavePaid, Begin
<1>19. ASSUME NEW h \in Handler, ClearAfterPaid(h)
      PROVE  TakenInv'
  BY <1>19 DEF ClearAfterPaid, Finish, NoRequest
<1>20. ASSUME NEW h \in Handler, SaveEdit(h)
      PROVE  TakenInv'
  BY <1>20, SavedDocs, MergedFields DEF SaveEdit, Finish, NoRequest
<1>21. ASSUME NEW h \in Handler, SaveMissing(h)
      PROVE  TakenInv'
  BY <1>21 DEF SaveMissing, Finish, NoRequest
<1>22. ASSUME NEW h \in Handler, Reject(h)
      PROVE  TakenInv'
  <2>1. CASE at[h] \in TrySteps
    <3>1. /\ at' = [at EXCEPT ![h] = "abort"]
          /\ UNCHANGED <<orders, items, taken, req, todo>>
      BY <1>22, <2>1 DEF Reject, Fault, GoTo
    <3> QED
      BY <3>1
  <2>2. CASE Finish(h)
    BY <1>22, <2>2 DEF Reject, Fault, Finish, NoRequest
  <2> QED
    BY <1>22, <2>1, <2>2 DEF Reject
<1>23. ASSUME NEW h \in Handler, Crash(h)
      PROVE  TakenInv'
  BY <1>23 DEF Crash, Fault, Finish, NoRequest
<1>24. ASSUME NEW h \in Handler, NEW p \in Product, DecrementStock(h, p)
      PROVE  TakenInv'
  BY <1>24 DEF DecrementStock
<1>25. ASSUME NEW h \in Handler, CreateOrderAtViva(h)
      PROVE  TakenInv'
  BY <1>25 DEF CreateOrderAtViva
<1> HIDE DEF PaymentInv, TakenInv
<1> QED
  BY <1>0, <1>1, <1>2, <1>3, <1>4, <1>5, <1>6, <1>7, <1>8, <1>9, <1>10, <1>11,
     <1>12, <1>13, <1>14, <1>15, <1>16, <1>17, <1>18, <1>19, <1>20, <1>21, <1>22,
     <1>23, <1>24, <1>25, NextActions

\* Only an admin's copy has an edited invoice, and an order that is not created
\* yet has none.
LEMMA InvoiceStep ==
    ASSUME PaymentInv, InvoiceInv, [Next]_vars
    PROVE  InvoiceInv'
<1> USE OrderFulfilmentAssumption
    DEF PaymentInv, TypeOK, world, handlers, history, Request, Doc, Step, Row,
        InvoiceInv, Routing, Copies, Payable, CheckoutSteps
<1>0. CASE UNCHANGED vars
  BY <1>0 DEF vars
<1>1. ASSUME NEW u \in Customer, NEW p \in Product, NEW q \in 0..MaxQty, EditCart(u, p, q)
      PROVE  InvoiceInv'
  BY <1>1 DEF EditCart
<1>2. ASSUME NEW h \in Handler, NEW o \in Order, CheckoutRead(h, o)
      PROVE  InvoiceInv'
  BY <1>2 DEF CheckoutRead, Begin
<1>3. ASSUME NEW h \in Handler, NEW o \in Order, ConfirmPaid(h, o)
      PROVE  InvoiceInv'
  BY <1>3 DEF ConfirmPaid, Begin, AlreadyPaid
<1>4. ASSUME NEW h \in Handler, NEW o \in Order, NEW t \in Transaction,
             ConfirmByTransaction(h, o, t)
      PROVE  InvoiceInv'
  BY <1>4 DEF ConfirmByTransaction, BeginPayment, Begin, AlreadyPaid, PaidEdit
<1>5. ASSUME NEW h \in Handler, NEW o \in Order, ConfirmByCode(h, o)
      PROVE  InvoiceInv'
  BY <1>5 DEF ConfirmByCode, BeginPayment, Begin, AlreadyPaid, PaidEdit
<1>6. ASSUME NEW h \in Handler, NEW o \in Order, NEW t \in Transaction, WebhookPay(h, o, t)
      PROVE  InvoiceInv'
  BY <1>6 DEF WebhookPay, BeginPayment, Begin, AlreadyPaid, PaidEdit
<1>7. ASSUME NEW h \in Handler, NEW o \in Order, ReceivedLoad(h, o)
      PROVE  InvoiceInv'
  BY <1>7 DEF ReceivedLoad, Begin, ReceivedEdit
<1>8. ASSUME NEW h \in Handler, NEW o \in Order,
               NEW s \in ORDER_STATUS, NEW i \in Invoice, StatusLoad(h, o, s, i)
      PROVE  InvoiceInv'
  BY <1>8 DEF StatusLoad, Begin, StatusEdit
<1>9. ASSUME NEW h \in Handler, NEW o \in Order, NEW i \in Invoice, InvoiceLoad(h, o, i)
      PROVE  InvoiceInv'
  BY <1>9 DEF InvoiceLoad, Begin, InvoiceEdit
<1>10. ASSUME NEW o \in Order, Pay(o)
      PROVE  InvoiceInv'
  BY <1>10 DEF Pay
<1>11. ASSUME NEW o \in Order, WebhookIgnore(o)
      PROVE  InvoiceInv'
  BY <1>11 DEF WebhookIgnore
<1>12. ASSUME NEW h \in Handler, CheckoutCreate(h)
      PROVE  InvoiceInv'
  BY <1>12 DEF CheckoutCreate, GoTo
<1>13. ASSUME NEW h \in Handler, CheckoutVivaOrder(h)
      PROVE  InvoiceInv'
  BY <1>13 DEF CheckoutVivaOrder, Begin, CodeEdit
<1>14. ASSUME NEW h \in Handler, CheckoutSaveCode(h)
      PROVE  InvoiceInv'
  <2>1. req[h].order \in Order /\ db[req[h].order] = "stored"
    BY <1>14, SavedDocs DEF CheckoutSaveCode
  <2>2. \A o \in Order : db[o] = "none" => orders'[o] = orders[o]
    BY <1>14, <2>1 DEF CheckoutSaveCode
  <2> QED
    BY <1>14, <2>2 DEF CheckoutSaveCode, GoTo
<1>15. ASSUME NEW h \in Handler, CheckoutClearCart(h)
      PROVE  InvoiceInv'
  BY <1>15 DEF CheckoutClearCart, Finish, NoRequest
<1>16. ASSUME NEW h \in Handler, CheckoutAbort(h)
      PROVE  InvoiceInv'
  BY <1>16 DEF CheckoutAbort, Finish, NoRequest
<1>17. ASSUME NEW h \in Handler, ConfirmVerify(h)
      PROVE  InvoiceInv'
  <2>1. UNCHANGED <<db, orders>>
    BY <1>17 DEF ConfirmVerify
  <2>2. CASE GoTo(h, "pay")
    BY <1>17, <2>1, <2>2 DEF ConfirmVerify, GoTo
  <2>3. CASE Finish(h)
    BY <1>17, <2>1, <2>3 DEF Finish, NoRequest
  <2> QED
    BY <1>17, <2>2, <2>3 DEF ConfirmVerify
<1>18. ASSUME NEW h \in Handler, SavePaid(h)
      PROVE  InvoiceInv'
  BY <1>18, SavedDocs DEF SavePaid, Begin
<1>19. ASSUME NEW h \in Handler, ClearAfterPaid(h)
      PROVE  InvoiceInv'
  BY <1>19 DEF ClearAfterPaid, Finish, NoRequest
<1>20. ASSUME NEW h \in Handler, SaveEdit(h)
      PROVE  InvoiceInv'
  BY <1>20, SavedDocs DEF SaveEdit, Finish, NoRequest
<1>21. ASSUME NEW h \in Handler, SaveMissing(h)
      PROVE  InvoiceInv'
  BY <1>21 DEF SaveMissing, Finish, NoRequest
<1>22. ASSUME NEW h \in Handler, Reject(h)
      PROVE  InvoiceInv'
  <2>1. UNCHANGED <<db, orders>>
    BY <1>22 DEF Reject
  <2>2. CASE at[h] \in TrySteps
    BY <1>22, <2>1, <2>2 DEF Reject, GoTo, TrySteps
  <2>3. CASE Finish(h)
    BY <1>22, <2>1, <2>3 DEF Finish, NoRequest
  <2> QED
    BY <1>22, <2>2, <2>3 DEF Reject
<1>23. ASSUME NEW h \in Handler, Crash(h)
      PROVE  InvoiceInv'
  BY <1>23 DEF Crash, Fault, Finish, NoRequest
<1>24. ASSUME NEW h \in Handler, NEW p \in Product, DecrementStock(h, p)
      PROVE  InvoiceInv'
  BY <1>24 DEF DecrementStock
<1>25. ASSUME NEW h \in Handler, CreateOrderAtViva(h)
      PROVE  InvoiceInv'
  BY <1>25 DEF CreateOrderAtViva
<1> HIDE DEF PaymentInv, InvoiceInv
<1> QED
  BY <1>0, <1>1, <1>2, <1>3, <1>4, <1>5, <1>6, <1>7, <1>8, <1>9, <1>10, <1>11,
     <1>12, <1>13, <1>14, <1>15, <1>16, <1>17, <1>18, <1>19, <1>20, <1>21, <1>22,
     <1>23, <1>24, <1>25, NextActions

THEOREM InvoiceInvariant == Spec => []InvoiceInv
<1>1. Init => InvoiceInv
  BY DEF Init, InvoiceInv, NewDoc, NoRequest
<1>2. PaymentInv /\ InvoiceInv /\ [Next]_vars => InvoiceInv'
  BY InvoiceStep
<1> QED
  BY <1>1, <1>2, PaymentInvariant, PTL DEF Spec

THEOREM DispatchInvariant == Spec => []DispatchInv
<1>1. Init => DispatchInv
  BY DEF Init, DispatchInv, NewDoc, NoRequest
<1>2. PaymentInv /\ DispatchInv /\ [Next]_vars => DispatchInv'
  BY DispatchStep
<1> QED
  BY <1>1, <1>2, PaymentInvariant, PTL DEF Spec

\* The save of a payment handler, which assigns status pending, takes a dispatch
\* back only from an order that was dispatched before it was paid: of an order
\* loaded unpaid and pending the save does not write status at all.
THEOREM PaymentAlwaysKeepsDispatch == Spec => PaymentKeepsDispatch
<1> DEFINE Undone(o) == /\ orders[o].status # "pending"
                        /\ orders'[o].status = "pending"
                        /\ \E h \in Handler : at[h] = "pay" /\ at'[h] # "pay" /\ req[h].order = o
<1>1. ASSUME PaymentInv, DispatchInv, [Next]_vars, NEW o \in Order, Undone(o)
      PROVE  o \in early
  <2>1. PICK h \in Handler : at[h] = "pay" /\ at'[h] # "pay" /\ req[h].order = o
    BY <1>1
  <2>2. orders'[o] # orders[o]
    BY <1>1
  <2>3. SavePaid(h)
    <3>1. ASSUME NEW g \in Handler, g # h
          PROVE  ~(\E step \in Step : at' = [at EXCEPT ![g] = step])
      BY <2>1, <3>1, <1>1 DEF PaymentInv, TypeOK
    <3>2. ASSUME NEW g \in Handler, CheckoutSaveCode(g) \/ CheckoutCreate(g) \/ SaveEdit(g) \/ SavePaid(g)
          PROVE  \E step \in Step : at' = [at EXCEPT ![g] = step]
      BY <3>2 DEF CheckoutSaveCode, CheckoutCreate, SaveEdit, SavePaid, GoTo, Begin, Finish, Step
    <3>3. \E g \in Handler : CheckoutSaveCode(g) \/ CheckoutCreate(g) \/ SaveEdit(g) \/ SavePaid(g)
      BY <1>1, <2>2, OrdersWriters
    <3>4. ~CheckoutSaveCode(h) /\ ~CheckoutCreate(h) /\ ~SaveEdit(h)
      BY <2>1 DEF CheckoutSaveCode, CheckoutCreate, SaveEdit
    <3> QED
      BY <3>1, <3>2, <3>3, <3>4
  <2>4. /\ orders'[o] = Merged(orders[o], req[h].base, req[h].edit)
        /\ req[h].edit.status = "pending"
        /\ ~req[h].base.paidAt
    BY <2>1, <2>3, <1>1 DEF SavePaid, PaymentInv, TypeOK, Copies
  <2>5. req[h].base.status # "pending"
    BY <1>1, <2>4, MergedFields
  <2> QED
    BY <1>1, <2>1, <2>4, <2>5 DEF DispatchInv
<1>2. PaymentInv /\ DispatchInv /\ [Next]_vars => [\A o \in Order : Undone(o) => o \in early]_vars
  BY <1>1
<1> QED
  BY <1>2, PaymentInvariant, DispatchInvariant, PTL DEF Spec, PaymentKeepsDispatch

\* An uploaded invoice changes only in the step that saves an admin's edit:
\* payment, receipt and checkout never assign it, and a save leaves it alone.
THEOREM InvoiceAlwaysKept == Spec => InvoiceKept
<1> DEFINE Lost(o) == orders[o].invoice # orders'[o].invoice
           BySave(o) == \E h \in Handler : /\ at[h] = "save" /\ at'[h] = "idle"
                                           /\ req[h].kind = "admin" /\ req[h].order = o
<1>1. ASSUME PaymentInv, InvoiceInv, [Next]_vars, NEW o \in Order, Lost(o)
      PROVE  BySave(o)
  <2>1. PICK h \in Handler :
          CheckoutSaveCode(h) \/ CheckoutCreate(h) \/ SaveEdit(h) \/ SavePaid(h)
    BY <1>1, OrdersWriters
  <2>2. at[h] # "idle"
    BY <2>1 DEF CheckoutSaveCode, CheckoutCreate, SaveEdit, SavePaid
  <2>3. req[h].order \in Order
    BY <1>1, <2>2, SavedDocs DEF PaymentInv
  <2>4. CASE CheckoutCreate(h)
    BY <1>1, <2>3, <2>4 DEF CheckoutCreate, InvoiceInv, PaymentInv, TypeOK, Routing, NewDoc
  <2>5. CASE ~CheckoutCreate(h)
    <3>1. /\ req[h].order = o
          /\ orders'[o] = Merged(orders[o], req[h].base, req[h].edit)
      BY <1>1, <2>1, <2>3, <2>5 DEF CheckoutSaveCode, SaveEdit, SavePaid, PaymentInv, TypeOK
    <3>2. req[h].edit.invoice # req[h].base.invoice
      BY <1>1, <3>1, MergedFields
    <3>3. req[h].kind = "admin" /\ at[h] = "save"
      BY <1>1, <2>2, <3>2, OrderFulfilmentAssumption DEF InvoiceInv, PaymentInv, TypeOK
    <3>4. at'[h] = "idle"
      BY <1>1, <2>1, <3>3 DEF CheckoutSaveCode, CheckoutCreate, SaveEdit, SavePaid, Finish, PaymentInv, TypeOK
    <3> QED
      BY <3>1, <3>3, <3>4
  <2> QED
    BY <2>4, <2>5
<1>2. PaymentInv /\ InvoiceInv /\ [Next]_vars => [\A o \in Order : Lost(o) => BySave(o)]_vars
  BY <1>1
<1> QED
  BY <1>2, PaymentInvariant, InvoiceInvariant, PTL DEF Spec, InvoiceKept

-------------------------------------------------------------------------------
THEOREM TakenInvariant == Spec => []TakenInv
<1>1. Init => TakenInv
  BY DEF Init, TakenInv, PaidImpliesTaken, Paying, NewDoc
<1>2. PaymentInv /\ TakenInv /\ [Next]_vars => TakenInv'
  BY TakenStep
<1> QED
  BY <1>1, <1>2, PaymentInvariant, PTL DEF Spec

\* Every line of a paid order has left the stock: the handler that records the
\* payment has taken them all before its save, whatever broke off before.
THEOREM PaidAlwaysTaken == Spec => []PaidImpliesTaken
<1>1. TakenInv => PaidImpliesTaken
  BY DEF TakenInv
<1> QED
  BY <1>1, TakenInvariant, PTL

-------------------------------------------------------------------------------
(* The stock of an order is taken once *)

\* What Once(o) speaks about is as it was: who is paying o and what they have
\* still to take, whether o is paid, what was taken for it, and of a paid or
\* being paid order the lines.
SameFor(o) ==
    /\ \A h \in Handler : Paying(h, o)' <=> Paying(h, o)
    /\ \A h \in Handler : Paying(h, o) => todo'[h] = todo[h]
    /\ orders'[o].paidAt = orders[o].paidAt
    /\ db[o] = "deleted" => db'[o] = "deleted"
    /\ taken'[o] = taken[o]
    /\ orders[o].paidAt \/ (\E h \in Handler : Paying(h, o)) => items'[o] = items[o]

LEMMA OnceFrame ==
    ASSUME NEW o, Once(o), SameFor(o)
    PROVE  Once(o)'
<1>1. ASSUME NEW h \in Handler, Paying(h, o)'
      PROVE  /\ ~orders'[o].paidAt
             /\ \A g \in Handler : Paying(g, o)' => g = h
             /\ \A p \in Product :
                  taken'[o][p] = IF p \in (Lines(o) \ todo[h])' THEN 1 ELSE 0
  BY <1>1 DEF Once, SameFor, Lines
<1>2. ASSUME orders'[o].paidAt
      PROVE  \A p \in Product : taken'[o][p] = IF p \in Lines(o)' THEN 1 ELSE 0
  BY <1>2 DEF Once, SameFor, Lines
<1>3. ASSUME ~orders'[o].paidAt, db'[o] # "deleted", \A h \in Handler : ~Paying(h, o)'
      PROVE  \A p \in Product : taken'[o][p] = 0
  BY <1>3 DEF Once, SameFor
<1>4. \A p \in Product : taken'[o][p] <= 1
  BY DEF Once, SameFor
<1> QED
  BY <1>1, <1>2, <1>3, <1>4 DEF Once

\* A step in which no handler is paying, starts or stops paying but perhaps h,
\* which is not, keeps every order as Once has it.
LEMMA BystanderKeepsOnce ==
    ASSUME TypeOK, OnceInv, NEW h \in Handler,
           \A g \in Handler \ {h} : at'[g] = at[g] /\ req'[g] = req[g] /\ todo'[g] = todo[g],
           at[h] \notin {"verify", "pay"}, at'[h] \notin {"verify", "pay"},
           exposed \subseteq exposed',
           \A o \in Order : /\ orders'[o].paidAt = orders[o].paidAt
                            /\ db[o] = "deleted" => db'[o] = "deleted"
                            /\ taken'[o] = taken[o]
                            /\ orders[o].paidAt \/ (\E g \in Handler : Paying(g, o)) =>
                                 items'[o] = items[o]
    PROVE  OnceInv'
<1>1. \A o \in Order : SameFor(o)
  BY DEF SameFor, Paying
<1> QED
  BY <1>1, OnceFrame DEF OnceInv

\* A handler that stops paying without having taken anything, or for an order
\* that is gone, in a step that writes no order, leaves every order as Once
\* has it.
LEMMA LeaverKeepsOnce ==
    ASSUME TypeOK, OnceInv, NEW h \in Handler, at[h] \in {"verify", "pay"},
           \/ todo[h] = Lines(req[h].order)
           \/ req[h].order \in exposed'
           \/ db[req[h].order] = "deleted",
           Finish(h), UNCHANGED <<db, items, taken, orders>>, exposed \subseteq exposed'
    PROVE  OnceInv'
<1> SUFFICES ASSUME NEW o \in Order \ exposed' PROVE Once(o)'
  BY DEF OnceInv
<1>1. Once(o)
  BY DEF OnceInv
<1>2. CASE o # req[h].order
  BY <1>1, <1>2, OnceFrame DEF SameFor, Paying, Finish, NoRequest, TypeOK
<1>3. CASE o = req[h].order
  <2>1. Paying(h, o)
    BY <1>3 DEF Paying
  <2>2. /\ ~orders[o].paidAt
        /\ \A g \in Handler : Paying(g, o) => g = h
        /\ db[o] # "deleted" => \A p \in Product : taken[o][p] = 0
        /\ \A p \in Product : taken[o][p] <= 1
    BY <1>1, <1>3, <2>1 DEF Once
  <2>3. \A g \in Handler : ~Paying(g, o)'
    BY <2>2 DEF Paying, Finish, NoRequest, TypeOK
  <2> QED
    BY <2>2, <2>3 DEF Once
<1> QED
  BY <1>2, <1>3

\* A payment that begins alone begins with nothing taken; one that does not
\* begin alone exposes the order.
LEMMA BeginnerKeepsOnce ==
    ASSUME TypeOK, OnceInv, NEW h \in Handler, at[h] = "idle", NEW x \in Order,
           db[x] = "stored", ~orders[x].paidAt,
           NEW kind, NEW t \in Transaction, NEW step \in {"verify", "pay"},
           BeginPayment(h, kind, x, t, step), UNCHANGED world
    PROVE  OnceInv'
<1> SUFFICES ASSUME NEW o \in Order \ exposed' PROVE Once(o)'
  BY DEF OnceInv
<1>1. /\ at' = [at EXCEPT ![h] = step]
      /\ todo' = [todo EXCEPT ![h] = Lines(x)]
      /\ \A g \in Handler \ {h} : req'[g] = req[g]
      /\ req'[h].order = x
      /\ exposed' = IF \E g \in Handler : Paying(g, x) THEN exposed \cup {x} ELSE exposed
      /\ UNCHANGED <<db, items, taken, orders>>
  BY DEF BeginPayment, Begin, TypeOK, world
<1>2. Once(o)
  BY <1>1 DEF OnceInv
<1>3. CASE o # x
  BY <1>1, <1>2, <1>3, OnceFrame DEF SameFor, Paying, TypeOK
<1>4. CASE o = x
  <2>1. \A g \in Handler : ~Paying(g, o)
    BY <1>1, <1>4
  <2>2. \A p \in Product : taken[o][p] = 0
    BY <1>2, <1>4, <2>1 DEF Once
  <2>3. \A g \in Handler : Paying(g, o)' => g = h
    BY <1>1, <2>1 DEF Paying, TypeOK
  <2>4. todo'[h] = Lines(o)'
    BY <1>1, <1>4 DEF TypeOK, Lines
  <2>5. Paying(h, o)'
    BY <1>1, <1>4 DEF Paying, TypeOK
  <2> QED
    BY <1>1, <1>4, <2>2, <2>3, <2>4, <2>5 DEF Once
<1> QED
  BY <1>3, <1>4

\* One decrement by the only handler that takes the payment.
LEMMA DecrementKeepsOnce ==
    ASSUME PaymentInv, TakenInv, OnceInv, NEW h \in Handler, NEW p \in Product,
           DecrementStock(h, p)
    PROVE  OnceInv'
<1> DEFINE x == req[h].order
<1>1. x \in Order /\ at[h] = "pay" /\ p \in todo[h] /\ Paying(h, x)
  BY SavedDocs DEF DecrementStock, PaymentInv, Paying
<1>2. p \in Lines(x) /\ todo[h] \subseteq Lines(x)
  BY <1>1 DEF TakenInv
<1>3. /\ taken' = [taken EXCEPT ![x][p] = @ + 1]
      /\ todo' = [todo EXCEPT ![h] = @ \ {p}]
      /\ UNCHANGED <<db, items, orders, at, req, exposed>>
  BY DEF DecrementStock
<1> SUFFICES ASSUME NEW o \in Order \ exposed' PROVE Once(o)'
  BY DEF OnceInv
<1>4. Once(o)
  BY <1>3 DEF OnceInv
<1>5. CASE o # x
  BY <1>1, <1>3, <1>4, <1>5, OnceFrame DEF SameFor, Paying, PaymentInv, TypeOK
<1>6. CASE o = x
  <2>1. /\ ~orders[o].paidAt
        /\ \A g \in Handler : Paying(g, o) => g = h
        /\ \A q \in Product : taken[o][q] = IF q \in Lines(o) \ todo[h] THEN 1 ELSE 0
    BY <1>1, <1>4, <1>6 DEF Once
  <2>2. todo'[h] = todo[h] \ {p} /\ Lines(o)' = Lines(o)
    BY <1>3 DEF PaymentInv, TypeOK, Lines
  <2>3. \A q \in Product : taken'[o][q] = IF q = p THEN taken[o][q] + 1 ELSE taken[o][q]
    BY <1>3, <1>6 DEF PaymentInv, TypeOK
  <2>4. \A q \in Product : taken'[o][q] = IF q \in Lines(o) \ todo'[h] THEN 1 ELSE 0
    BY <1>1, <1>2, <1>6, <2>1, <2>2, <2>3
  <2>5. \A g \in Handler : Paying(g, o)' <=> Paying(g, o)
    BY <1>3 DEF Paying
  <2> QED
    BY <1>1, <1>3, <1>6, <2>1, <2>2, <2>4, <2>5 DEF Once
<1> QED
  BY <1>5, <1>6

\* The save of the only handler that takes the payment, with nothing left to take.
LEMMA SavePaidKeepsOnce ==
    ASSUME PaymentInv, TakenInv, OnceInv, NEW h \in Handler, SavePaid(h)
    PROVE  OnceInv'
<1> DEFINE x == req[h].order
<1>1. x \in Order /\ at[h] = "pay" /\ todo[h] = {} /\ Paying(h, x)
  BY SavedDocs DEF SavePaid, PaymentInv, Paying
<1>2. /\ orders' = [orders EXCEPT ![x] = Merged(orders[x], req[h].base, req[h].edit)]
      /\ at' = [at EXCEPT ![h] = "clearpaid"]
      /\ \A g \in Handler \ {h} : req'[g] = req[g] /\ todo'[g] = todo[g]
      /\ UNCHANGED <<db, items, taken, exposed>>
  BY DEF SavePaid, Begin, PaymentInv, TypeOK, history
<1>3. orders'[x].paidAt
  <2>1. ~req[h].base.paidAt /\ req[h].edit.paidAt
    BY <1>1 DEF PaymentInv, Copies
  <2>2. orders'[x] = Merged(orders[x], req[h].base, req[h].edit)
    BY <1>1, <1>2 DEF PaymentInv, TypeOK
  <2> QED
    BY <2>1, <2>2, MergedFields
<1> SUFFICES ASSUME NEW o \in Order \ exposed' PROVE Once(o)'
  BY DEF OnceInv
<1>4. Once(o)
  BY <1>2 DEF OnceInv
<1>5. CASE o # x
  BY <1>1, <1>2, <1>4, <1>5, OnceFrame DEF SameFor, Paying, PaymentInv, TypeOK
<1>6. CASE o = x
  <2>1. /\ \A g \in Handler : Paying(g, o) => g = h
        /\ \A p \in Product : taken[o][p] = IF p \in Lines(o) THEN 1 ELSE 0
    BY <1>1, <1>4, <1>6 DEF Once
  <2>2. \A g \in Handler : ~Paying(g, o)'
    BY <1>1, <1>2, <2>1 DEF Paying, PaymentInv, TypeOK
  <2>3. Lines(o)' = Lines(o)
    BY <1>2 DEF Lines
  <2> QED
    BY <1>2, <1>3, <1>6, <2>1, <2>2, <2>3 DEF Once
<1> QED
  BY <1>5, <1>6

\* Every step keeps OnceInv. Only the five kinds above concern payment; in
\* every other the acting handler is a bystander, or nothing Once reads changes.
LEMMA OnceStep ==
    ASSUME PaymentInv, TakenInv, OnceInv, [Next]_vars
    PROVE  OnceInv'
<1> USE DEF PaymentInv, world, handlers, history
<1>0. TypeOK
  OBVIOUS
<1>100. ASSUME UNCHANGED <<handlers, db, items, orders, taken, exposed>>
      PROVE  OnceInv'
  BY <1>100 DEF OnceInv, Once, Paying, Lines
<1>101. CASE UNCHANGED vars
  BY <1>100, <1>101 DEF vars
<1>1. ASSUME NEW u \in Customer, NEW p \in Product, NEW q \in 0..MaxQty, EditCart(u, p, q)
      PROVE  OnceInv'
  BY <1>1, <1>100 DEF EditCart
<1>2. ASSUME NEW h \in Handler, NEW o \in Order, CheckoutRead(h, o)
      PROVE  OnceInv'
  <2>1. ~orders[o].paidAt /\ (\A g \in Handler : ~Paying(g, o))
    BY <1>2, <1>0 DEF CheckoutRead, Payable, Paying
  <2>2. /\ \A x \in Order : x # o => items'[x] = items[x]
        /\ \A g \in Handler \ {h} : at'[g] = at[g] /\ req'[g] = req[g] /\ todo'[g] = todo[g]
        /\ at[h] = "idle" /\ at'[h] = "create"
        /\ UNCHANGED <<db, orders, taken, exposed>>
    BY <1>2, <1>0 DEF CheckoutRead, Begin, TypeOK
  <2>3. \A x \in Order : orders[x].paidAt \/ (\E g \in Handler : Paying(g, x)) =>
                           items'[x] = items[x]
    BY <2>1, <2>2
  <2> QED
    BY <1>0, <2>2, <2>3, BystanderKeepsOnce
<1>3. ASSUME NEW h \in Handler, NEW o \in Order, ConfirmPaid(h, o)
      PROVE  OnceInv'
  BY <1>3, <1>0, BystanderKeepsOnce DEF ConfirmPaid, Begin, TypeOK
<1>4. ASSUME NEW h \in Handler, NEW o \in Order, NEW t \in Transaction,
             ConfirmByTransaction(h, o, t)
      PROVE  OnceInv'
  BY <1>4, <1>0, BeginnerKeepsOnce DEF ConfirmByTransaction, AlreadyPaid
<1>5. ASSUME NEW h \in Handler, NEW o \in Order, ConfirmByCode(h, o)
      PROVE  OnceInv'
  BY <1>5, <1>0, BeginnerKeepsOnce DEF ConfirmByCode, AlreadyPaid, Transaction
<1>6. ASSUME NEW h \in Handler, NEW o \in Order, NEW t \in Transaction, WebhookPay(h, o, t)
      PROVE  OnceInv'
  BY <1>6, <1>0, BeginnerKeepsOnce DEF WebhookPay, AlreadyPaid
<1>7. ASSUME NEW h \in Handler, NEW o \in Order, ReceivedLoad(h, o)
      PROVE  OnceInv'
  BY <1>7, <1>0, BystanderKeepsOnce DEF ReceivedLoad, Begin, TypeOK
<1>8. ASSUME NEW h \in Handler, NEW o \in Order,
               NEW s \in ORDER_STATUS, NEW i \in Invoice, StatusLoad(h, o, s, i)
      PROVE  OnceInv'
  BY <1>8, <1>0, BystanderKeepsOnce DEF StatusLoad, Begin, TypeOK
<1>9. ASSUME NEW h \in Handler, NEW o \in Order, NEW i \in Invoice, InvoiceLoad(h, o, i)
      PROVE  OnceInv'
  BY <1>9, <1>0, BystanderKeepsOnce DEF InvoiceLoad, Begin, TypeOK
<1>10. ASSUME NEW o \in Order, Pay(o)
      PROVE  OnceInv'
  BY <1>10, <1>100 DEF Pay
<1>11. ASSUME NEW o \in Order, WebhookIgnore(o)
      PROVE  OnceInv'
  BY <1>11, <1>100 DEF WebhookIgnore
<1>12. ASSUME NEW h \in Handler, CheckoutCreate(h)
      PROVE  OnceInv'
  <2>1. req[h].order \in Order /\ db[req[h].order] = "none"
    BY <1>12, <1>0, SavedDocs DEF CheckoutCreate, Routing
  <2>2. ~orders[req[h].order].paidAt
    BY <2>1 DEF Payable, TypeOK, Doc
  <2>3. \A x \in Order : orders'[x].paidAt = orders[x].paidAt
    BY <1>12, <2>1, <2>2 DEF CheckoutCreate, NewDoc, TypeOK, Doc
  <2>4. \A x \in Order : db[x] = "deleted" => db'[x] = "deleted"
    BY <1>12, <1>0, <2>1 DEF CheckoutCreate, TypeOK
  <2> QED
    BY <1>12, <1>0, <2>3, <2>4, BystanderKeepsOnce DEF CheckoutCreate, GoTo, TypeOK
<1>13. ASSUME NEW h \in Handler, CheckoutVivaOrder(h)
      PROVE  OnceInv'
  BY <1>13, <1>0, BystanderKeepsOnce DEF CheckoutVivaOrder, Begin, TypeOK
<1>14. ASSUME NEW h \in Handler, CheckoutSaveCode(h)
      PROVE  OnceInv'
  <2>1. /\ req[h].order \in Order
        /\ orders' = [orders EXCEPT ![req[h].order] =
                        Merged(orders[req[h].order], req[h].base, req[h].edit)]
    BY <1>14, <1>0, SavedDocs DEF CheckoutSaveCode
  <2>2. req[h].edit.paidAt = req[h].base.paidAt
    BY <1>14 DEF CheckoutSaveCode, Copies, NewDoc, CodeEdit
  <2>3. \A x \in Order : orders'[x].paidAt = orders[x].paidAt
    <3>1. Merged(orders[req[h].order], req[h].base, req[h].edit).paidAt = orders[req[h].order].paidAt
      BY <2>2, MergedFields
    <3> QED
      BY <2>1, <3>1 DEF TypeOK
  <2> QED
    BY <1>14, <1>0, <2>3, BystanderKeepsOnce DEF CheckoutSaveCode, GoTo, TypeOK
<1>15. ASSUME NEW h \in Handler, CheckoutClearCart(h)
      PROVE  OnceInv'
  BY <1>15, <1>0, BystanderKeepsOnce DEF CheckoutClearCart, Finish, TypeOK
<1>16. ASSUME NEW h \in Handler, CheckoutAbort(h)
      PROVE  OnceInv'
  BY <1>16, <1>0, BystanderKeepsOnce DEF CheckoutAbort, Finish, TypeOK
<1>17. ASSUME NEW h \in Handler, ConfirmVerify(h)
      PROVE  OnceInv'
  <2>1. CASE GoTo(h, "pay")
    <3>1. \A o \in Order : SameFor(o)
      BY <1>17, <1>0, <2>1 DEF ConfirmVerify, GoTo, SameFor, Paying, TypeOK
    <3> QED
      BY <1>17, <3>1, OnceFrame DEF ConfirmVerify, OnceInv
  <2>2. CASE Finish(h)
    <3>1. todo[h] = Lines(req[h].order)
      BY <1>17, <1>0, SavedDocs DEF ConfirmVerify, TakenInv, Paying
    <3> QED
      BY <1>17, <1>0, <2>2, <3>1, LeaverKeepsOnce DEF ConfirmVerify
  <2> QED
    BY <1>17, <2>1, <2>2 DEF ConfirmVerify
<1>18. ASSUME NEW h \in Handler, SavePaid(h)
      PROVE  OnceInv'
  BY <1>18, SavePaidKeepsOnce
<1>19. ASSUME NEW h \in Handler, ClearAfterPaid(h)
      PROVE  OnceInv'
  BY <1>19, <1>0, BystanderKeepsOnce DEF ClearAfterPaid, Finish, TypeOK
<1>20. ASSUME NEW h \in Handler, SaveEdit(h)
      PROVE  OnceInv'
  <2>1. /\ req[h].order \in Order
        /\ orders' = [orders EXCEPT ![req[h].order] =
                        Merged(orders[req[h].order], req[h].base, req[h].edit)]
    BY <1>20, <1>0, SavedDocs DEF SaveEdit
  <2>2. req[h].edit.paidAt = req[h].base.paidAt
    BY <1>20 DEF SaveEdit, Copies, NewDoc, CodeEdit
  <2>3. \A x \in Order : orders'[x].paidAt = orders[x].paidAt
    <3>1. Merged(orders[req[h].order], req[h].base, req[h].edit).paidAt = orders[req[h].order].paidAt
      BY <2>2, MergedFields
    <3> QED
      BY <2>1, <3>1 DEF TypeOK
  <2> QED
    BY <1>20, <1>0, <2>3, BystanderKeepsOnce DEF SaveEdit, Finish, TypeOK
<1>21. ASSUME NEW h \in Handler, SaveMissing(h)
      PROVE  OnceInv'
  <2>1. CASE at[h] = "pay"
    <3>1. db[req[h].order] = "deleted"
      BY <1>21, <1>0, <2>1, SavedDocs DEF SaveMissing, Routing, TypeOK, Row
    <3> QED
      BY <1>21, <1>0, <2>1, <3>1, LeaverKeepsOnce DEF SaveMissing
  <2>2. CASE at[h] # "pay"
    BY <1>21, <1>0, <2>2, BystanderKeepsOnce DEF SaveMissing, Finish, TypeOK
  <2> QED
    BY <2>1, <2>2
<1>22. ASSUME NEW h \in Handler, Reject(h)
      PROVE  OnceInv'
  <2>1. CASE at[h] \in {"verify", "pay"}
    <3>1. Finish(h) /\ UNCHANGED world /\ taken' = taken /\ exposed' = BrokenOff(h)
      BY <1>22, <2>1 DEF Reject, Fault, TrySteps
    <3>2. todo[h] = Lines(req[h].order) \/ req[h].order \in exposed'
      BY <1>0, <2>1, <3>1, SavedDocs DEF BrokenOff, TakenInv, Paying
    <3> QED
      BY <1>0, <2>1, <3>1, <3>2, LeaverKeepsOnce DEF BrokenOff
  <2>2. CASE at[h] \notin {"verify", "pay"}
    BY <1>22, <1>0, <2>2, BystanderKeepsOnce DEF Reject, Fault, BrokenOff, GoTo, Finish, TypeOK
  <2> QED
    BY <2>1, <2>2
<1>23. ASSUME NEW h \in Handler, Crash(h)
      PROVE  OnceInv'
  <2>1. CASE at[h] \in {"verify", "pay"}
    <3>1. Finish(h) /\ UNCHANGED world /\ taken' = taken /\ exposed' = BrokenOff(h)
      BY <1>23, <2>1 DEF Crash, Fault
    <3>2. todo[h] = Lines(req[h].order) \/ req[h].order \in exposed'
      BY <1>0, <2>1, <3>1, SavedDocs DEF BrokenOff, TakenInv, Paying
    <3> QED
      BY <1>0, <2>1, <3>1, <3>2, LeaverKeepsOnce DEF BrokenOff
  <2>2. CASE at[h] \notin {"verify", "pay"}
    BY <1>23, <1>0, <2>2, BystanderKeepsOnce DEF Crash, Fault, BrokenOff, GoTo, Finish, TypeOK
  <2> QED
    BY <2>1, <2>2
<1>24. ASSUME NEW h \in Handler, NEW p \in Product, DecrementStock(h, p)
      PROVE  OnceInv'
  BY <1>24, DecrementKeepsOnce
<1>25. ASSUME NEW h \in Handler, CreateOrderAtViva(h)
      PROVE  OnceInv'
  BY <1>25, <1>100 DEF CreateOrderAtViva
<1> HIDE DEF PaymentInv
<1> QED
  BY <1>100, <1>101, <1>1, <1>2, <1>3, <1>4, <1>5, <1>6, <1>7, <1>8, <1>9, <1>10,
     <1>11, <1>12, <1>13, <1>14, <1>15, <1>16, <1>17, <1>18, <1>19, <1>20, <1>21,
     <1>22, <1>23, <1>24, <1>25, NextActions

THEOREM OnceInvariant == Spec => []OnceInv
<1>1. Init => OnceInv
  BY DEF Init, OnceInv, Once, Paying, NewDoc, EmptyCart
<1>2. PaymentInv /\ TakenInv /\ OnceInv /\ [Next]_vars => OnceInv'
  BY OnceStep
<1> QED
  BY <1>1, <1>2, PaymentInvariant, TakenInvariant, PTL DEF Spec

\* Redelivered notifications and repeated confirmations take the stock of an
\* order once, for any number of handlers, as long as its payment handlers
\* neither overlap nor break off half-way.
THEOREM StockTakenOnce == Spec => []TakenOnce
<1>1. PaymentInv /\ TakenInv /\ OnceInv => TakenOnce
  BY DEF TakenOnce, OnceInv, Once, Lines
<1> QED
  BY <1>1, PaymentInvariant, TakenInvariant, OnceInvariant, PTL

\* A recorded payment is not recorded again, given another transaction or taken
\* back by whatever confirmations, notifications and stale saves follow, for
\* any number of handlers, as long as the order's payment handlers neither
\* overlapped nor broke off half-way.
THEOREM RecordedPaymentAlwaysKept == Spec => RecordedPaymentKept
<1> DEFINE Kept(o) == /\ orders'[o].paidAt
                      /\ orders'[o].vivaTransactionId = orders[o].vivaTransactionId
                      /\ \A h \in Handler :
                           ~(at[h] = "pay" /\ at'[h] = "clearpaid" /\ req[h].order = o)
<1>1. ASSUME PaymentInv, OnceInv, [Next]_vars, NEW o \in Order \ exposed, orders[o].paidAt
      PROVE  Kept(o)
  <2>1. \A h \in Handler : ~Paying(h, o)
    BY <1>1 DEF OnceInv, Once
  <2>2. CASE orders'[o] = orders[o]
    BY <1>1, <2>1, <2>2 DEF Paying
  <2>3. CASE orders'[o] # orders[o]
    <3>1. PICK h \in Handler :
            CheckoutSaveCode(h) \/ CheckoutCreate(h) \/ SaveEdit(h) \/ SavePaid(h)
      BY <1>1, <2>3, OrdersWriters
    <3>2. req[h].order \in Order
      BY <1>1, <3>1, SavedDocs
         DEF PaymentInv, CheckoutSaveCode, CheckoutCreate, SaveEdit, SavePaid
    <3>3. req[h].order = o
      BY <1>1, <2>3, <3>1, <3>2
         DEF PaymentInv, TypeOK, CheckoutSaveCode, CheckoutCreate, SaveEdit, SavePaid
    <3>4. ~CheckoutCreate(h)
      BY <1>1, <3>3 DEF CheckoutCreate, PaymentInv, Routing, Payable
    <3>5. ~SavePaid(h)
      BY <2>1, <3>3 DEF SavePaid, Paying
    <3>6. orders'[o] = Merged(orders[o], req[h].base, req[h].edit)
      BY <1>1, <3>1, <3>3, <3>4, <3>5
         DEF PaymentInv, TypeOK, CheckoutSaveCode, SaveEdit
    <3>7. /\ req[h].edit.paidAt = req[h].base.paidAt
          /\ req[h].edit.vivaTransactionId = req[h].base.vivaTransactionId
      BY <1>1, <3>1, <3>4, <3>5
         DEF PaymentInv, Copies, CheckoutSaveCode, SaveEdit, NewDoc, CodeEdit
    <3>8. /\ orders'[o].paidAt
          /\ orders'[o].vivaTransactionId = orders[o].vivaTransactionId
      BY <1>1, <3>6, <3>7, MergedFields
    <3> QED
      BY <2>1, <3>8 DEF Paying
  <2> QED
    BY <2>2, <2>3
<1>2. PaymentInv /\ OnceInv /\ [Next]_vars =>
        [\A o \in Order \ exposed : orders[o].paidAt => Kept(o)]_vars
  BY <1>1
<1> QED
  BY <1>2, PaymentInvariant, OnceInvariant, PTL DEF Spec, RecordedPaymentKept

-------------------------------------------------------------------------------
(* The life cycle of an order *)

\* A step that leaves existence, payment and links alone moves no order.
LEMMA StageKept ==
    ASSUME db' = db, url' = url, \A o \in Order : orders'[o].paidAt = orders[o].paidAt
    PROVE  StageOf' = StageOf
  BY DEF StageOf

\* A step that touches these of one order only moves that order at most.
LEMMA StageOfOthersKept ==
    ASSUME NEW o \in Order,
           \A x \in Order \ {o} : /\ db'[x] = db[x]
                                  /\ orders'[x].paidAt = orders[x].paidAt
                                  /\ x \in url' <=> x \in url
    PROVE  StageOf' = [StageOf EXCEPT ![o] = StageOf'[o]]
<1>1. ASSUME NEW x \in Order \ {o} PROVE StageOf'[x] = StageOf[x]
  BY <1>1 DEF StageOf
<1>2. StageOf = [x \in Order |-> StageOf[x]] /\ StageOf' = [x \in Order |-> StageOf'[x]]
  BY DEF StageOf
<1> QED
  BY <1>1, <1>2

\* checkout's create places the order.
LEMMA CreatePlaces ==
    ASSUME PaymentInv, NEW h \in Handler, CheckoutCreate(h)
    PROVE  Lifecycle!Next
<1> DEFINE o == req[h].order
<1>1. o \in Order /\ db[o] = "none" /\ o \notin url
  BY SavedDocs DEF CheckoutCreate, PaymentInv, Routing, CheckoutSteps
<1>2. /\ db' = [db EXCEPT ![o] = "stored"]
      /\ orders' = [orders EXCEPT ![o] = NewDoc]
      /\ url' = url
  BY DEF CheckoutCreate
<1>3. StageOf' = [StageOf EXCEPT ![o] = StageOf'[o]]
  BY <1>1, <1>2, StageOfOthersKept DEF PaymentInv, TypeOK
<1>4. StageOf[o] = "absent" /\ StageOf'[o] = "placed"
  BY <1>1, <1>2 DEF StageOf, PaymentInv, TypeOK, NewDoc
<1> QED
  BY <1>1, <1>3, <1>4 DEF Lifecycle!Next, Lifecycle!Place, Lifecycle!Move

\* The catch block withdraws an order whose checkout is not answered, paid or not.
LEMMA AbortWithdraws ==
    ASSUME PaymentInv, NEW h \in Handler, CheckoutAbort(h)
    PROVE  Lifecycle!Next
<1> DEFINE o == req[h].order
<1>1. o \in Order /\ db[o] = "stored" /\ o \notin url
  BY SavedDocs DEF CheckoutAbort, PaymentInv, Routing, CheckoutSteps
<1>2. db' = [db EXCEPT ![o] = "deleted"] /\ orders' = orders /\ url' = url
  BY DEF CheckoutAbort
<1>3. StageOf' = [StageOf EXCEPT ![o] = StageOf'[o]]
  BY <1>1, <1>2, StageOfOthersKept DEF PaymentInv, TypeOK
<1>4. StageOf[o] \in {"placed", "prepaid"} /\ StageOf'[o] = "withdrawn"
  BY <1>1, <1>2 DEF StageOf, PaymentInv, TypeOK
<1> QED
  BY <1>1, <1>3, <1>4 DEF Lifecycle!Next, Lifecycle!Withdraw, Lifecycle!Move

\* The answer of checkout offers the order to its customer.
LEMMA ClearCartOffers ==
    ASSUME PaymentInv, NEW h \in Handler, CheckoutClearCart(h)
    PROVE  Lifecycle!Next
<1> DEFINE o == req[h].order
<1>1. o \in Order /\ db[o] = "stored" /\ o \notin url
  BY SavedDocs DEF CheckoutClearCart, PaymentInv, Routing, CheckoutSteps
<1>2. db' = db /\ orders' = orders /\ url' = url \cup {o}
  BY DEF CheckoutClearCart
<1>3. StageOf' = [StageOf EXCEPT ![o] = StageOf'[o]]
  BY <1>1, <1>2, StageOfOthersKept
<1>4. \/ StageOf[o] = "placed" /\ StageOf'[o] = "payable"
      \/ StageOf[o] = "prepaid" /\ StageOf'[o] = "paid"
  BY <1>1, <1>2 DEF StageOf
<1> QED
  BY <1>1, <1>3, <1>4 DEF Lifecycle!Next, Lifecycle!Offer, Lifecycle!Move

\* A save of payment settles the order, or finds it settled already.
LEMMA SavePaidSettles ==
    ASSUME PaymentInv, NEW h \in Handler, SavePaid(h)
    PROVE  Lifecycle!Next \/ StageOf' = StageOf
<1> DEFINE o == req[h].order
<1>1. o \in Order /\ db[o] = "stored"
  BY SavedDocs DEF SavePaid, PaymentInv
<1>2. /\ orders' = [orders EXCEPT ![o] = Merged(orders[o], req[h].base, req[h].edit)]
      /\ db' = db /\ url' = url
  BY DEF SavePaid
<1>3. StageOf' = [StageOf EXCEPT ![o] = StageOf'[o]]
  BY <1>1, <1>2, StageOfOthersKept DEF PaymentInv, TypeOK
<1>4. ~req[h].base.paidAt /\ req[h].edit.paidAt
  BY DEF SavePaid, PaymentInv, Copies
<1>5. orders'[o] = Merged(orders[o], req[h].base, req[h].edit)
  BY <1>1, <1>2 DEF PaymentInv, TypeOK
<1>6. orders'[o].paidAt
  BY <1>4, <1>5, MergedFields
<1>7. StageOf'[o] = IF o \in url THEN "paid" ELSE "prepaid"
  BY <1>1, <1>2, <1>6 DEF StageOf
<1>8. StageOf[o] \in IF o \in url THEN {"payable", "paid"} ELSE {"placed", "prepaid"}
  BY <1>1 DEF StageOf
<1>9. StageOf = [StageOf EXCEPT ![o] = StageOf[o]]
  BY DEF StageOf
<1> QED
  BY <1>1, <1>3, <1>7, <1>8, <1>9 DEF Lifecycle!Next, Lifecycle!Settle, Lifecycle!Move

\* The saves of checkout, of the admin and of the receipt move no order.
LEMMA OtherSavesKeepStage ==
    ASSUME PaymentInv, NEW h \in Handler, CheckoutSaveCode(h) \/ SaveEdit(h)
    PROVE  StageOf' = StageOf
<1> DEFINE o == req[h].order
<1>1. o \in Order /\ at[h] \in {"savecode", "save"}
  BY SavedDocs DEF CheckoutSaveCode, SaveEdit, PaymentInv
<1>2. /\ orders' = [orders EXCEPT ![o] = Merged(orders[o], req[h].base, req[h].edit)]
      /\ db' = db /\ url' = url
  BY DEF CheckoutSaveCode, SaveEdit
<1>3. req[h].edit.paidAt = req[h].base.paidAt
  BY <1>1 DEF PaymentInv, Copies, NewDoc, CodeEdit
<1>4. Merged(orders[o], req[h].base, req[h].edit).paidAt = orders[o].paidAt
  BY <1>3, MergedFields
<1>5. \A x \in Order : orders'[x].paidAt = orders[x].paidAt
  BY <1>1, <1>2, <1>4 DEF PaymentInv, TypeOK
<1> QED
  BY <1>2, <1>5, StageKept

\* The handlers, whatever interleaves, fails or crashes, implement the life
\* cycle of OrderLifecycle: one creation, no withdrawal once checkout has been
\* answered (before, even a paid order may go), and no stale save that loses
\* a payment.
THEOREM OrdersImplementLifecycle == Spec => ImplementsLifecycle
<1>1. Init => Lifecycle!Init
  BY DEF Init, Lifecycle!Init, StageOf
<1>2. PaymentInv /\ [Next]_vars => [Lifecycle!Next]_StageOf
  <2> SUFFICES ASSUME PaymentInv, [Next]_vars
               PROVE  Lifecycle!Next \/ StageOf' = StageOf
    OBVIOUS
  <2>1. CASE UNCHANGED <<db, orders, url>>
    BY <2>1, StageKept
  <2> QED
    BY <2>1, StageWriters, CreatePlaces, AbortWithdraws, ClearCartOffers, SavePaidSettles,
       OtherSavesKeepStage
<1> QED
  BY <1>1, <1>2, PaymentInvariant, PTL DEF Spec, ImplementsLifecycle, Lifecycle!Spec
===============================================================================
