------------------------- MODULE OrderFulfilmentProofs -------------------------
(***************************************************************************)
(* Proofs about OrderFulfilment, for every set of orders, customers,       *)
(* products and handlers and every number of faults.                       *)
(***************************************************************************)
EXTENDS OrderFulfilment, TLAPS

\* Next, action by action, so that each proof below has one step per action.
LEMMA NextActions ==
    ASSUME Next
    PROVE  \/ \E u \in Customer, p \in Product, q \in 0..MaxQty : EditCart(u, p, q)
           \/ \E h \in Handler, o \in Order :
                \/ CheckoutRead(h, o) \/ ConfirmPaid(h, o) \/ ConfirmByCode(h, o)
                \/ \E t \in Transaction : ConfirmByTransaction(h, o, t) \/ WebhookPay(h, o, t)
                \/ ReceivedLoad(h, o)
                \/ \E s \in ORDER_STATUS, i \in Invoice : StatusLoad(h, o, s, i)
                \/ \E i \in Invoice : InvoiceLoad(h, o, i)
           \/ \E o \in Order : Pay(o) \/ WebhookIgnore(o)
           \/ \E h \in Handler :
                \/ CheckoutCreate(h) \/ CreateOrderAtViva(h) \/ CheckoutVivaOrder(h)
                \/ CheckoutSaveCode(h) \/ CheckoutClearCart(h) \/ CheckoutAbort(h) \/ ConfirmVerify(h)
                \/ SavePaid(h) \/ ClearAfterPaid(h) \/ SaveEdit(h) \/ SaveMissing(h)
                \/ Reject(h) \/ Crash(h)
                \/ \E p \in Product : DecrementStock(h, p)
  BY OrderFulfilmentAssumption
     DEF Next, Arrive, Notify, Transaction, HandlerStep, CheckoutStep, PaymentStep, AdminStatus, Invoice,
         OrderFulfilmentAssumption

\* A save of well-typed documents leaves a well-typed document.
LEMMA MergedType ==
    ASSUME NEW s \in Doc, NEW l \in Doc, NEW e \in Doc
    PROVE  Merged(s, l, e) \in Doc
  BY DEF Doc, Merged, Changed, ORDER_STATUS, Invoice, Transaction

LEMMA NewDocType == NewDoc \in Doc
  BY DEF NewDoc, Doc, ORDER_STATUS, Invoice, Transaction

\* Every handler's assignments keep a document well-typed.
LEMMA EditTypes ==
    ASSUME NEW d \in Doc
    PROVE  /\ CodeEdit(d) \in Doc
           /\ ReceivedEdit(d) \in Doc
           /\ \A t \in Transaction : PaidEdit(d, t) \in Doc
           /\ \A i \in Invoice : InvoiceEdit(d, i) \in Doc
           /\ \A s \in ORDER_STATUS, i \in Invoice : StatusEdit(d, s, i) \in Doc
<1> USE DEF Doc, ORDER_STATUS
<1>1. CodeEdit(d) \in Doc
  BY DEF CodeEdit
<1>2. ReceivedEdit(d) \in Doc
  BY DEF ReceivedEdit
<1>3. ASSUME NEW t \in Transaction PROVE PaidEdit(d, t) \in Doc
  BY DEF PaidEdit
<1>4. ASSUME NEW i \in Invoice PROVE InvoiceEdit(d, i) \in Doc
  BY DEF InvoiceEdit
<1>5. ASSUME NEW s \in ORDER_STATUS, NEW i \in Invoice PROVE StatusEdit(d, s, i) \in Doc
  BY DEF StatusEdit
<1> QED
  BY <1>1, <1>2, <1>3, <1>4, <1>5

LEMMA NoRequestType == NoRequest \in Request
  BY NewDocType DEF NoRequest, Request, Kind

\* The part of the type invariant that is about the handlers.
LocalTypes ==
    /\ at \in [Handler -> Step]
    /\ req \in [Handler -> Request]
    /\ todo \in [Handler -> SUBSET Product]
    /\ \A h \in Handler : at[h] = "idle" <=> req[h].order = NoOrder

LEMMA TypeStep ==
    ASSUME TypeOK, [Next]_vars
    PROVE  TypeOK'
<1> USE OrderFulfilmentAssumption DEF TypeOK, LocalTypes
<1>1. CASE UNCHANGED vars
  BY <1>1 DEF vars, world, handlers, history
<1>2. ASSUME NEW u \in Customer, NEW p \in Product, NEW q \in 0..MaxQty, EditCart(u, p, q)
      PROVE  TypeOK'
  BY <1>2 DEF EditCart, handlers, history, Request
<1>3. ASSUME NEW h \in Handler, NEW o \in Order,
             NEW kind \in Kind, NEW b \in Doc, NEW e \in Doc, NEW step \in Step \ {"idle"},
             Begin(h, kind, o, b, e, step)
      PROVE  LocalTypes'
  BY <1>3 DEF Begin, Request, Lines
<1>4. ASSUME NEW h \in Handler, Finish(h)
      PROVE  LocalTypes'
  BY <1>4, NoRequestType DEF Finish, Step, NoRequest
<1>5. ASSUME NEW h \in Handler, NEW step \in Step \ {"idle"}, at[h] # "idle", GoTo(h, step)
      PROVE  LocalTypes'
  BY <1>5 DEF GoTo
<1>6. ASSUME NEW h \in Handler, NEW o \in Order, CheckoutRead(h, o)
      PROVE  TypeOK'
  BY <1>6, <1>3, NewDocType, OrderFulfilmentAssumption DEF CheckoutRead, history, Kind, Step
<1>8. ASSUME NEW h \in Handler, NEW o \in Order, ConfirmPaid(h, o)
      PROVE  TypeOK'
  BY <1>8, <1>3, NewDocType DEF ConfirmPaid, history, world, Kind, Step
<1>9. ASSUME NEW h \in Handler, NEW o \in Order, NEW t \in Transaction,
             ConfirmByTransaction(h, o, t)
      PROVE  TypeOK'
  BY <1>9, <1>3, EditTypes DEF ConfirmByTransaction, BeginPayment, world, Kind, Step
<1>10. ASSUME NEW h \in Handler, NEW o \in Order, ConfirmByCode(h, o)
      PROVE  TypeOK'
  BY <1>10, <1>3, EditTypes DEF ConfirmByCode, BeginPayment, world, Kind, Step, Transaction
<1>11. ASSUME NEW h \in Handler, NEW o \in Order, NEW t \in Transaction, WebhookPay(h, o, t)
      PROVE  TypeOK'
  BY <1>11, <1>3, EditTypes DEF WebhookPay, BeginPayment, world, Kind, Step
<1>12. ASSUME NEW h \in Handler, NEW o \in Order, ReceivedLoad(h, o)
      PROVE  TypeOK'
  BY <1>12, <1>3, EditTypes DEF ReceivedLoad, history, world, Kind, Step
<1>13. ASSUME NEW h \in Handler, NEW o \in Order, NEW s \in ORDER_STATUS, NEW i \in Invoice,
             StatusLoad(h, o, s, i)
      PROVE  TypeOK'
  BY <1>13, <1>3, EditTypes DEF StatusLoad, world, history, Kind, Step
<1>14. ASSUME NEW h \in Handler, NEW o \in Order, NEW i \in Invoice, InvoiceLoad(h, o, i)
      PROVE  TypeOK'
  BY <1>14, <1>3, EditTypes DEF InvoiceLoad, world, history, Kind, Step
<1>15. ASSUME NEW o \in Order, Pay(o)
      PROVE  TypeOK'
  BY <1>15 DEF Pay, handlers, history, Payment
<1>16. ASSUME NEW o \in Order, WebhookIgnore(o)
      PROVE  TypeOK'
  BY <1>16 DEF WebhookIgnore, handlers, history, Payment
<1>17. ASSUME NEW h \in Handler, CheckoutCreate(h)
      PROVE  TypeOK'
  BY <1>17, <1>5, NewDocType DEF CheckoutCreate, GoTo, Row, Step, history, Request
<1>18. ASSUME NEW h \in Handler, CheckoutVivaOrder(h)
      PROVE  TypeOK'
  BY <1>18, <1>3, EditTypes
     DEF CheckoutVivaOrder, Kind, Step, Request, world, history
<1>19. ASSUME NEW h \in Handler, CheckoutSaveCode(h)
      PROVE  TypeOK'
  BY <1>19, <1>5, MergedType DEF CheckoutSaveCode, Step, Request, history
<1>20. ASSUME NEW h \in Handler, CheckoutClearCart(h)
      PROVE  TypeOK'
  BY <1>20, <1>4 DEF CheckoutClearCart, EmptyCart, Request, history
<1>21. ASSUME NEW h \in Handler, CheckoutAbort(h)
      PROVE  TypeOK'
  BY <1>21, <1>4 DEF CheckoutAbort, Row, Request, history
<1>22. ASSUME NEW h \in Handler, ConfirmVerify(h)
      PROVE  TypeOK'
  BY <1>22, <1>4, <1>5 DEF ConfirmVerify, world, history, Step
<1>23. ASSUME NEW h \in Handler, SavePaid(h)
      PROVE  TypeOK'
  BY <1>23, <1>3, MergedType, NewDocType DEF SavePaid, Step, Request, history
<1>24. ASSUME NEW h \in Handler, ClearAfterPaid(h)
      PROVE  TypeOK'
  BY <1>24, <1>4 DEF ClearAfterPaid, EmptyCart, Request, history
<1>25. ASSUME NEW h \in Handler, SaveEdit(h)
      PROVE  TypeOK'
  BY <1>25, <1>4, MergedType DEF SaveEdit, Request
<1>26. ASSUME NEW h \in Handler, SaveMissing(h)
      PROVE  TypeOK'
  BY <1>26, <1>4 DEF SaveMissing, world, history
<1>27. ASSUME NEW h \in Handler, Reject(h)
      PROVE  TypeOK'
  BY <1>27, <1>4, <1>5 DEF Reject, Fault, BrokenOff, CutOff, world, Step, Request
<1>28. ASSUME NEW h \in Handler, Crash(h)
      PROVE  TypeOK'
  BY <1>28, <1>4 DEF Crash, Fault, BrokenOff, CutOff, world, Request
<1>29. ASSUME NEW h \in Handler, NEW p \in Product, DecrementStock(h, p)
      PROVE  TypeOK'
  BY <1>29 DEF DecrementStock, Request
<1>30. ASSUME NEW h \in Handler, CreateOrderAtViva(h)
      PROVE  TypeOK'
  BY <1>30 DEF CreateOrderAtViva, Payment, Request, handlers, history
<1> QED
  BY <1>1, <1>2, <1>6, <1>8, <1>9, <1>10, <1>11, <1>12, <1>13, <1>14, <1>15, <1>16, <1>17, <1>18, <1>19, <1>20, <1>21, <1>22, <1>23, <1>24, <1>25, <1>26, <1>27, <1>28, <1>29, <1>30,
     NextActions

\* Every variable keeps its type: quantities, stock and history stay numbers,
\* documents and the handlers' copies of them stay documents of the schema.
THEOREM TypeCorrect == Spec => []TypeOK
<1>1. Init => TypeOK
  BY OrderFulfilmentAssumption, NewDocType, NoRequestType
     DEF Init, TypeOK, Row, Payment, Step, EmptyCart, NoRequest
<1> QED
  BY <1>1, TypeStep, PTL DEF Spec

-------------------------------------------------------------------------------
\* Who works on an order, the copies handlers hold, and what can be paid for
\* support each other: PaymentInv is kept by every step.
LEMMA PaymentStepInv ==
    ASSUME PaymentInv, [Next]_vars
    PROVE  PaymentInv'
<1> USE OrderFulfilmentAssumption
    DEF PaymentInv, Routing, Copies, Payable, TypeOK, world, handlers, history,
        CheckoutSteps, Request, Doc, Step, Row
<1> DEFINE Goal == Routing' /\ Copies' /\ Payable'
<1>0. CASE UNCHANGED vars
  BY <1>0 DEF vars
<1>1. ASSUME NEW u \in Customer, NEW p \in Product, NEW q \in 0..MaxQty, EditCart(u, p, q)
      PROVE  Goal
  BY <1>1 DEF EditCart
<1>2. ASSUME NEW h \in Handler, NEW o \in Order, CheckoutRead(h, o)
      PROVE  Goal
  BY <1>2 DEF CheckoutRead, Begin
<1>3. ASSUME NEW h \in Handler, NEW o \in Order, ConfirmPaid(h, o)
      PROVE  Goal
  BY <1>3 DEF ConfirmPaid, Begin, AlreadyPaid
<1>4. ASSUME NEW h \in Handler, NEW o \in Order, NEW t \in Transaction,
             ConfirmByTransaction(h, o, t)
      PROVE  Goal
  BY <1>4 DEF ConfirmByTransaction, BeginPayment, Begin, AlreadyPaid, PaidEdit
<1>5. ASSUME NEW h \in Handler, NEW o \in Order, ConfirmByCode(h, o)
      PROVE  Goal
  BY <1>5 DEF ConfirmByCode, BeginPayment, Begin, AlreadyPaid, PaidEdit
<1>6. ASSUME NEW h \in Handler, NEW o \in Order, NEW t \in Transaction, WebhookPay(h, o, t)
      PROVE  Goal
  BY <1>6 DEF WebhookPay, BeginPayment, Begin, AlreadyPaid, PaidEdit
<1>7. ASSUME NEW h \in Handler, NEW o \in Order, ReceivedLoad(h, o)
      PROVE  Goal
  BY <1>7 DEF ReceivedLoad, Begin, ReceivedEdit
<1>8. ASSUME NEW h \in Handler, NEW o \in Order,
               NEW s \in ORDER_STATUS, NEW i \in Invoice, StatusLoad(h, o, s, i)
      PROVE  Goal
  BY <1>8 DEF StatusLoad, Begin, StatusEdit
<1>9. ASSUME NEW h \in Handler, NEW o \in Order, NEW i \in Invoice, InvoiceLoad(h, o, i)
      PROVE  Goal
  BY <1>9 DEF InvoiceLoad, Begin, InvoiceEdit
<1>10. ASSUME NEW o \in Order, Pay(o)
      PROVE  Goal
  BY <1>10 DEF Pay
<1>11. ASSUME NEW o \in Order, WebhookIgnore(o)
      PROVE  Goal
  BY <1>11 DEF WebhookIgnore
<1>12. ASSUME NEW h \in Handler, CheckoutCreate(h)
      PROVE  Goal
  BY <1>12 DEF CheckoutCreate, GoTo, NewDoc
<1>13. ASSUME NEW h \in Handler, CheckoutVivaOrder(h)
      PROVE  Goal
  BY <1>13 DEF CheckoutVivaOrder, Begin
<1>14. ASSUME NEW h \in Handler, CheckoutSaveCode(h)
      PROVE  Goal
  BY <1>14 DEF CheckoutSaveCode, GoTo, Merged, Changed, NewDoc, CodeEdit
<1>15. ASSUME NEW h \in Handler, CheckoutClearCart(h)
      PROVE  Goal
  BY <1>15 DEF CheckoutClearCart, Finish, NoRequest
<1>16. ASSUME NEW h \in Handler, CheckoutAbort(h)
      PROVE  Goal
  BY <1>16 DEF CheckoutAbort, Finish, NoRequest
<1>17. ASSUME NEW h \in Handler, ConfirmVerify(h)
      PROVE  Goal
  <2>1. CASE GoTo(h, "pay")
    BY <1>17, <2>1 DEF ConfirmVerify, GoTo
  <2>2. CASE Finish(h)
    BY <1>17, <2>2 DEF ConfirmVerify, Finish, NoRequest, NewDoc
  <2> QED
    BY <1>17, <2>1, <2>2 DEF ConfirmVerify
<1>18. ASSUME NEW h \in Handler, SavePaid(h)
      PROVE  Goal
  BY <1>18 DEF SavePaid, Begin, Merged, Changed
<1>19. ASSUME NEW h \in Handler, ClearAfterPaid(h)
      PROVE  Goal
  BY <1>19 DEF ClearAfterPaid, Finish, NoRequest
<1>20. ASSUME NEW h \in Handler, SaveEdit(h)
      PROVE  Goal
  BY <1>20 DEF SaveEdit, Finish, NoRequest, Merged, Changed
<1>21. ASSUME NEW h \in Handler, SaveMissing(h)
      PROVE  Goal
  BY <1>21 DEF SaveMissing, Finish, NoRequest
<1>22. ASSUME NEW h \in Handler, Reject(h)
      PROVE  Goal
  <2>1. CASE at[h] \in TrySteps
    BY <1>22, <2>1 DEF Reject, Fault, TrySteps, GoTo
  <2>2. CASE Finish(h)
    BY <1>22, <2>2 DEF Reject, Fault, Finish, NoRequest, NewDoc
  <2> QED
    BY <1>22, <2>1, <2>2 DEF Reject
<1>23. ASSUME NEW h \in Handler, Crash(h)
      PROVE  Goal
  BY <1>23 DEF Crash, Fault, Finish, NoRequest
<1>24. ASSUME NEW h \in Handler, NEW p \in Product, DecrementStock(h, p)
      PROVE  Goal
  BY <1>24 DEF DecrementStock
<1>25. ASSUME NEW h \in Handler, CreateOrderAtViva(h)
      PROVE  Goal
  <2>1. req[h].order \in Order /\ db[req[h].order] = "stored"
    BY <1>25 DEF CreateOrderAtViva
  <2>2. Routing' /\ Copies'
    BY <1>25 DEF CreateOrderAtViva
  <2>3. Payable'
    BY <1>25, <2>1 DEF CreateOrderAtViva
  <2> QED
    BY <2>2, <2>3
<1> HIDE DEF PaymentInv, Routing, Copies, Payable, TypeOK, world, handlers, history
<1>26. TypeOK'
  BY TypeStep DEF PaymentInv
<1>27. ASSUME NEW h \in Handler, NEW o \in Order,
              \/ CheckoutRead(h, o) \/ ConfirmPaid(h, o) \/ ConfirmByCode(h, o)
              \/ \E t \in Transaction : ConfirmByTransaction(h, o, t) \/ WebhookPay(h, o, t)
              \/ ReceivedLoad(h, o)
              \/ \E s \in ORDER_STATUS, i \in Invoice : StatusLoad(h, o, s, i)
              \/ \E i \in Invoice : InvoiceLoad(h, o, i)
       PROVE  Goal
  BY <1>27, <1>2, <1>3, <1>4, <1>5, <1>6, <1>7, <1>8, <1>9
<1>28. ASSUME NEW h \in Handler,
              \/ CheckoutCreate(h) \/ CreateOrderAtViva(h) \/ CheckoutVivaOrder(h)
              \/ CheckoutSaveCode(h) \/ CheckoutClearCart(h) \/ CheckoutAbort(h)
              \/ ConfirmVerify(h) \/ SavePaid(h) \/ ClearAfterPaid(h) \/ SaveEdit(h)
              \/ SaveMissing(h) \/ Reject(h) \/ Crash(h)
              \/ \E p \in Product : DecrementStock(h, p)
       PROVE  Goal
  BY <1>28, <1>12, <1>13, <1>14, <1>15, <1>16, <1>17, <1>18, <1>19, <1>20, <1>21,
     <1>22, <1>23, <1>24, <1>25
<1> QED
  BY <1>0, <1>1, <1>10, <1>11, <1>26, <1>27, <1>28, NextActions DEF PaymentInv

THEOREM PaymentInvariant == Spec => []PaymentInv
<1>1. Init => PaymentInv
  BY OrderFulfilmentAssumption, NewDocType, NoRequestType
     DEF Init, PaymentInv, Routing, Copies, Payable, TypeOK, Row, Payment, Step, EmptyCart,
         NoRequest, CheckoutSteps, NewDoc
<1> QED
  BY <1>1, PaymentStepInv, PTL DEF Spec

-------------------------------------------------------------------------------
\* A step keeps AccountedInv when it makes and hides no payment order and no
\* findable order, forgets no broken checkout, and its handler is not in the
\* part of checkout that AccountedInv speaks of.
LEMMA BystanderKeepsAccounted ==
    ASSUME TypeOK, AccountedInv, NEW h \in Handler,
           viva' = viva, cut \subseteq cut',
           \A o \in Order : db[o] = "stored" /\ orders[o].vivaOrderCode =>
                              db'[o] = "stored" /\ orders'[o].vivaOrderCode,
           \A g \in Handler \ {h} : at'[g] = at[g] /\ req'[g].order = req[g].order,
           at[h] \notin {"viva", "savecode"}, at'[h] # "abort"
    PROVE  AccountedInv'
  BY DEF AccountedInv, Accounted

\* A save that does not touch the order code leaves a findable order findable.
LEMMA SaveKeepsCode ==
    ASSUME TypeOK, NEW h \in Handler, req[h].order \in Order,
           req[h].edit.vivaOrderCode = req[h].base.vivaOrderCode,
           orders' = [orders EXCEPT ![req[h].order] = Merged(@, req[h].base, req[h].edit)]
    PROVE  \A o \in Order : orders'[o].vivaOrderCode = orders[o].vivaOrderCode
<1>1. Merged(orders[req[h].order], req[h].base, req[h].edit).vivaOrderCode
        = orders[req[h].order].vivaOrderCode
  BY DEF Merged, Changed
<1> QED
  BY <1>1 DEF TypeOK

\* Every step keeps track of the payment orders that nobody will find: only
\* checkout's own steps, its failures and its crashes matter.
LEMMA AccountedStep ==
    ASSUME PaymentInv, AccountedInv, [Next]_vars
    PROVE  AccountedInv'
<1> USE DEF world, handlers, history
<1>0. TypeOK
  BY DEF PaymentInv
<1>1. ASSUME UNCHANGED <<db, orders, viva, at, req, cut>>
      PROVE  AccountedInv'
  BY <1>1 DEF AccountedInv, Accounted
<1>2. ASSUME NEW h \in Handler, UNCHANGED <<db, orders, viva>>, cut' = cut, at[h] = "idle",
             \E kind, o, b, e, step : step # "abort" /\ Begin(h, kind, o, b, e, step)
      PROVE  AccountedInv'
  BY <1>0, <1>2, BystanderKeepsAccounted DEF Begin, TypeOK
<1>3. ASSUME NEW h \in Handler, UNCHANGED <<db, orders, viva>>, cut \subseteq cut',
             at[h] \notin {"viva", "savecode"}, Finish(h)
      PROVE  AccountedInv'
  BY <1>0, <1>3, BystanderKeepsAccounted DEF Finish, TypeOK
<1>4. CASE UNCHANGED vars
  BY <1>1, <1>4 DEF vars
<1>5. ASSUME NEW u \in Customer, NEW p \in Product, NEW q \in 0..MaxQty, EditCart(u, p, q)
      PROVE  AccountedInv'
  BY <1>1, <1>5 DEF EditCart
<1>6. ASSUME NEW h \in Handler, NEW o \in Order, CheckoutRead(h, o)
      PROVE  AccountedInv'
  BY <1>2, <1>6 DEF CheckoutRead
<1>7. ASSUME NEW h \in Handler, NEW o \in Order, ConfirmPaid(h, o)
      PROVE  AccountedInv'
  BY <1>2, <1>7 DEF ConfirmPaid
<1>8. ASSUME NEW h \in Handler, NEW o \in Order, NEW t \in Transaction,
             ConfirmByTransaction(h, o, t) \/ WebhookPay(h, o, t)
      PROVE  AccountedInv'
  BY <1>2, <1>8 DEF ConfirmByTransaction, WebhookPay, BeginPayment
<1>9. ASSUME NEW h \in Handler, NEW o \in Order, ConfirmByCode(h, o)
      PROVE  AccountedInv'
  BY <1>2, <1>9 DEF ConfirmByCode, BeginPayment
<1>10. ASSUME NEW h \in Handler, NEW o \in Order, ReceivedLoad(h, o)
      PROVE  AccountedInv'
  BY <1>2, <1>10 DEF ReceivedLoad
<1>11. ASSUME NEW h \in Handler, NEW o \in Order,
              NEW s \in ORDER_STATUS, NEW i \in Invoice, StatusLoad(h, o, s, i)
      PROVE  AccountedInv'
  BY <1>2, <1>11 DEF StatusLoad
<1>12. ASSUME NEW h \in Handler, NEW o \in Order, NEW i \in Invoice, InvoiceLoad(h, o, i)
      PROVE  AccountedInv'
  BY <1>2, <1>12 DEF InvoiceLoad
<1>13. ASSUME NEW o \in Order, Pay(o)
      PROVE  AccountedInv'
  <2>1. \A x \in Order : viva'[x] # "none" => viva[x] # "none"
    BY <1>0, <1>13 DEF Pay, TypeOK
  <2>2. \A h \in Handler : at[h] = "abort" => req[h].order \in Order
    BY <1>0, OrderFulfilmentAssumption DEF TypeOK, Request
  <2> QED
    BY <1>13, <2>1, <2>2 DEF Pay, AccountedInv, Accounted
<1>14. ASSUME NEW o \in Order, WebhookIgnore(o)
      PROVE  AccountedInv'
  BY <1>1, <1>14 DEF WebhookIgnore
<1>15. ASSUME NEW h \in Handler, CheckoutCreate(h)
      PROVE  AccountedInv'
  <2>1. req[h].order \in Order /\ db[req[h].order] = "none"
    BY <1>15, <1>0, OrderFulfilmentAssumption
       DEF CheckoutCreate, PaymentInv, Routing, TypeOK, Request
  <2> QED
    BY <1>15, <1>0, <2>1, BystanderKeepsAccounted DEF CheckoutCreate, GoTo, TypeOK
<1>16. ASSUME NEW h \in Handler, CreateOrderAtViva(h)
      PROVE  AccountedInv'
  <2>1. req[h].order \in Order /\ at[h] = "viva"
    BY <1>16, <1>0, OrderFulfilmentAssumption DEF CreateOrderAtViva, TypeOK, Request
  <2>2. \A x \in Order : viva'[x] # "none" => viva[x] # "none" \/ x = req[h].order
    BY <1>16, <1>0 DEF CreateOrderAtViva, TypeOK
  <2>3. \A g \in Handler : at[g] = "abort" => req[g].order \in Order /\ req[g].order # req[h].order
    BY <1>0, <2>1, OrderFulfilmentAssumption
       DEF TypeOK, Request, PaymentInv, Routing, CheckoutSteps
  <2>4. ASSUME NEW x \in Order, viva'[x] # "none"
        PROVE  Accounted(x)'
    BY <1>16, <2>1, <2>2, <2>4 DEF CreateOrderAtViva, AccountedInv, Accounted
  <2>5. ASSUME NEW g \in Handler, at'[g] = "abort", viva'[req'[g].order] # "none"
        PROVE  req'[g].order \in cut'
    BY <1>16, <2>2, <2>3, <2>5 DEF CreateOrderAtViva, AccountedInv
  <2> QED
    BY <2>4, <2>5 DEF AccountedInv
<1>17. ASSUME NEW h \in Handler, CheckoutVivaOrder(h)
      PROVE  AccountedInv'
  <2>1. /\ at'[h] = "savecode" /\ req'[h].order = req[h].order
        /\ \A g \in Handler \ {h} : at'[g] = at[g] /\ req'[g] = req[g]
        /\ UNCHANGED <<db, orders, viva, cut>>
    BY <1>17, <1>0 DEF CheckoutVivaOrder, Begin, TypeOK
  <2>2. ASSUME NEW x \in Order, viva'[x] # "none"
        PROVE  Accounted(x)'
    BY <2>1, <2>2 DEF AccountedInv, Accounted
  <2> QED
    BY <2>1, <2>2 DEF AccountedInv
<1>18. ASSUME NEW h \in Handler, CheckoutSaveCode(h)
      PROVE  AccountedInv'
  <2>1. /\ req[h].order \in Order /\ db[req[h].order] = "stored"
        /\ req[h].base = NewDoc /\ req[h].edit = CodeEdit(NewDoc)
    BY <1>18, <1>0, OrderFulfilmentAssumption
       DEF CheckoutSaveCode, PaymentInv, Routing, Copies, CheckoutSteps, TypeOK, Request
  <2>2. Merged(orders[req[h].order], req[h].base, req[h].edit).vivaOrderCode
    BY <2>1 DEF Merged, Changed, CodeEdit, NewDoc
  <2>3. /\ orders'[req[h].order].vivaOrderCode
        /\ \A x \in Order \ {req[h].order} : orders'[x] = orders[x]
        /\ at'[h] = "clear" /\ \A g \in Handler \ {h} : at'[g] = at[g]
        /\ UNCHANGED <<db, viva, cut, req>>
    BY <1>18, <1>0, <2>1, <2>2 DEF CheckoutSaveCode, GoTo, TypeOK
  <2>4. ASSUME NEW x \in Order, viva'[x] # "none"
        PROVE  Accounted(x)'
    BY <2>1, <2>3, <2>4 DEF AccountedInv, Accounted
  <2> QED
    BY <2>3, <2>4 DEF AccountedInv
<1>19. ASSUME NEW h \in Handler, CheckoutClearCart(h)
      PROVE  AccountedInv'
  BY <1>3, <1>19 DEF CheckoutClearCart
<1>20. ASSUME NEW h \in Handler, CheckoutAbort(h)
      PROVE  AccountedInv'
  <2>1. /\ at[h] = "abort" /\ Finish(h)
        /\ \A x \in Order \ {req[h].order} : db'[x] = db[x]
        /\ UNCHANGED <<orders, viva, cut>>
    BY <1>20, <1>0 DEF CheckoutAbort, TypeOK
  <2>2. \A g \in Handler : at'[g] = "abort" \/ at[g] \in {"viva", "savecode"} =>
                              at'[g] = at[g] /\ req'[g] = req[g]
    BY <1>0, <2>1 DEF Finish, TypeOK
  <2>3. ASSUME NEW x \in Order, viva'[x] # "none"
        PROVE  Accounted(x)'
    BY <2>1, <2>2, <2>3 DEF AccountedInv, Accounted
  <2> QED
    BY <2>1, <2>2, <2>3 DEF AccountedInv
<1>21. ASSUME NEW h \in Handler, ConfirmVerify(h)
      PROVE  AccountedInv'
  BY <1>0, <1>21, BystanderKeepsAccounted DEF ConfirmVerify, GoTo, Finish, TypeOK
<1>22. ASSUME NEW h \in Handler, SavePaid(h)
      PROVE  AccountedInv'
  <2>1. /\ req[h].order \in Order
        /\ req[h].edit.vivaOrderCode = req[h].base.vivaOrderCode
    BY <1>22, <1>0, OrderFulfilmentAssumption DEF SavePaid, PaymentInv, Copies, TypeOK, Request
  <2> QED
    BY <1>22, <1>0, <2>1, SaveKeepsCode, BystanderKeepsAccounted DEF SavePaid, Begin, TypeOK
<1>23. ASSUME NEW h \in Handler, ClearAfterPaid(h)
      PROVE  AccountedInv'
  BY <1>3, <1>23 DEF ClearAfterPaid
<1>24. ASSUME NEW h \in Handler, SaveEdit(h)
      PROVE  AccountedInv'
  <2>1. /\ req[h].order \in Order
        /\ req[h].edit.vivaOrderCode = req[h].base.vivaOrderCode
    BY <1>24, <1>0, OrderFulfilmentAssumption DEF SaveEdit, PaymentInv, Copies, TypeOK, Request
  <2> QED
    BY <1>24, <1>0, <2>1, SaveKeepsCode, BystanderKeepsAccounted DEF SaveEdit, Finish, TypeOK
<1>25. ASSUME NEW h \in Handler, SaveMissing(h)
      PROVE  AccountedInv'
  BY <1>3, <1>25 DEF SaveMissing
<1>26. ASSUME NEW h \in Handler, Reject(h) \/ Crash(h)
      PROVE  AccountedInv'
  <2>1. /\ UNCHANGED <<db, orders, viva>> /\ cut' = CutOff(h)
        /\ Finish(h) \/ (at[h] \in TrySteps /\ GoTo(h, "abort"))
    BY <1>26 DEF Reject, Crash, Fault
  <2>2. /\ \A g \in Handler \ {h} : at'[g] = at[g] /\ req'[g] = req[g]
        /\ cut \subseteq cut'
        /\ at'[h] # "abort" \/ (at[h] \in TrySteps /\ req'[h] = req[h])
        /\ at[h] \in TrySteps /\ viva[req[h].order] # "none" => req[h].order \in cut'
    BY <1>0, <2>1 DEF Finish, GoTo, CutOff, TypeOK
  <2>3. ASSUME NEW x \in Order, viva'[x] # "none"
        PROVE  Accounted(x)'
    BY <2>1, <2>2, <2>3 DEF AccountedInv, Accounted, TrySteps
  <2>4. ASSUME NEW g \in Handler, at'[g] = "abort", viva'[req'[g].order] # "none"
        PROVE  req'[g].order \in cut'
    BY <2>1, <2>2, <2>4 DEF AccountedInv
  <2> QED
    BY <2>3, <2>4 DEF AccountedInv
<1>27. ASSUME NEW h \in Handler, NEW p \in Product, DecrementStock(h, p)
      PROVE  AccountedInv'
  BY <1>1, <1>27 DEF DecrementStock
<1> QED
  BY <1>4, <1>5, <1>6, <1>7, <1>8, <1>9, <1>10, <1>11, <1>12, <1>13, <1>14, <1>15,
     <1>16, <1>17, <1>18, <1>19, <1>20, <1>21, <1>22, <1>23, <1>24, <1>25, <1>26,
     <1>27, NextActions

\* A finalised payment whose order cannot be found is of a checkout that has
\* not saved the order code yet, or broke off, for any number of handlers and
\* faults; the order of an answered checkout is always found.
THEOREM PaymentAlwaysHasOrder == Spec => []PaymentHasOrder
<1>1. Init => AccountedInv
  BY DEF Init, AccountedInv
<1>2. PaymentInv /\ AccountedInv /\ [Next]_vars => AccountedInv'
  BY AccountedStep
<1>3. PaymentInv /\ AccountedInv => PaymentHasOrder
  BY DEF PaymentInv, Payable, AccountedInv, Accounted, PaymentHasOrder
<1> QED
  BY <1>1, <1>2, <1>3, PaymentInvariant, PTL DEF Spec

\* A cart is emptied only on behalf of an order that can be paid, or is.
THEOREM CartClearedOnlyForPayableOrder == Spec => []CartClearedForPayableOrder
<1>1. PaymentInv => CartClearedForPayableOrder
  BY OrderFulfilmentAssumption
     DEF PaymentInv, Payable, Routing, Copies, TypeOK, Request, CheckoutSteps,
         CartClearedForPayableOrder
<1> QED
  BY <1>1, PaymentInvariant, PTL
===============================================================================
