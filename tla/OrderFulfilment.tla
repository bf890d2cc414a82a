---------------------------- MODULE OrderFulfilment ----------------------------
(***************************************************************************)
(* Orders from checkout to receipt: modules/orders/order.service.ts with   *)
(* the collections it writes (orders, products.stockQty, carts) and the    *)
(* payment provider it calls (infrastructure/viva).                        *)
(*                                                                         *)
(* An HTTP request is a handler: every database or provider call it awaits *)
(* is a step of its own, so handlers interleave, are refused by the        *)
(* database or the provider (Reject), or die with the process (Crash)      *)
(* between any two of them. A handler works on the document it loaded; a   *)
(* save writes back only the paths whose value differs from the loaded one *)
(* (mongoose's $set of modified paths; the schema has no version key).     *)
(***************************************************************************)
EXTENDS Integers, FiniteSets

CONSTANTS
    Order,          \* the ids OrderModel.create can draw
    NoOrder,        \* no order: the target of an idle handler
    Customer,
    Owner,          \* Owner[o]: the customer whose checkout draws id o
    Product,
    Handler,        \* requests served at the same time
    MaxQty,         \* bound: largest quantity of a cart line
    InitialStock,   \* InitialStock[p]: stockQty of p at the start
    InvoiceInput,   \* bound: the invoices an admin sends
    TransactionInput, \* bound: the transactions confirmations and notifications name
    MaxFaults       \* bound: rejected calls and crashes in a behaviour

ASSUME OrderFulfilmentAssumption ==
    /\ NoOrder \notin Order
    /\ Owner \in [Order -> Customer]
    /\ MaxQty \in Nat \ {0}
    /\ InitialStock \in [Product -> Nat]
    /\ InvoiceInput \subseteq {"file", "removed"}
    /\ TransactionInput \subseteq {"own", "other"}
    /\ MaxFaults \in Nat

VARIABLES
    db,        \* db[o]: whether the order's document is in the collection
    items,     \* items[o]: the lines snapshotted from the cart at checkout
    orders,    \* orders[o]: the mutable fields of the stored document
    stock,     \* stock[p]: products.stockQty
    cart,      \* cart[u][p]: quantity in the cart, 0 for no line
    viva,      \* viva[o]: the provider's payment order
    url,       \* orders whose checkout has been answered with the payment link
    webhook,   \* orders whose payment notification is not acknowledged yet
    at,        \* at[h]: the call the handler awaits
    req,       \* req[h]: what it serves, the document it loaded and edited
    todo,      \* todo[h]: lines whose stock it has still to decrement
    faults,    \* rejected calls and crashes so far
    taken,     \* history: taken[o][p] counts the decrements of p for o
    exposed,   \* history: orders whose payment handlers overlapped or broke off
    early,     \* history: orders dispatched before they were paid
    cut        \* history: orders with a payment order whose checkout broke off

world == <<db, items, orders, stock, cart, viva, url, webhook>>
handlers == <<at, req, todo>>
history == <<faults, taken, exposed, early, cut>>
vars == <<world, handlers, history>>

-------------------------------------------------------------------------------
(* Data *)

ORDER_STATUS == {"pending", "on_the_way", "delivered"}
Invoice == {"absent", "file", "removed"}
Row == {"none", "stored", "deleted"}
Payment == {"none", "open", "final"}

\* A transaction id as an order's payment can be given it: none, one of the
\* order's own payment order, or one of another payment.
Transaction == {"none", "own", "other"}

Doc == [status : ORDER_STATUS, shippingInfo : BOOLEAN, invoice : Invoice,
        vivaOrderCode : BOOLEAN, vivaTransactionId : Transaction, paidAt : BOOLEAN]

NewDoc == [status |-> "pending", shippingInfo |-> FALSE, invoice |-> "absent",
           vivaOrderCode |-> FALSE, vivaTransactionId |-> "none", paidAt |-> FALSE]

Kind == {"none", "checkout", "confirm", "webhook", "admin", "received"}
Step == {"idle", "create", "viva", "savecode", "clear", "abort",
         "verify", "pay", "clearpaid", "save"}

Request == [kind : Kind, order : Order \cup {NoOrder}, base : Doc, edit : Doc]

NoRequest == [kind |-> "none", order |-> NoOrder, base |-> NewDoc, edit |-> NewDoc]

EmptyCart == [p \in Product |-> 0]

\* The products an order has a line for.
Lines(o) == {p \in Product : items[o][p] > 0}

\* The handler is between its load of an unpaid order and its save.
Paying(h, o) == at[h] \in {"verify", "pay"} /\ req[h].order = o

Changed(stored, loaded, edited) == IF edited = loaded THEN stored ELSE edited

\* Slip: save() writes the whole document back.
Merged_WholeDocument(stored, loaded, edited) == edited

\* Slip: every save writes status, changed or not.
Merged_AlwaysStatus(stored, loaded, edited) ==
    [shippingInfo |-> Changed(stored.shippingInfo, loaded.shippingInfo, edited.shippingInfo),
     invoice |-> Changed(stored.invoice, loaded.invoice, edited.invoice),
     vivaOrderCode |-> Changed(stored.vivaOrderCode, loaded.vivaOrderCode, edited.vivaOrderCode),
     vivaTransactionId |->
        Changed(stored.vivaTransactionId, loaded.vivaTransactionId, edited.vivaTransactionId),
     paidAt |-> Changed(stored.paidAt, loaded.paidAt, edited.paidAt),
     status |-> edited.status]

\* What save() leaves in the collection: the edited value of every path that
\* differs from the loaded one, the stored value of every other.
Merged(stored, loaded, edited) ==
    [status |-> Changed(stored.status, loaded.status, edited.status),
     shippingInfo |-> Changed(stored.shippingInfo, loaded.shippingInfo, edited.shippingInfo),
     invoice |-> Changed(stored.invoice, loaded.invoice, edited.invoice),
     vivaOrderCode |-> Changed(stored.vivaOrderCode, loaded.vivaOrderCode, edited.vivaOrderCode),
     vivaTransactionId |->
        Changed(stored.vivaTransactionId, loaded.vivaTransactionId, edited.vivaTransactionId),
     paidAt |-> Changed(stored.paidAt, loaded.paidAt, edited.paidAt)]

-------------------------------------------------------------------------------
Init ==
    /\ db = [o \in Order |-> "none"]
    /\ items = [o \in Order |-> EmptyCart]
    /\ orders = [o \in Order |-> NewDoc]
    /\ stock = InitialStock
    /\ cart = [u \in Customer |-> EmptyCart]
    /\ viva = [o \in Order |-> "none"]
    /\ url = {}
    /\ webhook = {}
    /\ at = [h \in Handler |-> "idle"]
    /\ req = [h \in Handler |-> NoRequest]
    /\ todo = [h \in Handler |-> {}]
    /\ faults = 0
    /\ taken = [o \in Order |-> EmptyCart]
    /\ exposed = {}
    /\ early = {}
    /\ cut = {}

\* The handler answers its request, or dies: nothing of it is left in memory.
Finish(h) ==
    /\ at' = [at EXCEPT ![h] = "idle"]
    /\ req' = [req EXCEPT ![h] = NoRequest]
    /\ todo' = [todo EXCEPT ![h] = {}]

GoTo(h, step) ==
    /\ at' = [at EXCEPT ![h] = step]
    /\ UNCHANGED <<req, todo>>

Begin(h, kind, o, base, edit, step) ==
    /\ at' = [at EXCEPT ![h] = step]
    /\ req' = [req EXCEPT ![h] = [kind |-> kind, order |-> o, base |-> base, edit |-> edit]]
    /\ todo' = [todo EXCEPT ![h] = IF step \in {"verify", "pay"} THEN Lines(o) ELSE {}]

-------------------------------------------------------------------------------
(* The customer's cart. add, updateQty and remove are one step here; the   *)
(* only thing checkout relies on is what a line may hold when it is written. *)

EditCart(u, p, qty) ==
    /\ qty = 0 \/ qty <= stock[p]
    /\ cart' = [cart EXCEPT ![u][p] = qty]
    /\ UNCHANGED <<db, items, orders, stock, viva, url, webhook, handlers, history>>

-------------------------------------------------------------------------------
(* checkout *)

CheckoutRead(h, o) ==
    LET lines == cart[Owner[o]] IN
    /\ at[h] = "idle"
    /\ db[o] = "none"
    /\ \A g \in Handler : req[g].order # o
    /\ \E p \in Product : lines[p] > 0
    /\ \A p \in Product : lines[p] = 0 \/ lines[p] <= stock[p]
    /\ items' = [items EXCEPT ![o] = lines]
    /\ Begin(h, "checkout", o, NewDoc, NewDoc, "create")
    /\ UNCHANGED <<db, orders, stock, cart, viva, url, webhook, history>>

CheckoutCreate(h) ==
    /\ at[h] = "create"
    /\ db' = [db EXCEPT ![req[h].order] = "stored"]
    /\ orders' = [orders EXCEPT ![req[h].order] = NewDoc]
    /\ GoTo(h, "viva")
    /\ UNCHANGED <<items, stock, cart, viva, url, webhook, history>>

\* order.vivaOrderCode = vivaOrder.orderCode
CodeEdit(doc) == [doc EXCEPT !.vivaOrderCode = TRUE]

\* The provider creates the payment order checkout has asked for and mails its
\* link to the customer (paymentNotification), whatever becomes of its answer.
CreateOrderAtViva(h) ==
    /\ at[h] = "viva"
    /\ viva[req[h].order] = "none"
    /\ viva' = [viva EXCEPT ![req[h].order] = "open"]
    /\ UNCHANGED <<db, items, orders, stock, cart, url, webhook, handlers, history>>

\* Slip: the cart is emptied as soon as the payment order exists.
CheckoutVivaOrder_SkipSave(h) ==
    /\ at[h] = "viva"
    /\ viva[req[h].order] # "none"
    /\ Begin(h, "checkout", req[h].order, req[h].base, CodeEdit(req[h].edit), "clear")
    /\ UNCHANGED <<world, history>>

\* The provider's answer arrives; the link may have been paid by then.
CheckoutVivaOrder(h) ==
    /\ at[h] = "viva"
    /\ viva[req[h].order] # "none"
    /\ Begin(h, "checkout", req[h].order, req[h].base, CodeEdit(req[h].edit), "savecode")
    /\ UNCHANGED <<world, history>>

\* Slip: the payment link is answered before the cart is cleared, and the
\* catch block still covers the clearing.
CheckoutSaveCode_AnswerEarly(h) ==
    LET o == req[h].order IN
    /\ at[h] = "savecode"
    /\ orders' = [orders EXCEPT ![o] = Merged(@, req[h].base, req[h].edit)]
    /\ url' = url \cup {o}
    /\ GoTo(h, "clear")
    /\ UNCHANGED <<db, items, stock, cart, viva, webhook, history>>

CheckoutSaveCode(h) ==
    LET o == req[h].order IN
    /\ at[h] = "savecode"
    /\ orders' = [orders EXCEPT ![o] = Merged(@, req[h].base, req[h].edit)]
    /\ GoTo(h, "clear")
    /\ UNCHANGED <<db, items, stock, cart, viva, url, webhook, history>>

\* cartService.clear, then the answer with the payment link.
CheckoutClearCart(h) ==
    LET o == req[h].order IN
    /\ at[h] = "clear"
    /\ cart' = [cart EXCEPT ![Owner[o]] = EmptyCart]
    /\ url' = url \cup {o}
    /\ Finish(h)
    /\ UNCHANGED <<db, items, orders, stock, viva, webhook, history>>

\* The catch block: the order is deleted whatever has happened to it meanwhile.
CheckoutAbort(h) ==
    /\ at[h] = "abort"
    /\ db' = [db EXCEPT ![req[h].order] = "deleted"]
    /\ Finish(h)
    /\ UNCHANGED <<items, orders, stock, cart, viva, url, webhook, history>>

-------------------------------------------------------------------------------
(* Payment *)

\* The customer pays on the provider's page. Its link is mailed when the payment
\* order is created, so this can come before checkout has saved the order code,
\* or after it deleted the order. The provider notifies the webhook until it
\* is answered 200.
Pay(o) ==
    /\ viva[o] = "open"
    /\ viva' = [viva EXCEPT ![o] = "final"]
    /\ webhook' = webhook \cup {o}
    /\ UNCHANGED <<db, items, orders, stock, cart, url, handlers, history>>

\* Slip: the paidAt check is forgotten.
AlreadyPaid_Forgotten(doc) == FALSE

\* The early return of confirm, of the webhook and of markPaidWithViva.
AlreadyPaid(doc) == doc.paidAt

\* The assignments of markPaidWithViva.
PaidEdit(doc, transaction) ==
    [doc EXCEPT !.status = "pending", !.paidAt = TRUE,
                !.vivaTransactionId = IF transaction = "none" THEN @ ELSE transaction]

\* A handler that has just loaded order o unpaid will take its payment.
BeginPayment(h, kind, o, transaction, step) ==
    /\ Begin(h, kind, o, orders[o], PaidEdit(orders[o], transaction), step)
    /\ exposed' = IF \E g \in Handler : Paying(g, o) THEN exposed \cup {o} ELSE exposed
    /\ UNCHANGED <<faults, taken, early, cut>>

\* confirm of an order that is already paid clears the cart again. Customers
\* know an order by its id as soon as it is in their list of orders.
ConfirmPaid(h, o) ==
    /\ at[h] = "idle"
    /\ db[o] = "stored"
    /\ AlreadyPaid(orders[o])
    /\ Begin(h, "confirm", o, NewDoc, NewDoc, "clearpaid")
    /\ UNCHANGED <<world, history>>

\* The request names a transaction, of this order's payment order or another.
ConfirmByTransaction(h, o, transaction) ==
    /\ at[h] = "idle"
    /\ db[o] = "stored"
    /\ transaction = "own" => viva[o] # "none"
    /\ ~AlreadyPaid(orders[o])
    /\ BeginPayment(h, "confirm", o, transaction, "verify")
    /\ UNCHANGED world

\* tx.statusId === 'F'; whose payment order the transaction belongs to is not
\* compared. Another payment's transaction is a final one here: what any other
\* transaction leads to is already what an own one does that is not final.
Finalized(o, transaction) == transaction = "other" \/ viva[o] = "final"

ConfirmVerify(h) ==
    /\ at[h] = "verify"
    /\ IF Finalized(req[h].order, req[h].edit.vivaTransactionId)
       THEN GoTo(h, "pay") ELSE Finish(h)
    /\ UNCHANGED <<world, history>>

\* The redirect's order code alone, equal to the one the order stores.
ConfirmByCode(h, o) ==
    /\ at[h] = "idle"
    /\ db[o] = "stored"
    /\ ~AlreadyPaid(orders[o])
    /\ orders[o].vivaOrderCode
    /\ BeginPayment(h, "confirm", o, "none", "pay")
    /\ UNCHANGED world

\* A notification with status F or none, for an order its code finds unpaid:
\* its body is believed, with or without a transaction and whether or not the
\* provider has finalised one. A notification with another status changes
\* nothing.
WebhookPay(h, o, transaction) ==
    /\ at[h] = "idle"
    /\ db[o] = "stored" /\ orders[o].vivaOrderCode
    /\ ~AlreadyPaid(orders[o])
    /\ BeginPayment(h, "webhook", o, transaction, "pay")
    /\ UNCHANGED world

\* A notification for an unknown or an already paid order is answered 200.
WebhookIgnore(o) ==
    /\ o \in webhook
    /\ db[o] = "stored" /\ orders[o].vivaOrderCode => AlreadyPaid(orders[o])
    /\ webhook' = webhook \ {o}
    /\ UNCHANGED <<db, items, orders, stock, cart, viva, url, handlers, history>>

\* One $inc of decrementStock's loop: no floor, no validator.
DecrementStock(h, p) ==
    LET o == req[h].order IN
    /\ at[h] = "pay"
    /\ p \in todo[h]
    /\ stock' = [stock EXCEPT ![p] = @ - items[o][p]]
    /\ taken' = [taken EXCEPT ![o][p] = @ + 1]
    /\ todo' = [todo EXCEPT ![h] = @ \ {p}]
    /\ UNCHANGED <<db, items, orders, cart, viva, url, webhook, at, req,
                   faults, exposed, early, cut>>

\* Slip: the loop's updates are not awaited.
SavePaid_Unawaited(h) ==
    LET o == req[h].order IN
    /\ at[h] = "pay"
    /\ db[o] = "stored"
    /\ orders' = [orders EXCEPT ![o] = Merged(@, req[h].base, req[h].edit)]
    /\ Begin(h, req[h].kind, o, NewDoc, NewDoc, "clearpaid")
    /\ UNCHANGED <<db, items, stock, cart, viva, url, webhook, history>>

SavePaid(h) ==
    LET o == req[h].order IN
    /\ at[h] = "pay"
    /\ todo[h] = {}
    /\ db[o] = "stored"
    /\ orders' = [orders EXCEPT ![o] = Merged(@, req[h].base, req[h].edit)]
    /\ Begin(h, req[h].kind, o, NewDoc, NewDoc, "clearpaid")
    /\ UNCHANGED <<db, items, stock, cart, viva, url, webhook, history>>

\* cartService.clear, then 200 to the customer or to the provider.
ClearAfterPaid(h) ==
    LET o == req[h].order IN
    /\ at[h] = "clearpaid"
    /\ cart' = [cart EXCEPT ![Owner[o]] = EmptyCart]
    /\ webhook' = IF req[h].kind = "webhook" THEN webhook \ {o} ELSE webhook
    /\ Finish(h)
    /\ UNCHANGED <<db, items, orders, stock, viva, url, history>>

-------------------------------------------------------------------------------
(* Dispatch, invoice, receipt *)

\* Slip: the validation lets a status through that the schema does not know.
AdminStatus_Unvalidated == ORDER_STATUS \cup {"cancelled"}

\* updateOrderStatusBodySchema
AdminStatus == ORDER_STATUS

\* Slip: the shipping info of the body is dropped.
StatusEdit_NoShipping(doc, status, invoice) ==
    [doc EXCEPT !.status = status,
                !.invoice = IF invoice = "absent" THEN @ ELSE invoice]

\* The assignments of updateStatusByAdmin: the schema requires shipping info
\* with on_the_way; "absent" is a body without invoice.
StatusEdit(doc, status, invoice) ==
    [doc EXCEPT !.status = status,
                !.shippingInfo = IF status = "on_the_way" THEN TRUE ELSE @,
                !.invoice = IF invoice = "absent" THEN @ ELSE invoice]

StatusLoad(h, o, status, invoice) ==
    /\ at[h] = "idle"
    /\ db[o] = "stored"
    /\ Begin(h, "admin", o, orders[o], StatusEdit(orders[o], status, invoice), "save")
    /\ UNCHANGED <<world, history>>

\* order.invoice = invoice, as updateInvoiceByAdmin assigns it.
InvoiceEdit(doc, invoice) == [doc EXCEPT !.invoice = invoice]

InvoiceLoad(h, o, invoice) ==
    /\ at[h] = "idle"
    /\ db[o] = "stored"
    /\ Begin(h, "admin", o, orders[o], InvoiceEdit(orders[o], invoice), "save")
    /\ UNCHANGED <<world, history>>

\* order.status = ORDER_STATUS.DELIVERED
ReceivedEdit(doc) == [doc EXCEPT !.status = "delivered"]

ReceivedLoad(h, o) ==
    /\ at[h] = "idle"
    /\ db[o] = "stored"
    /\ orders[o].status = "on_the_way"
    /\ Begin(h, "received", o, orders[o], ReceivedEdit(orders[o]), "save")
    /\ UNCHANGED <<world, history>>

SaveEdit(h) ==
    LET o == req[h].order
        r == req[h]
    IN
    /\ at[h] = "save"
    /\ db[o] = "stored"
    /\ orders' = [orders EXCEPT ![o] = Merged(@, r.base, r.edit)]
    /\ early' = IF /\ r.edit.status # r.base.status
                   /\ r.edit.status # "pending"
                   /\ ~orders[o].paidAt
                THEN early \cup {o} ELSE early
    /\ Finish(h)
    /\ UNCHANGED <<db, items, stock, cart, viva, url, webhook, faults, taken, exposed,
                   cut>>

\* save() of a document that is gone throws; the handler ends with an error.
SaveMissing(h) ==
    /\ \/ at[h] = "save"
       \/ at[h] = "pay" /\ todo[h] = {}
    /\ db[req[h].order] # "stored"
    /\ Finish(h)
    /\ UNCHANGED <<world, history>>

-------------------------------------------------------------------------------
(* Failures *)

\* Lost half-way through the decrements of a payment: what was taken stays.
BrokenOff(h) ==
    IF at[h] = "pay" /\ todo[h] # Lines(req[h].order)
    THEN exposed \cup {req[h].order} ELSE exposed

\* The steps of checkout that its try block covers.
TrySteps == {"viva", "savecode", "clear"}

\* Lost in checkout although the provider has created the payment order.
CutOff(h) ==
    IF at[h] \in TrySteps /\ viva[req[h].order] # "none"
    THEN cut \cup {req[h].order} ELSE cut

Fault(h) ==
    /\ at[h] # "idle"
    /\ faults < MaxFaults
    /\ faults' = faults + 1
    /\ exposed' = BrokenOff(h)
    /\ cut' = CutOff(h)
    /\ UNCHANGED <<taken, early>>

\* Slip: the webhook route answers 200 although the handler failed.
Reject_Acknowledged(h) ==
    /\ Fault(h)
    /\ IF at[h] \in TrySteps THEN GoTo(h, "abort") ELSE Finish(h)
    /\ webhook' = IF req[h].kind = "webhook" THEN webhook \ {req[h].order} ELSE webhook
    /\ UNCHANGED <<db, items, orders, stock, cart, viva, url>>

\* The awaited call fails, the provider's possibly after it has created the
\* payment order: inside checkout's try the catch block follows,
\* anywhere else the error ends the request. A refused create, delete, load
\* or webhook leaves the rest as it is, and the provider will notify again.
Reject(h) ==
    /\ Fault(h)
    /\ IF at[h] \in TrySteps THEN GoTo(h, "abort") ELSE Finish(h)
    /\ UNCHANGED world

\* The process dies: no catch block runs.
Crash(h) ==
    /\ Fault(h)
    /\ Finish(h)
    /\ UNCHANGED world

-------------------------------------------------------------------------------
CheckoutStep(h) ==
    \/ CheckoutCreate(h) \/ CreateOrderAtViva(h) \/ CheckoutVivaOrder(h)
    \/ CheckoutSaveCode(h) \/ CheckoutClearCart(h) \/ CheckoutAbort(h)

PaymentStep(h) ==
    \/ ConfirmVerify(h) \/ SavePaid(h) \/ ClearAfterPaid(h)
    \/ \E p \in Product : DecrementStock(h, p)

\* What a handler does next on its own.
HandlerStep(h) == CheckoutStep(h) \/ PaymentStep(h) \/ SaveEdit(h) \/ SaveMissing(h)

\* The webhook is called for order o.
Notify(h, o) == \E t \in TransactionInput \cup {"none"} : WebhookPay(h, o, t)

\* A request arrives at handler h.
Arrive(h, o) ==
    \/ CheckoutRead(h, o)
    \/ ConfirmPaid(h, o) \/ ConfirmByCode(h, o)
    \/ \E t \in TransactionInput : ConfirmByTransaction(h, o, t)
    \/ Notify(h, o)
    \/ \E s \in AdminStatus, i \in InvoiceInput \cup {"absent"} : StatusLoad(h, o, s, i)
    \/ \E i \in InvoiceInput : InvoiceLoad(h, o, i)
    \/ ReceivedLoad(h, o)

Next ==
    \/ \E u \in Customer, p \in Product, q \in 0..MaxQty : EditCart(u, p, q)
    \/ \E h \in Handler, o \in Order : Arrive(h, o)
    \/ \E o \in Order : Pay(o) \/ WebhookIgnore(o)
    \/ \E h \in Handler : HandlerStep(h) \/ Reject(h) \/ Crash(h)

Spec == Init /\ [][Next]_vars

\* A handler runs on unless it is broken off, and a notification is delivered
\* again until it is answered. The server accepts every request, so Handler's
\* size must not starve a delivery: strong fairness. Customers, admins and
\* faults owe nothing.
FairSpec ==
    /\ Spec
    /\ \A h \in Handler : WF_vars(HandlerStep(h))
    /\ \A o \in Order : WF_vars(WebhookIgnore(o))
    /\ \A o \in Order : SF_vars(\E h \in Handler : o \in webhook /\ Notify(h, o))

-------------------------------------------------------------------------------
(* Properties *)

TypeOK ==
    /\ db \in [Order -> Row]
    /\ items \in [Order -> [Product -> 0..MaxQty]]
    /\ orders \in [Order -> Doc]
    /\ stock \in [Product -> Int]
    /\ cart \in [Customer -> [Product -> 0..MaxQty]]
    /\ viva \in [Order -> Payment]
    /\ url \in SUBSET Order
    /\ webhook \in SUBSET Order
    /\ at \in [Handler -> Step]
    /\ req \in [Handler -> Request]
    /\ todo \in [Handler -> SUBSET Product]
    /\ faults \in Nat
    /\ taken \in [Order -> [Product -> Nat]]
    /\ exposed \in SUBSET Order
    /\ early \in SUBSET Order
    /\ cut \in SUBSET Order
    /\ \A h \in Handler : at[h] = "idle" <=> req[h].order = NoOrder

\* A payment the provider has finalised is of an order that is in the
\* collection under its order code, except in two windows, and never once
\* checkout has been answered: while checkout has still to save the code, and
\* after it broke off with the payment order already made, its link mailed and
\* its order deleted or left without a code.
PaymentHasOrder ==
    \A o \in Order :
        viva[o] = "final" /\ ~(db[o] = "stored" /\ orders[o].vivaOrderCode) =>
            /\ o \notin url
            /\ \/ o \in cut
               \/ \E h \in Handler : at[h] \in {"viva", "savecode"} /\ req[h].order = o

\* markPaidWithViva takes the stock before it records the payment: of a paid
\* order, every line has left the stock, whatever was retried or broken off.
PaidImpliesTaken ==
    \A o \in Order : orders[o].paidAt => \A p \in Lines(o) : taken[o][p] >= 1

\* The stock of an order is taken exactly once, when it is paid, as long as
\* its payment handlers (webhook, confirm) neither overlap nor break off
\* between the decrements and the save: redelivered notifications and
\* repeated confirmations take nothing more.
TakenOnce ==
    \A o \in Order \ exposed :
        /\ \A p \in Product : taken[o][p] <= 1
        /\ orders[o].paidAt => \A p \in Lines(o) : taken[o][p] = 1

\* A payment is recorded once: no later confirmation, notification or stale
\* save records it again, gives it another transaction or takes it back,
\* unless the order's payment handlers overlapped or broke off.
RecordedPaymentKept ==
    [][\A o \in Order \ exposed :
          orders[o].paidAt =>
              /\ orders'[o].paidAt
              /\ orders'[o].vivaTransactionId = orders[o].vivaTransactionId
              /\ \A h \in Handler :
                    ~(at[h] = "pay" /\ at'[h] = "clearpaid" /\ req[h].order = o)]_vars

\* An order on its way has shipping info, however admin, customer and payment
\* handlers save over each other.
OnTheWayHasShipping ==
    \A o \in Order : orders[o].status = "on_the_way" => orders[o].shippingInfo

\* A handler about to empty a cart does so for an order that its customer can
\* pay, or has paid: a checkout that fails before leaves the cart as it was.
CartClearedForPayableOrder ==
    \A h \in Handler :
        /\ at[h] = "clear" => /\ db[req[h].order] = "stored"
                              /\ orders[req[h].order].vivaOrderCode
        /\ at[h] = "clearpaid" => orders[req[h].order].paidAt

\* markPaidWithViva sets status to pending, but its save can take a dispatch
\* back only from an order that was dispatched before it was paid: a racing
\* or repeated payment handler never undoes the dispatch of a paid order.
PaymentKeepsDispatch ==
    [][\A o \in Order :
          /\ orders[o].status # "pending"
          /\ orders'[o].status = "pending"
          /\ \E h \in Handler : at[h] = "pay" /\ at'[h] # "pay" /\ req[h].order = o
          => o \in early]_vars

\* An uploaded invoice disappears only through an admin's save, never because
\* a payment or receipt handler saves the older copy it holds.
InvoiceKept ==
    [][\A o \in Order :
          orders[o].invoice # orders'[o].invoice =>
              \E h \in Handler :
                  /\ at[h] = "save" /\ at'[h] = "idle"
                  /\ req[h].kind = "admin" /\ req[h].order = o]_vars

\* The stage of the abstract order.
StageOf ==
    [o \in Order |->
        CASE db[o] = "none" -> "absent"
          [] db[o] = "deleted" -> "withdrawn"
          [] OTHER -> IF o \in url
                      THEN IF orders[o].paidAt THEN "paid" ELSE "payable"
                      ELSE IF orders[o].paidAt THEN "prepaid" ELSE "placed"]

Lifecycle == INSTANCE OrderLifecycle WITH stage <- StageOf

\* The handlers implement the order's life cycle: it is created once; until its
\* checkout has been answered it may be withdrawn, even if it was paid by
\* then; afterwards it never is; and a payment, once recorded, is never lost
\* to a stale save.
ImplementsLifecycle == Lifecycle!Spec

\* While the notification of a payment is not acknowledged and its code finds
\* the order, the payment will be recorded or the order withdrawn by its
\* checkout, although handlers fail and crash: the notification is delivered
\* again until the webhook answers 200. (One that comes before the code is
\* saved, or after the order was withdrawn, is answered 200 and lost.)
PaymentEventuallyRecorded ==
    \A o \in Order :
        (o \in webhook /\ db[o] = "stored" /\ orders[o].vivaOrderCode)
            ~> (orders[o].paidAt \/ db[o] = "deleted")

\* product.model.ts declares stockQty with min: 0.
StockNonNegative == \A p \in Product : stock[p] >= 0

-------------------------------------------------------------------------------
(* What makes the properties inductive: who may be working on an order in  *)
(* which stage, and what the copies handlers hold may differ in.           *)

CheckoutSteps == {"create", "viva", "savecode", "clear", "abort"}

\* The order of a working handler was created; an order's checkout is one
\* handler's, and is not answered while it runs.
Routing ==
    \A h \in Handler :
        LET o == req[h].order IN
        /\ at[h] \in CheckoutSteps =>
             /\ o \notin url
             /\ \A g \in Handler : req[g].order = o /\ at[g] \in CheckoutSteps => g = h
        /\ at[h] = "create" => db[o] = "none"
        /\ at[h] \in CheckoutSteps \ {"create"} => db[o] = "stored"
        /\ at[h] \in {"verify", "pay", "clearpaid", "save"} => db[o] # "none"

\* The copies handlers hold: only the checkout edits the order code, only
\* payment edits paidAt and the transaction.
Copies ==
    \A h \in Handler :
        LET b == req[h].base
            e == req[h].edit
        IN
        /\ at[h] \in {"create", "viva"} => b = NewDoc /\ e = NewDoc
        /\ at[h] = "savecode" => b = NewDoc /\ e = CodeEdit(NewDoc)
        /\ at[h] = "clear" => orders[req[h].order].vivaOrderCode
        /\ at[h] = "clearpaid" => orders[req[h].order].paidAt
        /\ at[h] \in {"verify", "pay", "save"} => e.vivaOrderCode = b.vivaOrderCode
        /\ at[h] = "save" => e.paidAt = b.paidAt /\ e.vivaTransactionId = b.vivaTransactionId
        /\ at[h] \in {"verify", "pay"} => ~b.paidAt /\ e.paidAt /\ e.status = "pending"

\* What was answered stays and can be found; only a created order has a payment
\* order or is paid.
Payable ==
    \A o \in Order :
        /\ o \in url => db[o] = "stored" /\ orders[o].vivaOrderCode
        /\ viva[o] # "none" => db[o] # "none"
        /\ orders[o].paidAt => db[o] # "none"

PaymentInv == TypeOK /\ Routing /\ Copies /\ Payable

\* The order of a payment order can be found, or its checkout is about to save
\* the code, or broke off.
Accounted(o) ==
    \/ db[o] = "stored" /\ orders[o].vivaOrderCode
    \/ o \in cut
    \/ \E h \in Handler : at[h] \in {"viva", "savecode"} /\ req[h].order = o

AccountedInv ==
    /\ \A o \in Order : viva[o] # "none" => Accounted(o)
    /\ \A h \in Handler :
        at[h] = "abort" /\ viva[req[h].order] # "none" => req[h].order \in cut

\* Shipping info is never taken away, neither from an order nor from a copy.
ShippingInv ==
    /\ OnTheWayHasShipping
    /\ \A h \in Handler :
        LET b == req[h].base
            e == req[h].edit
        IN
        /\ e.status = "on_the_way" => e.shippingInfo
        /\ b.shippingInfo => e.shippingInfo
        /\ b.shippingInfo => orders[req[h].order].shippingInfo

\* An unpaid order that is not pending was dispatched early, and so was the
\* order of a copy that shows one.
DispatchInv ==
    /\ \A o \in Order : ~orders[o].paidAt /\ orders[o].status # "pending" => o \in early
    /\ \A h \in Handler :
        LET b == req[h].base IN
        ~b.paidAt /\ b.status # "pending" => req[h].order \in early

\* Only an admin's copy has an edited invoice, and an order that is not created
\* yet has none.
InvoiceInv ==
    /\ \A o \in Order : db[o] = "none" => orders[o] = NewDoc
    /\ \A h \in Handler :
        req[h].edit.invoice # req[h].base.invoice => req[h].kind = "admin" /\ at[h] = "save"

\* A paying handler has taken every line it has not still to take.
TakenInv ==
    /\ PaidImpliesTaken
    /\ \A h \in Handler, o \in Order :
        /\ Paying(h, o) => /\ todo[h] \subseteq Lines(o)
                           /\ \A p \in Lines(o) \ todo[h] : taken[o][p] >= 1
        /\ Paying(h, o) /\ at[h] = "verify" => todo[h] = Lines(o)

\* At most one handler takes the payment of o, and what was taken is what that
\* handler, or the paid order, says.
Once(o) ==
    /\ \A h \in Handler :
        Paying(h, o) =>
            /\ ~orders[o].paidAt
            /\ \A g \in Handler : Paying(g, o) => g = h
            /\ \A p \in Product : taken[o][p] = IF p \in Lines(o) \ todo[h] THEN 1 ELSE 0
    /\ orders[o].paidAt => \A p \in Product : taken[o][p] = IF p \in Lines(o) THEN 1 ELSE 0
    /\ ~orders[o].paidAt /\ db[o] # "deleted" /\ (\A h \in Handler : ~Paying(h, o)) =>
        \A p \in Product : taken[o][p] = 0
    /\ \A p \in Product : taken[o][p] <= 1

OnceInv == \A o \in Order \ exposed : Once(o)

===============================================================================
