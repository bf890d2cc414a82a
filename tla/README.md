# Verification of the DRFT shop backend

TLA+ models, TLC checks and TLAPS proofs about the Express / Mongoose / Redis
backend in `src/`. Source paths below are relative to `src/src/`; `docs/` is
`src/docs/`.

## The system

Node processes behind a load balancer serve HTTP routes and a Socket.IO
gateway. MongoDB holds everything that lasts; Redis holds idempotency keys,
BullMQ queues and the Socket.IO adapter. Handlers are `async` functions, so any
two requests interleave at every `await`, and nothing in the code uses a
transaction, a lock or a document version (`versionKey: false` in the schemas):
what keeps the data right is the order of the awaited calls, unique indexes,
MongoDB's per-document atomicity and mongoose's habit of writing back only the
paths a handler modified.

| component | state | operations | talks to | modelled in |
|---|---|---|---|---|
| orders (`modules/orders`) | `orders` documents: status, order code, transaction, paidAt, shipping info, invoice | checkout, confirm, Viva webhook, admin status / invoice, confirm-received, reads | cart, products (stock), delivery, Viva, notifications, mail | OrderFulfilment |
| cart (`modules/cart`) | one line per user and product | list, add, updateQty, remove, clear | products | Storefront |
| Viva client (`infrastructure/viva`) | cached OAuth token | createOrder, retrieveTransaction | Viva Payments over HTTP | VivaClient, OrderFulfilment |
| auth (`modules/auth`) | password, failed attempts, lock, onboarding status | register, verify / resend OTP, login, refresh, logout, forgot / verify / reset password, change password, complete profile, social login | tokens, users, event bus | Accounts (partly) |
| tokens (`modules/token`) | hashed tokens of type refresh, verifyEmail, resetPassword; revoked, expiry | create, validate, revoke one, revoke all of a user | auth | Accounts |
| users (`modules/user`) | profile, addresses, onboarding status, soft delete | list, approve, decline, addresses, updates | notifications, event bus | Accounts, AddressBook (partly) |
| products, brands, categories | documents that refer to each other by id; unique slugs and skus | create, update, delete, list, facets | cart and orders read them | CatalogueRules, Catalogue |
| delivery, settings | a singleton found or created; pages by slug | get, update, upsert | checkout reads delivery | ShopSettings |
| chat (`modules/chat`) | conversations, messages | start, send, history, list | realtime | Chat |
| realtime (`infrastructure/realtime`) | sockets, a presence table per process | connect, disconnect, join, leave, presence list | chat, Redis adapter | Realtime |
| notifications | per-user documents, read flags | create, broadcast, mark read | event listeners, realtime | Notifications |
| event bus and listeners | in-memory emitter; codes and mail log for development | emit, handle | mail, push queue | Listeners |
| queues (`infrastructure/queue`) | BullMQ jobs | enqueue, process with 3 attempts | push | Listeners |
| idempotency, Redis client | keys with a time to live; connection state | SET NX EX, DEL, reconnect, give up | HTTP middlewares | Gateway, Process |
| routes and middlewares | guards of each route, claims of tokens, rate-limit counter | authenticate, authorize, validate, upload, normalize errors | every handler | Access, Gateway |
| reviews, wishlist, subscribers | documents with unique indexes | create, remove | products | Storefront, ShopSettings |
| server lifecycle (`server.ts`), health | connections, listening server, shutdown flag and timer | start, graceful shutdown, health report | all connections | Process |

### What is hard here

* **Interleaved handlers.** Every service is load - decide - await - write. The
  payment webhook and the customer's return from the payment page arrive at the
  same moment for the same order.
* **Stale copies.** A handler saves a document it loaded several awaits ago.
* **Failure between awaits.** A call is refused, or the process dies, after some
  writes of a handler and before others; there is no rollback but the catch
  blocks the code spells out.
* **Redelivery.** Viva repeats a webhook until it is answered 200; clients retry.
* **A provider that acts on its own.** Viva mails the payment link when it makes the
  payment order: a customer can pay before checkout knows of it, or after checkout
  gave up.
* **Several processes.** Presence, codes and mail logs live in one process; sockets,
  emits and queues cross processes, and a process may die with what it alone knew.
* **Work that outlives its request.** A Redis command that was given up, or a write whose
  request was answered for want of time, is still carried out; listeners run on
  beside later events.
* **Shutdown.** Closing waits for requests that wait for connections; a timer cuts it
  short.

`PROJECT.json` lists the hazards at their lines, with the properties that would
catch each going wrong.

## Modules

### OrderFulfilment - the order, stock and cart side of a sale

`OrderFulfilment.tla` models `modules/orders/order.service.ts` as a set of
`Handler`s, each serving one request. One action is what a handler does between
two awaits:

| code | actions |
|---|---|
| `checkout` | `CheckoutRead` (cart, stock check, delivery), `CheckoutCreate`, `CreateOrderAtViva` (the provider makes the payment order and mails its link), `CheckoutVivaOrder` (its answer arrives), `CheckoutSaveCode`, `CheckoutClearCart`, and `CheckoutAbort`, the catch block |
| `confirm` | `ConfirmPaid` (early return), `ConfirmByTransaction` + `ConfirmVerify`, `ConfirmByCode` |
| `fulfillFromVivaWebhook`, `vivaWebhook` | `WebhookPay`, `WebhookIgnore` |
| `markPaidWithViva`, `decrementStock` | `BeginPayment`, `DecrementStock` (one line), `SavePaid`, `ClearAfterPaid` |
| `updateStatusByAdmin`, `updateInvoiceByAdmin`, `confirmReceivedByUser` | `StatusLoad`, `InvoiceLoad`, `ReceivedLoad`, then `SaveEdit` |
| `save()` of a document that is gone | `SaveMissing` |
| a refused call; the process dying | `Reject`, `Crash` |
| cart routes | `EditCart` |

State: the collection (`db`, `orders`, `items`), `products.stockQty` (`stock`),
carts (`cart`), the provider (`viva`: is there a payment order, and is it paid;
`webhook`: the notifications it repeats), the orders whose checkout has been
answered (`url`), and per handler where it is (`at`), the document as loaded and as
edited (`req[h].base`, `req[h].edit`) and the lines it has still to take (`todo`).
`Merged` is mongoose's `save`: a path is written if and only if its value differs
from the loaded one. The history variables `taken`, `exposed`, `early`, `cut` are
read by no action.

`exposed` deserves a word. Between `decrementStock` and the `save` that sets
`paidAt` a second payment handler, or a crash, makes the code take an order's
stock twice. That is a limit of the code, and the model shows it: `TakenOnce` is
stated for the orders to which neither has happened, and the hazards are listed.

Checkout asks Viva for a payment order with `paymentNotification: true` and the
customer's e-mail (`viva.service.ts:115-126`), so the link is out before
`createOrder` returns. `Pay(o)` needs the payment order and nothing else. Between
`CreateOrderAtViva` and the save of the code (`order.service.ts:182`) the webhook
does not find the order; if a call fails there, or the process dies, the order is
deleted or keeps no code, and never will be found (`cut`). `PaymentHasOrder` names
these two windows, and says that there is no third and none once checkout has been
answered. `Reject` at `viva` covers an answer that was lost after the payment order
was made.

What a payment carries is a `Transaction`: none, one of the order's own payment order
(`own`), or one of another payment (`other`). The webhook believes the body it is
sent, paid or not; `confirm` asks the provider for the transaction's status and does
not compare its order code (`Finalized`). So which transaction is recorded first is
anybody's, in the model as in the code. What the code does establish is
`RecordedPaymentKept`: once recorded it stays, and is not recorded a second time,
unless the payment handlers of the order are `exposed`.

Assumptions of this model, from how the code is used:

* another payment's transaction is one the provider has finalised; one it has not
  leads to what an own one does that is not final;
* a redirect's order code is the one the order stores: `confirm` refuses any other;
* a notification with another status than F (or none) changes nothing, in the
  code as in the model, and is not repeated here;
* notifications and mails swallow their errors
  (`notifyAdminsOfNewOrder`, `notifyCustomerOrderApproved`) and have no state;
* prices, delivery fees, names and order numbers are abstracted;
* a cart route is one step, and inactive products are left out.

### OrderLifecycle - what an order promises

Absent, placed, payable (its checkout has been answered), paid; or prepaid, when the
payment is recorded before the answer. Withdrawn only from placed or prepaid: the
catch block deletes an order whatever happened to it, but an order whose checkout was
answered never, and what is paid then stays paid. `StageOf` in `OrderFulfilment` maps
the detailed state to these stages and `ImplementsLifecycle` states the refinement.

### Accounts - registration, sessions, passwords, approval

`Accounts.tla` models accounts that register with an e-mail address and a
password: `modules/auth/auth.service.ts` and what it calls in `modules/token` and
`modules/user`. Again a `Handler` serves one request and an action is what it does
between two awaits; a read whose result no later write depends on is part of the
step before it.

| code | actions |
|---|---|
| `register`, new address | `CreateUser`, `SendOtp` |
| `register`, deleted account | `RegisterAgain`, `Revive` (`updateAnyUser`), `RevokeSessions`, `RevokeOtps`, `SendOtp` |
| `verifyEmail` | `VerifyEmail` (load), `VerifyCheck` (the code), `VerifyWrite`, `RevokeOtps`; a wrong code: `CountMiss` |
| `resendOtp` | `ResendOtp`, `CountMiss`, `SendOtp` |
| `login` | `LoginAccepted` (load, compare, `assertUserIsApproved`), then `SendOtp` for an unverified account or `ClearMisses`, `IssueTokenPair`; `LoginRefused`, `CountMiss` |
| `refreshTokens` | `RefreshValidate`, `RefreshUser`, `Rotate`, `IssueTokenPair` |
| `forgotPassword` | `ForgotPassword`, `ClearMisses`, `RevokeCodes`, `SendCode` |
| `verifyResetCode` | `VerifyResetCode`, `CheckCode`, `RevokeCodes` or `CountMiss` |
| `resetPassword` | `ResetPassword`, `ResetWrite`, `RevokeSessions` |
| `changePassword` | `ChangePassword`, `ChangeWrite` |
| `deleteMe`, `approveUser`, `declineUser` | `DeleteMe`; `ApproveUser`, `ApproveWrite`; `DeclineUser`, `DeclineWrite` |
| TTL indexes | `ExpireUser`, `ExpireToken` |
| a refused call, a dying process | `BreakOff`, at any await, any number of times |
| a request refused by its first check | `TurnedAway` |

State: the two collections (`users`, `tokens`), the signed tokens handed out
(`access`, `resetJwt`: a JWT is checked by signature, so holding one is all that
counts), and per handler where it is (`at`) and what it has read (`req`). A
password is the number of times it was replaced. Whether the caller knows the right
password or code is the environment's choice: every usable secret may be presented
by a request.

History, read by no guard: a token and a request carry the password its session
was opened with and the first token of the session (`login`); `resetTo` is the
password of the last completed reset or re-registration; and two marks name the
interleavings in which the code promises less than one would wish.

* `overlapped`: two refreshes validated the same token before either revoked it
  (`auth.service.ts` 581, 593), or two `forgotPassword` requests both revoked
  before either created (622, 623). Both then store a token. The documentation's
  "a stolen refresh token can only be used once" (`docs/Authentication.md:625`)
  holds outside that window, which is what `OneTokenPerSession` says.
* `late`: the sessions of an account were revoked while a login or a refresh that
  had passed its check was about to store its token.

Both exceptions are reached in the runs; without them the properties fail.

Assumptions and what is left out:

* JWT expiry is not modelled: a holder of an access or reset JWT may use it at any
  time, which allows more than the code does.
* `user.id` of a lean document is undefined (`IdOf`), and a query for an undefined
  `_id` matches no document: the MongoDB driver sends it as null. So no failed
  attempt is ever counted and no account is locked; the guards are in the model
  because the code has them.
* Registration always carries an identity document (the schema requires it), so
  `verifyEmail` leads to UNDER_REVIEW; VERIFIED is in the type only.
* The unique e-mail index: one account document per address, so two concurrent
  first registrations are one `CreateUser` and one refused request.
* `logout` looks up the access token among refresh tokens, where it never is, and
  so changes nothing. `completeProfile` needs an onboarding token that no route
  hands out. Social logins depend on the providers. Super admins skip
  `assertUserIsApproved` and cannot be approved or declined.
* A random code or token does not repeat while anything still refers to it
  (`Fresh`).

### CatalogueRules, Catalogue, Storefront - what is on sale

`CatalogueRules.tla` holds what keeps no state: locked categories, the attributes
of each category, and what a listing answers (`Selected`, `PageOf`, `Meta`,
`buildFacets`, `attachProductCounts`). The database may return products the sort
does not tell apart in any order (`Orders`).

`Catalogue.tla` is the administrators' side. Every read a request makes before it
writes is a step, because what was read may have lapsed by the time it writes.

| code | actions |
|---|---|
| category create, update, remove | `CreateCategory`, `InsertCategory`; `UpdateCategory`, `UpdateCategoryExists`, `SaveCategory`; `RemoveCategory`, `CountInCategory` (two counts in parallel), `DeleteCategory` |
| brand create, update, delete | `CreateBrand`, `InsertBrand`; `UpdateBrand`, `UpdateBrandCategory`, `SaveBrand`; `DeleteBrandLoad`, `CountOfBrand`, `DeleteBrand` |
| product create, update, delete | `CreateProduct` or `UpdateProduct` + `UpdateProductCategory`; `CheckBrand`, `CheckSku`, `FindSlug`; `InsertProduct` or `SaveProduct`; `DeleteProductLoad`, `DeleteProduct` |

`Storefront.tla` adds the customers: `AddToCart` / `ReadLine` / `WriteLine`,
`UpdateQty` / `SetLine`, `RemoveLine`, `ClearCart`; `Checkout` / `CheckoutClear` or
`CheckoutFails`, `ConfirmClears`, `SellLine` (one `$inc`); `AddToWishlist` /
`WriteWish`, `RemoveFromWishlist`, `CreateReview` / `WriteReview`, `RemoveReview`.
Here an order is the lines a checkout took; what becomes of it is OrderFulfilment's.

Nothing in the database holds these references and totals together, so each
property names the overlaps it excepts, as history variables that no action reads:

| property | says | excepts |
|---|---|---|
| `ReferencesHold` | a brand's category and a product's brand and category are there | `raced`: written while the removal was between its count and its delete, or over another update of the same product |
| `FacetsAddUp` | brand counts and option counts add up to the category's products | `raced`; `moved`: products whose brand was given another category (`brand.service.ts:157` leaves them behind) |
| `PagesPartition` | turning the pages shows each product once | two products of one price |
| `StockFollowsLedger` | stock is what sales and changes by administrators add up to | `stale`: the quantity was edited on a reading that had been overtaken |
| `CartKeepsRequests` | a line holds what the customer's answered requests add up to | `overtaken`: an add wrote over a change it had not read |
| `NoLineLost` | a line leaves the cart ordered or removed | `excused`: changed while a checkout was under way or an order could still be confirmed, or off sale at checkout |

### Realtime, Chat, Notifications, Listeners, Messaging - what people are told

`Realtime.tla`: sockets on several instances, a presence table per instance, emits
that reach all instances with the Redis adapter (`Reached`), and the death of an
instance. `view` is what each client believes. `PresenceAgrees` holds for users who
have only had sockets on the client's own instance (`placed`): the table is not
shared, so with two instances the last socket of one announces a user offline who
is still connected to the other.

`Chat.tla`: `StartConversation` (find) / `CreateConversation` / `FindCreated`, `Join`,
`Leave`, `History`, `SendMessage` / `CreateMessage` / `SaveConversation`, `SendFails`,
and the list `getConversations`. `LastMessageIsNewest` excepts conversations two
messages were sent to at once (`overlapped`) and sends that broke off (`torn`);
`NoMessageMissed` says that join-then-history leaves no gap; `SamePlace`, that the
chat a customer resumes is the one the administrator's list shows, even when two
first clicks made two (`doubled`).

`Notifications.tla`: creation for one user (`ApiNotify`), for all administrators one
after the other (`notifyAdmins`), broadcasts (`CreateMany`, also refused in part),
and the request deadline: `withAbort` answers the request and moves the write to
`writing`, from where `WriteGoesOn` carries it out. `EachIsTold` is exact delivery to
the audience fixed when the request read it; `TellsWhatIsStored` relates the emits
to the collection.

`Listeners.tla`: `approveUser` and `declineUser` write the decision (`Decide`) and then
`emit`, or end in between (`UpdateFails`, when `updateById` throws although the write
is stored; the death of the instance); the listeners of decisions and of codes, each
awaiting call by call beside later ones; the push queue with its job id (user and
millisecond), three attempts and redelivery after a worker's death; the
development store of codes and the mail log. `LastWordStands` and
`LogCarriesTheCode` except users with two decisions or codes on their way at once
(`crossed`): the bus keeps no order. `LastWordStands` also excepts a decision whose
request or listener ended between the write and its notification, or whose
notification was refused (`broken`): it is stored and never announced. `PushOnce` excepts a second push of a user in the same
millisecond, whose job id the queue already has, and a worker that died after the
send.

`Messaging.tla` composes the four; `Die` ends an instance's requests, sockets, codes
and log at once.

### Access, Process, Gateway - what a request goes through

`Access.tla` is every router with its guards in order, the tokens with their claims,
and the error handler. `Process.tla` is one server process: `startServer`
(`connectDatabase`, `connectRedis`, `setupRealtimeServer`, `listen`, `StartFails`),
connections that flap and give up, `gracefulShutdown` with its steps
(`closeRealtimeServer`, `HttpDrained`, `CloseServer`, the three disconnects,
`ShutdownCompletes`), `ForcedExit`, `Crash`, `Restart`.

`Gateway.tla` sends requests through them: `Receive` (rate limit, SET NX EX),
`SetApplies`, `Bypass` (the command timed out or was refused), the guards (`Entered`),
the handlers that touch accounts (`ReadAccount`, `issueTokenPair`, `deleteMe`,
`Health`) and, for every other route, one effect and an outcome (`TakeEffect`,
`Succeed`, `Fail`). Commands to Redis are kept apart from requests (`sets`, `dels`):
they may apply after the request was answered and after the process died
(`DelApplies`, `CommandLost`).

`NoSecondEffect`: two requests that held one key both take effect only if the key had
run out between them or a 5xx answer gave it back. Requests that went on without a key
(`mode = "bypassed"`) are outside it, as the code lets them through by design.
`AccessFollowsAccount` checks every route with every token and body: what is done is
done for the account of the token, with its role and purpose, within the token's
life, and no token comes of a deleted account. `CutOnlyByTimer` excepts a process
that began to listen after it was told to stop (`late`).

### Desk, AddressBook, ShopSettings, VivaClient, BackOffice - the back office

`Desk.tla` holds the requests. `AddressBook.tla`: load, change a copy, `SaveUser`; a new
array replaces the stored one, edits of elements are written to their positions, and
a position that has gone by then is made anew with the changed fields only (`Ghost`). Nobody edits
a book with a ghost in it (bound: such a book is already outside the property).
`BookFollowsEdits` excepts books a stale copy was saved into (`torn`).

`ShopSettings.tla`: the delivery singleton (`getDelivery` / `CreateDefault`,
`updateDelivery` / `CreateDelivery` or `SaveDelivery`), pages (`upsert` / `InsertPage`,
which where the unique index refuses it starts over as an update) and subscribers
(`create` / `InsertSubscriber`), with and without unique indexes (`indexed`): the
code makes them outside production only. `FeeIsTheOneTold` excepts an update that ran
into another writer (`mixed`); `OneOfEach` excepts, without the indexes, overlapping
requests.

`VivaClient.tla`: `getAccessToken`, `TokenIssued` at the provider, `TokenArrives` with
the expiry counted from before the request, `CallArrives`. `TokenIsLive` holds for
calls and tokens that take no longer than the margin of 60 seconds.

`BackOffice.tla` composes the three, which share nothing but the requests.

### Proof modules

| module | proves |
|---|---|
| `OrderFulfilmentProofs` | types, `PaymentInv` and what follows from it |
| `OrderHistoryProofs` | shipping, dispatch, invoice; stock taken before a payment is recorded, and once; the life cycle |
| `AccountsProofs`, `AccountSessionProofs` | types, reset codes; rotation, sessions and passwords |
| `BackOfficeProofs` | the provider's token, the delivery fee, pages and subscribers, the address book |
| `GatewayProofs` | shutdown, idempotency, access |
| `StorefrontProofs` | types, stock, carts, cleared lines, references, pages, facets |
| `MessagingProofs` | presence, pushes, notifications, the listeners, chat |

## Runs

The `MC*.tla` modules name the model values, the requests, the bounds and the
symmetries. Two handlers, where there are handlers: with two, every pair of requests
interleaves at every await. Model values that the initial states do not tell apart
are interchangeable, hence the symmetry sets; the runs with liveness (`orders_live`,
`gateway`) and the one with an action property of a single account
(`accounts_attempts`) use none.

| run | bounds | shows |
|---|---|---|
| `orders_race` | 1 order, 2 products, 1 unit each, 1 fault; transactions of another payment, or none | safety of payment, stock, cart and life cycle with a refused call or crash anywhere, paid by the mailed link before or after checkout is done; two products, so that a payment can break off half-way |
| `orders_admin` | 1 order, 1 product, no fault, invoices uploaded and removed | stale saves among admin, customer and payment handlers; a fault only ends a handler, which never writes |
| `orders_live` | 1 order, 1 product, 1 fault, `FairSpec` | a payment whose code finds its order is recorded, or the order withdrawn by its checkout |
| `orders_oversell` | 2 orders, 1 product, 1 unit | finding: stock falls below zero |
| `accounts_reset` | 1 account, 3 tokens, 1 password replaced; register, verify, login, refresh, forgot, verify code, reset, approve | 1.1 million states: rotation, reset codes, and what a reset ends, with requests breaking off anywhere |
| `accounts_again` | the same bounds; register, verify, resend, login, refresh, approve, decline, delete, change password | 1.5 million states: whose session it is, through re-registration, decline and deletion |
| `accounts_approval` | register, verify, approve | finding: completed, and not approved |
| `accounts_attempts` | register, login | finding: failed attempts are not counted |
| `storefront` | 3 requests by 2 handlers; 2 categories, 2 brands, 2 products, 2 customers, quantities to 2; one product on sale and in both carts at the start | 71,780 states: references, facets, pages, stock, carts under overlapping edits |
| `messaging` | 3 sockets, 2 instances, 1 customer, 2 administrators; 7 budgets of 2 to 4 requests, alone, together and with a death | 529,164 states: presence, chat, notifications, listeners and pushes |
| `gateway` | 8 budgets of up to 3 requests on 1 process; keys live 2 ticks, tokens 1 to 3; 3 requests a window | 582,714 states: idempotency, access, shutdown |
| `backoffice` | 5 budgets of 3 to 5 requests by 2 handlers; tokens live 3 ticks, margin 1; with and without indexes | 934,972 states: address book, delivery, pages, subscribers, provider token |

`MaxFaults`, `MaxQty`, `InvoiceInput` and `TransactionInput` are the bounds; `orders_race`
names transactions of another payment, which pass every check there is, and the others
the order's own, which pass only once it is paid. The state space is finite
because an order id is drawn once, stock is taken at most twice per handler pass
and faults are counted.

Accounts do not touch each other's documents, so one account is enough. Three
tokens are what a violation of each property needs: a rotated token and two
successors, or an OTP and two codes. One password replaced is one reset or one
re-registration after a login. The two passing runs divide the requests between
them (`Requests`), since those of both together are out of reach; each of them has
everything that opens a session.

A **budget** (`Budgets`) says how many requests and faults of each kind a behaviour
of `messaging`, `gateway` and `backoffice` has; the initial states choose one. It lets
one run ask several questions without their product: parts that share no data are
run one after the other, and together where one feeds the other. `storefront`
counts requests with `MaxRequests`. Its three requests are what the deepest
exceptions need (an edit of a product between two steps of a sale; a removal, a
creation and an edit). `messaging` shortens the chat history and the mail log to one
entry (`historyLimit`, `maxMailLog`), so that both overflow. The times in `gateway`
let a key and a token run out between two requests, and a window of the limiter fill
and pass. `Indexed` takes both values in one run. `lifetime` is the shortest that is
more than two margins, which is what the client needs (60 seconds of an hour).

Deadlock is checked in the runs about orders and accounts, which never stop: a cart
edit, or a request turned away, is always possible. The other four say
CHECK_DEADLOCK FALSE, because they end when their budget is spent.

**Fairness.** `WF(HandlerStep(h))`: an awaited call settles and Node runs its
continuation. `WF(WebhookIgnore(o))` and `SF` of a pending webhook's delivery: the
provider repeats a notification until it is answered 200, and the server accepts
every request - strong fairness stands for the unbounded number of requests the
real server can hold, which a fixed `Handler` set would otherwise starve. No
fairness for customers, admins and faults; the number of faults is bounded.

In Gateway the only fairness is `WF(ForcedExit /\ ProcessStep)`: `setTimeout` fires.
`ShutdownEnds` needs no more, and is stated for handlers, connections and Redis that
may never answer. Two things stand behind it that a change could break: the timer is
set before anything is awaited, and a second signal does not start over.

## Proofs

For every set of orders, customers, products and handlers, every quantity bound
and number of faults (assumption: `OrderFulfilmentAssumption`, evaluated by every
run):

1. `TypeOK` is inductive (`TypeStep`).
2. `PaymentInv == TypeOK /\ Routing /\ Copies /\ Payable` is inductive
   (`PaymentStepInv`): whose checkout an order is in and that it runs no more once
   it was answered (`Routing`), what the copies in memory may differ in (`Copies`),
   and that only a stored order with a code was answered (`Payable`).
   `CartClearedForPayableOrder` follows. For `PaymentHasOrder`, `AccountedInv` on top:
   the order of every payment order, paid or not, is found by its code, is in the hands
   of a checkout that has still to save it, or is one whose checkout broke off; and a
   catch block that runs after the payment order was made belongs to one of those.
3. On top of it, one inductive step each: `ShippingInv` (shipping info never
   leaves an order or a copy), `DispatchInv` (what an unpaid order that is not
   pending says about its past), `InvoiceInv` (only an admin's copy has an edited
   invoice), `TakenInv` (a paying handler has taken all it has not still to take).
4. `OnceInv`, from `PaymentInv` and `TakenInv`: of an order that is not exposed,
   at most one handler takes the payment, and `taken` is what its `todo`, or
   `paidAt`, says. The proof is a frame lemma (`OnceFrame`) for the steps that
   concern no payment, and a lemma for each of the steps that do.
   `RecordedPaymentAlwaysKept` follows: a save that writes a payment is that of the one
   handler, and the order was unpaid.
5. The refinement: every step is a `Place`, `Withdraw`, `Offer` or `Settle` of one
   order, or leaves `StageOf` alone. That `Withdraw` never takes an answered order, and
   that `Offer` finds the order stored, are `Routing`.

For Accounts, for every set of accounts, tokens and handlers, every set of
requests and every bound (assumption: `AccountsAssumption`):

1. `TypeOK` is inductive (`TypeStep`), by way of its parts.
2. `CodesInv` adds to `OneResetCode` who is about to send a code: two senders for
   one account are both marked, and so is a sender together with a usable code.
3. `SessionInv` adds to `OneTokenPerSession` who is about to store a token of the
   session: two refreshes of it are both marked (`RefreshesApart`), and a refresh
   holds the session's only usable token until it has revoked it (`TokenInHand`).
4. `PasswordInv` says the same thing (`Fits`) of a stored session and of a request
   about to store one: its password is not newer than the account's, if it is the
   account's then the account is verified, and it is not older than the last reset
   unless late. It needs `EndingBound`: a handler about to end sessions has written
   no password newer than the account's. `SessionsFollowPassword` and
   `SessionOfVerifiedAccount` follow.

Each has a frame lemma for the steps that only shrink what it speaks of, and a
lemma for every step that does more.

For the back office (`MarginFits`, `SettingsAreValid`, both evaluated by `backoffice`),
for every set of handlers, budgets, settings, pages and addresses:

1. `TokenAlwaysLive`, from `VivaInv`: a token on its way is good for its lifetime from
   the moment it was asked for (`Asking`), a call in time is good for the margin
   (`Calling`), and the client never takes the cached token for better than it is.
   `2 * margin < lifetime` is used where a fresh token is handed on.
2. `FeeAlwaysTold`, from `DeliveryInv`: the copy an update loaded is the stored
   settings as long as nobody has written since (`Updating`), so that saving only
   the changed paths stores what the request said.
3. `AlwaysOneOfEach`, from `PagesInv` and `SubscribersInv`: a request to subscribe has
   found no such address among the documents it saw (`Subscribing`), and what comes
   behind those overlapped it.
4. `BookInv`, for `BookAlwaysFollowsEdits`: as long as no stale copy was saved, the stored
   book is what the answered requests make of it (`BookInOrder`), each copy still to be
   saved was made from the stored book, unless that has been saved since, and turns it into
   what its request asks for (`Pending`, `Turns`), and no two copies add the same address. A
   copy that another save overtook sets `torn` when it is saved, so no more is asked of it.

For Gateway (`RequestsAreValid`, evaluated by `gateway`), for every set of accounts,
requests, routes' outcomes, keys, lives and budgets:

1. `ServedInv`: an unanswered request is one of the living process's `running`.
2. `EndInv`, for `CutAlwaysByTimer`: before it listens a process serves nobody; one that
   was not told to stop before goes on listening until its realtime server closes,
   and that close waits for `running` to be empty.
3. `KeyInv`, for `NeverSecondEffect`: a request that holds a key is either still covered
   by the key in Redis or some holder has given it back (`Covered`); any two holders
   of a key are apart (`Apart`). A late SET cannot break it, since it takes the key
   only when free, and a DEL on its way belongs to an answer of 5xx (`dels`).
4. `AccessInv`, for `AccessAlwaysFollowsAccount`: every token there is was made for an
   account, with that account's role (`Minted`), and a request that has passed
   the guards was admitted by the clauses of its route with the token it came with
   (`Admitted`). It speaks of the request that has read the account and not yet issued
   the token, too: what it read is what the token will say.

For the storefront (`CatalogueAssumption`, `StorefrontAssumption`, both evaluated by
`storefront`; the seed is a finite shop that keeps the rules), for every set of
documents, customers, handlers, names, forms and quantities:

1. `TypeInv == Requests /\ Documents /\ Belongings` is inductive. Three facts about the
   operators carry the rest: a sale writes only the quantity, a save writes the
   changed paths of one document (`SavedPathsOK`), and the slug of a document is its
   base or the base with a number.
2. `StockAlwaysFollowsLedger` and `CartAlwaysKeepsRequests` are inductive with the types:
   what a step adds to the stored quantity it adds to the ledger, unless the copy it
   started from had been overtaken.
3. `LineInv`, for `NoLineIsLost`: at the clear of a checkout every line that would go is
   one of the order or was changed meanwhile, and the cart of a customer with an
   order that can still be confirmed is excused as it stands.
4. `RefInv`, for `ReferencesAlwaysHold`: a removal that has counted leaves nothing behind.
   No brand or product outside `raced` is in a category whose removal has found it
   unused (`CategoryLeaving`), no product of a brand that is about to go
   (`BrandStays`), and at the delete both counts are in.
5. `PagesAlwaysPartition` is an instance of the lemma `PagesShowAll`, which speaks of every
   query sorted by price and every page length from 1. The collections stay finite (`FiniteInv`); a finite set whose members differ in the
   key has exactly one rising order (`RisingList`, by way of each member's place, the
   number of members up to it), so the database's freedom to order ties is void; and
   the pages divide its positions (`PagesDivide`).
6. `FacetsAlwaysAddUp`, from two invariants. `NamesInv`: the name a category is being given has
   the attribute fields of the one it has, and the category a product was checked against still
   has the fields that were read (a locked category is never renamed, and the others
   have no attributes). `FitInv`: outside `raced` and `moved` a product is in its brand's
   category and has a value for each of the category's attributes. Hence each product is
   counted under one brand and one option of every field, and the counts of the
   parts of a finite set add up to its size (`SumOfParts`). The sum is a fold, whose
   value is found without induction over data: of the subsets on which the fold and
   the size differ, a smallest one would contain a smaller one.

For messaging (`RealtimeAssumption`, `NotificationAssumption`, `MessagingAssumption`, all
evaluated by `messaging`), for every set of users, sockets, instances, handlers,
conversations and budgets, every length of the chat history and the mail log:

1. `PresenceInv`: an instance's table holds the sockets connected to it, a user has been on
   every instance it has a socket on, and a client is right about those who were
   only on its own.
2. `QueueInv`, for `PushesGoOutOnce`: the jobs are those of what was put on the queue, and a
   job that waits has been sent no more often than a worker has died of it.
3. `Handlers` says of every awaited call what its request holds (`RequestOK`). On it rests
   `TellInv`, for `EveryoneIsToldOnce`: event numbers are not used again (`EventsInv`); one
   handler, or one write of a request whose time was up, carries an event
   (`CarriersInv`); and everyone in an event's audience is waiting to be told, or has
   been told once, or the event broke off (`TellingInv`). `StoredInv` adds the emits, for
   `WhatIsToldIsStored`.
4. `OneOnTheWay`: outside `crossed` a user has one decision or code on its way. `DecisionInv`
   and `CodesInv` follow the latest decision and the newest code from there to the
   collection and the log.
5. `ChatVarsInv`: while one message is being sent into a conversation it is the newest
   there, and otherwise `lastMessage` is (`NewestInv`); who opened a chat is in its room
   (`RoomsInv`) and, with the adapter, has what was sent since (`ReadInv`); every message
   has alerted the partner, is being sent, or broke off (`AlertInv`); the list names each
   conversation once (`RecentInv`); and a customer who is not `doubled` has one
   conversation, or one being created (`OneChatInv`). `LastMessageIsTheNewest` and `CustomerAndSupportMeet` need no more.
   `NoMessageIsMissed` assumes `useRedisAdapter`: without it an emit stays on its
   instance, and with two of them TLC finds a client that misses a message.

TLC checked each inductive invariant on the component's instance before it was proved;
the configurations keep the properties that follow from them.

Only model-checked:

* `PaymentEventuallyRecorded` and `ShutdownEnds`: liveness under fairness is out of the
  prover's reach.
* The findings: each is a counterexample, which TLC exhibits.
* Coverage: that every action of the models can happen at all is what the runs show.

## Findings

* `orders_oversell`: `products.stockQty` is declared with `min: 0`
  (`modules/products/product.model.ts:47`); `decrementStock` writes it with
  `$inc`, which runs no validator, and checkout checks the stock long before.
* `accounts_attempts`: a login with a wrong password counts no failed attempt.
  `incrementFailedAttempts` (`modules/auth/auth.service.ts:89`) writes under
  `user.id`, which a lean document does not have; `docs/Authentication.md:1193`
  says "failedLoginAttempts += 1". `resetFailedAttempts` (96) has the same address.
* `accounts_approval`: an account approved before its e-mail is verified is put
  back under review by `verifyEmail` with `isOnboardingCompleted` still true;
  `docs/Authentication.md:1047`: "Set when `onboardingStep = APPROVED`".

Seen while modelling, each in the model as it is in the code, and reported here
because no run of its own is needed to see it:

* A payment through the mailed link for an order that checkout has deleted, or that a
  crash left without a code, is answered 200 by the webhook and recorded nowhere
  (`order.service.ts:172-193`, 277-279; `infrastructure/viva/viva.service.ts:126`); so is a
  notification that comes before the code is saved. A confirmation with the
  transaction can still record the latter.
* `confirm` does not compare a transaction's order code with the order's
  (`order.service.ts:238-241`), and the webhook records the transaction its body names
  without asking the provider (277-283).
* A decision on a profile whose request ends between the write and the emit
  (`modules/user/user.service.ts:222-232`, 251-261) is stored and never announced.
* `changePassword` revokes no session (`docs/Authentication.md:868-869` says it does),
  and `resendOtp` leaves earlier codes valid (348-349 says it revokes them).
* An idempotency key is released by an unconditional DEL
  (`shared/middlewares/idempotency.ts:42`): one that applies late takes the key from a
  later holder. A SET that timed out may still apply and refuse the client's own
  retry. An answer below 500 keeps the key, so the retry of a request that failed
  validation is refused with 409 until the key runs out. `DOCS.md:897` names the header
  `Idempotency-Key`; the code reads `x-idempotency-key` (line 8).
* Closing Socket.IO closes the HTTP server it is attached to
  (`infrastructure/realtime/socket.server.ts:103`), so that the `server.close` of
  `server.ts` reports a server that is not running: the shutdown of a process with
  realtime ends as failed, with exit code 1, and closes neither BullMQ (`DOCS.md:986`
  says gracefully), nor MongoDB, nor Redis.
* A start that fails sets an exit code and leaves open what is connected, so the process
  stays (`server.ts:42`, `StartFails`, `LoopEnds`). The Redis client gives up after ten
  tries (`infrastructure/cache/redis.client.ts:17`) and this process never connects it
  again; requests with keys then go on without them.
* The administrators' broadcast asks for a role `admin`
  (`modules/admin/notifications/notifications.routes.ts:11`) that no account has.
* Unique indexes are made outside production only
  (`infrastructure/database/mongoose.connection.ts:54`), and no script makes them.
* `upload` runs before `validate`: a file is stored for a request that is then refused.

## Not modelled

* **Social login, completeProfile, logout** (auth): the first is the providers', the
  second needs a token no route hands out, the third revokes nothing.
* **Plain profile fields, contact forms, dashboards**: one write or one read each, with
  no relation to other data.
* **Mail and push transports, storage transfers**: input and output whose failures are
  logged and swallowed. What is sent, to whom and when is in Listeners and
  Notifications.
* **The e-mail queue, the cache service, the transaction helper**: no caller in the
  request path.
* **Typing events, the per-socket rate limit, request ids and contexts, logging,
  container wiring, configuration, text search, images**: nothing that lasts, or nothing
  that a property could tell apart.
* **The webhook verification key of Viva**: asked for anew each time and kept nowhere.
* **Seeds**: run by hand on an empty database.

## Plan

Done: all components with state and interleavings, and for each of them the safety
properties of its runs as theorems. Left, in order:

1. Abstract specifications: a session as a chain of tokens that Accounts implements (from
   `OneTokenPerSession` and `SessionInv`), and a cart as a function from products to
   quantities that Storefront implements outside `overtaken`. The step lemmas of both
   are those of the invariants above.
2. Social login, with the providers as nondeterministic answers.
