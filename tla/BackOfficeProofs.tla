--------------------------- MODULE BackOfficeProofs ---------------------------
(***************************************************************************)
(* For every set of handlers, every budget of requests, every lifetime and *)
(* margin that fit and every set of delivery settings: checkout charges    *)
(* the fee told of, calls reach the provider with a live token, there is   *)
(* one document of each, and the address book is what was asked for.       *)
(***************************************************************************)
EXTENDS BackOffice, TLAPS, FiniteSetTheorems, SequenceTheorems

-------------------------------------------------------------------------------
(* What the arguments need of the requests *)

DeskInv == at = [g \in Handler |-> at[g]] /\ req = [g \in Handler |-> req[g]]

\* A request that goes on, or comes in, moves alone.
LEMMA Moved ==
    ASSUME DeskInv, NEW h \in Handler, NEW step, NEW r, Await(h, step, r)
    PROVE  /\ DeskInv'
           /\ at'[h] = step /\ req'[h] = r
           /\ \A g \in Handler \ {h} : at'[g] = at[g] /\ req'[g] = req[g]
BY DEF DeskInv, Await

-------------------------------------------------------------------------------
(* The token *)

\* A token asked for is, once it is on its way, good for its lifetime from then on; a
\* call in time carries one that is good for the margin; the client never takes the
\* cached token for better than it is.
Asking(r) ==
    /\ r.askedAt \in Nat /\ r.askedAt <= clock
    /\ r.token # Nobody => r.token \in Nat /\ r.askedAt + lifetime <= r.token

Calling(r) ==
    /\ r.askedAt \in Nat /\ r.sentAt \in Nat /\ r.token \in Nat
    /\ r.sentAt <= clock
    /\ r.sentAt <= r.askedAt + margin => r.sentAt + margin < r.token

VivaInv ==
    /\ DeskInv
    /\ clock \in Nat /\ tokenExpiresAt \in Nat
    /\ cachedToken # Nobody => cachedToken \in Nat /\ tokenExpiresAt <= cachedToken
    /\ \A h \in Handler : at[h] = "viva.token" => Asking(req[h])
    /\ \A h \in Handler : at[h] = "viva.call" => Calling(req[h])
    /\ arrived # Nobody => arrived.sentAt \in Nat /\ arrived.arrivedAt \in Nat /\ arrived.token \in Nat
    /\ TokenIsLive

\* What moves a request elsewhere, and nothing of the client, keeps VivaInv.
LEMMA VivaFrame ==
    ASSUME VivaInv, NEW h \in Handler, NEW step, NEW r,
           step \notin {"viva.token", "viva.call"}, Await(h, step, r), UNCHANGED vivaVars
    PROVE  VivaInv'
<1>1. /\ DeskInv' /\ at'[h] = step
      /\ \A g \in Handler \ {h} : at'[g] = at[g] /\ req'[g] = req[g]
  BY Moved DEF VivaInv
<1> QED
  BY <1>1 DEF VivaInv, vivaVars, Asking, Calling, TokenIsLive

LEMMA VivaStutter ==
    ASSUME VivaInv, UNCHANGED <<at, req, vivaVars>>
    PROVE  VivaInv'
BY DEF VivaInv, vivaVars, DeskInv, Asking, Calling, TokenIsLive

\* What the other parts make of a request.
LEMMA BookMoves ==
    ASSUME NEW h \in Handler, BookNext(h)
    PROVE  \E step \in {"book.save", "idle"} : \E r : Await(h, step, r)
<1>1. ASSUME NEW r, Loads(h, r) PROVE Await(h, "book.save", r)
  BY <1>1 DEF Loads, Accept
<1>2. CASE SaveUser(h)
  BY <1>2 DEF SaveUser, Answer, Done
<1>3. CASE \E text \in Text, b \in BOOLEAN : addAddress(h, text, b)
  BY <1>1, <1>3 DEF addAddress
<1>4. CASE \E id \in 1..made, text \in Text, b \in BOOLEAN : updateAddress(h, id, text, b)
  BY <1>1, <1>4 DEF updateAddress
<1>5. CASE \E id \in 1..made : removeAddress(h, id) \/ setDefaultAddress(h, id)
  BY <1>1, <1>5 DEF removeAddress, setDefaultAddress
<1> QED
  BY <1>2, <1>3, <1>4, <1>5 DEF BookNext

LEMMA PageMoves ==
    ASSUME NEW h \in Handler, PageNext(h)
    PROVE  \/ UNCHANGED <<at, req>>
           \/ \E step \in {"page.insert", "idle"} : \E r : Await(h, step, r)
<1>1. CASE \E slug \in Slug, t, c \in Words \cup {Nobody} :
              upsert(h, slug, [title |-> t, content |-> c])
  BY <1>1 DEF upsert, Accept
<1>2. CASE InsertPage(h)
  BY <1>2 DEF InsertPage, Answer, Done
<1> QED
  BY <1>1, <1>2 DEF PageNext

LEMMA SubscriberMoves ==
    ASSUME NEW h \in Handler, SubscriberNext(h)
    PROVE  \E step \in {"subscriber.insert", "idle"} : \E r : Await(h, step, r)
<1>1. CASE \E email \in Email : create(h, email)
  BY <1>1 DEF create, Accept
<1>2. CASE InsertSubscriber(h)
  BY <1>2 DEF InsertSubscriber, Answer, Done
<1> QED
  BY <1>1, <1>2 DEF SubscriberNext

LEMMA DeliveryMoves ==
    ASSUME NEW h \in Handler, DeliveryNext(h)
    PROVE  \/ UNCHANGED <<at, req>>
           \/ \E step \in {"delivery.default", "delivery.save", "idle"} : \E r : Await(h, step, r)
<1>1. CASE \E cart \in Cart : getDelivery(h, cart)
  BY <1>1 DEF getDelivery, Accept
<1>2. CASE \E data \in Config : updateDelivery(h, data)
  BY <1>2 DEF updateDelivery, Accept
<1>3. CASE CreateDefault(h)
  BY <1>3 DEF CreateDefault, Answer, Done
<1>4. CASE CreateDelivery(h) \/ SaveDelivery(h)
  BY <1>4 DEF CreateDelivery, SaveDelivery, Acknowledge, Answer, Done
<1> QED
  BY <1>1, <1>2, <1>3, <1>4 DEF DeliveryNext

\* A token that is cached for longer than the margin is good for longer at the provider.
LEMMA StepGetAccessToken ==
    ASSUME VivaInv, NEW h \in Handler, getAccessToken(h)
    PROVE  VivaInv'
<1>1. UNCHANGED vivaVars
  BY DEF getAccessToken
<1>2. CASE cachedToken # Nobody /\ tokenExpiresAt > clock + margin
  <2>1. Await(h, "viva.call", Call(clock, cachedToken))
    BY <1>2 DEF getAccessToken, Accept
  <2>2. /\ DeskInv' /\ at'[h] = "viva.call" /\ req'[h] = Call(clock, cachedToken)
        /\ \A g \in Handler \ {h} : at'[g] = at[g] /\ req'[g] = req[g]
    BY <2>1, Moved DEF VivaInv, Await
  <2>3. Calling(Call(clock, cachedToken))
    BY <1>2, MarginFits DEF VivaInv, Calling, Call
  <2> QED
    BY <1>1, <2>2, <2>3 DEF VivaInv, vivaVars, Asking, Calling, TokenIsLive
<1>3. CASE ~(cachedToken # Nobody /\ tokenExpiresAt > clock + margin)
  <2> DEFINE r == [askedAt |-> clock, token |-> Nobody]
  <2>1. Await(h, "viva.token", r)
    BY <1>3 DEF getAccessToken, Accept
  <2> HIDE DEF r
  <2>2. /\ DeskInv' /\ at'[h] = "viva.token" /\ req'[h] = r
        /\ \A g \in Handler \ {h} : at'[g] = at[g] /\ req'[g] = req[g]
    BY <2>1, Moved DEF VivaInv, Await
  <2>3. Asking(r)
    BY DEF VivaInv, Asking, r
  <2> QED
    BY <1>1, <2>2, <2>3 DEF VivaInv, vivaVars, Asking, Calling, TokenIsLive
<1> QED
  BY <1>2, <1>3

LEMMA StepTokenIssued ==
    ASSUME VivaInv, NEW h \in Handler, TokenIssued(h)
    PROVE  VivaInv'
<1> DEFINE r == [req[h] EXCEPT !.token = clock + lifetime]
<1>1. Await(h, "viva.token", r) /\ UNCHANGED vivaVars
  BY DEF TokenIssued, GoTo
<1> HIDE DEF r
<1>2. /\ DeskInv' /\ at'[h] = "viva.token" /\ req'[h] = r
      /\ \A g \in Handler \ {h} : at'[g] = at[g] /\ req'[g] = req[g]
  BY <1>1, Moved DEF VivaInv, Await
<1>3. Asking(req[h])
  BY DEF TokenIssued, VivaInv
<1>4. r.askedAt = req[h].askedAt /\ (r.token = clock + lifetime \/ r.token = req[h].token)
  BY DEF r
<1>5. Asking(r)
  BY <1>3, <1>4, MarginFits DEF Asking, VivaInv
<1> QED
  BY <1>1, <1>2, <1>5 DEF VivaInv, vivaVars, Asking, Calling, TokenIsLive

LEMMA StepTokenArrives ==
    ASSUME VivaInv, NEW h \in Handler, TokenArrives(h)
    PROVE  VivaInv'
<1> DEFINE r == Call(req[h].askedAt, req[h].token)
<1>1. Await(h, "viva.call", r) /\ UNCHANGED <<clock, arrived>>
  BY DEF TokenArrives, GoTo
<1>2. /\ DeskInv' /\ at'[h] = "viva.call" /\ req'[h] = r
      /\ \A g \in Handler \ {h} : at'[g] = at[g] /\ req'[g] = req[g]
  BY <1>1, Moved DEF VivaInv, Await
<1>3. Asking(req[h]) /\ req[h].token # Nobody
  BY DEF TokenArrives, VivaInv
<1>4. Calling(r)
  BY <1>3, MarginFits DEF Asking, Calling, Call, VivaInv
<1>5. /\ tokenExpiresAt' \in Nat
      /\ cachedToken' # Nobody => cachedToken' \in Nat /\ tokenExpiresAt' <= cachedToken'
  BY <1>3, MarginFits DEF TokenArrives, Asking
<1> QED
  BY <1>1, <1>2, <1>4, <1>5 DEF VivaInv, Asking, Calling, TokenIsLive

LEMMA StepCallArrives ==
    ASSUME VivaInv, NEW h \in Handler, CallArrives(h)
    PROVE  VivaInv'
<1>1. Await(h, "viva.answer", Nobody) /\ UNCHANGED <<clock, cachedToken, tokenExpiresAt>>
  BY DEF CallArrives, GoTo
<1>2. /\ DeskInv' /\ at'[h] = "viva.answer"
      /\ \A g \in Handler \ {h} : at'[g] = at[g] /\ req'[g] = req[g]
  BY <1>1, Moved DEF VivaInv, Await
<1>3. Calling(req[h])
  BY DEF CallArrives, VivaInv
<1>4. /\ arrived'.askedAt = req[h].askedAt /\ arrived'.sentAt = req[h].sentAt
      /\ arrived'.token = req[h].token /\ arrived'.arrivedAt = clock
  BY DEF CallArrives
<1>5. /\ TokenIsLive'
      /\ arrived'.sentAt \in Nat /\ arrived'.arrivedAt \in Nat /\ arrived'.token \in Nat
  BY <1>3, <1>4, MarginFits DEF TokenIsLive, Calling, VivaInv
<1> QED
  BY <1>1, <1>2, <1>5 DEF VivaInv, Asking, Calling

LEMMA StepVivaTick ==
    ASSUME VivaInv, VivaTick
    PROVE  VivaInv'
BY DEF VivaTick, VivaInv, DeskInv, Asking, Calling, TokenIsLive

\* VivaInv is inductive.
LEMMA VivaStep ==
    ASSUME VivaInv, [Next]_vars
    PROVE  VivaInv'
<1>1. CASE UNCHANGED vars
  BY <1>1, VivaStutter DEF vars, deskVars
<1>2. ASSUME NEW h \in Handler, BookNext(h), UNCHANGED vivaVars PROVE VivaInv'
  BY <1>2, BookMoves, VivaFrame DEF Await
<1>3. ASSUME NEW h \in Handler, ShopNext(h), UNCHANGED vivaVars PROVE VivaInv'
  <2>1. \/ UNCHANGED <<at, req>>
        \/ \E step \in {"page.insert", "subscriber.insert", "delivery.default",
                        "delivery.save", "idle"} : \E r : Await(h, step, r)
    BY <1>3, PageMoves, SubscriberMoves, DeliveryMoves DEF ShopNext
  <2> QED
    BY <1>3, <2>1, VivaStutter, VivaFrame DEF Await
<1>4. ASSUME NEW h \in Handler, VivaNext(h) PROVE VivaInv'
  <2>1. CASE TokenFails(h) \/ createOrder(h)
    <3>1. Await(h, "idle", Nobody) /\ UNCHANGED vivaVars
      BY <2>1 DEF TokenFails, createOrder, Answer, Done
    <3> QED
      BY <3>1, VivaFrame DEF Await
  <2> QED
    BY <1>4, <2>1, StepGetAccessToken, StepTokenIssued, StepTokenArrives, StepCallArrives
       DEF VivaNext
<1>5. CASE VivaTick
  BY <1>5, StepVivaTick
<1> QED
  BY <1>1, <1>2, <1>3, <1>4, <1>5 DEF Next

\* A call that is not held up reaches the provider (createOrder, retrieveTransaction) with
\* a token that is still good there, however many callers ask for tokens side by side.
THEOREM TokenAlwaysLive == Spec => []TokenIsLive
<1>1. Init => VivaInv
  <2> SUFFICES ASSUME Init PROVE VivaInv
    OBVIOUS
  <2>1. DeskInv /\ \A h \in Handler : at[h] = "idle"
    BY DEF Init, DeskInit, DeskInv
  <2> QED
    BY <2>1 DEF Init, VivaInit, VivaInv, TokenIsLive
<1>2. VivaInv /\ [Next]_vars => VivaInv'
  BY VivaStep
<1>3. VivaInv => TokenIsLive
  BY DEF VivaInv
<1> QED
  BY <1>1, <1>2, <1>3, PTL DEF Spec

-------------------------------------------------------------------------------
(* The delivery settings *)

\* A copy that an update loaded is the settings as they are until someone writes; until
\* anyone has written, the defaults are what there is to be told of.
Updating(r) ==
    /\ r.data \in DeliveryDoc /\ r.saves \in Nat /\ r.saves <= saves
    /\ r.delivery # Nobody => /\ deliveries # <<>>
                              /\ r.saves = saves => r.delivery = deliveries[1]

DeliveryInv ==
    /\ DeskInv
    /\ deliveries \in Seq(DeliveryDoc) /\ told \in DeliveryDoc
    /\ mixed \in BOOLEAN /\ saves \in Nat
    /\ deliveries = <<>> => told = DEFAULT_DELIVERY_DATA
    /\ \A h \in Handler : at[h] = "delivery.default" => req[h].told = DEFAULT_DELIVERY_DATA
    /\ \A h \in Handler : at[h] = "delivery.save" => Updating(req[h])
    /\ FeeIsTheOneTold

LEMMA DefaultIsValid == DEFAULT_DELIVERY_DATA \in DeliveryDoc
BY DEF DEFAULT_DELIVERY_DATA, DeliveryDoc

LEMMA DeliveryFrame ==
    ASSUME DeliveryInv, NEW h \in Handler, NEW step, NEW r,
           step \notin {"delivery.default", "delivery.save"}, Await(h, step, r),
           UNCHANGED deliveryVars
    PROVE  DeliveryInv'
<1>1. /\ DeskInv' /\ at'[h] = step
      /\ \A g \in Handler \ {h} : at'[g] = at[g] /\ req'[g] = req[g]
  BY Moved DEF DeliveryInv
<1> QED
  BY <1>1 DEF DeliveryInv, deliveryVars, Updating, FeeIsTheOneTold

LEMMA DeliveryStutter ==
    ASSUME DeliveryInv, UNCHANGED <<at, req, deliveryVars>>
    PROVE  DeliveryInv'
BY DEF DeliveryInv, deliveryVars, DeskInv, Updating, FeeIsTheOneTold

LEMMA StepGetDelivery ==
    ASSUME DeliveryInv, NEW h \in Handler, NEW cart, getDelivery(h, cart)
    PROVE  DeliveryInv'
<1>1. UNCHANGED <<deliveries, told, mixed, saves>>
  BY DEF getDelivery
<1>2. CASE deliveries # <<>>
  <2>1. UNCHANGED <<at, req>> /\ Quote(Head(deliveries), cart, {told})
    BY <1>2 DEF getDelivery
  <2>2. quoted'.mixed \/ quoted'.fee \in quoted'.due
    BY <1>2, <2>1 DEF Quote, DeliveryInv, FeeIsTheOneTold
  <2> QED
    BY <1>1, <2>1, <2>2 DEF DeliveryInv, DeskInv, Updating, FeeIsTheOneTold
<1>3. CASE deliveries = <<>>
  <2> DEFINE r == [cart |-> cart, told |-> told]
  <2>1. Await(h, "delivery.default", r) /\ UNCHANGED quoted
    BY <1>3 DEF getDelivery, Accept
  <2>2. r.told = DEFAULT_DELIVERY_DATA
    BY <1>3 DEF DeliveryInv
  <2> HIDE DEF r
  <2>3. /\ DeskInv' /\ at'[h] = "delivery.default" /\ req'[h] = r
        /\ \A g \in Handler \ {h} : at'[g] = at[g] /\ req'[g] = req[g]
    BY <2>1, Moved DEF DeliveryInv, Await
  <2> QED
    BY <1>1, <2>1, <2>2, <2>3 DEF DeliveryInv, Updating, FeeIsTheOneTold
<1> QED
  BY <1>2, <1>3

LEMMA StepUpdateDelivery ==
    ASSUME DeliveryInv, NEW h \in Handler, NEW data \in Config, updateDelivery(h, data)
    PROVE  DeliveryInv'
<1> DEFINE r == [data |-> data, saves |-> saves,
                 delivery |-> IF deliveries = <<>> THEN Nobody ELSE Head(deliveries)]
<1>1. Await(h, "delivery.save", r) /\ UNCHANGED deliveryVars
  BY DEF updateDelivery, Accept
<1>2. Updating(r)
  BY SettingsAreValid DEF Updating, DeliveryInv
<1> HIDE DEF r
<1>3. /\ DeskInv' /\ at'[h] = "delivery.save" /\ req'[h] = r
      /\ \A g \in Handler \ {h} : at'[g] = at[g] /\ req'[g] = req[g]
  BY <1>1, Moved DEF DeliveryInv, Await
<1> QED
  BY <1>1, <1>2, <1>3 DEF DeliveryInv, deliveryVars, Updating, FeeIsTheOneTold

\* The first of several documents is what it was.
LEMMA Appended ==
    ASSUME deliveries \in Seq(DeliveryDoc), NEW d \in DeliveryDoc,
           deliveries' = Append(deliveries, d)
    PROVE  /\ deliveries' \in Seq(DeliveryDoc) /\ deliveries' # <<>>
           /\ deliveries # <<>> => deliveries'[1] = deliveries[1]
           /\ deliveries = <<>> => deliveries'[1] = d
OBVIOUS

LEMMA StepCreateDefault ==
    ASSUME DeliveryInv, NEW h \in Handler, CreateDefault(h)
    PROVE  DeliveryInv'
<1>1. Await(h, "idle", Nobody) /\ UNCHANGED <<told, mixed, saves>>
  BY DEF CreateDefault, Answer, Done
<1>2. /\ DeskInv' /\ at'[h] = "idle"
      /\ \A g \in Handler \ {h} : at'[g] = at[g] /\ req'[g] = req[g]
  BY <1>1, Moved DEF DeliveryInv, Await
<1>3. /\ deliveries' \in Seq(DeliveryDoc) /\ deliveries' # <<>>
      /\ deliveries # <<>> => deliveries'[1] = deliveries[1]
      /\ deliveries = <<>> => deliveries'[1] = DEFAULT_DELIVERY_DATA
  BY Appended, DefaultIsValid DEF CreateDefault, DeliveryInv
<1>4. req[h].told = DEFAULT_DELIVERY_DATA
  BY DEF CreateDefault, DeliveryInv
<1>5. quoted'.fee \in quoted'.due
  BY <1>4 DEF CreateDefault, Quote
<1>6. FeeIsTheOneTold'
  BY <1>1, <1>3, <1>5 DEF DeliveryInv, FeeIsTheOneTold
<1> QED
  BY <1>1, <1>2, <1>3, <1>6 DEF DeliveryInv, Updating

LEMMA StepCreateDelivery ==
    ASSUME DeliveryInv, NEW h \in Handler, CreateDelivery(h)
    PROVE  DeliveryInv'
<1>1. /\ Await(h, "idle", Nobody) /\ UNCHANGED quoted
      /\ told' = req[h].data /\ mixed' = (deliveries # <<>>) /\ saves' = saves + 1
  BY DEF CreateDelivery, Acknowledge, Answer, Done
<1>2. /\ DeskInv' /\ at'[h] = "idle"
      /\ \A g \in Handler \ {h} : at'[g] = at[g] /\ req'[g] = req[g]
  BY <1>1, Moved DEF DeliveryInv, Await
<1>3. Updating(req[h])
  BY DEF CreateDelivery, DeliveryInv
<1>4. /\ deliveries' \in Seq(DeliveryDoc) /\ deliveries' # <<>>
      /\ deliveries # <<>> => deliveries'[1] = deliveries[1]
      /\ deliveries = <<>> => deliveries'[1] = req[h].data
  BY <1>3, Appended DEF CreateDelivery, DeliveryInv, Updating
<1>5. FeeIsTheOneTold'
  <2>1. quoted' # Nobody => quoted'.mixed \/ quoted'.fee \in quoted'.due
    BY <1>1 DEF DeliveryInv, FeeIsTheOneTold
  <2>2. CASE deliveries # <<>>
    <3>1. mixed'
      BY <1>1, <2>2, Zenon
    <3> QED
      BY <2>1, <3>1 DEF FeeIsTheOneTold
  <2>3. CASE deliveries = <<>>
    <3>1. Head(deliveries') = told'
      BY <1>1, <1>4, <2>3
    <3> QED
      BY <2>1, <3>1 DEF FeeIsTheOneTold
  <2> QED
    BY <2>2, <2>3
<1> QED
  BY <1>1, <1>2, <1>3, <1>4, <1>5 DEF DeliveryInv, Updating

\* An update that nobody ran into leaves exactly what it was asked to.
LEMMA StepSaveDelivery ==
    ASSUME DeliveryInv, NEW h \in Handler, SaveDelivery(h)
    PROVE  DeliveryInv'
<1> DEFINE r == req[h]
           doc == [f \in DOMAIN deliveries[1] |->
                      IF r.data[f] # r.delivery[f] THEN r.data[f] ELSE deliveries[1][f]]
<1>1. /\ Await(h, "idle", Nobody) /\ UNCHANGED quoted
      /\ told' = r.data /\ mixed' = (r.saves # saves) /\ saves' = saves + 1
      /\ deliveries' = [deliveries EXCEPT ![1] = doc]
  BY DEF SaveDelivery, Acknowledge, Answer, Done
<1>2. /\ DeskInv' /\ at'[h] = "idle"
      /\ \A g \in Handler \ {h} : at'[g] = at[g] /\ req'[g] = req[g]
  BY <1>1, Moved DEF DeliveryInv, Await
<1>3. Updating(r) /\ r.delivery # Nobody /\ deliveries # <<>>
  BY DEF SaveDelivery, DeliveryInv, Updating
<1>4. deliveries[1] \in DeliveryDoc
  BY <1>3 DEF DeliveryInv
<1>5. doc \in DeliveryDoc
  BY <1>3, <1>4 DEF Updating, DeliveryDoc
<1>6. r.saves = saves => doc = r.data
  BY <1>3, <1>4 DEF Updating, DeliveryDoc
<1> HIDE DEF doc
<1>7. /\ deliveries' \in Seq(DeliveryDoc) /\ deliveries' # <<>> /\ deliveries'[1] = doc
  BY <1>1, <1>3, <1>5 DEF DeliveryInv
<1>8. FeeIsTheOneTold'
  <2>1. quoted' # Nobody => quoted'.mixed \/ quoted'.fee \in quoted'.due
    BY <1>1 DEF DeliveryInv, FeeIsTheOneTold
  <2>2. CASE r.saves # saves
    <3>1. mixed'
      BY <1>1, <2>2, Zenon
    <3> QED
      BY <2>1, <3>1 DEF FeeIsTheOneTold
  <2>3. CASE r.saves = saves
    <3>1. Head(deliveries') = told'
      BY <1>1, <1>6, <1>7, <2>3
    <3> QED
      BY <2>1, <3>1 DEF FeeIsTheOneTold
  <2> QED
    BY <2>2, <2>3
<1> QED
  BY <1>1, <1>2, <1>3, <1>7, <1>8 DEF DeliveryInv, Updating

LEMMA VivaMoves ==
    ASSUME NEW h \in Handler, VivaNext(h)
    PROVE  \E step \in {"viva.token", "viva.call", "viva.answer", "idle"} : \E r : Await(h, step, r)
<1>1. CASE getAccessToken(h)
  BY <1>1 DEF getAccessToken, Accept
<1>2. CASE TokenIssued(h) \/ TokenArrives(h) \/ CallArrives(h)
  BY <1>2 DEF TokenIssued, TokenArrives, CallArrives, GoTo
<1>3. CASE TokenFails(h) \/ createOrder(h)
  BY <1>3 DEF TokenFails, createOrder, Answer, Done
<1> QED
  BY <1>1, <1>2, <1>3 DEF VivaNext

\* DeliveryInv is inductive.
LEMMA DeliveryStep ==
    ASSUME DeliveryInv, [Next]_vars
    PROVE  DeliveryInv'
<1>1. CASE UNCHANGED vars
  BY <1>1, DeliveryStutter DEF vars, deskVars, shopVars, shopHistory, deliveryVars
<1>2. ASSUME NEW h \in Handler, BookNext(h), UNCHANGED shopVars PROVE DeliveryInv'
  BY <1>2, BookMoves, DeliveryFrame DEF Await, shopVars, shopHistory, deliveryVars
<1>3. ASSUME NEW h \in Handler, ShopNext(h) PROVE DeliveryInv'
  <2>1. CASE DeliveryNext(h)
    BY <2>1, StepGetDelivery, StepUpdateDelivery, StepCreateDefault, StepCreateDelivery,
       StepSaveDelivery DEF DeliveryNext
  <2>2. CASE (PageNext(h) \/ SubscriberNext(h)) /\ UNCHANGED deliveryVars
    BY <2>2, PageMoves, SubscriberMoves, DeliveryStutter, DeliveryFrame DEF Await
  <2> QED
    BY <1>3, <2>1, <2>2 DEF ShopNext
<1>4. ASSUME NEW h \in Handler, VivaNext(h), UNCHANGED shopVars PROVE DeliveryInv'
  BY <1>4, VivaMoves, DeliveryFrame DEF Await, shopVars, shopHistory, deliveryVars
<1>5. CASE VivaTick /\ UNCHANGED shopVars
  BY <1>5, DeliveryStutter DEF VivaTick, shopVars, shopHistory, deliveryVars
<1> QED
  BY <1>1, <1>2, <1>3, <1>4, <1>5 DEF Next

\* Checkout charges the fee of the delivery settings last told of (getDelivery,
\* updateDelivery), but for updates that run into another writer.
THEOREM FeeAlwaysTold == Spec => []FeeIsTheOneTold
<1>1. Init => DeliveryInv
  <2> SUFFICES ASSUME Init PROVE DeliveryInv
    OBVIOUS
  <2>1. DeskInv /\ \A h \in Handler : at[h] = "idle"
    BY DEF Init, DeskInit, DeskInv
  <2>2. /\ deliveries = <<>> /\ told = DEFAULT_DELIVERY_DATA /\ mixed = FALSE
        /\ saves = 0 /\ quoted = Nobody
    BY DEF Init, ShopInit
  <2>3. FeeIsTheOneTold
    BY <2>2 DEF FeeIsTheOneTold
  <2>4. deliveries \in Seq(DeliveryDoc) /\ saves \in Nat
    BY <2>2, SMT
  <2>5. mixed \in BOOLEAN
    BY <2>2, Zenon
  <2> QED
    BY <2>1, <2>2, <2>3, <2>4, <2>5, DefaultIsValid DEF DeliveryInv
<1>2. DeliveryInv /\ [Next]_vars => DeliveryInv'
  BY DeliveryStep
<1>3. DeliveryInv => FeeIsTheOneTold
  BY DEF DeliveryInv
<1> QED
  BY <1>1, <1>2, <1>3, PTL DEF Spec

-------------------------------------------------------------------------------
(* One document of each *)

PageBody == [{"title", "content"} -> Words \cup {Nobody}]

\* What an upsert awaiting its insert is about.
PagesInv ==
    /\ DeskInv
    /\ pages \in [Slug -> Seq(PageDoc)] /\ said = [s \in Slug |-> said[s]]
    /\ \A h \in Handler : at[h] = "page.insert" => req[h].slug \in Slug /\ req[h].body \in PageBody
    /\ OnePage

\* A request to subscribe has found no such address among the documents it saw.
Subscribing(r) ==
    /\ r \in [email : Email, seen : Nat] /\ r.seen <= Len(subscribers)
    /\ \A i \in 1..r.seen : subscribers[i].email # r.email

SubscribersInv ==
    /\ DeskInv
    /\ subscribers \in Seq([email : Email, seen : Nat])
    /\ \A h \in Handler : at[h] = "subscriber.insert" => Subscribing(req[h])
    /\ OneSubscriber

LEMMA PagesStutter ==
    ASSUME PagesInv, UNCHANGED <<at, req, indexed, pageVars>>
    PROVE  PagesInv'
BY DEF PagesInv, pageVars, DeskInv, OnePage, getPublicBySlug

LEMMA PagesFrame ==
    ASSUME PagesInv, NEW h \in Handler, NEW step, NEW r, step # "page.insert",
           Await(h, step, r), UNCHANGED <<indexed, pageVars>>
    PROVE  PagesInv'
<1>1. /\ DeskInv' /\ at'[h] = step
      /\ \A g \in Handler \ {h} : at'[g] = at[g] /\ req'[g] = req[g]
  BY Moved DEF PagesInv
<1> QED
  BY <1>1 DEF PagesInv, pageVars, OnePage, getPublicBySlug

LEMMA SubscribersStutter ==
    ASSUME SubscribersInv, UNCHANGED <<at, req, indexed, subscribers>>
    PROVE  SubscribersInv'
BY DEF SubscribersInv, DeskInv, OneSubscriber, Subscribing

LEMMA SubscribersFrame ==
    ASSUME SubscribersInv, NEW h \in Handler, NEW step, NEW r, step # "subscriber.insert",
           Await(h, step, r), UNCHANGED <<indexed, subscribers>>
    PROVE  SubscribersInv'
<1>1. /\ DeskInv' /\ at'[h] = step
      /\ \A g \in Handler \ {h} : at'[g] = at[g] /\ req'[g] = req[g]
  BY Moved DEF SubscribersInv
<1> QED
  BY <1>1 DEF SubscribersInv, OneSubscriber, Subscribing

\* What $set and $setOnInsert make of a page is a page.
LEMMA SetIsPage ==
    ASSUME NEW page \in PageDoc, NEW body \in PageBody
    PROVE  Set(page, body) \in PageDoc
BY DEF Set, PageDoc, PageBody

LEMMA FreshIsPage == Fresh \in PageDoc
BY DEF Fresh, PageDoc

\* The first document of a page is set, and whoever asked is told of it.
LEMMA PageChanged ==
    ASSUME PagesInv, NEW slug \in Slug, NEW body \in PageBody, pages[slug] # <<>>,
           pages' = [pages EXCEPT ![slug][1] = Set(@, body)], Says(slug, body),
           UNCHANGED indexed
    PROVE  /\ pages' \in [Slug -> Seq(PageDoc)] /\ said' = [s \in Slug |-> said'[s]]
           /\ OnePage'
<1> DEFINE new == Set(pages[slug][1], body)
<1>1. pages[slug] \in Seq(PageDoc) /\ pages[slug][1] \in PageDoc
  BY DEF PagesInv
<1>2. new \in PageDoc
  BY <1>1, SetIsPage
<1>3. /\ pages'[slug] = [pages[slug] EXCEPT ![1] = new]
      /\ \A s \in Slug \ {slug} : pages'[s] = pages[s]
      /\ pages' = [s \in Slug |-> pages'[s]]
  BY DEF PagesInv
<1>4. /\ said'[slug] = Set(IF said[slug] = Nobody THEN Fresh ELSE said[slug], body)
      /\ \A s \in Slug \ {slug} : said'[s] = said[s]
      /\ said' = [s \in Slug |-> said'[s]]
  BY DEF PagesInv, Says
<1>5. Len(pages[slug]) <= 1 => said'[slug] = new
  <2> SUFFICES ASSUME Len(pages[slug]) <= 1 PROVE said'[slug] = new
    OBVIOUS
  <2>1. said[slug] = pages[slug][1]
    BY <1>1 DEF PagesInv, OnePage, getPublicBySlug
  <2>2. said[slug] # Nobody
    BY <1>1, <2>1, SettingsAreValid
  <2> QED
    BY <1>4, <2>1, <2>2
<1> HIDE DEF new
<1>6. /\ pages'[slug] \in Seq(PageDoc) /\ Len(pages'[slug]) = Len(pages[slug])
      /\ pages'[slug] # <<>> /\ pages'[slug][1] = new
  BY <1>1, <1>2, <1>3
<1>7. OnePage'
  BY <1>3, <1>4, <1>5, <1>6 DEF PagesInv, OnePage, getPublicBySlug
<1> QED
  BY <1>3, <1>4, <1>6, <1>7 DEF PagesInv

\* Where there is no index, or no such page, another document is added.
LEMMA PageAdded ==
    ASSUME PagesInv, NEW slug \in Slug, NEW body \in PageBody, ~indexed \/ pages[slug] = <<>>,
           pages' = [pages EXCEPT ![slug] = Append(@, Set(Fresh, body))], Says(slug, body),
           UNCHANGED indexed
    PROVE  /\ pages' \in [Slug -> Seq(PageDoc)] /\ said' = [s \in Slug |-> said'[s]]
           /\ OnePage'
<1> DEFINE new == Set(Fresh, body)
<1>1. pages[slug] \in Seq(PageDoc) /\ new \in PageDoc
  BY SetIsPage, FreshIsPage DEF PagesInv
<1>2. /\ pages'[slug] = Append(pages[slug], new)
      /\ \A s \in Slug \ {slug} : pages'[s] = pages[s]
      /\ pages' = [s \in Slug |-> pages'[s]]
  BY DEF PagesInv
<1>3. /\ said'[slug] = Set(IF said[slug] = Nobody THEN Fresh ELSE said[slug], body)
      /\ \A s \in Slug \ {slug} : said'[s] = said[s]
      /\ said' = [s \in Slug |-> said'[s]]
  BY DEF PagesInv, Says
<1>4. pages[slug] = <<>> => said'[slug] = new
  BY <1>3 DEF PagesInv, OnePage, getPublicBySlug
<1> HIDE DEF new
<1>5. /\ pages'[slug] \in Seq(PageDoc) /\ Len(pages'[slug]) = Len(pages[slug]) + 1
      /\ pages'[slug] # <<>> /\ pages[slug] = <<>> => pages'[slug][1] = new
      /\ pages[slug] # <<>> => Len(pages[slug]) > 0
  BY <1>1, <1>2
<1>6. indexed' => Len(pages'[slug]) <= 1
  <2>1. CASE ~indexed
    BY <2>1, Zenon
  <2>2. CASE pages[slug] = <<>>
    BY <1>5, <2>2
  <2> QED
    BY <2>1, <2>2
<1>7. Len(pages'[slug]) <= 1 => Head(pages'[slug]) = said'[slug] /\ pages'[slug] # <<>>
  BY <1>1, <1>4, <1>5
<1>8. OnePage'
  BY <1>2, <1>3, <1>6, <1>7 DEF PagesInv, OnePage, getPublicBySlug
<1> QED
  BY <1>2, <1>3, <1>5, <1>8 DEF PagesInv

LEMMA StepUpsert ==
    ASSUME PagesInv, NEW h \in Handler, NEW slug \in Slug, NEW t \in Words \cup {Nobody},
           NEW c \in Words \cup {Nobody}, upsert(h, slug, [title |-> t, content |-> c]),
           UNCHANGED indexed
    PROVE  PagesInv'
<1> DEFINE body == [title |-> t, content |-> c]
           r == [slug |-> slug, body |-> body]
<1>1. body \in PageBody
  BY DEF PageBody
<1>2. r.slug = slug /\ r.body = body
  OBVIOUS
<1> HIDE DEF body
<1>3. CASE pages[slug] # <<>>
  <2>1. /\ UNCHANGED <<at, req>> /\ Says(slug, body)
        /\ pages' = [pages EXCEPT ![slug][1] = Set(@, body)]
    BY <1>3 DEF upsert, body
  <2> QED
    BY <1>1, <1>3, <2>1, PageChanged DEF PagesInv, DeskInv
<1>4. CASE pages[slug] = <<>>
  <2>1. Await(h, "page.insert", r) /\ UNCHANGED pageVars
    BY <1>4 DEF upsert, Accept, body
  <2> HIDE DEF r
  <2>2. /\ DeskInv' /\ at'[h] = "page.insert" /\ req'[h] = r
        /\ \A g \in Handler \ {h} : at'[g] = at[g] /\ req'[g] = req[g]
    BY <2>1, Moved DEF PagesInv, Await
  <2> QED
    BY <1>1, <1>2, <2>1, <2>2 DEF PagesInv, pageVars, OnePage, getPublicBySlug
<1> QED
  BY <1>3, <1>4

LEMMA StepInsertPage ==
    ASSUME PagesInv, NEW h \in Handler, InsertPage(h), UNCHANGED indexed
    PROVE  PagesInv'
<1> DEFINE slug == req[h].slug
           body == req[h].body
<1>1. Await(h, "idle", Nobody)
  BY DEF InsertPage, Answer, Done
<1>2. slug \in Slug /\ body \in PageBody
  BY DEF InsertPage, PagesInv
<1>3. /\ DeskInv' /\ at'[h] = "idle"
      /\ \A g \in Handler \ {h} : at'[g] = at[g] /\ req'[g] = req[g]
  BY <1>1, Moved DEF PagesInv, Await
<1>4. Says(slug, body)
  BY DEF InsertPage
<1>5. CASE indexed /\ pages[slug] # <<>>
  <2>1. pages' = [pages EXCEPT ![slug][1] = Set(@, body)]
    BY <1>5 DEF InsertPage
  <2> HIDE DEF slug, body
  <2> QED
    BY <1>2, <1>3, <1>4, <1>5, <2>1, PageChanged DEF PagesInv
<1>6. CASE ~(indexed /\ pages[slug] # <<>>)
  <2>1. pages' = [pages EXCEPT ![slug] = Append(@, Set(Fresh, body))]
    BY <1>6 DEF InsertPage
  <2> HIDE DEF slug, body
  <2> QED
    BY <1>2, <1>3, <1>4, <1>6, <2>1, PageAdded DEF PagesInv
<1> QED
  BY <1>5, <1>6

LEMMA StepCreate ==
    ASSUME SubscribersInv, NEW h \in Handler, NEW email \in Email, create(h, email),
           UNCHANGED indexed
    PROVE  SubscribersInv'
<1> DEFINE r == [email |-> email, seen |-> Len(subscribers)]
<1>1. Await(h, "subscriber.insert", r) /\ UNCHANGED subscribers
  BY DEF create, Accept
<1>2. Subscribing(r)
  BY DEF create, Subscribed, Subscribing, SubscribersInv
<1> HIDE DEF r
<1>3. /\ DeskInv' /\ at'[h] = "subscriber.insert" /\ req'[h] = r
      /\ \A g \in Handler \ {h} : at'[g] = at[g] /\ req'[g] = req[g]
  BY <1>1, Moved DEF SubscribersInv, Await
<1> QED
  BY <1>1, <1>2, <1>3 DEF SubscribersInv, OneSubscriber, Subscribing

LEMMA StepInsertSubscriber ==
    ASSUME SubscribersInv, NEW h \in Handler, InsertSubscriber(h), UNCHANGED indexed
    PROVE  SubscribersInv'
<1> DEFINE r == req[h]
<1>1. Await(h, "idle", Nobody)
  BY DEF InsertSubscriber, Answer, Done
<1>2. Subscribing(r)
  BY DEF InsertSubscriber, SubscribersInv
<1>3. /\ DeskInv' /\ at'[h] = "idle"
      /\ \A g \in Handler \ {h} : at'[g] = at[g] /\ req'[g] = req[g]
  BY <1>1, Moved DEF SubscribersInv, Await
<1>4. CASE indexed /\ Subscribed(r.email)
  <2>1. UNCHANGED subscribers
    BY <1>4 DEF InsertSubscriber
  <2> QED
    BY <1>3, <2>1 DEF SubscribersInv, OneSubscriber, Subscribing
<1>5. CASE ~(indexed /\ Subscribed(r.email))
  <2>1. subscribers' = Append(subscribers, r)
    BY <1>5 DEF InsertSubscriber
  <2> HIDE DEF r
  <2>2. /\ subscribers' \in Seq([email : Email, seen : Nat])
        /\ Len(subscribers') = Len(subscribers) + 1
        /\ subscribers'[Len(subscribers) + 1] = r
        /\ \A i \in 1..Len(subscribers) : subscribers'[i] = subscribers[i]
    BY <1>2, <2>1 DEF SubscribersInv, Subscribing
  <2>3. \A i \in 1..Len(subscribers) :
            subscribers[i].email = r.email => ~indexed /\ r.seen < i
    <3> SUFFICES ASSUME NEW i \in 1..Len(subscribers), subscribers[i].email = r.email
                 PROVE  ~indexed /\ r.seen < i
      OBVIOUS
    <3>1. Subscribed(r.email)
      BY DEF Subscribed, SubscribersInv
    <3>2. ~indexed
      BY <1>5, <3>1
    <3>3. r.seen < i
      BY <1>2 DEF Subscribing
    <3> QED
      BY <3>2, <3>3
  <2>4. OneSubscriber'
    <3> SUFFICES ASSUME NEW j \in DOMAIN subscribers', NEW i \in 1..(j - 1),
                        subscribers'[i].email = subscribers'[j].email
                 PROVE  ~indexed' /\ subscribers'[j].seen < i
      BY DEF OneSubscriber
    <3>1. DOMAIN subscribers' = 1..(Len(subscribers) + 1) /\ DOMAIN subscribers = 1..Len(subscribers)
      BY <2>2 DEF SubscribersInv
    <3>2. CASE j = Len(subscribers) + 1
      <4>1. subscribers'[i] = subscribers[i] /\ subscribers'[j] = r /\ i \in 1..Len(subscribers)
        BY <2>2, <3>2 DEF SubscribersInv
      <4> QED
        BY <2>3, <4>1
    <3>3. CASE j # Len(subscribers) + 1
      <4>1. j \in 1..Len(subscribers) /\ i \in 1..Len(subscribers)
        BY <3>1, <3>3 DEF SubscribersInv
      <4>2. subscribers'[i] = subscribers[i] /\ subscribers'[j] = subscribers[j]
        BY <2>2, <4>1
      <4> QED
        BY <3>1, <4>1, <4>2 DEF SubscribersInv, OneSubscriber
    <3> QED
      BY <3>2, <3>3
  <2>5. ASSUME NEW g \in Handler \ {h}, at'[g] = "subscriber.insert"
        PROVE  Subscribing(req[g])'
    <3>1. Subscribing(req[g]) /\ req'[g] = req[g]
      BY <1>3, <2>5 DEF SubscribersInv
    <3>2. Len(subscribers) \in Nat
      BY DEF SubscribersInv
    <3>3. \A i \in 1..req[g].seen : i \in 1..Len(subscribers)
      BY <3>1, <3>2 DEF Subscribing
    <3> QED
      BY <2>2, <3>1, <3>2, <3>3 DEF Subscribing
  <2> QED
    BY <1>3, <2>2, <2>4, <2>5 DEF SubscribersInv
<1> QED
  BY <1>4, <1>5

\* PagesInv and SubscribersInv are inductive.
LEMMA SingleStep ==
    ASSUME PagesInv, SubscribersInv, [Next]_vars
    PROVE  PagesInv' /\ SubscribersInv'
<1>1. CASE UNCHANGED vars
  BY <1>1, PagesStutter, SubscribersStutter
     DEF vars, deskVars, shopVars, shopHistory, pageVars
<1>2. ASSUME NEW h \in Handler, BookNext(h), UNCHANGED shopVars
      PROVE  PagesInv' /\ SubscribersInv'
  BY <1>2, BookMoves, PagesFrame, SubscribersFrame DEF Await, shopVars, shopHistory, pageVars
<1>3. ASSUME NEW h \in Handler, ShopNext(h) PROVE PagesInv' /\ SubscribersInv'
  <2>1. UNCHANGED indexed
    BY <1>3 DEF ShopNext
  <2>2. CASE DeliveryNext(h) /\ UNCHANGED <<pageVars, subscribers>>
    BY <2>1, <2>2, DeliveryMoves, PagesStutter, PagesFrame, SubscribersStutter, SubscribersFrame
       DEF Await
  <2>3. CASE PageNext(h) /\ UNCHANGED subscribers
    <3>1. PagesInv'
      BY <2>1, <2>3, StepUpsert, StepInsertPage DEF PageNext
    <3>2. SubscribersInv'
      BY <2>1, <2>3, PageMoves, SubscribersStutter, SubscribersFrame DEF Await
    <3> QED
      BY <3>1, <3>2
  <2>4. CASE SubscriberNext(h) /\ UNCHANGED pageVars
    <3>1. SubscribersInv'
      BY <2>1, <2>4, StepCreate, StepInsertSubscriber DEF SubscriberNext
    <3>2. PagesInv'
      BY <2>1, <2>4, SubscriberMoves, PagesStutter, PagesFrame DEF Await
    <3> QED
      BY <3>1, <3>2
  <2> QED
    BY <1>3, <2>2, <2>3, <2>4 DEF ShopNext
<1>4. ASSUME NEW h \in Handler, VivaNext(h), UNCHANGED shopVars
      PROVE  PagesInv' /\ SubscribersInv'
  BY <1>4, VivaMoves, PagesFrame, SubscribersFrame DEF Await, shopVars, shopHistory, pageVars
<1>5. CASE VivaTick /\ UNCHANGED shopVars
  BY <1>5, PagesStutter, SubscribersStutter DEF VivaTick, shopVars, shopHistory, pageVars
<1> QED
  BY <1>1, <1>2, <1>3, <1>4, <1>5 DEF Next

\* Where the unique indexes are made there is one document of a page (settings upsert) and
\* of a subscriber (create); where they are not, two of a subscriber come of overlaps only.
THEOREM AlwaysOneOfEach == Spec => []OneOfEach
<1>1. Init => PagesInv /\ SubscribersInv
  <2> SUFFICES ASSUME Init PROVE PagesInv /\ SubscribersInv
    OBVIOUS
  <2>1. DeskInv /\ \A h \in Handler : at[h] = "idle"
    BY DEF Init, DeskInit, DeskInv
  <2>2. /\ pages = [s \in Slug |-> <<>>] /\ said = [s \in Slug |-> Nobody]
        /\ subscribers = <<>>
    BY DEF Init, ShopInit
  <2>3. OnePage /\ OneSubscriber
    BY <2>2 DEF OnePage, OneSubscriber, getPublicBySlug
  <2>4. pages \in [Slug -> Seq(PageDoc)] /\ subscribers \in Seq([email : Email, seen : Nat])
    BY <2>2
  <2> QED
    BY <2>1, <2>2, <2>3, <2>4 DEF PagesInv, SubscribersInv
<1>2. PagesInv /\ SubscribersInv /\ [Next]_vars => PagesInv' /\ SubscribersInv'
  BY SingleStep
<1>3. PagesInv /\ SubscribersInv => OneOfEach
  BY DEF PagesInv, SubscribersInv, OneOfEach
<1> QED
  BY <1>1, <1>2, <1>3, PTL DEF Spec

-------------------------------------------------------------------------------
(* The address book *)

Address == [id : Nat, text : Text, isDefault : BOOLEAN]

Ids(book) == {book[k].id : k \in DOMAIN book}

\* No id twice, and one default address unless there is none at all.
Orderly(book) ==
    /\ book \in Seq(Address)
    /\ \A j, k \in DOMAIN book : book[j].id = book[k].id => j = k
    /\ \A j, k \in DOMAIN book : book[j].isDefault /\ book[k].isDefault => j = k
    /\ book # <<>> => \E k \in DOMAIN book : book[k].isDefault

\* The default address is the one named id, as long as it is there.
DefaultIs(book, id) ==
    id \in Ids(book) => \A k \in DOMAIN book : book[k].isDefault => book[k].id = id

\* What a request makes of its copy is what it was asked for.
Turns(r) ==
    /\ Orderly(r.new) /\ Ids(r.new) = (Ids(r.old) \cup r.adds) \ r.drops
    /\ \/ r.whole
       \/ /\ Len(r.new) = Len(r.old) /\ r.old \in Seq(Address)
          /\ \A k \in DOMAIN r.old : r.new[k].id = r.old[k].id
    /\ r.default # 0 => DefaultIs(r.new, r.default)
    /\ r.default = 0 => \A k \in DOMAIN r.old : r.old[k].isDefault => DefaultIs(r.new, r.old[k].id)

\* Its copy is the book as it is, until the array changes; its new id is nobody else's.
Pending(r) ==
    /\ r.edition \in Nat /\ r.edition <= edition
    /\ r.edition = edition => r.old = savedAddresses
    /\ r.adds \subseteq 1..made /\ r.default \in 0..made
    /\ r.adds \cap kept = {} /\ chosen \notin r.adds
    /\ Turns(r)

BookInOrder ==
    /\ made \in Nat /\ edition \in Nat /\ chosen \in 0..made
    /\ Orderly(savedAddresses) /\ DefaultIs(savedAddresses, chosen)
    /\ kept = Ids(savedAddresses) /\ kept \subseteq 1..made
    /\ \A h \in Handler : at[h] = "book.save" => Pending(req[h])
    /\ \A g, h \in Handler : at[g] = "book.save" /\ at[h] = "book.save" /\ g # h =>
           req[g].adds \cap req[h].adds = {} /\ req[g].default \notin req[h].adds

BookInv == DeskInv /\ (torn \/ BookInOrder)

\* A book in which no id comes twice has as many addresses as ids.
LEMMA OrderlyCounts ==
    ASSUME NEW book, Orderly(book)
    PROVE  /\ IsFiniteSet(Ids(book)) /\ Cardinality(Ids(book)) = Len(book)
           /\ book # <<>> => Cardinality({k \in DOMAIN book : book[k].isDefault}) = 1
<1> DEFINE f == [k \in 1..Len(book) |-> book[k].id]
<1>1. Len(book) \in Nat /\ DOMAIN book = 1..Len(book)
  BY DEF Orderly
<1>2. f \in Bijection(1..Len(book), Ids(book))
  BY <1>1 DEF Orderly, Ids, Bijection, Injection, Surjection, IsInjective
<1>3. ExistsBijection(1..Len(book), Ids(book))
  BY <1>2 DEF ExistsBijection
<1>4. book # <<>> => \E k : {j \in DOMAIN book : book[j].isDefault} = {k}
  <2> SUFFICES ASSUME book # <<>> PROVE \E k : {j \in DOMAIN book : book[j].isDefault} = {k}
    OBVIOUS
  <2>1. PICK k \in DOMAIN book : book[k].isDefault
    BY DEF Orderly
  <2>2. \A j \in DOMAIN book : book[j].isDefault => j = k
    BY <2>1 DEF Orderly
  <2> QED
    BY <2>1, <2>2
<1> QED
  BY <1>1, <1>3, <1>4, FS_CountingElements, FS_NatBijection, FS_Singleton

\* What setDefaultAddress and its like make of the addresses.
LEMMA OnlyDefaultIs ==
    ASSUME NEW book \in Seq(Address), NEW id
    PROVE  /\ OnlyDefault(book, id) \in Seq(Address)
           /\ Len(OnlyDefault(book, id)) = Len(book)
           /\ \A k \in 1..Len(book) : /\ OnlyDefault(book, id)[k].id = book[k].id
                                      /\ (OnlyDefault(book, id)[k].isDefault <=> book[k].id = id)
<1> DEFINE new == [k \in 1..Len(book) |-> [book[k] EXCEPT !.isDefault = (book[k].id = id)]]
<1>1. Len(book) \in Nat /\ OnlyDefault(book, id) = new
  BY DEF OnlyDefault
<1>2. ASSUME NEW k \in 1..Len(book)
      PROVE  new[k] \in Address /\ new[k].id = book[k].id
             /\ (new[k].isDefault <=> book[k].id = id)
  <2>1. book[k] \in Address
    OBVIOUS
  <2>2. new[k] = [book[k] EXCEPT !.isDefault = (book[k].id = id)]
    OBVIOUS
  <2> QED
    BY <2>1, <2>2 DEF Address
<1>3. new \in Seq(Address)
  BY <1>1, <1>2, IsASeq
<1> QED
  BY <1>1, <1>2, <1>3

LEMMA IdsAre ==
    ASSUME NEW book, NEW x
    PROVE  x \in Ids(book) <=> \E k \in DOMAIN book : book[k].id = x
BY DEF Ids

\* The array that save() leaves is as long as the stored one when every position changed is in it.
LEMMA LongestIs ==
    ASSUME NEW n \in Nat, NEW S, S \subseteq 1..n
    PROVE  (CHOOSE k \in {n} \cup S : \A m \in {n} \cup S : m <= k) = n
<1>1. \A m \in {n} \cup S : m \in Nat /\ m <= n
  OBVIOUS
<1>2. \A k \in {n} \cup S : (\A m \in {n} \cup S : m <= k) <=> k = n
  BY <1>1
<1> QED
  BY <1>2

\* save() of a copy that is the book as it is makes it what the request made of its copy.
LEMMA SavedIsNew ==
    ASSUME NEW r, Turns(r), savedAddresses \in Seq(Address), r.old = savedAddresses
    PROVE  Saved(r) = r.new
<1>1. CASE r.whole
  BY <1>1 DEF Saved
<1>2. CASE ~r.whole
  <2> DEFINE paths == Paths(r.old, r.new)
             at1 == {p[1] : p \in paths}
             old == r.old
             new == r.new
             size == CHOOSE n \in {Len(savedAddresses)} \cup at1 :
                         \A m \in {Len(savedAddresses)} \cup at1 : m <= n
             stored(k) == IF k <= Len(savedAddresses) THEN savedAddresses[k] ELSE Ghost
             saved(k) == [id |-> stored(k).id,
                  text |-> IF <<k, "text">> \in paths THEN r.new[k].text ELSE stored(k).text,
                  isDefault |-> IF <<k, "isDefault">> \in paths THEN r.new[k].isDefault
                                ELSE stored(k).isDefault]
  <2>1. /\ old \in Seq(Address) /\ new \in Seq(Address) /\ Len(new) = Len(old)
        /\ \A k \in 1..Len(old) : new[k].id = old[k].id
    BY <1>2 DEF Turns, Orderly
  <2>2. Len(old) \in Nat /\ DOMAIN new = 1..Len(old)
    BY <2>1
  <2>3. at1 \subseteq 1..Len(old)
    BY <2>2 DEF Paths
  <2>4. size = Len(old)
    <3> HIDE DEF at1
    <3>1. Len(savedAddresses) \in Nat /\ at1 \subseteq 1..Len(savedAddresses)
      BY <2>2, <2>3
    <3>2. size = Len(savedAddresses)
      BY <3>1, LongestIs
    <3> QED
      BY <3>2
  <2>5. ASSUME NEW k \in 1..Len(old) PROVE saved(k) = new[k]
    <3>1. old[k] \in Address /\ new[k] \in Address /\ new[k].id = old[k].id
      BY <2>1
    <3>2. stored(k) = old[k]
      BY <2>2
    <3>3. /\ <<k, "text">> \in paths <=> old[k].text # new[k].text
          /\ <<k, "isDefault">> \in paths <=> old[k].isDefault # new[k].isDefault
      <4>1. \A field \in {"text", "isDefault"} :
                <<k, field>> \in paths <=> old[k][field] # new[k][field]
        BY <2>2 DEF Paths
      <4> QED
        BY <4>1
    <3> HIDE DEF paths, stored, old, new
    <3>4. saved(k).id = new[k].id /\ saved(k).text = new[k].text
      BY <3>1, <3>2, <3>3 DEF new
    <3>5. saved(k).isDefault = new[k].isDefault
      BY <3>1, <3>2, <3>3 DEF new
    <3> QED
      BY <3>1, <3>4, <3>5 DEF Address
  <2>6. Saved(r) = [k \in 1..size |-> saved(k)]
    BY <1>2 DEF Saved
  <2> HIDE DEF size, saved
  <2>7. Saved(r) = [k \in 1..Len(old) |-> new[k]]
    BY <2>4, <2>5, <2>6
  <2> QED
    BY <2>1, <2>2, <2>7
<1> QED
  BY <1>1, <1>2

\* A book in order is an array of addresses.
LEMMA OrderlyIs ==
    ASSUME NEW book, Orderly(book)
    PROVE  book \in Seq(Address) /\ Len(book) \in Nat /\ DOMAIN book = 1..Len(book)
BY DEF Orderly

\* What the four requests make of a book that is in order.
LEMMA AddTurns ==
    ASSUME Orderly(savedAddresses), NEW id \in Nat \ {0}, id \notin Ids(savedAddresses),
           NEW text \in Text, NEW isDefault \in BOOLEAN,
           NEW make \in BOOLEAN, make <=> (isDefault \/ savedAddresses = <<>>),
           NEW new, new = Append(IF make THEN OnlyDefault(savedAddresses, 0) ELSE savedAddresses,
                        [id |-> id, text |-> text, isDefault |-> make]),
           \A k \in DOMAIN savedAddresses : savedAddresses[k].id # 0
    PROVE  Turns(Edit(TRUE, new, {id}, {}, IF make THEN id ELSE 0))
<1> DEFINE book == savedAddresses
           added == [id |-> id, text |-> text, isDefault |-> make]
           first == IF make THEN OnlyDefault(book, 0) ELSE book
           n == Len(book)
<1>1. /\ book \in Seq(Address) /\ n \in Nat /\ DOMAIN book = 1..n
  BY OrderlyIs
<1>2. /\ first \in Seq(Address) /\ Len(first) = n
      /\ \A k \in 1..n : first[k].id = book[k].id
      /\ make => \A k \in 1..n : ~first[k].isDefault
      /\ ~make => first = book
  <2>1. CASE make
    BY <1>1, <2>1, OnlyDefaultIs
  <2>2. CASE ~make
    BY <1>1, <2>2
  <2> QED
    BY <2>1, <2>2
<1>3. added \in Address /\ added.id = id /\ (added.isDefault <=> make)
  BY DEF Address
<1> HIDE DEF added, first
<1>4. /\ new \in Seq(Address) /\ DOMAIN new = 1..(n + 1)
      /\ new[n + 1] = added /\ \A k \in 1..n : new[k] = first[k]
  BY <1>1, <1>2, <1>3 DEF added, first
<1>5. Ids(new) = Ids(book) \cup {id}
  <2>1. ASSUME NEW x PROVE x \in Ids(new) <=> x \in Ids(book) \/ x = id
    <3>1. \A k \in 1..n : new[k].id = book[k].id
      BY <1>2, <1>4
    <3>2. new[n + 1].id = id /\ n + 1 \in 1..(n + 1)
      BY <1>1, <1>3, <1>4
    <3>3. \A k \in 1..(n + 1) : k \in 1..n \/ k = n + 1
      BY <1>1
    <3>4. \A k \in 1..n : k \in 1..(n + 1)
      BY <1>1
    <3>5. x \in Ids(new) <=> \E k \in 1..(n + 1) : new[k].id = x
      BY <1>4 DEF Ids
    <3>6. x \in Ids(book) <=> \E k \in 1..n : book[k].id = x
      BY <1>1, IdsAre
    <3> HIDE DEF n, book
    <3> QED
      BY <3>1, <3>2, <3>3, <3>4, <3>5, <3>6
  <2> QED
    BY <2>1
<1>6. \A k \in 1..n : new[k].id = book[k].id /\ new[k].id # id
  BY <1>1, <1>2, <1>4 DEF Ids
<1>7. ASSUME NEW j \in DOMAIN new, NEW k \in DOMAIN new, new[j].id = new[k].id PROVE j = k
  BY <1>1, <1>3, <1>4, <1>6, <1>7 DEF Orderly
<1>8. ASSUME NEW j \in DOMAIN new, NEW k \in DOMAIN new, new[j].isDefault, new[k].isDefault
      PROVE  j = k
  <2>1. CASE make
    BY <1>1, <1>2, <1>4, <1>8, <2>1
  <2>2. CASE ~make
    BY <1>1, <1>2, <1>3, <1>4, <1>8, <2>2 DEF Orderly
  <2> QED
    BY <2>1, <2>2
<1>9. \E k \in DOMAIN new : new[k].isDefault
  <2>1. CASE make
    BY <1>1, <1>3, <1>4, <2>1
  <2>2. CASE ~make
    <3>1. PICK k \in DOMAIN book : book[k].isDefault
      BY <2>2 DEF Orderly
    <3> QED
      BY <1>1, <1>2, <1>4, <2>2, <3>1
  <2> QED
    BY <2>1, <2>2
<1>10. Orderly(new)
  BY <1>4, <1>7, <1>8, <1>9 DEF Orderly
<1>11. make => DefaultIs(new, id)
  BY <1>1, <1>2, <1>3, <1>4 DEF DefaultIs
<1>12. ASSUME ~make, NEW k \in DOMAIN book, book[k].isDefault PROVE DefaultIs(new, book[k].id)
  <2>1. new[k].isDefault /\ new[k].id = book[k].id /\ k \in DOMAIN new
    BY <1>1, <1>2, <1>4, <1>12
  <2> QED
    BY <1>8, <2>1 DEF DefaultIs
<1> QED
  BY <1>5, <1>10, <1>11, <1>12 DEF Turns, Edit

LEMMA DefaultTurns ==
    ASSUME Orderly(savedAddresses), NEW id \in Nat \ {0}, Holds(id),
           NEW book \in Seq(Address), Len(book) = Len(savedAddresses),
           \A k \in DOMAIN savedAddresses : book[k].id = savedAddresses[k].id
    PROVE  Turns(Edit(FALSE, OnlyDefault(book, id), {}, {}, id))
<1> DEFINE new == OnlyDefault(book, id)
           n == Len(book)
<1>1. savedAddresses \in Seq(Address) /\ n \in Nat /\ DOMAIN savedAddresses = 1..n
  BY OrderlyIs
<1>2. /\ new \in Seq(Address) /\ Len(new) = n /\ DOMAIN new = 1..n
      /\ \A k \in 1..n : new[k].id = savedAddresses[k].id
      /\ \A k \in 1..n : new[k].isDefault <=> savedAddresses[k].id = id
  BY <1>1, OnlyDefaultIs
<1> HIDE DEF new
<1>3. Orderly(new)
  BY <1>1, <1>2 DEF Orderly, Holds
<1>4. Ids(new) = Ids(savedAddresses)
  BY <1>1, <1>2 DEF Ids
<1>5. DefaultIs(new, id)
  BY <1>2 DEF DefaultIs
<1> QED
  BY <1>1, <1>2, <1>3, <1>4, <1>5 DEF Turns, Edit, new

LEMMA TextTurns ==
    ASSUME Orderly(savedAddresses), NEW new \in Seq(Address), Len(new) = Len(savedAddresses),
           \A k \in DOMAIN savedAddresses : /\ new[k].id = savedAddresses[k].id
                                            /\ new[k].isDefault <=> savedAddresses[k].isDefault
    PROVE  Turns(Edit(FALSE, new, {}, {}, 0))
<1> DEFINE n == Len(savedAddresses)
<1>1. savedAddresses \in Seq(Address) /\ n \in Nat /\ DOMAIN savedAddresses = 1..n
      /\ DOMAIN new = 1..n
  BY OrderlyIs
<1>2. Orderly(new)
  BY <1>1 DEF Orderly
<1>3. Ids(new) = Ids(savedAddresses)
  BY <1>1 DEF Ids
<1>4. ASSUME NEW k \in DOMAIN savedAddresses, savedAddresses[k].isDefault
      PROVE  DefaultIs(new, savedAddresses[k].id)
  BY <1>1, <1>4 DEF DefaultIs, Orderly
<1> QED
  BY <1>1, <1>2, <1>3, <1>4 DEF Turns, Edit

\* What is left when the address at p goes.
LEMMA RemoveAtIs ==
    ASSUME NEW book \in Seq(Address), NEW p \in 1..Len(book)
    PROVE  /\ RemoveAt(book, p) \in Seq(Address)
           /\ Len(RemoveAt(book, p)) = Len(book) - 1
           /\ \A k \in 1..(Len(book) - 1) :
                  RemoveAt(book, p)[k] = IF k < p THEN book[k] ELSE book[k + 1]
<1> DEFINE a == SubSeq(book, 1, p - 1)
           b == SubSeq(book, p + 1, Len(book))
<1>1. Len(book) \in Nat /\ p \in Nat
  OBVIOUS
<1>2. a \in Seq(Address) /\ Len(a) = p - 1 /\ \A k \in 1..(p - 1) : a[k] = book[k]
  BY <1>1, SubSeqProperties
<1>3. /\ b \in Seq(Address) /\ Len(b) = Len(book) - p
      /\ \A k \in 1..(Len(book) - p) : b[k] = book[k + p]
  BY <1>1, SubSeqProperties
<1> HIDE DEF a, b
<1>4. /\ a \o b \in Seq(Address) /\ Len(a \o b) = Len(a) + Len(b)
      /\ \A k \in 1..(Len(a) + Len(b)) : (a \o b)[k] = IF k <= Len(a) THEN a[k] ELSE b[k - Len(a)]
  BY <1>2, <1>3, ConcatProperties
<1>5. RemoveAt(book, p) = a \o b
  BY DEF RemoveAt, a, b
<1> DEFINE c == a \o b
<1> HIDE DEF c
<1>6. Len(a) + Len(b) = Len(book) - 1
  BY <1>1, <1>2, <1>3
<1>7. ASSUME NEW k \in 1..(Len(book) - 1) PROVE c[k] = IF k < p THEN book[k] ELSE book[k + 1]
  <2>1. c[k] = IF k <= p - 1 THEN a[k] ELSE b[k - (p - 1)]
    BY <1>2, <1>4, <1>6 DEF c
  <2>2. CASE k < p
    BY <1>1, <1>2, <2>1, <2>2
  <2>3. CASE ~(k < p)
    <3>1. k - (p - 1) \in 1..(Len(book) - p) /\ (k - (p - 1)) + p = k + 1 /\ ~(k <= p - 1)
      BY <1>1, <2>3
    <3>2. b[k - (p - 1)] = book[(k - (p - 1)) + p]
      BY <1>3, <3>1
    <3> QED
      BY <2>1, <2>3, <3>1, <3>2
  <2> QED
    BY <2>2, <2>3
<1> QED
  BY <1>4, <1>5, <1>6, <1>7 DEF c

LEMMA RemoveTurns ==
    ASSUME Orderly(savedAddresses), NEW id \in Nat \ {0}, Holds(id),
           NEW next, next = RemoveAt(savedAddresses, Position(id))
    PROVE  Turns(Edit(TRUE, IF savedAddresses[Position(id)].isDefault /\ next # <<>>
                            THEN [next EXCEPT ![1].isDefault = TRUE] ELSE next, {}, {id}, 0))
<1> DEFINE new == IF savedAddresses[Position(id)].isDefault /\ next # <<>>
                  THEN [next EXCEPT ![1].isDefault = TRUE] ELSE next
           book == savedAddresses
           p == Position(id)
           n == Len(book)
           was == book[p].isDefault
           from == [k \in 1..(n - 1) |-> IF k < p THEN k ELSE k + 1]
<1> SUFFICES Turns(Edit(TRUE, new, {}, {id}, 0))
  OBVIOUS
<1> HIDE DEF new
<1>1. book \in Seq(Address) /\ n \in Nat /\ DOMAIN book = 1..n
  BY OrderlyIs
<1>2. p \in 1..n /\ book[p].id = id
  BY <1>1 DEF Holds, Position
<1> HIDE DEF p
<1>3. /\ next \in Seq(Address) /\ Len(next) = n - 1 /\ DOMAIN next = 1..(n - 1)
      /\ \A k \in 1..(n - 1) : next[k] = book[from[k]]
  <2>1. /\ next \in Seq(Address) /\ Len(next) = n - 1
        /\ \A k \in 1..(n - 1) : next[k] = IF k < p THEN book[k] ELSE book[k + 1]
    BY <1>1, <1>2, RemoveAtIs DEF p
  <2> QED
    BY <1>1, <2>1
<1>4. /\ \A k \in 1..(n - 1) : from[k] \in (1..n) \ {p}
      /\ \A j, k \in 1..(n - 1) : from[j] = from[k] => j = k
      /\ \A i \in (1..n) \ {p} : \E k \in 1..(n - 1) : from[k] = i
  <2>1. ASSUME NEW i \in (1..n) \ {p} PROVE \E k \in 1..(n - 1) : from[k] = i
    <3>1. CASE i < p
      BY <1>1, <1>2, <3>1
    <3>2. CASE ~(i < p)
      <4>1. i - 1 \in 1..(n - 1) /\ ~(i - 1 < p) /\ (i - 1) + 1 = i
        BY <1>1, <1>2, <3>2
      <4>2. from[i - 1] = i
        BY <4>1
      <4> QED
        BY <4>1, <4>2
    <3> QED
      BY <3>1, <3>2
  <2> QED
    BY <1>1, <1>2, <2>1
<1> HIDE DEF from
<1>5. /\ new \in Seq(Address) /\ Len(new) = n - 1 /\ DOMAIN new = 1..(n - 1)
      /\ \A k \in 1..(n - 1) : new[k].id = book[from[k]].id
      /\ ~was => \A k \in 1..(n - 1) : new[k].isDefault <=> book[from[k]].isDefault
      /\ was => \A k \in 1..(n - 1) : new[k].isDefault <=> k = 1
  <2>1. CASE ~was
    BY <1>3, <2>1 DEF p, new
  <2>2. CASE was /\ next = <<>>
    <3>1. new = next /\ n - 1 = 0
      BY <1>1, <1>3, <2>2 DEF p, new
    <3> HIDE DEF n, book, was
    <3>2. \A k \in 1..(n - 1) : FALSE
      BY <1>1, <3>1
    <3> QED
      BY <1>3, <2>2, <3>1, <3>2
  <2>3. CASE was /\ next # <<>>
    <3>1. new = [next EXCEPT ![1].isDefault = TRUE] /\ 1 \in 1..(n - 1)
      BY <1>1, <1>3, <2>3 DEF p, new
    <3>2. next[1] \in Address
      BY <1>3, <3>1
    <3> DEFINE heir == [next[1] EXCEPT !.isDefault = TRUE]
    <3>3. heir \in Address /\ heir.id = next[1].id /\ heir.isDefault
      BY <3>2 DEF Address
    <3>4. new = [next EXCEPT ![1] = heir]
      BY <3>1
    <3> HIDE DEF heir
    <3>7. /\ new[1] = heir /\ new \in Seq(Address)
          /\ DOMAIN new = 1..(n - 1) /\ Len(new) = n - 1
          /\ \A k \in 1..(n - 1) : k # 1 => new[k] = next[k]
      <4>1. 1 \in 1..Len(next)
        BY <1>3, <3>1
      <4>2. /\ new \in Seq(Address) /\ Len(new) = Len(next)
            /\ \A k \in 1..Len(next) : new[k] = IF k = 1 THEN heir ELSE next[k]
        <5>1. next \in Seq(Address)
          BY <1>3
        <5> QED
          BY <3>3, <3>4, <4>1, <5>1
      <4> QED
        BY <1>3, <4>1, <4>2
    <3>5. ASSUME NEW k \in 1..(n - 1), k # 1 PROVE ~new[k].isDefault
      <4>1. new[k] = book[from[k]] /\ from[k] \in 1..n /\ from[k] # p
        BY <1>3, <1>4, <3>5, <3>7
      <4> QED
        BY <1>1, <1>2, <2>3, <4>1 DEF Orderly
    <3>8. \A k \in 1..(n - 1) : new[k].id = book[from[k]].id
      BY <1>3, <3>3, <3>7
    <3>9. \A k \in 1..(n - 1) : new[k].isDefault <=> k = 1
      BY <3>3, <3>5, <3>7
    <3> QED
      BY <2>3, <3>7, <3>8, <3>9
  <2> QED
    BY <2>1, <2>2, <2>3
<1>6. \A j, k \in DOMAIN new : new[j].id = new[k].id => j = k
  <2>1. \A i, j \in 1..n : book[i].id = book[j].id => i = j
    BY <1>1 DEF Orderly
  <2> HIDE DEF n, book
  <2>2. \A k \in 1..(n - 1) : from[k] \in 1..n /\ new[k].id = book[from[k]].id
    BY <1>4, <1>5
  <2>3. \A j, k \in 1..(n - 1) : from[j] = from[k] => j = k
    BY <1>4
  <2> QED
    BY <1>5, <2>1, <2>2, <2>3
<1>7. \A j, k \in DOMAIN new : new[j].isDefault /\ new[k].isDefault => j = k
  <2>1. CASE was
    BY <1>5, <2>1
  <2>2. CASE ~was
    <3>1. \A i, j \in 1..n : book[i].isDefault /\ book[j].isDefault => i = j
      BY <1>1 DEF Orderly
    <3> HIDE DEF n, book
    <3> QED
      BY <1>4, <1>5, <2>2, <3>1
  <2> QED
    BY <2>1, <2>2
<1>8. new # <<>> => \E k \in DOMAIN new : new[k].isDefault
  <2> SUFFICES ASSUME new # <<>> PROVE \E k \in DOMAIN new : new[k].isDefault
    OBVIOUS
  <2>1. 1 \in DOMAIN new
    BY <1>1, <1>5
  <2>2. CASE was
    BY <1>5, <2>1, <2>2
  <2>3. CASE ~was
    <3>1. PICK i \in 1..n : book[i].isDefault
      BY <1>1, <1>2 DEF Orderly
    <3>2. PICK k \in 1..(n - 1) : from[k] = i
      BY <1>4, <2>3, <3>1
    <3> QED
      BY <1>5, <2>3, <3>1, <3>2
  <2> QED
    BY <2>2, <2>3
<1>9. Orderly(new)
  BY <1>5, <1>6, <1>7, <1>8 DEF Orderly
<1>10. Ids(new) = Ids(book) \ {id}
  <2>1. \A i \in 1..n : book[i].id = id <=> i = p
    BY <1>1, <1>2 DEF Orderly
  <2>2. ASSUME NEW x PROVE x \in Ids(new) <=> x \in Ids(book) /\ x # id
    <3>1. x \in Ids(new) <=> \E k \in 1..(n - 1) : new[k].id = x
      BY <1>5 DEF Ids
    <3>2. x \in Ids(book) <=> \E i \in 1..n : book[i].id = x
      BY <1>1, IdsAre
    <3>3. \A k \in 1..(n - 1) : new[k].id = book[from[k]].id
      BY <1>5
    <3> HIDE DEF n, book
    <3> QED
      BY <1>2, <1>4, <2>1, <3>1, <3>2, <3>3
  <2> QED
    BY <2>2
<1>11. ASSUME NEW k \in DOMAIN book, book[k].isDefault PROVE DefaultIs(new, book[k].id)
  <2>1. CASE was
    <3>1. k = p
      BY <1>1, <1>2, <1>11, <2>1 DEF Orderly
    <3> QED
      BY <1>2, <1>10, <3>1 DEF DefaultIs
  <2>2. CASE ~was
    BY <1>1, <1>4, <1>5, <1>11, <2>2 DEF DefaultIs, Orderly
  <2> QED
    BY <2>1, <2>2
<1> QED
  BY <1>9, <1>10, <1>11 DEF Turns, Edit

LEMMA BookStutter ==
    ASSUME BookInv, UNCHANGED <<at, req, bookVars>>
    PROVE  BookInv'
BY DEF BookInv, BookInOrder, Pending, bookVars, bookHistory, DeskInv

LEMMA BookFrame ==
    ASSUME BookInv, NEW h \in Handler, NEW step, NEW r, step # "book.save",
           Await(h, step, r), UNCHANGED bookVars
    PROVE  BookInv'
<1>1. /\ DeskInv' /\ at'[h] = step
      /\ \A g \in Handler \ {h} : at'[g] = at[g] /\ req'[g] = req[g]
  BY Moved DEF BookInv
<1> QED
  BY <1>1 DEF BookInv, BookInOrder, Pending, bookVars, bookHistory

\* A request that comes in holds a current copy and, if any, an id nobody has had.
LEMMA BookLoads ==
    ASSUME BookInv, NEW h \in Handler, NEW r, Loads(h, r),
           r.edition = edition, r.old = savedAddresses,
           BookInOrder => /\ Turns(r) /\ made' \in Nat /\ made' >= made
                          /\ r.adds \subseteq (made + 1)..made'
                          /\ r.default \in kept \cup r.adds \cup {0}
    PROVE  BookInv'
<1>1. /\ Await(h, "book.save", r)
      /\ UNCHANGED <<savedAddresses, edition, torn, kept, chosen>>
  BY DEF Loads, Accept, bookHistory
<1>2. /\ DeskInv' /\ at'[h] = "book.save" /\ req'[h] = r
      /\ \A g \in Handler \ {h} : at'[g] = at[g] /\ req'[g] = req[g]
  BY <1>1, Moved DEF BookInv
<1>3. CASE torn
  BY <1>1, <1>2, <1>3, Zenon DEF BookInv
<1>4. CASE BookInOrder
  <2>1. /\ Turns(r) /\ made' \in Nat /\ made' >= made /\ made \in Nat
        /\ r.adds \subseteq (made + 1)..made' /\ r.default \in kept \cup r.adds \cup {0}
        /\ kept \subseteq 1..made /\ chosen \in 0..made /\ edition \in Nat
    BY <1>4 DEF BookInOrder
  <2>2. Pending(r)'
    <3>1. edition' \in Nat /\ r.edition = edition' /\ r.old = savedAddresses'
      BY <1>1, <2>1
    <3>3. /\ \A i \in (made + 1)..made' : i \in 1..made' /\ i \in 0..made'
          /\ \A i \in 1..made : i \in 0..made'
          /\ 0 \in 0..made'
      BY <2>1
    <3>4. r.adds \subseteq 1..made' /\ r.default \in 0..made'
      BY <2>1, <3>3
    <3>2. r.adds \cap kept' = {} /\ chosen' \notin r.adds
      BY <1>1, <2>1
    <3> QED
      BY <2>1, <3>1, <3>2, <3>4 DEF Pending, Turns
  <2>3. ASSUME NEW g \in Handler \ {h}, at[g] = "book.save"
        PROVE  /\ Pending(req[g])' /\ req[g].adds \cap r.adds = {}
               /\ req[g].default \notin r.adds /\ r.default \notin req[g].adds
    <3>1. Pending(req[g])
      BY <1>4, <2>3 DEF BookInOrder
    <3>2. /\ req[g].adds \cap r.adds = {} /\ req[g].default \notin r.adds
          /\ req[g].adds \subseteq 1..made' /\ req[g].default \in 0..made'
      BY <2>1, <3>1 DEF Pending
    <3>3. r.default \notin req[g].adds
      BY <2>1, <3>1 DEF Pending
    <3> QED
      BY <1>1, <1>2, <3>1, <3>2, <3>3 DEF Pending, Turns
  <2>4. BookInOrder'
    BY <1>1, <1>2, <1>4, <2>1, <2>2, <2>3 DEF BookInOrder
  <2> QED
    BY <1>2, <2>4 DEF BookInv
<1> QED
  BY <1>3, <1>4 DEF BookInv

LEMMA StepAddAddress ==
    ASSUME BookInv, NEW h \in Handler, NEW text \in Text, NEW b \in BOOLEAN, addAddress(h, text, b)
    PROVE  BookInv'
<1> DEFINE id == made + 1
           make == b \/ savedAddresses = <<>>
           new == Append(IF make THEN OnlyDefault(savedAddresses, 0) ELSE savedAddresses,
                         [id |-> id, text |-> text, isDefault |-> make])
           r == Edit(TRUE, new, {id}, {}, IF make THEN id ELSE 0)
<1>1. Loads(h, r) /\ made' = id
  BY DEF addAddress
<1>2. /\ r.edition = edition /\ r.old = savedAddresses /\ r.adds = {id}
      /\ r.default \in r.adds \cup {0}
  BY DEF Edit
<1>3. BookInOrder => Turns(r)
  <2> SUFFICES ASSUME BookInOrder PROVE Turns(r)
    OBVIOUS
  <2>1. /\ Orderly(savedAddresses) /\ id \in Nat \ {0} /\ id \notin Ids(savedAddresses)
        /\ make \in BOOLEAN
        /\ \A k \in DOMAIN savedAddresses : savedAddresses[k].id # 0
    BY <1>1 DEF BookInOrder, Loads
  <2> QED
    BY <2>1, AddTurns
<1> HIDE DEF r
<1>4. BookInOrder => made \in Nat
  BY DEF BookInOrder
<1> QED
  BY <1>1, <1>2, <1>3, <1>4, BookLoads

LEMMA StepUpdateAddress ==
    ASSUME BookInv, NEW h \in Handler, NEW id \in 1..made, NEW text \in Text, NEW b \in BOOLEAN,
           updateAddress(h, id, text, b)
    PROVE  BookInv'
<1> DEFINE written == [k \in DOMAIN savedAddresses |->
                      IF savedAddresses[k].id = id THEN [savedAddresses[k] EXCEPT !.text = text]
                      ELSE savedAddresses[k]]
           r == Edit(FALSE, IF b THEN OnlyDefault(written, id) ELSE written, {}, {}, IF b THEN id ELSE 0)
<1>1. Loads(h, r) /\ made' = made /\ Holds(id)
  BY DEF updateAddress
<1>2. /\ r.edition = edition /\ r.old = savedAddresses /\ r.adds = {}
      /\ r.default \in {id, 0}
  BY DEF Edit
<1>3. BookInOrder => Turns(r)
  <2> SUFFICES ASSUME BookInOrder PROVE Turns(r)
    OBVIOUS
  <2>1. /\ Orderly(savedAddresses) /\ id \in Nat \ {0}
        /\ savedAddresses \in Seq(Address) /\ DOMAIN savedAddresses = 1..Len(savedAddresses)
        /\ Len(savedAddresses) \in Nat
    BY OrderlyIs DEF BookInOrder
  <2>2. ASSUME NEW k \in 1..Len(savedAddresses)
        PROVE  /\ written[k] \in Address /\ written[k].id = savedAddresses[k].id
               /\ written[k].isDefault <=> savedAddresses[k].isDefault
    <3> DEFINE a == savedAddresses[k]
               a2 == [a EXCEPT !.text = text]
    <3>1. a \in Address /\ written[k] = IF a.id = id THEN a2 ELSE a
      BY <2>1
    <3>2. a2 \in Address /\ a2.id = a.id /\ a2.isDefault = a.isDefault
      BY <3>1 DEF Address
    <3> HIDE DEF a2, written, a
    <3>3. written[k] = a2 \/ written[k] = a
      BY <3>1
    <3> QED
      BY <3>1, <3>2, <3>3 DEF a
  <2>3. written \in Seq(Address) /\ Len(written) = Len(savedAddresses)
    BY <2>1, <2>2, IsASeq
  <2> HIDE DEF written
  <2>4. CASE b
    BY <1>1, <2>1, <2>2, <2>3, <2>4, DefaultTurns
  <2>5. CASE ~b
    BY <2>1, <2>2, <2>3, <2>5, TextTurns
  <2> QED
    BY <2>4, <2>5
<1> HIDE DEF r
<1>4. BookInOrder => made \in Nat /\ id \in kept
  BY <1>1 DEF BookInOrder, Holds, Ids
<1> QED
  BY <1>1, <1>2, <1>3, <1>4, BookLoads

LEMMA StepRemoveAddress ==
    ASSUME BookInv, NEW h \in Handler, NEW id \in 1..made, removeAddress(h, id)
    PROVE  BookInv'
<1> DEFINE next == RemoveAt(savedAddresses, Position(id))
           new == IF savedAddresses[Position(id)].isDefault /\ next # <<>>
                  THEN [next EXCEPT ![1].isDefault = TRUE] ELSE next
           r == Edit(TRUE, new, {}, {id}, 0)
<1>1. Loads(h, r) /\ made' = made /\ Holds(id)
  BY DEF removeAddress
<1>2. r.edition = edition /\ r.old = savedAddresses /\ r.adds = {} /\ r.default = 0
  BY DEF Edit
<1>3. BookInOrder => Turns(r)
  <2> SUFFICES ASSUME BookInOrder PROVE Turns(r)
    OBVIOUS
  <2>1. Orderly(savedAddresses) /\ id \in Nat \ {0}
    BY DEF BookInOrder
  <2> QED
    BY <1>1, <2>1, RemoveTurns
<1> HIDE DEF r
<1>4. BookInOrder => made \in Nat
  BY DEF BookInOrder
<1> QED
  BY <1>1, <1>2, <1>3, <1>4, BookLoads

LEMMA StepSetDefaultAddress ==
    ASSUME BookInv, NEW h \in Handler, NEW id \in 1..made, setDefaultAddress(h, id)
    PROVE  BookInv'
<1> DEFINE r == Edit(FALSE, OnlyDefault(savedAddresses, id), {}, {}, id)
<1>1. Loads(h, r) /\ made' = made /\ Holds(id)
  BY DEF setDefaultAddress
<1>2. r.edition = edition /\ r.old = savedAddresses /\ r.adds = {} /\ r.default = id
  BY DEF Edit
<1>3. BookInOrder => Turns(r)
  <2> SUFFICES ASSUME BookInOrder PROVE Turns(r)
    OBVIOUS
  <2>1. Orderly(savedAddresses) /\ id \in Nat \ {0} /\ savedAddresses \in Seq(Address)
    BY OrderlyIs DEF BookInOrder
  <2> QED
    BY <1>1, <2>1, DefaultTurns
<1> HIDE DEF r
<1>4. BookInOrder => made \in Nat /\ id \in kept
  BY <1>1 DEF BookInOrder, Holds, Ids
<1> QED
  BY <1>1, <1>2, <1>3, <1>4, BookLoads

\* A save of a current copy leaves the book as the request made it; a stale one tears it.
LEMMA StepSaveUser ==
    ASSUME BookInv, NEW h \in Handler, SaveUser(h)
    PROVE  BookInv'
<1> DEFINE r == req[h]
<1>1. Await(h, "idle", Nobody) /\ UNCHANGED made /\ at[h] = "book.save"
  BY DEF SaveUser, Answer, Done
<1>2. /\ DeskInv' /\ at'[h] = "idle"
      /\ \A g \in Handler \ {h} : at'[g] = at[g] /\ req'[g] = req[g]
  BY <1>1, Moved DEF BookInv
<1>3. CASE torn \/ r.edition # edition
  <2>1. torn'
    BY <1>3, Zenon DEF SaveUser
  <2> QED
    BY <1>2, <2>1 DEF BookInv
<1>4. CASE BookInOrder /\ r.edition = edition
  <2>1. Pending(r)
    BY <1>1, <1>4 DEF BookInOrder
  <2>2. /\ r.old = savedAddresses /\ r.adds \subseteq 1..made /\ r.default \in 0..made
        /\ r.adds \cap kept = {} /\ chosen \notin r.adds /\ Turns(r)
    BY <1>4, <2>1 DEF Pending
  <2>3. savedAddresses' = r.new
    BY <2>2, <1>4, SavedIsNew, OrderlyIs DEF SaveUser, BookInOrder
  <2>4. /\ edition' \in Nat /\ edition' >= edition /\ edition \in Nat
        /\ edition' = edition => savedAddresses' = savedAddresses
    BY <1>4 DEF SaveUser, BookInOrder
  <2>5. kept' = (kept \cup r.adds) \ r.drops
    BY DEF SaveUser
  <2>6. chosen' = IF r.default # 0 THEN r.default ELSE chosen
    BY DEF SaveUser
  <2>7. kept' = Ids(savedAddresses') /\ Orderly(savedAddresses')
    BY <1>4, <2>2, <2>3, <2>5 DEF Turns, BookInOrder
  <2>8. DefaultIs(savedAddresses', chosen')
    <3>1. CASE r.default # 0
      BY <2>2, <2>3, <2>6, <3>1 DEF Turns
    <3>2. CASE r.default = 0
      <4> SUFFICES ASSUME chosen \in Ids(savedAddresses')
                   PROVE  DefaultIs(savedAddresses', chosen)
        BY <2>6, <3>2 DEF DefaultIs
      <4>1. chosen \in Ids(savedAddresses)
        BY <1>4, <2>2, <2>5, <2>7 DEF BookInOrder
      <4>2. PICK k \in DOMAIN savedAddresses : savedAddresses[k].isDefault
        BY <1>4, <4>1 DEF BookInOrder, Orderly, Ids
      <4>3. savedAddresses[k].id = chosen
        BY <1>4, <4>1, <4>2 DEF BookInOrder, DefaultIs
      <4> QED
        BY <2>2, <2>3, <3>2, <4>2, <4>3 DEF Turns
    <3> QED
      BY <3>1, <3>2
  <2>9. ASSUME NEW g \in Handler \ {h}, at[g] = "book.save"
        PROVE  Pending(req[g])'
    <3>1. /\ Pending(req[g]) /\ req'[g] = req[g]
          /\ req[g].adds \cap r.adds = {} /\ r.default \notin req[g].adds
      BY <1>1, <1>2, <1>4, <2>9 DEF BookInOrder
    <3>2. /\ req[g].edition \in Nat /\ req[g].edition <= edition'
          /\ req[g].edition = edition' => req[g].old = savedAddresses'
      BY <2>4, <3>1 DEF Pending
    <3>3. /\ req[g].adds \subseteq 1..made' /\ req[g].default \in 0..made'
          /\ req[g].adds \cap kept' = {} /\ chosen' \notin req[g].adds /\ Turns(req[g])
      BY <1>1, <2>5, <2>6, <3>1 DEF Pending
    <3> QED
      BY <3>1, <3>2, <3>3 DEF Pending, Turns
  <2>10. made' = made /\ chosen' \in 0..made' /\ kept' \subseteq 1..made'
    BY <1>1, <1>4, <2>2, <2>5, <2>6 DEF BookInOrder
  <2>11. BookInOrder'
    BY <1>2, <1>4, <2>4, <2>7, <2>8, <2>9, <2>10 DEF BookInOrder, Orderly, DefaultIs, Ids
  <2> QED
    BY <1>2, <2>11 DEF BookInv
<1> QED
  BY <1>3, <1>4 DEF BookInv

\* BookInv is inductive.
LEMMA BookStep ==
    ASSUME BookInv, [Next]_vars
    PROVE  BookInv'
<1>1. CASE UNCHANGED vars
  BY <1>1, BookStutter DEF vars, deskVars
<1>2. ASSUME NEW h \in Handler, BookNext(h) PROVE BookInv'
  BY <1>2, StepAddAddress, StepUpdateAddress, StepRemoveAddress, StepSetDefaultAddress,
     StepSaveUser DEF BookNext
<1>3. ASSUME NEW h \in Handler, ShopNext(h), UNCHANGED bookVars PROVE BookInv'
  <2>1. \/ UNCHANGED <<at, req>>
        \/ \E step \in {"page.insert", "subscriber.insert", "delivery.default",
                        "delivery.save", "idle"} : \E r : Await(h, step, r)
    BY <1>3, PageMoves, SubscriberMoves, DeliveryMoves DEF ShopNext
  <2> QED
    BY <1>3, <2>1, BookStutter, BookFrame DEF Await
<1>4. ASSUME NEW h \in Handler, VivaNext(h), UNCHANGED bookVars PROVE BookInv'
  BY <1>4, VivaMoves, BookFrame DEF Await
<1>5. CASE VivaTick /\ UNCHANGED bookVars
  BY <1>5, BookStutter DEF VivaTick
<1> QED
  BY <1>1, <1>2, <1>3, <1>4, <1>5 DEF Next

\* Requests for one customer's addresses (addAddress, updateAddress, removeAddress and
\* setDefaultAddress of user.service.ts) that run side by side lose nothing as long as none
\* saves a copy that another has overtaken: the book holds what was added and not removed
\* and has one default address, the one last asked for.
THEOREM BookAlwaysFollowsEdits == Spec => []BookFollowsEdits
<1>1. Init => BookInv
  <2> SUFFICES ASSUME Init PROVE BookInv
    OBVIOUS
  <2>1. DeskInv /\ \A h \in Handler : at[h] = "idle"
    BY DEF Init, DeskInit, DeskInv
  <2>2. savedAddresses = <<>> /\ made = 0 /\ edition = 0 /\ kept = {} /\ chosen = 0
    BY DEF Init, BookInit
  <2>3. Orderly(savedAddresses) /\ Ids(savedAddresses) = {}
    BY <2>2 DEF Orderly, Ids
  <2>4. BookInOrder
    BY <2>1, <2>2, <2>3 DEF BookInOrder, DefaultIs
  <2> QED
    BY <2>1, <2>4 DEF BookInv
<1>2. BookInv /\ [Next]_vars => BookInv'
  BY BookStep
<1>3. BookInv => BookFollowsEdits
  <2> SUFFICES ASSUME BookInOrder PROVE BookFollowsEdits
    BY DEF BookInv, BookFollowsEdits
  <2>1. /\ Orderly(savedAddresses) /\ DefaultIs(savedAddresses, chosen)
        /\ kept = Ids(savedAddresses)
    BY DEF BookInOrder
  <2>2. kept # {} => savedAddresses # <<>>
    BY <2>1 DEF Ids
  <2> QED
    BY <2>1, <2>2, OrderlyCounts DEF BookFollowsEdits, DefaultIs, Ids
<1> QED
  BY <1>1, <1>2, <1>3, PTL DEF Spec
===============================================================================
