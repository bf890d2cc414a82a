------------------------------ MODULE ShopSettings ------------------------------
(***************************************************************************)
(* What administrators set for the whole shop, and its subscribers:        *)
(* modules/delivery, modules/settings, modules/subscribers, and the fee    *)
(* that checkout works out from the delivery settings.                     *)
(*                                                                         *)
(* Each of them finds a document and writes one if it found none. What     *)
(* keeps two writers apart is a unique index for pages and subscribers,    *)
(* and nothing for the delivery settings.                                  *)
(***************************************************************************)
EXTENDS Desk

CONSTANTS
    Config,     \* delivery settings that administrators enter
    Cart,       \* subtotals and delivery types that reach checkout
    Slug,       \* pages
    Words,      \* what titles and contents say
    Email,
    Indexed     \* subset of BOOLEAN: whether the unique indexes may be there

\* What the database keeps of the delivery settings and of a page.
DeliveryDoc == [{"maximumPrice", "STANDARD", "EXPRESS"} -> Nat]
PageDoc == [{"title", "content"} -> Words \cup {"default", "empty"}]

ASSUME SettingsAreValid ==
    /\ Config \subseteq DeliveryDoc /\ Nobody \notin DeliveryDoc
    /\ Nobody \notin PageDoc

VARIABLES
    deliveries,     \* the documents of the delivery settings, oldest first
    pages,          \* pages[slug]: its documents, oldest first
    subscribers,    \* the documents of the subscribers, oldest first
    indexed,        \* mongoose makes the indexes outside production only
    told,           \* history: the delivery settings the last update was answered with
    mixed,          \* history: ... but the update ran into another writer
    saves,          \* history: how often the delivery settings were written
    quoted,         \* history: the fee of the last checkout
    said            \* history: said[slug]: what the last updates of a page were answered with

shopHistory == <<told, mixed, saves, quoted, said>>
deliveryVars == <<deliveries, told, mixed, saves, quoted>>
pageVars == <<pages, said>>
shopVars == <<deliveries, pages, subscribers, indexed, shopHistory>>

\* Prices in pence.
DEFAULT_DELIVERY_DATA == [maximumPrice |-> 20000, STANDARD |-> 499, EXPRESS |-> 999]

ShopInit ==
    /\ deliveries = <<>> /\ pages = [s \in Slug |-> <<>>] /\ subscribers = <<>>
    /\ indexed \in Indexed
    /\ told = DEFAULT_DELIVERY_DATA /\ mixed = FALSE /\ saves = 0 /\ quoted = Nobody
    /\ said = [s \in Slug |-> Nobody]

-------------------------------------------------------------------------------
(* Delivery settings *)

deliveryFee(config, cart) ==
    IF cart.subtotal >= config.maximumPrice THEN 0 ELSE config[cart.deliveryType]

\* Checkout works with the settings it got. (History: those it could have been told of.)
Quote(config, cart, heard) ==
    quoted' = [fee |-> deliveryFee(config, cart),
               due |-> {deliveryFee(c, cart) : c \in heard}, mixed |-> mixed]

\* findOne returns the oldest document. Without one the defaults are stored.
getDelivery(h, cart) ==
    /\ IF deliveries # <<>>
       THEN /\ at[h] = "idle" /\ Spend("delivery") /\ UNCHANGED <<at, req>>
            /\ Quote(Head(deliveries), cart, {told})
       ELSE /\ Accept(h, "delivery", "delivery.default", [cart |-> cart, told |-> told])
            /\ UNCHANGED quoted
    /\ UNCHANGED <<deliveries, told, mixed, saves>>

CreateDefault(h) ==
    /\ at[h] = "delivery.default"
    /\ deliveries' = Append(deliveries, DEFAULT_DELIVERY_DATA)
    /\ Quote(DEFAULT_DELIVERY_DATA, req[h].cart, {req[h].told, told})
    /\ Answer(h)
    /\ UNCHANGED <<told, mixed, saves>>

\* The body of an update names every setting.
updateDelivery(h, data) ==
    /\ Accept(h, "delivery", "delivery.save",
              [data |-> data, saves |-> saves,
               delivery |-> IF deliveries = <<>> THEN Nobody ELSE Head(deliveries)])
    /\ UNCHANGED deliveryVars

Acknowledge(h, ran) ==
    /\ told' = req[h].data /\ mixed' = ran /\ saves' = saves + 1
    /\ Answer(h) /\ UNCHANGED quoted

CreateDelivery(h) ==
    /\ at[h] = "delivery.save" /\ req[h].delivery = Nobody
    /\ deliveries' = Append(deliveries, req[h].data)
    /\ Acknowledge(h, deliveries # <<>>)

\* Slip: the prices of the two options are left as they were.
SaveDelivery_KeepsPrices(h) ==
    /\ at[h] = "delivery.save" /\ req[h].delivery # Nobody
    /\ deliveries' = [deliveries EXCEPT ![1].maximumPrice = req[h].data.maximumPrice]
    /\ Acknowledge(h, req[h].saves # saves)

\* delivery.save() writes the settings that differ from the copy it loaded.
SaveDelivery(h) ==
    LET r == req[h] IN
    /\ at[h] = "delivery.save" /\ r.delivery # Nobody
    /\ deliveries' = [deliveries EXCEPT ![1] =
                        [f \in DOMAIN @ |-> IF r.data[f] # r.delivery[f] THEN r.data[f] ELSE @[f]]]
    /\ Acknowledge(h, r.saves # saves)

DeliveryNext(h) ==
    \/ \E cart \in Cart : getDelivery(h, cart)
    \/ \E data \in Config : updateDelivery(h, data)
    \/ CreateDefault(h) \/ CreateDelivery(h) \/ SaveDelivery(h)

-------------------------------------------------------------------------------
(* Pages *)

\* $set: what the body leaves out (Nobody) stays.
Set(page, body) == [f \in DOMAIN page |-> IF body[f] # Nobody THEN body[f] ELSE page[f]]

\* $setOnInsert: the default title, and no content.
Fresh == [title |-> "default", content |-> "empty"]

Says(slug, body) ==
    said' = [said EXCEPT ![slug] = Set(IF @ = Nobody THEN Fresh ELSE @, body)]

\* An upsert that finds the page changes it in the same step.
upsert(h, slug, body) ==
    IF pages[slug] # <<>>
    THEN /\ at[h] = "idle" /\ Spend("page") /\ UNCHANGED <<at, req>>
         /\ pages' = [pages EXCEPT ![slug][1] = Set(@, body)]
         /\ Says(slug, body)
    ELSE /\ Accept(h, "page", "page.insert", [slug |-> slug, body |-> body])
         /\ UNCHANGED pageVars

\* One that found none inserts it; where the index refuses it the database starts it over.
InsertPage(h) ==
    LET slug == req[h].slug
        body == req[h].body
    IN  /\ at[h] = "page.insert"
        /\ pages' = IF indexed /\ pages[slug] # <<>>
                    THEN [pages EXCEPT ![slug][1] = Set(@, body)]
                    ELSE [pages EXCEPT ![slug] = Append(@, Set(Fresh, body))]
        /\ Says(slug, body)
        /\ Answer(h)

getPublicBySlug(slug) == IF pages[slug] = <<>> THEN Nobody ELSE Head(pages[slug])

PageNext(h) ==
    \/ \E slug \in Slug, t, c \in Words \cup {Nobody} : upsert(h, slug, [title |-> t, content |-> c])
    \/ InsertPage(h)

-------------------------------------------------------------------------------
(* Subscribers *)

Subscribed(email) == \E k \in DOMAIN subscribers : subscribers[k].email = email

\* An address that is there is answered 409.
create(h, email) ==
    /\ ~Subscribed(email)
    /\ Accept(h, "subscriber", "subscriber.insert",
              [email |-> email, seen |-> Len(subscribers)])
    /\ UNCHANGED subscribers

\* Slip: the index is left to the search before.
InsertSubscriber_Unchecked(h) ==
    /\ at[h] = "subscriber.insert"
    /\ subscribers' = Append(subscribers, req[h])
    /\ Answer(h)

\* What the index refuses is answered 500.
InsertSubscriber(h) ==
    /\ at[h] = "subscriber.insert"
    /\ subscribers' = IF indexed /\ Subscribed(req[h].email) THEN subscribers
                      ELSE Append(subscribers, req[h])
    /\ Answer(h)

SubscriberNext(h) == (\E email \in Email : create(h, email)) \/ InsertSubscriber(h)

ShopNext(h) ==
    /\ UNCHANGED indexed
    /\ \/ DeliveryNext(h) /\ UNCHANGED <<pageVars, subscribers>>
       \/ PageNext(h) /\ UNCHANGED <<deliveryVars, subscribers>>
       \/ SubscriberNext(h) /\ UNCHANGED <<deliveryVars, pageVars>>

-------------------------------------------------------------------------------
(* Properties *)

\* Checkout charges the fee of the delivery settings that the last update was answered
\* with, unless that update ran into another one or into a reader that stored the defaults;
\* the next update that runs alone puts it right.
FeeIsTheOneTold ==
    /\ quoted # Nobody => quoted.mixed \/ quoted.fee \in quoted.due
    /\ deliveries # <<>> => mixed \/ Head(deliveries) = told

\* There is one document of a page, which says what the updates of it were answered with.
OnePage ==
    \A s \in Slug :
        /\ indexed => Len(pages[s]) <= 1
        /\ Len(pages[s]) <= 1 => getPublicBySlug(s) = said[s]

\* ... and one of a subscriber.
OneSubscriber ==
    \A j \in DOMAIN subscribers : \A i \in 1..(j - 1) :
        subscribers[i].email = subscribers[j].email => ~indexed /\ subscribers[j].seen < i

\* With the unique indexes there is one document of a page, which says what the updates
\* of it were answered with, and one of a subscriber. Without them, a subscriber is there
\* twice only if the second request had begun when the first was not yet stored.
OneOfEach == OnePage /\ OneSubscriber
===============================================================================
