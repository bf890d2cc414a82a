------------------------------- MODULE Storefront -------------------------------
(***************************************************************************)
(* The customers' side of the catalogue, composed with its administration: *)
(* carts (modules/cart/cart.service.ts), wishlists, reviews, and what a    *)
(* checkout does to a cart and a paid order to the stock.                  *)
(*                                                                         *)
(* The database keeps one cart line per customer and product and one review*)
(* per customer and product (unique indexes); that a product still exists, *)
(* is on sale and has the stock is read by each request before it writes.  *)
(* The payment provider and the order documents are OrderFulfilment's; here*)
(* an order is the lines a checkout has taken out of the cart.             *)
(***************************************************************************)
EXTENDS Catalogue

CONSTANTS
    Customer,
    Rating,     \* bound: the ratings given, of 1 to 5
    MaxQty      \* bound: the quantity a request asks for

VARIABLES
    cart,       \* cart[u][p]: the quantity of each line u has
    wishlist,   \* pairs of a customer and a product
    reviews,    \* stored reviews
    ordered,    \* ordered[u]: customers' orders that a confirm may still reach
    unsold,     \* lines of orders whose stock is still to be taken
    ledger,     \* history: the stock of a product as sales and admins left it
    stale,      \* history: products whose quantity was changed on an old reading
    asked,      \* history: asked[u][p]: what u's answered requests add up to
    overtaken,  \* history: lines an add wrote over a change it had not read
    excused,    \* history: lines changed while a checkout or an order may clear
    dropped     \* history: lines a clear took away unordered

shop == <<cart, wishlist, reviews, ordered, unsold>>
shopHistory == <<asked, overtaken, excused, dropped>>
vars == <<catalogueVars, shop, ledger, stale, shopHistory>>

ShopStep == {"cart.line", "cart.write", "cart.set", "wish.write", "review.write",
             "checkout.clear", "confirm.clear"}

\* A cart line is keyed by its customer and product and holds a quantity.
CartQty == Nat \ {0}
WishDoc == Customer \X Product
ReviewDoc == [user : Customer, product : Product, rating : Rating]

NoLines == [p \in {} |-> 0]

ASSUME StorefrontAssumption ==
    /\ MaxQty \in Nat
    /\ DOMAIN Seed.cart = Customer
    /\ \A u \in Customer : \A p \in DOMAIN Seed.cart[u] :
          p \in Product /\ Seed.cart[u][p] \in CartQty

StorefrontInit ==
    /\ CatalogueInit
    /\ cart = Seed.cart
    /\ wishlist = {}
    /\ reviews = {}
    /\ ordered = [u \in Customer |-> FALSE]
    /\ unsold = {}
    /\ ledger = [p \in DOMAIN Seed.products |-> Seed.products[p].stockQty]
    /\ stale = {}
    /\ asked = Seed.cart
    /\ overtaken = {}
    /\ excused = {}
    /\ dropped = {}

\* Products a customer is shown: what cart and wishlist listings keep.
isPopulatedProduct(p) == p \in DOMAIN products /\ products[p].isActive

\* CartService.list: the lines whose products are on sale.
listCart(u) == [p \in {q \in DOMAIN cart[u] : isPopulatedProduct(q)} |-> cart[u][p]]

Quantity(lines, p) == IF p \in DOMAIN lines THEN lines[p] ELSE 0

\* A checkout of u that will clear the cart, or an order a confirm can reach.
MayBeCleared(u) ==
    \/ ordered[u]
    \/ \E g \in Handler : at[g] = "checkout.clear" /\ req[g].form.user = u

Untouched == UNCHANGED <<collections, drawn, raced, moved, ledger, stale>>

\* u's line of p is qty now, by a request that is answered with success; the
\* requests on it add up to total.
PutLine(u, p, qty, total) ==
    /\ cart' = [cart EXCEPT ![u] = with(@, p, qty)]
    /\ asked' = [asked EXCEPT ![u] = with(@, p, total)]
    /\ excused' = IF MayBeCleared(u) THEN excused \cup {<<u, p>>} ELSE excused

-------------------------------------------------------------------------------
(* Cart *)

\* The product is read first, with its stock.
AddToCart(h, u, p, qty) ==
    /\ isPopulatedProduct(p)
    /\ Accept(h, "cart.line", [IdleRequest EXCEPT !.id = p, !.form = [user |-> u, qty |-> qty],
                                                  !.base = [stock |-> products[p].stockQty]])
    /\ Untouched /\ UNCHANGED <<shop, shopHistory>>

\* Slip: the quantity asked for replaces the one in the cart.
nextQty_Replaces(existing, qty) == qty

\* What is asked for is added to the line that was read.
nextQty(existing, qty) == existing + qty

\* The line in the cart and the request together must not exceed that stock.
ReadLine(h) ==
    LET r == req[h]
        existing == Quantity(cart[r.form.user], r.id)
    IN /\ at[h] = "cart.line"
       /\ IF nextQty(existing, r.form.qty) <= r.base.stock
          THEN /\ at' = [at EXCEPT ![h] = "cart.write"]
               /\ req' = [req EXCEPT ![h].base = [qty |-> existing]]
               /\ UNCHANGED used
          ELSE Answer(h)
       /\ Untouched /\ UNCHANGED <<shop, shopHistory>>

\* A line that was there is saved, or is gone; one that was not is created,
\* unless the unique index knows it by now.
WriteLine(h) ==
    LET r == req[h]
        u == r.form.user
        existing == Quantity(cart[u], r.id)
    IN /\ at[h] = "cart.write"
       /\ IF (r.base.qty = 0) = (existing = 0)
          THEN /\ PutLine(u, r.id, nextQty(r.base.qty, r.form.qty),
                          Quantity(asked[u], r.id) + r.form.qty)
               /\ overtaken' = IF existing # r.base.qty THEN overtaken \cup {<<u, r.id>>}
                               ELSE overtaken
          ELSE UNCHANGED <<cart, asked, excused, overtaken>>
       /\ Answer(h)
       /\ Untouched /\ UNCHANGED <<wishlist, reviews, ordered, unsold, dropped>>

\* Slip: a quantity of zero is stored like any other.
UpdateQty_Zero(h, u, p, qty) ==
    /\ isPopulatedProduct(p) /\ qty <= products[p].stockQty
    /\ Accept(h, "cart.set", [IdleRequest EXCEPT !.id = p, !.form = [user |-> u, qty |-> qty]])
    /\ Untouched /\ UNCHANGED <<shop, shopHistory>>

UpdateQty(h, u, p, qty) ==
    /\ qty >= 1
    /\ isPopulatedProduct(p) /\ qty <= products[p].stockQty
    /\ Accept(h, "cart.set", [IdleRequest EXCEPT !.id = p, !.form = [user |-> u, qty |-> qty]])
    /\ Untouched /\ UNCHANGED <<shop, shopHistory>>

SetLine(h) ==
    LET r == req[h]
        u == r.form.user
    IN /\ at[h] = "cart.set"
       /\ IF r.id \in DOMAIN cart[u] THEN PutLine(u, r.id, r.form.qty, r.form.qty)
          ELSE UNCHANGED <<cart, asked, excused>>
       /\ Answer(h)
       /\ Untouched /\ UNCHANGED <<wishlist, reviews, ordered, unsold, overtaken, dropped>>

\* remove, and an update to a quantity below one.
RemoveLine(u, p) ==
    /\ p \in DOMAIN cart[u]
    /\ used < MaxRequests /\ used' = used + 1
    /\ cart' = [cart EXCEPT ![u] = without(@, p)]
    /\ asked' = [asked EXCEPT ![u] = without(@, p)]
    /\ Untouched
    /\ UNCHANGED <<at, req, wishlist, reviews, ordered, unsold, overtaken, excused, dropped>>

\* Slip: every customer's lines are deleted.
Emptied_Everyone(u) == [v \in Customer |-> NoLines]

\* deleteMany({ user })
Emptied(u) == [cart EXCEPT ![u] = NoLines]

ClearCart(u) ==
    /\ cart[u] # NoLines
    /\ used < MaxRequests /\ used' = used + 1
    /\ cart' = Emptied(u)
    /\ asked' = [asked EXCEPT ![u] = NoLines]
    /\ Untouched
    /\ UNCHANGED <<at, req, wishlist, reviews, ordered, unsold, overtaken, excused, dropped>>

-------------------------------------------------------------------------------
(* Checkout and payment, as far as carts and stock are concerned *)

\* The order takes the listed lines; the others stay out of it without a word.
Checkout(h, u) ==
    LET lines == listCart(u) IN
    /\ lines # NoLines
    /\ \A p \in DOMAIN lines : lines[p] <= products[p].stockQty
    /\ Accept(h, "checkout.clear", [IdleRequest EXCEPT !.form = [user |-> u, qty |-> 0],
                                                       !.base = [lines |-> lines]])
    /\ excused' = excused \cup {<<u, p>> : p \in DOMAIN cart[u] \ DOMAIN lines}
    /\ Untouched /\ UNCHANGED <<shop, asked, overtaken, dropped>>

\* The provider refuses: the order is deleted and the cart left alone.
CheckoutFails(h) ==
    /\ at[h] = "checkout.clear"
    /\ Answer(h)
    /\ Untouched /\ UNCHANGED <<shop, shopHistory>>

\* The lines a clear of u's cart takes away that are not those of an order.
Unordered(u, lines) ==
    {line \in Customer \X DOMAIN products :
        LET v == line[1]
            p == line[2]
        IN /\ p \in DOMAIN cart[v] /\ p \notin DOMAIN Emptied(u)[v]
           /\ v # u \/ cart[v][p] # Quantity(lines, p)}

CheckoutClear(h) ==
    LET u == req[h].form.user
        lines == req[h].base.lines
    IN /\ at[h] = "checkout.clear"
       /\ dropped' = dropped \cup Unordered(u, lines)
       /\ cart' = Emptied(u)
       /\ asked' = [asked EXCEPT ![u] = NoLines]
       /\ ordered' = [ordered EXCEPT ![u] = TRUE]
       /\ unsold' = unsold \cup {<<p, lines[p]>> : p \in DOMAIN lines}
       /\ Answer(h)
       /\ Untouched /\ UNCHANGED <<wishlist, reviews, overtaken, excused>>

\* Confirming an order, also one already paid, clears the cart once more.
ConfirmClears(u) ==
    /\ ordered[u]
    /\ cart[u] # NoLines
    /\ used < MaxRequests /\ used' = used + 1
    /\ dropped' = dropped \cup Unordered(u, NoLines)
    /\ cart' = Emptied(u)
    /\ asked' = [asked EXCEPT ![u] = NoLines]
    /\ Untouched
    /\ UNCHANGED <<at, req, wishlist, reviews, ordered, unsold, overtaken, excused>>

\* One $inc of a paid order's lines; a product that is gone is left alone.
SellLine(p, qty) ==
    /\ <<p, qty>> \in unsold
    /\ unsold' = unsold \ {<<p, qty>>}
    /\ IF p \in DOMAIN products
       THEN /\ products' = [products EXCEPT ![p].stockQty = @ - qty]
            /\ ledger' = [ledger EXCEPT ![p] = @ - qty]
       ELSE UNCHANGED <<products, ledger>>
    /\ UNCHANGED <<categories, brands, drawn, at, req, used, raced, moved, stale,
                   cart, wishlist, reviews, ordered, shopHistory>>

-------------------------------------------------------------------------------
(* Wishlist and reviews *)

AddToWishlist(h, u, p) ==
    /\ isPopulatedProduct(p)
    /\ Accept(h, "wish.write", [IdleRequest EXCEPT !.id = p, !.form = [user |-> u, qty |-> 0]])
    /\ Untouched /\ UNCHANGED <<shop, shopHistory>>

\* A duplicate is answered like a first one.
WriteWish(h) ==
    /\ at[h] = "wish.write"
    /\ wishlist' = wishlist \cup {<<req[h].form.user, req[h].id>>}
    /\ Answer(h)
    /\ Untouched /\ UNCHANGED <<cart, reviews, ordered, unsold, shopHistory>>

RemoveFromWishlist(u, p) ==
    /\ <<u, p>> \in wishlist
    /\ used < MaxRequests /\ used' = used + 1
    /\ wishlist' = wishlist \ {<<u, p>>}
    /\ Untouched /\ UNCHANGED <<at, req, cart, reviews, ordered, unsold, shopHistory>>

CreateReview(h, u, p, rating) ==
    /\ p \in DOMAIN products
    /\ Accept(h, "review.write",
              [IdleRequest EXCEPT !.id = p, !.form = [user |-> u, qty |-> rating]])
    /\ Untouched /\ UNCHANGED <<shop, shopHistory>>

Reviewed(u, p) == \E r \in reviews : r.user = u /\ r.product = p

\* A second review of the product by the customer is refused with a conflict.
WriteReview(h) ==
    LET u == req[h].form.user IN
    /\ at[h] = "review.write"
    /\ reviews' = IF Reviewed(u, req[h].id) THEN reviews
                  ELSE reviews \cup {[user |-> u, product |-> req[h].id,
                                      rating |-> req[h].form.qty]}
    /\ Answer(h)
    /\ Untouched /\ UNCHANGED <<cart, wishlist, ordered, unsold, shopHistory>>

RemoveReview(r) ==
    /\ r \in reviews
    /\ used < MaxRequests /\ used' = used + 1
    /\ reviews' = reviews \ {r}
    /\ Untouched /\ UNCHANGED <<at, req, cart, wishlist, ordered, unsold, shopHistory>>

-------------------------------------------------------------------------------
\* An administrator's step, with what it means for the stock's ledger: a created
\* product starts it, an update that changes the quantity it loaded moves it.
AdminStep(h) ==
    LET saving == at[h] = "product.save" /\ req[h].id \in DOMAIN products
        p == req[h].id
        change == req[h].form.stockQty - req[h].base.stockQty
    IN /\ CatalogueStep(h)
       /\ ledger' = [q \in DOMAIN products' |->
                       IF q \notin DOMAIN products THEN products'[q].stockQty
                       ELSE IF saving /\ q = p /\ products' # products
                            THEN ledger[q] + change ELSE ledger[q]]
       /\ stale' = IF saving /\ change # 0 /\ products[p].stockQty # req[h].base.stockQty
                   THEN stale \cup {p} ELSE stale
       /\ UNCHANGED <<shop, shopHistory>>

CustomerStep(h, u) ==
    \/ \E p \in Product, qty \in 1..MaxQty : AddToCart(h, u, p, qty)
    \/ \E p \in Product, qty \in 0..MaxQty : UpdateQty(h, u, p, qty)
    \/ Checkout(h, u)
    \/ \E p \in Product : AddToWishlist(h, u, p)
    \/ \E p \in Product, rating \in Rating : CreateReview(h, u, p, rating)

CustomerCall(u) ==
    \/ \E p \in Product : RemoveLine(u, p)
    \/ ClearCart(u)
    \/ ConfirmClears(u)
    \/ \E p \in Product : RemoveFromWishlist(u, p)

ShopHandlerStep(h) ==
    \/ ReadLine(h)
    \/ WriteLine(h)
    \/ SetLine(h)
    \/ CheckoutFails(h)
    \/ CheckoutClear(h)
    \/ WriteWish(h)
    \/ WriteReview(h)

StorefrontNext ==
    \/ \E h \in Handler : AdminStep(h) \/ ShopHandlerStep(h)
    \/ \E h \in Handler, u \in Customer : CustomerStep(h, u)
    \/ \E u \in Customer : CustomerCall(u)
    \/ \E r \in reviews : RemoveReview(r)
    \/ \E line \in unsold : SellLine(line[1], line[2])

Spec == StorefrontInit /\ [][StorefrontNext]_vars

-------------------------------------------------------------------------------
(* Properties *)

TypeOK ==
    /\ CatalogueTypeOK
    /\ at \in [Handler -> Step \cup ShopStep]
    /\ \A u \in Customer : /\ DOMAIN cart[u] \subseteq Product
                           /\ \A p \in DOMAIN cart[u] : cart[u][p] \in CartQty
    /\ wishlist \subseteq WishDoc
    /\ reviews \subseteq ReviewDoc
    /\ DOMAIN ledger = DOMAIN products

\* An administrator's form carries the quantity on sale, and orders take stock
\* while it is filled in. The stock is what sales and the changes administrators
\* made add up to, unless someone changed the quantity of a product that had been
\* sold, or changed, since they loaded it.
StockFollowsLedger ==
    \A p \in DOMAIN products \ stale : products[p].stockQty = ledger[p]

\* A cart line holds what the customer's answered requests add up to, unless an
\* add that had read the line before another request changed it wrote over that.
CartKeepsRequests ==
    \A u \in Customer, p \in Product :
        \/ <<u, p>> \in overtaken
        \/ Quantity(cart[u], p) = Quantity(asked[u], p)

\* Checkouts and confirmations clear a cart by its owner alone. A line goes
\* without having been ordered only when the customer changed it while a checkout
\* was under way or after an order was placed, or its product was off sale.
NoLineLost == dropped \subseteq excused
===============================================================================
