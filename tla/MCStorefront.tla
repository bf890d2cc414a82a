------------------------------ MODULE MCStorefront ------------------------------
(***************************************************************************)
(* Instances of Storefront for TLC.                                        *)
(***************************************************************************)
EXTENDS Storefront

CONSTANTS c1, c2, b1, b2, p1, p2, u1, u2, h1, h2

Cigar == [vitola |-> "toro", origin |-> "cuba", wrapperColor |-> "claro"]

\* A locked category and one that is not, a brand in each, one product on sale,
\* which both customers have in the cart.
MCSeed ==
    [categories |-> (c1 :> "cigars" @@ c2 :> "pipes"),
     brands |-> (b1 :> c1 @@ b2 :> c2),
     products |-> p1 :> [category |-> c2, brand |-> b2, sku |-> "s1", slug |-> <<"one", 0>>,
                         price |-> 1, stockQty |-> 2, isActive |-> TRUE,
                         attributes |-> NoAttributes],
     cart |-> [u \in {u1, u2} |-> (p1 :> 1)]]

Filled1 == [category |-> c2, brand |-> b2, sku |-> "s1", name |-> "one", price |-> 1,
            stockQty |-> 2, isActive |-> TRUE, attributes |-> NoAttributes]

\* The seeded product as it is, taken off sale with less stock, and moved to the
\* locked category, there also with a brand of the other; a product of the same name.
MCForm ==
    {Filled1,
     [Filled1 EXCEPT !.stockQty = 1, !.isActive = FALSE],
     [Filled1 EXCEPT !.category = c1, !.brand = b1, !.attributes = Cigar],
     [Filled1 EXCEPT !.category = c1, !.attributes = Cigar],
     [Filled1 EXCEPT !.sku = "s2", !.price = 2]}

MCSymmetry == Permutations(Handler) \cup Permutations(Customer)
===============================================================================
