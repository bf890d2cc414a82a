--------------------------- MODULE MCOrderFulfilment ---------------------------
(***************************************************************************)
(* Instances of OrderFulfilment for TLC.                                   *)
(***************************************************************************)
EXTENDS OrderFulfilment, TLC

CONSTANTS o1, o2, u1, p1, p2, h1, h2

\* One customer orders every order.
MCOwner == [o \in Order |-> u1]

\* One unit of every product.
MCInitialStock == [p \in Product |-> 1]

\* Requests are interchangeable, and so are order ids and products.
MCSymmetry ==
    Permutations(Handler) \cup Permutations(Order) \cup Permutations(Product)
===============================================================================
