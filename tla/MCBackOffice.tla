------------------------------ MODULE MCBackOffice ------------------------------
(***************************************************************************)
(* Instances of BackOffice for TLC.                                        *)
(***************************************************************************)
EXTENDS BackOffice

CONSTANTS h1, h2, t1, t2, p1, e1, e2

\* No name is told apart from another of its kind.
MCSymmetry == Permutations({h1, h2}) \cup Permutations({t1, t2}) \cup Permutations({e1, e2})

\* Two updates that differ from the defaults and from each other in some fields only.
MCConfig ==
    {[maximumPrice |-> 20000, STANDARD |-> 599, EXPRESS |-> 999],
     [maximumPrice |-> 5000, STANDARD |-> 599, EXPRESS |-> 1099],
     DEFAULT_DELIVERY_DATA}

\* Subtotals below, at and above the limits.
MCCart == [subtotal : {4999, 5000, 20000}, deliveryType : {"STANDARD", "EXPRESS"}]

NoRequests == [address |-> 0, delivery |-> 0, page |-> 0, subscriber |-> 0, viva |-> 0,
               tick |-> 0]

MCBudgets ==
    {[NoRequests EXCEPT !.address = 5],
     [NoRequests EXCEPT !.delivery = 5],
     [NoRequests EXCEPT !.page = 3, !.subscriber = 1],
     [NoRequests EXCEPT !.subscriber = 4],
     [NoRequests EXCEPT !.viva = 3, !.tick = 5]}
===============================================================================
