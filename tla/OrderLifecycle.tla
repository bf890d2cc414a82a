---------------------------- MODULE OrderLifecycle ----------------------------
(***************************************************************************)
(* What the order component promises about one order, whatever requests,   *)
(* webhooks and crashes interleave: an order is placed once; until its     *)
(* checkout has been answered the shop may withdraw it, even if its        *)
(* payment was recorded by then (prepaid); from the answer on it is        *)
(* payable for good, and once paid it stays paid.                          *)
(***************************************************************************)
CONSTANT Order

VARIABLE stage

Stage == {"absent", "placed", "prepaid", "payable", "paid", "withdrawn"}

Move(o, from, to) ==
    /\ stage[o] = from
    /\ stage' = [stage EXCEPT ![o] = to]

Init == stage = [o \in Order |-> "absent"]

Place(o) == Move(o, "absent", "placed")
Withdraw(o) == Move(o, "placed", "withdrawn") \/ Move(o, "prepaid", "withdrawn")
Offer(o) == Move(o, "placed", "payable") \/ Move(o, "prepaid", "paid")
Settle(o) == Move(o, "placed", "prepaid") \/ Move(o, "payable", "paid")

Next == \E o \in Order : Place(o) \/ Withdraw(o) \/ Offer(o) \/ Settle(o)

Spec == Init /\ [][Next]_stage
===============================================================================
