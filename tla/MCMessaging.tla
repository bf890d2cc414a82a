------------------------------ MODULE MCMessaging ------------------------------
(***************************************************************************)
(* Instances of Messaging for TLC.                                         *)
(***************************************************************************)
EXTENDS Messaging

CONSTANTS u1, a1, a2, s1, s2, i1, i2

\* The customer and one administrator are connected to one instance.
MCConnected == s1 :> [user |-> u1, instance |-> i1] @@ s2 :> [user |-> a1, instance |-> i1]

MCToken ==
    {[sub |-> u, type |-> "access", status |-> "active", isDeleted |-> FALSE] : u \in {u1, a2}}
    \cup {[sub |-> u1, type |-> "access", status |-> "inactive", isDeleted |-> FALSE]}

\* Each part alone, with and without a death, and two together.
Budget(chat, notify, listen, crash) ==
    [chat |-> chat, notify |-> notify, listen |-> listen, crash |-> crash]

MCBudgets == {Budget(4, 0, 0, 0), Budget(3, 0, 0, 1), Budget(0, 2, 0, 1), Budget(0, 0, 2, 1),
              Budget(0, 1, 1, 0), Budget(1, 1, 0, 0), Budget(1, 0, 1, 1)}

MCSymmetry == Permutations(Handler) \cup Permutations(Conversation)
===============================================================================
