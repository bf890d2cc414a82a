------------------------------- MODULE BackOffice -------------------------------
(***************************************************************************)
(* Three parts of the server whose writers are kept apart by nothing but   *)
(* the order they happen to come in: a customer's address book, the        *)
(* settings of the shop, and the cached token of the payment provider.     *)
(***************************************************************************)
EXTENDS AddressBook, ShopSettings, VivaClient

vars == <<deskVars, bookVars, shopVars, vivaVars>>

Init == DeskInit /\ BookInit /\ ShopInit /\ VivaInit

Next ==
    \/ \E h \in Handler :
          \/ BookNext(h) /\ UNCHANGED <<shopVars, vivaVars>>
          \/ ShopNext(h) /\ UNCHANGED <<bookVars, vivaVars>>
          \/ VivaNext(h) /\ UNCHANGED <<bookVars, shopVars>>
    \/ VivaTick /\ UNCHANGED <<bookVars, shopVars>>

Spec == Init /\ [][Next]_vars
===============================================================================
