------------------------------ MODULE AddressBook ------------------------------
(***************************************************************************)
(* The saved addresses of one customer: modules/user/user.service.ts.      *)
(*                                                                         *)
(* Each request loads the account, changes its copy of the array and saves *)
(* it. There is no version key. A new array replaces the stored one; edits *)
(* of elements are written to their positions, and only where the copy     *)
(* changed: a position that is gone by then is made anew.                  *)
(***************************************************************************)
EXTENDS Desk

CONSTANT Text       \* what an address says

VARIABLES
    savedAddresses,     \* the stored array
    made,               \* addresses made so far: their ids are 1..made
    edition,            \* history: how often the array has changed
    torn,               \* history: a copy was saved that was no longer current
    kept,               \* history: what was added and not removed
    chosen              \* history: the address last asked for as the default one

bookHistory == <<edition, torn, kept, chosen>>
bookVars == <<savedAddresses, made, bookHistory>>

BookInit ==
    /\ savedAddresses = <<>> /\ made = 0
    /\ edition = 0 /\ torn = FALSE /\ kept = {} /\ chosen = 0

\* What $set makes of a position nothing is stored at.
Ghost == [id |-> 0, text |-> Nobody, isDefault |-> FALSE]

-------------------------------------------------------------------------------
(* Writes *)

\* The elements of a copy that were changed, by position and field.
Paths(old, new) ==
    {p \in (DOMAIN new) \X {"text", "isDefault"} : old[p[1]][p[2]] # new[p[1]][p[2]]}

\* user.save(): the whole array, or the changed paths of it.
Saved(r) ==
    IF r.whole THEN r.new
    ELSE LET paths == Paths(r.old, r.new)
             at1 == {p[1] : p \in paths}
             size == CHOOSE n \in {Len(savedAddresses)} \cup at1 :
                         \A m \in {Len(savedAddresses)} \cup at1 : m <= n
             stored(k) == IF k <= Len(savedAddresses) THEN savedAddresses[k] ELSE Ghost
         IN  [k \in 1..size |->
                 [id |-> stored(k).id,
                  text |-> IF <<k, "text">> \in paths THEN r.new[k].text ELSE stored(k).text,
                  isDefault |-> IF <<k, "isDefault">> \in paths THEN r.new[k].isDefault
                                ELSE stored(k).isDefault]]

\* The request: its copy, what it makes of it, and (history) what was asked for.
Edit(whole, new, adds, drops, default) ==
    [whole |-> whole, old |-> savedAddresses, new |-> new, edition |-> edition,
     adds |-> adds, drops |-> drops, default |-> default]

-------------------------------------------------------------------------------
(* Requests *)

\* Bound: nobody edits a book with a ghost in it.
Loads(h, r) ==
    /\ \A k \in DOMAIN savedAddresses : savedAddresses[k].id # 0
    /\ Accept(h, "address", "book.save", r)
    /\ UNCHANGED <<savedAddresses, bookHistory>>

OnlyDefault(items, id) ==
    [k \in DOMAIN items |-> [items[k] EXCEPT !.isDefault = (items[k].id = id)]]

\* The first address is the default one whatever the request says.
addAddress(h, text, isDefault) ==
    LET id == made + 1
        makeDefault == isDefault \/ savedAddresses = <<>>
        addresses == IF makeDefault THEN OnlyDefault(savedAddresses, 0) ELSE savedAddresses
    IN  /\ Loads(h, Edit(TRUE, Append(addresses, [id |-> id, text |-> text,
                                                  isDefault |-> makeDefault]),
                         {id}, {}, IF makeDefault THEN id ELSE 0))
        /\ made' = id

\* A request for an address that is not in the copy is answered 404.
Holds(id) == \E k \in DOMAIN savedAddresses : savedAddresses[k].id = id

\* Where it is: no two addresses have one id.
Position(id) == CHOOSE k \in DOMAIN savedAddresses : savedAddresses[k].id = id

updateAddress(h, id, text, isDefault) ==
    LET said == [k \in DOMAIN savedAddresses |->
                    IF savedAddresses[k].id = id THEN [savedAddresses[k] EXCEPT !.text = text]
                    ELSE savedAddresses[k]]
    IN  /\ Holds(id)
        /\ Loads(h, Edit(FALSE, IF isDefault THEN OnlyDefault(said, id) ELSE said, {}, {},
                         IF isDefault THEN id ELSE 0))
        /\ UNCHANGED made

\* Slip: the default address goes and no other becomes it.
removeAddress_NoHeir(h, id) ==
    /\ Holds(id)
    /\ Loads(h, Edit(TRUE, RemoveAt(savedAddresses, Position(id)), {}, {id}, 0))
    /\ UNCHANGED made

removeAddress(h, id) ==
    LET next == RemoveAt(savedAddresses, Position(id))
        wasDefault == savedAddresses[Position(id)].isDefault
    IN  /\ Holds(id)
        /\ Loads(h, Edit(TRUE, IF wasDefault /\ next # <<>>
                               THEN [next EXCEPT ![1].isDefault = TRUE] ELSE next, {}, {id}, 0))
        /\ UNCHANGED made

setDefaultAddress(h, id) ==
    /\ Holds(id)
    /\ Loads(h, Edit(FALSE, OnlyDefault(savedAddresses, id), {}, {}, id))
    /\ UNCHANGED made

SaveUser(h) ==
    LET r == req[h] IN
    /\ at[h] = "book.save"
    /\ savedAddresses' = Saved(r)
    /\ edition' = IF savedAddresses' = savedAddresses THEN edition ELSE edition + 1
    /\ torn' = (torn \/ r.edition # edition)
    /\ kept' = (kept \cup r.adds) \ r.drops
    /\ chosen' = IF r.default # 0 THEN r.default ELSE chosen
    /\ Answer(h)
    /\ UNCHANGED made

BookNext(h) ==
    \/ \E text \in Text, b \in BOOLEAN : addAddress(h, text, b)
    \/ \E id \in 1..made, text \in Text, b \in BOOLEAN : updateAddress(h, id, text, b)
    \/ \E id \in 1..made : removeAddress(h, id) \/ setDefaultAddress(h, id)
    \/ SaveUser(h)

-------------------------------------------------------------------------------
(* Properties *)

\* Unless a stale copy was saved, the book holds what was added and not removed, and a book
\* that is not empty has one default address: the one last asked for, as long as it is there.
BookFollowsEdits ==
    torn \/ LET ids == {savedAddresses[k].id : k \in DOMAIN savedAddresses}
                defaults == {k \in DOMAIN savedAddresses : savedAddresses[k].isDefault}
            IN  /\ ids = kept /\ Len(savedAddresses) = Cardinality(kept)
                /\ kept # {} => /\ Cardinality(defaults) = 1
                                /\ chosen \in kept =>
                                      \A k \in defaults : savedAddresses[k].id = chosen
===============================================================================
