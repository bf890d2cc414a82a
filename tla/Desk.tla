---------------------------------- MODULE Desk ----------------------------------
(***************************************************************************)
(* The requests that the parts of the back office serve: each is a chain   *)
(* of steps between which other requests run.                              *)
(***************************************************************************)
EXTENDS Naturals, FiniteSets, Sequences, SequencesExt

CONSTANTS
    Handler,        \* requests served at the same time
    Nobody,         \* no request, no document, no token
    Budgets         \* bound: how many requests of each kind there are

VARIABLES
    at,             \* at[h]: the step h awaits, or "idle"
    req,            \* req[h]: what h knows
    left            \* left[kind]: the requests still to come

deskVars == <<at, req, left>>

DeskInit ==
    /\ at = [h \in Handler |-> "idle"]
    /\ req = [h \in Handler |-> Nobody]
    /\ left \in Budgets

Spend(kind) == left[kind] > 0 /\ left' = [left EXCEPT ![kind] = @ - 1]

Await(h, step, r) == at' = [at EXCEPT ![h] = step] /\ req' = [req EXCEPT ![h] = r]
Done(h) == Await(h, "idle", Nobody)

Accept(h, kind, step, r) == at[h] = "idle" /\ Spend(kind) /\ Await(h, step, r)
GoTo(h, step, r) == Await(h, step, r) /\ UNCHANGED left
Answer(h) == Done(h) /\ UNCHANGED left
================================================================================
