------------------------------- MODULE VivaClient -------------------------------
(***************************************************************************)
(* The client of the payment provider and its token: viva.service.ts.      *)
(*                                                                         *)
(* A token is asked for when none is cached or the cached one runs out     *)
(* within the margin; callers that find none ask side by side, and each    *)
(* answer replaces the cache.                                              *)
(***************************************************************************)
EXTENDS Desk

CONSTANTS
    lifetime,       \* expires_in of the provider's tokens, in ticks
    margin          \* the 60 seconds of getAccessToken, in ticks

ASSUME MarginFits ==
    /\ lifetime \in Nat /\ margin \in Nat /\ 2 * margin < lifetime
    /\ Nobody \notin Nat

VARIABLES
    clock,
    cachedToken,        \* the cached token: when it ends at the provider
    tokenExpiresAt,     \* when the client thinks it ends
    arrived             \* history: the last call that reached the provider, with its times

vivaVars == <<clock, cachedToken, tokenExpiresAt, arrived>>

VivaInit ==
    /\ clock = 0 /\ cachedToken = Nobody /\ tokenExpiresAt = 0
    /\ arrived = Nobody

Call(askedAt, token) == [askedAt |-> askedAt, sentAt |-> clock, token |-> token]

\* createOrder and retrieveTransaction begin with getAccessToken.
getAccessToken(h) ==
    /\ IF cachedToken # Nobody /\ tokenExpiresAt > clock + margin
       THEN Accept(h, "viva", "viva.call", Call(clock, cachedToken))
       ELSE Accept(h, "viva", "viva.token", [askedAt |-> clock, token |-> Nobody])
    /\ UNCHANGED vivaVars

\* The provider issues a token; its answer is on the way.
TokenIssued(h) ==
    /\ at[h] = "viva.token" /\ req[h].token = Nobody
    /\ GoTo(h, "viva.token", [req[h] EXCEPT !.token = clock + lifetime])
    /\ UNCHANGED vivaVars

\* Slip: the lifetime counts from the arrival of the token.
TokenArrives_CountsFromNow(h) ==
    /\ at[h] = "viva.token" /\ req[h].token # Nobody
    /\ cachedToken' = req[h].token
    /\ tokenExpiresAt' = clock + lifetime
    /\ GoTo(h, "viva.call", Call(req[h].askedAt, req[h].token))
    /\ UNCHANGED <<clock, arrived>>

TokenArrives(h) ==
    /\ at[h] = "viva.token" /\ req[h].token # Nobody
    /\ cachedToken' = req[h].token
    /\ tokenExpiresAt' = req[h].askedAt + lifetime
    /\ GoTo(h, "viva.call", Call(req[h].askedAt, req[h].token))
    /\ UNCHANGED <<clock, arrived>>

\* The provider refuses the credentials, or cannot be reached: VIVA_AUTH_FAILED.
TokenFails(h) == at[h] = "viva.token" /\ Answer(h) /\ UNCHANGED vivaVars

\* The call reaches the provider.
CallArrives(h) ==
    /\ at[h] = "viva.call"
    /\ arrived' = [askedAt |-> req[h].askedAt, sentAt |-> req[h].sentAt, token |-> req[h].token,
                   arrivedAt |-> clock]
    /\ GoTo(h, "viva.answer", Nobody)
    /\ UNCHANGED <<clock, cachedToken, tokenExpiresAt>>

\* The order code is taken from the text of the answer. Without one, or with an answer that
\* is not ok, or none at all, the caller gets an error; the token stays cached in each case.
createOrder(h) ==
    /\ at[h] \in {"viva.call", "viva.answer"}
    /\ Answer(h) /\ UNCHANGED vivaVars

VivaTick ==
    /\ Spend("tick")
    /\ clock' = clock + 1
    /\ UNCHANGED <<at, req, cachedToken, tokenExpiresAt, arrived>>

VivaNext(h) ==
    \/ getAccessToken(h) \/ TokenIssued(h) \/ TokenArrives(h) \/ TokenFails(h)
    \/ CallArrives(h) \/ createOrder(h)

-------------------------------------------------------------------------------
(* Properties *)

\* A call reaches the provider with a token that is still good there, if neither the token
\* nor the call took longer than the margin, however many callers asked for tokens at once.
TokenIsLive ==
    LET c == arrived IN
    c = Nobody \/ (/\ c.sentAt <= c.askedAt + margin
                    /\ c.arrivedAt <= c.sentAt + margin
                   => c.arrivedAt < c.token)
===============================================================================
