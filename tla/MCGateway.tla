------------------------------- MODULE MCGateway -------------------------------
(***************************************************************************)
(* Instances of Gateway for TLC.                                           *)
(***************************************************************************)
EXTENDS Gateway

CONSTANTS u1, s1, k1

MCRoleOf == u1 :> "USER" @@ s1 :> "superAdmin"

\* Access tokens do not outlive two ticks, those of a purpose one.
MCLife == [access |-> 2, refresh |-> 3, forgot_pass |-> 1, onboarding |-> 1]

Calls(routes, bodies, keys, types) ==
    {[route |-> r, body |-> b, key |-> k, type |-> t] :
        r \in routes, b \in bodies, k \in keys, t \in types}

RoutesOf(ops) == {r \in Routes : r.op \in ops}

\* Every route with every kind of body and token.
AnyCalls ==
    Calls(Routes, {"good", "bad fields"}, {Nobody}, TokenType \cup {"none"})
    \cup Calls({r \in Routes : "upload" \in ToSet(r.guards)}, {"bad file", "bad json"},
               {Nobody}, TokenType \cup {"none"})

\* The handlers that issue tokens or delete an account, and one that needs an account.
AccountCalls ==
    Calls(RoutesOf({<<"users", "deleteMe">>}), {"good"}, {Nobody}, {"access"})
    \cup Calls(RoutesOf({<<"auth", "login">>}), {"good"}, {Nobody}, {"none"})
    \cup Calls(RoutesOf({<<"auth", "refreshTokens">>}), {"good"}, {Nobody}, {"access", "refresh"})
UseCalls == Calls(RoutesOf({<<"users", "getMe">>}), {"good"}, {Nobody}, {"access"})

\* One operation under one key.
KeyedCalls == Calls(RoutesOf({<<"orders", "checkout">>}), {"good"}, {k1}, {"access"})

\* A request without a key, and the health check.
PlainCalls ==
    Calls(RoutesOf({<<"products", "list">>, <<"health">>}), {"good"}, {Nobody}, {"none"})

MCRequests ==
    [any |-> AnyCalls, account |-> AccountCalls, use |-> UseCalls, keyed |-> KeyedCalls,
     plain |-> PlainCalls]

NoEvents == [start |-> 0, fault |-> 0, flap |-> 0, signal |-> 0, crash |-> 0, restart |-> 0,
             tick |-> 0, seen |-> 0,
             any |-> 0, account |-> 0, use |-> 0, keyed |-> 0, plain |-> 0]

MCBudgets ==
    {[NoEvents EXCEPT !.any = 1, !.tick = 2],
     [NoEvents EXCEPT !.account = 2, !.use = 1, !.tick = 2, !.seen = 1],
     [NoEvents EXCEPT !.keyed = 3, !.tick = 2, !.fault = 1],
     [NoEvents EXCEPT !.keyed = 2, !.tick = 2, !.flap = 1],
     [NoEvents EXCEPT !.keyed = 2, !.tick = 2, !.crash = 1, !.restart = 1],
     [NoEvents EXCEPT !.start = 1, !.plain = 1, !.fault = 3],
     [NoEvents EXCEPT !.start = 1, !.plain = 2, !.signal = 1, !.fault = 1],
     [NoEvents EXCEPT !.plain = 2, !.signal = 1, !.fault = 1, !.flap = 1]}
===============================================================================
