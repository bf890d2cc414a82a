-------------------------------- MODULE Gateway --------------------------------
(***************************************************************************)
(* What a request goes through: app.ts and its middlewares, the handlers   *)
(* that read and write accounts, and the process they run in.              *)
(*                                                                         *)
(* The rate limiter counts a request, the idempotency middleware takes its *)
(* key in Redis, the guards of its route check it, the handler runs and    *)
(* the answer is sent. Everything between two awaited calls is one step.   *)
(* The handler of a route that is not about accounts is one effect and an  *)
(* outcome. The commands sent to Redis outlive the request that sent them, *)
(* and the process: a command that was given up may still be carried out.  *)
(***************************************************************************)
EXTENDS Process

CONSTANTS
    RoleOf,             \* RoleOf[u]: the role of an account
    Key,                \* keys of requests: method, URL and the header x-idempotency-key
    ttlSeconds,         \* the life of a key, in ticks
    rateLimit,          \* requests per client and window
    Requests            \* Requests[part]: what clients send: route, key, body, token type

ASSUME RequestsAreValid ==
    /\ ttlSeconds \in Nat
    /\ \A part \in DOMAIN Requests : \A q \in Requests[part] :
           q.key \in Key \cup {Nobody} /\ q.route \in Routes
    /\ Nobody \notin Account

VARIABLES
    now,        \* the clock; a window of the rate limiter is one tick
    isDeleted,  \* isDeleted[u]: the account is soft-deleted
    tokens,     \* the tokens clients hold
    attempts,   \* attempts[a]: a request, and how far it has come
    lock,       \* lock[k]: until when Redis holds the key; 0 when it does not
    sets, dels, \* SET and DEL commands on their way to Redis, by the request that sent them
    hits        \* requests the limiter has counted in this window

accountVars == <<isDeleted, tokens>>
keyVars == <<lock, sets, dels>>
gatewayVars == <<now, accountVars, attempts, keyVars, hits>>
vars == <<processVars, gatewayVars>>

NoRoute == [op |-> <<>>, write |-> FALSE, guards |-> <<>>]

\* mode: whether it holds its key, went on without one, or has none. lockedAt, took and
\* enteredAt are history: when the key was taken, whether the handler's effect happened, and
\* when the guards were passed.
Unsent == [at |-> "unsent", route |-> NoRoute, key |-> Nobody, body |-> "good", token |-> Nobody,
           user |-> Nobody, mode |-> "none", status |-> 0, lockedAt |-> 0, took |-> FALSE,
           released |-> FALSE, enteredAt |-> 0, read |-> Nobody]

AccountOf(u) == [role |-> RoleOf[u], isDeleted |-> isDeleted[u], sound |-> ~isDeleted[u]]
TokenType == {"access", "refresh", "forgot_pass", "onboarding"}

GatewayInit ==
    /\ ProcessInit
    /\ now = 0
    /\ isDeleted = [u \in Account |-> FALSE]
    /\ tokens = UNION {{createAccessToken(u, AccountOf(u), 0), createRefreshToken(u, AccountOf(u), 0),
                         createOnboardingToken(u, AccountOf(u), 0),
                         createForgotPassToken(u, AccountOf(u), 0)} : u \in Account}
    /\ attempts = [a \in Attempt |-> Unsent]
    /\ lock = [k \in Key |-> 0] /\ sets = {} /\ dels = {}
    /\ hits = left.seen

At(a) == attempts[a].at
Hearing(a) == IF attempts[a].mode = "locked" \/ At(a) = "locking" THEN BOOLEAN ELSE {TRUE}
TokensOf(type) == IF type = "none" THEN {Nobody} ELSE {t \in tokens : t.type = type}
Locked(k) == lock[k] > now

-------------------------------------------------------------------------------
(* From the socket to the handler *)

\* The answer has been sent. A finished answer of 5xx gives the key back; when the
\* client has hung up the answer never finishes.
\* Slip: every finished answer gives the key back.
Answered_AlwaysReleased(r, status, heard) ==
    [r EXCEPT !.at = "answered", !.status = status,
              !.released = r.mode = "locked" /\ heard]
Answered(r, status, heard) ==
    [r EXCEPT !.at = "answered", !.status = status,
              !.released = r.mode = "locked" /\ heard /\ status >= 500]

\* The guards of the route: the handler begins, or the error is answered. express.json
\* and multer wait for the body in between; only the token's check looks at the time,
\* so that enteredAt is the moment it was checked, and no guard reads what may change.
Entered(r, heard) ==
    LET error == Error(r, now)
    IN  IF error = Pass THEN [r EXCEPT !.at = "handling", !.user = Principal(r), !.enteredAt = now]
        ELSE Answered(r, normalizeError(error), heard)

Becomes(a, r) ==
    /\ attempts' = [attempts EXCEPT ![a] = r]
    /\ running' = IF r.at = "answered" THEN running \ {a} ELSE running \cup {a}
    /\ dels' = IF r.released THEN dels \cup {a} ELSE dels

\* globalRateLimiter, and the first half of idempotency: a writing request with a key
\* sends SET NX EX and waits; any other goes on.
Receive(a, part, q, token) ==
    LET r == [Unsent EXCEPT !.at = "locking", !.route = q.route, !.key = q.key,
                            !.body = q.body, !.token = token]
    IN  /\ listening /\ Spend(part)
        /\ At(a) = "unsent" /\ \A b \in 1..a - 1 : At(b) # "unsent"
        /\ hits' = IF hits < rateLimit THEN hits + 1 ELSE hits
        /\ IF hits = rateLimit THEN Becomes(a, Answered(r, 429, TRUE)) /\ UNCHANGED sets
           ELSE IF r.route.write /\ r.key # Nobody
                THEN Becomes(a, r) /\ sets' = sets \cup {a}
                ELSE Becomes(a, Entered(r, TRUE)) /\ UNCHANGED sets
        /\ UNCHANGED <<startVars, stopVars, redis, bull, listening, now, accountVars, lock>>

\* Redis carries a SET out: it takes the key when nobody has it. The request that still
\* waits goes on with the key, or is refused.
SetApplies(a, heard) ==
    LET r == attempts[a]
        taken == ~Locked(r.key)
    IN  /\ a \in sets /\ redis = "ready"
        /\ sets' = sets \ {a}
        /\ lock' = IF taken THEN [lock EXCEPT ![r.key] = now + ttlSeconds] ELSE lock
        /\ IF Alive /\ r.at = "locking"
           THEN LET held == [r EXCEPT !.mode = "locked", !.lockedAt = now]
                IN  Becomes(a, IF taken THEN Entered(held, heard) ELSE Answered(r, 409, heard))
           ELSE UNCHANGED <<attempts, running, dels>>
        /\ UNCHANGED <<startVars, stopVars, redis, bull, listening, left, now, accountVars, hits>>

\* runRedisCommand gives up after commandTimeoutMs, or the client refuses the command:
\* the request goes on without a key, and a SET that was sent is still on its way.
Bypass(a) ==
    /\ Alive /\ At(a) = "locking"
    /\ redis = "ready" => left.fault > 0
    /\ left' = IF redis = "ready" THEN [left EXCEPT !.fault = @ - 1] ELSE left
    /\ sets' = IF redis \in {"dead", "off"} THEN sets \ {a} ELSE sets
    /\ Becomes(a, Entered([attempts[a] EXCEPT !.mode = "bypassed"], TRUE))
    /\ UNCHANGED <<startVars, stopVars, redis, bull, listening, now, accountVars, lock, hits>>

\* The release: the key is deleted, whoever has it by now.
DelApplies(a) ==
    /\ a \in dels /\ redis = "ready"
    /\ dels' = dels \ {a}
    /\ lock' = [lock EXCEPT ![attempts[a].key] = 0]
    /\ UNCHANGED <<processVars, now, accountVars, attempts, sets, hits>>

\* A command is lost with the connection; its errors are swallowed.
CommandLost(a) ==
    /\ redis # "ready" \/ ~Alive
    /\ a \in dels \/ (a \in sets /\ At(a) # "locking")
    /\ dels' = dels \ {a} /\ sets' = sets \ {a}
    /\ UNCHANGED <<processVars, now, accountVars, attempts, lock, hits>>

-------------------------------------------------------------------------------
(* Handlers *)

\* The steps of a handler change its own attempt and nothing of the process.
Handles(a) == Alive /\ At(a) = "handling"
Rest == UNCHANGED <<startVars, stopVars, redis, bull, listening, left, now, lock, sets, hits>>

AccountOps == {<<"users", "deleteMe">>, <<"auth", "login">>, <<"auth", "refreshTokens">>,
               <<"health">>}

\* login reads the account by its address, refreshTokens by the claims of the token in the
\* body; an account that is gone is refused, and so is a password that is wrong or a token
\* that is stored no more (proved; Accounts says when).
RefreshOf(r) == r.token # Nobody /\ r.token.type = "refresh" /\ now < r.token.exp

ReadAccount(a, u, proved) ==
    LET r == attempts[a]
        refresh == r.route.op = <<"auth", "refreshTokens">>
    IN  /\ Handles(a) /\ (refresh \/ r.route.op = <<"auth", "login">>)
        /\ (refresh /\ RefreshOf(r)) => u = r.token.sub
        /\ Becomes(a, IF ~proved \/ isDeleted[u] \/ (refresh /\ ~RefreshOf(r))
                      THEN Answered(r, 401, TRUE)
                      ELSE [r EXCEPT !.at = "issuing",
                                     !.read = [sub |-> u, account |-> AccountOf(u)]])
        /\ Rest /\ UNCHANGED accountVars

\* issueTokenPair: the claims are those of the account as it was read.
issueTokenPair(a) ==
    LET r == attempts[a]
    IN  /\ Alive /\ r.at = "issuing"
        /\ tokens' = tokens \cup {createAccessToken(r.read.sub, r.read.account, now),
                                   createRefreshToken(r.read.sub, r.read.account, now)}
        /\ Becomes(a, Answered([r EXCEPT !.took = TRUE], 200, TRUE))
        /\ Rest /\ UNCHANGED isDeleted

deleteMe(a) ==
    LET r == attempts[a]
    IN  /\ Handles(a) /\ r.route.op = <<"users", "deleteMe">>
        /\ isDeleted' = [isDeleted EXCEPT ![r.user] = TRUE]
        /\ Becomes(a, Answered([r EXCEPT !.took = ~isDeleted[r.user]],
                               IF isDeleted[r.user] THEN 404 ELSE 200, TRUE))
        /\ Rest /\ UNCHANGED tokens

\* GET /health: the request's abort signal fires after requestTimeoutMs.
Health(a, aborted) ==
    /\ Handles(a) /\ attempts[a].route.op = <<"health">> /\ QueueAnswers(aborted)
    /\ Becomes(a, Answered(attempts[a], IF check(aborted) = "down" THEN 503 ELSE 200, TRUE))
    /\ Rest /\ UNCHANGED accountVars

\* Any other handler: its effect happens, then it answers or throws.
TakeEffect(a) ==
    /\ Handles(a) /\ attempts[a].route.op \notin AccountOps /\ ~attempts[a].took
    /\ Becomes(a, [attempts[a] EXCEPT !.took = TRUE])
    /\ Rest /\ UNCHANGED accountVars

Succeed(a) ==
    /\ Handles(a) /\ attempts[a].route.op \notin AccountOps /\ attempts[a].took
    /\ Becomes(a, Answered(attempts[a], 200, TRUE))
    /\ Rest /\ UNCHANGED accountVars

\* globalErrorHandler: before the effect a handler refuses, around it the database fails.
Thrown == {AppError(409), OtherError("MongoServerError")}
Fail(a, error, heard) ==
    /\ Handles(a) /\ attempts[a].route.op \notin AccountOps
    /\ attempts[a].took => error = OtherError("MongoServerError")
    /\ Becomes(a, Answered(attempts[a], normalizeError(error), heard))
    /\ Rest /\ UNCHANGED accountVars

-------------------------------------------------------------------------------

Tick ==
    /\ Spend("tick")
    /\ now' = now + 1 /\ hits' = 0
    /\ UNCHANGED <<startVars, stopVars, redis, bull, listening, running, accountVars, attempts,
                   keyVars>>

\* The process goes its way. What it was serving when it ended is never answered.
ProcessStep ==
    /\ ProcessNext
    /\ attempts' = [a \in Attempt |->
                       IF Alive' THEN attempts[a]
                       ELSE IF a \in running THEN [attempts[a] EXCEPT !.at = "cut"]
                            ELSE attempts[a]]
    /\ UNCHANGED <<now, accountVars, keyVars, hits>>

RequestNext(a) ==
    \/ \E part \in {p \in DOMAIN Requests : left[p] > 0} : \E q \in Requests[part] :
          \E token \in TokensOf(q.type) : Receive(a, part, q, token)
    \/ \E heard \in Hearing(a) : SetApplies(a, heard)
    \/ Bypass(a)
    \/ DelApplies(a) \/ CommandLost(a)
    \/ \E u \in Account, proved \in BOOLEAN : ReadAccount(a, u, proved)
    \/ issueTokenPair(a)
    \/ deleteMe(a)
    \/ \E aborted \in BOOLEAN : Health(a, aborted)
    \/ TakeEffect(a) \/ Succeed(a)
    \/ \E error \in Thrown, heard \in Hearing(a) : Fail(a, error, heard)

GatewayNext == ProcessStep \/ Tick \/ \E a \in Attempt : RequestNext(a)

\* setTimeout fires; nothing else is promised, least of all that a handler answers.
Spec == GatewayInit /\ [][GatewayNext]_vars /\ WF_vars(ForcedExit /\ ProcessStep)

-------------------------------------------------------------------------------
(* Properties *)

\* Two requests under one key both take effect only when the key had run out between
\* them, or some earlier holder had answered with a server error and given it back.
NoSecondEffect ==
    \A a, b \in Attempt :
        LET p == attempts[a]
            q == attempts[b]
        IN  (/\ a # b /\ p.key = q.key /\ p.mode = "locked" /\ q.mode = "locked"
             /\ p.took /\ q.took /\ p.lockedAt <= q.lockedAt)
            => \/ q.lockedAt >= p.lockedAt + ttlSeconds
               \/ \E c \in Attempt :
                     /\ attempts[c].key = p.key /\ attempts[c].mode = "locked"
                     /\ attempts[c].status >= 500 /\ attempts[c].released
                     /\ attempts[c].lockedAt <= q.lockedAt
                     /\ c # b \/ p.lockedAt = q.lockedAt

\* Whatever is done is done for the account the token was made for and with its role; an
\* administrator's operation by no one else, a token of a purpose for its purpose only;
\* and a token works for its lifetime at most and never was made from a deleted account.
AdminOps == {r.op : r \in Mounted("admin", adminMounts)}
CustomerOps == {r.op : r \in Mounted("cart", cartRoutes) \cup Mounted("orders", orderRoutes)}
Purpose ==
    [op \in {<<"auth", "resetPassword">>, <<"auth", "completeProfile">>} |->
        IF op = <<"auth", "resetPassword">> THEN "forgot_pass" ELSE "onboarding"]

AccessFollowsAccount ==
    \A a \in Attempt :
        LET r == attempts[a] IN
        /\ (r.at = "handling" \/ r.took) /\ r.route.op \in AdminOps \cup CustomerOps \cup DOMAIN Purpose
            => r.user # Nobody
        /\ r.user # Nobody =>
            /\ r.user = r.token.sub /\ r.token.sound /\ r.enteredAt < r.token.exp
            /\ r.token.type = IF r.route.op \in DOMAIN Purpose
                              THEN Purpose[r.route.op] ELSE "access"
            /\ r.route.op \in AdminOps => RoleOf[r.user] = "superAdmin"
            /\ r.route.op \in CustomerOps => RoleOf[r.user] = "USER"

\* A process that ends in its own time has answered every request it took, unless it
\* began to listen when it had been told to stop.
CutOnlyByTimer ==
    ~Alive /\ ended \in {"clean", "failed"} /\ ~late => running = {}

\* A process that has been told to stop does, whatever its connections and handlers do.
ShutdownEnds == (stop # "none") ~> ~Alive
===============================================================================
