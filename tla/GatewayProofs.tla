----------------------------- MODULE GatewayProofs -----------------------------
(***************************************************************************)
(* For every set of requests, keys and accounts, every lifetime of a key   *)
(* and every number of faults, signals, crashes and restarts: what a       *)
(* shutdown leaves unanswered, what one idempotency key lets happen, and   *)
(* whom the routers of the API let a request act for.                      *)
(***************************************************************************)
EXTENDS Gateway, TLAPS, SequenceTheorems, WellFoundedInduction

-------------------------------------------------------------------------------
(* Requests being served *)

Fields == {"at", "route", "key", "body", "token", "user", "mode", "status", "lockedAt",
           "took", "released", "enteredAt", "read"}
InFlight == {"locking", "handling", "issuing"}

\* A request that is not answered yet is one of those the living process is serving.
ServedInv ==
    /\ attempts = [a \in Attempt |-> attempts[a]]
    /\ \A a \in Attempt : DOMAIN attempts[a] = Fields
    /\ \A a \in Attempt : At(a) \in InFlight => Alive /\ a \in running

LEMMA AnsweredFields ==
    ASSUME NEW r, DOMAIN r = Fields, NEW status, NEW heard
    PROVE  LET s == Answered(r, status, heard) IN
           /\ DOMAIN s = Fields
           /\ s.at = "answered" /\ s.status = status
           /\ s.key = r.key /\ s.mode = r.mode /\ s.lockedAt = r.lockedAt /\ s.took = r.took
           /\ s.released = (r.mode = "locked" /\ heard /\ status >= 500)
BY DEF Answered, Fields

LEMMA EnteredFields ==
    ASSUME NEW r, DOMAIN r = Fields, ~r.released, NEW heard
    PROVE  LET s == Entered(r, heard) IN
           /\ DOMAIN s = Fields
           /\ s.at \in {"handling", "answered"}
           /\ s.key = r.key /\ s.mode = r.mode /\ s.lockedAt = r.lockedAt /\ s.took = r.took
           /\ s.released => s.at = "answered" /\ r.mode = "locked" /\ s.status >= 500
<1> DEFINE error == Error(r, now)
           s == Entered(r, heard)
<1>1. CASE error = Pass
  <2>1. s = [r EXCEPT !.at = "handling", !.user = Principal(r), !.enteredAt = now]
    BY <1>1 DEF Entered
  <2> HIDE DEF s
  <2>2. DOMAIN s = Fields /\ s.at = "handling" /\ s.released = r.released
    BY <2>1 DEF Fields
  <2>3. s.key = r.key /\ s.mode = r.mode /\ s.lockedAt = r.lockedAt /\ s.took = r.took
    BY <2>1 DEF Fields
  <2> QED
    BY <2>2, <2>3 DEF s
<1>2. CASE error # Pass
  <2> DEFINE status == normalizeError(error)
  <2>1. s = Answered(r, status, heard)
    BY <1>2 DEF Entered
  <2> HIDE DEF s, error, status
  <2>2. /\ DOMAIN s = Fields /\ s.at = "answered" /\ s.status = status
        /\ s.key = r.key /\ s.mode = r.mode /\ s.lockedAt = r.lockedAt /\ s.took = r.took
        /\ s.released = (r.mode = "locked" /\ heard /\ status >= 500)
    BY <2>1, AnsweredFields
  <2>3. s.released => s.at = "answered" /\ r.mode = "locked" /\ s.status >= 500
    BY <2>2, Zenon
  <2> QED
    BY <2>2, <2>3 DEF s
<1> QED
  BY <1>1, <1>2

\* A step of request a changes its own record alone.
LEMMA Became ==
    ASSUME ServedInv, NEW a \in Attempt, NEW r, Becomes(a, r)
    PROVE  /\ attempts' = [b \in Attempt |-> attempts'[b]]
           /\ attempts'[a] = r /\ \A b \in Attempt \ {a} : attempts'[b] = attempts[b]
           /\ running' = IF r.at = "answered" THEN running \ {a} ELSE running \cup {a}
           /\ dels' = IF r.released THEN dels \cup {a} ELSE dels
BY DEF ServedInv, Becomes

\* ... and keeps ServedInv, if it is one of a living process.
LEMMA ServedBecomes ==
    ASSUME ServedInv, NEW a \in Attempt, NEW r, Becomes(a, r), DOMAIN r = Fields,
           r.at \in InFlight \cup {"answered"}, Alive, UNCHANGED main
    PROVE  ServedInv'
<1>1. /\ attempts' = [b \in Attempt |-> attempts'[b]]
      /\ attempts'[a] = r /\ \A b \in Attempt \ {a} : attempts'[b] = attempts[b]
      /\ running' = IF r.at = "answered" THEN running \ {a} ELSE running \cup {a}
  BY Became
<1> QED
  BY <1>1 DEF ServedInv, At, Alive, InFlight

-------------------------------------------------------------------------------
(* What the steps of requests have in common *)

\* A request in flight goes on, to its answer or not, with its key as it was.
GoesOn(a, r) ==
    /\ At(a) \in {"handling", "issuing"} /\ Alive
    /\ Becomes(a, r) /\ DOMAIN r = Fields /\ r.at \in {"handling", "issuing", "answered"}
    /\ r.key = attempts[a].key /\ r.mode = attempts[a].mode
    /\ r.lockedAt = attempts[a].lockedAt
    /\ r.released => r.at = "answered" /\ r.mode = "locked" /\ r.status >= 500
    /\ UNCHANGED <<startVars, stopVars, listening, now, lock>>

\* Only answers are released.
Unreleased == \A a \in Attempt : At(a) \in InFlight => ~attempts[a].released

HandlerNext(a) ==
    \/ \E u \in Account, proved \in BOOLEAN : ReadAccount(a, u, proved)
    \/ issueTokenPair(a)
    \/ deleteMe(a)
    \/ \E aborted \in BOOLEAN : Health(a, aborted)
    \/ TakeEffect(a) \/ Succeed(a)
    \/ \E error \in Thrown, heard \in Hearing(a) : Fail(a, error, heard)

\* An answer to a request in flight.
LEMMA AnswerGoesOn ==
    ASSUME ServedInv, NEW a \in Attempt, At(a) \in {"handling", "issuing"}, Alive,
           NEW r, DOMAIN r = Fields, r.key = attempts[a].key, r.mode = attempts[a].mode,
           r.lockedAt = attempts[a].lockedAt,
           NEW status, NEW heard, Becomes(a, Answered(r, status, heard)), Rest
    PROVE  GoesOn(a, Answered(r, status, heard))
<1> DEFINE s == Answered(r, status, heard)
<1>1. /\ DOMAIN s = Fields
      /\ s.at = "answered" /\ s.status = status
      /\ s.key = r.key /\ s.mode = r.mode /\ s.lockedAt = r.lockedAt
      /\ s.released = (r.mode = "locked" /\ heard /\ status >= 500)
  BY AnsweredFields
<1> HIDE DEF s
<1>2. s.released => s.at = "answered" /\ s.mode = "locked" /\ s.status >= 500
  BY <1>1, Zenon
<1> QED
  BY <1>1, <1>2 DEF GoesOn, Rest, s

LEMMA HandlersGoOn ==
    ASSUME ServedInv, Unreleased, NEW a \in Attempt, HandlerNext(a)
    PROVE  \E r : GoesOn(a, r)
<1> DEFINE r0 == attempts[a]
<1>1. DOMAIN r0 = Fields
  BY DEF ServedInv
<1>2. ASSUME NEW u \in Account, NEW proved \in BOOLEAN, ReadAccount(a, u, proved)
      PROVE  \E r : GoesOn(a, r)
  <2>1. Handles(a) /\ Rest
    BY <1>2 DEF ReadAccount
  <2>2. ~r0.released
    BY <2>1 DEF Handles, Unreleased, InFlight
  <2> DEFINE next == [r0 EXCEPT !.at = "issuing", !.read = [sub |-> u, account |-> AccountOf(u)]]
  <2>3. Becomes(a, Answered(r0, 401, TRUE)) \/ Becomes(a, next)
    BY <1>2 DEF ReadAccount
  <2>4. /\ DOMAIN next = Fields /\ next.at = "issuing" /\ next.key = r0.key
        /\ next.mode = r0.mode /\ next.lockedAt = r0.lockedAt /\ next.released = r0.released
    BY <1>1 DEF Fields
  <2> HIDE DEF next
  <2>5. ASSUME Becomes(a, Answered(r0, 401, TRUE)) PROVE \E r : GoesOn(a, r)
    BY <1>1, <2>1, <2>5, AnswerGoesOn DEF Handles
  <2>6. ASSUME Becomes(a, next) PROVE GoesOn(a, next)
    BY <2>1, <2>2, <2>4, <2>6 DEF GoesOn, Handles, Rest
  <2> QED
    BY <2>3, <2>5, <2>6
<1>3. CASE issueTokenPair(a)
  <2> DEFINE r == [r0 EXCEPT !.took = TRUE]
  <2>1. /\ Alive /\ At(a) = "issuing" /\ Rest
        /\ Becomes(a, Answered(r, 200, TRUE))
    BY <1>3 DEF issueTokenPair, At
  <2>2. DOMAIN r = Fields /\ r.key = r0.key /\ r.mode = r0.mode /\ r.lockedAt = r0.lockedAt
    BY <1>1 DEF Fields
  <2> HIDE DEF r
  <2> QED
    BY <2>1, <2>2, AnswerGoesOn
<1>4. CASE deleteMe(a)
  <2> DEFINE r == [r0 EXCEPT !.took = ~isDeleted[r0.user]]
             status == IF isDeleted[r0.user] THEN 404 ELSE 200
  <2>1. Handles(a) /\ Rest /\ Becomes(a, Answered(r, status, TRUE))
    BY <1>4 DEF deleteMe
  <2>2. DOMAIN r = Fields /\ r.key = r0.key /\ r.mode = r0.mode /\ r.lockedAt = r0.lockedAt
    BY <1>1 DEF Fields
  <2> HIDE DEF r, status
  <2> QED
    BY <2>1, <2>2, AnswerGoesOn DEF Handles
<1>5. CASE \E aborted \in BOOLEAN : Health(a, aborted)
  <2>1. PICK aborted \in BOOLEAN : Health(a, aborted)
    BY <1>5
  <2> DEFINE status == IF check(aborted) = "down" THEN 503 ELSE 200
  <2>2. Handles(a) /\ Rest /\ Becomes(a, Answered(r0, status, TRUE))
    BY <2>1 DEF Health
  <2> HIDE DEF status
  <2> QED
    BY <1>1, <2>2, AnswerGoesOn DEF Handles
<1>6. CASE TakeEffect(a)
  <2> DEFINE r == [r0 EXCEPT !.took = TRUE]
  <2>1. Handles(a) /\ Rest /\ Becomes(a, r)
    BY <1>6 DEF TakeEffect
  <2>2. ~r0.released
    BY <2>1 DEF Handles, Unreleased, InFlight
  <2>3. /\ DOMAIN r = Fields /\ r.at = r0.at /\ r.key = r0.key /\ r.mode = r0.mode
        /\ r.lockedAt = r0.lockedAt /\ r.released = r0.released
    BY <1>1 DEF Fields
  <2> HIDE DEF r
  <2>4. GoesOn(a, r)
    BY <2>1, <2>2, <2>3 DEF GoesOn, Handles, Rest, At
  <2> QED
    BY <2>4
<1>7. CASE Succeed(a)
  <2>1. Handles(a) /\ Rest /\ Becomes(a, Answered(r0, 200, TRUE))
    BY <1>7 DEF Succeed
  <2> QED
    BY <1>1, <2>1, AnswerGoesOn DEF Handles
<1>8. CASE \E error \in Thrown, heard \in Hearing(a) : Fail(a, error, heard)
  <2>1. PICK error \in Thrown, heard \in Hearing(a) : Fail(a, error, heard)
    BY <1>8
  <2>2. Handles(a) /\ Rest /\ Becomes(a, Answered(r0, normalizeError(error), heard))
    BY <2>1 DEF Fail
  <2> QED
    BY <1>1, <2>2, AnswerGoesOn DEF Handles
<1> QED
  BY <1>2, <1>3, <1>4, <1>5, <1>6, <1>7, <1>8 DEF HandlerNext

-------------------------------------------------------------------------------
(* Shutdown *)

Before == {"connecting", "wiring", "failing", "failed"}
Open == {"none", "realtime"}

\* Before it listens a process serves nobody. One that was not told to stop before it
\* listened goes on listening until its realtime server is closed, and has answered all
\* it was serving when that close is over.
EndInv ==
    /\ main \in Before \cup {"serving", "gone"}
    /\ listening => main = "serving"
    /\ main \in Before => running = {} /\ ~late
    /\ main = "wiring" /\ stop \in Open => io = "open"
    /\ main = "serving" /\ ~late =>
          /\ stop \in Open => io = "open" /\ listening
          /\ stop \notin Open => ~listening
          /\ stop \notin Open \cup {"draining"} => running = {}
    /\ CutOnlyByTimer

LEMMA EndStep ==
    ASSUME EndInv, ProcessNext
    PROVE  EndInv'
<1> USE DEF EndInv, CutOnlyByTimer, Before, Open, Alive
<1>1. CASE connectDatabase
  BY <1>1 DEF connectDatabase, stopVars
<1>2. CASE connectRedis
  BY <1>2 DEF connectRedis, stopVars
<1>3. CASE setupRealtimeServer
  BY <1>3 DEF setupRealtimeServer, stopVars
<1>4. CASE connectRedisAdapter
  BY <1>4 DEF connectRedisAdapter, stopVars
<1>5. CASE listen
  BY <1>5 DEF listen, stopVars
<1>6. CASE StartFails
  BY <1>6 DEF StartFails, stopVars
<1>7. CASE LoopEnds
  BY <1>7 DEF LoopEnds
<1>8. CASE RedisFlaps \/ BullFlaps
  BY <1>8 DEF RedisFlaps, BullFlaps, startVars, stopVars
<1>9. CASE gracefulShutdown
  BY <1>9 DEF gracefulShutdown, startVars
<1>10. CASE closeRealtimeServer
  BY <1>10 DEF closeRealtimeServer
<1>11. CASE HttpDrained
  BY <1>11 DEF HttpDrained, startVars
<1>12. CASE CloseServer
  BY <1>12 DEF CloseServer, startVars
<1>13. CASE closeBullConnection
  BY <1>13 DEF closeBullConnection, startVars, stopVars
<1>14. CASE disconnectDatabase
  BY <1>14 DEF disconnectDatabase, stopVars
<1>15. CASE disconnectRedis
  BY <1>15 DEF disconnectRedis, startVars, stopVars
<1>16. CASE ShutdownCompletes
  BY <1>16 DEF ShutdownCompletes, Exit
<1>17. CASE ForcedExit
  BY <1>17 DEF ForcedExit, Exit
<1>18. CASE Crash
  BY <1>18 DEF Crash, Exit
<1>19. CASE Restart
  BY <1>19 DEF Restart, Started
<1> QED
  BY <1>1, <1>2, <1>3, <1>4, <1>5, <1>6, <1>7, <1>8, <1>9, <1>10, <1>11, <1>12, <1>13, <1>14,
     <1>15, <1>16, <1>17, <1>18, <1>19 DEF ProcessNext

\* A process takes up no request by itself, and a new one starts with none.
LEMMA ProcessServes ==
    ASSUME ProcessNext
    PROVE  \/ UNCHANGED running /\ (Alive' => Alive)
           \/ ~Alive
<1>1. CASE connectDatabase \/ connectRedis \/ setupRealtimeServer \/ connectRedisAdapter
           \/ listen \/ StartFails \/ LoopEnds
  BY <1>1 DEF connectDatabase, connectRedis, setupRealtimeServer, connectRedisAdapter, listen,
              StartFails, LoopEnds, Alive
<1>2. CASE RedisFlaps \/ BullFlaps \/ gracefulShutdown \/ closeRealtimeServer \/ HttpDrained
           \/ CloseServer
  BY <1>2 DEF RedisFlaps, BullFlaps, gracefulShutdown, closeRealtimeServer, HttpDrained,
              CloseServer, startVars, Alive
<1>3. CASE closeBullConnection \/ disconnectDatabase \/ disconnectRedis \/ ShutdownCompletes
           \/ ForcedExit \/ Crash \/ Restart
  BY <1>3 DEF closeBullConnection, disconnectDatabase, disconnectRedis, ShutdownCompletes,
              ForcedExit, Crash, Restart, Exit, startVars, Alive
<1> QED
  BY <1>1, <1>2, <1>3 DEF ProcessNext

-------------------------------------------------------------------------------
(* Keys *)

\* A request that has its key and may have, or has had, an effect.
Holder(a) ==
    attempts[a].mode = "locked" /\ (attempts[a].took \/ At(a) \in {"handling", "issuing"})

\* A request that answered with a server error and gave the key back.
Gave(c, k) ==
    /\ attempts[c].released /\ attempts[c].mode = "locked" /\ attempts[c].status >= 500
    /\ attempts[c].key = k

RecordOK(a) ==
    LET r == attempts[a] IN
    /\ r.at \in InFlight \cup {"unsent"} => ~r.released
    /\ r.at \in {"unsent", "locking"} => r.mode # "locked"
    /\ r.at = "locking" => r.key \in Key /\ ~r.took
    /\ r.mode = "locked" => r.key \in Key /\ r.lockedAt \in Nat /\ r.lockedAt <= now
    /\ r.released => r.mode = "locked" /\ r.status >= 500

\* Redis holds the key of a holder until it has run out or been given back.
Covered(a) ==
    \/ lock[attempts[a].key] >= attempts[a].lockedAt + ttlSeconds
    \/ \E c \in Attempt : Gave(c, attempts[a].key)

Apart(a, b) ==
    \/ attempts[b].lockedAt >= attempts[a].lockedAt + ttlSeconds
    \/ \E c \in Attempt :
          /\ Gave(c, attempts[a].key) /\ attempts[c].lockedAt <= attempts[b].lockedAt
          /\ c # b \/ attempts[a].lockedAt = attempts[b].lockedAt

KeyInv ==
    /\ now \in Nat /\ lock \in [Key -> Nat]
    /\ \A a \in Attempt : RecordOK(a)
    /\ \A a \in dels : a \in Attempt /\ attempts[a].released
    /\ \A a \in Attempt : Holder(a) => Covered(a)
    /\ \A a, b \in Attempt :
          (/\ a # b /\ Holder(a) /\ Holder(b) /\ attempts[a].key = attempts[b].key
           /\ attempts[a].lockedAt <= attempts[b].lockedAt) => Apart(a, b)

LEMMA KeyInvAnswers == KeyInv => NoSecondEffect
BY DEF KeyInv, NoSecondEffect, Holder, Apart, Gave

LEMMA KeyInvUnreleased == KeyInv => Unreleased
BY DEF KeyInv, RecordOK, Unreleased, At

\* A step that makes no holder, and shortens no key but one given back, keeps KeyInv.
LEMMA KeyFrame ==
    ASSUME KeyInv, now' \in Nat, lock' \in [Key -> Nat],
           \A k \in Key : lock'[k] >= lock[k] \/ \E c \in Attempt : Gave(c, k),
           \A a \in Attempt : RecordOK(a)',
           \A a \in dels' : a \in Attempt /\ attempts'[a].released,
           \A a \in Attempt : Holder(a)' => /\ Holder(a)
                                            /\ attempts'[a].key = attempts[a].key
                                            /\ attempts'[a].lockedAt = attempts[a].lockedAt,
           \A c \in Attempt : attempts[c].released =>
               /\ attempts'[c].released /\ attempts'[c].mode = attempts[c].mode
               /\ attempts'[c].status = attempts[c].status /\ attempts'[c].key = attempts[c].key
               /\ attempts'[c].lockedAt = attempts[c].lockedAt
    PROVE  KeyInv'
<1>1. ASSUME NEW c \in Attempt, NEW k, Gave(c, k)
      PROVE  Gave(c, k)' /\ attempts'[c].lockedAt = attempts[c].lockedAt
  BY <1>1 DEF Gave
<1>2. ASSUME NEW a \in Attempt, Holder(a)' PROVE Covered(a)'
  <2>1. /\ Holder(a) /\ Covered(a) /\ attempts[a].key \in Key /\ attempts[a].lockedAt \in Nat
        /\ attempts'[a].key = attempts[a].key /\ attempts'[a].lockedAt = attempts[a].lockedAt
    BY <1>2 DEF KeyInv, RecordOK, Holder
  <2>2. CASE \E c \in Attempt : Gave(c, attempts[a].key)
    BY <1>1, <2>1, <2>2 DEF Covered
  <2>3. CASE lock[attempts[a].key] >= attempts[a].lockedAt + ttlSeconds
             /\ lock'[attempts[a].key] >= lock[attempts[a].key]
    <3>1. lock[attempts[a].key] \in Nat /\ lock'[attempts[a].key] \in Nat
      BY <2>1 DEF KeyInv
    <3> QED
      BY <2>1, <2>3, <3>1, RequestsAreValid DEF Covered
  <2> QED
    BY <2>1, <2>2, <2>3 DEF Covered
<1>3. ASSUME NEW a \in Attempt, NEW b \in Attempt, a # b, Holder(a)', Holder(b)',
             attempts'[a].key = attempts'[b].key, attempts'[a].lockedAt <= attempts'[b].lockedAt
      PROVE  Apart(a, b)'
  <2>1. /\ attempts'[a].key = attempts[a].key /\ attempts'[a].lockedAt = attempts[a].lockedAt
        /\ attempts'[b].key = attempts[b].key /\ attempts'[b].lockedAt = attempts[b].lockedAt
        /\ Holder(a) /\ Holder(b)
    BY <1>3
  <2>2. Apart(a, b)
    BY <1>3, <2>1 DEF KeyInv
  <2> QED
    BY <1>1, <2>1, <2>2 DEF Apart
<1> QED
  BY <1>2, <1>3 DEF KeyInv

LEMMA KeyGoesOn ==
    ASSUME ServedInv, KeyInv, NEW a \in Attempt, NEW r, GoesOn(a, r)
    PROVE  KeyInv'
<1>1. /\ attempts'[a] = r /\ \A b \in Attempt \ {a} : attempts'[b] = attempts[b]
      /\ dels' = IF r.released THEN dels \cup {a} ELSE dels
      /\ UNCHANGED <<now, lock>>
  BY Became DEF GoesOn
<1>2. ~attempts[a].released
  BY DEF GoesOn, KeyInv, RecordOK, InFlight, At
<1>3. /\ r.at \in {"handling", "issuing", "answered"} /\ r.key = attempts[a].key
      /\ r.mode = attempts[a].mode /\ r.lockedAt = attempts[a].lockedAt
      /\ r.released => r.at = "answered" /\ r.mode = "locked" /\ r.status >= 500
      /\ attempts[a].at \in {"handling", "issuing"}
  BY DEF GoesOn, At
<1>4. RecordOK(a)'
  BY <1>1, <1>3 DEF KeyInv, RecordOK, InFlight
<1>5. \A b \in Attempt : RecordOK(b)'
  BY <1>1, <1>4 DEF KeyInv, RecordOK
<1>6. \A b \in Attempt : Holder(b)' => /\ Holder(b)
                                       /\ attempts'[b].key = attempts[b].key
                                       /\ attempts'[b].lockedAt = attempts[b].lockedAt
  BY <1>1, <1>3 DEF Holder, At
<1>7. \A b \in dels' : b \in Attempt /\ attempts'[b].released
  BY <1>1, <1>2 DEF KeyInv
<1>8. \A c \in Attempt : attempts[c].released => attempts'[c] = attempts[c]
  BY <1>1, <1>2
<1>9. now' \in Nat /\ lock' \in [Key -> Nat] /\ \A k \in Key : lock'[k] >= lock[k]
  BY <1>1 DEF KeyInv
<1> QED
  BY <1>5, <1>6, <1>7, <1>8, <1>9, KeyFrame

\* A step that leaves its request without a part in the key, or answers it.
LEMMA KeyBecomes ==
    ASSUME ServedInv, KeyInv, NEW a \in Attempt, NEW s, Becomes(a, s), ~attempts[a].released,
           s.at \in InFlight \cup {"answered"},
           s.mode # "locked" \/ (s.at = "answered" /\ ~s.took),
           s.at = "locking" => s.key \in Key /\ ~s.took,
           s.at \in InFlight => ~s.released,
           s.mode = "locked" => s.key \in Key /\ s.lockedAt \in Nat /\ s.lockedAt <= now,
           s.released => s.mode = "locked" /\ s.status >= 500,
           UNCHANGED now, lock' \in [Key -> Nat], \A k \in Key : lock'[k] >= lock[k]
    PROVE  KeyInv'
<1>1. /\ attempts'[a] = s /\ \A b \in Attempt \ {a} : attempts'[b] = attempts[b]
      /\ dels' = IF s.released THEN dels \cup {a} ELSE dels
  BY Became
<1>2. RecordOK(a)'
  BY <1>1 DEF RecordOK, InFlight
<1>3. \A b \in Attempt : RecordOK(b)'
  BY <1>1, <1>2 DEF KeyInv, RecordOK
<1>4. \A b \in Attempt : Holder(b)' => /\ Holder(b)
                                       /\ attempts'[b].key = attempts[b].key
                                       /\ attempts'[b].lockedAt = attempts[b].lockedAt
  BY <1>1 DEF Holder, At, InFlight
<1>5. \A b \in dels' : b \in Attempt /\ attempts'[b].released
  BY <1>1 DEF KeyInv
<1>6. \A c \in Attempt : attempts[c].released => attempts'[c] = attempts[c]
  BY <1>1
<1>7. now' \in Nat
  BY DEF KeyInv
<1> QED
  BY <1>3, <1>4, <1>5, <1>6, <1>7, KeyFrame

\* What a step of a request that is not a handler's does to the process.
Aside == UNCHANGED <<startVars, stopVars, listening>>

LEMMA StepReceive ==
    ASSUME ServedInv, KeyInv, listening => Alive, NEW a \in Attempt, NEW part \in DOMAIN Requests,
           NEW q \in Requests[part], NEW token, Receive(a, part, q, token)
    PROVE  ServedInv' /\ KeyInv' /\ Aside /\ listening
<1> DEFINE r == [Unsent EXCEPT !.at = "locking", !.route = q.route, !.key = q.key,
                               !.body = q.body, !.token = token]
<1>1. /\ listening /\ At(a) = "unsent" /\ UNCHANGED <<now, lock>> /\ Aside
  BY DEF Receive, Aside, keyVars, accountVars
<1>2. /\ DOMAIN r = Fields /\ r.at = "locking" /\ r.key = q.key /\ r.mode = "none"
      /\ r.took = FALSE /\ r.released = FALSE
  BY DEF Unsent, Fields
<1>3. \/ Becomes(a, Answered(r, 429, TRUE))
      \/ r.key # Nobody /\ Becomes(a, r)
      \/ Becomes(a, Entered(r, TRUE))
  BY DEF Receive
<1>4. Alive /\ UNCHANGED main /\ ~attempts[a].released
  BY <1>1 DEF Aside, startVars, KeyInv, RecordOK, At
<1>5. q.key \in Key \cup {Nobody}
  BY RequestsAreValid
<1>6. now' = now /\ lock' \in [Key -> Nat] /\ \A k \in Key : lock'[k] >= lock[k]
  BY <1>1 DEF KeyInv
<1> HIDE DEF r
<1>7. ASSUME NEW s, Becomes(a, s), DOMAIN s = Fields, s.at \in InFlight \cup {"answered"},
             s.mode # "locked", ~s.released, s.at = "locking" => s.key \in Key /\ ~s.took
      PROVE  ServedInv' /\ KeyInv'
  BY <1>4, <1>6, <1>7, ServedBecomes, KeyBecomes
<1>8. ASSUME Becomes(a, Answered(r, 429, TRUE)) PROVE ServedInv' /\ KeyInv'
  <2> DEFINE s == Answered(r, 429, TRUE)
  <2>1. DOMAIN s = Fields /\ s.at = "answered" /\ s.mode = "none" /\ ~s.released
    BY <1>2 DEF Answered, Fields
  <2> HIDE DEF s
  <2> QED
    BY <1>7, <1>8, <2>1 DEF s
<1>9. ASSUME Becomes(a, Entered(r, TRUE)) PROVE ServedInv' /\ KeyInv'
  <2> DEFINE s == Entered(r, TRUE)
  <2>1. /\ DOMAIN s = Fields /\ s.at \in {"handling", "answered"} /\ s.mode = "none" /\ ~s.released
    BY <1>2, EnteredFields
  <2> HIDE DEF s
  <2> QED
    BY <1>7, <1>9, <2>1 DEF s, InFlight
<1>10. ASSUME r.key # Nobody, Becomes(a, r) PROVE ServedInv' /\ KeyInv'
  BY <1>2, <1>5, <1>7, <1>10 DEF InFlight
<1> QED
  BY <1>1, <1>3, <1>8, <1>9, <1>10

LEMMA StepBypass ==
    ASSUME ServedInv, KeyInv, NEW a \in Attempt, Bypass(a)
    PROVE  ServedInv' /\ KeyInv' /\ Aside
<1> DEFINE r == [attempts[a] EXCEPT !.mode = "bypassed"]
           s == Entered(r, TRUE)
<1>1. Alive /\ At(a) = "locking" /\ Becomes(a, s) /\ UNCHANGED <<now, lock>> /\ Aside
  BY DEF Bypass, Aside
<1>2. ~attempts[a].released
  BY <1>1 DEF KeyInv, RecordOK, InFlight, At
<1>3. DOMAIN r = Fields /\ r.mode = "bypassed" /\ ~r.released
  BY <1>2 DEF ServedInv, Fields
<1> HIDE DEF r
<1>4. /\ DOMAIN s = Fields /\ s.at \in {"handling", "answered"} /\ s.mode = "bypassed"
      /\ ~s.released
  BY <1>3, EnteredFields
<1> HIDE DEF s
<1>5. now' = now /\ lock' \in [Key -> Nat] /\ \A k \in Key : lock'[k] >= lock[k]
  BY <1>1 DEF KeyInv
<1>6. UNCHANGED main
  BY <1>1 DEF Aside, startVars
<1> QED
  BY <1>1, <1>2, <1>4, <1>5, <1>6, ServedBecomes, KeyBecomes DEF InFlight

\* A request that has just taken its key: whoever held it before held one that has run
\* out, or that was given back.
LEMMA KeyTaken ==
    ASSUME ServedInv, KeyInv, NEW a \in Attempt, NEW s, Becomes(a, s), At(a) = "locking",
           ~Locked(attempts[a].key), s.at = "handling", ~s.released, s.mode = "locked",
           s.lockedAt = now, s.key = attempts[a].key, UNCHANGED now,
           lock' = [lock EXCEPT ![attempts[a].key] = now + ttlSeconds]
    PROVE  KeyInv'
<1> DEFINE k == attempts[a].key
<1>1. /\ attempts'[a] = s /\ \A b \in Attempt \ {a} : attempts'[b] = attempts[b]
      /\ dels' = dels
  BY Became
<1>2. /\ ~attempts[a].released /\ attempts[a].mode # "locked" /\ k \in Key /\ now \in Nat
      /\ ttlSeconds \in Nat
  BY RequestsAreValid DEF KeyInv, RecordOK, InFlight, At
<1>3. /\ lock' \in [Key -> Nat] /\ lock'[k] = now + ttlSeconds
      /\ \A l \in Key \ {k} : lock'[l] = lock[l]
      /\ lock[k] \in Nat /\ lock[k] <= now /\ k' = k
  BY <1>1, <1>2 DEF KeyInv, Locked
<1> HIDE DEF k
<1>4. \A b \in Attempt : RecordOK(b)'
  BY <1>1, <1>2 DEF KeyInv, RecordOK, InFlight, k
<1>5. \A b \in dels' : b \in Attempt /\ attempts'[b].released
  BY <1>1, <1>2 DEF KeyInv
<1>6. ASSUME NEW c \in Attempt, NEW l, Gave(c, l)
      PROVE  c # a /\ Gave(c, l)' /\ attempts'[c] = attempts[c]
  BY <1>1, <1>2, <1>6 DEF Gave
<1>7. ASSUME NEW b \in Attempt, b # a, Holder(b)'
      PROVE  /\ Holder(b) /\ attempts'[b] = attempts[b] /\ Covered(b)
             /\ attempts[b].key \in Key /\ attempts[b].lockedAt \in Nat
             /\ attempts[b].lockedAt <= now
  BY <1>1, <1>7 DEF KeyInv, RecordOK, Holder, At
<1>8. ASSUME NEW b \in Attempt, Holder(b)' PROVE Covered(b)'
  <2>1. CASE b = a
    BY <1>1, <1>2, <1>3, <2>1 DEF Covered, k
  <2>2. CASE b # a /\ \E c \in Attempt : Gave(c, attempts[b].key)
    BY <1>6, <1>7, <1>8, <2>2 DEF Covered
  <2>3. CASE b # a /\ lock[attempts[b].key] >= attempts[b].lockedAt + ttlSeconds
    <3>1. CASE attempts[b].key = k
      BY <1>2, <1>3, <1>7, <1>8, <2>3, <3>1 DEF Covered
    <3>2. CASE attempts[b].key # k
      BY <1>3, <1>7, <1>8, <2>3, <3>2 DEF Covered
    <3> QED
      BY <3>1, <3>2
  <2> QED
    BY <1>7, <1>8, <2>1, <2>2, <2>3 DEF Covered
<1>9. ASSUME NEW b \in Attempt, b # a, Holder(b)', attempts[b].key = k
      PROVE  \/ now >= attempts[b].lockedAt + ttlSeconds
             \/ \E c \in Attempt \ {a} : Gave(c, k)' /\ attempts'[c].lockedAt <= now
  <2>1. CASE lock[k] >= attempts[b].lockedAt + ttlSeconds
    BY <1>2, <1>3, <1>7, <1>9, <2>1
  <2>2. CASE \E c \in Attempt : Gave(c, k)
    <3>1. PICK c \in Attempt : Gave(c, k)
      BY <2>2
    <3>2. attempts[c].lockedAt <= now
      BY <3>1 DEF KeyInv, RecordOK, Gave
    <3> QED
      BY <1>3, <1>6, <3>1, <3>2
  <2> QED
    BY <1>7, <1>9, <2>1, <2>2 DEF Covered
<1>10. ASSUME NEW b \in Attempt, NEW d \in Attempt, b # d, Holder(b)', Holder(d)',
              attempts'[b].key = attempts'[d].key,
              attempts'[b].lockedAt <= attempts'[d].lockedAt
       PROVE  Apart(b, d)'
  <2>1. CASE b # a /\ d # a
    <3>1. Apart(b, d)
      BY <1>7, <1>10, <2>1 DEF KeyInv
    <3>2. attempts'[b] = attempts[b] /\ attempts'[d] = attempts[d]
      BY <1>1, <2>1
    <3> QED
      BY <1>6, <3>1, <3>2 DEF Apart
  <2>2. CASE d = a
    <3>1. attempts'[b] = attempts[b] /\ attempts[b].key = k /\ attempts'[d].lockedAt = now
      BY <1>1, <1>10, <2>2 DEF k
    <3>2. CASE now >= attempts[b].lockedAt + ttlSeconds
      BY <3>1, <3>2 DEF Apart
    <3>3. CASE \E c \in Attempt \ {a} : Gave(c, k)' /\ attempts'[c].lockedAt <= now
      BY <1>3, <2>2, <3>1, <3>3 DEF Apart
    <3> QED
      BY <1>9, <1>10, <2>2, <3>1, <3>2, <3>3
  <2>3. CASE b = a
    <3>1. /\ attempts'[d] = attempts[d] /\ attempts[d].key = k /\ attempts'[b].lockedAt = now
          /\ attempts'[b].key = k
      BY <1>1, <1>10, <2>3 DEF k
    <3>2. attempts[d].lockedAt = now
      BY <1>2, <1>7, <1>10, <2>3, <3>1
    <3>3. CASE now >= attempts[d].lockedAt + ttlSeconds
      BY <3>1, <3>2, <3>3 DEF Apart
    <3>4. CASE \E c \in Attempt \ {a} : Gave(c, k)' /\ attempts'[c].lockedAt <= now
      BY <1>3, <3>1, <3>2, <3>4 DEF Apart
    <3> QED
      BY <1>9, <1>10, <2>3, <3>1, <3>3, <3>4
  <2> QED
    BY <2>1, <2>2, <2>3
<1>11. now' \in Nat
  BY <1>2
<1> QED
  BY <1>3, <1>4, <1>5, <1>8, <1>10, <1>11 DEF KeyInv

LEMMA StepSetApplies ==
    ASSUME ServedInv, KeyInv, NEW a \in Attempt, NEW heard, SetApplies(a, heard)
    PROVE  ServedInv' /\ KeyInv' /\ Aside
<1> DEFINE r == attempts[a]
           taken == ~Locked(r.key)
           held == [r EXCEPT !.mode = "locked", !.lockedAt = now]
<1>1. /\ lock' = IF taken THEN [lock EXCEPT ![r.key] = now + ttlSeconds] ELSE lock
      /\ now' = now /\ Aside
  BY DEF SetApplies, Aside
<1>2. now \in Nat /\ ttlSeconds \in Nat /\ UNCHANGED main
  BY <1>1, RequestsAreValid DEF KeyInv, Aside, startVars
<1>3. lock' \in [Key -> Nat] /\ \A k \in Key : lock'[k] >= lock[k]
  <2>1. CASE ~taken
    <3>1. lock' = lock
      BY <1>1, <2>1
    <3> QED
      BY <3>1 DEF KeyInv
  <2>2. CASE taken
    <3>1. lock' = [lock EXCEPT ![r.key] = now + ttlSeconds]
      BY <1>1, <2>2
    <3>2. ASSUME NEW k \in Key PROVE lock'[k] >= lock[k]
      <4>1. lock[k] \in Nat
        BY DEF KeyInv
      <4>2. CASE k = r.key
        <5>1. lock[k] <= now
          BY <1>2, <2>2, <4>1, <4>2 DEF Locked
        <5>2. lock'[k] = now + ttlSeconds
          BY <3>1, <4>2 DEF KeyInv
        <5> QED
          BY <1>2, <4>1, <5>1, <5>2
      <4>3. CASE k # r.key
        <5>1. lock'[k] = lock[k]
          BY <3>1, <4>3 DEF KeyInv
        <5> QED
          BY <4>1, <5>1
      <4> QED
        BY <4>2, <4>3
    <3>3. lock' \in [Key -> Nat]
      <4> DEFINE k == r.key
                 until == now + ttlSeconds
      <4>1. until \in Nat /\ lock \in [Key -> Nat] /\ lock' = [lock EXCEPT ![k] = until]
        BY <1>2, <3>1 DEF KeyInv
      <4> HIDE DEF k, until
      <4> QED
        BY <4>1
    <3> QED
      BY <3>2, <3>3
  <2> QED
    BY <2>1, <2>2
<1>4. CASE ~(Alive /\ r.at = "locking")
  <2>1. UNCHANGED <<attempts, running, dels>>
    BY <1>4 DEF SetApplies
  <2>2. ServedInv'
    BY <1>2, <2>1 DEF ServedInv, At, Alive
  <2>3. \A b \in Attempt : RecordOK(b)'
    BY <1>1, <2>1 DEF KeyInv, RecordOK
  <2>4. KeyInv'
    BY <1>1, <1>2, <1>3, <2>1, <2>3, KeyFrame DEF KeyInv, Holder, At
  <2> QED
    BY <1>1, <2>2, <2>4
<1>5. CASE Alive /\ r.at = "locking"
  <2>1. /\ ~r.released /\ ~r.took /\ r.key \in Key
        /\ DOMAIN r = Fields
    BY <1>5 DEF KeyInv, RecordOK, InFlight, ServedInv
  <2>2. /\ DOMAIN held = Fields /\ held.mode = "locked" /\ held.lockedAt = now
        /\ held.key = r.key /\ ~held.released /\ ~held.took
    BY <2>1 DEF Fields
  <2>4. CASE ~taken
    <3> DEFINE s == Answered(r, 409, heard)
    <3>1. Becomes(a, s)
      BY <1>5, <2>4 DEF SetApplies
    <3>2. r.mode # "locked"
      BY <1>5 DEF KeyInv, RecordOK
    <3> HIDE DEF r
    <3>3. DOMAIN s = Fields /\ s.at = "answered" /\ s.mode = r.mode /\ ~s.released
      BY <2>1, <3>2 DEF Answered, Fields
    <3> HIDE DEF s
    <3> USE DEF r
    <3> QED
      BY <1>1, <1>2, <1>3, <1>5, <2>1, <3>1, <3>2, <3>3, ServedBecomes, KeyBecomes DEF InFlight
  <2>5. CASE taken
    <3> DEFINE s == Entered(held, heard)
    <3>1. Becomes(a, s)
      BY <1>5, <2>5 DEF SetApplies
    <3> HIDE DEF held
    <3>2. /\ DOMAIN s = Fields
          /\ s.at \in {"handling", "answered"}
          /\ s.key = r.key /\ s.mode = "locked" /\ s.lockedAt = now /\ ~s.took
          /\ s.released => s.at = "answered" /\ s.status >= 500
      BY <2>2, EnteredFields
    <3> HIDE DEF s
    <3>3. ServedInv'
      BY <1>2, <1>5, <3>1, <3>2, ServedBecomes DEF InFlight
    <3>4. CASE s.at = "answered"
      <4>1. KeyInv'
        BY <1>1, <1>2, <1>3, <2>1, <3>1, <3>2, <3>4, KeyBecomes DEF InFlight
      <4> QED
        BY <1>1, <3>3, <4>1
    <3>5. CASE s.at = "handling"
      <4>1. ~s.released
        BY <3>2, <3>5
      <4>2. KeyInv'
        BY <1>1, <1>5, <2>5, <3>1, <3>2, <3>5, <4>1, KeyTaken DEF At
      <4> QED
        BY <1>1, <3>3, <4>2
    <3> QED
      BY <3>2, <3>4, <3>5
  <2> QED
    BY <2>4, <2>5
<1> QED
  BY <1>4, <1>5

LEMMA StepDelApplies ==
    ASSUME ServedInv, KeyInv, NEW a \in Attempt, DelApplies(a)
    PROVE  ServedInv' /\ KeyInv' /\ Aside /\ UNCHANGED running
<1>1. /\ UNCHANGED <<attempts, running, now>> /\ Aside /\ UNCHANGED main
      /\ a \in dels /\ dels' = dels \ {a} /\ lock' = [lock EXCEPT ![attempts[a].key] = 0]
  BY DEF DelApplies, Aside, processVars, startVars
<1>2. ServedInv'
  BY <1>1 DEF ServedInv, At, Alive
<1>3. Gave(a, attempts[a].key)
  BY <1>1 DEF KeyInv, RecordOK, Gave
<1>4. /\ lock' \in [Key -> Nat]
      /\ \A k \in Key : lock'[k] >= lock[k] \/ \E c \in Attempt : Gave(c, k)
  <2>1. a \in Attempt /\ lock \in [Key -> Nat]
    BY DEF KeyInv
  <2>2. ASSUME NEW k \in Key, k # attempts[a].key PROVE lock'[k] = lock[k] /\ lock[k] \in Nat
    BY <1>1, <2>1, <2>2
  <2>3. lock' \in [Key -> Nat]
    BY <1>1, <2>1
  <2> QED
    BY <1>3, <2>1, <2>2, <2>3
<1>5. \A b \in Attempt : RecordOK(b)'
  BY <1>1 DEF KeyInv, RecordOK
<1>6. KeyInv'
  BY <1>1, <1>4, <1>5, KeyFrame DEF KeyInv, Holder, At
<1> QED
  BY <1>1, <1>2, <1>6

LEMMA StepCommandLost ==
    ASSUME ServedInv, KeyInv, NEW a \in Attempt, CommandLost(a)
    PROVE  ServedInv' /\ KeyInv' /\ Aside /\ UNCHANGED running
<1>1. /\ UNCHANGED <<attempts, running, now, lock>> /\ Aside /\ UNCHANGED main
      /\ dels' = dels \ {a}
  BY DEF CommandLost, Aside, processVars, startVars
<1>2. ServedInv'
  BY <1>1 DEF ServedInv, At, Alive
<1>3. \A b \in Attempt : RecordOK(b)'
  BY <1>1 DEF KeyInv, RecordOK
<1>4. KeyInv'
  BY <1>1, <1>3, KeyFrame DEF KeyInv, Holder, At
<1> QED
  BY <1>1, <1>2, <1>4

\* What a request does: it leaves the process where it is, and is served only if it came
\* while the process listened.
LEMMA RequestStep ==
    ASSUME ServedInv, KeyInv, listening => Alive, NEW a \in Attempt, RequestNext(a)
    PROVE  ServedInv' /\ KeyInv' /\ Aside
<1>1. CASE \E part \in {p \in DOMAIN Requests : left[p] > 0} : \E q \in Requests[part] :
              \E token \in TokensOf(q.type) : Receive(a, part, q, token)
  BY <1>1, StepReceive
<1>2. CASE \E heard \in Hearing(a) : SetApplies(a, heard)
  BY <1>2, StepSetApplies
<1>3. CASE HandlerNext(a)
  <2>1. PICK r : GoesOn(a, r)
    BY <1>3, HandlersGoOn, KeyInvUnreleased
  <2>2. ServedInv'
    BY <2>1, ServedBecomes DEF GoesOn, startVars, InFlight
  <2>3. KeyInv'
    BY <2>1, KeyGoesOn
  <2> QED
    BY <2>1, <2>2, <2>3 DEF GoesOn, Aside
<1> QED
  BY <1>1, <1>2, <1>3, StepBypass, StepDelApplies, StepCommandLost DEF RequestNext, HandlerNext

\* Only a request that comes in adds to what is served.
LEMMA RequestServes ==
    ASSUME ServedInv, KeyInv, NEW a \in Attempt, RequestNext(a)
    PROVE  listening \/ running' \subseteq running
<1>1. ASSUME NEW r, Becomes(a, r), At(a) \in InFlight PROVE running' \subseteq running
  BY <1>1, Became DEF ServedInv
<1>2. CASE HandlerNext(a)
  <2>1. PICK r : GoesOn(a, r)
    BY <1>2, HandlersGoOn, KeyInvUnreleased
  <2> QED
    BY <1>1, <2>1 DEF GoesOn, InFlight
<1>3. CASE \E heard \in Hearing(a) : SetApplies(a, heard)
  <2>1. PICK heard \in Hearing(a) : SetApplies(a, heard)
    BY <1>3
  <2>2. UNCHANGED running \/ (At(a) = "locking" /\ \E r : Becomes(a, r))
    BY <2>1 DEF SetApplies, At
  <2> QED
    BY <1>1, <2>2 DEF InFlight
<1>4. CASE Bypass(a)
  BY <1>1, <1>4 DEF Bypass, InFlight
<1>5. CASE DelApplies(a) \/ CommandLost(a)
  BY <1>5, StepDelApplies, StepCommandLost
<1> QED
  BY <1>2, <1>3, <1>4, <1>5 DEF RequestNext, HandlerNext, Receive

-------------------------------------------------------------------------------
(* The process and the clock *)

\* What the process was serving when it ends is cut, and nothing else changes.
LEMMA ProcessKeeps ==
    ASSUME ServedInv, KeyInv, ProcessStep
    PROVE  ServedInv' /\ KeyInv'
<1>1. /\ ProcessNext
      /\ attempts' = [a \in Attempt |->
                        IF Alive' THEN attempts[a]
                        ELSE IF a \in running THEN [attempts[a] EXCEPT !.at = "cut"]
                             ELSE attempts[a]]
      /\ UNCHANGED <<now, lock, dels>>
  BY DEF ProcessStep, keyVars
<1>2. \A a \in Attempt :
         attempts'[a] = IF Alive' THEN attempts[a]
                        ELSE IF a \in running THEN [attempts[a] EXCEPT !.at = "cut"]
                             ELSE attempts[a]
  BY <1>1
<1>3. \A a \in Attempt :
         /\ DOMAIN attempts'[a] = Fields
         /\ attempts'[a].at = IF ~Alive' /\ a \in running THEN "cut" ELSE attempts[a].at
         /\ attempts'[a].key = attempts[a].key /\ attempts'[a].mode = attempts[a].mode
         /\ attempts'[a].lockedAt = attempts[a].lockedAt /\ attempts'[a].took = attempts[a].took
         /\ attempts'[a].released = attempts[a].released
         /\ attempts'[a].status = attempts[a].status
  BY <1>2 DEF ServedInv, Fields
<1>4. ServedInv'
  <2>1. ASSUME NEW a \in Attempt, At(a)' \in InFlight PROVE (Alive /\ a \in running)'
    <3>1. At(a) \in InFlight /\ (Alive' \/ a \notin running)
      BY <1>3, <2>1 DEF At, InFlight
    <3>2. Alive /\ a \in running
      BY <3>1 DEF ServedInv
    <3>3. UNCHANGED running
      BY <1>1, <3>2, ProcessServes
    <3> QED
      BY <3>1, <3>2, <3>3
  <2> QED
    BY <1>1, <1>3, <2>1 DEF ServedInv
<1>5. \A a \in Attempt : RecordOK(a)'
  BY <1>1, <1>3 DEF KeyInv, RecordOK, InFlight
<1>6. \A a \in Attempt : Holder(a)' => Holder(a)
  BY <1>3 DEF Holder, At
<1>7. KeyInv'
  BY <1>1, <1>3, <1>5, <1>6, KeyFrame DEF KeyInv
<1> QED
  BY <1>4, <1>7

LEMMA KeyTick ==
    ASSUME ServedInv, KeyInv, Tick
    PROVE  ServedInv' /\ KeyInv' /\ Aside /\ UNCHANGED running
<1>1. /\ UNCHANGED <<attempts, running, lock, dels, main>> /\ Aside /\ now' = now + 1
  BY DEF Tick, keyVars, Aside, startVars
<1>2. ServedInv'
  BY <1>1 DEF ServedInv, At, Alive
<1>3. \A a \in Attempt : RecordOK(a)'
  BY <1>1 DEF KeyInv, RecordOK
<1>4. KeyInv'
  BY <1>1, <1>3, KeyFrame DEF KeyInv, Holder, At
<1> QED
  BY <1>1, <1>2, <1>4

-------------------------------------------------------------------------------
(* The theorems *)

Inv == ServedInv /\ KeyInv /\ EndInv

LEMMA EndRequest ==
    ASSUME Inv, NEW a \in Attempt, RequestNext(a)
    PROVE  EndInv'
<1>1. Aside /\ ServedInv'
  BY RequestStep DEF Inv, EndInv, Alive
<1>2. listening \/ running' \subseteq running
  BY RequestServes DEF Inv
<1> QED
  BY <1>1, <1>2 DEF Inv, EndInv, Aside, startVars, stopVars, CutOnlyByTimer, Before, Open, Alive

LEMMA InvStep == ASSUME Inv, [GatewayNext]_vars PROVE Inv'
<1>1. CASE UNCHANGED vars
  <2>1. UNCHANGED <<processVars, now, attempts, lock, dels>>
    BY <1>1 DEF vars, gatewayVars, keyVars
  <2>2. ServedInv'
    BY <2>1 DEF Inv, ServedInv, At, Alive, processVars, startVars
  <2>3. \A a \in Attempt : RecordOK(a)'
    BY <2>1 DEF Inv, KeyInv, RecordOK
  <2>4. KeyInv'
    BY <2>1, <2>3, KeyFrame DEF Inv, KeyInv, Holder, At
  <2>5. EndInv'
    BY <2>1 DEF Inv, EndInv, processVars, startVars, stopVars, CutOnlyByTimer, Alive
  <2> QED
    BY <2>2, <2>4, <2>5 DEF Inv
<1>2. CASE ProcessStep
  BY <1>2, ProcessKeeps, EndStep DEF Inv, ProcessStep
<1>3. CASE Tick
  <2>1. ServedInv' /\ KeyInv' /\ Aside /\ UNCHANGED running
    BY <1>3, KeyTick DEF Inv
  <2> QED
    BY <2>1 DEF Inv, EndInv, Aside, startVars, stopVars, CutOnlyByTimer, Alive
<1>4. CASE \E a \in Attempt : RequestNext(a)
  BY <1>4, RequestStep, EndRequest DEF Inv, EndInv, Alive
<1> QED
  BY <1>1, <1>2, <1>3, <1>4 DEF GatewayNext

LEMMA InvInit == GatewayInit => Inv
<1> SUFFICES ASSUME GatewayInit PROVE Inv
  OBVIOUS
<1>1. /\ attempts = [a \in Attempt |-> Unsent] /\ now = 0 /\ lock = [k \in Key |-> 0]
      /\ dels = {} /\ ProcessInit
  BY DEF GatewayInit
<1>2. /\ DOMAIN Unsent = Fields /\ Unsent.at = "unsent" /\ Unsent.mode = "none"
      /\ Unsent.released = FALSE /\ Unsent.took = FALSE
  BY DEF Unsent, Fields
<1>3. \A a \in Attempt : attempts[a] = Unsent
  BY <1>1
<1>4. ServedInv
  BY <1>1, <1>2, <1>3 DEF ServedInv, At, InFlight
<1>5. \A a \in Attempt : RecordOK(a) /\ ~Holder(a)
  BY <1>2, <1>3 DEF RecordOK, Holder, At
<1>6. KeyInv
  BY <1>1, <1>5 DEF KeyInv
<1>7. EndInv
  BY <1>1 DEF ProcessInit, EndInv, Before, Open, CutOnlyByTimer, Alive
<1> QED
  BY <1>4, <1>6, <1>7 DEF Inv

\* A process that exits in its own time has answered every request it took, unless it began
\* to listen when it had been told to stop (gracefulShutdown, startServer).
THEOREM CutAlwaysByTimer == Spec => []CutOnlyByTimer
<1>1. Inv => CutOnlyByTimer
  BY DEF Inv, EndInv
<1> QED
  BY <1>1, InvInit, InvStep, PTL DEF Spec

\* Two requests under one idempotency key both have an effect only if the key ran out
\* between them or was given back by an answer of 5xx (idempotency, runRedisCommand).
THEOREM NeverSecondEffect == Spec => []NoSecondEffect
<1>1. Inv => NoSecondEffect
  BY KeyInvAnswers DEF Inv
<1> QED
  BY <1>1, InvInit, InvStep, PTL DEF Spec

-------------------------------------------------------------------------------
(* The routers *)

\* What routes and guards are called.
Word == {
    "USER", "add", "addAddress", "admin", "api", "approveUser", "auth", "authenticate",
    "authenticateOnboarding", "authenticateResetPassword", "brands", "broadcast",
    "cart", "categories", "changePassword", "checkout", "clear", "completeProfile",
    "confirm", "confirmReceived", "contact", "create", "customer", "dashboard",
    "declineUser", "deleteInvoice", "deleteMe", "delivery", "dev", "forgotPassword",
    "form", "getById", "getBySlug", "getDelivery", "getMailbox", "getMe", "getOne",
    "getOtp", "getPublic", "getStats", "health", "list", "listAll", "listByProduct",
    "listContacts", "listIds", "listMine", "listUsers", "login", "logout",
    "managedelivery", "markAllRead", "markRead", "me", "notifications", "orders",
    "products", "refreshTokens", "register", "remove", "removeAddress", "resendOtp",
    "resetPassword", "reviews", "sendEmail", "setDefaultAddress", "settings",
    "subscribers", "superAdmin", "testBroadcastPush", "unreadCount", "update",
    "updateAddress", "updateDelivery", "updateMe", "updateQty", "updateStatus",
    "upload", "uploadInvoice", "upsert", "users", "validate", "verifyEmail",
    "verifyResetCode", "vivaWebhook", "wishlist"}

Route == [op : Seq(Word), write : BOOLEAN, guards : Seq(Word)]

\* The guards that take another token than an access token.
Special == {"authenticateOnboarding", "authenticateResetPassword"}

PlainGuards(gs) == gs \in Seq(Word) /\ \A i \in DOMAIN gs : gs[i] \notin Special
PlainRoutes(rs) == \A r \in rs : r \in Route /\ PlainGuards(r.guards)

\* How routers are put together.
LEMMA PlainLeaves ==
    ASSUME NEW ops, ops \subseteq Word
    PROVE  PlainRoutes(Reads(ops)) /\ PlainRoutes(Writes(ops))
<1>1. ASSUME NEW o \in Word, NEW w \in BOOLEAN,
             NEW r, r = [op |-> <<o>>, write |-> w, guards |-> <<>>]
      PROVE  r \in Route /\ PlainGuards(r.guards)
  <2>1. <<o>> \in Seq(Word) /\ <<>> \in Seq(Word)
    OBVIOUS
  <2>2. PlainGuards(<<>>)
    BY DEF PlainGuards
  <2> QED
    BY <1>1, <2>1, <2>2 DEF Route
<1> QED
  BY <1>1 DEF Reads, Writes, PlainRoutes

LEMMA PlainUnion ==
    ASSUME NEW rs, NEW ss, PlainRoutes(rs), PlainRoutes(ss)
    PROVE  PlainRoutes(rs \cup ss)
BY DEF PlainRoutes

LEMMA BehindIs ==
    ASSUME NEW gs, NEW rs, NEW r \in Behind(gs, rs), rs \subseteq Route
    PROVE  \E q \in rs : r.op = q.op /\ r.write = q.write /\ r.guards = gs \o q.guards
                         /\ r = [op |-> q.op, write |-> q.write, guards |-> gs \o q.guards]
<1>1. PICK q \in rs : r = [q EXCEPT !.guards = gs \o @]
  BY DEF Behind
<1>2. q \in Route
  OBVIOUS
<1> QED
  BY <1>1, <1>2 DEF Route

LEMMA MountedIs ==
    ASSUME NEW path \in Word, NEW rs, NEW r \in Mounted(path, rs), rs \subseteq Route
    PROVE  \E q \in rs : r.op = <<path>> \o q.op /\ r.write = q.write /\ r.guards = q.guards
                         /\ r = [op |-> <<path>> \o q.op, write |-> q.write, guards |-> q.guards]
<1>1. PICK q \in rs : r = [q EXCEPT !.op = <<path>> \o @]
  BY DEF Mounted
<1>2. q \in Route
  OBVIOUS
<1> QED
  BY <1>1, <1>2 DEF Route

LEMMA PlainBehind ==
    ASSUME NEW gs, NEW rs, PlainGuards(gs), PlainRoutes(rs)
    PROVE  PlainRoutes(Behind(gs, rs))
<1> SUFFICES ASSUME NEW r \in Behind(gs, rs) PROVE r \in Route /\ PlainGuards(r.guards)
  BY DEF PlainRoutes
<1>1. rs \subseteq Route
  BY DEF PlainRoutes
<1>2. PICK q \in rs : /\ r = [op |-> q.op, write |-> q.write, guards |-> gs \o q.guards]
                      /\ r.guards = gs \o q.guards
  BY <1>1, BehindIs
<1>3. q \in Route /\ PlainGuards(q.guards)
  BY DEF PlainRoutes
<1>4. PlainGuards(gs \o q.guards)
  <2>1. gs \in Seq(Word) /\ q.guards \in Seq(Word)
    BY <1>3 DEF PlainGuards
  <2>2. /\ gs \o q.guards \in Seq(Word) /\ Len(gs \o q.guards) = Len(gs) + Len(q.guards)
        /\ \A i \in 1..(Len(gs) + Len(q.guards)) :
              (gs \o q.guards)[i] = IF i <= Len(gs) THEN gs[i] ELSE q.guards[i - Len(gs)]
    BY <2>1, ConcatProperties
  <2>3. ASSUME NEW i \in DOMAIN (gs \o q.guards) PROVE (gs \o q.guards)[i] \notin Special
    <3>1. i \in 1..(Len(gs) + Len(q.guards)) /\ Len(gs) \in Nat /\ Len(q.guards) \in Nat
      BY <2>1, <2>2
    <3>2. CASE i <= Len(gs)
      BY <2>1, <2>2, <3>1, <3>2 DEF PlainGuards
    <3>3. CASE ~(i <= Len(gs))
      <4>1. i - Len(gs) \in 1..Len(q.guards)
        BY <3>1, <3>3
      <4>2. (gs \o q.guards)[i] = q.guards[i - Len(gs)]
        BY <2>2, <3>1, <3>3
      <4> QED
        BY <1>3, <2>1, <4>1, <4>2 DEF PlainGuards
    <3> QED
      BY <3>2, <3>3
  <2> QED
    BY <2>2, <2>3 DEF PlainGuards
<1> QED
  BY <1>2, <1>3, <1>4 DEF Route, PlainGuards

LEMMA PlainMounted ==
    ASSUME NEW path \in Word, NEW rs, PlainRoutes(rs)
    PROVE  PlainRoutes(Mounted(path, rs))
<1> SUFFICES ASSUME NEW r \in Mounted(path, rs) PROVE r \in Route /\ PlainGuards(r.guards)
  BY DEF PlainRoutes
<1>1. rs \subseteq Route
  BY DEF PlainRoutes
<1>2. PICK q \in rs : /\ r = [op |-> <<path>> \o q.op, write |-> q.write, guards |-> q.guards]
                      /\ r.guards = q.guards
  BY <1>1, MountedIs
<1>3. q \in Route /\ PlainGuards(q.guards)
  BY DEF PlainRoutes
<1>4. <<path>> \o q.op \in Seq(Word)
  BY <1>3, ConcatProperties DEF Route
<1> QED
  BY <1>2, <1>3, <1>4 DEF Route

LEMMA FirstOf ==
    ASSUME NEW path, NEW rs, NEW r \in Mounted(path, rs), rs \subseteq Route, path \in Word
    PROVE  r.op[1] = path
<1>1. PICK q \in rs : r.op = <<path>> \o q.op
  BY MountedIs
<1>2. <<path>> \in Seq(Word) /\ q.op \in Seq(Word) /\ Len(<<path>>) = 1 /\ <<path>>[1] = path
  BY DEF Route
<1>3. 1 \in 1..(Len(<<path>>) + Len(q.op))
  BY <1>2
<1> QED
  BY <1>1, <1>2, <1>3, ConcatProperties

\* The first guards of a router stand before those of its routes.
LEMMA FirstGuards ==
    ASSUME NEW gs \in Seq(Word), Len(gs) = 2, NEW rs, NEW r \in Behind(gs, rs), rs \subseteq Route
    PROVE  /\ 1 \in DOMAIN r.guards /\ r.guards[1] = gs[1]
           /\ 2 \in DOMAIN r.guards /\ r.guards[2] = gs[2]
<1>1. PICK q \in rs : r.guards = gs \o q.guards
  BY BehindIs
<1>2. q.guards \in Seq(Word) /\ Len(q.guards) \in Nat
  BY DEF Route
<1>3. /\ gs \o q.guards \in Seq(Word) /\ Len(gs \o q.guards) = Len(gs) + Len(q.guards)
      /\ \A i \in 1..(Len(gs) + Len(q.guards)) :
            (gs \o q.guards)[i] = IF i <= Len(gs) THEN gs[i] ELSE q.guards[i - Len(gs)]
  BY <1>2, ConcatProperties
<1>4. 1 \in 1..(2 + Len(q.guards)) /\ 2 \in 1..(2 + Len(q.guards))
  BY <1>2
<1> QED
  BY <1>1, <1>2, <1>3, <1>4

LEMMA TwoSteps ==
    ASSUME NEW g, NEW h
    PROVE  <<g>> \o <<h>> = <<g, h>>
<1>1. <<g>> \in Seq({g, h}) /\ <<h>> \in Seq({g, h}) /\ <<g, h>> \in Seq({g, h})
  OBVIOUS
<1>2. /\ Len(<<g>>) = 1 /\ Len(<<h>>) = 1 /\ Len(<<g, h>>) = 2
      /\ <<g>>[1] = g /\ <<h>>[1] = h /\ <<g, h>>[1] = g /\ <<g, h>>[2] = h
  OBVIOUS
<1> DEFINE s == <<g>>
           t == <<h>>
           u == <<g, h>>
<1> HIDE DEF s, t, u
<1>3. /\ s \o t \in Seq({g, h}) /\ Len(s \o t) = 2
      /\ \A i \in 1..2 : (s \o t)[i] = IF i <= 1 THEN s[i] ELSE t[i - 1]
  BY <1>1, <1>2, ConcatProperties DEF s, t
<1>4. (s \o t)[1] = g /\ (s \o t)[2] = h
  BY <1>2, <1>3 DEF s, t
<1>5. \A i \in 1..2 : i = 1 \/ i = 2
  OBVIOUS
<1>6. s \o t = u
  BY <1>1, <1>2, <1>3, <1>4, <1>5, SeqEqual DEF u
<1> QED
  BY <1>6 DEF s, t, u

\* A router of one writing operation behind its guards.
LEMMA OneRoute ==
    ASSUME NEW path \in Word, NEW gs \in Seq(Word), NEW o \in Word,
           NEW r \in Mounted(path, Behind(gs, Writes({o})))
    PROVE  r.op = <<path, o>> /\ r \in Route /\ r.guards = gs
<1> DEFINE ws == Writes({o})
<1>1. ws \subseteq Route
  <2>1. {o} \subseteq Word
    OBVIOUS
  <2> QED
    BY <2>1, PlainLeaves DEF PlainRoutes
<1>2. \A q \in ws : q.op = <<o>> /\ q.guards = <<>>
  BY DEF Writes
<1> HIDE DEF ws
<1> DEFINE behind == Behind(gs, ws)
<1>3. ASSUME NEW p \in behind
      PROVE  p \in Route /\ p.op = <<o>> /\ p.guards = gs
  <2>1. PICK q \in ws : /\ p.op = q.op
                        /\ p = [op |-> q.op, write |-> q.write, guards |-> gs \o q.guards]
    BY <1>1, BehindIs
  <2>2. gs \o <<>> = gs /\ <<o>> \in Seq(Word) /\ q.write \in BOOLEAN
    BY <1>1 DEF Route
  <2>3. p = [op |-> <<o>>, write |-> q.write, guards |-> gs]
    BY <1>2, <2>1, <2>2
  <2> QED
    BY <2>2, <2>3 DEF Route
<1>4. r \in Mounted(path, behind) /\ behind \subseteq Route
  BY <1>3 DEF ws
<1> HIDE DEF behind
<1>5. PICK p \in behind : /\ r.op = <<path>> \o p.op /\ r.guards = p.guards
                          /\ r = [op |-> <<path>> \o p.op, write |-> p.write,
                                  guards |-> p.guards]
  BY <1>4, MountedIs
<1>6. r.op = <<path, o>> /\ r.guards = gs
  BY <1>3, <1>5, TwoSteps
<1>7. r \in Route
  <2>1. <<path, o>> \in Seq(Word) /\ p.write \in BOOLEAN
    BY <1>3 DEF Route
  <2>2. r = [op |-> <<path, o>>, write |-> p.write, guards |-> gs]
    BY <1>3, <1>5, TwoSteps
  <2> QED
    BY <2>1, <2>2 DEF Route
<1> QED
  BY <1>6, <1>7

LEMMA PlainLists ==
    /\ PlainGuards(<<"validate">>) /\ PlainGuards(<<"upload", "form", "validate">>)
    /\ PlainGuards(<<"authenticate">>) /\ PlainGuards(<<"superAdmin", "validate">>)
    /\ PlainGuards(<<"authenticate", "customer">>) /\ PlainGuards(<<"validate", "upload">>)
    /\ PlainGuards(<<"authenticate", "USER", "validate">>)
    /\ PlainGuards(<<"authenticate", "admin", "validate">>)
    /\ PlainGuards(<<"authenticate", "superAdmin">>) /\ PlainGuards(<<"authenticate", "upload">>)
<1>1. \A g \in Word \ Special : PlainGuards(<<g>>)
  BY DEF PlainGuards
<1>2. \A g, h \in Word \ Special : PlainGuards(<<g, h>>)
  <2> SUFFICES ASSUME NEW g \in Word \ Special, NEW h \in Word \ Special
               PROVE  PlainGuards(<<g, h>>)
    OBVIOUS
  <2>1. /\ <<g, h>> \in Seq(Word) /\ DOMAIN <<g, h>> = 1..2
        /\ <<g, h>>[1] = g /\ <<g, h>>[2] = h
    OBVIOUS
  <2>2. \A i \in 1..2 : i = 1 \/ i = 2
    OBVIOUS
  <2> QED
    BY <2>1, <2>2 DEF PlainGuards
<1>3. \A g, h, i \in Word \ Special : PlainGuards(<<g, h, i>>)
  <2> SUFFICES ASSUME NEW g \in Word \ Special, NEW h \in Word \ Special,
                      NEW i \in Word \ Special
               PROVE  PlainGuards(<<g, h, i>>)
    OBVIOUS
  <2>1. /\ <<g, h, i>> \in Seq(Word) /\ DOMAIN <<g, h, i>> = 1..3
        /\ <<g, h, i>>[1] = g /\ <<g, h, i>>[2] = h /\ <<g, h, i>>[3] = i
    OBVIOUS
  <2>2. \A k \in 1..3 : k = 1 \/ k = 2 \/ k = 3
    OBVIOUS
  <2> QED
    BY <2>1, <2>2 DEF PlainGuards
<1>4. /\ "validate" \in Word /\ "upload" \in Word /\ "form" \in Word /\ "authenticate" \in Word
      /\ "superAdmin" \in Word /\ "customer" \in Word /\ "USER" \in Word /\ "admin" \in Word
  BY DEF Word
<1>5. /\ "validate" \notin Special /\ "upload" \notin Special /\ "form" \notin Special
      /\ "authenticate" \notin Special /\ "superAdmin" \notin Special
      /\ "customer" \notin Special /\ "USER" \notin Special /\ "admin" \notin Special
  BY DEF Special
<1> QED
  BY <1>1, <1>2, <1>3, <1>4, <1>5

LEMMA PurposeDomain ==
    /\ DOMAIN Purpose = {<<"auth", "resetPassword">>, <<"auth", "completeProfile">>}
    /\ Purpose[<<"auth", "resetPassword">>] = "forgot_pass"
    /\ Purpose[<<"auth", "completeProfile">>] = "onboarding"
<1> DEFINE reset == <<"auth", "resetPassword">>
           complete == <<"auth", "completeProfile">>
<1>1. reset # complete
  <2>1. reset[2] = "resetPassword" /\ complete[2] = "completeProfile"
    OBVIOUS
  <2> QED
    BY <2>1
<1>2. Purpose = [op \in {reset, complete} |-> IF op = reset THEN "forgot_pass" ELSE "onboarding"]
  BY DEF Purpose
<1> HIDE DEF reset, complete
<1>3. /\ DOMAIN Purpose = {reset, complete}
      /\ Purpose[reset] = "forgot_pass" /\ Purpose[complete] = "onboarding"
  BY <1>1, <1>2
<1> QED
  BY <1>3 DEF reset, complete

\* What the routers name.
LEMMA Named ==
    /\ {"upload"} \subseteq Word /\ {"health", "vivaWebhook"} \subseteq Word
    /\ {"vivaWebhook"} \subseteq Word
    /\ {"add", "remove"} \subseteq Word
    /\ {"add", "updateQty", "remove"} \subseteq Word
    /\ {"addAddress", "updateAddress", "setDefaultAddress", "removeAddress"} \subseteq Word
    /\ {"approveUser", "declineUser"} \subseteq Word
    /\ {"broadcast"} \subseteq Word
    /\ {"checkout", "confirm", "confirmReceived"} \subseteq Word
    /\ {"clear"} \subseteq Word
    /\ {"contact"} \subseteq Word
    /\ {"create", "update", "remove"} \subseteq Word
    /\ {"create"} \subseteq Word
    /\ {"deleteMe"} \subseteq Word
    /\ {"getById"} \subseteq Word
    /\ {"getBySlug"} \subseteq Word
    /\ {"getDelivery"} \subseteq Word
    /\ {"getMe"} \subseteq Word
    /\ {"getOne"} \subseteq Word
    /\ {"getOtp", "getMailbox"} \subseteq Word
    /\ {"getPublic"} \subseteq Word
    /\ {"getStats"} \subseteq Word
    /\ {"list", "getById"} \subseteq Word
    /\ {"list", "listContacts"} \subseteq Word
    /\ {"list", "listIds"} \subseteq Word
    /\ {"list"} \subseteq Word
    /\ {"listAll"} \subseteq Word
    /\ {"listByProduct"} \subseteq Word
    /\ {"listMine"} \subseteq Word
    /\ {"listUsers"} \subseteq Word
    /\ {"markAllRead"} \subseteq Word
    /\ {"markRead", "create", "testBroadcastPush", "broadcast"} \subseteq Word
    /\ {"remove"} \subseteq Word
    /\ {"sendEmail"} \subseteq Word
    /\ {"unreadCount"} \subseteq Word
    /\ {"updateDelivery"} \subseteq Word
    /\ {"updateMe"} \subseteq Word
    /\ {"updateStatus", "deleteInvoice"} \subseteq Word
    /\ {"uploadInvoice"} \subseteq Word
    /\ {"upsert"} \subseteq Word
BY DEF Word

\* Every router but the one of the accounts checks access tokens only.
LEMMA PlainRouters ==
    /\ PlainRoutes(userRoutes) /\ PlainRoutes(notificationRoutes) /\ PlainRoutes(cartRoutes)
    /\ PlainRoutes(orderRoutes) /\ PlainRoutes(wishlistRoutes) /\ PlainRoutes(reviewRoutes)
    /\ PlainRoutes(settingsRoutes) /\ PlainRoutes(productRoutes) /\ PlainRoutes(brandRoutes)
    /\ PlainRoutes(categoryRoutes) /\ PlainRoutes(subscriberRoutes)
    /\ PlainRoutes(deliveryRoutes) /\ PlainRoutes(devRoutes) /\ PlainRoutes(uploadRoute)
<1> USE PlainLists, PlainLeaves, PlainBehind, PlainUnion, Named DEF Valid
<1>1. PlainRoutes(userRoutes)
  BY DEF userRoutes
<1>2. PlainRoutes(notificationRoutes)
  BY DEF notificationRoutes
<1>3. PlainRoutes(cartRoutes)
  BY DEF cartRoutes
<1>4. PlainRoutes(orderRoutes)
  BY DEF orderRoutes
<1>5. PlainRoutes(wishlistRoutes)
  BY DEF wishlistRoutes
<1>6. PlainRoutes(reviewRoutes)
  BY DEF reviewRoutes
<1>7. PlainRoutes(settingsRoutes) /\ PlainRoutes(subscriberRoutes)
  BY DEF settingsRoutes, subscriberRoutes
<1>8. PlainRoutes(productRoutes) /\ PlainRoutes(brandRoutes) /\ PlainRoutes(categoryRoutes)
  BY DEF productRoutes, brandRoutes, categoryRoutes
<1>9. PlainRoutes(deliveryRoutes) /\ PlainRoutes(devRoutes) /\ PlainRoutes(uploadRoute)
  BY DEF deliveryRoutes, devRoutes, uploadRoute
<1> QED
  BY <1>1, <1>2, <1>3, <1>4, <1>5, <1>6, <1>7, <1>8, <1>9

LEMMA PlainAdmin == PlainRoutes(adminMounts)
<1> USE PlainLists, PlainLeaves, PlainBehind, PlainUnion, Named DEF Valid
<1>1. PlainRoutes(adminDashboardRoutes) /\ PlainRoutes(adminSettingsRoutes)
  BY DEF adminDashboardRoutes, adminSettingsRoutes
<1>2. PlainRoutes(adminCategoryRoutes) /\ PlainRoutes(adminBrandRoutes)
  BY DEF adminCategoryRoutes, adminBrandRoutes
<1>3. PlainRoutes(adminSubscriberRoutes) /\ PlainRoutes(adminUserRoutes)
  BY DEF adminSubscriberRoutes, adminUserRoutes
<1>4. PlainRoutes(adminProductRoutes) /\ PlainRoutes(adminOrderRoutes)
  BY DEF adminProductRoutes, adminOrderRoutes
<1>5. PlainRoutes(adminReviewRoutes) /\ PlainRoutes(adminNotificationRoutes)
  BY DEF adminReviewRoutes, adminNotificationRoutes
<1>6. PlainRoutes(adminDeliveryRoutes)
  BY DEF adminDeliveryRoutes
<1>7. /\ "dashboard" \in Word /\ "settings" \in Word /\ "categories" \in Word /\ "brands" \in Word
      /\ "subscribers" \in Word /\ "users" \in Word /\ "products" \in Word /\ "orders" \in Word
      /\ "reviews" \in Word /\ "notifications" \in Word
      /\ "delivery" \in Word /\ "managedelivery" \in Word
  BY DEF Word
<1>8. PlainRoutes(UNION {Mounted(path, adminDeliveryRoutes) : path \in {"delivery", "managedelivery"}})
  BY <1>6, <1>7, PlainMounted DEF PlainRoutes
<1> QED
  BY <1>1, <1>2, <1>3, <1>4, <1>5, <1>7, <1>8, PlainMounted DEF adminMounts

\* The routes of the accounts' router: two take a token of their own.
OwnRoutes ==
    Behind(<<"authenticateResetPassword", "validate">>, Writes({"resetPassword"}))
    \cup Behind(<<"authenticateOnboarding", "upload", "form", "validate">>,
                Writes({"completeProfile"}))
OtherAuth ==
    Behind(<<"upload", "form", "validate">>, Writes({"register"}))
    \cup Valid(Writes({"login", "refreshTokens", "logout", "forgotPassword",
                       "verifyResetCode", "resendOtp", "verifyEmail"}))
    \cup Behind(<<"authenticate">>, Reads({"me"}) \cup Valid(Writes({"changePassword"})))

LEMMA AuthSplits == authRoutes = OtherAuth \cup OwnRoutes
BY DEF authRoutes, OtherAuth, OwnRoutes

LEMMA PlainAuth ==
    PlainRoutes(OtherAuth) /\ \A r \in OtherAuth : r.op[1] \notin {"resetPassword", "completeProfile"}
<1> DEFINE own == {"resetPassword", "completeProfile"}
           Others(rs) == \A r \in rs : r.op[1] \notin own
           logins == {"login", "refreshTokens", "logout", "forgotPassword",
                      "verifyResetCode", "resendOtp", "verifyEmail"}
<1>1. /\ {"register"} \subseteq Word /\ {"me"} \subseteq Word /\ {"changePassword"} \subseteq Word
      /\ logins \subseteq Word
  BY DEF Word
<1>2. PlainRoutes(OtherAuth)
  BY <1>1, PlainLists, PlainLeaves, PlainBehind, PlainUnion DEF Valid, OtherAuth
<1>3. \A ops : ops \cap own = {} => Others(Reads(ops)) /\ Others(Writes(ops))
  BY DEF Reads, Writes
<1>4. ASSUME NEW gs, NEW rs, PlainRoutes(rs), Others(rs) PROVE Others(Behind(gs, rs))
  <2> SUFFICES ASSUME NEW r \in Behind(gs, rs) PROVE r.op[1] \notin own
    OBVIOUS
  <2>1. PICK q \in rs : r.op = q.op
    BY <1>4, BehindIs DEF PlainRoutes
  <2> QED
    BY <1>4, <2>1
<1>5. /\ {"register"} \cap own = {} /\ {"me"} \cap own = {} /\ {"changePassword"} \cap own = {}
      /\ logins \cap own = {}
  OBVIOUS
<1> DEFINE mine == Reads({"me"}) \cup Valid(Writes({"changePassword"}))
<1>6. PlainRoutes(Valid(Writes({"changePassword"}))) /\ Others(Valid(Writes({"changePassword"})))
  BY <1>1, <1>3, <1>4, <1>5, PlainLeaves, PlainLists, PlainBehind DEF Valid
<1>7. PlainRoutes(mine) /\ Others(mine)
  BY <1>1, <1>3, <1>5, <1>6, PlainLeaves, PlainUnion
<1>8. Others(Behind(<<"authenticate">>, mine))
  BY <1>4, <1>7
<1>9. Others(Behind(<<"upload", "form", "validate">>, Writes({"register"})))
  BY <1>1, <1>3, <1>4, <1>5, PlainLeaves
<1>10. Others(Valid(Writes(logins)))
  BY <1>1, <1>3, <1>4, <1>5, PlainLeaves DEF Valid
<1> HIDE DEF own
<1>11. Others(OtherAuth)
  BY <1>8, <1>9, <1>10 DEF OtherAuth
<1> QED
  BY <1>2, <1>11 DEF own

\* A route of the API is one of the administrators', of the customers', of the accounts',
\* or checks access tokens only.
LEMMA WhereRoutesAre ==
    ASSUME NEW r \in Routes
    PROVE  \/ r \in Mounted("admin", adminRoutes)
           \/ r \in Mounted("cart", cartRoutes)
           \/ r \in Mounted("orders", orderRoutes)
           \/ r \in Mounted("auth", authRoutes)
           \/ /\ r \in Route /\ PlainGuards(r.guards)
              /\ r.op[1] \notin {"admin", "cart", "orders", "auth"}
<1> DEFINE named == {"admin", "cart", "orders", "auth"}
<1>1. ASSUME NEW path \in Word, path \notin named, NEW rs, PlainRoutes(rs),
             r \in Mounted(path, rs)
      PROVE  r \in Route /\ PlainGuards(r.guards) /\ r.op[1] \notin named
  <2>1. rs \subseteq Route
    BY <1>1 DEF PlainRoutes
  <2>2. r.op[1] = path
    BY <1>1, <2>1, FirstOf
  <2>3. PlainRoutes(Mounted(path, rs))
    BY <1>1, PlainMounted
  <2> QED
    BY <1>1, <2>2, <2>3 DEF PlainRoutes
<1>2. /\ "api" \in Word /\ "users" \in Word /\ "notifications" \in Word /\ "settings" \in Word
      /\ "categories" \in Word /\ "brands" \in Word /\ "products" \in Word
      /\ "subscribers" \in Word /\ "reviews" \in Word /\ "wishlist" \in Word
      /\ "delivery" \in Word /\ "dev" \in Word
  BY DEF Word
<1>3. ASSUME NEW ops, ops \subseteq {"health", "vivaWebhook"}, r \in Reads(ops) \cup Writes(ops)
      PROVE  r \in Route /\ PlainGuards(r.guards) /\ r.op[1] \notin named
  <2>1. ops \subseteq Word
    BY <1>3, Named
  <2>2. r \in Route /\ PlainGuards(r.guards)
    BY <1>3, <2>1, PlainLeaves DEF PlainRoutes
  <2>3. \E o \in ops : r.op = <<o>>
    BY <1>3 DEF Reads, Writes
  <2> QED
    BY <1>3, <2>2, <2>3
<1>4. CASE r \in Reads({"health", "vivaWebhook"}) \cup Writes({"vivaWebhook"})
  <2>1. {"vivaWebhook"} \subseteq {"health", "vivaWebhook"}
    OBVIOUS
  <2> QED
    BY <1>3, <1>4, <2>1
<1>5. CASE r \in Mounted("api", uploadRoute) \cup Mounted("users", userRoutes)
                 \cup Mounted("notifications", notificationRoutes)
                 \cup Mounted("settings", settingsRoutes)
                 \cup Mounted("categories", categoryRoutes) \cup Mounted("brands", brandRoutes)
  BY <1>1, <1>2, <1>5, PlainRouters
<1>6. CASE r \in Mounted("products", productRoutes) \cup Mounted("subscribers", subscriberRoutes)
                 \cup Mounted("reviews", reviewRoutes) \cup Mounted("wishlist", wishlistRoutes)
                 \cup Mounted("delivery", deliveryRoutes) \cup Mounted("dev", devRoutes)
  BY <1>1, <1>2, <1>6, PlainRouters
<1> HIDE DEF named
<1> QED
  BY <1>4, <1>5, <1>6 DEF Routes, named

\* What the guards of a route check: an administrator's route the role superAdmin, a
\* customer's the role USER, both of them and every other but two an access token or none.
Guarded(r, guard) == \E i \in DOMAIN r.guards : r.guards[i] = guard

LEMMA RouteGuards ==
    ASSUME NEW r \in Routes
    PROVE  /\ r \in Route
           /\ r.op \in AdminOps => Guarded(r, "authenticate") /\ Guarded(r, "superAdmin")
           /\ r.op \in CustomerOps => Guarded(r, "authenticate") /\ Guarded(r, "customer")
           /\ r.op = <<"auth", "resetPassword">> => Guarded(r, "authenticateResetPassword")
           /\ r.op = <<"auth", "completeProfile">> => Guarded(r, "authenticateOnboarding")
           /\ r.op \notin DOMAIN Purpose => PlainGuards(r.guards)
<1> DEFINE reset == <<"auth", "resetPassword">>
           complete == <<"auth", "completeProfile">>
<1>1. /\ "admin" \in Word /\ "cart" \in Word /\ "orders" \in Word /\ "auth" \in Word
      /\ "resetPassword" \in Word /\ "completeProfile" \in Word
  BY DEF Word
<1>2. r.op \in AdminOps => r.op[1] = "admin"
  BY <1>1, PlainAdmin, FirstOf DEF AdminOps, PlainRoutes
<1>3. r.op \in CustomerOps => r.op[1] = "cart" \/ r.op[1] = "orders"
  BY <1>1, PlainRouters, FirstOf DEF CustomerOps, PlainRoutes
<1>4. reset[1] = "auth" /\ complete[1] = "auth"
  OBVIOUS
<1>5. CASE r \in Mounted("admin", adminRoutes)
  <2>1. PlainGuards(<<"authenticate", "superAdmin">>)
    BY PlainLists
  <2>2. PlainRoutes(adminRoutes)
    BY <2>1, PlainAdmin, PlainBehind DEF adminRoutes
  <2>3. r \in Route /\ PlainGuards(r.guards) /\ r.op[1] = "admin"
    BY <1>1, <1>5, <2>2, PlainMounted, FirstOf DEF PlainRoutes
  <2>4. PICK q \in adminRoutes : r.guards = q.guards
    <3>1. adminRoutes \subseteq Route
      BY <2>2 DEF PlainRoutes
    <3> QED
      BY <1>1, <1>5, <3>1, MountedIs
  <2>5. Guarded(r, "authenticate") /\ Guarded(r, "superAdmin")
    <3> DEFINE gs == <<"authenticate", "superAdmin">>
    <3>1. gs \in Seq(Word) /\ Len(gs) = 2 /\ gs[1] = "authenticate" /\ gs[2] = "superAdmin"
      BY <2>1 DEF PlainGuards
    <3>2. q \in Behind(gs, adminMounts)
      BY DEF adminRoutes
    <3> HIDE DEF gs
    <3>3. /\ 1 \in DOMAIN q.guards /\ q.guards[1] = gs[1]
          /\ 2 \in DOMAIN q.guards /\ q.guards[2] = gs[2]
      BY <3>1, <3>2, PlainAdmin, FirstGuards DEF PlainRoutes
    <3> QED
      BY <2>4, <3>1, <3>3 DEF Guarded
  <2> QED
    BY <1>3, <1>4, <2>3, <2>5
<1>6. ASSUME r \in Mounted("cart", cartRoutes) \cup Mounted("orders", orderRoutes)
      PROVE  /\ r \in Route /\ PlainGuards(r.guards) /\ r.op[1] \in {"cart", "orders"}
             /\ Guarded(r, "authenticate") /\ Guarded(r, "customer")
  <2>1. r \in Route /\ PlainGuards(r.guards) /\ r.op[1] \in {"cart", "orders"}
    BY <1>1, <1>6, PlainRouters, PlainMounted, FirstOf DEF PlainRoutes
  <2>2. PICK q \in cartRoutes \cup orderRoutes : r.guards = q.guards
    <3>1. cartRoutes \subseteq Route /\ orderRoutes \subseteq Route
      BY PlainRouters DEF PlainRoutes
    <3>2. ASSUME NEW path \in Word, NEW rs, r \in Mounted(path, rs), rs \subseteq Route
          PROVE  \E q \in rs : r.guards = q.guards
      BY <3>2, MountedIs
    <3> QED
      BY <1>1, <1>6, <3>1, <3>2
  <2> DEFINE gs == <<"authenticate", "customer">>
             carts == Reads({"list"}) \cup Writes({"clear"})
                      \cup Valid(Writes({"add", "updateQty", "remove"}))
             orders == Reads({"list"}) \cup Valid(Reads({"getOne"}))
                       \cup Valid(Writes({"checkout", "confirm", "confirmReceived"}))
  <2>3. gs \in Seq(Word) /\ Len(gs) = 2 /\ gs[1] = "authenticate" /\ gs[2] = "customer"
    BY PlainLists DEF PlainGuards
  <2>4. q \in Behind(gs, carts) \/ q \in Behind(gs, orders)
    BY DEF cartRoutes, orderRoutes
  <2>5. carts \subseteq Route /\ orders \subseteq Route
    <3>1. PlainRoutes(carts)
      BY PlainLists, PlainLeaves, PlainBehind, PlainUnion, Named DEF Valid
    <3>2. PlainRoutes(orders)
      BY PlainLists, PlainLeaves, PlainBehind, PlainUnion, Named DEF Valid
    <3> QED
      BY <3>1, <3>2 DEF PlainRoutes
  <2> HIDE DEF gs, carts, orders
  <2>6. /\ 1 \in DOMAIN q.guards /\ q.guards[1] = gs[1]
        /\ 2 \in DOMAIN q.guards /\ q.guards[2] = gs[2]
    BY <2>3, <2>4, <2>5, FirstGuards
  <2> QED
    BY <2>1, <2>2, <2>3, <2>6 DEF Guarded
<1>7. CASE r \in Mounted("auth", authRoutes)
  <2>1. ASSUME NEW gs \in Seq(Word), 1 \in DOMAIN gs, NEW o \in Word,
               r \in Mounted("auth", Behind(gs, Writes({o})))
        PROVE  /\ r.op = <<"auth", o>> /\ r \in Route
               /\ Guarded(r, gs[1])
    BY <1>1, <2>1, OneRoute DEF Guarded
  <2>2. CASE r \in Mounted("auth", OtherAuth)
    <3>1. PICK q \in OtherAuth : r.op = <<"auth">> \o q.op
      BY <1>1, <2>2, PlainAuth, MountedIs DEF PlainRoutes
    <3>2. r \in Route /\ PlainGuards(r.guards) /\ r.op[1] = "auth"
      BY <1>1, <2>2, PlainAuth, PlainMounted, FirstOf DEF PlainRoutes
    <3>3. r.op # reset /\ r.op # complete
      <4>1. q.op \in Seq(Word) /\ q.op[1] \notin {"resetPassword", "completeProfile"}
        BY PlainAuth DEF PlainRoutes, Route
      <4>2. /\ Len(r.op) = 1 + Len(q.op)
            /\ \A i \in 1..(1 + Len(q.op)) :
                  r.op[i] = IF i <= 1 THEN <<"auth">>[i] ELSE q.op[i - 1]
        BY <1>1, <3>1, <4>1, ConcatProperties
      <4>3. /\ Len(reset) = 2 /\ Len(complete) = 2
            /\ reset[2] = "resetPassword" /\ complete[2] = "completeProfile"
        OBVIOUS
      <4>4. CASE Len(r.op) # 2
        BY <4>3, <4>4
      <4>5. CASE Len(r.op) = 2
        <5>1. 2 \in 1..(1 + Len(q.op)) /\ r.op[2] = q.op[1]
          BY <4>1, <4>2, <4>5
        <5> QED
          BY <4>1, <4>3, <5>1
      <4> QED
        BY <4>4, <4>5
    <3> QED
      BY <1>2, <1>3, <3>2, <3>3
  <2>3. CASE r \in Mounted("auth", Behind(<<"authenticateResetPassword", "validate">>,
                                          Writes({"resetPassword"})))
    <3>1. /\ <<"authenticateResetPassword", "validate">> \in Seq(Word)
          /\ 1 \in DOMAIN <<"authenticateResetPassword", "validate">>
          /\ <<"authenticateResetPassword", "validate">>[1] = "authenticateResetPassword"
      <4>1. "authenticateResetPassword" \in Word /\ "validate" \in Word
        BY DEF Word
      <4> QED
        BY <4>1
    <3>2. r.op = reset /\ r \in Route /\ Guarded(r, "authenticateResetPassword")
      BY <1>1, <2>1, <2>3, <3>1
    <3>3. reset # complete
      <4>1. reset[2] = "resetPassword" /\ complete[2] = "completeProfile"
        OBVIOUS
      <4> QED
        BY <4>1
    <3> QED
      BY <1>2, <1>3, <1>4, <3>2, <3>3, PurposeDomain
  <2>4. CASE r \in Mounted("auth", Behind(<<"authenticateOnboarding", "upload", "form", "validate">>,
                                          Writes({"completeProfile"})))
    <3>1. /\ <<"authenticateOnboarding", "upload", "form", "validate">> \in Seq(Word)
          /\ 1 \in DOMAIN <<"authenticateOnboarding", "upload", "form", "validate">>
          /\ <<"authenticateOnboarding", "upload", "form", "validate">>[1]
                = "authenticateOnboarding"
      <4>1. /\ "authenticateOnboarding" \in Word /\ "validate" \in Word
            /\ "upload" \in Word /\ "form" \in Word
        BY DEF Word
      <4> QED
        BY <4>1
    <3>2. r.op = complete /\ r \in Route /\ Guarded(r, "authenticateOnboarding")
      BY <1>1, <2>1, <2>4, <3>1
    <3>3. reset # complete
      <4>1. reset[2] = "resetPassword" /\ complete[2] = "completeProfile"
        OBVIOUS
      <4> QED
        BY <4>1
    <3> QED
      BY <1>2, <1>3, <1>4, <3>2, <3>3, PurposeDomain
  <2> QED
    BY <1>7, <2>2, <2>3, <2>4, AuthSplits DEF OwnRoutes, Mounted
<1>8. CASE /\ r \in Route /\ PlainGuards(r.guards)
           /\ r.op[1] \notin {"admin", "cart", "orders", "auth"}
  BY <1>2, <1>3, <1>4, <1>8
<1> QED
  BY <1>2, <1>4, <1>5, <1>6, <1>7, <1>8, WhereRoutesAre

-------------------------------------------------------------------------------
(* What the guards of a request let through *)

\* Every guard of the route, in whatever order they ran.
Passed(r, n) == \A i \in DOMAIN r.route.guards : Checked(r.route.guards[i], r, n) = Pass

LEMMA NoErrorPassed ==
    ASSUME NEW r, r.route \in Route, NEW n, Error(r, n) = Pass
    PROVE  Passed(r, n)
<1> DEFINE objections == {i \in DOMAIN r.route.guards : Checked(r.route.guards[i], r, n) # Pass}
           first == CHOOSE i \in objections : \A j \in objections : i <= j
<1>1. objections \subseteq Nat
  BY DEF Route
<1>2. Error(r, n) = IF objections = {} THEN Pass ELSE Checked(r.route.guards[first], r, n)
  BY DEF Error
<1>3. ASSUME NEW i0 \in objections PROVE FALSE
  <2>1. \E i \in objections : \A j \in objections : i <= j
    <3> DEFINE Lower == {p \in Nat \X Nat : p[1] < p[2]}
    <3>1. IsWellFoundedOn(Lower, Nat)
      BY NatLessThanWellFounded DEF OpToRel
    <3> HIDE DEF Lower
    <3>2. PICK i \in objections : \A j \in objections : ~(<<j, i>> \in Lower)
      BY <1>1, <1>3, <3>1, WFMin
    <3>3. ASSUME NEW j \in objections PROVE i <= j
      <4>1. <<j, i>> \in Nat \X Nat /\ <<j, i>>[1] = j /\ <<j, i>>[2] = i
        BY <1>1
      <4>2. ~(j < i)
        BY <3>2, <4>1 DEF Lower
      <4>3. i \in Nat /\ j \in Nat
        BY <1>1
      <4> QED
        BY <4>2, <4>3
    <3> QED
      BY <3>3
  <2>2. first \in objections
    BY <2>1
  <2> HIDE DEF first
  <2>3. Checked(r.route.guards[first], r, n) # Pass
    BY <2>2
  <2> QED
    BY <1>2, <1>3, <2>3
<1> QED
  BY <1>3 DEF Passed

LEMMA ErrorsArePass ==
    /\ \A wrong, status : Denies(wrong, AppError(status)) = Pass => ~wrong
    /\ \A status : AppError(status) # Pass
  BY DEF Denies, AppError, OtherError, Pass

\* What a guard has found when it lets a request pass.
LEMMA WhatPassed ==
    ASSUME NEW r, NEW n, Passed(r, n)
    PROVE  /\ Guarded(r.route, "authenticate") => verifyAccessToken(r.token, n)
           /\ Guarded(r.route, "authenticateOnboarding") => verifyOnboardingToken(r.token, n)
           /\ Guarded(r.route, "authenticateResetPassword") => verifyForgotPassToken(r.token, n)
           /\ Guarded(r.route, "superAdmin") => r.token.role = "superAdmin"
           /\ Guarded(r.route, "customer") => r.token.role = "USER"
<1>1. ASSUME Guarded(r.route, "authenticate") PROVE verifyAccessToken(r.token, n)
  <2>1. Checked("authenticate", r, n) = Pass
    BY <1>1 DEF Guarded, Passed
  <2>2. Checked("authenticate", r, n) = authenticate(r, n)
    BY DEF Checked
  <2> QED
    BY <2>1, <2>2, ErrorsArePass DEF authenticate
<1>2. ASSUME Guarded(r.route, "authenticateOnboarding") PROVE verifyOnboardingToken(r.token, n)
  <2>1. Checked("authenticateOnboarding", r, n) = Pass
    BY <1>2 DEF Guarded, Passed
  <2>2. Checked("authenticateOnboarding", r, n) = authenticateOnboarding(r, n)
    BY DEF Checked
  <2> QED
    BY <2>1, <2>2, ErrorsArePass DEF authenticateOnboarding
<1>3. ASSUME Guarded(r.route, "authenticateResetPassword") PROVE verifyForgotPassToken(r.token, n)
  <2>1. Checked("authenticateResetPassword", r, n) = Pass
    BY <1>3 DEF Guarded, Passed
  <2>2. Checked("authenticateResetPassword", r, n) = authenticateResetPassword(r, n)
    BY DEF Checked
  <2> QED
    BY <2>1, <2>2, ErrorsArePass DEF authenticateResetPassword
<1>4. ASSUME Guarded(r.route, "superAdmin") PROVE r.token.role = "superAdmin"
  <2>1. Checked("superAdmin", r, n) = Pass
    BY <1>4 DEF Guarded, Passed
  <2>2. Checked("superAdmin", r, n) = authorize("superAdmin", r)
    BY DEF Checked
  <2>3. Denies(r.token.role # "superAdmin", AppError(403)) = Pass
    BY <2>1, <2>2, ErrorsArePass DEF authorize
  <2> QED
    BY <2>3, ErrorsArePass
<1>5. ASSUME Guarded(r.route, "customer") PROVE r.token.role = "USER"
  <2>1. Checked("customer", r, n) = Pass
    BY <1>5 DEF Guarded, Passed
  <2>2. Checked("customer", r, n) = authorize("USER", r)
    BY DEF Checked, requireCustomer
  <2>3. Denies(r.token.role # "USER", AppError(403)) = Pass
    BY <2>1, <2>2, ErrorsArePass DEF authorize
  <2> QED
    BY <2>3, ErrorsArePass
<1> QED
  BY <1>1, <1>2, <1>3, <1>4, <1>5

-------------------------------------------------------------------------------
(* Who a request is served for *)

\* A token speaks for the account it was made for, as that was when it was read.
Minted(t) ==
    /\ t.sub \in Account
    /\ t.type # "forgot_pass" => t.role = RoleOf[t.sub]
    /\ ~t.isDeleted => t.sound

\* The request has passed the guards of its route, and is its token's.
Admitted(r) == r.route \in Routes /\ Passed(r, r.enteredAt) /\ r.user = Principal(r)

Waiting(r) == r.at \in {"unsent", "locking"}

Sent(r, held) ==
    /\ r.token \in held \cup {Nobody}
    /\ r.at = "locking" => r.route \in Routes
    /\ Waiting(r) => r.user = Nobody /\ ~r.took
    /\ r.at \in {"handling", "issuing"} \/ r.took \/ r.user # Nobody => Admitted(r)
    /\ r.at = "issuing" => /\ r.read.sub \in Account
                           /\ r.read.account.role = RoleOf[r.read.sub]
                           /\ ~r.read.account.isDeleted => r.read.account.sound

AccessInv ==
    /\ \A t \in tokens : Minted(t)
    /\ \A a \in Attempt : Sent(attempts[a], tokens)

\* What an admitted request is allowed.
LEMMA AdmittedOnly ==
    ASSUME NEW r, NEW held, \A t \in held : Minted(t), Sent(r, held), Admitted(r)
    PROVE  /\ r.route.op \in AdminOps \cup CustomerOps \cup DOMAIN Purpose => r.user # Nobody
           /\ r.user # Nobody =>
                /\ r.user = r.token.sub /\ r.token.sound /\ r.enteredAt < r.token.exp
                /\ r.token.type = IF r.route.op \in DOMAIN Purpose
                                  THEN Purpose[r.route.op] ELSE "access"
                /\ r.route.op \in AdminOps => RoleOf[r.user] = "superAdmin"
                /\ r.route.op \in CustomerOps => RoleOf[r.user] = "USER"
<1> DEFINE n == r.enteredAt
           route == r.route
           reset == <<"auth", "resetPassword">>
           complete == <<"auth", "completeProfile">>
           Works(type) == /\ r.token # Nobody /\ n < r.token.exp /\ r.token.type = type
                          /\ ~r.token.isDeleted
<1>1. /\ Guarded(route, "authenticate") => Works("access")
      /\ Guarded(route, "authenticateOnboarding") => Works("onboarding")
      /\ Guarded(route, "authenticateResetPassword") => Works("forgot_pass")
      /\ Guarded(route, "superAdmin") => r.token.role = "superAdmin"
      /\ Guarded(route, "customer") => r.token.role = "USER"
  BY WhatPassed DEF Admitted, verifyAccessToken, verifyOnboardingToken, verifyForgotPassToken,
                    Verified
<1>2. /\ route.op \in AdminOps => Guarded(route, "authenticate") /\ Guarded(route, "superAdmin")
      /\ route.op \in CustomerOps => Guarded(route, "authenticate") /\ Guarded(route, "customer")
      /\ route.op = reset => Guarded(route, "authenticateResetPassword")
      /\ route.op = complete => Guarded(route, "authenticateOnboarding")
      /\ route.op \notin DOMAIN Purpose => PlainGuards(route.guards)
  BY RouteGuards DEF Admitted
<1>3. /\ DOMAIN Purpose = {reset, complete}
      /\ Purpose[reset] = "forgot_pass" /\ Purpose[complete] = "onboarding"
  BY PurposeDomain
<1>4. r.user = IF \E guard \in Authenticating : Guarded(route, guard)
               THEN r.token.sub ELSE Nobody
  BY DEF Admitted, Principal, Guarded
<1>5. ASSUME NEW type, Works(type)
      PROVE  /\ r.token.sub \in Account /\ r.token.sub # Nobody /\ r.token.sound
             /\ r.token.type # "forgot_pass" => r.token.role = RoleOf[r.token.sub]
  <2>1. r.token \in held
    BY <1>5 DEF Sent
  <2> QED
    BY <1>5, <2>1, RequestsAreValid DEF Minted
<1> HIDE DEF route, reset, complete, Works, n
<1>6. /\ "authenticate" \in Authenticating /\ "authenticateOnboarding" \in Authenticating
      /\ "authenticateResetPassword" \in Authenticating
  BY DEF Authenticating
<1>7. CASE route.op = reset
  <2>1. Works("forgot_pass") /\ Guarded(route, "authenticateResetPassword")
    BY <1>1, <1>2, <1>7
  <2>2. r.user = r.token.sub
    BY <1>4, <1>6, <2>1
  <2>3. r.token.sub # Nobody /\ r.token.sound
    BY <1>5, <2>1
  <2>4. route.op \notin AdminOps \cup CustomerOps
    BY <1>1, <1>2, <2>1 DEF Works
  <2>5. n < r.token.exp /\ r.token.type = "forgot_pass"
    BY <2>1 DEF Works
  <2> QED
    BY <1>3, <1>7, <2>2, <2>3, <2>4, <2>5 DEF route, n
<1>8. CASE route.op = complete
  <2>1. Works("onboarding") /\ Guarded(route, "authenticateOnboarding")
    BY <1>1, <1>2, <1>8
  <2>2. r.user = r.token.sub
    BY <1>4, <1>6, <2>1
  <2>3. r.token.sub # Nobody /\ r.token.sound
    BY <1>5, <2>1
  <2>4. route.op \notin AdminOps \cup CustomerOps
    BY <1>1, <1>2, <2>1 DEF Works
  <2>5. n < r.token.exp /\ r.token.type = "onboarding"
    BY <2>1 DEF Works
  <2> QED
    BY <1>3, <1>8, <2>2, <2>3, <2>4, <2>5 DEF route, n
<1>9. CASE route.op \notin DOMAIN Purpose
  <2>1. ~Guarded(route, "authenticateOnboarding") /\ ~Guarded(route, "authenticateResetPassword")
    BY <1>2, <1>9 DEF PlainGuards, Guarded, Special
  <2>2. CASE ~Guarded(route, "authenticate")
    <3>1. r.user = Nobody
      BY <1>4, <2>1, <2>2 DEF Authenticating
    <3>2. route.op \notin AdminOps \cup CustomerOps
      BY <1>2, <2>2
    <3> QED
      BY <1>9, <3>1, <3>2 DEF route
  <2>3. CASE Guarded(route, "authenticate")
    <3>1. Works("access")
      BY <1>1, <2>3
    <3>2. r.user = r.token.sub
      BY <1>4, <1>6, <2>3
    <3>3. n < r.token.exp /\ r.token.type = "access"
      BY <3>1 DEF Works
    <3>4. /\ r.token.sub # Nobody /\ r.token.sound
          /\ r.token.role = RoleOf[r.token.sub]
      BY <1>5, <3>1, <3>3
    <3>5. /\ route.op \in AdminOps => r.token.role = "superAdmin"
          /\ route.op \in CustomerOps => r.token.role = "USER"
      BY <1>1, <1>2
    <3> QED
      BY <1>9, <3>2, <3>3, <3>4, <3>5 DEF route, n
  <2> QED
    BY <2>2, <2>3
<1> QED
  BY <1>3, <1>7, <1>8, <1>9

LEMMA AccessInvAllows == AccessInv => AccessFollowsAccount
<1> SUFFICES ASSUME AccessInv, NEW a \in Attempt
             PROVE  LET r == attempts[a] IN
                    /\ (r.at = "handling" \/ r.took)
                          /\ r.route.op \in AdminOps \cup CustomerOps \cup DOMAIN Purpose
                          => r.user # Nobody
                    /\ r.user # Nobody =>
                        /\ r.user = r.token.sub /\ r.token.sound /\ r.enteredAt < r.token.exp
                        /\ r.token.type = IF r.route.op \in DOMAIN Purpose
                                          THEN Purpose[r.route.op] ELSE "access"
                        /\ r.route.op \in AdminOps => RoleOf[r.user] = "superAdmin"
                        /\ r.route.op \in CustomerOps => RoleOf[r.user] = "USER"
  BY DEF AccessFollowsAccount
<1> DEFINE r == attempts[a]
<1>1. Sent(r, tokens) /\ \A t \in tokens : Minted(t)
  BY DEF AccessInv
<1>2. CASE r.at = "handling" \/ r.took \/ r.user # Nobody
  <2>1. Admitted(r)
    BY <1>1, <1>2 DEF Sent
  <2> HIDE DEF r
  <2>2. /\ r.route.op \in AdminOps \cup CustomerOps \cup DOMAIN Purpose => r.user # Nobody
        /\ r.user # Nobody =>
            /\ r.user = r.token.sub /\ r.token.sound /\ r.enteredAt < r.token.exp
            /\ r.token.type = IF r.route.op \in DOMAIN Purpose
                              THEN Purpose[r.route.op] ELSE "access"
            /\ r.route.op \in AdminOps => RoleOf[r.user] = "superAdmin"
            /\ r.route.op \in CustomerOps => RoleOf[r.user] = "USER"
    BY <1>1, <2>1, AdmittedOnly
  <2> QED
    BY <2>2 DEF r
<1>3. CASE ~(r.at = "handling" \/ r.took \/ r.user # Nobody)
  BY <1>3
<1> QED
  BY <1>2, <1>3

-------------------------------------------------------------------------------
(* How the steps of requests keep it *)

\* What an answer leaves of its request.
LEMMA AnsweredKeeps ==
    ASSUME NEW r, DOMAIN r = Fields, NEW status, NEW heard
    PROVE  LET s == Answered(r, status, heard) IN
           /\ s.at = "answered" /\ s.route = r.route /\ s.body = r.body /\ s.token = r.token
           /\ s.user = r.user /\ s.took = r.took /\ s.enteredAt = r.enteredAt
BY DEF Answered, Fields

\* Guards look at the route, the body and the token.
LEMMA SamePassed ==
    ASSUME NEW r, NEW s, s.route = r.route, s.body = r.body, s.token = r.token, NEW n
    PROVE  Passed(s, n) = Passed(r, n) /\ Principal(s) = Principal(r)
<1>1. \A guard : Checked(guard, s, n) = Checked(guard, r, n)
  BY DEF Checked, authenticate, authenticateOnboarding, authenticateResetPassword,
         requireCustomer, authorize, validate, parseMultipartData, multerUpload
<1> QED
  BY <1>1 DEF Passed, Principal

LEMMA SentGoesOn ==
    ASSUME NEW r, NEW s, NEW held, Sent(r, held), Admitted(r),
           s.route = r.route, s.body = r.body, s.token = r.token,
           s.user = r.user, s.enteredAt = r.enteredAt, s.at \in {"handling", "answered"}
    PROVE  Sent(s, held)
<1>1. Admitted(s)
  BY SamePassed DEF Admitted
<1> QED
  BY <1>1 DEF Sent, Waiting

\* A request that has not been let in yet is answered, or let in by its guards.
LEMMA SentAnswered ==
    ASSUME NEW r, DOMAIN r = Fields, NEW held, r.token \in held \cup {Nobody},
           r.user = Nobody, ~r.took, NEW status, NEW heard
    PROVE  Sent(Answered(r, status, heard), held)
<1> DEFINE s == Answered(r, status, heard)
<1>1. s.at = "answered" /\ s.token = r.token /\ s.user = r.user /\ s.took = r.took
  BY AnsweredKeeps
<1> HIDE DEF s
<1>2. Sent(s, held)
  BY <1>1 DEF Sent, Waiting
<1> QED
  BY <1>2 DEF s

LEMMA SentEntered ==
    ASSUME NEW r, DOMAIN r = Fields, NEW held, r.token \in held \cup {Nobody},
           r.user = Nobody, ~r.took, r.route \in Routes, NEW heard
    PROVE  Sent(Entered(r, heard), held)
<1> DEFINE error == Error(r, now)
           s == Entered(r, heard)
<1>1. CASE error # Pass
  <2>1. s = Answered(r, normalizeError(error), heard)
    BY <1>1 DEF Entered
  <2> HIDE DEF s, error
  <2>2. Sent(s, held)
    BY <2>1, SentAnswered
  <2> QED
    BY <2>2 DEF s
<1>2. CASE error = Pass
  <2>1. s = [r EXCEPT !.at = "handling", !.user = Principal(r), !.enteredAt = now]
    BY <1>2 DEF Entered
  <2> HIDE DEF s
  <2>2. /\ s.at = "handling" /\ s.user = Principal(r) /\ s.enteredAt = now
        /\ s.route = r.route /\ s.body = r.body /\ s.token = r.token
    BY <2>1 DEF Fields
  <2>3. Passed(r, now)
    BY <1>2, NoErrorPassed, RouteGuards
  <2>4. Admitted(s)
    BY <2>2, <2>3, SamePassed DEF Admitted
  <2>5. Sent(s, held)
    BY <2>2, <2>4 DEF Sent, Waiting
  <2> QED
    BY <2>5 DEF s
<1> QED
  BY <1>1, <1>2

LEMMA SentBecomes ==
    ASSUME ServedInv, AccessInv, NEW a \in Attempt, NEW r, Becomes(a, r), Sent(r, tokens),
           UNCHANGED tokens
    PROVE  AccessInv'
<1>1. attempts'[a] = r /\ \A b \in Attempt \ {a} : attempts'[b] = attempts[b]
  BY Became
<1> QED
  BY <1>1 DEF AccessInv

\* ... more tokens are no harm.
LEMMA SentMore ==
    ASSUME NEW r, NEW held, NEW more, held \subseteq more, Sent(r, held)
    PROVE  Sent(r, more)
BY DEF Sent

LEMMA AccessReceive ==
    ASSUME ServedInv, AccessInv, NEW a \in Attempt, NEW part \in DOMAIN Requests,
           NEW q \in Requests[part], NEW token \in TokensOf(q.type), Receive(a, part, q, token)
    PROVE  AccessInv'
<1> DEFINE r == [Unsent EXCEPT !.at = "locking", !.route = q.route, !.key = q.key,
                               !.body = q.body, !.token = token]
<1>1. /\ DOMAIN r = Fields /\ r.at = "locking" /\ r.route = q.route /\ r.token = token
      /\ r.user = Nobody /\ r.took = FALSE
  BY DEF Unsent, Fields
<1>2. q.route \in Routes /\ token \in tokens \cup {Nobody}
  BY RequestsAreValid DEF TokensOf
<1>3. \/ Becomes(a, Answered(r, 429, TRUE))
      \/ Becomes(a, r)
      \/ Becomes(a, Entered(r, TRUE))
  BY DEF Receive
<1>4. UNCHANGED tokens
  BY DEF Receive, accountVars
<1> HIDE DEF r
<1>5. Sent(Answered(r, 429, TRUE), tokens)
  <2>1. r.token \in tokens \cup {Nobody} /\ ~r.took
    BY <1>1, <1>2
  <2>2. \A status, heard : Sent(Answered(r, status, heard), tokens)
    BY <1>1, <2>1, SentAnswered
  <2> QED
    BY <2>2
<1>6. Sent(Entered(r, TRUE), tokens)
  BY <1>1, <1>2, SentEntered
<1>7. Sent(r, tokens)
  BY <1>1, <1>2 DEF Sent, Waiting
<1> QED
  BY <1>3, <1>4, <1>5, <1>6, <1>7, SentBecomes

LEMMA AccessBypass ==
    ASSUME ServedInv, AccessInv, NEW a \in Attempt, Bypass(a)
    PROVE  AccessInv'
<1> DEFINE r0 == attempts[a]
           r == [r0 EXCEPT !.mode = "bypassed"]
<1>1. Sent(r0, tokens) /\ r0.at = "locking" /\ DOMAIN r0 = Fields
  BY DEF AccessInv, Bypass, At, ServedInv
<1>2. Becomes(a, Entered(r, TRUE)) /\ UNCHANGED tokens
  BY DEF Bypass, accountVars
<1> HIDE DEF r0
<1>3. /\ DOMAIN r = Fields /\ r.at = "locking" /\ r.route = r0.route /\ r.token = r0.token
      /\ r.user = r0.user /\ r.took = r0.took
  BY <1>1 DEF Fields
<1> HIDE DEF r
<1>4. Sent(Entered(r, TRUE), tokens)
  BY <1>1, <1>3, SentEntered DEF Sent, Waiting
<1> QED
  BY <1>2, <1>4, SentBecomes

LEMMA AccessSetApplies ==
    ASSUME ServedInv, AccessInv, NEW a \in Attempt, NEW heard, SetApplies(a, heard)
    PROVE  AccessInv'
<1> DEFINE r0 == attempts[a]
           r == [r0 EXCEPT !.mode = "locked", !.lockedAt = now]
<1>1. UNCHANGED tokens
  BY DEF SetApplies, accountVars
<1>2. CASE UNCHANGED attempts
  BY <1>1, <1>2 DEF AccessInv
<1>3. CASE /\ r0.at = "locking"
           /\ Becomes(a, Entered(r, heard)) \/ Becomes(a, Answered(r0, 409, heard))
  <2>1. Sent(r0, tokens) /\ DOMAIN r0 = Fields
    BY DEF AccessInv, ServedInv
  <2>2. /\ r0.token \in tokens \cup {Nobody} /\ r0.user = Nobody /\ ~r0.took
        /\ r0.route \in Routes
    BY <1>3, <2>1 DEF Sent, Waiting
  <2> HIDE DEF r0
  <2>3. /\ DOMAIN r = Fields /\ r.at = "locking" /\ r.route = r0.route /\ r.token = r0.token
        /\ r.user = r0.user /\ r.took = r0.took
    BY <1>3, <2>1 DEF Fields
  <2> HIDE DEF r
  <2>4. Sent(Entered(r, heard), tokens)
    BY <2>2, <2>3, SentEntered
  <2>5. Sent(Answered(r0, 409, heard), tokens)
    BY <2>1, <2>2, SentAnswered
  <2> QED
    BY <1>1, <1>3, <2>4, <2>5, SentBecomes
<1> QED
  BY <1>2, <1>3 DEF SetApplies

\* The handlers go on with what their request was let in with.
LEMMA AccessHandler ==
    ASSUME ServedInv, AccessInv, NEW a \in Attempt, HandlerNext(a)
    PROVE  AccessInv'
<1> DEFINE r0 == attempts[a]
<1>1. Sent(r0, tokens) /\ DOMAIN r0 = Fields
  BY DEF AccessInv, ServedInv
<1>2. ASSUME At(a) \in {"handling", "issuing"} PROVE Admitted(r0)
  BY <1>1, <1>2 DEF Sent, At
<1>3. ASSUME At(a) \in {"handling", "issuing"}, NEW r, DOMAIN r = Fields,
             r.route = r0.route, r.body = r0.body, r.token = r0.token, r.user = r0.user,
             r.enteredAt = r0.enteredAt, NEW status, NEW heard
      PROVE  Sent(Answered(r, status, heard), tokens)
  <2> DEFINE s == Answered(r, status, heard)
  <2>1. /\ s.at = "answered" /\ s.route = r.route /\ s.body = r.body /\ s.token = r.token
        /\ s.user = r.user /\ s.enteredAt = r.enteredAt
    BY <1>3, AnsweredKeeps
  <2> HIDE DEF s, r0
  <2>2. Sent(s, tokens)
    BY <1>1, <1>2, <1>3, <2>1, SentGoesOn
  <2> QED
    BY <2>2 DEF s
<1>4. ASSUME NEW u \in Account, NEW proved \in BOOLEAN, ReadAccount(a, u, proved)
      PROVE  AccessInv'
  <2> DEFINE s == [r0 EXCEPT !.at = "issuing", !.read = [sub |-> u, account |-> AccountOf(u)]]
  <2>1. /\ At(a) = "handling" /\ UNCHANGED tokens
        /\ Becomes(a, Answered(r0, 401, TRUE)) \/ Becomes(a, s)
    BY <1>4 DEF ReadAccount, Handles, accountVars
  <2>2. Sent(Answered(r0, 401, TRUE), tokens)
    BY <1>1, <1>3, <2>1
  <2>3. /\ s.at = "issuing" /\ s.route = r0.route /\ s.body = r0.body /\ s.token = r0.token
        /\ s.user = r0.user /\ s.enteredAt = r0.enteredAt
        /\ s.read = [sub |-> u, account |-> AccountOf(u)]
    BY <1>1 DEF Fields
  <2> HIDE DEF s, r0
  <2>4. Admitted(s)
    BY <1>2, <2>1, <2>3, SamePassed DEF Admitted
  <2>5. /\ s.read.sub = u /\ s.read.account.role = RoleOf[u]
        /\ ~s.read.account.isDeleted => s.read.account.sound
    <3>1. s.read.sub = u /\ s.read.account = AccountOf(u)
      BY <2>3
    <3>2. AccountOf(u).role = RoleOf[u] /\ (~AccountOf(u).isDeleted => AccountOf(u).sound)
      <4> DEFINE gone == isDeleted[u]
                 sound == ~isDeleted[u]
      <4>1. ~gone => sound
        OBVIOUS
      <4>2. AccountOf(u) = [role |-> RoleOf[u], isDeleted |-> gone, sound |-> sound]
        BY DEF AccountOf
      <4> HIDE DEF gone, sound
      <4>3. /\ AccountOf(u).role = RoleOf[u] /\ AccountOf(u).isDeleted = gone
            /\ AccountOf(u).sound = sound
        BY <4>2
      <4> QED
        BY <4>1, <4>3, Zenon
    <3> QED
      BY <3>1, <3>2
  <2>6. Sent(s, tokens)
    BY <1>1, <2>3, <2>4, <2>5 DEF Sent, Waiting
  <2> QED
    BY <2>1, <2>2, <2>6, SentBecomes
<1>5. CASE issueTokenPair(a)
  <2> DEFINE r == [r0 EXCEPT !.took = TRUE]
             s == Answered(r, 200, TRUE)
             new == {createAccessToken(r0.read.sub, r0.read.account, now),
                     createRefreshToken(r0.read.sub, r0.read.account, now)}
  <2>1. At(a) = "issuing" /\ tokens' = tokens \cup new /\ Becomes(a, s)
    BY <1>5 DEF issueTokenPair, At
  <2>2. /\ DOMAIN r = Fields /\ r.route = r0.route /\ r.body = r0.body /\ r.token = r0.token
        /\ r.user = r0.user /\ r.enteredAt = r0.enteredAt
    BY <1>1 DEF Fields
  <2>3. /\ r0.read.sub \in Account /\ r0.read.account.role = RoleOf[r0.read.sub]
        /\ ~r0.read.account.isDeleted => r0.read.account.sound
    BY <1>1, <2>1 DEF Sent, At
  <2>4. \A t \in new : Minted(t)
    BY <2>3 DEF Minted, createAccessToken, createRefreshToken, Claims
  <2> HIDE DEF r0, r, new
  <2>5. Sent(s, tokens)
    BY <1>3, <2>1, <2>2
  <2> HIDE DEF s
  <2>6. attempts'[a] = s /\ \A b \in Attempt \ {a} : attempts'[b] = attempts[b]
    BY <2>1, Became
  <2>7. \A b \in Attempt : Sent(attempts'[b], tokens)
    BY <2>5, <2>6 DEF AccessInv
  <2>8. \A b \in Attempt : Sent(attempts'[b], tokens')
    BY <2>1, <2>7, SentMore
  <2>9. \A t \in tokens' : Minted(t)
    BY <2>1, <2>4 DEF AccessInv
  <2> QED
    BY <2>8, <2>9 DEF AccessInv
<1>6. CASE deleteMe(a)
  <2> DEFINE r == [r0 EXCEPT !.took = ~isDeleted[r0.user]]
             status == IF isDeleted[r0.user] THEN 404 ELSE 200
  <2>1. At(a) = "handling" /\ UNCHANGED tokens /\ Becomes(a, Answered(r, status, TRUE))
    BY <1>6 DEF deleteMe, Handles
  <2>2. /\ DOMAIN r = Fields /\ r.route = r0.route /\ r.body = r0.body /\ r.token = r0.token
        /\ r.user = r0.user /\ r.enteredAt = r0.enteredAt
    BY <1>1 DEF Fields
  <2> HIDE DEF r, status
  <2>3. Sent(Answered(r, status, TRUE), tokens)
    BY <1>3, <2>1, <2>2
  <2> QED
    BY <2>1, <2>3, SentBecomes
<1>7. CASE TakeEffect(a)
  <2> DEFINE s == [r0 EXCEPT !.took = TRUE]
  <2>1. At(a) = "handling" /\ UNCHANGED tokens /\ Becomes(a, s)
    BY <1>7 DEF TakeEffect, Handles, accountVars
  <2>2. /\ s.at = r0.at /\ s.route = r0.route /\ s.body = r0.body /\ s.token = r0.token
        /\ s.user = r0.user /\ s.enteredAt = r0.enteredAt
    BY <1>1 DEF Fields
  <2>3. s.at = "handling"
    BY <2>1, <2>2 DEF At
  <2> HIDE DEF s, r0
  <2>4. Sent(s, tokens)
    BY <1>1, <1>2, <2>1, <2>2, <2>3, SentGoesOn
  <2> QED
    BY <2>1, <2>4, SentBecomes
<1>8. ASSUME At(a) = "handling", UNCHANGED tokens, NEW status, NEW heard,
             Becomes(a, Answered(r0, status, heard))
      PROVE  AccessInv'
  <2>1. Sent(Answered(r0, status, heard), tokens)
    BY <1>1, <1>3, <1>8
  <2> HIDE DEF r0
  <2> QED
    BY <1>8, <2>1, SentBecomes
<1>9. CASE \E aborted \in BOOLEAN : Health(a, aborted)
  <2>1. PICK aborted \in BOOLEAN : Health(a, aborted)
    BY <1>9
  <2> QED
    BY <1>8, <2>1 DEF Health, Handles, accountVars
<1>10. CASE Succeed(a)
  BY <1>8, <1>10 DEF Succeed, Handles, accountVars
<1>11. CASE \E error \in Thrown, heard \in Hearing(a) : Fail(a, error, heard)
  <2>1. PICK error \in Thrown, heard \in Hearing(a) : Fail(a, error, heard)
    BY <1>11
  <2> QED
    BY <1>8, <2>1 DEF Fail, Handles, accountVars
<1> QED
  BY <1>4, <1>5, <1>6, <1>7, <1>9, <1>10, <1>11 DEF HandlerNext

LEMMA AccessStep ==
    ASSUME ServedInv, AccessInv, [GatewayNext]_vars
    PROVE  AccessInv'
<1>1. ASSUME UNCHANGED <<attempts, tokens>> PROVE AccessInv'
  BY <1>1 DEF AccessInv
<1>2. CASE UNCHANGED vars
  BY <1>1, <1>2 DEF vars, gatewayVars, accountVars
<1>3. CASE Tick
  BY <1>1, <1>3 DEF Tick, accountVars
<1>4. CASE ProcessStep
  <2>1. UNCHANGED tokens
    BY <1>4 DEF ProcessStep, accountVars
  <2>2. ASSUME NEW a \in Attempt PROVE Sent(attempts'[a], tokens)
    <3> DEFINE r == attempts[a]
               s == [r EXCEPT !.at = "cut"]
    <3>1. attempts'[a] = r \/ attempts'[a] = s
      BY <1>4 DEF ProcessStep
    <3>2. Sent(r, tokens) /\ DOMAIN r = Fields
      BY DEF AccessInv, ServedInv
    <3>3. /\ s.at = "cut" /\ s.route = r.route /\ s.body = r.body /\ s.token = r.token
          /\ s.user = r.user /\ s.took = r.took /\ s.enteredAt = r.enteredAt
      BY <3>2 DEF Fields
    <3> HIDE DEF r, s
    <3>4. Admitted(r) => Admitted(s)
      BY <3>3, SamePassed DEF Admitted
    <3>5. Sent(s, tokens)
      BY <3>2, <3>3, <3>4 DEF Sent, Waiting
    <3> QED
      BY <3>1, <3>2, <3>5
  <2> QED
    BY <2>1, <2>2 DEF AccessInv
<1>5. ASSUME NEW a \in Attempt, RequestNext(a) PROVE AccessInv'
  <2>1. CASE \E part \in {p \in DOMAIN Requests : left[p] > 0} : \E q \in Requests[part] :
                \E token \in TokensOf(q.type) : Receive(a, part, q, token)
    BY <2>1, AccessReceive
  <2>2. CASE \E heard \in Hearing(a) : SetApplies(a, heard)
    BY <2>2, AccessSetApplies
  <2>3. CASE Bypass(a)
    BY <2>3, AccessBypass
  <2>4. CASE DelApplies(a) \/ CommandLost(a)
    BY <1>1, <2>4 DEF DelApplies, CommandLost, accountVars
  <2>5. CASE HandlerNext(a)
    BY <2>5, AccessHandler
  <2> QED
    BY <1>5, <2>1, <2>2, <2>3, <2>4, <2>5 DEF RequestNext, HandlerNext
<1> QED
  BY <1>2, <1>3, <1>4, <1>5 DEF GatewayNext

LEMMA AccessInit == GatewayInit => AccessInv
<1> SUFFICES ASSUME GatewayInit PROVE AccessInv
  OBVIOUS
<1>1. \A a \in Attempt : attempts[a] = Unsent
  BY DEF GatewayInit
<1>2. Sent(Unsent, tokens)
  BY DEF Unsent, Sent, Waiting
<1>3. ASSUME NEW u \in Account
      PROVE  /\ Minted(createAccessToken(u, AccountOf(u), 0))
             /\ Minted(createRefreshToken(u, AccountOf(u), 0))
             /\ Minted(createOnboardingToken(u, AccountOf(u), 0))
             /\ Minted(createForgotPassToken(u, AccountOf(u), 0))
  BY DEF GatewayInit, Minted, createAccessToken, createRefreshToken, createOnboardingToken,
         createForgotPassToken, Claims, AccountOf
<1>4. \A t \in tokens : Minted(t)
  BY <1>3 DEF GatewayInit
<1> QED
  BY <1>1, <1>2, <1>4 DEF AccessInv

\* Whatever a request does it does for the account its token was made for, with the role
\* and within the time that token has, on a route whose guards ask for such a token
\* (createAccessToken, authenticate, authorize and the routers).
THEOREM AccessAlwaysFollowsAccount == Spec => []AccessFollowsAccount
<1> DEFINE I == Inv /\ AccessInv
<1>1. GatewayInit => I
  BY InvInit, AccessInit
<1>2. I /\ [GatewayNext]_vars => I'
  BY InvStep, AccessStep DEF Inv
<1>3. I => AccessFollowsAccount
  BY AccessInvAllows
<1> HIDE DEF I
<1> QED
  BY <1>1, <1>2, <1>3, PTL DEF Spec
===============================================================================
