-------------------------------- MODULE Realtime --------------------------------
(***************************************************************************)
(* Sockets, rooms and presence: infrastructure/realtime.                   *)
(*                                                                         *)
(* Every server process keeps its own table of the sockets of each user    *)
(* (onlineUserSockets). With the Redis adapter an emit reaches the sockets *)
(* of all processes, without it those of its own; the table is never       *)
(* shared. A client believes what presence:initial and the presence:update *)
(* events after it have told it.                                           *)
(*                                                                         *)
(* This module also holds the requests in flight that Chat and             *)
(* Notifications add their steps to: the steps of a handler are the awaited*)
(* calls, and everything between two of them is one step.                  *)
(***************************************************************************)
EXTENDS Integers, Sequences, FiniteSets, SequencesExt

CONSTANTS
    Customer, Admin,    \* accounts by role: USER and superAdmin
    Socket,             \* socket ids a server draws
    Instance,           \* server processes
    Nobody,             \* no user, no instance
    useRedisAdapter,    \* config.realtime.useRedisAdapter
    Connected,          \* the sockets connected at the start
    Token,              \* access tokens clients present in the handshake
    Handler,            \* requests and events served at the same time
    Budgets             \* bound: how many requests of each part a behaviour has

VARIABLES
    owner,      \* owner[s]: the user of a connected socket, or Nobody
    home,       \* home[s]: the instance it is connected to
    onlineUserSockets,  \* [i][u]: the sockets of u that instance i tracks
    rooms,      \* rooms[s]: the chat rooms the socket is in
    view,       \* view[s]: the users its client believes online
    placed,     \* history: the instances each user has had sockets on
    at, req,    \* handlers: the awaited call, and what the handler holds
    left        \* left[part]: the requests the behaviour may still begin

User == Customer \cup Admin

Part == {"chat", "notify", "listen", "crash"}

ASSUME RealtimeAssumption ==
    /\ Nobody \notin User \cup Socket \cup Instance
    /\ Customer \cap Admin = {} /\ Admin # {} /\ IsFiniteSet(User)
    /\ \A s \in DOMAIN Connected : Connected[s].user \in User /\ Connected[s].instance \in Instance
    /\ \A token \in Token : token.sub \in User
    /\ Budgets \subseteq [Part -> Nat]

\* f with x mapped to value.
with(f, x, value) == [y \in DOMAIN f \cup {x} |-> IF y = x THEN value ELSE f[y]]

presence == <<owner, home, onlineUserSockets, view, placed>>
realtimeVars == <<presence, rooms, at, req, left>>

isOpen(s) == owner[s] # Nobody
SocketsOf(u) == {s \in Socket : owner[s] = u}

\* The sockets an emit of instance i reaches.
Reached(i) == {s \in Socket : isOpen(s) /\ (useRedisAdapter \/ home[s] = i)}

\* What a handler holds, here of a request that holds nothing: its user, the socket
\* it came on and the instance that serves it; of a notification the event it tells
\* of, whom it has yet to tell, whom it has just mailed, and whether it is aborted
\* when its time is up; of a code the code and the mail it goes out with; of a chat
\* the customer, the pair, the conversation and the message.
NoRequest ==
    [user |-> Nobody, socket |-> Nobody, instance |-> Nobody,
     about |-> Nobody, todo |-> {}, mailed |-> Nobody, aborts |-> FALSE,
     code |-> 0, status |-> "none",
     target |-> Nobody, pair |-> <<>>, conversation |-> Nobody, message |-> 0]

RealtimeInit ==
    /\ owner = [s \in Socket |-> IF s \in DOMAIN Connected THEN Connected[s].user ELSE Nobody]
    /\ home = [s \in Socket |-> IF s \in DOMAIN Connected THEN Connected[s].instance ELSE Nobody]
    /\ onlineUserSockets =
         [i \in Instance |-> [u \in User |-> {s \in Socket : owner[s] = u /\ home[s] = i}]]
    /\ rooms = [s \in Socket |-> {}]
    /\ view = [s \in Socket |-> {u \in User : \E t \in Socket :
                                    isOpen(s) /\ owner[t] = u /\ home[t] = home[s]}]
    /\ placed = [u \in User |-> {i \in Instance : onlineUserSockets[i][u] # {}}]
    /\ at = [h \in Handler |-> "idle"]
    /\ req = [h \in Handler |-> NoRequest]
    /\ left \in Budgets

-------------------------------------------------------------------------------
(* Handlers *)

Spend(part) == left[part] > 0 /\ left' = [left EXCEPT ![part] = @ - 1]

Accept(h, part, step, request) ==
    /\ at[h] = "idle"
    /\ Spend(part)
    /\ at' = [at EXCEPT ![h] = step]
    /\ req' = [req EXCEPT ![h] = request]

\* A request served in one step.
Serve(part) == Spend(part) /\ UNCHANGED <<at, req>>

GoTo(h, step, request) ==
    /\ at' = [at EXCEPT ![h] = step]
    /\ req' = [req EXCEPT ![h] = request]
    /\ UNCHANGED left

Answer(h) == GoTo(h, "idle", NoRequest)

-------------------------------------------------------------------------------
(* Handshake and presence *)

\* The signature and the shape of the claims.
verifySocketAccessToken(token) == token.type = "access"

\* The claims of a token that verifies; whatever has become of the account since.
authenticateSocket(token) ==
    /\ verifySocketAccessToken(token)
    /\ ~token.isDeleted
    /\ token.status = "active"

onlineUserIds(i) == {u \in User : onlineUserSockets[i][u] # {}}

\* A socket connects to instance i. It is told who is online there, and the
\* others are told of its user if that was not.
Connection(s, i, token) ==
    LET u == token.sub
        wasOffline == onlineUserSockets[i][u] = {}
        others == Reached(i) \ {s}
    IN /\ ~isOpen(s)
       /\ \A h \in Handler : req[h].socket # s
       /\ authenticateSocket(token)
       /\ Serve("chat")
       /\ owner' = [owner EXCEPT ![s] = u]
       /\ home' = [home EXCEPT ![s] = i]
       /\ onlineUserSockets' = [onlineUserSockets EXCEPT ![i][u] = @ \cup {s}]
       /\ placed' = [placed EXCEPT ![u] = @ \cup {i}]
       /\ view' = [t \in Socket |->
                     IF t = s THEN onlineUserIds(i) \cup {u}
                     ELSE IF wasOffline /\ t \in others THEN view[t] \cup {u} ELSE view[t]]
       /\ UNCHANGED rooms

\* presence:list
PresenceList(s) ==
    /\ isOpen(s)
    /\ Serve("chat")
    /\ view' = [view EXCEPT ![s] = onlineUserIds(home[s])]
    /\ UNCHANGED <<owner, home, onlineUserSockets, placed, rooms>>

\* Slip: the user is taken off the table with the first socket that closes.
disconnect_Offline(s) ==
    LET u == owner[s]
        i == home[s]
    IN /\ isOpen(s)
       /\ onlineUserSockets' = [onlineUserSockets EXCEPT ![i][u] = {}]
       /\ owner' = [owner EXCEPT ![s] = Nobody]
       /\ home' = [home EXCEPT ![s] = Nobody]
       /\ rooms' = [rooms EXCEPT ![s] = {}]
       /\ view' = [t \in Socket |-> IF t = s THEN {}
                                    ELSE IF t \in Reached(i) THEN view[t] \ {u} ELSE view[t]]
       /\ UNCHANGED <<at, req, left, placed>>

\* The last socket of a user on its instance takes the user off the table.
disconnect(s) ==
    LET u == owner[s]
        i == home[s]
        rest == onlineUserSockets[i][u] \ {s}
    IN /\ isOpen(s)
       /\ onlineUserSockets' = [onlineUserSockets EXCEPT ![i][u] = rest]
       /\ owner' = [owner EXCEPT ![s] = Nobody]
       /\ home' = [home EXCEPT ![s] = Nobody]
       /\ rooms' = [rooms EXCEPT ![s] = {}]
       /\ view' = [t \in Socket |->
                     IF t = s THEN {}
                     ELSE IF rest = {} /\ t \in Reached(i) THEN view[t] \ {u} ELSE view[t]]
       /\ UNCHANGED <<at, req, left, placed>>

\* The process dies with its table, its sockets and the requests it was serving,
\* and announces nothing.
InstanceDies(i) ==
    LET gone == {s \in Socket : home[s] = i} IN
    /\ gone # {}
    /\ Spend("crash")
    /\ at' = [h \in Handler |-> IF req[h].instance = i THEN "idle" ELSE at[h]]
    /\ req' = [h \in Handler |-> IF req[h].instance = i THEN NoRequest ELSE req[h]]
    /\ onlineUserSockets' = [onlineUserSockets EXCEPT ![i] = [u \in User |-> {}]]
    /\ owner' = [s \in Socket |-> IF s \in gone THEN Nobody ELSE owner[s]]
    /\ home' = [s \in Socket |-> IF s \in gone THEN Nobody ELSE home[s]]
    /\ rooms' = [s \in Socket |-> IF s \in gone THEN {} ELSE rooms[s]]
    /\ view' = [s \in Socket |-> IF s \in gone THEN {} ELSE view[s]]
    /\ UNCHANGED placed

-------------------------------------------------------------------------------
(* Properties *)

\* What a client believes of a user is true, however their sockets come and go,
\* as long as the user has only ever been connected to the client's own instance.
\* With sockets on two instances it is not: each announces the user offline when
\* its own last socket closes, and tells newcomers only of its own users.
PresenceAgrees ==
    \A s \in Socket, u \in User :
        isOpen(s) /\ placed[u] \subseteq {home[s]} =>
            (u \in view[s] <=> SocketsOf(u) # {})
===============================================================================
