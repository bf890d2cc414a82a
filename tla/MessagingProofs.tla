---------------------------- MODULE MessagingProofs ----------------------------
(***************************************************************************)
(* For every set of users, sockets, instances and handlers, and every      *)
(* number of requests and deaths: what clients believe of who is online,   *)
(* the push jobs, what users are told, and the chat.                       *)
(***************************************************************************)
EXTENDS Messaging, TLAPS, FiniteSetTheorems, SequenceTheorems, WellFoundedInduction

-------------------------------------------------------------------------------
(* Presence *)

\* The table of an instance holds the sockets connected to it, a user has been on
\* every instance it has a socket on, and a client is right about a user who has
\* only ever been on the client's own.
PresenceInv ==
    /\ DOMAIN owner = Socket /\ DOMAIN home = Socket
    /\ DOMAIN view = Socket /\ DOMAIN placed = User
    /\ DOMAIN onlineUserSockets = Instance
    /\ \A s \in Socket : /\ owner[s] \in User \cup {Nobody}
                         /\ isOpen(s) => home[s] \in Instance /\ home[s] \in placed[owner[s]]
                         /\ ~isOpen(s) => home[s] = Nobody
    /\ \A i \in Instance :
          /\ DOMAIN onlineUserSockets[i] = User
          /\ \A u \in User : onlineUserSockets[i][u] = {s \in Socket : owner[s] = u /\ home[s] = i}
    /\ PresenceAgrees

LEMMA PresenceStarts == RealtimeInit => PresenceInv
<1> SUFFICES ASSUME RealtimeInit PROVE PresenceInv
  OBVIOUS
<1>1. /\ owner = [s \in Socket |-> IF s \in DOMAIN Connected THEN Connected[s].user ELSE Nobody]
      /\ home = [s \in Socket |-> IF s \in DOMAIN Connected THEN Connected[s].instance ELSE Nobody]
  BY DEF RealtimeInit
<1>2. onlineUserSockets =
         [i \in Instance |-> [u \in User |-> {s \in Socket : owner[s] = u /\ home[s] = i}]]
  BY DEF RealtimeInit
<1>3. /\ view = [s \in Socket |-> {u \in User : \E t \in Socket :
                                    isOpen(s) /\ owner[t] = u /\ home[t] = home[s]}]
      /\ placed = [u \in User |-> {i \in Instance : onlineUserSockets[i][u] # {}}]
  BY DEF RealtimeInit
<1>4. ASSUME NEW s \in Socket
      PROVE  /\ owner[s] \in User \cup {Nobody}
             /\ isOpen(s) => home[s] \in Instance
             /\ ~isOpen(s) => home[s] = Nobody
  BY <1>1, RealtimeAssumption DEF isOpen
<1>5. ASSUME NEW s \in Socket, isOpen(s) PROVE home[s] \in placed[owner[s]]
  <2>1. owner[s] \in User /\ home[s] \in Instance
    BY <1>4, <1>5 DEF isOpen
  <2>2. s \in onlineUserSockets[home[s]][owner[s]]
    BY <1>2, <2>1
  <2> QED
    BY <1>3, <2>1, <2>2
<1>6. PresenceAgrees
  <2> SUFFICES ASSUME NEW s \in Socket, NEW u \in User, isOpen(s), placed[u] \subseteq {home[s]}
               PROVE  u \in view[s] <=> SocketsOf(u) # {}
    BY DEF PresenceAgrees
  <2>1. ASSUME NEW t \in Socket, owner[t] = u PROVE home[t] = home[s]
    BY <1>5, <2>1, RealtimeAssumption DEF isOpen
  <2>2. u \in view[s] <=> \E t \in Socket : owner[t] = u /\ home[t] = home[s]
    BY <1>3
  <2> QED
    BY <2>1, <2>2 DEF SocketsOf
<1> QED
  BY <1>1, <1>2, <1>3, <1>4, <1>5, <1>6 DEF PresenceInv

LEMMA StepConnection ==
    ASSUME PresenceInv, NEW s \in Socket, NEW i \in Instance, NEW token \in Token,
           Connection(s, i, token)
    PROVE  PresenceInv'
<1> DEFINE u == token.sub
           table == onlineUserSockets
<1>1. u \in User /\ u # Nobody /\ i # Nobody
  BY RealtimeAssumption
<1>2. ~isOpen(s) /\ owner[s] = Nobody /\ home[s] = Nobody
  BY DEF Connection, PresenceInv, isOpen
<1>3. /\ owner' = [owner EXCEPT ![s] = u] /\ home' = [home EXCEPT ![s] = i]
      /\ onlineUserSockets' = [onlineUserSockets EXCEPT ![i][u] = @ \cup {s}]
      /\ placed' = [placed EXCEPT ![u] = @ \cup {i}]
  BY DEF Connection
<1>4. view' = [t \in Socket |->
                 IF t = s THEN onlineUserIds(i) \cup {u}
                 ELSE IF table[i][u] = {} /\ t \in Reached(i) \ {s} THEN view[t] \cup {u}
                 ELSE view[t]]
  BY DEF Connection
<1> HIDE DEF u
<1>5. /\ DOMAIN owner' = Socket /\ DOMAIN home' = Socket /\ DOMAIN view' = Socket
      /\ DOMAIN placed' = User /\ DOMAIN onlineUserSockets' = Instance
  BY <1>3, <1>4 DEF PresenceInv
<1>6. /\ owner'[s] = u /\ home'[s] = i /\ placed'[u] = placed[u] \cup {i}
      /\ \A t \in Socket \ {s} : owner'[t] = owner[t] /\ home'[t] = home[t]
      /\ \A w \in User \ {u} : placed'[w] = placed[w]
  BY <1>1, <1>3 DEF PresenceInv
<1>7. ASSUME NEW t \in Socket
      PROVE  /\ owner'[t] \in User \cup {Nobody}
             /\ isOpen(t)' => home'[t] \in Instance /\ home'[t] \in placed'[owner'[t]]
             /\ ~isOpen(t)' => home'[t] = Nobody
  <2>1. CASE t = s
    BY <1>1, <1>6, <2>1 DEF isOpen
  <2>2. CASE t # s
    <3>1. owner'[t] = owner[t] /\ home'[t] = home[t] /\ (isOpen(t)' <=> isOpen(t))
      BY <1>6, <2>2 DEF isOpen
    <3>2. \A w \in User : placed[w] \subseteq placed'[w]
      BY <1>1, <1>6
    <3> QED
      BY <3>1, <3>2 DEF PresenceInv, isOpen
  <2> QED
    BY <2>1, <2>2
<1>8. ASSUME NEW j \in Instance
      PROVE  /\ DOMAIN onlineUserSockets'[j] = User
             /\ \A w \in User : onlineUserSockets'[j][w] =
                                  {t \in Socket : owner'[t] = w /\ home'[t] = j}
  <2>1. DOMAIN onlineUserSockets'[j] = User
    BY <1>3 DEF PresenceInv
  <2>2. ASSUME NEW w \in User
        PROVE  onlineUserSockets'[j][w] = {t \in Socket : owner'[t] = w /\ home'[t] = j}
    <3>1. table[j][w] = {t \in Socket : owner[t] = w /\ home[t] = j}
      BY DEF PresenceInv
    <3>2. onlineUserSockets'[j][w] = IF j = i /\ w = u THEN table[j][w] \cup {s} ELSE table[j][w]
      BY <1>3 DEF PresenceInv
    <3> HIDE DEF table
    <3> QED
      BY <1>2, <1>6, <3>1, <3>2, RealtimeAssumption
  <2> QED
    BY <2>1, <2>2
<1>9. ASSUME NEW t \in Socket, NEW w \in User, isOpen(t)', placed'[w] \subseteq {home'[t]}
      PROVE  w \in view'[t] <=> SocketsOf(w)' # {}
  <2>1. ASSUME NEW x \in Socket, owner[x] = w PROVE home[x] = home'[t]
    <3>1. home[x] \in placed[w]
      BY <2>1, RealtimeAssumption DEF PresenceInv, isOpen
    <3> QED
      BY <1>1, <1>6, <1>9, <3>1
  <2>2. SocketsOf(w)' # {} <=> w = u \/ SocketsOf(w) # {}
    BY <1>1, <1>2, <1>6, RealtimeAssumption DEF SocketsOf
  <2>3. CASE t = s
    <3>1. w \in onlineUserIds(i) <=> SocketsOf(w) # {}
      BY <1>6, <2>1, <2>3 DEF onlineUserIds, PresenceInv, SocketsOf
    <3> QED
      BY <1>4, <2>2, <2>3, <3>1
  <2>4. CASE t # s
    <3>1. isOpen(t) /\ home'[t] = home[t]
      BY <1>6, <1>9, <2>4 DEF isOpen
    <3>2. placed[w] \subseteq {home[t]}
      BY <1>1, <1>6, <1>9, <3>1
    <3>3. w \in view[t] <=> SocketsOf(w) # {}
      BY <3>1, <3>2 DEF PresenceInv, PresenceAgrees
    <3>4. CASE w # u
      BY <1>4, <2>2, <2>4, <3>3, <3>4
    <3>5. CASE w = u
      <4>1. home[t] = i /\ t \in Reached(i)
        BY <1>6, <1>9, <3>1, <3>5 DEF Reached
      <4>2. table[i][u] # {} => SocketsOf(u) # {}
        BY <1>1 DEF PresenceInv, SocketsOf
      <4> HIDE DEF table
      <4> QED
        BY <1>4, <2>2, <2>4, <3>3, <3>5, <4>1, <4>2
    <3> QED
      BY <3>4, <3>5
  <2> QED
    BY <2>3, <2>4
<1>10. PresenceAgrees'
  BY <1>9 DEF PresenceAgrees
<1> QED
  BY <1>5, <1>7, <1>8, <1>10 DEF PresenceInv

LEMMA StepDisconnect ==
    ASSUME PresenceInv, NEW s \in Socket, disconnect(s)
    PROVE  PresenceInv'
<1> DEFINE u == owner[s]
           i == home[s]
           table == onlineUserSockets
           rest == table[i][u] \ {s}
<1>1. u \in User /\ u # Nobody /\ i \in Instance /\ i # Nobody
  BY RealtimeAssumption DEF disconnect, PresenceInv, isOpen
<1>2. /\ owner' = [owner EXCEPT ![s] = Nobody] /\ home' = [home EXCEPT ![s] = Nobody]
      /\ onlineUserSockets' = [onlineUserSockets EXCEPT ![i][u] = rest]
      /\ placed' = placed
  BY DEF disconnect
<1>3. view' = [t \in Socket |->
                 IF t = s THEN {}
                 ELSE IF rest = {} /\ t \in Reached(i) THEN view[t] \ {u} ELSE view[t]]
  BY DEF disconnect
<1>4. rest = {t \in Socket \ {s} : owner[t] = u /\ home[t] = i}
  BY <1>1 DEF PresenceInv
<1> HIDE DEF rest
<1>5. /\ DOMAIN owner' = Socket /\ DOMAIN home' = Socket /\ DOMAIN view' = Socket
      /\ DOMAIN placed' = User /\ DOMAIN onlineUserSockets' = Instance
  BY <1>2, <1>3 DEF PresenceInv
<1>6. /\ owner'[s] = Nobody /\ home'[s] = Nobody
      /\ \A t \in Socket \ {s} : owner'[t] = owner[t] /\ home'[t] = home[t]
  BY <1>2 DEF PresenceInv
<1>7. ASSUME NEW t \in Socket
      PROVE  /\ owner'[t] \in User \cup {Nobody}
             /\ isOpen(t)' => home'[t] \in Instance /\ home'[t] \in placed'[owner'[t]]
             /\ ~isOpen(t)' => home'[t] = Nobody
  BY <1>2, <1>6 DEF PresenceInv, isOpen
<1>8. ASSUME NEW j \in Instance
      PROVE  /\ DOMAIN onlineUserSockets'[j] = User
             /\ \A w \in User : onlineUserSockets'[j][w] =
                                  {t \in Socket : owner'[t] = w /\ home'[t] = j}
  <2>1. DOMAIN onlineUserSockets'[j] = User
    BY <1>2 DEF PresenceInv
  <2>2. ASSUME NEW w \in User
        PROVE  onlineUserSockets'[j][w] = {t \in Socket : owner'[t] = w /\ home'[t] = j}
    <3>1. table[j][w] = {t \in Socket : owner[t] = w /\ home[t] = j}
      BY DEF PresenceInv
    <3>2. onlineUserSockets'[j][w] = IF j = i /\ w = u THEN rest ELSE table[j][w]
      BY <1>1, <1>2 DEF PresenceInv
    <3> HIDE DEF table
    <3> QED
      BY <1>1, <1>4, <1>6, <3>1, <3>2, RealtimeAssumption
  <2> QED
    BY <2>1, <2>2
<1>9. ASSUME NEW t \in Socket, NEW w \in User, isOpen(t)', placed'[w] \subseteq {home'[t]}
      PROVE  w \in view'[t] <=> SocketsOf(w)' # {}
  <2>1. t # s /\ isOpen(t) /\ home'[t] = home[t]
    BY <1>6, <1>9 DEF isOpen
  <2>2. placed[w] \subseteq {home[t]}
    BY <1>2, <1>9, <2>1
  <2>3. w \in view[t] <=> SocketsOf(w) # {}
    BY <2>1, <2>2 DEF PresenceInv, PresenceAgrees
  <2>4. ASSUME NEW x \in Socket, owner[x] = w PROVE home[x] = home[t]
    <3>1. home[x] \in placed[w]
      BY <2>4, RealtimeAssumption DEF PresenceInv, isOpen
    <3> QED
      BY <2>2, <3>1
  <2>5. CASE w # u
    <3>1. SocketsOf(w)' = SocketsOf(w)
      BY <1>6, <2>5, RealtimeAssumption DEF SocketsOf
    <3> QED
      BY <1>3, <2>1, <2>3, <2>5, <3>1
  <2>6. CASE w = u
    <3>1. home[t] = i /\ t \in Reached(i)
      BY <2>1, <2>4, <2>6 DEF Reached
    <3>2. SocketsOf(w)' = rest /\ SocketsOf(w) # {}
      BY <1>1, <1>4, <1>6, <2>4, <2>6, <3>1 DEF SocketsOf
    <3> QED
      BY <1>3, <2>1, <2>3, <2>6, <3>1, <3>2
  <2> QED
    BY <2>5, <2>6
<1>10. PresenceAgrees'
  BY <1>9 DEF PresenceAgrees
<1> QED
  BY <1>5, <1>7, <1>8, <1>10 DEF PresenceInv

LEMMA StepPresenceList ==
    ASSUME PresenceInv, NEW s \in Socket, PresenceList(s)
    PROVE  PresenceInv'
<1>1. /\ UNCHANGED <<owner, home, onlineUserSockets, placed>>
      /\ view' = [view EXCEPT ![s] = onlineUserIds(home[s])] /\ isOpen(s)
  BY DEF PresenceList
<1>2. ASSUME NEW t \in Socket, NEW u \in User, isOpen(t), placed[u] \subseteq {home[t]}
      PROVE  u \in view'[t] <=> SocketsOf(u) # {}
  <2>1. CASE t # s
    <3>1. view'[t] = view[t]
      BY <1>1, <2>1 DEF PresenceInv
    <3> QED
      BY <1>2, <3>1 DEF PresenceInv, PresenceAgrees
  <2>2. CASE t = s
    <3>1. view'[t] = onlineUserIds(home[s]) /\ home[s] \in Instance
      BY <1>1, <2>2 DEF PresenceInv
    <3>2. ASSUME NEW x \in Socket, owner[x] = u PROVE home[x] = home[s]
      BY <1>2, <2>2, <3>2, RealtimeAssumption DEF PresenceInv, isOpen
    <3> QED
      BY <3>1, <3>2 DEF onlineUserIds, SocketsOf, PresenceInv
  <2> QED
    BY <2>1, <2>2
<1>3. PresenceAgrees'
  BY <1>1, <1>2 DEF PresenceAgrees, isOpen, SocketsOf
<1>4. DOMAIN view' = Socket
  BY <1>1 DEF PresenceInv
<1> QED
  BY <1>1, <1>3, <1>4 DEF PresenceInv, isOpen

LEMMA StepInstanceDies ==
    ASSUME PresenceInv, NEW i \in Instance, InstanceDies(i)
    PROVE  PresenceInv'
<1> DEFINE gone == {s \in Socket : home[s] = i}
<1>1. /\ onlineUserSockets' = [onlineUserSockets EXCEPT ![i] = [u \in User |-> {}]]
      /\ owner' = [s \in Socket |-> IF s \in gone THEN Nobody ELSE owner[s]]
      /\ home' = [s \in Socket |-> IF s \in gone THEN Nobody ELSE home[s]]
      /\ view' = [s \in Socket |-> IF s \in gone THEN {} ELSE view[s]]
      /\ placed' = placed
  BY DEF InstanceDies
<1>2. /\ \A s \in gone : owner'[s] = Nobody /\ home'[s] = Nobody
      /\ \A s \in Socket \ gone : /\ owner'[s] = owner[s] /\ home'[s] = home[s]
                                  /\ view'[s] = view[s] /\ home[s] # i
  BY <1>1
<1>3. /\ DOMAIN owner' = Socket /\ DOMAIN home' = Socket /\ DOMAIN view' = Socket
      /\ DOMAIN placed' = User /\ DOMAIN onlineUserSockets' = Instance
  BY <1>1 DEF PresenceInv
<1>4. ASSUME NEW t \in Socket
      PROVE  /\ owner'[t] \in User \cup {Nobody}
             /\ isOpen(t)' => home'[t] \in Instance /\ home'[t] \in placed'[owner'[t]]
             /\ ~isOpen(t)' => home'[t] = Nobody
  BY <1>1, <1>2 DEF PresenceInv, isOpen
<1>5. ASSUME NEW j \in Instance
      PROVE  /\ DOMAIN onlineUserSockets'[j] = User
             /\ \A w \in User : onlineUserSockets'[j][w] =
                                  {t \in Socket : owner'[t] = w /\ home'[t] = j}
  <2>1. CASE j = i
    BY <1>1, <1>2, <2>1, RealtimeAssumption DEF PresenceInv
  <2>2. CASE j # i
    <3>1. onlineUserSockets'[j] = onlineUserSockets[j]
      BY <1>1, <2>2 DEF PresenceInv
    <3>2. \A w \in User : onlineUserSockets[j][w] = {t \in Socket : owner[t] = w /\ home[t] = j}
      BY DEF PresenceInv
    <3>3. ASSUME NEW w \in User, NEW t \in Socket
          PROVE  owner'[t] = w /\ home'[t] = j <=> owner[t] = w /\ home[t] = j
      BY <1>2, <2>2, RealtimeAssumption
    <3>4. DOMAIN onlineUserSockets[j] = User
      BY DEF PresenceInv
    <3> QED
      BY <3>1, <3>2, <3>3, <3>4
  <2> QED
    BY <2>1, <2>2
<1>6. ASSUME NEW t \in Socket, NEW w \in User, isOpen(t)', placed'[w] \subseteq {home'[t]}
      PROVE  w \in view'[t] <=> SocketsOf(w)' # {}
  <2>1. t \notin gone /\ isOpen(t) /\ home'[t] = home[t] /\ view'[t] = view[t] /\ home[t] # i
    BY <1>2, <1>6 DEF isOpen
  <2>2. placed[w] \subseteq {home[t]}
    BY <1>1, <1>6, <2>1
  <2>3. w \in view[t] <=> SocketsOf(w) # {}
    BY <2>1, <2>2 DEF PresenceInv, PresenceAgrees
  <2>4. ASSUME NEW x \in Socket, owner[x] = w PROVE x \notin gone
    BY <2>1, <2>2, <2>4, RealtimeAssumption DEF PresenceInv, isOpen
  <2>5. SocketsOf(w)' = SocketsOf(w)
    BY <1>2, <2>4, RealtimeAssumption DEF SocketsOf
  <2> QED
    BY <2>1, <2>3, <2>5
<1>7. PresenceAgrees'
  BY <1>6 DEF PresenceAgrees
<1> QED
  BY <1>3, <1>4, <1>5, <1>7 DEF PresenceInv

\* Nothing but sockets that come and go, a list asked for and a death changes presence.
LEMMA PresenceRests ==
    ASSUME MessagingNext
    PROVE  \/ \E s \in Socket, i \in Instance, token \in Token : Connect(s, i, token)
           \/ \E s \in Socket : Disconnect(s) \/ ListUsers(s)
           \/ \E i \in Instance : Die(i)
           \/ UNCHANGED presence
<1>1. ASSUME NEW h \in Handler, ChatNext(h) PROVE UNCHANGED presence
  BY <1>1 DEF ChatNext, StartConversation, CreateConversation, FindCreated, SendMessage,
              CreateMessage, SaveConversation, SendFails
<1>2. ASSUME NEW s \in Socket, NEW c \in Conversation, RoomNext(s, c) PROVE UNCHANGED presence
  BY <1>2 DEF RoomNext, Join, Leave, History
<1>3. ASSUME NEW h \in Handler, NotifyNext(h) PROVE UNCHANGED presence
  BY <1>3 DEF NotifyNext, ApiNotify, NotifyAdminsOfNewOrder, UserRegistered, notifyAdmins,
              CreateNotification, SendNotificationMail, CreateRefused, Broadcast, CreateMany,
              CreateManyRefused, withAbort
<1>4. ASSUME NEW u \in User, MailboxNext(u) PROVE UNCHANGED presence
  BY <1>4 DEF MailboxNext, MarkRead, MarkAllRead, SoftDelete
<1>5. ASSUME NEW h \in Handler, ListenNext(h) PROVE UNCHANGED presence
  BY <1>5 DEF ListenNext, approveUser, declineUser, Decide, emit, UpdateFails,
              MailDecision, EnqueuePush,
              EnqueueRefused, PasswordResetRequested, OtpResend, CodeDrawn, CodeMailed
<1>6. ASSUME NEW k, WorkerNext(k) PROVE UNCHANGED presence
  BY <1>6 DEF WorkerNext, WorkerSends, WorkerFails, WorkerCompletes, WorkerDies, Unbothered
<1>7. ASSUME NEW w, WriteGoesOn(w) PROVE UNCHANGED presence
  BY <1>7 DEF WriteGoesOn
<1>8. ASSUME NEW u, NEW i, EmailVerified(u, i) PROVE UNCHANGED presence
  BY <1>8 DEF EmailVerified
<1> QED
  BY <1>1, <1>2, <1>3, <1>4, <1>5, <1>6, <1>7, <1>8 DEF MessagingNext

LEMMA PresenceStays ==
    ASSUME PresenceInv, UNCHANGED presence
    PROVE  PresenceInv'
BY DEF PresenceInv, presence, PresenceAgrees, isOpen, SocketsOf

\* A client is right about who is online, of the users who have only ever been
\* connected to its own instance (socket.handlers.ts, connection and disconnect).
THEOREM ClientsAreRightAboutPresence == Spec => []PresenceAgrees
<1>1. MessagingInit => PresenceInv
  BY PresenceStarts DEF MessagingInit
<1>2. ASSUME PresenceInv, [MessagingNext]_vars PROVE PresenceInv'
  <2>1. CASE UNCHANGED vars
    BY <1>2, <2>1, PresenceStays DEF vars, realtimeVars
  <2>2. CASE MessagingNext
    BY <1>2, <2>2, PresenceRests, PresenceStays, StepConnection, StepDisconnect,
       StepPresenceList, StepInstanceDies DEF Connect, Disconnect, ListUsers, Die
  <2> QED
    BY <1>2, <2>1, <2>2
<1>3. PresenceInv => PresenceAgrees
  BY DEF PresenceInv
<1> QED
  BY <1>1, <1>2, <1>3, PTL DEF Spec

-------------------------------------------------------------------------------
(* The push queue *)

\* The jobs are those of what was put on the queue, and one that still waits has
\* gone out no more often than a worker has died of it.
QueueInv ==
    /\ \A k \in DOMAIN jobs :
          /\ \E e \in enqueued : k = <<e.user, e.ms>> /\ jobs[k].about = e.about
          /\ DOMAIN jobs[k] = {"about", "state", "attempts", "sent", "deaths"}
          /\ jobs[k].sent \in Nat /\ jobs[k].deaths \in Nat
          /\ jobs[k].sent <= 1 + jobs[k].deaths
          /\ jobs[k].state = "waiting" => jobs[k].sent <= jobs[k].deaths
    /\ \A e \in enqueued : <<e.user, e.ms>> \in DOMAIN jobs

LEMMA QueueHolds == QueueInv => PushOnce
<1> SUFFICES ASSUME QueueInv PROVE PushOnce
  OBVIOUS
<1>1. ASSUME NEW e \in enqueued,
             \A f \in enqueued : f # e => <<f.user, f.ms>> # <<e.user, e.ms>>
      PROVE  \E k \in DOMAIN jobs : jobs[k].about = e.about
  <2> DEFINE k == <<e.user, e.ms>>
  <2>1. k \in DOMAIN jobs
    BY DEF QueueInv
  <2>2. PICK f \in enqueued : k = <<f.user, f.ms>> /\ jobs[k].about = f.about
    BY <2>1 DEF QueueInv
  <2> QED
    BY <1>1, <2>1, <2>2
<1> QED
  BY <1>1 DEF PushOnce, QueueInv

\* A step that changes one job, as the worker does.
LEMMA JobChanges ==
    ASSUME QueueInv, enqueued' = enqueued, NEW k \in DOMAIN jobs, NEW job,
           jobs' = [jobs EXCEPT ![k] = job],
           DOMAIN job = {"about", "state", "attempts", "sent", "deaths"},
           job.about = jobs[k].about, job.sent \in Nat, job.deaths \in Nat,
           job.sent <= 1 + job.deaths, job.state = "waiting" => job.sent <= job.deaths
    PROVE  QueueInv'
<1>1. DOMAIN jobs' = DOMAIN jobs
  OBVIOUS
<1>2. ASSUME NEW j \in DOMAIN jobs PROVE jobs'[j] = IF j = k THEN job ELSE jobs[j]
  OBVIOUS
<1> QED
  BY <1>1, <1>2 DEF QueueInv

LEMMA StepWorker ==
    ASSUME QueueInv, NEW k \in DOMAIN jobs, WorkerNext(k)
    PROVE  QueueInv'
<1> DEFINE old == jobs[k]
           Good(job) == /\ DOMAIN job = {"about", "state", "attempts", "sent", "deaths"}
                        /\ job.about = old.about /\ job.sent \in Nat /\ job.deaths \in Nat
                        /\ job.sent <= 1 + job.deaths
                        /\ job.state = "waiting" => job.sent <= job.deaths
<1>1. Good(old)
  BY DEF QueueInv
<1>2. enqueued' = enqueued
  BY DEF WorkerNext, WorkerSends, WorkerFails, WorkerCompletes, WorkerDies, Unbothered
<1>3. CASE WorkerSends(k)
  <2>1. PICK job \in sendPushNotification(old) : jobs' = [jobs EXCEPT ![k] = job]
    BY <1>3 DEF WorkerSends
  <2>2. job = [old EXCEPT !.state = "sent", !.sent = @ + 1] \/ job = [old EXCEPT !.state = "done"]
    BY <2>1 DEF sendPushNotification
  <2>3. old.state = "waiting"
    BY <1>3 DEF WorkerSends
  <2> HIDE DEF old
  <2>4. CASE job = [old EXCEPT !.state = "sent", !.sent = @ + 1]
    <3>1. /\ DOMAIN job = DOMAIN old /\ job.about = old.about /\ job.deaths = old.deaths
          /\ job.sent = old.sent + 1 /\ job.state = "sent"
      BY <1>1, <2>4
    <3>2. old.sent \in Nat /\ old.deaths \in Nat /\ old.sent <= old.deaths
      BY <1>1, <2>3
    <3>3. Good(job)
      BY <1>1, <3>1, <3>2
    <3> QED
      BY <2>1, <3>3, <1>2, JobChanges DEF old
  <2>5. CASE job = [old EXCEPT !.state = "done"]
    <3>1. /\ DOMAIN job = DOMAIN old /\ job.about = old.about /\ job.deaths = old.deaths
          /\ job.sent = old.sent /\ job.state = "done"
      BY <1>1, <2>5
    <3> QED
      BY <1>1, <2>1, <2>3, <3>1, <1>2, JobChanges DEF old
  <2> QED
    BY <2>2, <2>4, <2>5
<1>4. CASE WorkerFails(k)
  <2> DEFINE job == [old EXCEPT !.attempts = @ + 1,
                                !.state = IF old.attempts < 2 THEN "waiting" ELSE "failed"]
  <2>1. jobs' = [jobs EXCEPT ![k] = job] /\ old.state = "waiting"
    BY <1>4 DEF WorkerFails
  <2> HIDE DEF old
  <2>2. Good(job)
    BY <1>1, <2>1
  <2> HIDE DEF job
  <2> QED
    BY <1>2, <2>1, <2>2, JobChanges DEF old
<1>5. CASE WorkerCompletes(k)
  <2> DEFINE job == [old EXCEPT !.state = "done"]
  <2>1. jobs' = [jobs EXCEPT ![k] = job]
    BY <1>5 DEF WorkerCompletes
  <2> HIDE DEF old
  <2>2. Good(job)
    BY <1>1
  <2> HIDE DEF job
  <2> QED
    BY <1>2, <2>1, <2>2, JobChanges DEF old
<1>6. CASE WorkerDies(k)
  <2> DEFINE job == [old EXCEPT !.state = "waiting", !.deaths = @ + 1]
  <2>1. jobs' = [jobs EXCEPT ![k] = job]
    BY <1>6 DEF WorkerDies
  <2> HIDE DEF old
  <2>2. Good(job)
    BY <1>1
  <2> HIDE DEF job
  <2> QED
    BY <1>2, <2>1, <2>2, JobChanges DEF old
<1> QED
  BY <1>3, <1>4, <1>5, <1>6 DEF WorkerNext

LEMMA StepEnqueue ==
    ASSUME QueueInv, NEW h \in Handler, NEW now, EnqueuePush(h, now)
    PROVE  QueueInv'
<1> DEFINE r == req[h]
           k == <<r.user, now>>
           job == [about |-> r.about, state |-> "waiting", attempts |-> 0, sent |-> 0, deaths |-> 0]
           entry == [user |-> r.user, about |-> r.about, ms |-> now]
<1>1. /\ jobs' = IF k \in DOMAIN jobs THEN jobs ELSE with(jobs, k, job)
      /\ enqueued' = enqueued \cup {entry}
  BY DEF EnqueuePush, jobId
<1>2. /\ entry.user = r.user /\ entry.ms = now /\ entry.about = r.about
      /\ job.about = r.about /\ job.sent = 0 /\ job.deaths = 0
      /\ DOMAIN job = {"about", "state", "attempts", "sent", "deaths"}
  OBVIOUS
<1>3. k = <<entry.user, entry.ms>>
  BY <1>2
<1> HIDE DEF r, k, job, entry
<1>4. k \in DOMAIN jobs' /\ DOMAIN jobs' = DOMAIN jobs \cup {k}
  BY <1>1 DEF with
<1>5. \A j \in DOMAIN jobs : jobs'[j] = jobs[j]
  BY <1>1 DEF with
<1>6. k \notin DOMAIN jobs => jobs'[k] = job
  BY <1>1 DEF with
<1>7. \A e \in enqueued' : <<e.user, e.ms>> \in DOMAIN jobs'
  BY <1>1, <1>3, <1>4 DEF QueueInv
<1>8. ASSUME NEW j \in DOMAIN jobs'
      PROVE  /\ \E e \in enqueued' : j = <<e.user, e.ms>> /\ jobs'[j].about = e.about
             /\ DOMAIN jobs'[j] = {"about", "state", "attempts", "sent", "deaths"}
             /\ jobs'[j].sent \in Nat /\ jobs'[j].deaths \in Nat
             /\ jobs'[j].sent <= 1 + jobs'[j].deaths
             /\ jobs'[j].state = "waiting" => jobs'[j].sent <= jobs'[j].deaths
  <2>1. CASE j \in DOMAIN jobs
    BY <1>1, <1>5, <2>1 DEF QueueInv
  <2>2. CASE j \notin DOMAIN jobs
    BY <1>1, <1>2, <1>3, <1>4, <1>6, <2>2
  <2> QED
    BY <2>1, <2>2
<1> QED
  BY <1>7, <1>8 DEF QueueInv

LEMMA QueueRests ==
    ASSUME MessagingNext
    PROVE  \/ \E k \in DOMAIN jobs : WorkerNext(k)
           \/ \E h \in Handler, now \in 1..MaxMs : EnqueuePush(h, now)
           \/ UNCHANGED <<jobs, enqueued>>
<1>1. ASSUME NEW h \in Handler, ListenNext(h)
      PROVE  (\E now \in 1..MaxMs : EnqueuePush(h, now)) \/ UNCHANGED <<jobs, enqueued>>
  BY <1>1 DEF ListenNext, approveUser, declineUser, Decide, emit, UpdateFails,
              MailDecision, listenerVars,
              EnqueueRefused, PasswordResetRequested, OtpResend, CodeDrawn, CodeMailed
<1>2. ASSUME NEW u, NEW i, EmailVerified(u, i) PROVE UNCHANGED <<jobs, enqueued>>
  BY <1>2 DEF EmailVerified
<1>3. ASSUME NEW i \in Instance, Die(i) PROVE UNCHANGED <<jobs, enqueued>>
  BY <1>3 DEF Die
<1>4. ASSUME NEW s \in Socket, Disconnect(s) \/ ListUsers(s) PROVE UNCHANGED <<jobs, enqueued>>
  BY <1>4 DEF Disconnect, ListUsers, listenerVars
<1>5. ASSUME NEW s, NEW i, NEW token, Connect(s, i, token) PROVE UNCHANGED <<jobs, enqueued>>
  BY <1>5 DEF Connect, listenerVars
<1> QED
  BY <1>1, <1>2, <1>3, <1>4, <1>5 DEF MessagingNext, listenerVars

\* Each decision put on the queue has a push job, unless another of the user came in
\* the same millisecond, and a push goes out once and once more for every death of a
\* worker (push-notification.queue.ts).
THEOREM PushesGoOutOnce == Spec => []PushOnce
<1>1. MessagingInit => QueueInv
  BY DEF MessagingInit, ListenerInit, QueueInv
<1>2. ASSUME QueueInv, [MessagingNext]_vars PROVE QueueInv'
  <2>1. CASE UNCHANGED <<jobs, enqueued>>
    BY <1>2, <2>1 DEF QueueInv
  <2>2. CASE MessagingNext
    BY <1>2, <2>1, <2>2, QueueRests, StepWorker, StepEnqueue
  <2> QED
    BY <1>2, <2>1, <2>2 DEF vars, listenerVars
<1> QED
  BY <1>1, <1>2, QueueHolds, PTL DEF Spec

-------------------------------------------------------------------------------
(* Handlers *)

Fields == {"user", "socket", "instance", "about", "todo", "mailed", "aborts", "code", "status",
           "target", "pair", "conversation", "message"}

Telling == NotificationStep \cup {"listener.emit", "listener.mail", "listener.push"}

Aborts(r) == r.aborts

\* What a handler that waits for a call of a kind holds. A notification, and what
\* follows one, holds an event, and it holds a user where a listener announces a
\* decision on the user's profile, to nobody else.
RequestOK(step, r) ==
    /\ DOMAIN r = Fields
    /\ step \in {"idle", "otp.mail"} \cup ChatStep \cup Telling
    /\ step = "idle" => r.user = Nobody /\ r.socket = Nobody
    /\ step \notin Telling => r.about = Nobody /\ r.todo = {}
    /\ step \in ChatStep => r.user \in User /\ r.socket \in Socket
    /\ step \in Telling =>
          /\ r.socket = Nobody /\ r.about \in Event /\ r.todo \subseteq User
          /\ r.about.kind \in ProfileKind => r.user \in Customer /\ r.todo \subseteq {r.user}
          /\ r.about.kind \notin ProfileKind => r.user = Nobody
          /\ Aborts(r) => r.about.kind \notin ProfileKind
    /\ step = "notify.mail" => r.about.kind \in EMAIL_TEMPLATES
    /\ step = "broadcast.insert" => r.about.kind \notin ProfileKind
    /\ step = "listener.emit" => r.about.kind \in ProfileKind
    /\ step \in {"listener.mail", "listener.push"} => r.about.kind \in ProfileKind /\ r.todo = {}
    /\ step = "otp.mail" => /\ r.socket = Nobody /\ r.user \in Customer
                            /\ r.instance \in Instance /\ r.code \in Nat

\* Whom a handler that waits for this call has yet to tell.
Yet(step, r) == IF step = "notify.mail" THEN r.todo \ {r.mailed} ELSE r.todo

Handlers ==
    /\ DOMAIN at = Handler /\ DOMAIN req = Handler
    /\ left \in [Part -> Nat]
    /\ \A h \in Handler : RequestOK(at[h], req[h])

Moves(h, step, r) == at' = [at EXCEPT ![h] = step] /\ req' = [req EXCEPT ![h] = r]

LEMMA IdleIsOK == RequestOK("idle", NoRequest)
BY DEF RequestOK, NoRequest, Fields, Telling, ChatStep, NotificationStep

LEMMA MovesAre ==
    ASSUME Handlers, NEW h \in Handler, NEW step, NEW r, Moves(h, step, r)
    PROVE  /\ at'[h] = step /\ req'[h] = r
           /\ \A g \in Handler \ {h} : at'[g] = at[g] /\ req'[g] = req[g]
           /\ DOMAIN at' = Handler /\ DOMAIN req' = Handler
BY DEF Handlers, Moves

LEMMA MovesAreOK ==
    ASSUME Handlers, NEW h \in Handler, NEW step, NEW r, Moves(h, step, r), RequestOK(step, r),
           left' \in [Part -> Nat]
    PROVE  Handlers'
BY MovesAre DEF Handlers

LEMMA BudgetIsSpent ==
    ASSUME Handlers, NEW part \in Part, Spend(part)
    PROVE  left' \in [Part -> Nat]
BY DEF Handlers, Spend

LEMMA AnswersAreOK ==
    ASSUME Handlers, NEW h \in Handler, Answer(h)
    PROVE  Handlers' /\ Moves(h, "idle", NoRequest)
<1>1. Moves(h, "idle", NoRequest) /\ left' = left
  BY DEF Answer, GoTo, Moves
<1> QED
  BY <1>1, IdleIsOK, MovesAreOK DEF Handlers

LEMMA GoingIsOK ==
    ASSUME Handlers, NEW h \in Handler, NEW step, NEW r, GoTo(h, step, r), RequestOK(step, r)
    PROVE  Handlers'
<1>1. Moves(h, step, r) /\ left' = left
  BY DEF GoTo, Moves
<1> QED
  BY <1>1, MovesAreOK DEF Handlers

LEMMA AcceptingIsOK ==
    ASSUME Handlers, NEW h \in Handler, NEW part \in Part, NEW step, NEW r,
           Accept(h, part, step, r), RequestOK(step, r)
    PROVE  Handlers'
<1>1. Moves(h, step, r) /\ Spend(part)
  BY DEF Accept, Moves
<1> QED
  BY <1>1, BudgetIsSpent, MovesAreOK

LEMMA ServingIsOK ==
    ASSUME Handlers, NEW part \in Part, Serve(part)
    PROVE  Handlers'
BY BudgetIsSpent DEF Handlers, Serve

LEMMA StepKinds ==
    /\ \A step \in {"notify.create", "broadcast.insert", "notify.mail"} :
          /\ step \in Telling
          /\ step \notin ChatStep \cup {"listener.emit", "listener.mail", "listener.push"}
    /\ \A step \in {"listener.emit", "listener.mail", "listener.push"} :
          step \in Telling /\ step \notin ChatStep \cup NotificationStep
    /\ \A step \in {"idle", "otp.mail"} : step \notin ChatStep \cup Telling
    /\ \A step \in ChatStep : step \notin Telling
    /\ "idle" \notin Telling \cup ChatStep /\ "otp.mail" \notin Telling \cup ChatStep
BY DEF Telling, ChatStep, NotificationStep

\* What is enough for a notification to be created, mailed or inserted.
LEMMA TellingIsOK ==
    ASSUME NEW step \in NotificationStep, NEW r, DOMAIN r = Fields, r.socket = Nobody,
           r.about \in Event, r.todo \subseteq User,
           r.about.kind \in ProfileKind => /\ step = "notify.create" /\ ~Aborts(r)
                                           /\ r.user \in Customer /\ r.todo \subseteq {r.user},
           r.about.kind \notin ProfileKind => r.user = Nobody,
           step = "notify.mail" => r.about.kind \in EMAIL_TEMPLATES
    PROVE  RequestOK(step, r)
<1>1. CASE step = "notify.create"
  BY <1>1, StepKinds DEF RequestOK
<1>2. CASE step = "notify.mail"
  BY <1>2, StepKinds DEF RequestOK
<1>3. CASE step = "broadcast.insert"
  BY <1>3, StepKinds DEF RequestOK
<1> QED
  BY <1>1, <1>2, <1>3 DEF NotificationStep

\* The requests that begin a notification.
LEMMA NewRequests ==
    ASSUME NEW i \in Instance, NEW e \in Event, NEW users \in SUBSET User,
           e.kind \notin ProfileKind
    PROVE  /\ RequestOK("notify.create", [NoRequest EXCEPT !.instance = i, !.about = e,
                                                           !.todo = users, !.aborts = TRUE])
           /\ RequestOK("notify.create", [NoRequest EXCEPT !.instance = i, !.about = e,
                                                           !.todo = users])
           /\ RequestOK("broadcast.insert", [NoRequest EXCEPT !.instance = i, !.about = e,
                                                           !.todo = users, !.aborts = TRUE])
<1>1. {"notify.create", "broadcast.insert"} \subseteq NotificationStep
  BY DEF NotificationStep
<1>2. ASSUME NEW r, DOMAIN r = Fields, r.about = e, r.todo = users, r.user = Nobody,
             r.socket = Nobody
      PROVE  RequestOK("notify.create", r) /\ RequestOK("broadcast.insert", r)
  BY <1>1, <1>2, TellingIsOK
<1>4. LET r == [NoRequest EXCEPT !.instance = i, !.about = e, !.todo = users, !.aborts = TRUE]
      IN  DOMAIN r = Fields /\ r.about = e /\ r.todo = users /\ r.user = Nobody /\ r.socket = Nobody
  BY DEF NoRequest, Fields
<1>5. LET r == [NoRequest EXCEPT !.instance = i, !.about = e, !.todo = users]
      IN  DOMAIN r = Fields /\ r.about = e /\ r.todo = users /\ r.user = Nobody /\ r.socket = Nobody
  BY DEF NoRequest, Fields
<1> QED
  BY <1>2, <1>4, <1>5

\* The request that has written a decision, and the listener it sets off.
LEMMA NewDecision ==
    ASSUME NEW i \in Instance, NEW e \in Event, NEW u \in Customer, e.kind \in ProfileKind
    PROVE  RequestOK("listener.emit", [NoRequest EXCEPT !.instance = i, !.user = u,
                                                        !.todo = {u}, !.about = e])
<1> DEFINE r == [NoRequest EXCEPT !.instance = i, !.user = u, !.todo = {u}, !.about = e]
<1>1. /\ DOMAIN r = Fields /\ r.about = e /\ r.todo = {u} /\ r.user = u /\ r.socket = Nobody
      /\ ~Aborts(r)
  BY DEF NoRequest, Fields, Aborts
<1>2. u \in User
  BY DEF User
<1>3. ASSUME NEW x, DOMAIN x = Fields, x.about = e, x.todo = {u}, x.user = u, x.socket = Nobody,
             ~Aborts(x)
      PROVE  RequestOK("listener.emit", x)
  BY <1>2, <1>3, StepKinds DEF RequestOK
<1> QED
  BY <1>1, <1>3

LEMMA EmittingIsOK ==
    ASSUME Handlers, NEW h \in Handler, at[h] = "listener.emit"
    PROVE  /\ RequestOK("notify.create", req[h]) /\ at[h] \in Telling
           /\ Yet(at[h], req[h]) = req[h].todo /\ Yet("notify.create", req[h]) = req[h].todo
<1>1. RequestOK("listener.emit", req[h])
  BY DEF Handlers
<1>2. "notify.create" \in NotificationStep
  BY DEF NotificationStep
<1>3. RequestOK("notify.create", req[h])
  BY <1>1, StepKinds DEF RequestOK
<1> QED
  BY <1>3, StepKinds DEF Yet

LEMMA NewEvents ==
    ASSUME Handlers, NEW kind \in {"api", "broadcast"} \cup EMAIL_TEMPLATES \cup ProfileKind
    PROVE  /\ NewEvent(kind) \in Event /\ NewEvent(kind).kind = kind
           /\ NewEvent(kind).number = left.notify + left.listen
           /\ left.notify \in Nat /\ left.listen \in Nat
<1>1. left.notify \in Nat /\ left.listen \in Nat
  BY DEF Handlers, Part
<1> QED
  BY <1>1 DEF NewEvent, Event

LEMMA Kinds ==
    /\ \A kind \in {"api", "broadcast", "password_reset"} \cup EMAIL_TEMPLATES :
          kind \notin ProfileKind
    /\ \A kind \in {"api", "broadcast", "password_reset"} \cup ProfileKind :
          kind \notin EMAIL_TEMPLATES
BY DEF EMAIL_TEMPLATES, ProfileKind

-------------------------------------------------------------------------------
(* Handlers, action by action *)

LEMMA ChatKeepsHandlers ==
    ASSUME Handlers, PresenceInv, NEW h \in Handler, ChatNext(h)
    PROVE  Handlers'
<1>1. ASSUME NEW s \in Socket, isOpen(s)
      PROVE  /\ DOMAIN RequestOn(s) = Fields /\ RequestOn(s).user \in User
             /\ RequestOn(s).socket = s /\ RequestOn(s).about = Nobody /\ RequestOn(s).todo = {}
  BY <1>1 DEF RequestOn, NoRequest, Fields, PresenceInv, isOpen
<1>2. ASSUME NEW step \in ChatStep, NEW r, DOMAIN r = Fields, r.user \in User,
             r.socket \in Socket, r.about = Nobody, r.todo = {}
      PROVE  RequestOK(step, r)
  BY <1>2, StepKinds DEF RequestOK
<1>3. {"chat.create", "chat.find", "chat.message", "chat.save"} = ChatStep /\ "chat" \in Part
  BY DEF ChatStep, Part
<1>4. ASSUME at[h] \in ChatStep
      PROVE  /\ DOMAIN req[h] = Fields /\ req[h].user \in User /\ req[h].socket \in Socket
             /\ req[h].about = Nobody /\ req[h].todo = {}
  BY <1>4, StepKinds DEF Handlers, RequestOK
<1>5. ASSUME NEW s \in Socket, NEW u \in Customer, StartConversation(h, s, u) PROVE Handlers'
  <2> DEFINE pair == IF isAdmin(owner[s]) THEN <<owner[s], u>> ELSE <<owner[s], getSuperAdminUser>>
             r == [RequestOn(s) EXCEPT !.target = u, !.pair = pair]
  <2>1. CASE Serve("chat")
    BY <1>3, <2>1, ServingIsOK
  <2>2. CASE Accept(h, "chat", "chat.create", r)
    <3>1. isOpen(s)
      BY <1>5 DEF StartConversation
    <3> HIDE DEF pair
    <3>2. DOMAIN r = Fields /\ r.user \in User /\ r.socket = s /\ r.about = Nobody /\ r.todo = {}
      BY <1>1, <3>1 DEF Fields
    <3> HIDE DEF r
    <3>3. RequestOK("chat.create", r)
      BY <1>2, <1>3, <3>2
    <3> QED
      BY <1>3, <2>2, <3>3, AcceptingIsOK
  <2> QED
    BY <1>5, <2>1, <2>2 DEF StartConversation
<1>6. ASSUME NEW c \in Conversation, CreateConversation(h, c) PROVE Handlers'
  <2> DEFINE r == [req[h] EXCEPT !.conversation = c]
  <2>1. GoTo(h, "chat.find", r) /\ at[h] = "chat.create"
    BY <1>6 DEF CreateConversation
  <2>2. /\ DOMAIN r = Fields /\ r.user \in User /\ r.socket \in Socket /\ r.about = Nobody
        /\ r.todo = {}
    BY <1>3, <1>4, <2>1 DEF Fields
  <2> HIDE DEF r
  <2>3. RequestOK("chat.find", r)
    BY <1>2, <1>3, <2>2
  <2> QED
    BY <2>1, <2>3, GoingIsOK
<1>7. ASSUME NEW s \in Socket, NEW c \in Conversation, SendMessage(h, s, c) PROVE Handlers'
  <2> DEFINE r == [RequestOn(s) EXCEPT !.conversation = c]
  <2>1. Accept(h, "chat", "chat.message", r) /\ isOpen(s)
    BY <1>7 DEF SendMessage
  <2>2. DOMAIN r = Fields /\ r.user \in User /\ r.socket = s /\ r.about = Nobody /\ r.todo = {}
    BY <1>1, <2>1 DEF Fields
  <2> HIDE DEF r
  <2>3. RequestOK("chat.message", r)
    BY <1>2, <1>3, <2>2
  <2> QED
    BY <1>3, <2>1, <2>3, AcceptingIsOK
<1>8. CASE CreateMessage(h)
  <2> DEFINE r == [req[h] EXCEPT !.message = Len(messages) + 1]
  <2>1. GoTo(h, "chat.save", r) /\ at[h] = "chat.message"
    BY <1>8 DEF CreateMessage
  <2>2. /\ DOMAIN r = Fields /\ r.user \in User /\ r.socket \in Socket /\ r.about = Nobody
        /\ r.todo = {}
    BY <1>3, <1>4, <2>1 DEF Fields
  <2> HIDE DEF r
  <2>3. RequestOK("chat.save", r)
    BY <1>2, <1>3, <2>2
  <2> QED
    BY <2>1, <2>3, GoingIsOK
<1>9. CASE FindCreated(h) \/ SaveConversation(h) \/ SendFails(h)
  BY <1>9, AnswersAreOK DEF FindCreated, SaveConversation, SendFails
<1> QED
  BY <1>5, <1>6, <1>7, <1>8, <1>9 DEF ChatNext

\* What a handler goes on with once it has dealt with the user u.
Without(r, u) == [r EXCEPT !.todo = @ \ {u}]

LEMMA WithoutIs ==
    ASSUME NEW r, DOMAIN r = Fields, NEW u
    PROVE  /\ DOMAIN Without(r, u) = Fields /\ Without(r, u).todo = r.todo \ {u}
           /\ Without(r, u).about = r.about /\ Without(r, u).user = r.user
           /\ Without(r, u).socket = r.socket /\ Without(r, u).mailed = r.mailed
           /\ (Aborts(Without(r, u)) <=> Aborts(r))
<1>1. /\ DOMAIN Without(r, u) = Fields /\ Without(r, u).todo = r.todo \ {u}
      /\ Without(r, u).about = r.about /\ Without(r, u).user = r.user
      /\ Without(r, u).socket = r.socket /\ Without(r, u).mailed = r.mailed
  BY DEF Without, Fields
<1>2. Without(r, u).aborts = r.aborts
  BY DEF Without, Fields
<1> QED
  BY <1>1, <1>2 DEF Aborts

\* After a user has been told, or could not be: the next one, the mail of a
\* listener, or the end.
LEMMA NextUserIsOK ==
    ASSUME Handlers, NEW h \in Handler, at[h] = "notify.create", NEW u \in req[h].todo,
           NextUser(h, u)
    PROVE  /\ Handlers'
           /\ \/ /\ Moves(h, "idle", NoRequest) /\ req[h].todo \subseteq {u}
                 /\ req[h].about.kind \notin ProfileKind
              \/ /\ Moves(h, "notify.create", Without(req[h], u))
                 /\ req[h].about.kind \notin ProfileKind
              \/ /\ Moves(h, "listener.mail", Without(req[h], u))
                 /\ req[h].about.kind \in ProfileKind /\ req[h].todo \subseteq {u}
<1> DEFINE old == req[h]
           r == Without(old, u)
<1>1. /\ DOMAIN old = Fields /\ old.socket = Nobody /\ old.about \in Event /\ old.todo \subseteq User
      /\ old.about.kind \in ProfileKind =>
           old.user \in Customer /\ old.todo \subseteq {old.user} /\ ~Aborts(old)
      /\ old.about.kind \notin ProfileKind => old.user = Nobody
  BY StepKinds DEF Handlers, RequestOK
<1>2. /\ DOMAIN r = Fields /\ r.socket = Nobody /\ r.about = old.about
      /\ r.todo = old.todo \ {u} /\ r.user = old.user /\ (Aborts(r) <=> Aborts(old))
  BY <1>1, WithoutIs
<1>3. NextUser(h, u) <=> IF r.about.kind \in ProfileKind THEN GoTo(h, "listener.mail", r)
                         ELSE IF r.todo # {} THEN GoTo(h, "notify.create", r) ELSE Answer(h)
  BY DEF NextUser, Without
<1>4. \A step : GoTo(h, step, r) => Moves(h, step, r)
  BY DEF GoTo, Moves
<1> HIDE DEF old, r
<1>5. CASE old.about.kind \in ProfileKind
  <2>1. old.todo \subseteq {u} /\ r.todo = {}
    BY <1>1, <1>2, <1>5 DEF old
  <2>2. RequestOK("listener.mail", r)
    BY <1>1, <1>2, <1>5, <2>1, StepKinds DEF RequestOK
  <2>3. GoTo(h, "listener.mail", r)
    BY <1>2, <1>3, <1>5
  <2> QED
    BY <1>4, <1>5, <2>1, <2>2, <2>3, GoingIsOK DEF old, r
<1>6. CASE old.about.kind \notin ProfileKind /\ r.todo # {}
  <2>1. RequestOK("notify.create", r)
    BY <1>1, <1>2, <1>6, TellingIsOK DEF NotificationStep
  <2>2. GoTo(h, "notify.create", r)
    BY <1>2, <1>3, <1>6
  <2> QED
    BY <1>4, <1>6, <2>1, <2>2, GoingIsOK DEF old, r
<1>7. CASE old.about.kind \notin ProfileKind /\ r.todo = {}
  BY <1>2, <1>3, <1>7, AnswersAreOK DEF old
<1> QED
  BY <1>5, <1>6, <1>7

\* The mail to an administrator is out: the next one, or the end.
LEMMA MailingIsOK ==
    ASSUME Handlers, NEW h \in Handler, SendNotificationMail(h)
    PROVE  /\ Handlers' /\ at[h] = "notify.mail"
           /\ \/ Moves(h, "idle", NoRequest) /\ req[h].todo \subseteq {req[h].mailed}
              \/ \E r : /\ Moves(h, "notify.create", r) /\ r.about = req[h].about
                        /\ r.todo = req[h].todo \ {req[h].mailed}
<1> DEFINE old == req[h]
           r == [old EXCEPT !.todo = @ \ {old.mailed}, !.mailed = Nobody]
<1>1. at[h] = "notify.mail"
  BY DEF SendNotificationMail
<1>2. /\ DOMAIN old = Fields /\ old.socket = Nobody /\ old.about \in Event /\ old.todo \subseteq User
      /\ old.about.kind \in EMAIL_TEMPLATES
      /\ old.about.kind \notin ProfileKind => old.user = Nobody
  BY <1>1, StepKinds DEF Handlers, RequestOK
<1>3. IF r.todo # {} THEN GoTo(h, "notify.create", r) ELSE Answer(h)
  BY DEF SendNotificationMail
<1>4. /\ DOMAIN r = Fields /\ r.socket = Nobody /\ r.about = old.about
      /\ r.todo = old.todo \ {old.mailed} /\ r.user = old.user
  BY <1>2 DEF Fields
<1> HIDE DEF old, r
<1>5. CASE r.todo # {}
  <2>1. RequestOK("notify.create", r)
    BY <1>2, <1>4, Kinds, TellingIsOK DEF NotificationStep
  <2>2. GoTo(h, "notify.create", r) /\ Moves(h, "notify.create", r)
    BY <1>3, <1>5 DEF GoTo, Moves
  <2> QED
    BY <1>1, <1>4, <2>1, <2>2, GoingIsOK DEF old
<1>6. CASE r.todo = {}
  BY <1>1, <1>3, <1>4, <1>6, AnswersAreOK DEF old
<1> QED
  BY <1>5, <1>6

LEMMA NotifyKeepsHandlers ==
    ASSUME Handlers, NEW h \in Handler, NotifyNext(h)
    PROVE  Handlers'
<1>1. /\ Server \subseteq Instance /\ "notify" \in Part
      /\ \A kind \in {"api", "broadcast"} \cup EMAIL_TEMPLATES : kind \notin ProfileKind
  BY MessagingAssumption, Kinds DEF Part
<1>2. ASSUME NEW u \in User, NEW i \in Server, ApiNotify(h, u, i) PROVE Handlers'
  <2> DEFINE e == NewEvent("api")
             r == [NoRequest EXCEPT !.instance = i, !.about = e, !.todo = {u}, !.aborts = TRUE]
  <2>1. Accept(h, "notify", "notify.create", r)
    BY <1>2 DEF ApiNotify
  <2>2. e \in Event /\ e.kind \notin ProfileKind
    BY <1>1, NewEvents
  <2> HIDE DEF e
  <2>3. RequestOK("notify.create", r)
    BY <1>1, <2>2, NewRequests, RealtimeAssumption DEF User
  <2> HIDE DEF r
  <2> QED
    BY <1>1, <2>1, <2>3, AcceptingIsOK
<1>3. ASSUME NEW kind \in EMAIL_TEMPLATES, NEW i \in Server, notifyAdmins(h, kind, i)
      PROVE  Handlers'
  <2> DEFINE e == NewEvent(kind)
             admins == Admin \ deleted
             r == [NoRequest EXCEPT !.instance = i, !.about = e, !.todo = admins]
  <2>1. Accept(h, "notify", "notify.create", r)
    BY <1>3 DEF notifyAdmins
  <2>2. e \in Event /\ e.kind \notin ProfileKind /\ admins \subseteq User
    BY <1>1, NewEvents DEF User
  <2> HIDE DEF e, admins
  <2>3. RequestOK("notify.create", r)
    BY <1>1, <2>2, NewRequests
  <2> HIDE DEF r
  <2> QED
    BY <1>1, <2>1, <2>3, AcceptingIsOK
<1>4. ASSUME NEW i \in Server, NotifyAdminsOfNewOrder(h, i) \/ UserRegistered(h, i) PROVE Handlers'
  BY <1>3, <1>4 DEF NotifyAdminsOfNewOrder, UserRegistered, EMAIL_TEMPLATES
<1>5. ASSUME NEW u \in User, CreateNotification(h, u) PROVE Handlers'
  <2>1. at[h] = "notify.create" /\ u \in req[h].todo
    BY <1>5 DEF CreateNotification
  <2>2. CASE req[h].about.kind \in EMAIL_TEMPLATES
    <3> DEFINE old == req[h]
               r == [old EXCEPT !.mailed = u]
    <3>1. GoTo(h, "notify.mail", r)
      BY <1>5, <2>2 DEF CreateNotification
    <3>2. /\ DOMAIN old = Fields /\ old.socket = Nobody /\ old.about \in Event
          /\ old.todo \subseteq User
          /\ old.about.kind \notin ProfileKind /\ old.user = Nobody
      BY <2>1, <2>2, Kinds, StepKinds DEF Handlers, RequestOK
    <3>3. /\ DOMAIN r = Fields /\ r.socket = Nobody /\ r.about = old.about /\ r.todo = old.todo
          /\ r.user = old.user
      BY <3>2 DEF Fields
    <3> HIDE DEF old, r
    <3>4. RequestOK("notify.mail", r)
      BY <2>2, <3>2, <3>3, TellingIsOK DEF NotificationStep, old
    <3> QED
      BY <3>1, <3>4, GoingIsOK
  <2>3. CASE req[h].about.kind \notin EMAIL_TEMPLATES
    BY <1>5, <2>1, <2>3, NextUserIsOK DEF CreateNotification
  <2> QED
    BY <2>2, <2>3
<1>6. ASSUME NEW u \in User, CreateRefused(h, u) PROVE Handlers'
  <2>1. at[h] = "notify.create" /\ u \in req[h].todo
    BY <1>6 DEF CreateRefused
  <2> QED
    BY <1>6, <2>1, NextUserIsOK, AnswersAreOK DEF CreateRefused
<1>7. ASSUME NEW i \in Server, Broadcast(h, i) PROVE Handlers'
  <2> DEFINE e == NewEvent("broadcast")
             users == User \ deleted
             r == [NoRequest EXCEPT !.instance = i, !.about = e, !.todo = users, !.aborts = TRUE]
  <2>1. Accept(h, "notify", "broadcast.insert", r)
    BY <1>7 DEF Broadcast
  <2>2. e \in Event /\ e.kind \notin ProfileKind /\ users \in SUBSET User
    BY <1>1, NewEvents
  <2> HIDE DEF e, users
  <2>3. RequestOK("broadcast.insert", r)
    BY <1>1, <2>2, NewRequests
  <2> HIDE DEF r
  <2> QED
    BY <1>1, <2>1, <2>3, AcceptingIsOK
<1>8. ASSUME \/ SendNotificationMail(h) \/ CreateMany(h) \/ withAbort(h)
             \/ \E stored \in SUBSET User : CreateManyRefused(h, stored)
      PROVE  Handlers'
  BY <1>8, MailingIsOK, AnswersAreOK DEF CreateMany, withAbort, CreateManyRefused
<1> QED
  BY <1>2, <1>4, <1>5, <1>6, <1>7, <1>8 DEF NotifyNext

LEMMA ListenKeepsHandlers ==
    ASSUME Handlers, NEW h \in Handler, ListenNext(h)
    PROVE  Handlers'
<1>1. /\ Server \subseteq Instance /\ "listen" \in Part /\ left.listen \in Nat
  BY MessagingAssumption DEF Part, Handlers
<1>2. ASSUME NEW kind \in ProfileKind, NEW u \in Customer, NEW i \in Server, Decide(h, u, kind, i)
      PROVE  Handlers'
  <2> DEFINE e == NewEvent(kind)
             about == [e EXCEPT !.kind = Announcing(kind)]
             r == [NoRequest EXCEPT !.instance = i, !.user = u, !.todo = {u}, !.about = about]
  <2>1. Accept(h, "listen", "listener.emit", r)
    BY <1>2 DEF Decide
  <2>2. e \in Event /\ e.kind = kind
    BY NewEvents
  <2>3. about = e
    BY DEF NewEvent, Announcing
  <2> HIDE DEF e, about
  <2>4. RequestOK("listener.emit", r)
    BY <1>1, <2>2, <2>3, NewDecision
  <2> HIDE DEF r
  <2> QED
    BY <1>1, <2>1, <2>4, AcceptingIsOK
<1>3. ASSUME NEW u \in Customer, NEW i \in Server, approveUser(h, u, i) \/ declineUser(h, u, i)
      PROVE  Handlers'
  BY <1>2, <1>3 DEF approveUser, declineUser, ProfileKind
<1>4. CASE MailDecision(h)
  <2>1. at[h] = "listener.mail" /\ GoTo(h, "listener.push", req[h])
    BY <1>4 DEF MailDecision
  <2>2. RequestOK("listener.push", req[h])
    BY <2>1, StepKinds DEF Handlers, RequestOK
  <2> QED
    BY <2>1, <2>2, GoingIsOK
<1>5. ASSUME EnqueueRefused(h) \/ \E now \in 1..MaxMs : EnqueuePush(h, now) PROVE Handlers'
  BY <1>5, AnswersAreOK DEF EnqueueRefused, EnqueuePush
<1>6. ASSUME NEW status, NEW u \in Customer, NEW i \in Server, CodeDrawn(h, u, status, i)
      PROVE  Handlers'
  <2> DEFINE r == [NoRequest EXCEPT !.instance = i, !.user = u, !.code = left.listen,
                                    !.status = status]
  <2>1. Accept(h, "listen", "otp.mail", r)
    BY <1>6 DEF CodeDrawn
  <2>2. /\ DOMAIN r = Fields /\ r.user = u /\ r.instance = i /\ r.code = left.listen
        /\ r.socket = Nobody /\ r.about = Nobody /\ r.todo = {}
    BY DEF NoRequest, Fields
  <2> HIDE DEF r
  <2>3. RequestOK("otp.mail", r)
    BY <1>1, <2>2, StepKinds DEF RequestOK
  <2> QED
    BY <1>1, <2>1, <2>3, AcceptingIsOK
<1>7. ASSUME NEW u \in Customer, NEW i \in Server, PasswordResetRequested(h, u, i) \/ OtpResend(h, u, i)
      PROVE  Handlers'
  BY <1>6, <1>7 DEF PasswordResetRequested, OtpResend
<1>8. CASE CodeMailed(h)
  <2> DEFINE old == req[h]
             e == [kind |-> "password_reset", number |-> old.code]
             r == [NoRequest EXCEPT !.instance = old.instance, !.about = e, !.todo = {old.user}]
  <2>1. at[h] = "otp.mail" /\ (GoTo(h, "notify.create", r) \/ Answer(h))
    BY <1>8 DEF CodeMailed
  <2>2. old.code \in Nat /\ old.user \in User /\ old.instance \in Instance
    BY <2>1 DEF Handlers, RequestOK, User
  <2>3. e \in Event /\ e.kind \notin ProfileKind
    BY <2>2, Kinds DEF Event
  <2> HIDE DEF e, old
  <2>4. RequestOK("notify.create", r)
    BY <2>2, <2>3, NewRequests
  <2> HIDE DEF r
  <2> QED
    BY <2>1, <2>4, GoingIsOK, AnswersAreOK
<1>9. CASE emit(h)
  <2>1. at[h] = "listener.emit" /\ GoTo(h, "notify.create", req[h])
    BY <1>9 DEF emit
  <2> QED
    BY <2>1, EmittingIsOK, GoingIsOK
<1>10. CASE UpdateFails(h)
  BY <1>10, AnswersAreOK DEF UpdateFails
<1> QED
  BY <1>3, <1>4, <1>5, <1>7, <1>8, <1>9, <1>10 DEF ListenNext

LEMMA DeathKeepsHandlers ==
    ASSUME Handlers, NEW i \in Instance, InstanceDies(i)
    PROVE  Handlers'
<1>1. /\ at' = [h \in Handler |-> IF req[h].instance = i THEN "idle" ELSE at[h]]
      /\ req' = [h \in Handler |-> IF req[h].instance = i THEN NoRequest ELSE req[h]]
      /\ Spend("crash") /\ "crash" \in Part
  BY DEF InstanceDies, Part
<1>2. left' \in [Part -> Nat]
  BY <1>1, BudgetIsSpent
<1>3. ASSUME NEW h \in Handler PROVE RequestOK(at'[h], req'[h])
  BY <1>1, IdleIsOK DEF Handlers
<1> QED
  BY <1>1, <1>2, <1>3 DEF Handlers

LEMMA HandlersKept ==
    ASSUME Handlers, PresenceInv, [MessagingNext]_vars
    PROVE  Handlers'
<1>1. CASE UNCHANGED <<at, req, left>>
  BY <1>1 DEF Handlers
<1>2. "chat" \in Part /\ "notify" \in Part /\ "listen" \in Part /\ "crash" \in Part
  BY DEF Part
<1>3. ASSUME NEW s \in Socket, NEW i \in Instance, NEW token \in Token, Connect(s, i, token)
      PROVE  Handlers'
  BY <1>2, <1>3, ServingIsOK DEF Connect, Connection
<1>4. ASSUME NEW s \in Socket, Disconnect(s) \/ ListUsers(s) PROVE Handlers'
  BY <1>1, <1>2, <1>4, ServingIsOK DEF Disconnect, disconnect, ListUsers, PresenceList
<1>5. ASSUME NEW i \in Instance, Die(i) PROVE Handlers'
  BY <1>5, DeathKeepsHandlers DEF Die
<1>6. ASSUME NEW s \in Socket, NEW c \in Conversation, RoomNext(s, c) PROVE Handlers'
  BY <1>2, <1>6, ServingIsOK DEF RoomNext, Join, Leave, History
<1>7. ASSUME NEW w, WriteGoesOn(w) PROVE Handlers'
  BY <1>1, <1>7 DEF WriteGoesOn
<1>8. ASSUME NEW u \in User, MailboxNext(u) PROVE Handlers'
  BY <1>2, <1>8, ServingIsOK DEF MailboxNext, MarkRead, MarkAllRead, SoftDelete
<1>9. ASSUME NEW u, NEW i, EmailVerified(u, i) PROVE Handlers'
  BY <1>2, <1>9, ServingIsOK DEF EmailVerified
<1>10. ASSUME NEW k, WorkerNext(k) PROVE Handlers'
  BY <1>1, <1>2, <1>10, ServingIsOK DEF WorkerNext, WorkerSends, WorkerFails, WorkerCompletes,
                                        WorkerDies, Unbothered
<1>11. ASSUME NEW h \in Handler, ChatNext(h) \/ NotifyNext(h) \/ ListenNext(h) PROVE Handlers'
  BY <1>11, ChatKeepsHandlers, NotifyKeepsHandlers, ListenKeepsHandlers
<1>12. CASE MessagingNext
  BY <1>3, <1>4, <1>5, <1>6, <1>7, <1>8, <1>9, <1>10, <1>11, <1>12 DEF MessagingNext
<1> QED
  BY <1>1, <1>12 DEF vars, realtimeVars

-------------------------------------------------------------------------------
(* Everyone is told *)

\* u is in the list of users some handler, or some write, is going to tell of e.
Waiting(e, u) ==
    \/ \E h \in Handler : req[h].about = e /\ u \in Yet(at[h], req[h])
    \/ \E w \in writing : w.about = e /\ u \in w.users

Told(e, u) == \E n \in DOMAIN notifications : notifications[n] = NotificationDoc(e, u)

Note == [user : User, about : Event]

\* No event is announced twice: its number is above those of the events to come,
\* and a code's is above those of the codes to come and not that of a code that
\* is still to be mailed.
EventsInv ==
    /\ \A e \in DOMAIN audience :
          /\ e \in Event /\ audience[e] \subseteq User
          /\ e.kind # "password_reset" => e.number > left.notify + left.listen
          /\ e.kind = "password_reset" =>
                /\ e.number > left.listen
                /\ \A h \in Handler : at[h] = "otp.mail" => req[h].code # e.number
    /\ \A h \in Handler : at[h] = "otp.mail" => req[h].code > left.listen
    /\ \A g, h \in Handler :
          at[g] = "otp.mail" /\ at[h] = "otp.mail" /\ req[g].code = req[h].code => g = h

\* One handler, or one write of a request whose time was up, tells of an event.
CarriersInv ==
    /\ \A h \in Handler : req[h].about # Nobody => req[h].about \in DOMAIN audience
    /\ \A g, h \in Handler : req[g].about = req[h].about /\ req[g].about # Nobody => g = h
    /\ \A w \in writing :
          /\ w.about \in DOMAIN audience /\ w.about \in lapsed
          /\ w.about.kind \notin ProfileKind /\ w.users \subseteq User
          /\ \A h \in Handler : req[h].about # w.about
          /\ \A v \in writing : v.about = w.about => v = w

\* Nobody is told twice, or of what was meant for others; and who was to be told
\* has been, or is waiting to be, unless a write was refused.
TellingInv ==
    /\ notifications \in Seq(Note)
    /\ \A n \in DOMAIN notifications :
          /\ notifications[n].about \in DOMAIN audience
          /\ notifications[n].user \in audience[notifications[n].about]
          /\ \A m \in DOMAIN notifications : notifications[m] = notifications[n] => m = n
    /\ \A e \in DOMAIN audience : \A u \in User : Waiting(e, u) => u \in audience[e] /\ ~Told(e, u)
    /\ \A e \in DOMAIN audience : \A u \in audience[e] :
          Waiting(e, u) \/ Told(e, u) \/ e \in broken

TellInv == EventsInv /\ CarriersInv /\ TellingInv

LEMMA OneCounts ==
    ASSUME NEW S, NEW x \in S, \A y \in S : y = x
    PROVE  Cardinality(S) = 1
<1>1. S = {x}
  OBVIOUS
<1> QED
  BY <1>1, FS_Singleton

LEMMA TellInvTells == TellInv => EachIsTold
<1> SUFFICES ASSUME TellInv, NEW e \in DOMAIN audience PROVE
        LET told(u) == Cardinality({n \in AboutEvent(e) : notifications[n].user = u}) IN
        /\ \A u \in User : told(u) <= (IF u \in audience[e] THEN 1 ELSE 0)
        /\ e \notin broken /\ ~Ongoing(e) => \A u \in audience[e] : told(u) = 1
  BY DEF EachIsTold
<1> DEFINE of(u) == {n \in AboutEvent(e) : notifications[n].user = u}
<1>1. ASSUME NEW n \in DOMAIN notifications
      PROVE  /\ notifications[n] = NotificationDoc(notifications[n].about, notifications[n].user)
             /\ notifications[n] \in Note
  <2>1. notifications[n] \in Note
    BY DEF TellInv, TellingInv
  <2> QED
    BY <2>1 DEF Note, NotificationDoc
<1>2. ASSUME NEW u \in User, NEW n \in of(u)
      PROVE  u \in audience[e] /\ Cardinality(of(u)) = 1
  <2>1. /\ n \in DOMAIN notifications /\ notifications[n].about = e /\ notifications[n].user = u
    BY <1>2 DEF AboutEvent
  <2>2. \A m \in of(u) : m \in DOMAIN notifications /\ notifications[m] = notifications[n]
    BY <1>1, <2>1 DEF AboutEvent
  <2>3. u \in audience[e] /\ \A m \in of(u) : m = n
    BY <2>1, <2>2 DEF TellInv, TellingInv
  <2> HIDE DEF of
  <2> QED
    BY <1>2, <2>3, OneCounts
<1>3. ASSUME NEW u \in User PROVE Cardinality(of(u)) <= (IF u \in audience[e] THEN 1 ELSE 0)
  <2>1. CASE of(u) = {}
    BY <2>1, FS_EmptySet
  <2>2. CASE of(u) # {}
    <3>1. u \in audience[e] /\ Cardinality(of(u)) = 1
      BY <1>2, <2>2
    <3> QED
      BY <3>1
  <2> QED
    BY <2>1, <2>2
<1>4. ASSUME e \notin broken, ~Ongoing(e), NEW u \in audience[e] PROVE Cardinality(of(u)) = 1
  <2>1. ~Waiting(e, u)
    BY <1>4 DEF Waiting, Ongoing
  <2>2. PICK n \in DOMAIN notifications : notifications[n] = NotificationDoc(e, u)
    BY <1>4, <2>1 DEF TellInv, TellingInv, Told
  <2>3. n \in of(u) /\ u \in User
    BY <1>1, <2>2 DEF AboutEvent, NotificationDoc, TellInv, EventsInv
  <2> QED
    BY <1>2, <2>3
<1> QED
  BY <1>3, <1>4

\* What a step may do to the lists, for the invariant to hold after it: more
\* notifications, of users who were waiting and no longer are, and some who wait no
\* longer without, of events that count as broken; and events nobody has heard of.
LEMMA TellingGoesOn ==
    ASSUME TellingInv, NEW more \in Seq(Note), notifications' = notifications \o more,
           \A j, k \in DOMAIN more : more[j] = more[k] => j = k,
           DOMAIN audience \subseteq DOMAIN audience', broken \subseteq broken',
           \A e \in DOMAIN audience : audience'[e] = audience[e] /\ audience[e] \subseteq User,
           \A e \in DOMAIN audience' \ DOMAIN audience :
              \A u : (u \in User /\ Waiting(e, u)') <=> u \in audience'[e],
           \A k \in DOMAIN more : /\ more[k].about \in DOMAIN audience
                                  /\ Waiting(more[k].about, more[k].user)
                                  /\ ~Waiting(more[k].about, more[k].user)',
           \A e \in DOMAIN audience : \A u \in User : Waiting(e, u)' => Waiting(e, u),
           \A e \in DOMAIN audience : \A u \in audience[e] :
              Waiting(e, u) => \/ Waiting(e, u)' \/ e \in broken'
                               \/ \E k \in DOMAIN more : more[k] = NotificationDoc(e, u)
    PROVE  TellingInv'
<1> DEFINE old == notifications
           new == notifications'
<1>1. /\ old \in Seq(Note) /\ new \in Seq(Note) /\ Len(old) \in Nat /\ Len(more) \in Nat
      /\ DOMAIN old = 1..Len(old) /\ DOMAIN more = 1..Len(more) /\ DOMAIN new = 1..Len(new)
      /\ Len(new) = Len(old) + Len(more)
  BY DEF TellingInv
<1>2. \A n \in DOMAIN old : n \in DOMAIN new /\ new[n] = old[n]
  BY <1>1
<1>3. ASSUME NEW n \in DOMAIN new, n \notin DOMAIN old
      PROVE  n - Len(old) \in DOMAIN more /\ new[n] = more[n - Len(old)]
  BY <1>1, <1>3
<1>4. ASSUME NEW k \in DOMAIN more
      PROVE  k + Len(old) \in DOMAIN new /\ new[k + Len(old)] = more[k]
  BY <1>1
<1>5. ASSUME NEW x \in Note PROVE x = NotificationDoc(x.about, x.user)
  BY DEF Note, NotificationDoc
<1>6. /\ \A n \in DOMAIN old : old[n] \in Note
      /\ \A k \in DOMAIN more : more[k] \in Note
  BY <1>1
<1>7. ASSUME NEW n \in DOMAIN old, NEW k \in DOMAIN more PROVE old[n] # more[k]
  <2>1. /\ more[k].about \in DOMAIN audience /\ more[k].user \in User
        /\ Waiting(more[k].about, more[k].user)
    BY <1>6 DEF Note
  <2>2. ~Told(more[k].about, more[k].user)
    BY <2>1 DEF TellingInv
  <2>3. more[k] = NotificationDoc(more[k].about, more[k].user)
    BY <1>5, <1>6
  <2> HIDE DEF new
  <2> QED
    BY <2>2, <2>3 DEF Told
<1>8. ASSUME NEW e, NEW u, Told(e, u)'
      PROVE  Told(e, u) \/ \E k \in DOMAIN more : more[k] = NotificationDoc(e, u)
  <2>1. PICK n \in DOMAIN new : new[n] = NotificationDoc(e, u)
    BY <1>8 DEF Told, NotificationDoc
  <2> QED
    BY <1>2, <1>3, <2>1 DEF Told
<1>9. ASSUME NEW e, NEW u, Told(e, u) \/ \E k \in DOMAIN more : more[k] = NotificationDoc(e, u)
      PROVE  Told(e, u)'
  <2> HIDE DEF new
  <2>1. \E n \in DOMAIN new : new[n] = NotificationDoc(e, u)
    <3>1. CASE Told(e, u)
      BY <1>2, <3>1 DEF Told
    <3>2. CASE \E k \in DOMAIN more : more[k] = NotificationDoc(e, u)
      BY <1>4, <3>2
    <3> QED
      BY <1>9, <3>1, <3>2
  <2> QED
    BY <2>1 DEF Told, NotificationDoc, new
<1> HIDE DEF new, old
<1>10. ASSUME NEW n \in DOMAIN new
       PROVE  /\ new[n].about \in DOMAIN audience' /\ new[n].user \in audience'[new[n].about]
              /\ \A m \in DOMAIN new : new[m] = new[n] => m = n
  <2>1. ASSUME NEW m \in DOMAIN new, new[m] = new[n] PROVE m = n
    <3>1. CASE m \in DOMAIN old /\ n \in DOMAIN old
      BY <1>2, <2>1, <3>1 DEF TellingInv, old
    <3>2. CASE m \notin DOMAIN old /\ n \notin DOMAIN old
      <4>1. m - Len(old) = n - Len(old)
        BY <1>3, <2>1, <3>2
      <4>2. m \in Int /\ n \in Int /\ Len(old) \in Int
        BY <1>1
      <4> QED
        BY <4>1, <4>2
    <3>3. CASE m \in DOMAIN old /\ n \notin DOMAIN old
      BY <1>2, <1>3, <1>7, <2>1, <3>3
    <3>4. CASE m \notin DOMAIN old /\ n \in DOMAIN old
      BY <1>2, <1>3, <1>7, <2>1, <3>4
    <3> QED
      BY <3>1, <3>2, <3>3, <3>4
  <2>2. new[n].about \in DOMAIN audience /\ new[n].user \in audience[new[n].about]
    <3>1. CASE n \in DOMAIN old
      BY <1>2, <3>1 DEF TellingInv, old
    <3>2. CASE n \notin DOMAIN old
      <4>1. PICK k \in DOMAIN more : new[n] = more[k]
        BY <1>3, <3>2
      <4>2. more[k].user \in User
        BY <1>6 DEF Note
      <4> QED
        BY <4>1, <4>2 DEF TellingInv
    <3> QED
      BY <3>1, <3>2
  <2> QED
    BY <2>1, <2>2
<1>11. ASSUME NEW e \in DOMAIN audience', NEW u \in User, Waiting(e, u)'
       PROVE  u \in audience'[e] /\ ~Told(e, u)'
  <2>1. CASE e \in DOMAIN audience
    <3>1. Waiting(e, u)
      BY <1>11, <2>1
    <3>2. u \in audience'[e] /\ ~Told(e, u)
      BY <2>1, <3>1 DEF TellingInv
    <3>3. ASSUME NEW k \in DOMAIN more PROVE more[k] # NotificationDoc(e, u)
      <4>1. ~(more[k].about = e /\ more[k].user = u)
        BY <1>11
      <4> QED
        BY <4>1 DEF NotificationDoc
    <3> QED
      BY <1>8, <3>2, <3>3
  <2>2. CASE e \notin DOMAIN audience
    <3>1. u \in audience'[e]
      BY <1>11, <2>2
    <3>2. ASSUME NEW n \in DOMAIN old PROVE old[n] # NotificationDoc(e, u)
      <4>1. old[n].about \in DOMAIN audience
        BY DEF TellingInv, old
      <4> QED
        BY <2>2, <4>1 DEF NotificationDoc
    <3>3. ASSUME NEW k \in DOMAIN more PROVE more[k] # NotificationDoc(e, u)
      <4>1. more[k].about \in DOMAIN audience
        OBVIOUS
      <4> QED
        BY <2>2, <4>1 DEF NotificationDoc
    <3>4. ~Told(e, u)
      BY <3>2 DEF Told, old
    <3> QED
      BY <1>8, <3>1, <3>3, <3>4
  <2> QED
    BY <2>1, <2>2
<1>12. ASSUME NEW e \in DOMAIN audience', NEW u \in audience'[e]
       PROVE  Waiting(e, u)' \/ Told(e, u)' \/ e \in broken'
  <2>1. CASE e \in DOMAIN audience
    <3>1. u \in audience[e]
      BY <1>12, <2>1
    <3>2. Waiting(e, u) \/ Told(e, u) \/ e \in broken
      BY <2>1, <3>1 DEF TellingInv
    <3> QED
      BY <1>9, <2>1, <3>1, <3>2
  <2>2. CASE e \notin DOMAIN audience
    BY <1>12, <2>2
  <2> QED
    BY <2>1, <2>2
<1>13. new \in Seq(Note)
  BY <1>1
<1>14. /\ (\A n \in DOMAIN notifications :
             /\ notifications[n].about \in DOMAIN audience
             /\ notifications[n].user \in audience[notifications[n].about]
             /\ \A m \in DOMAIN notifications : notifications[m] = notifications[n] => m = n)'
       /\ (notifications \in Seq(Note))'
  BY <1>10, <1>13 DEF new, Note, Event
<1>15. /\ (\A e \in DOMAIN audience : \A u \in User : Waiting(e, u) => u \in audience[e] /\ ~Told(e, u))'
       /\ (\A e \in DOMAIN audience : \A u \in audience[e] :
             Waiting(e, u) \/ Told(e, u) \/ e \in broken)'
  BY <1>11, <1>12
<1> QED
  BY <1>14, <1>15 DEF TellingInv

LEMMA Appended ==
    ASSUME NEW S, NEW s \in Seq(S)
    PROVE  s = s \o <<>> /\ <<>> \in Seq(S) /\ DOMAIN <<>> = {}
OBVIOUS

\* Nobody begins to wait, or stops.
LEMMA TellingRests ==
    ASSUME TellInv, UNCHANGED <<notifications, writing, audience, broken, lapsed>>,
           \A g \in Handler : /\ req'[g].about = req[g].about
                              /\ req[g].about # Nobody => Yet(at'[g], req'[g]) = Yet(at[g], req[g])
    PROVE  CarriersInv' /\ TellingInv'
<1>1. CarriersInv'
  BY DEF TellInv, CarriersInv
<1>2. ASSUME NEW e \in DOMAIN audience, NEW u PROVE Waiting(e, u)' <=> Waiting(e, u)
  <2>1. e # Nobody
    BY NotificationAssumption DEF TellInv, EventsInv
  <2>2. Waiting(e, u)' <=> \/ \E h \in Handler : req'[h].about = e /\ u \in Yet(at'[h], req'[h])
                           \/ \E w \in writing : w.about = e /\ u \in w.users
    BY DEF Waiting, Yet
  <2> QED
    BY <2>1, <2>2 DEF Waiting
<1>3. (\A e \in DOMAIN audience : \A u \in User : Waiting(e, u) => u \in audience[e] /\ ~Told(e, u))'
  BY <1>2 DEF TellInv, TellingInv, Told
<1>4. (\A e \in DOMAIN audience : \A u \in audience[e] : Waiting(e, u) \/ Told(e, u) \/ e \in broken)'
  BY <1>2 DEF TellInv, TellingInv, Told
<1>5. /\ (notifications \in Seq(Note))'
      /\ (\A n \in DOMAIN notifications :
             /\ notifications[n].about \in DOMAIN audience
             /\ notifications[n].user \in audience[notifications[n].about]
             /\ \A m \in DOMAIN notifications : notifications[m] = notifications[n] => m = n)'
  BY DEF TellInv, TellingInv
<1> QED
  BY <1>1, <1>3, <1>4, <1>5 DEF TellingInv

LEMMA WaitingMoves ==
    ASSUME Handlers, NEW h \in Handler, NEW step, NEW r, Moves(h, step, r), NEW e, NEW u
    PROVE  Waiting(e, u)' <=>
              \/ r.about = e /\ u \in Yet(step, r)
              \/ \E g \in Handler \ {h} : req[g].about = e /\ u \in Yet(at[g], req[g])
              \/ \E w \in writing' : w.about = e /\ u \in w.users
<1>1. /\ at'[h] = step /\ req'[h] = r
      /\ \A g \in Handler \ {h} : at'[g] = at[g] /\ req'[g] = req[g]
  BY MovesAre
<1>2. Waiting(e, u)' <=> \/ \E g \in Handler : req'[g].about = e /\ u \in Yet(at'[g], req'[g])
                         \/ \E w \in writing' : w.about = e /\ u \in w.users
  BY DEF Waiting, Yet
<1> QED
  BY <1>1, <1>2

\* A handler that carries an event goes on, or ends: those who no longer wait for
\* it have been told, or the event is broken.
LEMMA Carried ==
    ASSUME Handlers, TellInv, NEW h \in Handler, at[h] \in Telling,
           NEW step, NEW r, Moves(h, step, r), UNCHANGED <<writing, audience, lapsed>>,
           broken \subseteq broken', NEW more \in Seq(Note), notifications' = notifications \o more,
           \A j, k \in DOMAIN more : more[j] = more[k] => j = k,
           r.about = req[h].about \/ (r.about = Nobody /\ Yet(step, r) = {}),
           Yet(step, r) \subseteq Yet(at[h], req[h]),
           \A k \in DOMAIN more : /\ more[k].about = req[h].about
                                  /\ more[k].user \in Yet(at[h], req[h]) \ Yet(step, r),
           \A u \in Yet(at[h], req[h]) \ Yet(step, r) :
              \/ req[h].about \in broken'
              \/ \E k \in DOMAIN more : more[k] = NotificationDoc(req[h].about, u)
    PROVE  CarriersInv' /\ TellingInv'
<1> DEFINE e0 == req[h].about
           before == Yet(at[h], req[h])
           after == Yet(step, r)
           Others(e, u) == \/ \E g \in Handler \ {h} : req[g].about = e /\ u \in Yet(at[g], req[g])
                           \/ \E w \in writing : w.about = e /\ u \in w.users
<1>1. e0 # Nobody /\ e0 \in DOMAIN audience
  BY NotificationAssumption, StepKinds DEF Handlers, RequestOK, TellInv, CarriersInv
<1>2. /\ at'[h] = step /\ req'[h] = r
      /\ \A g \in Handler \ {h} : at'[g] = at[g] /\ req'[g] = req[g]
  BY MovesAre
<1>3. CarriersInv'
  <2>1. \A g \in Handler : req'[g].about = req[g].about \/ req'[g].about = Nobody
    BY <1>2
  <2>2. \A w \in writing : w.about # Nobody
    BY NotificationAssumption DEF TellInv, CarriersInv, EventsInv
  <2> QED
    BY <2>1, <2>2 DEF TellInv, CarriersInv
<1>4. ASSUME NEW e, NEW u
      PROVE  /\ Waiting(e, u) <=> (e = e0 /\ u \in before) \/ Others(e, u)
             /\ Waiting(e, u)' <=> (r.about = e /\ u \in after) \/ Others(e, u)
  <2>1. Waiting(e, u) <=> (e = e0 /\ u \in before) \/ Others(e, u)
    BY DEF Waiting
  <2>2. Waiting(e, u)' <=> \/ r.about = e /\ u \in Yet(step, r)
                           \/ \E g \in Handler \ {h} : req[g].about = e /\ u \in Yet(at[g], req[g])
                           \/ \E w \in writing' : w.about = e /\ u \in w.users
    BY WaitingMoves
  <2> QED
    BY <2>1, <2>2
<1>5. \A u : ~Others(e0, u)
  BY <1>1 DEF TellInv, CarriersInv
<1> HIDE DEF e0, before, after, Others
<1>6. ASSUME NEW e \in DOMAIN audience, NEW u \in User, Waiting(e, u)' PROVE Waiting(e, u)
  <2>1. CASE Others(e, u)
    BY <1>4, <2>1
  <2>2. CASE r.about = e /\ u \in after
    <3>1. r.about = e0 /\ u \in before
      BY <2>2 DEF e0, before, after
    <3> QED
      BY <1>4, <2>2, <3>1
  <2> QED
    BY <1>4, <1>6, <2>1, <2>2
<1>7. ASSUME NEW k \in DOMAIN more
      PROVE  /\ more[k].about \in DOMAIN audience /\ Waiting(more[k].about, more[k].user)
             /\ ~Waiting(more[k].about, more[k].user)'
  <2>1. more[k].about = e0 /\ more[k].user \in before /\ more[k].user \notin after
    BY DEF e0, before, after
  <2> QED
    BY <1>1, <1>4, <1>5, <2>1
<1>8. ASSUME NEW e \in DOMAIN audience, NEW u \in audience[e], Waiting(e, u)
      PROVE  \/ Waiting(e, u)' \/ e \in broken'
             \/ \E k \in DOMAIN more : more[k] = NotificationDoc(e, u)
  <2>1. CASE Others(e, u)
    BY <1>4, <2>1
  <2>2. CASE e = e0 /\ u \in before
    <3>1. CASE u \notin after
      BY <2>2, <3>1 DEF e0, before, after
    <3>2. CASE u \in after
      <4>1. r.about = e0
        BY <3>2 DEF e0, after
      <4> QED
        BY <1>4, <2>2, <3>2, <4>1
    <3> QED
      BY <3>1, <3>2
  <2> QED
    BY <1>4, <1>8, <2>1, <2>2
<1>9. \A e \in DOMAIN audience : audience[e] \subseteq User
  BY DEF TellInv, EventsInv
<1>10. /\ DOMAIN audience \subseteq DOMAIN audience' /\ DOMAIN audience' \ DOMAIN audience = {}
       /\ \A e \in DOMAIN audience : audience'[e] = audience[e]
  OBVIOUS
<1>11. TellingInv
  BY DEF TellInv
<1>12. TellingInv'
  BY <1>6, <1>7, <1>8, <1>9, <1>10, <1>11, TellingGoesOn
<1> QED
  BY <1>3, <1>12

\* An event nobody has heard of is taken up by a handler that carries none.
LEMMA Began ==
    ASSUME Handlers, TellInv, NEW h \in Handler, req[h].about = Nobody,
           NEW e0 \in Event, e0 \notin DOMAIN audience, NEW users \in SUBSET User,
           NEW step, step # "notify.mail", NEW r, Moves(h, step, r), r.about = e0, r.todo = users,
           audience' = with(audience, e0, users),
           UNCHANGED <<notifications, broken, writing, lapsed>>
    PROVE  CarriersInv' /\ TellingInv'
<1>1. e0 # Nobody
  BY NotificationAssumption
<1>2. /\ at'[h] = step /\ req'[h] = r
      /\ \A g \in Handler \ {h} : at'[g] = at[g] /\ req'[g] = req[g]
  BY MovesAre
<1>3. /\ DOMAIN audience' = DOMAIN audience \cup {e0} /\ audience'[e0] = users
      /\ \A e \in DOMAIN audience : audience'[e] = audience[e]
  BY DEF with
<1>4. ASSUME NEW g \in Handler, req[g].about = e0 PROVE FALSE
  BY <1>1, <1>4 DEF TellInv, CarriersInv
<1>5. \A w \in writing : w.about # e0
  BY DEF TellInv, CarriersInv
<1>6. CarriersInv'
  <2>1. ASSUME NEW g \in Handler, req'[g].about # Nobody PROVE req'[g].about \in DOMAIN audience'
    BY <1>2, <1>3, <2>1 DEF TellInv, CarriersInv
  <2>2. ASSUME NEW f \in Handler, NEW g \in Handler, req'[f].about = req'[g].about,
               req'[f].about # Nobody
        PROVE  f = g
    BY <1>2, <1>4, <2>2 DEF TellInv, CarriersInv
  <2>3. ASSUME NEW w \in writing
        PROVE  /\ w.about \in DOMAIN audience' /\ w.about \in lapsed
               /\ w.about.kind \notin ProfileKind /\ w.users \subseteq User
               /\ \A g \in Handler : req'[g].about # w.about
               /\ \A v \in writing : v.about = w.about => v = w
    BY <1>2, <1>3, <1>5 DEF TellInv, CarriersInv
  <2> QED
    BY <2>1, <2>2, <2>3 DEF CarriersInv
<1>7. ASSUME NEW e, NEW u, e # e0 PROVE Waiting(e, u)' <=> Waiting(e, u)
  <2>1. Waiting(e, u)' <=>
              \/ \E g \in Handler \ {h} : req[g].about = e /\ u \in Yet(at[g], req[g])
              \/ \E w \in writing : w.about = e /\ u \in w.users
    BY <1>7, WaitingMoves
  <2>2. CASE e # Nobody
    BY <2>1, <2>2 DEF Waiting
  <2>3. CASE e = Nobody
    <3>1. Yet(at[h], req[h]) = {}
      BY NotificationAssumption, StepKinds DEF Handlers, RequestOK, Yet
    <3> QED
      BY <2>1, <3>1 DEF Waiting
  <2> QED
    BY <2>2, <2>3
<1>8. ASSUME NEW u PROVE Waiting(e0, u)' <=> u \in users
  BY <1>4, <1>5, WaitingMoves DEF Yet
<1>9. /\ notifications \in Seq(Note) /\ TellingInv
      /\ \A e \in DOMAIN audience : audience[e] \subseteq User
  BY DEF TellInv, TellingInv, EventsInv
<1>10. \E more \in Seq(Note) : notifications' = notifications \o more /\ DOMAIN more = {}
  BY <1>9, Appended
<1>11. PICK more \in Seq(Note) : notifications' = notifications \o more /\ DOMAIN more = {}
  BY <1>10
<1>12. \A e \in DOMAIN audience' \ DOMAIN audience :
         \A u : (u \in User /\ Waiting(e, u)') <=> u \in audience'[e]
  BY <1>3, <1>8
<1>13. /\ \A e \in DOMAIN audience : \A u \in User : Waiting(e, u)' => Waiting(e, u)
       /\ \A e \in DOMAIN audience : \A u \in audience[e] : Waiting(e, u) => Waiting(e, u)'
  BY <1>7
<1>14. TellingInv'
  BY <1>3, <1>9, <1>11, <1>12, <1>13, TellingGoesOn
<1> QED
  BY <1>6, <1>14

LEMMA BudgetFalls ==
    ASSUME Handlers, NEW part \in Part, Spend(part)
    PROVE  /\ left.notify \in Nat /\ left.listen \in Nat
           /\ left'.notify \in Nat /\ left'.listen \in Nat
           /\ left'.notify <= left.notify /\ left'.listen <= left.listen
           /\ part = "notify" => left'.notify = left.notify - 1 /\ left'.listen = left.listen
           /\ part = "listen" => left'.notify = left.notify /\ left'.listen = left.listen - 1
<1>1. left \in [Part -> Nat] /\ left' \in [Part -> Nat] /\ {"notify", "listen"} \subseteq Part
  BY BudgetIsSpent DEF Handlers, Part
<1>2. left[part] > 0 /\ \A p \in Part : left'[p] = IF p = part THEN left[p] - 1 ELSE left[p]
  BY <1>1 DEF Spend
<1> QED
  BY <1>1, <1>2

\* What is under way of the codes.
CodesStay == \A g \in Handler : at'[g] = "otp.mail" => at[g] = "otp.mail" /\ req'[g].code = req[g].code

LEMMA EventsStay ==
    ASSUME Handlers, EventsInv, audience' = audience, CodesStay,
           left' = left \/ \E part \in Part : Spend(part)
    PROVE  EventsInv'
<1>1. /\ left.notify \in Nat /\ left.listen \in Nat /\ left'.notify \in Nat /\ left'.listen \in Nat
      /\ left'.notify <= left.notify /\ left'.listen <= left.listen
  <2>1. CASE left' = left
    <3>1. left.notify \in Nat /\ left.listen \in Nat
      BY DEF Handlers, Part
    <3> QED
      BY <2>1, <3>1
  <2>2. CASE \E part \in Part : Spend(part)
    BY <2>2, BudgetFalls
  <2> QED
    BY <2>1, <2>2
<1>2. ASSUME NEW h \in Handler, at'[h] = "otp.mail"
      PROVE  at[h] = "otp.mail" /\ req'[h].code = req[h].code /\ req[h].code \in Nat
  BY <1>2 DEF CodesStay, Handlers, RequestOK
<1>3. ASSUME NEW e \in DOMAIN audience
      PROVE  /\ e \in Event /\ audience'[e] \subseteq User /\ e.number \in Nat
             /\ e.kind # "password_reset" => e.number > left'.notify + left'.listen
             /\ e.kind = "password_reset" =>
                  /\ e.number > left'.listen
                  /\ \A h \in Handler : at'[h] = "otp.mail" => req'[h].code # e.number
  <2>1. e \in Event /\ e.number \in Nat /\ audience'[e] \subseteq User
    BY DEF EventsInv, Event
  <2>2. CASE e.kind # "password_reset"
    <3>1. e.number > left.notify + left.listen
      BY <2>2 DEF EventsInv
    <3> QED
      BY <1>1, <2>1, <2>2, <3>1
  <2>3. CASE e.kind = "password_reset"
    <3>1. e.number > left.listen /\ \A h \in Handler : at[h] = "otp.mail" => req[h].code # e.number
      BY <2>3 DEF EventsInv
    <3> QED
      BY <1>1, <1>2, <2>1, <2>3, <3>1
  <2> QED
    BY <2>1, <2>2, <2>3
<1>4. ASSUME NEW h \in Handler, at'[h] = "otp.mail" PROVE req'[h].code > left'.listen
  <2>1. req[h].code > left.listen /\ req[h].code \in Nat /\ req'[h].code = req[h].code
    BY <1>2, <1>4 DEF EventsInv
  <2> QED
    BY <1>1, <2>1
<1>5. ASSUME NEW g \in Handler, NEW h \in Handler, at'[g] = "otp.mail", at'[h] = "otp.mail",
             req'[g].code = req'[h].code
      PROVE  g = h
  BY <1>2, <1>5 DEF EventsInv
<1> QED
  BY <1>3, <1>4, <1>5 DEF EventsInv

\* A request or a decision is announced as an event of its own.
LEMMA EventBegins ==
    ASSUME Handlers, EventsInv,
           NEW kind \in {"api", "broadcast"} \cup EMAIL_TEMPLATES \cup ProfileKind,
           NEW users \in SUBSET User, audience' = with(audience, NewEvent(kind), users), CodesStay,
           NEW part \in {"notify", "listen"}, Spend(part)
    PROVE  NewEvent(kind) \notin DOMAIN audience /\ EventsInv'
<1> DEFINE new == NewEvent(kind)
<1>1. /\ new \in Event /\ new.kind # "password_reset" /\ new.number = left.notify + left.listen
      /\ left.notify \in Nat /\ left.listen \in Nat
  <2>1. kind # "password_reset"
    BY DEF EMAIL_TEMPLATES, ProfileKind
  <2> QED
    BY <2>1, NewEvents
<1> HIDE DEF new
<1>2. new \notin DOMAIN audience
  <2> SUFFICES ASSUME new \in DOMAIN audience PROVE FALSE
    OBVIOUS
  <2>1. new.number > left.notify + left.listen
    BY <1>1 DEF EventsInv
  <2> QED
    BY <1>1, <2>1
<1>3. part \in Part /\ audience' = with(audience, new, users)
  BY DEF Part, new
<1>4. /\ left'.notify \in Nat /\ left'.listen \in Nat
      /\ left'.listen <= left.listen /\ left'.notify + left'.listen < left.notify + left.listen
  BY <1>3, BudgetFalls
<1>5. /\ DOMAIN audience' = DOMAIN audience \cup {new} /\ audience'[new] = users
      /\ \A e \in DOMAIN audience : audience'[e] = audience[e]
  BY <1>2, <1>3 DEF with
<1>6. ASSUME NEW h \in Handler, at'[h] = "otp.mail"
      PROVE  at[h] = "otp.mail" /\ req'[h].code = req[h].code /\ req[h].code \in Nat
  BY <1>6 DEF CodesStay, Handlers, RequestOK
<1>7. ASSUME NEW e \in DOMAIN audience'
      PROVE  /\ e \in Event /\ audience'[e] \subseteq User
             /\ e.kind # "password_reset" => e.number > left'.notify + left'.listen
             /\ e.kind = "password_reset" =>
                  /\ e.number > left'.listen
                  /\ \A h \in Handler : at'[h] = "otp.mail" => req'[h].code # e.number
  <2>1. CASE e = new
    BY <1>1, <1>4, <1>5, <2>1
  <2>2. CASE e # new
    <3>1. e \in DOMAIN audience /\ e \in Event /\ e.number \in Nat /\ audience'[e] \subseteq User
      BY <1>5, <2>2 DEF EventsInv, Event
    <3>2. CASE e.kind # "password_reset"
      <4>1. e.number > left.notify + left.listen
        BY <3>1, <3>2 DEF EventsInv
      <4> QED
        BY <1>1, <1>4, <3>1, <3>2, <4>1
    <3>3. CASE e.kind = "password_reset"
      <4>1. /\ e.number > left.listen
            /\ \A h \in Handler : at[h] = "otp.mail" => req[h].code # e.number
        BY <3>1, <3>3 DEF EventsInv
      <4> QED
        BY <1>1, <1>4, <1>6, <3>1, <3>3, <4>1
    <3> QED
      BY <3>1, <3>2, <3>3
  <2> QED
    BY <2>1, <2>2
<1>8. ASSUME NEW h \in Handler, at'[h] = "otp.mail" PROVE req'[h].code > left'.listen
  <2>1. req[h].code > left.listen /\ req[h].code \in Nat /\ req'[h].code = req[h].code
    BY <1>6, <1>8 DEF EventsInv
  <2> QED
    BY <1>1, <1>4, <2>1
<1>9. ASSUME NEW g \in Handler, NEW h \in Handler, at'[g] = "otp.mail", at'[h] = "otp.mail",
             req'[g].code = req'[h].code
      PROVE  g = h
  BY <1>6, <1>9 DEF EventsInv
<1> QED
  BY <1>2, <1>7, <1>8, <1>9 DEF EventsInv, new

LEMMA ItemsAre ==
    ASSUME NEW e \in Event, NEW users \in SUBSET User
    PROVE  /\ Items(e, users) \in Seq(Note)
           /\ \A k \in DOMAIN Items(e, users) :
                 /\ Items(e, users)[k].about = e /\ Items(e, users)[k].user \in users
                 /\ \A j \in DOMAIN Items(e, users) : Items(e, users)[j] = Items(e, users)[k] => j = k
           /\ \A u \in users : \E k \in DOMAIN Items(e, users) :
                 Items(e, users)[k] = NotificationDoc(e, u)
<1> DEFINE n == Cardinality(users)
           f == SetToSeq(users)
           items == Items(e, users)
<1>1. IsFiniteSet(users)
  BY RealtimeAssumption, FS_Subset
<1>2. n \in Nat /\ ExistsBijection(1..n, users)
  BY <1>1, FS_CardinalityType
<1>3. PICK b \in [1..n -> users] : \A j, k \in 1..n : b[j] = b[k] => j = k
  BY <1>2 DEF ExistsBijection, Bijection, Injection, IsInjective
<1>4. f \in [1..n -> users] /\ \A j, k \in 1..n : f[j] = f[k] => j = k
  <2>1. \E g \in [1..n -> users] : IsInjective(g)
    BY <1>3 DEF IsInjective
  <2>2. f \in [1..n -> users] /\ IsInjective(f)
    BY <2>1 DEF SetToSeq
  <2> QED
    BY <2>2 DEF IsInjective
<1>5. \A u \in users : \E k \in 1..n : f[k] = u
  <2>1. f \in Injection(1..n, users)
    BY <1>4 DEF Injection, IsInjective
  <2>2. IsFiniteSet(1..n) /\ Cardinality(1..n) = n
    BY <1>2, FS_Interval
  <2>3. f \in Surjection(1..n, users)
    BY <1>1, <2>1, <2>2, FS_Injection
  <2> QED
    BY <2>3 DEF Surjection
<1>6. items = [k \in 1..n |-> NotificationDoc(e, f[k])]
  BY DEF Items
<1> HIDE DEF n, f, items
<1>7. DOMAIN items = 1..n /\ \A k \in 1..n : items[k] = NotificationDoc(e, f[k])
  BY <1>6
<1>8. \A k \in 1..n : items[k] \in Note /\ items[k].about = e /\ items[k].user = f[k]
  BY <1>4, <1>7 DEF NotificationDoc, Note
<1>9. items \in Seq(Note)
  <2>1. items \in [1..n -> Note]
    BY <1>6, <1>7, <1>8
  <2> QED
    BY <1>2, <2>1
<1>10. \A k \in DOMAIN items : /\ items[k].about = e /\ items[k].user \in users
                               /\ \A j \in DOMAIN items : items[j] = items[k] => j = k
  BY <1>4, <1>7, <1>8
<1>11. \A u \in users : \E k \in DOMAIN items : items[k] = NotificationDoc(e, u)
  BY <1>5, <1>7
<1> QED
  BY <1>9, <1>10, <1>11 DEF items

\* An event of its own is announced: a handler that was idle takes it up.
LEMMA NotificationBegins ==
    ASSUME Handlers, TellInv, NEW h \in Handler,
           NEW kind \in {"api", "broadcast"} \cup EMAIL_TEMPLATES \cup ProfileKind,
           NEW users \in SUBSET User, NEW part \in {"notify", "listen"},
           NEW step \in {"notify.create", "broadcast.insert", "listener.emit"}, NEW r,
           r.about = NewEvent(kind), r.todo = users,
           Accept(h, part, step, r), ToTell(NewEvent(kind), users),
           UNCHANGED <<notifications, broken, writing, lapsed>>
    PROVE  TellInv'
<1>1. at[h] = "idle" /\ Moves(h, step, r) /\ Spend(part)
  BY DEF Accept, Moves
<1>2. req[h].about = Nobody
  BY <1>1, StepKinds DEF Handlers, RequestOK
<1>3. CodesStay
  <2>1. \A g \in Handler \ {h} : at'[g] = at[g] /\ req'[g] = req[g]
    BY <1>1, MovesAre
  <2>2. at'[h] = step /\ step # "otp.mail"
    BY <1>1, MovesAre
  <2> QED
    BY <2>1, <2>2 DEF CodesStay
<1>4. EventsInv
  BY DEF TellInv
<1>5. audience' = with(audience, NewEvent(kind), users)
  BY DEF ToTell
<1>6. NewEvent(kind) \notin DOMAIN audience /\ EventsInv'
  BY <1>1, <1>3, <1>4, <1>5, EventBegins
<1>7. NewEvent(kind) \in Event
  BY NewEvents
<1>8. step # "notify.mail"
  OBVIOUS
<1>9. CarriersInv' /\ TellingInv'
  BY <1>1, <1>2, <1>5, <1>6, <1>7, <1>8, Began
<1> QED
  BY <1>6, <1>9 DEF TellInv

\* No code is drawn where a handler moves to something else than its mail.
LEMMA EventsAreKept ==
    ASSUME Handlers, TellInv, NEW h \in Handler, NEW step, step # "otp.mail", NEW r,
           Moves(h, step, r), left' = left, audience' = audience
    PROVE  EventsInv'
<1>1. /\ at'[h] = step
      /\ \A g \in Handler \ {h} : at'[g] = at[g] /\ req'[g] = req[g]
  BY MovesAre
<1>2. CodesStay
  BY <1>1 DEF CodesStay
<1> QED
  BY <1>2, EventsStay DEF TellInv

\* Where a handler goes once it has told a user, or could not.
LEMMA GoesOn ==
    ASSUME Handlers, NEW h \in Handler, at[h] = "notify.create", NEW u \in req[h].todo,
           IF req[h].about.kind \in EMAIL_TEMPLATES
           THEN NextUser(h, u) \/ GoTo(h, "notify.mail", [req[h] EXCEPT !.mailed = u])
           ELSE NextUser(h, u)
    PROVE  /\ left' = left
           /\ \E step, r : /\ Moves(h, step, r) /\ step # "otp.mail"
                           /\ Yet(step, r) = req[h].todo \ {u}
                           /\ r.about = req[h].about \/ (r.about = Nobody /\ Yet(step, r) = {})
<1> DEFINE old == req[h]
<1>1. DOMAIN old = Fields
  BY DEF Handlers, RequestOK
<1>2. CASE NextUser(h, u)
  <2>1. left' = left
    BY <1>2 DEF NextUser, GoTo, Answer
  <2>2. CASE Moves(h, "idle", NoRequest) /\ old.todo \subseteq {u}
    <3>1. NoRequest.about = Nobody /\ Yet("idle", NoRequest) = {}
      BY DEF NoRequest, Yet
    <3> QED
      BY <2>1, <2>2, <3>1
  <2>3. ASSUME NEW step \in {"notify.create", "listener.mail"}, Moves(h, step, Without(old, u))
        PROVE  \E st, r : /\ Moves(h, st, r) /\ st # "otp.mail" /\ Yet(st, r) = old.todo \ {u}
                          /\ r.about = old.about \/ (r.about = Nobody /\ Yet(st, r) = {})
    <3>1. Yet(step, Without(old, u)) = old.todo \ {u} /\ Without(old, u).about = old.about
      BY <1>1, <2>3, WithoutIs DEF Yet
    <3> QED
      BY <2>3, <3>1
  <2> QED
    BY <1>2, <2>1, <2>2, <2>3, NextUserIsOK
<1>3. CASE GoTo(h, "notify.mail", [old EXCEPT !.mailed = u])
  <2> DEFINE r == [old EXCEPT !.mailed = u]
  <2>1. left' = left /\ Moves(h, "notify.mail", r)
    BY <1>3 DEF GoTo, Moves
  <2>2. r.todo = old.todo /\ r.mailed = u /\ r.about = old.about
    BY <1>1 DEF Fields
  <2> HIDE DEF r
  <2>3. Yet("notify.mail", r) = old.todo \ {u}
    BY <2>2 DEF Yet
  <2> QED
    BY <2>1, <2>2, <2>3
<1> QED
  BY <1>2, <1>3

\* One user has been told, or is not because the write was refused.
LEMMA OneIsTold ==
    ASSUME Handlers, TellInv, NEW h \in Handler, at[h] = "notify.create", NEW u \in req[h].todo,
           UNCHANGED <<writing, audience, lapsed>>, left' = left,
           NEW step, NEW r, Moves(h, step, r), step # "otp.mail",
           Yet(step, r) = req[h].todo \ {u},
           r.about = req[h].about \/ (r.about = Nobody /\ Yet(step, r) = {}),
           \/ notifications' = notifications \o <<NotificationDoc(req[h].about, u)>> /\ broken' = broken
           \/ notifications' = notifications /\ broken' = broken \cup {req[h].about}
    PROVE  TellInv'
<1> DEFINE e == req[h].about
           doc == NotificationDoc(e, u)
<1>1. /\ at[h] \in Telling /\ Yet(at[h], req[h]) = req[h].todo /\ e \in Event
      /\ req[h].todo \subseteq User
  BY StepKinds DEF Handlers, RequestOK, Yet
<1>2. EventsInv'
  BY EventsAreKept
<1>3. doc \in Note /\ doc.about = e /\ doc.user = u
  BY <1>1 DEF Note, NotificationDoc
<1>4. CASE notifications' = notifications \o <<doc>> /\ broken' = broken
  <2> DEFINE more == <<doc>>
  <2>1. more \in Seq(Note) /\ DOMAIN more = {1} /\ more[1] = doc
    BY <1>3
  <2> HIDE DEF more, doc
  <2>2. \A j, k \in DOMAIN more : more[j] = more[k] => j = k
    BY <2>1
  <2>3. notifications' = notifications \o more /\ broken \subseteq broken'
    BY <1>4 DEF more
  <2>4. Yet(step, r) \subseteq Yet(at[h], req[h])
    BY <1>1
  <2>5. \A k \in DOMAIN more : more[k].about = req[h].about
                               /\ more[k].user \in Yet(at[h], req[h]) \ Yet(step, r)
    BY <1>1, <1>3, <2>1
  <2>6. \A v \in Yet(at[h], req[h]) \ Yet(step, r) :
              \/ req[h].about \in broken'
              \/ \E k \in DOMAIN more : more[k] = NotificationDoc(req[h].about, v)
    BY <1>1, <2>1 DEF doc
  <2> HIDE DEF e
  <2>7. CarriersInv' /\ TellingInv'
    BY <1>1, <2>1, <2>2, <2>3, <2>4, <2>5, <2>6, Carried
  <2> QED
    BY <1>2, <2>7 DEF TellInv
<1>5. CASE notifications' = notifications /\ broken' = broken \cup {e}
  <2>1. PICK more \in Seq(Note) : notifications' = notifications \o more /\ DOMAIN more = {}
    <3>1. notifications \in Seq(Note)
      BY DEF TellInv, TellingInv
    <3> QED
      BY <1>5, <3>1, Appended
  <2>2. Yet(step, r) \subseteq Yet(at[h], req[h]) /\ broken \subseteq broken' /\ e \in broken'
    BY <1>1, <1>5
  <2>3. CarriersInv' /\ TellingInv'
    BY <1>1, <2>1, <2>2, Carried
  <2> QED
    BY <1>2, <2>3 DEF TellInv
<1> QED
  BY <1>4, <1>5

LEMMA TellCreateNotification ==
    ASSUME Handlers, TellInv, NEW h \in Handler, NEW u \in User, CreateNotification(h, u)
    PROVE  TellInv'
<1>1. /\ at[h] = "notify.create" /\ u \in req[h].todo
      /\ notifications' = notifications \o <<NotificationDoc(req[h].about, u)>>
      /\ broken' = broken /\ UNCHANGED <<writing, audience, lapsed>>
  BY DEF CreateNotification, Stored, notificationHistory
<1>2. IF req[h].about.kind \in EMAIL_TEMPLATES
      THEN NextUser(h, u) \/ GoTo(h, "notify.mail", [req[h] EXCEPT !.mailed = u])
      ELSE NextUser(h, u)
  BY DEF CreateNotification
<1>3. /\ left' = left
      /\ \E step, r : /\ Moves(h, step, r) /\ step # "otp.mail"
                      /\ Yet(step, r) = req[h].todo \ {u}
                      /\ r.about = req[h].about \/ (r.about = Nobody /\ Yet(step, r) = {})
  BY <1>1, <1>2, GoesOn
<1> QED
  BY <1>1, <1>3, OneIsTold

LEMMA TellCreateRefused ==
    ASSUME Handlers, TellInv, NEW h \in Handler, NEW u \in User, CreateRefused(h, u)
    PROVE  TellInv'
<1>1. /\ at[h] = "notify.create" /\ u \in req[h].todo
      /\ notifications' = notifications /\ broken' = broken \cup {req[h].about}
      /\ UNCHANGED <<writing, audience, lapsed>>
  BY DEF CreateRefused
<1>2. CASE NextUser(h, u)
  <2>1. /\ left' = left
        /\ \E step, r : /\ Moves(h, step, r) /\ step # "otp.mail"
                        /\ Yet(step, r) = req[h].todo \ {u}
                        /\ r.about = req[h].about \/ (r.about = Nobody /\ Yet(step, r) = {})
    BY <1>1, <1>2, GoesOn
  <2> QED
    BY <1>1, <2>1, OneIsTold
<1>3. CASE Answer(h)
  <2>1. Moves(h, "idle", NoRequest) /\ left' = left /\ "idle" # "otp.mail"
    BY <1>3 DEF Answer, GoTo, Moves
  <2>2. NoRequest.about = Nobody /\ Yet("idle", NoRequest) = {}
    BY DEF NoRequest, Yet
  <2>3. at[h] \in Telling
    BY <1>1, StepKinds
  <2>4. PICK more \in Seq(Note) : notifications' = notifications \o more /\ DOMAIN more = {}
    <3>1. notifications \in Seq(Note)
      BY DEF TellInv, TellingInv
    <3> QED
      BY <1>1, <3>1, Appended
  <2>5. CarriersInv' /\ TellingInv'
    BY <1>1, <2>1, <2>2, <2>3, <2>4, Carried
  <2> QED
    BY <2>1, <1>1, <2>5, EventsAreKept DEF TellInv
<1> QED
  BY <1>2, <1>3 DEF CreateRefused

\* A handler goes on with nobody told: the mail, the push, or the next user.
LEMMA NobodyIsTold ==
    ASSUME Handlers, TellInv, NEW h \in Handler, at[h] \in Telling,
           UNCHANGED <<notifications, broken, writing, audience, lapsed>>, left' = left,
           NEW step, NEW r, Moves(h, step, r), step # "otp.mail",
           Yet(step, r) = Yet(at[h], req[h]),
           r.about = req[h].about \/ (r.about = Nobody /\ Yet(step, r) = {})
    PROVE  TellInv'
<1>1. PICK more \in Seq(Note) : notifications' = notifications \o more /\ DOMAIN more = {}
  <2>1. notifications \in Seq(Note)
    BY DEF TellInv, TellingInv
  <2> QED
    BY <2>1, Appended
<1>2. CarriersInv' /\ TellingInv'
  BY <1>1, Carried
<1>3. EventsInv'
  BY EventsAreKept
<1> QED
  BY <1>2, <1>3 DEF TellInv

LEMMA TellMailing ==
    ASSUME Handlers, TellInv, NEW h \in Handler, SendNotificationMail(h)
    PROVE  TellInv'
<1>1. /\ at[h] = "notify.mail" /\ left' = left
      /\ UNCHANGED <<notifications, broken, writing, audience, lapsed>>
  BY DEF SendNotificationMail, notificationVars, notificationHistory, GoTo, Answer
<1>2. at[h] \in Telling /\ Yet(at[h], req[h]) = req[h].todo \ {req[h].mailed}
  BY <1>1, StepKinds DEF Yet
<1>3. CASE Moves(h, "idle", NoRequest) /\ req[h].todo \subseteq {req[h].mailed}
  <2>1. NoRequest.about = Nobody /\ Yet("idle", NoRequest) = {}
    BY DEF NoRequest, Yet
  <2>2. Yet("idle", NoRequest) = Yet(at[h], req[h])
    BY <1>2, <1>3, <2>1
  <2> QED
    BY <1>1, <1>2, <1>3, <2>1, <2>2, NobodyIsTold
<1>4. ASSUME NEW r, Moves(h, "notify.create", r), r.about = req[h].about,
             r.todo = req[h].todo \ {req[h].mailed}
      PROVE  TellInv'
  <2>1. Yet("notify.create", r) = Yet(at[h], req[h])
    BY <1>2, <1>4 DEF Yet
  <2> QED
    BY <1>1, <1>2, <1>4, <2>1, NobodyIsTold
<1> QED
  BY <1>3, <1>4, MailingIsOK

LEMMA TellListening ==
    ASSUME Handlers, TellInv, NEW h \in Handler,
           MailDecision(h) \/ EnqueueRefused(h) \/ \E now \in 1..MaxMs : EnqueuePush(h, now)
    PROVE  TellInv'
<1>1. /\ at[h] \in {"listener.mail", "listener.push"} /\ left' = left
      /\ UNCHANGED <<notifications, broken, writing, audience, lapsed>>
      /\ GoTo(h, "listener.push", req[h]) \/ Answer(h)
  BY DEF MailDecision, EnqueueRefused, EnqueuePush, notificationVars, notificationHistory, GoTo, Answer
<1>2. at[h] \in Telling /\ Yet(at[h], req[h]) = {} /\ req[h].todo = {}
  BY <1>1, StepKinds DEF Yet, Handlers, RequestOK
<1>3. CASE GoTo(h, "listener.push", req[h])
  <2>1. Moves(h, "listener.push", req[h]) /\ Yet("listener.push", req[h]) = {}
    BY <1>2, <1>3 DEF GoTo, Moves, Yet
  <2> QED
    BY <1>1, <1>2, <2>1, NobodyIsTold
<1>4. CASE Answer(h)
  <2>1. Moves(h, "idle", NoRequest) /\ NoRequest.about = Nobody /\ Yet("idle", NoRequest) = {}
    BY <1>4 DEF GoTo, Answer, Moves, NoRequest, Yet
  <2> QED
    BY <1>1, <1>2, <2>1, NobodyIsTold
<1> QED
  BY <1>1, <1>3, <1>4

LEMMA TellEmitting ==
    ASSUME Handlers, TellInv, NEW h \in Handler, emit(h)
    PROVE  TellInv'
<1>1. /\ at[h] = "listener.emit" /\ left' = left /\ Moves(h, "notify.create", req[h])
      /\ UNCHANGED <<notifications, broken, writing, audience, lapsed>>
  BY DEF emit, notificationVars, notificationHistory, GoTo, Moves
<1> QED
  BY <1>1, EmittingIsOK, NobodyIsTold

\* The decision is stored, and nobody is ever told.
LEMMA TellUpdateFails ==
    ASSUME Handlers, TellInv, NEW h \in Handler, UpdateFails(h)
    PROVE  TellInv'
<1>1. /\ at[h] = "listener.emit" /\ notifications' = notifications
      /\ broken' = broken \cup {req[h].about} /\ UNCHANGED <<writing, audience, lapsed>>
  BY DEF UpdateFails
<1>2. Moves(h, "idle", NoRequest) /\ left' = left /\ "idle" # "otp.mail"
  BY DEF UpdateFails, Answer, GoTo, Moves
<1>3. NoRequest.about = Nobody /\ Yet("idle", NoRequest) = {}
  BY DEF NoRequest, Yet
<1>4. at[h] \in Telling
  BY <1>1, EmittingIsOK
<1>5. PICK more \in Seq(Note) : notifications' = notifications \o more /\ DOMAIN more = {}
  <2>1. notifications \in Seq(Note)
    BY DEF TellInv, TellingInv
  <2> QED
    BY <1>1, <2>1, Appended
<1>6. CarriersInv' /\ TellingInv'
  BY <1>1, <1>2, <1>3, <1>4, <1>5, Carried
<1> QED
  BY <1>1, <1>2, <1>6, EventsAreKept DEF TellInv

\* A broadcast is stored, in whole or in part.
LEMMA ManyAreTold ==
    ASSUME Handlers, TellInv, NEW h \in Handler, at[h] = "broadcast.insert", Answer(h),
           NEW stored \in SUBSET req[h].todo, Stored(Items(req[h].about, stored)),
           UNCHANGED <<writing, audience, lapsed>>, broken \subseteq broken',
           stored = req[h].todo \/ req[h].about \in broken'
    PROVE  TellInv'
<1> DEFINE e == req[h].about
           more == Items(e, stored)
<1>1. /\ at[h] \in Telling /\ Yet(at[h], req[h]) = req[h].todo /\ e \in Event
      /\ req[h].todo \subseteq User
  BY StepKinds DEF Handlers, RequestOK, Yet
<1>2. Moves(h, "idle", NoRequest) /\ left' = left /\ "idle" # "otp.mail"
  BY DEF Answer, GoTo, Moves
<1>3. NoRequest.about = Nobody /\ Yet("idle", NoRequest) = {}
  BY DEF NoRequest, Yet
<1>4. stored \in SUBSET User
  BY <1>1
<1>5. /\ more \in Seq(Note)
      /\ \A k \in DOMAIN more : /\ more[k].about = e /\ more[k].user \in stored
                                /\ \A j \in DOMAIN more : more[j] = more[k] => j = k
      /\ \A u \in stored : \E k \in DOMAIN more : more[k] = NotificationDoc(e, u)
  BY <1>1, <1>4, ItemsAre
<1>6. notifications' = notifications \o more
  BY DEF Stored
<1> HIDE DEF more, e
<1>7. \A k \in DOMAIN more : more[k].about = req[h].about
                             /\ more[k].user \in Yet(at[h], req[h]) \ Yet("idle", NoRequest)
  BY <1>1, <1>3, <1>5 DEF e
<1>8. \A u \in Yet(at[h], req[h]) \ Yet("idle", NoRequest) :
              \/ req[h].about \in broken'
              \/ \E k \in DOMAIN more : more[k] = NotificationDoc(req[h].about, u)
  BY <1>1, <1>3, <1>5 DEF e
<1>9. \A j, k \in DOMAIN more : more[j] = more[k] => j = k
  BY <1>5
<1>10. Yet("idle", NoRequest) \subseteq Yet(at[h], req[h])
  BY <1>3
<1>11. CarriersInv' /\ TellingInv'
  BY <1>1, <1>2, <1>3, <1>5, <1>6, <1>7, <1>8, <1>9, <1>10, Carried
<1>12. EventsInv'
  BY <1>2, EventsAreKept
<1> QED
  BY <1>11, <1>12 DEF TellInv

\* The request is answered and its write goes on: who waited for the handler waits
\* for the write.
LEMMA TellAborted ==
    ASSUME Handlers, TellInv, NEW h \in Handler, withAbort(h)
    PROVE  TellInv'
<1> DEFINE e0 == req[h].about
           w0 == [about |-> e0, users |-> req[h].todo]
<1>1. /\ at[h] \in {"notify.create", "broadcast.insert"} /\ req[h].aborts
      /\ writing' = writing \cup {w0} /\ lapsed' = lapsed \cup {e0} /\ Answer(h)
      /\ UNCHANGED <<notifications, audience, broken>>
  BY DEF withAbort
<1>2. Aborts(req[h])
  BY <1>1 DEF Aborts
<1>3. /\ e0 \in Event /\ e0.kind \notin ProfileKind /\ req[h].todo \subseteq User
      /\ Yet(at[h], req[h]) = req[h].todo
  BY <1>1, <1>2, StepKinds DEF Handlers, RequestOK, Yet
<1>4. Moves(h, "idle", NoRequest) /\ left' = left /\ "idle" # "otp.mail"
  BY <1>1 DEF Answer, GoTo, Moves
<1>5. NoRequest.about = Nobody /\ Yet("idle", NoRequest) = {}
  BY DEF NoRequest, Yet
<1>6. e0 # Nobody /\ e0 \in DOMAIN audience
  BY <1>3, NotificationAssumption DEF TellInv, CarriersInv
<1>7. w0.about = e0 /\ w0.users = req[h].todo
  OBVIOUS
<1>8. /\ at'[h] = "idle" /\ req'[h] = NoRequest
      /\ \A g \in Handler \ {h} : at'[g] = at[g] /\ req'[g] = req[g]
  BY <1>4, MovesAre
<1>9. /\ \A g \in Handler : req[g].about = e0 => g = h
      /\ \A w \in writing : w.about # e0 /\ w.about # Nobody
  BY <1>6, NotificationAssumption DEF TellInv, CarriersInv, EventsInv
<1> HIDE DEF e0, w0
<1>10. CarriersInv'
  <2>1. \A g \in Handler : req'[g].about # Nobody =>
           req'[g].about = req[g].about /\ g # h /\ req'[g].about # e0
    BY <1>5, <1>8, <1>9
  <2>2. /\ \A g \in Handler : req'[g].about # Nobody => req'[g].about \in DOMAIN audience'
        /\ \A f, g \in Handler :
              req'[f].about = req'[g].about /\ req'[f].about # Nobody => f = g
    BY <1>1, <2>1 DEF TellInv, CarriersInv
  <2>3. ASSUME NEW w \in writing'
        PROVE  /\ w.about \in DOMAIN audience' /\ w.about \in lapsed'
               /\ w.about.kind \notin ProfileKind /\ w.users \subseteq User
               /\ \A g \in Handler : req'[g].about # w.about
               /\ \A v \in writing' : v.about = w.about => v = w
    <3>1. CASE w = w0
      BY <1>1, <1>3, <1>6, <1>7, <1>9, <2>1, <3>1
    <3>2. CASE w \in writing
      BY <1>1, <1>7, <1>9, <2>1, <3>2 DEF TellInv, CarriersInv
    <3> QED
      BY <1>1, <3>1, <3>2
  <2> QED
    BY <2>2, <2>3 DEF CarriersInv
<1>11. ASSUME NEW e, e # Nobody, NEW u PROVE Waiting(e, u)' <=> Waiting(e, u)
  <2>1. Waiting(e, u)' <=>
              \/ NoRequest.about = e /\ u \in Yet("idle", NoRequest)
              \/ \E g \in Handler \ {h} : req[g].about = e /\ u \in Yet(at[g], req[g])
              \/ \E w \in writing' : w.about = e /\ u \in w.users
    BY <1>4, WaitingMoves
  <2>2. Waiting(e, u) <=>
              \/ e0 = e /\ u \in req[h].todo
              \/ \E g \in Handler \ {h} : req[g].about = e /\ u \in Yet(at[g], req[g])
              \/ \E w \in writing : w.about = e /\ u \in w.users
    BY <1>3 DEF Waiting, e0
  <2>3. (\E w \in writing' : w.about = e /\ u \in w.users) <=>
              \/ e0 = e /\ u \in req[h].todo
              \/ \E w \in writing : w.about = e /\ u \in w.users
    BY <1>1, <1>7
  <2> QED
    BY <1>11, <1>5, <2>1, <2>2, <2>3
<1>12. TellingInv'
  <2>1. PICK more \in Seq(Note) : notifications' = notifications \o more /\ DOMAIN more = {}
    <3>1. notifications \in Seq(Note)
      BY DEF TellInv, TellingInv
    <3> QED
      BY <1>1, <3>1, Appended
  <2>2. /\ \A e \in DOMAIN audience : e # Nobody /\ audience[e] \subseteq User
        /\ TellingInv
    BY NotificationAssumption DEF TellInv, EventsInv
  <2> QED
    BY <1>1, <1>11, <2>1, <2>2, TellingGoesOn
<1>13. EventsInv'
  BY <1>1, <1>4, EventsAreKept
<1> QED
  BY <1>10, <1>12, <1>13 DEF TellInv

\* A write that went on is done.
LEMMA TellWritten ==
    ASSUME Handlers, TellInv, NEW w \in writing, WriteGoesOn(w)
    PROVE  TellInv'
<1> DEFINE e0 == w.about
           more == Items(e0, w.users)
<1>1. /\ writing' = writing \ {w} /\ notifications' = notifications \o more
      /\ UNCHANGED <<at, req, left, audience, lapsed, broken>>
  BY DEF WriteGoesOn, Stored, notificationHistory
<1>2. /\ e0 \in DOMAIN audience /\ e0 \in Event /\ w.users \in SUBSET User
      /\ \A g \in Handler : req[g].about # e0
      /\ \A v \in writing : v.about = e0 => v = w
  BY DEF TellInv, CarriersInv, EventsInv
<1>3. /\ more \in Seq(Note)
      /\ \A k \in DOMAIN more : /\ more[k].about = e0 /\ more[k].user \in w.users
                                /\ \A j \in DOMAIN more : more[j] = more[k] => j = k
      /\ \A u \in w.users : \E k \in DOMAIN more : more[k] = NotificationDoc(e0, u)
  <2> DEFINE users == w.users
  <2>1. e0 \in Event /\ users \in SUBSET User
    BY <1>2
  <2> HIDE DEF e0, users
  <2> QED
    BY <2>1, ItemsAre DEF users
<1> HIDE DEF more
<1>4. CarriersInv'
  BY <1>1 DEF TellInv, CarriersInv
<1>5. ASSUME NEW e, NEW u
      PROVE  Waiting(e, u)' <=> \/ \E g \in Handler : req[g].about = e /\ u \in Yet(at[g], req[g])
                                \/ \E v \in writing \ {w} : v.about = e /\ u \in v.users
  BY <1>1 DEF Waiting, Yet
<1>6. ASSUME NEW e, NEW u
      PROVE  /\ Waiting(e, u)' => Waiting(e, u)
             /\ Waiting(e, u) => Waiting(e, u)' \/ (e = e0 /\ u \in w.users)
             /\ ~Waiting(e0, u)'
  <2>1. Waiting(e, u)' => Waiting(e, u)
    BY <1>5 DEF Waiting
  <2>2. Waiting(e, u) => Waiting(e, u)' \/ (e = e0 /\ u \in w.users)
    BY <1>5 DEF Waiting
  <2>3. ~Waiting(e0, u)'
    BY <1>2, <1>5
  <2> QED
    BY <2>1, <2>2, <2>3
<1>7. TellingInv'
  <2>1. \A j, k \in DOMAIN more : more[j] = more[k] => j = k
    BY <1>3
  <2>2. ASSUME NEW k \in DOMAIN more
        PROVE  /\ more[k].about \in DOMAIN audience /\ Waiting(more[k].about, more[k].user)
               /\ ~Waiting(more[k].about, more[k].user)'
    <3>1. more[k].about = e0 /\ more[k].user \in w.users
      BY <1>3
    <3>2. Waiting(e0, more[k].user)
      BY <3>1 DEF Waiting
    <3> QED
      BY <1>2, <1>6, <3>1, <3>2
  <2>3. \A e \in DOMAIN audience : \A u \in audience[e] :
           Waiting(e, u) => \/ Waiting(e, u)' \/ e \in broken'
                            \/ \E k \in DOMAIN more : more[k] = NotificationDoc(e, u)
    BY <1>3, <1>6
  <2>4. /\ \A e \in DOMAIN audience : audience'[e] = audience[e] /\ audience[e] \subseteq User
        /\ TellingInv
    BY <1>1 DEF TellInv, EventsInv
  <2>5. \A e \in DOMAIN audience : \A u \in User : Waiting(e, u)' => Waiting(e, u)
    BY <1>6
  <2>6. /\ DOMAIN audience \subseteq DOMAIN audience' /\ broken \subseteq broken'
        /\ DOMAIN audience' \ DOMAIN audience = {}
    BY <1>1
  <2> QED
    BY <1>1, <1>3, <2>1, <2>2, <2>3, <2>4, <2>5, <2>6, TellingGoesOn
<1>8. EventsInv'
  BY <1>1 DEF TellInv, EventsInv
<1> QED
  BY <1>4, <1>7, <1>8 DEF TellInv

\* The lists of those to tell, and the codes under way, are left alone.
LEMMA TellRests ==
    ASSUME Handlers, TellInv, UNCHANGED <<notifications, writing, audience, broken, lapsed>>,
           left' = left \/ \E part \in Part : Spend(part),
           \/ UNCHANGED <<at, req>>
           \/ \E h \in Handler :
                 /\ \A g \in Handler \ {h} : at'[g] = at[g] /\ req'[g] = req[g]
                 /\ at'[h] # "otp.mail" /\ req[h].about = Nobody /\ req'[h].about = Nobody
    PROVE  TellInv'
<1>1. CodesStay
  BY DEF CodesStay
<1>2. \A g \in Handler : /\ req'[g].about = req[g].about
                         /\ req[g].about # Nobody => Yet(at'[g], req'[g]) = Yet(at[g], req[g])
  OBVIOUS
<1>3. CarriersInv' /\ TellingInv'
  BY <1>2, TellingRests
<1>4. EventsInv'
  BY <1>1, EventsStay DEF TellInv
<1> QED
  BY <1>3, <1>4 DEF TellInv

LEMMA TellChat ==
    ASSUME Handlers, PresenceInv, TellInv, NEW h \in Handler, ChatNext(h),
           UNCHANGED notificationVars
    PROVE  TellInv'
<1>1. UNCHANGED <<notifications, writing, audience, broken, lapsed>>
  BY DEF notificationVars, notificationHistory
<1>2. \/ UNCHANGED <<at, req>> /\ Spend("chat")
      \/ /\ left' = left \/ Spend("chat")
         /\ \E step \in ChatStep \cup {"idle"} : \E r : Moves(h, step, r)
         /\ at[h] \in ChatStep \cup {"idle"}
  BY DEF ChatNext, StartConversation, CreateConversation, FindCreated, SendMessage, CreateMessage,
         SaveConversation, SendFails, Accept, Answer, GoTo, Serve, Moves, ChatStep
<1>3. "chat" \in Part
  BY DEF Part
<1>4. CASE UNCHANGED <<at, req>> /\ Spend("chat")
  BY <1>1, <1>3, <1>4, TellRests
<1>5. ASSUME NEW step \in ChatStep \cup {"idle"}, NEW r, Moves(h, step, r),
             at[h] \in ChatStep \cup {"idle"}, left' = left \/ Spend("chat")
      PROVE  TellInv'
  <2>1. /\ at'[h] = step /\ at'[h] # "otp.mail"
        /\ \A g \in Handler \ {h} : at'[g] = at[g] /\ req'[g] = req[g]
    BY <1>5, MovesAre, StepKinds
  <2>2. req[h].about = Nobody
    BY <1>5, StepKinds DEF Handlers, RequestOK
  <2>3. req'[h].about = Nobody
    BY <1>5, <2>1, ChatKeepsHandlers, StepKinds DEF Handlers, RequestOK
  <2> QED
    BY <1>1, <1>3, <1>5, <2>1, <2>2, <2>3, TellRests
<1> QED
  BY <1>2, <1>4, <1>5

LEMMA TellAsked ==
    ASSUME Handlers, TellInv, NEW h \in Handler,
           \/ \E u \in User, i \in Server : ApiNotify(h, u, i)
           \/ \E i \in Server : \/ NotifyAdminsOfNewOrder(h, i) \/ UserRegistered(h, i)
                                \/ Broadcast(h, i)
    PROVE  TellInv'
<1>1. ASSUME NEW u \in User, NEW i \in Server, ApiNotify(h, u, i) PROVE TellInv'
  <2> DEFINE e == NewEvent("api")
             r == [NoRequest EXCEPT !.instance = i, !.about = e, !.todo = {u}, !.aborts = TRUE]
  <2>1. /\ Accept(h, "notify", "notify.create", r) /\ ToTell(e, {u})
        /\ UNCHANGED <<notifications, broken, writing, lapsed>>
    BY <1>1 DEF ApiNotify
  <2>2. r.about = e /\ r.todo = {u} /\ {u} \in SUBSET User
    BY DEF NoRequest
  <2> HIDE DEF r
  <2> QED
    BY <2>1, <2>2, NotificationBegins
<1>2. ASSUME NEW kind \in EMAIL_TEMPLATES, NEW i \in Server, notifyAdmins(h, kind, i)
      PROVE  TellInv'
  <2> DEFINE e == NewEvent(kind)
             admins == Admin \ deleted
             r == [NoRequest EXCEPT !.instance = i, !.about = e, !.todo = admins]
  <2>1. /\ Accept(h, "notify", "notify.create", r) /\ ToTell(e, admins)
        /\ UNCHANGED <<notifications, broken, writing, lapsed>>
    BY <1>2 DEF notifyAdmins
  <2>2. r.about = e /\ r.todo = admins /\ admins \in SUBSET User
    BY DEF NoRequest, User
  <2> HIDE DEF r, admins
  <2> QED
    BY <2>1, <2>2, NotificationBegins
<1>3. ASSUME NEW i \in Server, Broadcast(h, i) PROVE TellInv'
  <2> DEFINE e == NewEvent("broadcast")
             users == User \ deleted
             r == [NoRequest EXCEPT !.instance = i, !.about = e, !.todo = users, !.aborts = TRUE]
  <2>1. /\ Accept(h, "notify", "broadcast.insert", r) /\ ToTell(e, users)
        /\ UNCHANGED <<notifications, broken, writing, lapsed>>
    BY <1>3 DEF Broadcast
  <2>2. r.about = e /\ r.todo = users /\ users \in SUBSET User
    BY DEF NoRequest
  <2> HIDE DEF r, users
  <2> QED
    BY <2>1, <2>2, NotificationBegins
<1> QED
  BY <1>1, <1>2, <1>3 DEF NotifyAdminsOfNewOrder, UserRegistered, EMAIL_TEMPLATES

LEMMA TellNotify ==
    ASSUME Handlers, TellInv, NEW h \in Handler, NotifyNext(h)
    PROVE  TellInv'
<1>1. ASSUME CreateMany(h) PROVE TellInv'
  <2>1. /\ at[h] = "broadcast.insert" /\ Stored(Items(req[h].about, req[h].todo)) /\ Answer(h)
        /\ UNCHANGED <<writing, audience, lapsed, broken>>
    BY <1>1 DEF CreateMany, notificationHistory
  <2> QED
    BY <2>1, ManyAreTold
<1>2. ASSUME NEW stored \in SUBSET User, CreateManyRefused(h, stored) PROVE TellInv'
  <2>1. /\ at[h] = "broadcast.insert" /\ Stored(Items(req[h].about, stored)) /\ Answer(h)
        /\ UNCHANGED <<writing, audience, lapsed>> /\ stored \subseteq req[h].todo
        /\ broken' = broken \cup {req[h].about}
    BY <1>2 DEF CreateManyRefused
  <2> QED
    BY <2>1, ManyAreTold
<1> QED
  BY <1>1, <1>2, TellAsked, TellCreateNotification, TellCreateRefused, TellMailing, TellAborted
     DEF NotifyNext

\* A code is drawn: above those to come, and below those under way.
LEMMA TellCodeDrawn ==
    ASSUME Handlers, TellInv, NEW h \in Handler, NEW u \in Customer, NEW status, NEW i,
           CodeDrawn(h, u, status, i)
    PROVE  TellInv'
<1> DEFINE r == [NoRequest EXCEPT !.instance = i, !.user = u, !.code = left.listen,
                                  !.status = status]
<1>1. /\ at[h] = "idle" /\ Moves(h, "otp.mail", r) /\ Spend("listen") /\ "listen" \in Part
      /\ UNCHANGED <<notifications, writing, audience, broken, lapsed>>
  BY DEF CodeDrawn, Accept, Moves, notificationVars, notificationHistory, Part
<1>2. r.code = left.listen /\ r.about = Nobody
  BY DEF NoRequest
<1> HIDE DEF r
<1>3. /\ at'[h] = "otp.mail" /\ req'[h] = r
      /\ \A g \in Handler \ {h} : at'[g] = at[g] /\ req'[g] = req[g]
  BY <1>1, MovesAre
<1>4. req[h].about = Nobody
  BY <1>1, StepKinds DEF Handlers, RequestOK
<1>5. CarriersInv' /\ TellingInv'
  <2>1. \A g \in Handler : /\ req'[g].about = req[g].about
                           /\ req[g].about # Nobody => Yet(at'[g], req'[g]) = Yet(at[g], req[g])
    BY <1>2, <1>3, <1>4
  <2> QED
    BY <1>1, <2>1, TellingRests
<1>6. /\ left.notify \in Nat /\ left.listen \in Nat /\ left'.notify \in Nat /\ left'.listen \in Nat
      /\ left'.notify = left.notify /\ left'.listen = left.listen - 1
  BY <1>1, BudgetFalls
<1>7. ASSUME NEW g \in Handler \ {h}, at'[g] = "otp.mail"
      PROVE  /\ at[g] = "otp.mail" /\ req'[g].code = req[g].code /\ req[g].code \in Nat
             /\ req[g].code > left.listen
  BY <1>3, <1>7 DEF Handlers, RequestOK, TellInv, EventsInv
<1>8. ASSUME NEW e \in DOMAIN audience
      PROVE  /\ e \in Event /\ audience'[e] \subseteq User
             /\ e.kind # "password_reset" => e.number > left'.notify + left'.listen
             /\ e.kind = "password_reset" =>
                  /\ e.number > left'.listen
                  /\ \A g \in Handler : at'[g] = "otp.mail" => req'[g].code # e.number
  <2>1. e \in Event /\ e.number \in Nat /\ audience'[e] \subseteq User
    BY <1>1 DEF TellInv, EventsInv, Event
  <2>2. CASE e.kind # "password_reset"
    <3>1. e.number > left.notify + left.listen
      BY <2>2 DEF TellInv, EventsInv
    <3> QED
      BY <1>6, <2>1, <2>2, <3>1
  <2>3. CASE e.kind = "password_reset"
    <3>1. e.number > left.listen /\ \A g \in Handler : at[g] = "otp.mail" => req[g].code # e.number
      BY <2>3 DEF TellInv, EventsInv
    <3>2. left.listen # e.number
      BY <1>6, <2>1, <3>1
    <3>3. \A g \in Handler : at'[g] = "otp.mail" => req'[g].code # e.number
      BY <1>2, <1>3, <1>7, <3>1, <3>2
    <3> QED
      BY <1>6, <2>1, <2>3, <3>1, <3>3
  <2> QED
    BY <2>1, <2>2, <2>3
<1>9. ASSUME NEW g \in Handler, at'[g] = "otp.mail" PROVE req'[g].code > left'.listen
  <2>1. CASE g = h
    BY <1>2, <1>3, <1>6, <2>1
  <2>2. CASE g # h
    BY <1>6, <1>7, <1>9, <2>2
  <2> QED
    BY <2>1, <2>2
<1>10. ASSUME NEW f \in Handler, NEW g \in Handler, at'[f] = "otp.mail", at'[g] = "otp.mail",
              req'[f].code = req'[g].code
       PROVE  f = g
  <2>1. \A k \in Handler \ {h} : at'[k] = "otp.mail" => req'[k].code # req'[h].code
    BY <1>2, <1>3, <1>6, <1>7
  <2>2. CASE f # h /\ g # h
    BY <1>7, <1>10, <2>2 DEF TellInv, EventsInv
  <2> QED
    BY <1>10, <2>1, <2>2
<1>11. EventsInv'
  BY <1>1, <1>8, <1>9, <1>10 DEF EventsInv
<1> QED
  BY <1>5, <1>11 DEF TellInv

\* A code is mailed, and a reset announced.
LEMMA TellCodeMailed ==
    ASSUME Handlers, TellInv, NEW h \in Handler, CodeMailed(h)
    PROVE  TellInv'
<1> DEFINE old == req[h]
           e0 == [kind |-> "password_reset", number |-> old.code]
           r == [NoRequest EXCEPT !.instance = old.instance, !.about = e0, !.todo = {old.user}]
<1>1. /\ at[h] = "otp.mail" /\ UNCHANGED <<notifications, writing, broken, lapsed>>
      /\ \/ GoTo(h, "notify.create", r) /\ ToTell(e0, {old.user})
         \/ Answer(h) /\ UNCHANGED audience
  BY DEF CodeMailed
<1>2. old.about = Nobody /\ old.code \in Nat /\ old.user \in User
  BY <1>1, StepKinds DEF Handlers, RequestOK, User
<1>3. e0 \in Event /\ e0.kind = "password_reset" /\ e0.number = old.code
  BY <1>2 DEF Event
<1>4. r.about = e0 /\ r.todo = {old.user}
  BY DEF NoRequest
<1> HIDE DEF e0, r
<1>5. CASE Answer(h) /\ UNCHANGED audience
  <2>1. Moves(h, "idle", NoRequest) /\ left' = left
    BY <1>5 DEF Answer, GoTo, Moves
  <2>2. /\ at'[h] = "idle" /\ req'[h] = NoRequest
        /\ \A g \in Handler \ {h} : at'[g] = at[g] /\ req'[g] = req[g]
    BY <2>1, MovesAre
  <2>3. req'[h].about = Nobody
    BY <2>2 DEF NoRequest
  <2> QED
    BY <1>1, <1>2, <1>5, <2>1, <2>2, <2>3, TellRests
<1>6. CASE GoTo(h, "notify.create", r) /\ ToTell(e0, {old.user})
  <2>1. Moves(h, "notify.create", r) /\ left' = left /\ audience' = with(audience, e0, {old.user})
    BY <1>6 DEF GoTo, Moves, ToTell
  <2>2. /\ at'[h] = "notify.create" /\ req'[h] = r
        /\ \A g \in Handler \ {h} : at'[g] = at[g] /\ req'[g] = req[g]
    BY <2>1, MovesAre
  <2>3. e0 \notin DOMAIN audience
    BY <1>1, <1>3 DEF TellInv, EventsInv
  <2>4. {old.user} \in SUBSET User /\ "notify.create" # "notify.mail"
    BY <1>2
  <2> HIDE DEF old
  <2>5. CarriersInv' /\ TellingInv'
    BY <1>1, <1>2, <1>3, <1>4, <2>1, <2>3, <2>4, Began DEF old
  <2>6. /\ DOMAIN audience' = DOMAIN audience \cup {e0} /\ audience'[e0] = {old.user}
        /\ \A e \in DOMAIN audience : audience'[e] = audience[e]
    BY <2>1, <2>3 DEF with
  <2>7. ASSUME NEW g \in Handler, at'[g] = "otp.mail"
        PROVE  at[g] = "otp.mail" /\ req'[g].code = req[g].code /\ req[g].code # old.code
    BY <1>1, <2>2, <2>7 DEF TellInv, EventsInv, old
  <2>8. old.code > left.listen
    BY <1>1 DEF TellInv, EventsInv, old
  <2>9. ASSUME NEW e \in DOMAIN audience'
        PROVE  /\ e \in Event /\ audience'[e] \subseteq User
               /\ e.kind # "password_reset" => e.number > left'.notify + left'.listen
               /\ e.kind = "password_reset" =>
                    /\ e.number > left'.listen
                    /\ \A g \in Handler : at'[g] = "otp.mail" => req'[g].code # e.number
    <3>1. CASE e = e0
      BY <1>2, <1>3, <2>1, <2>6, <2>7, <2>8, <3>1
    <3>2. CASE e \in DOMAIN audience
      <4>1. /\ e \in Event /\ audience'[e] = audience[e] /\ audience[e] \subseteq User
            /\ e.kind # "password_reset" => e.number > left.notify + left.listen
            /\ e.kind = "password_reset" =>
                 /\ e.number > left.listen
                 /\ \A g \in Handler : at[g] = "otp.mail" => req[g].code # e.number
        BY <2>6, <3>2 DEF TellInv, EventsInv
      <4>2. \A g \in Handler : at'[g] = "otp.mail" => at[g] = "otp.mail" /\ req'[g].code = req[g].code
        BY <2>7
      <4>3. left'.notify = left.notify /\ left'.listen = left.listen
        BY <2>1
      <4> QED
        BY <4>1, <4>2, <4>3
    <3> QED
      BY <2>6, <3>1, <3>2
  <2>10. /\ \A g \in Handler : at'[g] = "otp.mail" => req'[g].code > left'.listen
         /\ \A f, g \in Handler :
               at'[f] = "otp.mail" /\ at'[g] = "otp.mail" /\ req'[f].code = req'[g].code => f = g
    BY <2>1, <2>7 DEF TellInv, EventsInv
  <2>11. EventsInv'
    BY <2>9, <2>10 DEF EventsInv
  <2> QED
    BY <2>5, <2>11 DEF TellInv
<1> QED
  BY <1>1, <1>5, <1>6

LEMMA TellListen ==
    ASSUME Handlers, TellInv, NEW h \in Handler, ListenNext(h)
    PROVE  TellInv'
<1>1. ASSUME NEW kind \in ProfileKind, NEW u \in Customer, NEW i \in Server, Decide(h, u, kind, i)
      PROVE  TellInv'
  <2> DEFINE e == NewEvent(kind)
             about == [e EXCEPT !.kind = Announcing(kind)]
             r == [NoRequest EXCEPT !.instance = i, !.user = u, !.todo = {u}, !.about = about]
  <2>1. /\ Accept(h, "listen", "listener.emit", r) /\ ToTell(e, {u})
        /\ UNCHANGED <<notifications, broken, writing, lapsed>>
    BY <1>1 DEF Decide
  <2>2. about = e
    BY DEF NewEvent, Announcing
  <2> HIDE DEF about, e
  <2>3. r.about = e /\ r.todo = {u} /\ {u} \in SUBSET User
    BY <2>2 DEF NoRequest, User
  <2> HIDE DEF r
  <2> QED
    BY <2>1, <2>3, NotificationBegins DEF e
<1>2. ASSUME NEW u \in Customer, NEW i \in Server,
             PasswordResetRequested(h, u, i) \/ OtpResend(h, u, i)
      PROVE  TellInv'
  BY <1>2, TellCodeDrawn DEF PasswordResetRequested, OtpResend
<1> QED
  BY <1>1, <1>2, TellListening, TellCodeMailed, TellEmitting, TellUpdateFails
     DEF ListenNext, approveUser, declineUser, ProfileKind

\* What a process was telling when it died is broken.
LEMMA TellDeath ==
    ASSUME Handlers, TellInv, NEW i \in Instance, Die(i)
    PROVE  TellInv'
<1> DEFINE serving == {h \in Handler : req[h].instance = i /\ at[h] # "idle"}
<1>1. /\ at' = [h \in Handler |-> IF req[h].instance = i THEN "idle" ELSE at[h]]
      /\ req' = [h \in Handler |-> IF req[h].instance = i THEN NoRequest ELSE req[h]]
      /\ Spend("crash") /\ "crash" \in Part
      /\ broken' = broken \cup ({req[h].about : h \in serving} \ {Nobody})
      /\ UNCHANGED <<notifications, writing, audience, lapsed>>
  BY DEF Die, InstanceDies, Part
<1>2. CodesStay
  BY <1>1 DEF CodesStay
<1>3. EventsInv'
  BY <1>1, <1>2, EventsStay DEF TellInv
<1>4. NoRequest.about = Nobody /\ NoRequest.todo = {} /\ Yet("idle", NoRequest) = {}
  BY DEF NoRequest, Yet
<1>5. ASSUME NEW h \in Handler
      PROVE  \/ at'[h] = "idle" /\ req'[h] = NoRequest /\ (req[h].about # Nobody => req[h].about \in broken')
             \/ at'[h] = at[h] /\ req'[h] = req[h]
  <2>1. CASE req[h].instance # i
    BY <1>1, <2>1
  <2>2. CASE req[h].instance = i
    <3>1. ASSUME req[h].about # Nobody PROVE req[h].about \in broken'
      <4>1. at[h] # "idle"
        BY <3>1, StepKinds DEF Handlers, RequestOK
      <4>2. h \in serving
        BY <2>2, <4>1
      <4> QED
        BY <1>1, <3>1, <4>2
    <3> QED
      BY <1>1, <2>2, <3>1
  <2> QED
    BY <2>1, <2>2
<1>6. CarriersInv'
  <2>1. \A h \in Handler : req'[h].about # Nobody => req'[h].about = req[h].about
    BY <1>4, <1>5
  <2>2. /\ \A h \in Handler : req'[h].about # Nobody => req'[h].about \in DOMAIN audience
        /\ \A g, h \in Handler : req'[g].about = req'[h].about /\ req'[g].about # Nobody => g = h
    BY <2>1 DEF TellInv, CarriersInv
  <2>3. \A w \in writing : /\ w.about # Nobody
                           /\ \A h \in Handler : req'[h].about # w.about
    BY <2>1, NotificationAssumption DEF TellInv, CarriersInv, EventsInv
  <2> QED
    BY <1>1, <2>2, <2>3 DEF TellInv, CarriersInv
<1>7. ASSUME NEW e, NEW u
      PROVE  Waiting(e, u)' <=> \/ \E h \in Handler : req'[h].about = e /\ u \in Yet(at'[h], req'[h])
                                \/ \E w \in writing : w.about = e /\ u \in w.users
  BY <1>1 DEF Waiting, Yet
<1>8. ASSUME NEW e, e # Nobody, NEW u
      PROVE  /\ Waiting(e, u)' => Waiting(e, u)
             /\ Waiting(e, u) => Waiting(e, u)' \/ e \in broken'
  <2>1. Waiting(e, u)' => Waiting(e, u)
    BY <1>4, <1>5, <1>7 DEF Waiting
  <2>2. Waiting(e, u) => Waiting(e, u)' \/ e \in broken'
    BY <1>5, <1>7, <1>8 DEF Waiting
  <2> QED
    BY <2>1, <2>2
<1>9. TellingInv'
  <2>1. PICK more \in Seq(Note) : notifications' = notifications \o more /\ DOMAIN more = {}
    <3>1. notifications \in Seq(Note)
      BY DEF TellInv, TellingInv
    <3> QED
      BY <1>1, <3>1, Appended
  <2>2. /\ \A e \in DOMAIN audience : e # Nobody /\ audience'[e] = audience[e] /\ audience[e] \subseteq User
        /\ TellingInv /\ DOMAIN audience \subseteq DOMAIN audience' /\ broken \subseteq broken'
        /\ DOMAIN audience' \ DOMAIN audience = {}
    BY <1>1, NotificationAssumption DEF TellInv, EventsInv
  <2>3. /\ \A e \in DOMAIN audience : \A u \in User : Waiting(e, u)' => Waiting(e, u)
        /\ \A e \in DOMAIN audience : \A u \in audience[e] :
              Waiting(e, u) => Waiting(e, u)' \/ e \in broken'
    BY <1>8, <2>2
  <2> QED
    BY <2>1, <2>2, <2>3, TellingGoesOn
<1> QED
  BY <1>3, <1>6, <1>9 DEF TellInv

LEMMA TellKept ==
    ASSUME Handlers, PresenceInv, TellInv, [MessagingNext]_vars
    PROVE  TellInv'
<1> USE DEF notificationVars, notificationHistory
<1>1. CASE UNCHANGED <<at, req, left, notifications, writing, audience, broken, lapsed>>
  BY <1>1, TellRests
<1>2. ASSUME NEW part \in Part, Serve(part),
             UNCHANGED <<notifications, writing, audience, broken, lapsed>>
      PROVE  TellInv'
  BY <1>2, TellRests DEF Serve
<1>3. "chat" \in Part /\ "notify" \in Part /\ "listen" \in Part /\ "crash" \in Part
  BY DEF Part
<1>4. ASSUME NEW s \in Socket, NEW i \in Instance, NEW token \in Token, Connect(s, i, token)
      PROVE  TellInv'
  BY <1>2, <1>3, <1>4 DEF Connect, Connection
<1>5. ASSUME NEW s \in Socket, Disconnect(s) \/ ListUsers(s) PROVE TellInv'
  BY <1>1, <1>2, <1>3, <1>5 DEF Disconnect, disconnect, ListUsers, PresenceList
<1>6. ASSUME NEW s \in Socket, NEW c \in Conversation, RoomNext(s, c), UNCHANGED notificationVars
      PROVE  TellInv'
  BY <1>2, <1>3, <1>6 DEF RoomNext, Join, Leave, History
<1>7. ASSUME NEW u \in User, MailboxNext(u) PROVE TellInv'
  BY <1>2, <1>3, <1>7 DEF MailboxNext, MarkRead, MarkAllRead, SoftDelete
<1>8. ASSUME NEW u, NEW i, EmailVerified(u, i) PROVE TellInv'
  BY <1>2, <1>3, <1>8 DEF EmailVerified
<1>9. ASSUME NEW k, WorkerNext(k) PROVE TellInv'
  BY <1>1, <1>2, <1>3, <1>9 DEF WorkerNext, WorkerSends, WorkerFails, WorkerCompletes,
                                WorkerDies, Unbothered
<1>10. CASE MessagingNext
  BY <1>4, <1>5, <1>6, <1>7, <1>8, <1>9, <1>10, TellChat, TellNotify, TellListen, TellDeath,
     TellWritten DEF MessagingNext
<1> QED
  BY <1>1, <1>10 DEF vars, realtimeVars

\* What the inductive invariants of this module rest on.
Base == PresenceInv /\ Handlers /\ TellInv

LEMMA BaseStarts == MessagingInit => Base
<1> SUFFICES ASSUME MessagingInit PROVE Base
  OBVIOUS
<1>1. /\ at = [h \in Handler |-> "idle"] /\ req = [h \in Handler |-> NoRequest]
      /\ left \in [Part -> Nat]
  BY RealtimeAssumption DEF MessagingInit, RealtimeInit
<1>2. Handlers
  BY <1>1, IdleIsOK DEF Handlers
<1>3. NoRequest.about = Nobody
  BY DEF NoRequest
<1>4. notifications = <<>> /\ writing = {} /\ DOMAIN audience = {}
  BY DEF MessagingInit, NotificationInit
<1>5. notifications \in Seq(Note) /\ DOMAIN notifications = {}
  BY <1>4
<1>6. TellInv
  BY <1>1, <1>3, <1>4, <1>5 DEF TellInv, EventsInv, CarriersInv, TellingInv
<1> QED
  BY <1>2, <1>6, PresenceStarts DEF Base, MessagingInit

LEMMA PresenceKept ==
    ASSUME PresenceInv, [MessagingNext]_vars
    PROVE  PresenceInv'
<1>1. CASE UNCHANGED vars
  BY <1>1, PresenceStays DEF vars, realtimeVars
<1>2. CASE MessagingNext
  BY <1>2, PresenceRests, PresenceStays, StepConnection, StepDisconnect,
     StepPresenceList, StepInstanceDies DEF Connect, Disconnect, ListUsers, Die
<1> QED
  BY <1>1, <1>2

LEMMA BaseKept ==
    ASSUME Base, [MessagingNext]_vars
    PROVE  Base'
BY PresenceKept, HandlersKept, TellKept DEF Base

\* An order, a registration, a decision, a reset or a broadcast tells everyone it was
\* to tell exactly once, but for a refused write (notification.service.ts).
THEOREM EveryoneIsToldOnce == Spec => []EachIsTold
<1>1. Base => EachIsTold
  BY TellInvTells DEF Base
<1>2. MessagingInit => Base
  BY BaseStarts
<1>3. Base /\ [MessagingNext]_vars => Base'
  BY BaseKept
<1> QED
  BY <1>1, <1>2, <1>3, PTL DEF Spec

-------------------------------------------------------------------------------
(* What is told of is stored *)

StoredInv ==
    /\ \A x \in DOMAIN emitted : x \in Note /\ Told(x.about, x.user)
    /\ \A n \in DOMAIN notifications :
          notifications[n] \in DOMAIN emitted \/ notifications[n].about \in broken \cup lapsed

\* More is stored, and it is emitted but where the event counts as broken or lapsed.
LEMMA StoredGoesOn ==
    ASSUME Base, StoredInv, NEW more \in Seq(Note), notifications' = notifications \o more,
           broken \subseteq broken', lapsed \subseteq lapsed', NEW items,
           DOMAIN emitted' = DOMAIN emitted \cup items,
           \A x \in items : \E k \in DOMAIN more : more[k] = x,
           \A k \in DOMAIN more : more[k] \in items \/ more[k].about \in broken' \cup lapsed'
    PROVE  StoredInv'
<1> DEFINE old == notifications
           new == notifications'
<1>1. /\ old \in Seq(Note) /\ new \in Seq(Note) /\ Len(old) \in Nat /\ Len(more) \in Nat
      /\ DOMAIN old = 1..Len(old) /\ DOMAIN more = 1..Len(more) /\ DOMAIN new = 1..Len(new)
      /\ Len(new) = Len(old) + Len(more)
  BY DEF Base, TellInv, TellingInv
<1>2. \A n \in DOMAIN old : n \in DOMAIN new /\ new[n] = old[n]
  BY <1>1
<1>3. ASSUME NEW n \in DOMAIN new, n \notin DOMAIN old
      PROVE  n - Len(old) \in DOMAIN more /\ new[n] = more[n - Len(old)]
  BY <1>1, <1>3
<1>4. ASSUME NEW k \in DOMAIN more
      PROVE  k + Len(old) \in DOMAIN new /\ new[k + Len(old)] = more[k]
  BY <1>1
<1>5. ASSUME NEW x \in Note PROVE x = NotificationDoc(x.about, x.user)
  BY DEF Note, NotificationDoc
<1>6. \A k \in DOMAIN more : more[k] \in Note
  BY <1>1
<1> HIDE DEF new
<1>7. ASSUME NEW x \in DOMAIN emitted'
      PROVE  x \in Note /\ \E n \in DOMAIN new : new[n] = NotificationDoc(x.about, x.user)
  <2>1. CASE x \in DOMAIN emitted
    BY <1>2, <2>1 DEF StoredInv, Told
  <2>2. CASE x \in items
    <3>1. PICK k \in DOMAIN more : more[k] = x
      BY <2>2
    <3>2. x \in Note /\ x = NotificationDoc(x.about, x.user)
      BY <1>5, <1>6, <3>1
    <3> QED
      BY <1>4, <3>1, <3>2
  <2> QED
    BY <2>1, <2>2
<1>8. ASSUME NEW n \in DOMAIN new
      PROVE  new[n] \in DOMAIN emitted' \/ new[n].about \in broken' \cup lapsed'
  <2>1. CASE n \in DOMAIN old
    BY <1>2, <2>1 DEF StoredInv
  <2>2. CASE n \notin DOMAIN old
    BY <1>3, <2>2
  <2> QED
    BY <2>1, <2>2
<1> QED
  BY <1>7, <1>8 DEF StoredInv, Told, new, NotificationDoc, Note, Event

LEMMA NothingIsEmitted ==
    ASSUME Base, StoredInv, NEW more \in Seq(Note), notifications' = notifications \o more,
           broken \subseteq broken', lapsed \subseteq lapsed', emitted' = emitted,
           \A k \in DOMAIN more : more[k].about \in broken' \cup lapsed'
    PROVE  StoredInv'
<1> DEFINE items == {}
<1>1. DOMAIN emitted' = DOMAIN emitted \cup items /\ \A x \in items : FALSE
  OBVIOUS
<1> HIDE DEF items
<1> QED
  BY <1>1, StoredGoesOn

LEMMA StoredRests ==
    ASSUME MessagingNext
    PROVE  \/ \E h \in Handler, u \in User : CreateNotification(h, u)
           \/ \E h \in Handler : CreateMany(h)
           \/ \E h \in Handler, stored \in SUBSET User : CreateManyRefused(h, stored)
           \/ \E w \in writing : WriteGoesOn(w)
           \/ /\ UNCHANGED <<notifications, emitted>>
              /\ broken \subseteq broken' /\ lapsed \subseteq lapsed'
<1> DEFINE Rest == /\ UNCHANGED <<notifications, emitted>>
                   /\ broken \subseteq broken' /\ lapsed \subseteq lapsed'
<1> USE DEF notificationVars, notificationHistory
<1>1. ASSUME NEW h \in Handler, NotifyNext(h)
      PROVE  \/ \E u \in User : CreateNotification(h, u)
             \/ CreateMany(h)
             \/ \E stored \in SUBSET User : CreateManyRefused(h, stored)
             \/ Rest
  <2>1. ASSUME \/ \E u \in User, i \in Server : ApiNotify(h, u, i)
               \/ \E i \in Server : \/ NotifyAdminsOfNewOrder(h, i) \/ UserRegistered(h, i)
                                    \/ Broadcast(h, i)
        PROVE  Rest
    BY <2>1 DEF ApiNotify, NotifyAdminsOfNewOrder, UserRegistered, notifyAdmins, Broadcast
  <2>2. ASSUME SendNotificationMail(h) \/ withAbort(h) \/ \E u \in User : CreateRefused(h, u)
        PROVE  Rest
    BY <2>2 DEF SendNotificationMail, withAbort, CreateRefused
  <2> QED
    BY <1>1, <2>1, <2>2 DEF NotifyNext
<1>2. ASSUME NEW h \in Handler, ListenNext(h) PROVE Rest
  BY <1>2 DEF ListenNext, approveUser, declineUser, Decide, emit, UpdateFails,
              MailDecision, EnqueuePush,
              EnqueueRefused, PasswordResetRequested, OtpResend, CodeDrawn, CodeMailed
<1>3. ASSUME NEW u \in User, MailboxNext(u) PROVE Rest
  BY <1>3 DEF MailboxNext, MarkRead, MarkAllRead, SoftDelete
<1>4. ASSUME NEW k, WorkerNext(k) PROVE Rest
  BY <1>4 DEF WorkerNext, WorkerSends, WorkerFails, WorkerCompletes, WorkerDies, Unbothered
<1>5. ASSUME NEW i \in Instance, Die(i) PROVE Rest
  BY <1>5 DEF Die
<1>6. ASSUME NEW s \in Socket, Disconnect(s) \/ ListUsers(s) PROVE Rest
  BY <1>6 DEF Disconnect, ListUsers
<1>7. ASSUME NEW s, NEW i, NEW token, Connect(s, i, token) PROVE Rest
  BY <1>7 DEF Connect
<1>8. ASSUME NEW u, NEW i, EmailVerified(u, i) PROVE Rest
  BY <1>8 DEF EmailVerified
<1> QED
  BY <1>1, <1>2, <1>3, <1>4, <1>5, <1>6, <1>7, <1>8 DEF MessagingNext

LEMMA EmitsAre ==
    ASSUME NEW items, NEW times, emitNotificationCreated(items, times)
    PROVE  DOMAIN emitted' = DOMAIN emitted \cup items
BY DEF emitNotificationCreated

LEMMA StepStored ==
    ASSUME Base, StoredInv, [MessagingNext]_vars
    PROVE  StoredInv'
<1> USE DEF notificationVars, notificationHistory
<1>1. notifications \in Seq(Note) /\ Handlers
  BY DEF Base, TellInv, TellingInv
<1>2. ASSUME UNCHANGED <<notifications, emitted>>, broken \subseteq broken',
             lapsed \subseteq lapsed'
      PROVE  StoredInv'
  BY <1>2 DEF StoredInv, Told, Note
<1>3. ASSUME NEW h \in Handler, NEW u \in User, CreateNotification(h, u) PROVE StoredInv'
  <2> DEFINE doc == NotificationDoc(req[h].about, u)
             more == <<doc>>
  <2>1. /\ at[h] = "notify.create" /\ notifications' = notifications \o more
        /\ UNCHANGED <<broken, lapsed>>
        /\ emitNotificationCreated({doc}, emissions(req[h].about.kind))
    BY <1>3 DEF CreateNotification, Stored
  <2>2. req[h].about \in Event
    BY <1>1, <2>1, StepKinds DEF Handlers, RequestOK
  <2>3. doc \in Note
    BY <2>2 DEF Note, NotificationDoc
  <2> HIDE DEF doc
  <2>4. more \in Seq(Note) /\ DOMAIN more = {1} /\ more[1] = doc
    BY <2>3
  <2>5. DOMAIN emitted' = DOMAIN emitted \cup {doc}
    BY <2>1, EmitsAre
  <2> DEFINE items == {doc}
  <2>6. /\ \A x \in items : \E k \in DOMAIN more : more[k] = x
        /\ \A k \in DOMAIN more : more[k] \in items
        /\ DOMAIN emitted' = DOMAIN emitted \cup items
    BY <2>4, <2>5
  <2> HIDE DEF more, items
  <2> QED
    BY <2>1, <2>4, <2>6, StoredGoesOn
<1>4. ASSUME NEW h \in Handler, CreateMany(h) PROVE StoredInv'
  <2> DEFINE e == req[h].about
             more == Items(e, req[h].todo)
             items == {NotificationDoc(e, u) : u \in req[h].todo}
  <2>1. /\ at[h] = "broadcast.insert" /\ notifications' = notifications \o more
        /\ UNCHANGED <<broken, lapsed>> /\ emitNotificationCreated(items, 1)
    BY <1>4 DEF CreateMany, Stored
  <2>2. e \in Event /\ req[h].todo \in SUBSET User
    BY <1>1, <2>1, StepKinds DEF Handlers, RequestOK
  <2>3. /\ more \in Seq(Note)
        /\ \A k \in DOMAIN more : more[k].about = e /\ more[k].user \in req[h].todo
        /\ \A u \in req[h].todo : \E k \in DOMAIN more : more[k] = NotificationDoc(e, u)
    BY <2>2, ItemsAre
  <2>4. DOMAIN emitted' = DOMAIN emitted \cup items
    BY <2>1, EmitsAre
  <2> HIDE DEF more
  <2>5. \A k \in DOMAIN more : more[k] \in items
    <3>1. \A k \in DOMAIN more : more[k] \in Note
      BY <2>3
    <3>2. \A k \in DOMAIN more : more[k] = NotificationDoc(more[k].about, more[k].user)
      BY <3>1 DEF Note, NotificationDoc
    <3> QED
      BY <2>3, <3>2
  <2>6. \A x \in items : \E k \in DOMAIN more : more[k] = x
    BY <2>3
  <2> HIDE DEF items
  <2> QED
    BY <2>1, <2>3, <2>4, <2>5, <2>6, StoredGoesOn
<1>5. ASSUME NEW h \in Handler, NEW stored \in SUBSET User, CreateManyRefused(h, stored)
      PROVE  StoredInv'
  <2> DEFINE e == req[h].about
             more == Items(e, stored)
  <2>1. /\ at[h] = "broadcast.insert" /\ notifications' = notifications \o more
        /\ broken' = broken \cup {e} /\ UNCHANGED <<emitted, lapsed>>
    BY <1>5 DEF CreateManyRefused, Stored
  <2>2. e \in Event
    BY <1>1, <2>1, StepKinds DEF Handlers, RequestOK
  <2>3. /\ more \in Seq(Note)
        /\ \A k \in DOMAIN more : more[k].about = e
    BY <2>2, ItemsAre
  <2> HIDE DEF more, e
  <2>4. \A k \in DOMAIN more : more[k].about \in broken'
    BY <2>1, <2>3
  <2> QED
    BY <2>1, <2>3, <2>4, NothingIsEmitted
<1>6. ASSUME NEW w \in writing, WriteGoesOn(w) PROVE StoredInv'
  <2> DEFINE e == w.about
             users == w.users
             more == Items(e, users)
  <2>1. /\ notifications' = notifications \o more /\ UNCHANGED <<emitted, broken, lapsed>>
    BY <1>6 DEF WriteGoesOn, Stored
  <2>2. e \in Event /\ users \in SUBSET User /\ e \in lapsed
    BY DEF Base, TellInv, CarriersInv, EventsInv
  <2> HIDE DEF e, users
  <2>3. /\ more \in Seq(Note)
        /\ \A k \in DOMAIN more : more[k].about = e
    BY <2>2, ItemsAre
  <2> HIDE DEF more
  <2>4. \A k \in DOMAIN more : more[k].about \in lapsed'
    BY <2>1, <2>2, <2>3
  <2> QED
    BY <2>1, <2>3, <2>4, NothingIsEmitted
<1>7. CASE UNCHANGED vars
  BY <1>2, <1>7 DEF vars
<1> QED
  BY <1>2, <1>3, <1>4, <1>5, <1>6, <1>7, StoredRests

\* What a user is told of is in the user's list, and what is in the list has been told
\* of, but for broken events and those of requests whose time was up
\* (notification.service.ts, createNotification and createMany).
THEOREM WhatIsToldIsStored == Spec => []TellsWhatIsStored
<1>1. Base /\ StoredInv => TellsWhatIsStored
  <2> SUFFICES ASSUME Base, StoredInv PROVE TellsWhatIsStored
    OBVIOUS
  <2>1. ASSUME NEW x \in DOMAIN emitted PROVE \E n \in DOMAIN notifications : notifications[n] = x
    <3>1. x = NotificationDoc(x.about, x.user) /\ Told(x.about, x.user)
      BY DEF StoredInv, Note, NotificationDoc
    <3> QED
      BY <3>1 DEF Told
  <2> QED
    BY <2>1 DEF StoredInv, TellsWhatIsStored
<1>2. MessagingInit => Base /\ StoredInv
  <2>1. MessagingInit => StoredInv
    BY DEF MessagingInit, NotificationInit, StoredInv
  <2> QED
    BY <2>1, BaseStarts
<1>3. Base /\ StoredInv /\ [MessagingNext]_vars => (Base /\ StoredInv)'
  BY BaseKept, StepStored
<1> QED
  BY <1>1, <1>2, <1>3, PTL DEF Spec

-------------------------------------------------------------------------------
(* Who is on the way *)

Comes(h, u) == req[h].user = u /\ req[h].socket = Nobody

OneOnTheWay == \A u \in Customer \ crossed : \A g, h \in Handler : Comes(g, u) /\ Comes(h, u) => g = h

\* Whoever is on the way after the step was on the way before it, with the same event
\* or the same code.
Stays(g) ==
    req'[g].user \in Customer /\ req'[g].socket = Nobody =>
        /\ req[g].user = req'[g].user /\ req[g].socket = Nobody
        /\ at'[g] \in Telling => at[g] \in Telling /\ req'[g].about = req[g].about
        /\ at'[g] = "otp.mail" => at[g] = "otp.mail" /\ req'[g] = req[g]

NobodyComes == \A g \in Handler : Stays(g)

\* A handler goes on with what it holds, or holds nothing of a user.
Sticks(h, step, r) ==
    \/ r.user = Nobody
    \/ /\ at[h] \in Telling /\ step \in Telling
       /\ r.user = req[h].user /\ r.socket = req[h].socket /\ r.about = req[h].about

LEMMA StickingStays ==
    ASSUME Handlers, NEW h \in Handler, NEW step, NEW r, Moves(h, step, r), Sticks(h, step, r)
    PROVE  NobodyComes
<1>1. /\ at'[h] = step /\ req'[h] = r
      /\ \A g \in Handler \ {h} : at'[g] = at[g] /\ req'[g] = req[g]
  BY MovesAre
<1>2. Nobody \notin Customer
  BY RealtimeAssumption DEF User
<1>3. Stays(h)
  BY <1>1, <1>2, StepKinds DEF Stays, Sticks
<1>4. ASSUME NEW g \in Handler \ {h} PROVE Stays(g)
  BY <1>1 DEF Stays
<1> QED
  BY <1>3, <1>4 DEF NobodyComes

LEMMA AnswerSticks ==
    ASSUME Handlers, NEW h \in Handler, Answer(h)
    PROVE  NobodyComes
<1>1. Moves(h, "idle", NoRequest)
  BY AnswersAreOK
<1>2. Sticks(h, "idle", NoRequest)
  BY DEF Sticks, NoRequest
<1> QED
  BY <1>1, <1>2, StickingStays

LEMMA NextUserSticks ==
    ASSUME Handlers, NEW h \in Handler, at[h] = "notify.create", NEW u \in req[h].todo,
           NextUser(h, u)
    PROVE  NobodyComes
<1>1. at[h] \in Telling /\ DOMAIN req[h] = Fields
  BY StepKinds DEF Handlers, RequestOK
<1>2. ASSUME NEW step \in {"notify.create", "listener.mail"}, Moves(h, step, Without(req[h], u))
      PROVE  NobodyComes
  <2>1. Sticks(h, step, Without(req[h], u))
    BY <1>1, WithoutIs, StepKinds DEF Sticks
  <2> QED
    BY <1>2, <2>1, StickingStays
<1>3. CASE Moves(h, "idle", NoRequest)
  <2>1. Sticks(h, "idle", NoRequest)
    BY DEF Sticks, NoRequest
  <2> QED
    BY <1>3, <2>1, StickingStays
<1> QED
  BY <1>2, <1>3, NextUserIsOK

LEMMA NotifySticks ==
    ASSUME Handlers, NEW h \in Handler, NotifyNext(h)
    PROVE  NobodyComes
<1>1. ASSUME NEW u \in User, NEW i \in Server, ApiNotify(h, u, i) PROVE NobodyComes
  <2> DEFINE r == [NoRequest EXCEPT !.instance = i, !.about = NewEvent("api"), !.todo = {u},
                                    !.aborts = TRUE]
  <2>1. Moves(h, "notify.create", r)
    BY <1>1 DEF ApiNotify, Accept, Moves
  <2>2. Sticks(h, "notify.create", r)
    BY DEF Sticks, NoRequest
  <2> HIDE DEF r
  <2> QED
    BY <2>1, <2>2, StickingStays
<1>2. ASSUME NEW kind, NEW i \in Server, notifyAdmins(h, kind, i) PROVE NobodyComes
  <2> DEFINE r == [NoRequest EXCEPT !.instance = i, !.about = NewEvent(kind),
                                    !.todo = Admin \ deleted]
  <2>1. Moves(h, "notify.create", r)
    BY <1>2 DEF notifyAdmins, Accept, Moves
  <2>2. Sticks(h, "notify.create", r)
    BY DEF Sticks, NoRequest
  <2> HIDE DEF r
  <2> QED
    BY <2>1, <2>2, StickingStays
<1>3. ASSUME NEW i \in Server, Broadcast(h, i) PROVE NobodyComes
  <2> DEFINE r == [NoRequest EXCEPT !.instance = i, !.about = NewEvent("broadcast"),
                                    !.todo = User \ deleted, !.aborts = TRUE]
  <2>1. Moves(h, "broadcast.insert", r)
    BY <1>3 DEF Broadcast, Accept, Moves
  <2>2. Sticks(h, "broadcast.insert", r)
    BY DEF Sticks, NoRequest
  <2> HIDE DEF r
  <2> QED
    BY <2>1, <2>2, StickingStays
<1>4. ASSUME NEW u \in User, CreateNotification(h, u) PROVE NobodyComes
  <2>1. at[h] = "notify.create" /\ u \in req[h].todo /\ at[h] \in Telling /\ DOMAIN req[h] = Fields
    BY <1>4, StepKinds DEF CreateNotification, Handlers, RequestOK
  <2>2. CASE GoTo(h, "notify.mail", [req[h] EXCEPT !.mailed = u])
    <3> DEFINE r == [req[h] EXCEPT !.mailed = u]
    <3>1. Moves(h, "notify.mail", r)
      BY <2>2 DEF GoTo, Moves
    <3>2. Sticks(h, "notify.mail", r)
      BY <2>1, StepKinds DEF Sticks, Fields
    <3> HIDE DEF r
    <3> QED
      BY <3>1, <3>2, StickingStays
  <2> QED
    BY <1>4, <2>1, <2>2, NextUserSticks DEF CreateNotification
<1>5. ASSUME NEW u \in User, CreateRefused(h, u) PROVE NobodyComes
  BY <1>5, NextUserSticks, AnswerSticks DEF CreateRefused
<1>6. CASE SendNotificationMail(h)
  <2> DEFINE r == [req[h] EXCEPT !.todo = @ \ {req[h].mailed}, !.mailed = Nobody]
  <2>1. at[h] \in Telling /\ DOMAIN req[h] = Fields
    BY <1>6, StepKinds DEF SendNotificationMail, Handlers, RequestOK
  <2>2. GoTo(h, "notify.create", r) \/ Answer(h)
    BY <1>6 DEF SendNotificationMail
  <2>3. Sticks(h, "notify.create", r)
    BY <2>1, StepKinds DEF Sticks, Fields
  <2>4. GoTo(h, "notify.create", r) => Moves(h, "notify.create", r)
    BY DEF GoTo, Moves
  <2> HIDE DEF r
  <2> QED
    BY <2>2, <2>3, <2>4, StickingStays, AnswerSticks
<1>7. ASSUME CreateMany(h) \/ withAbort(h) \/ \E stored \in SUBSET User : CreateManyRefused(h, stored)
      PROVE  NobodyComes
  BY <1>7, AnswerSticks DEF CreateMany, withAbort, CreateManyRefused
<1> QED
  BY <1>1, <1>2, <1>3, <1>4, <1>5, <1>6, <1>7 DEF NotifyNext, NotifyAdminsOfNewOrder, UserRegistered

\* A decision or a code sets a listener off.
Decides(h) == \E kind \in ProfileKind, u \in Customer, i \in Server : Decide(h, u, kind, i)
Draws(h) == \E status \in {"reset_requested", "otp_resent", "otp_sent"},
               u \in Customer, i \in Server : CodeDrawn(h, u, status, i)

LEMMA ListenSticks ==
    ASSUME Handlers, NEW h \in Handler, ListenNext(h)
    PROVE  Decides(h) \/ Draws(h) \/ NobodyComes
<1>1. CASE MailDecision(h)
  <2>1. Moves(h, "listener.push", req[h]) /\ at[h] = "listener.mail"
    BY <1>1 DEF MailDecision, GoTo, Moves
  <2>2. Sticks(h, "listener.push", req[h])
    BY <2>1, StepKinds DEF Sticks
  <2> QED
    BY <2>1, <2>2, StickingStays
<1>2. ASSUME EnqueueRefused(h) \/ \E now \in 1..MaxMs : EnqueuePush(h, now) PROVE NobodyComes
  BY <1>2, AnswerSticks DEF EnqueueRefused, EnqueuePush
<1>3. CASE CodeMailed(h)
  <2> DEFINE e == [kind |-> "password_reset", number |-> req[h].code]
             r == [NoRequest EXCEPT !.instance = req[h].instance, !.about = e,
                                    !.todo = {req[h].user}]
  <2>1. GoTo(h, "notify.create", r) \/ Answer(h)
    BY <1>3 DEF CodeMailed
  <2>2. Sticks(h, "notify.create", r)
    BY DEF Sticks, NoRequest
  <2>3. GoTo(h, "notify.create", r) => Moves(h, "notify.create", r)
    BY DEF GoTo, Moves
  <2> HIDE DEF r
  <2> QED
    BY <2>1, <2>2, <2>3, StickingStays, AnswerSticks
<1>4. ASSUME NEW u \in Customer, NEW i \in Server, approveUser(h, u, i) \/ declineUser(h, u, i)
      PROVE  Decides(h)
  BY <1>4 DEF approveUser, declineUser, ProfileKind, Decides
<1>5. ASSUME NEW u \in Customer, NEW i \in Server,
             PasswordResetRequested(h, u, i) \/ OtpResend(h, u, i)
      PROVE  Draws(h)
  BY <1>5 DEF PasswordResetRequested, OtpResend, Draws
<1>6. CASE emit(h)
  <2>1. Moves(h, "notify.create", req[h]) /\ at[h] = "listener.emit"
    BY <1>6 DEF emit, GoTo, Moves
  <2>2. Sticks(h, "notify.create", req[h])
    BY <2>1, StepKinds DEF Sticks
  <2> QED
    BY <2>1, <2>2, StickingStays
<1>7. CASE UpdateFails(h)
  BY <1>7, AnswerSticks DEF UpdateFails
<1> QED
  BY <1>1, <1>2, <1>3, <1>4, <1>5, <1>6, <1>7 DEF ListenNext

LEMMA ChatSticks ==
    ASSUME Handlers, PresenceInv, NEW h \in Handler, ChatNext(h)
    PROVE  NobodyComes
<1>1. \/ UNCHANGED <<at, req>>
      \/ \E step \in ChatStep \cup {"idle"} : \E r : Moves(h, step, r)
  BY DEF ChatNext, StartConversation, CreateConversation, FindCreated, SendMessage, CreateMessage,
         SaveConversation, SendFails, Accept, Answer, GoTo, Serve, Moves, ChatStep
<1>2. CASE UNCHANGED <<at, req>>
  BY <1>2 DEF NobodyComes, Stays
<1>3. ASSUME NEW step \in ChatStep \cup {"idle"}, NEW r, Moves(h, step, r) PROVE NobodyComes
  <2>1. /\ at'[h] = step
        /\ \A g \in Handler \ {h} : at'[g] = at[g] /\ req'[g] = req[g]
    BY <1>3, MovesAre
  <2>2. step = "idle" \/ step \in ChatStep
    OBVIOUS
  <2>3. RequestOK(at'[h], req'[h])
    BY ChatKeepsHandlers DEF Handlers, RequestOK
  <2>4. req'[h].user = Nobody \/ req'[h].socket \in Socket
    BY <2>1, <2>2, <2>3 DEF RequestOK
  <2>5. Nobody \notin Customer /\ Nobody \notin Socket
    BY RealtimeAssumption DEF User
  <2>6. Stays(h)
    BY <2>4, <2>5 DEF Stays
  <2>7. ASSUME NEW g \in Handler \ {h} PROVE Stays(g)
    BY <2>1 DEF Stays
  <2> QED
    BY <2>6, <2>7 DEF NobodyComes
<1> QED
  BY <1>1, <1>2, <1>3

\* Only decisions and codes set listeners off.
LEMMA WhoComes ==
    ASSUME Base, [MessagingNext]_vars
    PROVE  NobodyComes \/ \E h \in Handler : Decides(h) \/ Draws(h)
<1>1. ASSUME UNCHANGED <<at, req>> PROVE NobodyComes
  BY <1>1 DEF NobodyComes, Stays
<1>2. ASSUME NEW i \in Instance, Die(i) PROVE NobodyComes
  <2>1. /\ at' = [h \in Handler |-> IF req[h].instance = i THEN "idle" ELSE at[h]]
        /\ req' = [h \in Handler |-> IF req[h].instance = i THEN NoRequest ELSE req[h]]
    BY <1>2 DEF Die, InstanceDies
  <2>2. NoRequest.user = Nobody /\ Nobody \notin Customer
    BY RealtimeAssumption DEF NoRequest, User
  <2>3. ASSUME NEW h \in Handler PROVE Stays(h)
    BY <2>1, <2>2 DEF Stays
  <2> QED
    BY <2>3 DEF NobodyComes
<1>3. ASSUME NEW part, Serve(part) PROVE NobodyComes
  BY <1>1, <1>3 DEF Serve
<1>4. ASSUME NEW s \in Socket, NEW i \in Instance, NEW token \in Token, Connect(s, i, token)
      PROVE  NobodyComes
  BY <1>3, <1>4 DEF Connect, Connection
<1>5. ASSUME NEW s \in Socket, Disconnect(s) \/ ListUsers(s) PROVE NobodyComes
  BY <1>1, <1>3, <1>5 DEF Disconnect, disconnect, ListUsers, PresenceList
<1>6. ASSUME NEW s \in Socket, NEW c \in Conversation, RoomNext(s, c) PROVE NobodyComes
  BY <1>3, <1>6 DEF RoomNext, Join, Leave, History
<1>7. ASSUME NEW w, WriteGoesOn(w) PROVE NobodyComes
  BY <1>1, <1>7 DEF WriteGoesOn
<1>8. ASSUME NEW u \in User, MailboxNext(u) PROVE NobodyComes
  BY <1>3, <1>8 DEF MailboxNext, MarkRead, MarkAllRead, SoftDelete
<1>9. ASSUME NEW u, NEW i, EmailVerified(u, i) PROVE NobodyComes
  BY <1>3, <1>9 DEF EmailVerified
<1>10. ASSUME NEW k, WorkerNext(k) PROVE NobodyComes
  BY <1>1, <1>3, <1>10 DEF WorkerNext, WorkerSends, WorkerFails, WorkerCompletes, WorkerDies,
                           Unbothered
<1>11. CASE MessagingNext
  BY <1>2, <1>4, <1>5, <1>6, <1>7, <1>8, <1>9, <1>10, <1>11, ChatSticks, NotifySticks,
     ListenSticks DEF MessagingNext, Base
<1> QED
  BY <1>1, <1>11 DEF vars, realtimeVars

\* The one that comes is the one of its user.
LEMMA OneComes ==
    ASSUME Handlers, OneOnTheWay, NEW h \in Handler, NEW u \in Customer, Crossing(u),
           NEW step, NEW r, r.user = u, Moves(h, step, r)
    PROVE  /\ OneOnTheWay' /\ crossed \subseteq crossed'
           /\ u \notin crossed' => \A g \in Handler \ {h} : ~Comes(g, u)'
<1>1. /\ at'[h] = step /\ req'[h] = r
      /\ \A g \in Handler \ {h} : at'[g] = at[g] /\ req'[g] = req[g]
  BY MovesAre
<1>2. crossed' = IF OnTheWay(u) THEN crossed \cup {u} ELSE crossed
  BY DEF Crossing
<1>3. u \notin crossed' => \A g \in Handler : ~Comes(g, u)
  BY <1>2 DEF OnTheWay, Comes
<1>4. \A v : \A g \in Handler \ {h} : Comes(g, v)' <=> Comes(g, v)
  BY <1>1 DEF Comes
<1>5. \A v \in Customer : v # u => ~Comes(h, v)'
  BY <1>1 DEF Comes
<1>6. OneOnTheWay'
  BY <1>2, <1>3, <1>4, <1>5 DEF OneOnTheWay
<1> QED
  BY <1>2, <1>3, <1>4, <1>6

LEMMA CrossedGrows ==
    ASSUME [MessagingNext]_vars
    PROVE  crossed \subseteq crossed'
<1>1. ASSUME NEW h \in Handler, ListenNext(h) PROVE crossed \subseteq crossed'
  BY <1>1 DEF ListenNext, approveUser, declineUser, Decide, emit, UpdateFails,
              MailDecision, EnqueuePush, Crossing,
              EnqueueRefused, PasswordResetRequested, OtpResend, CodeDrawn, CodeMailed, listenerVars
<1>2. ASSUME NEW k, WorkerNext(k) PROVE crossed \subseteq crossed'
  BY <1>2 DEF WorkerNext, WorkerSends, WorkerFails, WorkerCompletes, WorkerDies, Unbothered
<1>3. ASSUME NEW i \in Instance, Die(i) PROVE crossed \subseteq crossed'
  BY <1>3 DEF Die
<1>4. ASSUME NEW s \in Socket, Disconnect(s) \/ ListUsers(s) PROVE crossed \subseteq crossed'
  BY <1>4 DEF Disconnect, ListUsers, listenerVars
<1>5. ASSUME NEW s, NEW i, NEW token, Connect(s, i, token) PROVE crossed \subseteq crossed'
  BY <1>5 DEF Connect, listenerVars
<1>6. ASSUME NEW u, NEW i, EmailVerified(u, i) PROVE crossed \subseteq crossed'
  BY <1>6 DEF EmailVerified
<1> QED
  BY <1>1, <1>2, <1>3, <1>4, <1>5, <1>6 DEF MessagingNext, vars, listenerVars

LEMMA OneOnTheWayKept ==
    ASSUME Base, OneOnTheWay, [MessagingNext]_vars
    PROVE  OneOnTheWay'
<1>1. CASE NobodyComes
  <2>1. \A u \in Customer, g \in Handler : Comes(g, u)' => Comes(g, u)
    BY <1>1 DEF NobodyComes, Stays, Comes
  <2>2. crossed \subseteq crossed'
    BY CrossedGrows
  <2> QED
    BY <2>1, <2>2 DEF OneOnTheWay
<1>2. ASSUME NEW h \in Handler, NEW kind \in ProfileKind, NEW u \in Customer, NEW i \in Server,
             Decide(h, u, kind, i)
      PROVE  OneOnTheWay'
  <2> DEFINE r == [NoRequest EXCEPT !.instance = i, !.user = u, !.todo = {u},
                                    !.about = [NewEvent(kind) EXCEPT !.kind = Announcing(kind)]]
  <2>1. Moves(h, "listener.emit", r) /\ Crossing(u)
    BY <1>2 DEF Decide, Accept, Moves
  <2>2. r.user = u
    BY DEF NoRequest
  <2> HIDE DEF r
  <2> QED
    BY <2>1, <2>2, OneComes DEF Base
<1>3. ASSUME NEW h \in Handler, NEW status, NEW u \in Customer, NEW i \in Server,
             CodeDrawn(h, u, status, i)
      PROVE  OneOnTheWay'
  <2> DEFINE r == [NoRequest EXCEPT !.instance = i, !.user = u, !.code = left.listen,
                                    !.status = status]
  <2>1. Moves(h, "otp.mail", r) /\ Crossing(u)
    BY <1>3 DEF CodeDrawn, Accept, Moves
  <2>2. r.user = u
    BY DEF NoRequest
  <2> HIDE DEF r
  <2> QED
    BY <2>1, <2>2, OneComes DEF Base
<1> QED
  BY <1>1, <1>2, <1>3, WhoComes DEF Decides, Draws

LEMMA OneOnTheWayStarts == MessagingInit => OneOnTheWay
<1> SUFFICES ASSUME MessagingInit PROVE OneOnTheWay
  OBVIOUS
<1>1. NoRequest.user = Nobody /\ Nobody \notin Customer
  BY RealtimeAssumption DEF NoRequest, User
<1>2. \A h \in Handler : req[h] = NoRequest
  BY DEF MessagingInit, RealtimeInit
<1> QED
  BY <1>1, <1>2 DEF OneOnTheWay, Comes

-------------------------------------------------------------------------------
(* The last word *)

\* The notifications of u about its profile.
OfProfile(u) == {n \in DOMAIN notifications : /\ notifications[n].user = u
                                              /\ notifications[n].about.kind \in ProfileKind}

\* The listener on its way announces the latest decision, and where that has been told
\* it is the newest that has; but for users whose listeners crossed.
DecisionInv ==
    /\ DOMAIN decision = Customer
    /\ \A u \in Customer : decision[u] # Nobody =>
          decision[u] \in DOMAIN audience /\ audience[decision[u]] = {u}
          /\ decision[u].kind \in ProfileKind
    /\ \A u \in Customer \ crossed : \A h \in Handler :
          at[h] \in Telling /\ req[h].user = u => req[h].about = decision[u]
    /\ \A u \in Customer \ crossed : \A n \in OfProfile(u) :
          notifications[n].about = decision[u] => \A m \in OfProfile(u) : m <= n

LEMMA NewIsNew ==
    ASSUME Handlers, TellInv,
           NEW kind \in {"api", "broadcast"} \cup EMAIL_TEMPLATES \cup ProfileKind
    PROVE  NewEvent(kind) \notin DOMAIN audience /\ NewEvent(kind) \in Event
<1> DEFINE new == NewEvent(kind)
<1>1. /\ new \in Event /\ new.kind # "password_reset" /\ new.number = left.notify + left.listen
      /\ left.notify \in Nat /\ left.listen \in Nat
  <2>1. kind # "password_reset"
    BY DEF EMAIL_TEMPLATES, ProfileKind
  <2> QED
    BY <2>1, NewEvents
<1> HIDE DEF new
<1>2. ASSUME new \in DOMAIN audience PROVE FALSE
  <2>1. new.number > left.notify + left.listen
    BY <1>1, <1>2 DEF TellInv, EventsInv
  <2> QED
    BY <1>1, <2>1
<1> QED
  BY <1>1, <1>2 DEF new

\* Whom an event was to tell is settled once.
LEMMA AudienceGrows ==
    ASSUME Base, [MessagingNext]_vars
    PROVE  \A e \in DOMAIN audience : e \in DOMAIN audience' /\ audience'[e] = audience[e]
<1> DEFINE Rest == \A e \in DOMAIN audience : e \in DOMAIN audience' /\ audience'[e] = audience[e]
<1> USE DEF notificationVars, notificationHistory
<1>1. ASSUME NEW kind \in {"api", "broadcast"} \cup EMAIL_TEMPLATES \cup ProfileKind, NEW users,
             ToTell(NewEvent(kind), users)
      PROVE  Rest
  BY <1>1, NewIsNew DEF ToTell, with, Base
<1>2. ASSUME UNCHANGED audience PROVE Rest
  BY <1>2
<1>3. ASSUME NEW h \in Handler, CodeMailed(h) PROVE Rest
  <2> DEFINE e0 == [kind |-> "password_reset", number |-> req[h].code]
  <2>1. at[h] = "otp.mail" /\ (ToTell(e0, {req[h].user}) \/ UNCHANGED audience)
    BY <1>3 DEF CodeMailed
  <2>2. e0.kind = "password_reset" /\ e0.number = req[h].code
    OBVIOUS
  <2> HIDE DEF e0
  <2>3. e0 \notin DOMAIN audience
    BY <2>1, <2>2 DEF Base, TellInv, EventsInv
  <2> QED
    BY <2>1, <2>3 DEF ToTell, with
<1>4. ASSUME NEW h \in Handler, ListenNext(h) PROVE Rest
  <2>1. ASSUME NEW kind \in ProfileKind, NEW u, NEW i, Decide(h, u, kind, i) PROVE Rest
    <3>1. ToTell(NewEvent(kind), {u})
      BY <2>1 DEF Decide
    <3> QED
      BY <1>1, <3>1
  <2>2. ASSUME \/ MailDecision(h) \/ EnqueueRefused(h) \/ \E now \in 1..MaxMs : EnqueuePush(h, now)
               \/ emit(h) \/ UpdateFails(h)
               \/ \E u \in Customer, i \in Server : \/ PasswordResetRequested(h, u, i)
                                                    \/ OtpResend(h, u, i)
        PROVE  UNCHANGED audience
    BY <2>2 DEF MailDecision, EnqueueRefused, EnqueuePush, PasswordResetRequested, OtpResend,
                CodeDrawn, emit, UpdateFails
  <2> QED
    BY <1>2, <1>3, <1>4, <2>1, <2>2 DEF ListenNext, approveUser, declineUser, ProfileKind
<1>5. ASSUME NEW h \in Handler, NotifyNext(h) PROVE Rest
  <2>1. ASSUME NEW kind \in EMAIL_TEMPLATES, NEW i, notifyAdmins(h, kind, i) PROVE Rest
    <3>1. ToTell(NewEvent(kind), Admin \ deleted)
      BY <2>1 DEF notifyAdmins
    <3> QED
      BY <1>1, <3>1
  <2>2. ASSUME NEW u \in User, NEW i \in Server, ApiNotify(h, u, i) PROVE Rest
    <3>1. ToTell(NewEvent("api"), {u})
      BY <2>2 DEF ApiNotify
    <3> QED
      BY <1>1, <3>1
  <2>3. ASSUME NEW i \in Server, Broadcast(h, i) PROVE Rest
    <3>1. ToTell(NewEvent("broadcast"), User \ deleted)
      BY <2>3 DEF Broadcast
    <3> QED
      BY <1>1, <3>1
  <2>4. ASSUME \/ SendNotificationMail(h) \/ CreateMany(h) \/ withAbort(h)
               \/ \E u \in User : CreateNotification(h, u) \/ CreateRefused(h, u)
               \/ \E stored \in SUBSET User : CreateManyRefused(h, stored)
        PROVE  UNCHANGED audience
    BY <2>4 DEF SendNotificationMail, CreateMany, withAbort, CreateNotification, CreateRefused,
                CreateManyRefused
  <2>5. EMAIL_TEMPLATES = {"admin_new_order", "admin_new_user"}
    BY DEF EMAIL_TEMPLATES
  <2> QED
    BY <1>2, <1>5, <2>1, <2>2, <2>3, <2>4, <2>5 DEF NotifyNext, NotifyAdminsOfNewOrder,
                                                     UserRegistered
<1>6. ASSUME NEW u \in User, MailboxNext(u) PROVE UNCHANGED audience
  BY <1>6 DEF MailboxNext, MarkRead, MarkAllRead, SoftDelete
<1>7. ASSUME NEW k, WorkerNext(k) PROVE UNCHANGED audience
  BY <1>7 DEF WorkerNext, WorkerSends, WorkerFails, WorkerCompletes, WorkerDies, Unbothered
<1>8. ASSUME NEW i \in Instance, Die(i) PROVE UNCHANGED audience
  BY <1>8 DEF Die
<1>9. ASSUME NEW s \in Socket, Disconnect(s) \/ ListUsers(s) PROVE UNCHANGED audience
  BY <1>9 DEF Disconnect, ListUsers
<1>10. ASSUME NEW s, NEW i, NEW token, Connect(s, i, token) PROVE UNCHANGED audience
  BY <1>10 DEF Connect
<1>11. ASSUME NEW u, NEW i, EmailVerified(u, i) PROVE UNCHANGED audience
  BY <1>11 DEF EmailVerified
<1>12. ASSUME NEW w, WriteGoesOn(w) PROVE UNCHANGED audience
  BY <1>12 DEF WriteGoesOn
<1> QED
  BY <1>2, <1>4, <1>5, <1>6, <1>7, <1>8, <1>9, <1>10, <1>11, <1>12 DEF MessagingNext, vars

LEMMA DecisionRests ==
    ASSUME [MessagingNext]_vars
    PROVE  decision' = decision \/ \E h \in Handler : Decides(h)
<1>1. ASSUME NEW h \in Handler, ListenNext(h) PROVE decision' = decision \/ Decides(h)
  BY <1>1 DEF ListenNext, approveUser, declineUser, ProfileKind, Decides, emit, UpdateFails,
              MailDecision,
              EnqueuePush, EnqueueRefused, PasswordResetRequested, OtpResend, CodeDrawn, CodeMailed,
              listenerVars
<1>2. ASSUME NEW k, WorkerNext(k) PROVE decision' = decision
  BY <1>2 DEF WorkerNext, WorkerSends, WorkerFails, WorkerCompletes, WorkerDies, Unbothered
<1>3. ASSUME NEW i \in Instance, Die(i) PROVE decision' = decision
  BY <1>3 DEF Die
<1>4. ASSUME NEW s \in Socket, Disconnect(s) \/ ListUsers(s) PROVE decision' = decision
  BY <1>4 DEF Disconnect, ListUsers, listenerVars
<1>5. ASSUME NEW s, NEW i, NEW token, Connect(s, i, token) PROVE decision' = decision
  BY <1>5 DEF Connect, listenerVars
<1>6. ASSUME NEW u, NEW i, EmailVerified(u, i) PROVE decision' = decision
  BY <1>6 DEF EmailVerified
<1> QED
  BY <1>1, <1>2, <1>3, <1>4, <1>5, <1>6 DEF MessagingNext, vars, listenerVars

\* A decision is written and its listener set off.
LEMMA StepDecided ==
    ASSUME Base, Base', OneOnTheWay, DecisionInv, NEW h \in Handler, NEW kind \in ProfileKind,
           NEW u \in Customer, NEW i \in Server, Decide(h, u, kind, i)
    PROVE  DecisionInv'
<1> DEFINE e == NewEvent(kind)
           about == [e EXCEPT !.kind = Announcing(kind)]
           r == [NoRequest EXCEPT !.instance = i, !.user = u, !.todo = {u}, !.about = about]
<1>1. /\ Moves(h, "listener.emit", r) /\ Crossing(u) /\ decision' = [decision EXCEPT ![u] = e]
      /\ audience' = with(audience, e, {u}) /\ notifications' = notifications
  BY DEF Decide, Accept, Moves, ToTell
<1>2. about = e /\ e.kind = kind
  BY DEF NewEvent, Announcing
<1> HIDE DEF about
<1>3. r.user = u /\ r.about = e
  BY <1>2 DEF NoRequest
<1>4. e \notin DOMAIN audience
  BY NewIsNew DEF Base
<1> HIDE DEF r, e
<1>5. /\ at'[h] = "listener.emit" /\ req'[h] = r
      /\ \A g \in Handler \ {h} : at'[g] = at[g] /\ req'[g] = req[g]
  BY <1>1, MovesAre DEF Base
<1>6. /\ crossed \subseteq crossed'
      /\ u \notin crossed' => \A g \in Handler \ {h} : ~Comes(g, u)'
  BY <1>1, <1>3, OneComes DEF Base
<1>7. /\ DOMAIN decision' = Customer /\ decision'[u] = e
      /\ \A v \in Customer \ {u} : decision'[v] = decision[v]
  BY <1>1 DEF DecisionInv
<1>8. /\ DOMAIN audience' = DOMAIN audience \cup {e} /\ audience'[e] = {u}
      /\ \A d \in DOMAIN audience : audience'[d] = audience[d]
  BY <1>1, <1>4 DEF with
<1>9. ASSUME NEW v \in Customer, decision'[v] # Nobody
      PROVE  /\ decision'[v] \in DOMAIN audience' /\ audience'[decision'[v]] = {v}
             /\ decision'[v].kind \in ProfileKind
  <2>1. CASE v = u
    BY <1>2, <1>7, <1>8, <2>1
  <2>2. CASE v # u
    BY <1>7, <1>8, <1>9, <2>2 DEF DecisionInv
  <2> QED
    BY <2>1, <2>2
<1>10. ASSUME NEW v \in Customer \ crossed', NEW g \in Handler, at'[g] \in Telling,
              req'[g].user = v
       PROVE  req'[g].about = decision'[v]
  <2>1. CASE g = h
    BY <1>3, <1>5, <1>7, <1>10, <2>1
  <2>2. CASE g # h /\ v = u
    <3>1. req'[g].socket = Nobody
      BY <1>10 DEF Base, Handlers, RequestOK
    <3> QED
      BY <1>6, <1>10, <2>2, <3>1 DEF Comes
  <2>3. CASE g # h /\ v # u
    BY <1>5, <1>6, <1>7, <1>10, <2>3 DEF DecisionInv
  <2> QED
    BY <2>1, <2>2, <2>3
<1>11. \A v : OfProfile(v)' = OfProfile(v)
  BY <1>1 DEF OfProfile
<1>12. ASSUME NEW v \in Customer \ crossed', NEW n \in OfProfile(v),
              notifications[n].about = decision'[v], NEW m \in OfProfile(v)
       PROVE  m <= n
  <2>1. CASE v = u
    <3>1. notifications[n].about \in DOMAIN audience
      BY DEF OfProfile, Base, TellInv, TellingInv
    <3> QED
      BY <1>4, <1>7, <1>12, <2>1, <3>1
  <2>2. CASE v # u
    BY <1>6, <1>7, <1>12, <2>2 DEF DecisionInv
  <2> QED
    BY <2>1, <2>2
<1>13. \A v \in Customer \ crossed' : \A n \in OfProfile(v)' :
          notifications'[n].about = decision'[v] => \A m \in OfProfile(v)' : m <= n
  BY <1>1, <1>11, <1>12
<1> QED
  BY <1>7, <1>9, <1>10, <1>13 DEF DecisionInv

\* Where no decision is written: of more that is stored, a decision comes alone, and
\* it is the latest one or its user's listeners crossed.
LEMMA DecisionsStand ==
    ASSUME Base, Base', DecisionInv, decision' = decision, crossed \subseteq crossed',
           \A e \in DOMAIN audience : e \in DOMAIN audience' /\ audience'[e] = audience[e],
           \A u \in Customer \ crossed' : \A h \in Handler :
              at'[h] \in Telling /\ req'[h].user = u => req'[h].about = decision[u],
           NEW more \in Seq(Note), notifications' = notifications \o more,
           \A k \in DOMAIN more : more[k].about.kind \in ProfileKind =>
              /\ DOMAIN more = {1}
              /\ more[k].user \in crossed \/ more[k].about = decision[more[k].user]
    PROVE  DecisionInv'
<1> DEFINE old == notifications
           new == notifications'
<1>1. /\ old \in Seq(Note) /\ new \in Seq(Note) /\ Len(old) \in Nat /\ Len(more) \in Nat
      /\ DOMAIN old = 1..Len(old) /\ DOMAIN more = 1..Len(more) /\ DOMAIN new = 1..Len(new)
      /\ Len(new) = Len(old) + Len(more)
  BY DEF Base, TellInv, TellingInv
<1>2. \A n \in DOMAIN old : n \in DOMAIN new /\ new[n] = old[n]
  BY <1>1
<1>3. ASSUME NEW n \in DOMAIN new, n \notin DOMAIN old
      PROVE  n - Len(old) \in DOMAIN more /\ new[n] = more[n - Len(old)]
  BY <1>1, <1>3
<1>4. \A n \in DOMAIN new : \A m \in DOMAIN new : new[m] = new[n] => m = n
  BY DEF Base, TellInv, TellingInv
<1>5. \A x, y \in Note : x.about = y.about /\ x.user = y.user => x = y
  BY DEF Note
<1>6. \A n \in DOMAIN new : new[n] \in Note
  BY <1>1
<1>7. \A u : OfProfile(u)' = {n \in DOMAIN new : /\ new[n].user = u
                                                 /\ new[n].about.kind \in ProfileKind}
  BY DEF OfProfile, ProfileKind
<1> HIDE DEF new
<1>8. ASSUME NEW u \in Customer \ crossed', NEW n \in OfProfile(u)', new[n].about = decision[u],
             NEW m \in OfProfile(u)'
      PROVE  m <= n
  <2>1. /\ n \in DOMAIN new /\ new[n].user = u /\ new[n].about.kind \in ProfileKind
        /\ m \in DOMAIN new /\ new[m].user = u /\ new[m].about.kind \in ProfileKind
    BY <1>7
  <2>2. CASE n \in DOMAIN old /\ m \in DOMAIN old
    <3>1. n \in OfProfile(u) /\ m \in OfProfile(u) /\ old[n].about = decision[u]
      BY <1>2, <1>8, <2>1, <2>2 DEF OfProfile
    <3> QED
      BY <3>1 DEF DecisionInv
  <2>3. CASE n \notin DOMAIN old
    <3>1. more[n - Len(old)].about.kind \in ProfileKind /\ n - Len(old) \in DOMAIN more
      BY <1>3, <2>1, <2>3
    <3>2. DOMAIN more = {1}
      BY <3>1
    <3>3. n = Len(old) + 1 /\ Len(more) = 1
      BY <1>1, <2>1, <3>1, <3>2
    <3> QED
      BY <1>1, <2>1, <3>3
  <2>4. CASE n \in DOMAIN old /\ m \notin DOMAIN old
    <3>1. more[m - Len(old)].about.kind \in ProfileKind /\ m - Len(old) \in DOMAIN more
      BY <1>3, <2>1, <2>4
    <3>2. new[m].about = decision[u]
      BY <1>3, <2>1, <2>4, <3>1
    <3>3. m = n
      BY <1>4, <1>5, <1>6, <1>8, <2>1, <3>2
    <3> QED
      BY <2>4, <3>3
  <2> QED
    BY <2>2, <2>3, <2>4
<1>9. \A u \in Customer \ crossed' : \A n \in OfProfile(u)' :
          notifications'[n].about = decision'[u] => \A m \in OfProfile(u)' : m <= n
  BY <1>8 DEF new
<1>10. \A u \in Customer : decision'[u] # Nobody =>
          decision'[u] \in DOMAIN audience' /\ audience'[decision'[u]] = {u}
          /\ decision'[u].kind \in ProfileKind
  BY DEF DecisionInv
<1>11. \A u \in Customer \ crossed' : \A h \in Handler :
          at'[h] \in Telling /\ req'[h].user = u => req'[h].about = decision'[u]
  OBVIOUS
<1>12. DOMAIN decision' = Customer
  BY DEF DecisionInv
<1> QED
  BY <1>9, <1>10, <1>11, <1>12 DEF DecisionInv, OfProfile, ProfileKind

\* What is stored in a step: nothing, the notification of one user, or notifications of
\* no decision.
LEMMA WhatIsWritten ==
    ASSUME Base, DecisionInv, [MessagingNext]_vars
    PROVE  \E more \in Seq(Note) :
              /\ notifications' = notifications \o more
              /\ \A k \in DOMAIN more : more[k].about.kind \in ProfileKind =>
                    /\ DOMAIN more = {1}
                    /\ more[k].user \in crossed \/ more[k].about = decision[more[k].user]
<1> DEFINE Good(more) == \A k \in DOMAIN more : more[k].about.kind \in ProfileKind =>
                    /\ DOMAIN more = {1}
                    /\ more[k].user \in crossed \/ more[k].about = decision[more[k].user]
<1>1. notifications \in Seq(Note) /\ Handlers
  BY DEF Base, TellInv, TellingInv
<1>2. CASE UNCHANGED notifications
  BY <1>1, <1>2, Appended
<1>3. ASSUME NEW h \in Handler, NEW u \in User, CreateNotification(h, u)
      PROVE  \E more \in Seq(Note) : notifications' = notifications \o more /\ Good(more)
  <2> DEFINE doc == NotificationDoc(req[h].about, u)
             more == <<doc>>
  <2>1. /\ at[h] = "notify.create" /\ u \in req[h].todo /\ notifications' = notifications \o more
    BY <1>3 DEF CreateNotification, Stored
  <2>2. /\ req[h].about \in Event /\ at[h] \in Telling
        /\ req[h].about.kind \in ProfileKind => req[h].user \in Customer /\ u = req[h].user
    BY <1>1, <2>1, StepKinds DEF Handlers, RequestOK
  <2>3. doc \in Note /\ doc.user = u /\ doc.about = req[h].about
    BY <2>2 DEF Note, NotificationDoc
  <2> HIDE DEF doc
  <2>4. more \in Seq(Note) /\ DOMAIN more = {1} /\ more[1] = doc
    BY <2>3
  <2> HIDE DEF more
  <2>5. doc.about.kind \in ProfileKind => u \in crossed \/ doc.about = decision[u]
    BY <2>2, <2>3 DEF DecisionInv
  <2>6. Good(more)
    BY <2>3, <2>4, <2>5
  <2> QED
    BY <2>1, <2>4, <2>6
<1>4. ASSUME NEW e \in Event, e.kind \notin ProfileKind, NEW users \in SUBSET User,
             Stored(Items(e, users))
      PROVE  \E more \in Seq(Note) : notifications' = notifications \o more /\ Good(more)
  <2> DEFINE more == Items(e, users)
  <2>1. more \in Seq(Note) /\ \A k \in DOMAIN more : more[k].about = e
    BY ItemsAre
  <2>2. notifications' = notifications \o more
    BY <1>4 DEF Stored
  <2> HIDE DEF more
  <2> QED
    BY <1>4, <2>1, <2>2
<1>5. ASSUME NEW h \in Handler, at[h] = "broadcast.insert", NEW users \in SUBSET req[h].todo,
             Stored(Items(req[h].about, users))
      PROVE  \E more \in Seq(Note) : notifications' = notifications \o more /\ Good(more)
  <2> DEFINE e == req[h].about
  <2>1. e \in Event /\ e.kind \notin ProfileKind /\ users \in SUBSET User
    BY <1>1, <1>5, StepKinds DEF Handlers, RequestOK
  <2> HIDE DEF e
  <2> QED
    BY <1>4, <1>5, <2>1 DEF e
<1>6. ASSUME NEW w \in writing, WriteGoesOn(w)
      PROVE  \E more \in Seq(Note) : notifications' = notifications \o more /\ Good(more)
  <2> DEFINE e == w.about
             users == w.users
  <2>1. e \in Event /\ e.kind \notin ProfileKind /\ users \in SUBSET User
    BY DEF Base, TellInv, CarriersInv, EventsInv
  <2>2. Stored(Items(e, users))
    BY <1>6 DEF WriteGoesOn
  <2> HIDE DEF e, users
  <2> QED
    BY <1>4, <2>1, <2>2
<1>7. ASSUME NEW h \in Handler, CreateMany(h)
      PROVE  \E more \in Seq(Note) : notifications' = notifications \o more /\ Good(more)
  BY <1>5, <1>7 DEF CreateMany
<1>8. ASSUME NEW h \in Handler, NEW stored \in SUBSET User, CreateManyRefused(h, stored)
      PROVE  \E more \in Seq(Note) : notifications' = notifications \o more /\ Good(more)
  BY <1>5, <1>8 DEF CreateManyRefused
<1>9. CASE UNCHANGED vars
  BY <1>2, <1>9 DEF vars, notificationVars
<1> QED
  BY <1>2, <1>3, <1>6, <1>7, <1>8, <1>9, StoredRests

LEMMA DecisionKept ==
    ASSUME Base, Base', OneOnTheWay, DecisionInv, [MessagingNext]_vars
    PROVE  DecisionInv'
<1>1. CASE \E h \in Handler : Decides(h)
  BY <1>1, StepDecided DEF Decides
<1>2. ASSUME ~ \E h \in Handler : Decides(h) PROVE DecisionInv'
  <2>1. decision' = decision /\ crossed \subseteq crossed'
    BY <1>2, DecisionRests, CrossedGrows
  <2>2. ASSUME NEW u \in Customer \ crossed', NEW h \in Handler, at'[h] \in Telling,
               req'[h].user = u
        PROVE  req'[h].about = decision[u]
    <3>1. req'[h].socket = Nobody
      BY <2>2 DEF Base, Handlers, RequestOK
    <3>2. CASE NobodyComes
      <4>1. at[h] \in Telling /\ req[h].user = u /\ req'[h].about = req[h].about
        BY <2>2, <3>1, <3>2 DEF NobodyComes, Stays
      <4> QED
        BY <2>1, <4>1 DEF DecisionInv
    <3>3. ASSUME NEW g \in Handler, Draws(g) PROVE req'[h].about = decision[u]
      <4>1. PICK step, r : Moves(g, step, r) /\ step = "otp.mail"
        BY <3>3 DEF Draws, CodeDrawn, Accept, Moves
      <4>2. h # g /\ at'[h] = at[h] /\ req'[h] = req[h]
        BY <2>2, <4>1, MovesAre, StepKinds DEF Base
      <4> QED
        BY <2>1, <2>2, <4>2 DEF DecisionInv
    <3> QED
      BY <1>2, <3>2, <3>3, WhoComes
  <2>3. PICK more \in Seq(Note) :
              /\ notifications' = notifications \o more
              /\ \A k \in DOMAIN more : more[k].about.kind \in ProfileKind =>
                    /\ DOMAIN more = {1}
                    /\ more[k].user \in crossed \/ more[k].about = decision[more[k].user]
    BY WhatIsWritten
  <2>4. \A e \in DOMAIN audience : e \in DOMAIN audience' /\ audience'[e] = audience[e]
    BY AudienceGrows
  <2> QED
    BY <2>1, <2>2, <2>3, <2>4, DecisionsStand
<1> QED
  BY <1>1, <1>2

\* The newest notification of a user about the profile is of the latest decision, but
\* for a refused write and for listeners that crossed (user.listeners.ts).
THEOREM TheLastWordIsTheDecision == Spec => []LastWordStands
<1> DEFINE Inv == Base /\ OneOnTheWay /\ DecisionInv
<1>1. Inv => LastWordStands
  <2> SUFFICES ASSUME Inv, NEW u \in Customer \ crossed, decision[u] # Nobody,
                      ~Ongoing(decision[u]), decision[u] \notin broken
               PROVE  \E n \in OfProfile(u) : /\ \A m \in OfProfile(u) : m <= n
                                              /\ notifications[n].about = decision[u]
    BY DEF LastWordStands, OfProfile
  <2>1. /\ decision[u] \in DOMAIN audience /\ u \in audience[decision[u]]
        /\ decision[u].kind \in ProfileKind
    BY DEF DecisionInv
  <2>2. ~Waiting(decision[u], u)
    BY DEF Waiting, Ongoing
  <2>3. PICK n \in DOMAIN notifications : notifications[n] = NotificationDoc(decision[u], u)
    BY <2>1, <2>2 DEF Base, TellInv, TellingInv, Told
  <2>4. n \in OfProfile(u) /\ notifications[n].about = decision[u]
    BY <2>1, <2>3 DEF OfProfile, NotificationDoc
  <2> QED
    BY <2>4 DEF DecisionInv
<1>2. MessagingInit => Inv
  <2> SUFFICES ASSUME MessagingInit PROVE DecisionInv
    BY BaseStarts, OneOnTheWayStarts
  <2>1. /\ decision = [u \in Customer |-> Nobody] /\ notifications = <<>>
        /\ \A h \in Handler : at[h] = "idle"
    BY DEF MessagingInit, ListenerInit, NotificationInit, RealtimeInit
  <2>2. \A u : OfProfile(u) = {}
    BY <2>1 DEF OfProfile
  <2> QED
    BY <2>1, <2>2, StepKinds DEF DecisionInv
<1>3. Inv /\ [MessagingNext]_vars => Inv'
  BY BaseKept, OneOnTheWayKept, DecisionKept
<1> QED
  BY <1>1, <1>2, <1>3, PTL DEF Spec

-------------------------------------------------------------------------------
(* The log of mails and the codes *)

Status == {"reset_requested", "otp_resent", "otp_sent", "verified"}

Mail == [to : Customer, status : Status, otp : Nat]

Mailing(h, u, i) == at[h] = "otp.mail" /\ req[h].user = u /\ req[h].instance = i

\* The code an instance keeps for a user is dropped, or it is on its way, or the
\* newest mail to the user carries it.
CodesInv ==
    /\ \A h \in Handler : at[h] = "otp.mail" => req[h].status \in Status
    /\ DOMAIN otpStore = Instance /\ DOMAIN mailLog = Instance
    /\ \A i \in Instance : otpStore[i] \in [Customer -> Nat] /\ mailLog[i] \in Seq(Mail)
    /\ \A u \in Customer \ crossed, i \in Instance :
          /\ \A h \in Handler : Mailing(h, u, i) => otpStore[i][u] \in {0, req[h].code}
          /\ \/ otpStore[i][u] = 0
             \/ \E h \in Handler : Mailing(h, u, i)
             \/ MailsTo(i, u) = {}
             \/ mailLog[i][Min(MailsTo(i, u))].otp = otpStore[i][u]

LEMMA MinIs ==
    ASSUME NEW S \in SUBSET Nat, NEW x \in S, \A y \in S : x <= y
    PROVE  Min(S) = x
<1>1. Min(S) \in S /\ \A y \in S : Min(S) <= y
  BY DEF Min
<1>2. Min(S) <= x /\ x <= Min(S) /\ x \in Nat /\ Min(S) \in Nat
  BY <1>1
<1> QED
  BY <1>2

LEMMA LeastIs ==
    ASSUME NEW S \in SUBSET Nat, S # {}
    PROVE  \E x \in S : \A y \in S : x <= y
<1> DEFINE Lower == {p \in Nat \X Nat : p[1] < p[2]}
<1>1. IsWellFoundedOn(Lower, Nat)
  BY NatLessThanWellFounded DEF OpToRel
<1> HIDE DEF Lower
<1>2. PICK x \in S : \A y \in S : ~(<<y, x>> \in Lower)
  BY <1>1, WFMin
<1>3. ASSUME NEW y \in S PROVE x <= y
  <2>1. <<y, x>> \in Nat \X Nat /\ <<y, x>>[1] = y /\ <<y, x>>[2] = x
    OBVIOUS
  <2>2. ~(y < x)
    BY <1>2, <2>1 DEF Lower
  <2> QED
    BY <2>2
<1> QED
  BY <1>3

To(log, u) == {k \in DOMAIN log : log[k].to = u}

\* What addMailLog does to the log.
LEMMA LogIs ==
    ASSUME NEW log \in Seq(Mail), NEW entry \in Mail
    PROVE  /\ addMailLog(log, entry) \in Seq(Mail)
           /\ 1 \in DOMAIN addMailLog(log, entry) /\ addMailLog(log, entry)[1] = entry
           /\ \A k \in DOMAIN addMailLog(log, entry) \ {1} :
                 k - 1 \in DOMAIN log /\ addMailLog(log, entry)[k] = log[k - 1]
           /\ DOMAIN addMailLog(log, entry) = 1..Len(addMailLog(log, entry))
           /\ Len(addMailLog(log, entry)) \in Nat
<1> DEFINE all == <<entry>> \o log
           limit == IF Len(log) < maxMailLog THEN Len(log) + 1 ELSE maxMailLog
           new == SubSeq(all, 1, limit)
<1>1. maxMailLog \in Nat \ {0} /\ Len(log) \in Nat
  BY MessagingAssumption
<1>2. limit \in 1..(Len(log) + 1)
  BY <1>1
<1>3. /\ all \in Seq(Mail) /\ Len(all) = Len(log) + 1 /\ all[1] = entry
      /\ \A k \in 2..(Len(log) + 1) : all[k] = log[k - 1]
  BY <1>1
<1> HIDE DEF all, limit
<1>4. /\ new \in Seq(Mail) /\ Len(new) = limit /\ DOMAIN new = 1..limit
      /\ \A k \in 1..limit : new[k] = all[k]
  BY <1>1, <1>2, <1>3
<1>5. addMailLog(log, entry) = new
  BY DEF addMailLog, all, limit
<1> HIDE DEF new
<1>6. \A k \in DOMAIN new \ {1} : k - 1 \in DOMAIN log /\ new[k] = log[k - 1]
  BY <1>1, <1>2, <1>3, <1>4
<1> QED
  BY <1>2, <1>3, <1>4, <1>5, <1>6

\* A mail to someone else leaves the newest mail to u what it was, if the log still
\* holds any.
LEMMA OthersMail ==
    ASSUME NEW log \in Seq(Mail), NEW entry \in Mail, NEW u, entry.to # u,
           To(addMailLog(log, entry), u) # {}
    PROVE  /\ To(log, u) # {}
           /\ addMailLog(log, entry)[Min(To(addMailLog(log, entry), u))] = log[Min(To(log, u))]
<1> DEFINE new == addMailLog(log, entry)
           old == To(log, u)
           now == To(new, u)
<1>1. /\ new \in Seq(Mail) /\ 1 \in DOMAIN new /\ new[1] = entry
      /\ \A k \in DOMAIN new \ {1} : k - 1 \in DOMAIN log /\ new[k] = log[k - 1]
      /\ DOMAIN new = 1..Len(new) /\ Len(new) \in Nat
  BY LogIs
<1> HIDE DEF new
<1>2. old \in SUBSET Nat /\ now \in SUBSET Nat
  BY <1>1 DEF To
<1>3. ASSUME NEW k \in now PROVE k \in 2..Len(new) /\ k - 1 \in old
  <2>1. k # 1
    BY <1>1, <1>3 DEF To
  <2> QED
    BY <1>1, <2>1 DEF To
<1>4. PICK x \in old : \A y \in old : x <= y
  BY <1>2, <1>3, LeastIs DEF new
<1>5. x + 1 \in now /\ \A k \in now : x + 1 <= k
  <2>1. PICK k \in now : TRUE
    BY DEF new
  <2>2. x <= k - 1 /\ k \in 2..Len(new) /\ x \in Nat /\ x \in DOMAIN log
    BY <1>2, <1>3, <1>4 DEF To
  <2>3. x \in 1..Len(log)
    BY <2>2
  <2>4. x + 1 \in DOMAIN new \ {1}
    BY <1>1, <2>2, <2>3
  <2>5. new[x + 1] = log[x]
    BY <1>1, <2>2, <2>4
  <2>6. x + 1 \in now
    BY <2>4, <2>5 DEF To
  <2>7. ASSUME NEW j \in now PROVE x + 1 <= j
    <3>1. x <= j - 1 /\ j \in 2..Len(new)
      BY <1>3, <1>4
    <3> QED
      BY <1>1, <2>2, <3>1
  <2> QED
    BY <2>6, <2>7
<1>6. Min(old) = x /\ Min(now) = x + 1
  BY <1>2, <1>4, <1>5, MinIs
<1>7. x + 1 \in DOMAIN new \ {1} /\ x \in Nat
  BY <1>2, <1>3, <1>5 DEF To
<1>8. new[x + 1] = log[x]
  BY <1>1, <1>7
<1> QED
  BY <1>4, <1>6, <1>8 DEF new

\* The code on its way is mailed or lost with its process; other steps leave it.
MailsStay == \A g \in Handler : at[g] = "otp.mail" => at'[g] = "otp.mail" /\ req'[g] = req[g]

LEMMA MailsWait ==
    ASSUME Base, [MessagingNext]_vars
    PROVE  \/ MailsStay
           \/ \E h \in Handler : CodeMailed(h)
           \/ \E i \in Instance : Die(i)
<1>1. Handlers
  BY DEF Base
<1>2. ASSUME NEW h \in Handler, at[h] # "otp.mail", NEW step, NEW r, Moves(h, step, r)
      PROVE  MailsStay
  BY <1>1, <1>2, MovesAre DEF MailsStay
<1>3. ASSUME NEW h \in Handler, at[h] # "otp.mail", NEW step, NEW r, GoTo(h, step, r)
      PROVE  MailsStay
  BY <1>2, <1>3 DEF GoTo, Moves
<1>4. ASSUME NEW h \in Handler, at[h] # "otp.mail", Answer(h) PROVE MailsStay
  BY <1>3, <1>4 DEF Answer
<1>5. ASSUME NEW h \in Handler, NEW part, NEW step, NEW r, Accept(h, part, step, r)
      PROVE  MailsStay
  BY <1>2, <1>5 DEF Accept, Moves
<1>6. ASSUME UNCHANGED <<at, req>> PROVE MailsStay
  BY <1>6 DEF MailsStay
<1>7. ASSUME NEW part, Serve(part) PROVE MailsStay
  BY <1>6, <1>7 DEF Serve
<1>8. ASSUME NEW h \in Handler, ChatNext(h) PROVE MailsStay
  BY <1>3, <1>4, <1>5, <1>7, <1>8 DEF ChatNext, StartConversation, CreateConversation, FindCreated,
     SendMessage, CreateMessage, SaveConversation, SendFails
<1>9. ASSUME NEW h \in Handler, NotifyNext(h) PROVE MailsStay
  <2>1. ASSUME NEW u, at[h] # "otp.mail", NextUser(h, u) PROVE MailsStay
    BY <1>3, <1>4, <2>1 DEF NextUser
  <2> QED
    BY <1>3, <1>4, <1>5, <1>9, <2>1 DEF NotifyNext, ApiNotify, NotifyAdminsOfNewOrder,
       UserRegistered, notifyAdmins, CreateNotification, SendNotificationMail, CreateRefused,
       Broadcast, CreateMany, CreateManyRefused, withAbort
<1>10. ASSUME NEW h \in Handler, ListenNext(h) PROVE MailsStay \/ CodeMailed(h)
  BY <1>3, <1>4, <1>5, <1>10 DEF ListenNext, approveUser, declineUser, Decide, emit, UpdateFails,
     MailDecision, EnqueuePush, EnqueueRefused, PasswordResetRequested, OtpResend, CodeDrawn
<1>11. ASSUME NEW s \in Socket, NEW i \in Instance, NEW token \in Token, Connect(s, i, token)
       PROVE  MailsStay
  BY <1>7, <1>11 DEF Connect, Connection
<1>12. ASSUME NEW s \in Socket, Disconnect(s) \/ ListUsers(s) PROVE MailsStay
  BY <1>6, <1>7, <1>12 DEF Disconnect, disconnect, ListUsers, PresenceList
<1>13. ASSUME NEW s \in Socket, NEW c \in Conversation, RoomNext(s, c) PROVE MailsStay
  BY <1>7, <1>13 DEF RoomNext, Join, Leave, History
<1>14. ASSUME NEW w, WriteGoesOn(w) PROVE MailsStay
  BY <1>6, <1>14 DEF WriteGoesOn
<1>15. ASSUME NEW u \in User, MailboxNext(u) PROVE MailsStay
  BY <1>7, <1>15 DEF MailboxNext, MarkRead, MarkAllRead, SoftDelete
<1>16. ASSUME NEW u, NEW i, EmailVerified(u, i) PROVE MailsStay
  BY <1>7, <1>16 DEF EmailVerified
<1>17. ASSUME NEW k, WorkerNext(k) PROVE MailsStay
  BY <1>6, <1>7, <1>17 DEF WorkerNext, WorkerSends, WorkerFails, WorkerCompletes, WorkerDies,
                           Unbothered
<1> QED
  BY <1>6, <1>8, <1>9, <1>10, <1>11, <1>12, <1>13, <1>14, <1>15, <1>16, <1>17
     DEF MessagingNext, vars, realtimeVars

LEMMA CodesRest ==
    ASSUME [MessagingNext]_vars
    PROVE  \/ UNCHANGED <<otpStore, mailLog>>
           \/ \E h \in Handler : Draws(h) \/ CodeMailed(h)
           \/ \E u \in Customer, i \in Server : EmailVerified(u, i)
           \/ \E i \in Instance : Die(i)
<1>1. ASSUME NEW h \in Handler, ListenNext(h)
      PROVE  UNCHANGED <<otpStore, mailLog>> \/ Draws(h) \/ CodeMailed(h)
  BY <1>1 DEF ListenNext, approveUser, declineUser, Decide, emit, UpdateFails,
              MailDecision, EnqueuePush,
              EnqueueRefused, PasswordResetRequested, OtpResend, Draws, listenerVars
<1>2. ASSUME NEW k, WorkerNext(k) PROVE UNCHANGED <<otpStore, mailLog>>
  BY <1>2 DEF WorkerNext, WorkerSends, WorkerFails, WorkerCompletes, WorkerDies, Unbothered
<1>3. ASSUME NEW s \in Socket, Disconnect(s) \/ ListUsers(s) PROVE UNCHANGED <<otpStore, mailLog>>
  BY <1>3 DEF Disconnect, ListUsers, listenerVars
<1>4. ASSUME NEW s, NEW i, NEW token, Connect(s, i, token) PROVE UNCHANGED <<otpStore, mailLog>>
  BY <1>4 DEF Connect, listenerVars
<1> QED
  BY <1>1, <1>2, <1>3, <1>4 DEF MessagingNext, vars, listenerVars

\* After a step every code that is on its way was so before, the same.
CodesCome == \A g \in Handler : at'[g] = "otp.mail" => at[g] = "otp.mail" /\ req'[g] = req[g]

LEMMA NoCodeComes ==
    ASSUME Handlers', NobodyComes
    PROVE  CodesCome
<1>1. ASSUME NEW g \in Handler, at'[g] = "otp.mail"
      PROVE  req'[g].user \in Customer /\ req'[g].socket = Nobody
  BY <1>1 DEF Handlers, RequestOK
<1> QED
  BY <1>1 DEF NobodyComes, Stays, CodesCome

LEMMA CodesStand ==
    ASSUME CodesInv, UNCHANGED <<otpStore, mailLog>>, crossed \subseteq crossed', CodesCome, MailsStay
    PROVE  CodesInv'
<1>1. \A u, i : \A g \in Handler : Mailing(g, u, i)' <=> Mailing(g, u, i)
  BY DEF Mailing, CodesCome, MailsStay
<1>2. \A u, i : MailsTo(i, u)' = MailsTo(i, u)
  BY DEF MailsTo
<1>3. \A h \in Handler : at'[h] = "otp.mail" => req'[h].status \in Status
  BY DEF CodesCome, CodesInv
<1>4. \A u \in Customer \ crossed', i \in Instance :
          /\ \A h \in Handler : Mailing(h, u, i)' => otpStore'[i][u] \in {0, req'[h].code}
          /\ \/ otpStore'[i][u] = 0
             \/ \E h \in Handler : Mailing(h, u, i)'
             \/ MailsTo(i, u)' = {}
             \/ mailLog'[i][Min(MailsTo(i, u)')].otp = otpStore'[i][u]
  <2> TAKE u \in Customer \ crossed', i \in Instance
  <2>1. \A g \in Handler : Mailing(g, u, i)' => Mailing(g, u, i) /\ req'[g].code = req[g].code
    BY <1>1 DEF Mailing, CodesCome
  <2>2. /\ \A g \in Handler : Mailing(g, u, i) => otpStore[i][u] \in {0, req[g].code}
        /\ \/ otpStore[i][u] = 0
           \/ \E g \in Handler : Mailing(g, u, i)
           \/ MailsTo(i, u) = {}
           \/ mailLog[i][Min(MailsTo(i, u))].otp = otpStore[i][u]
    BY DEF CodesInv
  <2>3. \A g \in Handler : Mailing(g, u, i)' => otpStore'[i][u] \in {0, req'[g].code}
    BY <2>1, <2>2
  <2> QED
    BY <1>1, <1>2, <2>2, <2>3
<1>5. /\ DOMAIN otpStore' = Instance /\ DOMAIN mailLog' = Instance
      /\ \A i \in Instance : otpStore'[i] \in [Customer -> Nat] /\ mailLog'[i] \in Seq(Mail)
  BY DEF CodesInv
<1> QED
  BY <1>3, <1>4, <1>5 DEF CodesInv, Min, Mail, Status

\* A code is drawn: it is kept, and on its way.
LEMMA StepDrawn ==
    ASSUME Base, Base', OneOnTheWay, CodesInv, NEW h \in Handler, NEW u \in Customer,
           NEW i \in Server, NEW status \in {"reset_requested", "otp_resent", "otp_sent"},
           CodeDrawn(h, u, status, i)
    PROVE  CodesInv'
<1> DEFINE r == [NoRequest EXCEPT !.instance = i, !.user = u, !.code = left.listen,
                                  !.status = status]
           code == left.listen
<1>1. /\ Moves(h, "otp.mail", r) /\ Crossing(u) /\ at[h] = "idle" /\ mailLog' = mailLog
      /\ otpStore' = [otpStore EXCEPT ![i][u] = code]
  BY DEF CodeDrawn, Accept, Moves
<1>2. r.user = u /\ r.instance = i /\ r.code = code /\ r.status = status
  BY DEF NoRequest
<1>3. i \in Instance /\ code \in Nat
  BY MessagingAssumption DEF Base, Handlers, Part
<1> HIDE DEF r, code
<1>4. /\ at'[h] = "otp.mail" /\ req'[h] = r
      /\ \A g \in Handler \ {h} : at'[g] = at[g] /\ req'[g] = req[g]
  BY <1>1, MovesAre DEF Base
<1>5. /\ crossed \subseteq crossed'
      /\ u \notin crossed' => \A g \in Handler \ {h} : ~Comes(g, u)'
  BY <1>1, <1>2, OneComes DEF Base
<1>6. /\ DOMAIN otpStore' = Instance /\ \A j \in Instance : otpStore'[j] \in [Customer -> Nat]
      /\ otpStore'[i][u] = code
      /\ \A j \in Instance, v \in Customer : j # i \/ v # u => otpStore'[j][v] = otpStore[j][v]
  BY <1>1, <1>3 DEF CodesInv
<1>7. \A v, j : MailsTo(j, v)' = MailsTo(j, v)
  BY <1>1 DEF MailsTo
<1>8. \A g \in Handler \ {h} : \A v, j : Mailing(g, v, j)' <=> Mailing(g, v, j)
  BY <1>4 DEF Mailing
<1>9. /\ Mailing(h, u, i)' /\ \A v, j : Mailing(h, v, j)' => v = u /\ j = i
      /\ \A v, j : ~Mailing(h, v, j)
  BY <1>1, <1>2, <1>4 DEF Mailing
<1>10. ASSUME NEW v \in Customer \ crossed', NEW j \in Instance
       PROVE  /\ \A g \in Handler : Mailing(g, v, j)' => otpStore'[j][v] \in {0, req'[g].code}
              /\ \/ otpStore'[j][v] = 0
                 \/ \E g \in Handler : Mailing(g, v, j)'
                 \/ MailsTo(j, v)' = {}
                 \/ mailLog'[j][Min(MailsTo(j, v)')].otp = otpStore'[j][v]
  <2>1. CASE v = u /\ j = i
    <3>1. ASSUME NEW g \in Handler, Mailing(g, u, i)' PROVE g = h
      <4>1. Comes(g, u)'
        BY <3>1 DEF Mailing, Comes, Base, Handlers, RequestOK
      <4> QED
        BY <1>5, <2>1, <4>1
    <3> QED
      BY <1>2, <1>4, <1>6, <1>9, <2>1, <3>1
  <2>2. CASE v # u \/ j # i
    <3>1. v \in Customer \ crossed /\ otpStore'[j][v] = otpStore[j][v]
      BY <1>5, <1>6, <2>2
    <3>2. \A g \in Handler : Mailing(g, v, j)' <=> Mailing(g, v, j)
      BY <1>8, <1>9, <2>2
    <3>3. \A g \in Handler : Mailing(g, v, j)' => req'[g] = req[g]
      BY <1>4, <1>9, <2>2
    <3> QED
      BY <1>1, <1>7, <3>1, <3>2, <3>3 DEF CodesInv
  <2> QED
    BY <2>1, <2>2
<1>11. \A g \in Handler : at'[g] = "otp.mail" => req'[g].status \in Status
  <2>1. status \in Status
    BY DEF Status
  <2> QED
    BY <1>2, <1>4, <2>1 DEF CodesInv
<1>12. DOMAIN mailLog' = Instance /\ \A j \in Instance : mailLog'[j] \in Seq(Mail)
  BY <1>1 DEF CodesInv
<1> QED
  BY <1>6, <1>10, <1>11, <1>12 DEF CodesInv, Min, Mail, Status

\* A code is mailed: the mail to its user is the newest, and carries it.
LEMMA StepMailed ==
    ASSUME Base, Base', CodesInv, CodesCome, NEW h \in Handler, CodeMailed(h)
    PROVE  CodesInv'
<1> DEFINE r == req[h]
           i == r.instance
           entry == [to |-> r.user, status |-> r.status, otp |-> r.code]
           log == mailLog[i]
<1>1. /\ at[h] = "otp.mail" /\ mailLog' = [mailLog EXCEPT ![i] = addMailLog(@, entry)]
      /\ UNCHANGED <<otpStore, crossed>>
  BY DEF CodeMailed
<1>2. r.user \in Customer /\ i \in Instance /\ r.code \in Nat
  BY <1>1 DEF Base, Handlers, RequestOK
<1>3. entry \in Mail /\ entry.to = r.user /\ entry.otp = r.code /\ log \in Seq(Mail)
  BY <1>1, <1>2 DEF CodesInv, Mail
<1>4. at'[h] # "otp.mail" /\ \A g \in Handler \ {h} : at'[g] = at[g] /\ req'[g] = req[g]
  <2>1. \E step, q : Moves(h, step, q) /\ step # "otp.mail"
    BY DEF CodeMailed, GoTo, Answer, Moves
  <2> QED
    BY <2>1, MovesAre DEF Base
<1>5. /\ DOMAIN mailLog' = Instance /\ mailLog'[i] = addMailLog(log, entry)
      /\ \A j \in Instance \ {i} : mailLog'[j] = mailLog[j]
  BY <1>1, <1>2 DEF CodesInv
<1>6. \A v, j : MailsTo(j, v) = To(mailLog[j], v) /\ MailsTo(j, v)' = To(mailLog'[j], v)
  BY DEF MailsTo, To
<1> HIDE DEF entry
<1>7. mailLog'[i] \in Seq(Mail)
  BY <1>3, <1>5, LogIs
<1>8. ASSUME NEW v \in Customer \ crossed, NEW j \in Instance
      PROVE  /\ \A g \in Handler : Mailing(g, v, j)' => otpStore'[j][v] \in {0, req'[g].code}
             /\ \/ otpStore'[j][v] = 0
                \/ \E g \in Handler : Mailing(g, v, j)'
                \/ MailsTo(j, v)' = {}
                \/ mailLog'[j][Min(MailsTo(j, v)')].otp = otpStore'[j][v]
  <2>1. \A g \in Handler : Mailing(g, v, j)' => Mailing(g, v, j) /\ req'[g] = req[g]
    BY DEF Mailing, CodesCome
  <2>2. \A g \in Handler : Mailing(g, v, j)' => otpStore'[j][v] \in {0, req'[g].code}
    BY <1>1, <2>1 DEF CodesInv
  <2>3. CASE v = r.user /\ j = i
    <3>1. Mailing(h, v, j)
      BY <1>1, <2>3 DEF Mailing
    <3>2. otpStore[j][v] \in {0, r.code}
      BY <3>1 DEF CodesInv
    <3>3. 1 \in To(mailLog'[i], v) /\ mailLog'[i][1].otp = r.code
      <4>1. 1 \in DOMAIN mailLog'[i] /\ mailLog'[i][1] = entry
        BY <1>3, <1>5, LogIs
      <4> QED
        BY <1>3, <2>3, <4>1 DEF To
    <3>4. To(mailLog'[i], v) \in SUBSET Nat /\ \A k \in To(mailLog'[i], v) : 1 <= k
      BY <1>7 DEF To
    <3>5. Min(To(mailLog'[i], v)) = 1
      BY <3>3, <3>4, MinIs
    <3> QED
      BY <1>1, <1>6, <2>2, <2>3, <3>2, <3>3, <3>5
  <2>4. CASE v # r.user \/ j # i
    <3>1. \A g \in Handler : Mailing(g, v, j) => Mailing(g, v, j)'
      BY <1>4, <2>4 DEF Mailing
    <3>2. \/ MailsTo(j, v)' = {}
          \/ MailsTo(j, v) # {} /\
             mailLog'[j][Min(MailsTo(j, v)')] = mailLog[j][Min(MailsTo(j, v))]
      <4>1. CASE j # i
        BY <1>5, <1>6, <4>1
      <4>2. CASE j = i
        BY <1>3, <1>5, <1>6, <2>4, <4>2, OthersMail
      <4> QED
        BY <4>1, <4>2
    <3>3. \/ otpStore[j][v] = 0
          \/ \E g \in Handler : Mailing(g, v, j)
          \/ MailsTo(j, v) = {}
          \/ mailLog[j][Min(MailsTo(j, v))].otp = otpStore[j][v]
      BY DEF CodesInv
    <3> QED
      BY <1>1, <2>2, <3>1, <3>2, <3>3
  <2> QED
    BY <2>3, <2>4
<1>9. \A g \in Handler : at'[g] = "otp.mail" => req'[g].status \in Status
  BY DEF CodesCome, CodesInv
<1>10. /\ DOMAIN otpStore' = Instance
       /\ \A j \in Instance : otpStore'[j] \in [Customer -> Nat] /\ mailLog'[j] \in Seq(Mail)
  BY <1>1, <1>5, <1>7 DEF CodesInv
<1> QED
  BY <1>1, <1>5, <1>8, <1>9, <1>10 DEF CodesInv, Min, Mail, Status

\* An address is verified: its code is dropped, and the mails stay where they are.
LEMMA StepVerified ==
    ASSUME Base, Base', CodesInv, CodesCome, MailsStay, NEW u \in Customer, NEW i \in Server,
           EmailVerified(u, i)
    PROVE  CodesInv'
<1> DEFINE log == mailLog[i]
           new == markEmailVerified(i, u)
<1>1. /\ otpStore' = [otpStore EXCEPT ![i][u] = 0] /\ mailLog' = [mailLog EXCEPT ![i] = new]
      /\ crossed' = crossed
  BY DEF EmailVerified
<1>2. i \in Instance /\ log \in Seq(Mail)
  BY MessagingAssumption DEF CodesInv
<1>3. /\ DOMAIN otpStore' = Instance /\ \A j \in Instance : otpStore'[j] \in [Customer -> Nat]
      /\ otpStore'[i][u] = 0
      /\ \A j \in Instance, v \in Customer : j # i \/ v # u => otpStore'[j][v] = otpStore[j][v]
  BY <1>1, <1>2 DEF CodesInv
<1>4. /\ new \in Seq(Mail) /\ DOMAIN new = DOMAIN log
      /\ \A k \in DOMAIN log : new[k].to = log[k].to /\ new[k].otp = log[k].otp
  <2>1. CASE MailsTo(i, u) = {}
    BY <1>2, <2>1 DEF markEmailVerified
  <2>2. CASE MailsTo(i, u) # {}
    <3> DEFINE k0 == Min(MailsTo(i, u))
    <3>1. MailsTo(i, u) \in SUBSET Nat /\ MailsTo(i, u) \subseteq DOMAIN log
      BY <1>2 DEF MailsTo
    <3>2. PICK x \in MailsTo(i, u) : \A y \in MailsTo(i, u) : x <= y
      BY <2>2, <3>1, LeastIs
    <3>3. k0 \in DOMAIN log
      BY <3>1, <3>2, MinIs
    <3>4. new = [log EXCEPT ![k0].status = "verified"]
      BY <2>2 DEF markEmailVerified
    <3> HIDE DEF k0, new
    <3>5. log[k0] \in Mail /\ "verified" \in Status
      BY <1>2, <3>3 DEF Status
    <3>6. [log[k0] EXCEPT !.status = "verified"] \in Mail
      BY <3>5 DEF Mail
    <3>7. new = [log EXCEPT ![k0] = [log[k0] EXCEPT !.status = "verified"]]
      BY <3>4
    <3>8. new \in Seq(Mail) /\ DOMAIN new = DOMAIN log
      BY <1>2, <3>3, <3>6, <3>7
    <3>9. /\ [log[k0] EXCEPT !.status = "verified"].to = log[k0].to
          /\ [log[k0] EXCEPT !.status = "verified"].otp = log[k0].otp
      BY <3>5 DEF Mail
    <3> QED
      BY <3>3, <3>7, <3>8, <3>9
  <2> QED
    BY <2>1, <2>2
<1> HIDE DEF new
<1>5. /\ DOMAIN mailLog' = Instance /\ mailLog'[i] = new
      /\ \A j \in Instance \ {i} : mailLog'[j] = mailLog[j]
  BY <1>1, <1>2 DEF CodesInv
<1>6. ASSUME NEW v, NEW j \in Instance
      PROVE  /\ MailsTo(j, v)' = MailsTo(j, v)
             /\ \A k \in MailsTo(j, v) : mailLog'[j][k].otp = mailLog[j][k].otp
             /\ MailsTo(j, v) \in SUBSET Nat
  <2>1. MailsTo(j, v)' = {k \in DOMAIN mailLog'[j] : mailLog'[j][k].to = v}
    BY DEF MailsTo
  <2>2. MailsTo(j, v) \in SUBSET Nat
    BY DEF MailsTo, CodesInv
  <2>3. CASE j = i
    BY <1>4, <1>5, <2>1, <2>2, <2>3 DEF MailsTo
  <2>4. CASE j # i
    BY <1>5, <2>1, <2>2, <2>4 DEF MailsTo
  <2> QED
    BY <2>3, <2>4
<1>7. ASSUME NEW v \in Customer \ crossed, NEW j \in Instance
      PROVE  /\ \A g \in Handler : Mailing(g, v, j)' => otpStore'[j][v] \in {0, req'[g].code}
             /\ \/ otpStore'[j][v] = 0
                \/ \E g \in Handler : Mailing(g, v, j)'
                \/ MailsTo(j, v)' = {}
                \/ mailLog'[j][Min(MailsTo(j, v)')].otp = otpStore'[j][v]
  <2>1. CASE v = u /\ j = i
    BY <1>3, <2>1
  <2>2. CASE v # u \/ j # i
    <3>1. otpStore'[j][v] = otpStore[j][v]
      BY <1>3, <2>2
    <3>2. \A g \in Handler : /\ Mailing(g, v, j)' <=> Mailing(g, v, j)
                             /\ Mailing(g, v, j) => req'[g] = req[g]
      BY DEF Mailing, CodesCome, MailsStay
    <3>3. CASE MailsTo(j, v) = {}
      BY <1>6, <3>1, <3>2, <3>3 DEF CodesInv
    <3>4. CASE MailsTo(j, v) # {}
      <4>1. PICK x \in MailsTo(j, v) : \A y \in MailsTo(j, v) : x <= y
        BY <1>6, <3>4, LeastIs
      <4>2. Min(MailsTo(j, v)) \in MailsTo(j, v)
        BY <1>6, <4>1, MinIs
      <4>3. mailLog'[j][Min(MailsTo(j, v)')].otp = mailLog[j][Min(MailsTo(j, v))].otp
        BY <1>6, <4>2
      <4> QED
        BY <3>1, <3>2, <4>3 DEF CodesInv
    <3> QED
      BY <3>3, <3>4
  <2> QED
    BY <2>1, <2>2
<1>8. \A g \in Handler : at'[g] = "otp.mail" => req'[g].status \in Status
  BY DEF CodesCome, CodesInv
<1>9. \A j \in Instance : mailLog'[j] \in Seq(Mail)
  BY <1>4, <1>5 DEF CodesInv
<1> QED
  BY <1>1, <1>3, <1>5, <1>7, <1>8, <1>9 DEF CodesInv, Min, Mail, Status

\* A process dies with its codes and its log.
LEMMA StepDeath ==
    ASSUME Base, CodesInv, CodesCome, NEW i \in Instance, Die(i)
    PROVE  CodesInv'
<1>1. /\ otpStore' = [otpStore EXCEPT ![i] = [u \in Customer |-> 0]]
      /\ mailLog' = [mailLog EXCEPT ![i] = <<>>] /\ crossed \subseteq crossed'
      /\ at' = [h \in Handler |-> IF req[h].instance = i THEN "idle" ELSE at[h]]
      /\ req' = [h \in Handler |-> IF req[h].instance = i THEN NoRequest ELSE req[h]]
  BY DEF Die, InstanceDies
<1>2. /\ DOMAIN otpStore' = Instance /\ DOMAIN mailLog' = Instance
      /\ \A u \in Customer : otpStore'[i][u] = 0
      /\ \A j \in Instance \ {i} : otpStore'[j] = otpStore[j] /\ mailLog'[j] = mailLog[j]
      /\ \A j \in Instance : otpStore'[j] \in [Customer -> Nat] /\ mailLog'[j] \in Seq(Mail)
  BY <1>1 DEF CodesInv
<1>3. ASSUME NEW v \in Customer \ crossed', NEW j \in Instance
      PROVE  /\ \A g \in Handler : Mailing(g, v, j)' => otpStore'[j][v] \in {0, req'[g].code}
             /\ \/ otpStore'[j][v] = 0
                \/ \E g \in Handler : Mailing(g, v, j)'
                \/ MailsTo(j, v)' = {}
                \/ mailLog'[j][Min(MailsTo(j, v)')].otp = otpStore'[j][v]
  <2>1. CASE j = i
    BY <1>2, <2>1
  <2>2. CASE j # i
    <3>1. \A g \in Handler : Mailing(g, v, j)' <=> Mailing(g, v, j)
      BY <1>1, <2>2 DEF Mailing, CodesCome
    <3>2. \A g \in Handler : Mailing(g, v, j)' => req'[g] = req[g]
      BY DEF Mailing, CodesCome
    <3>3. MailsTo(j, v)' = MailsTo(j, v)
      BY <1>2, <2>2 DEF MailsTo
    <3>4. /\ \A g \in Handler : Mailing(g, v, j) => otpStore[j][v] \in {0, req[g].code}
          /\ \/ otpStore[j][v] = 0
             \/ \E g \in Handler : Mailing(g, v, j)
             \/ MailsTo(j, v) = {}
             \/ mailLog[j][Min(MailsTo(j, v))].otp = otpStore[j][v]
      BY <1>1 DEF CodesInv
    <3>5. otpStore'[j] = otpStore[j] /\ mailLog'[j] = mailLog[j]
      BY <1>2, <2>2
    <3>6. \A g \in Handler : Mailing(g, v, j)' => otpStore'[j][v] \in {0, req'[g].code}
      BY <3>1, <3>2, <3>4, <3>5
    <3> QED
      BY <3>1, <3>3, <3>4, <3>5, <3>6
  <2> QED
    BY <2>1, <2>2
<1>4. \A g \in Handler : at'[g] = "otp.mail" => req'[g].status \in Status
  BY DEF CodesCome, CodesInv
<1> QED
  BY <1>2, <1>3, <1>4 DEF CodesInv, Min, Mail, Status

LEMMA CodesKept ==
    ASSUME Base, Base', OneOnTheWay, CodesInv, [MessagingNext]_vars
    PROVE  CodesInv'
<1>1. CASE \E h \in Handler : Draws(h)
  BY <1>1, StepDrawn DEF Draws
<1>2. ASSUME ~ \E h \in Handler : Draws(h) PROVE CodesCome
  <2>1. CASE NobodyComes
    BY <2>1, NoCodeComes DEF Base
  <2>2. ASSUME NEW h \in Handler, Decides(h) PROVE CodesCome
    <3>1. PICK step, r : Moves(h, step, r) /\ step = "listener.emit"
      BY <2>2 DEF Decides, Decide, Accept, Moves
    <3> QED
      BY <3>1, MovesAre DEF Base, CodesCome
  <2> QED
    BY <1>2, <2>1, <2>2, WhoComes
<1>3. CASE \E h \in Handler : CodeMailed(h)
  BY <1>1, <1>2, <1>3, StepMailed
<1>4. CASE \E i \in Instance : Die(i)
  BY <1>1, <1>2, <1>4, StepDeath
<1>5. ASSUME ~ \E h \in Handler : Draws(h) \/ CodeMailed(h), ~ \E i \in Instance : Die(i)
      PROVE  CodesInv'
  <2>1. MailsStay /\ CodesCome /\ crossed \subseteq crossed'
    BY <1>2, <1>5, MailsWait, CrossedGrows
  <2> QED
    BY <1>5, <2>1, CodesRest, CodesStand, StepVerified
<1> QED
  BY <1>1, <1>3, <1>4, <1>5

\* The newest mail to a user in the log of an instance carries the code it keeps for
\* the user, once the listener is done (auth.listeners.ts, otp-store.ts, mail-log.ts).
THEOREM TheLogCarriesTheCode == Spec => []LogCarriesTheCode
<1> DEFINE Inv == Base /\ OneOnTheWay /\ CodesInv
<1>1. Inv => LogCarriesTheCode
  <2> SUFFICES ASSUME Inv, NEW u \in Customer \ crossed, NEW i \in Instance,
                      otpStore[i][u] # 0, ~OnTheWay(u), MailsTo(i, u) # {}
               PROVE  mailLog[i][Min(MailsTo(i, u))].otp = otpStore[i][u]
    BY DEF LogCarriesTheCode
  <2>1. \A h \in Handler : ~Mailing(h, u, i)
    BY DEF OnTheWay, Mailing, Base, Handlers, RequestOK
  <2> QED
    BY <2>1 DEF CodesInv
<1>2. MessagingInit => Inv
  <2> SUFFICES ASSUME MessagingInit PROVE CodesInv
    BY BaseStarts, OneOnTheWayStarts
  <2>1. /\ otpStore = [i \in Instance |-> [u \in Customer |-> 0]]
        /\ mailLog = [i \in Instance |-> <<>>]
        /\ \A h \in Handler : at[h] = "idle"
    BY DEF MessagingInit, ListenerInit, RealtimeInit
  <2> QED
    BY <2>1 DEF CodesInv, Mailing
<1>3. Inv /\ [MessagingNext]_vars => Inv'
  BY BaseKept, OneOnTheWayKept, CodesKept
<1> QED
  BY <1>1, <1>2, <1>3, PTL DEF Spec

-------------------------------------------------------------------------------
(* Chat *)

\* Two who may meet in a chat: a customer and an administrator.
Pair(p, u) == \E a \in Admin : p = <<u, a>> \/ p = <<a, u>>

Message == [conversation : Conversation, sender : User]

\* Handlers that create a conversation of a customer, that send a message into a
\* conversation, and that send a message.
Starting(h, u) == at[h] = "chat.create" /\ req[h].target = u
Sending(h, c) == at[h] = "chat.save" /\ req[h].conversation = c
Sends(h, m) == at[h] = "chat.save" /\ req[h].message = m

\* What a handler has of the chat: the two to bring together, a conversation, a message.
Keeps(h) ==
    /\ at[h] = "chat.create" => req[h].target \in Customer /\ Pair(req[h].pair, req[h].target)
    /\ at[h] \in {"chat.find", "chat.message", "chat.save"} =>
          req[h].conversation \in DOMAIN participants
    /\ at[h] = "chat.save" =>
          /\ req[h].message \in DOMAIN messages
          /\ messages[req[h].message] = MessageDoc(req[h].conversation, req[h].user)

\* A conversation is one of a customer and an administrator, and messages are sent
\* into conversations.
ChatInv ==
    /\ DOMAIN participants \subseteq Conversation /\ DOMAIN lastMessage = DOMAIN participants
    /\ \A c \in DOMAIN participants : \E u \in Customer : Pair(participants[c], u)
    /\ messages \in Seq(Message)
    /\ \A m \in DOMAIN messages : messages[m].conversation \in DOMAIN participants
    /\ \A h \in Handler : Keeps(h)

\* lastMessage is the newest of the conversation's messages.
LastIs(c) ==
    IF MessagesOf(c) = {} THEN lastMessage[c] = 0
    ELSE lastMessage[c] \in MessagesOf(c) /\ \A m \in MessagesOf(c) : m <= lastMessage[c]

\* While one message is sent into a conversation it is the newest there.
NewestInv ==
    \A c \in DOMAIN participants \ overlapped :
        /\ \A g, h \in Handler : Sending(g, c) /\ Sending(h, c) => g = h
        /\ \A h \in Handler : Sending(h, c) => \A m \in MessagesOf(c) : m <= req[h].message
        /\ \/ \E h \in Handler : Sending(h, c)
           \/ MessagesOf(c) \cap torn # {}
           \/ LastIs(c)

\* A socket whose client was told of a chat is in the room of the chat, and the
\* client of one that is closed knows of none.
RoomsInv ==
    /\ DOMAIN rooms = Socket /\ DOMAIN begun = Socket
    /\ DOMAIN opened = Socket /\ DOMAIN known = Socket
    /\ \A s \in Socket : /\ opened[s] \subseteq begun[s] /\ begun[s] \subseteq rooms[s]
                         /\ ~isOpen(s) => rooms[s] = {}

\* With the adapter, what was sent into a chat that a client has opened has reached it.
ReadInv ==
    useRedisAdapter =>
        \A s \in Socket : \A c \in opened[s] : \A m \in MessagesOf(c) :
            m \in torn \/ m \in known[s] \/ \E h \in Handler : Sends(h, m)

\* Whom the message m is for has been alerted to it.
Alerted(m) ==
    LET pair == participants[messages[m].conversation]
        sender == messages[m].sender
    IN \A u \in {pair[1], pair[2]} \ {sender} :
          sender \in {pair[1], pair[2]} => [message |-> m, to |-> u] \in alerted

AlertInv ==
    \A m \in DOMAIN messages : m \in torn \/ Alerted(m) \/ \E h \in Handler : Sends(h, m)

\* recent lists every conversation once.
RecentInv ==
    /\ recent \in Seq(Conversation)
    /\ \A k \in DOMAIN recent : recent[k] \in DOMAIN participants
    /\ \A c \in DOMAIN participants : \E k \in DOMAIN recent : recent[k] = c
    /\ \A j, k \in DOMAIN recent : recent[j] = recent[k] => j = k

\* A customer has one conversation, or one that is being created.
OneChatInv ==
    \A u \in Customer \ doubled :
        /\ \A c, d \in DOMAIN participants : isParticipant(c, u) /\ isParticipant(d, u) => c = d
        /\ \A g, h \in Handler : Starting(g, u) /\ Starting(h, u) => g = h
        /\ (\E h \in Handler : Starting(h, u)) =>
              \A c \in DOMAIN participants : ~isParticipant(c, u)

\* The steps that leave what handlers do in the chat.
SameAt(step) == \A g \in Handler : /\ at'[g] = step <=> at[g] = step
                                   /\ at[g] = step => req'[g] = req[g]

LEMMA NewestRests ==
    ASSUME NewestInv, UNCHANGED <<participants, lastMessage, messages, overlapped, torn>>,
           SameAt("chat.save")
    PROVE  NewestInv'
<1>1. \A c : MessagesOf(c)' = MessagesOf(c)
  BY DEF MessagesOf
<1>2. \A c : LastIs(c)' <=> LastIs(c)
  BY <1>1 DEF LastIs
<1>3. \A h \in Handler : \A c : /\ Sending(h, c)' <=> Sending(h, c)
                                /\ Sending(h, c) => req'[h] = req[h]
  BY DEF Sending, SameAt
<1> QED
  BY <1>1, <1>2, <1>3 DEF NewestInv

LEMMA ReadRests ==
    ASSUME ReadInv, UNCHANGED <<messages, torn, opened, known>>, SameAt("chat.save")
    PROVE  ReadInv'
<1>1. \A c : MessagesOf(c)' = MessagesOf(c)
  BY DEF MessagesOf
<1>2. \A h \in Handler : \A m : Sends(h, m)' <=> Sends(h, m)
  BY DEF Sends, SameAt
<1> QED
  BY <1>1, <1>2 DEF ReadInv

LEMMA AlertRests ==
    ASSUME AlertInv, UNCHANGED <<participants, messages, torn, alerted>>, SameAt("chat.save")
    PROVE  AlertInv'
<1>1. \A m : Alerted(m)' <=> Alerted(m)
  BY DEF Alerted
<1>2. \A h \in Handler : \A m : Sends(h, m)' <=> Sends(h, m)
  BY DEF Sends, SameAt
<1> QED
  BY <1>1, <1>2 DEF AlertInv

LEMMA RecentRests ==
    ASSUME RecentInv, UNCHANGED <<participants, recent>>
    PROVE  RecentInv'
BY DEF RecentInv

LEMMA OneChatRests ==
    ASSUME OneChatInv, UNCHANGED <<participants, doubled>>, SameAt("chat.create")
    PROVE  OneChatInv'
<1>1. \A h \in Handler : \A u : Starting(h, u)' <=> Starting(h, u)
  BY DEF Starting, SameAt
<1>2. \A c, u : isParticipant(c, u)' <=> isParticipant(c, u)
  BY DEF isParticipant
<1> QED
  BY <1>1, <1>2 DEF OneChatInv

LEMMA RoomsRest ==
    ASSUME RoomsInv, UNCHANGED <<rooms, begun, opened, owner>>, DOMAIN known' = Socket
    PROVE  RoomsInv'
BY DEF RoomsInv, isOpen

\* What a handler keeps it keeps while conversations and messages are added.
LEMMA KeepsOn ==
    ASSUME NEW g \in Handler, Keeps(g), at'[g] = at[g], req'[g] = req[g],
           DOMAIN participants \subseteq DOMAIN participants', DOMAIN messages \subseteq DOMAIN messages',
           \A m \in DOMAIN messages : messages'[m] = messages[m]
    PROVE  Keeps(g)'
BY DEF Keeps

\* The conversations, the messages and what the handlers have of them rest.
LEMMA ChatRests ==
    ASSUME ChatInv, UNCHANGED <<participants, messages>>, DOMAIN lastMessage' = DOMAIN lastMessage,
           \A g \in Handler : Keeps(g)'
    PROVE  ChatInv'
BY DEF ChatInv

ChatVarsInv == ChatInv /\ NewestInv /\ RoomsInv /\ ReadInv /\ AlertInv /\ RecentInv /\ OneChatInv

\* Nothing of the chat moves.
ChatStands ==
    /\ UNCHANGED <<chatVars, rooms, owner>>
    /\ \A g \in Handler : /\ at'[g] \in ChatStep <=> at[g] \in ChatStep
                          /\ at[g] \in ChatStep => at'[g] = at[g] /\ req'[g] = req[g]

LEMMA StandingKeeps ==
    ASSUME ChatVarsInv, ChatStands
    PROVE  ChatVarsInv'
<1>1. /\ UNCHANGED <<participants, lastMessage, recent, messages>> /\ UNCHANGED <<alerted, known>>
      /\ UNCHANGED <<begun, opened, doubled, overlapped, torn>> /\ UNCHANGED <<rooms, owner>>
  BY DEF ChatStands, chatVars, conversations, clients, chatHistory
<1>2. \A step \in ChatStep : SameAt(step)
  BY DEF ChatStands, SameAt
<1>3. {"chat.create", "chat.find", "chat.message", "chat.save"} = ChatStep
  BY DEF ChatStep
<1>4. ASSUME NEW g \in Handler PROVE Keeps(g)'
  <2>1. CASE at[g] \in ChatStep
    BY <1>1, <2>1, KeepsOn DEF ChatStands, ChatVarsInv, ChatInv
  <2>2. CASE at[g] \notin ChatStep
    <3>1. at'[g] \notin ChatStep
      BY <2>2 DEF ChatStands
    <3> QED
      BY <1>3, <3>1 DEF Keeps
  <2> QED
    BY <2>1, <2>2
<1>5. SameAt("chat.save") /\ SameAt("chat.create")
  BY <1>2, <1>3
<1>6. ChatInv'
  BY <1>1, <1>4, ChatRests DEF ChatVarsInv
<1>7. NewestInv' /\ ReadInv' /\ AlertInv'
  BY <1>1, <1>5, NewestRests, ReadRests, AlertRests DEF ChatVarsInv
<1>8. RecentInv' /\ OneChatInv'
  BY <1>1, <1>5, RecentRests, OneChatRests DEF ChatVarsInv
<1>9. RoomsInv'
  BY <1>1, RoomsRest DEF ChatVarsInv, RoomsInv
<1> QED
  BY <1>6, <1>7, <1>8, <1>9 DEF ChatVarsInv

\* Only the chat's own steps, sockets that come and go and a death move it.
LEMMA WhoChats ==
    ASSUME Base, [MessagingNext]_vars
    PROVE  \/ ChatStands
           \/ \E h \in Handler : ChatNext(h)
           \/ \E s \in Socket, c \in Conversation : RoomNext(s, c)
           \/ \E s \in Socket, i \in Instance, token \in Token : Connect(s, i, token)
           \/ \E s \in Socket : Disconnect(s)
           \/ \E i \in Instance : Die(i)
<1>1. Handlers
  BY DEF Base
<1> DEFINE Still == \A g \in Handler : /\ at'[g] \in ChatStep <=> at[g] \in ChatStep
                                       /\ at[g] \in ChatStep => at'[g] = at[g] /\ req'[g] = req[g]
<1>2. ASSUME NEW h \in Handler, at[h] \notin ChatStep, NEW step, step \notin ChatStep, NEW r,
             Moves(h, step, r)
      PROVE  Still
  BY <1>1, <1>2, MovesAre
<1>3. ASSUME NEW h \in Handler, at[h] \notin ChatStep, NEW step, step \notin ChatStep, NEW r,
             GoTo(h, step, r)
      PROVE  Still
  BY <1>2, <1>3 DEF GoTo, Moves
<1>4. ASSUME NEW h \in Handler, at[h] \notin ChatStep, Answer(h) PROVE Still
  BY <1>3, <1>4, StepKinds DEF Answer
<1>5. ASSUME NEW h \in Handler, NEW part, NEW step, step \notin ChatStep, NEW r,
             Accept(h, part, step, r)
      PROVE  Still
  BY <1>2, <1>5, StepKinds DEF Accept, Moves
<1>6. ASSUME UNCHANGED <<at, req>> PROVE Still
  BY <1>6
<1>7. ASSUME NEW part, Serve(part) PROVE Still
  BY <1>6, <1>7 DEF Serve
<1>8. /\ {"notify.create", "broadcast.insert", "notify.mail", "listener.emit", "listener.mail",
          "listener.push", "otp.mail"} \cap ChatStep = {}
      /\ NotificationStep \cap ChatStep = {}
  BY DEF ChatStep, NotificationStep
<1> HIDE DEF Still
<1>9. ASSUME NEW h \in Handler, NotifyNext(h) PROVE Still
  <2>1. ASSUME NEW u, at[h] \notin ChatStep, NextUser(h, u) PROVE Still
    BY <1>3, <1>4, <1>8, <2>1 DEF NextUser
  <2> QED
    BY <1>3, <1>4, <1>5, <1>8, <1>9, <2>1 DEF NotifyNext, ApiNotify, NotifyAdminsOfNewOrder,
       UserRegistered, notifyAdmins, CreateNotification, SendNotificationMail, CreateRefused,
       Broadcast, CreateMany, CreateManyRefused, withAbort
<1>10. ASSUME NEW h \in Handler, ListenNext(h) PROVE Still
  BY <1>3, <1>4, <1>5, <1>8, <1>10 DEF ListenNext, approveUser, declineUser, Decide, emit, UpdateFails,
     MailDecision, EnqueuePush, EnqueueRefused, PasswordResetRequested, OtpResend, CodeDrawn,
     CodeMailed
<1>11. ASSUME NEW s \in Socket, ListUsers(s) PROVE Still /\ UNCHANGED <<chatVars, rooms, owner>>
  BY <1>7, <1>11 DEF ListUsers, PresenceList
<1>12. ASSUME NEW w, WriteGoesOn(w) PROVE Still
  BY <1>6, <1>12 DEF WriteGoesOn
<1>13. ASSUME NEW u \in User, MailboxNext(u) PROVE Still
  BY <1>7, <1>13 DEF MailboxNext, MarkRead, MarkAllRead, SoftDelete
<1>14. ASSUME NEW u, NEW i, EmailVerified(u, i) PROVE Still
  BY <1>7, <1>14 DEF EmailVerified
<1>15. ASSUME NEW k, WorkerNext(k) PROVE Still
  BY <1>6, <1>7, <1>15 DEF WorkerNext, WorkerSends, WorkerFails, WorkerCompletes, WorkerDies,
                           Unbothered
<1>16. ASSUME NEW h \in Handler, NotifyNext(h) \/ ListenNext(h)
       PROVE  UNCHANGED <<rooms, owner>>
  BY <1>16 DEF NotifyNext, ApiNotify, NotifyAdminsOfNewOrder, UserRegistered, notifyAdmins,
     CreateNotification, SendNotificationMail, CreateRefused, Broadcast, CreateMany,
     CreateManyRefused, withAbort, ListenNext, approveUser, declineUser, Decide, emit, UpdateFails,
     MailDecision,
     EnqueuePush, EnqueueRefused, PasswordResetRequested, OtpResend, CodeDrawn, CodeMailed, presence
<1>17. ASSUME \/ \E w \in writing : WriteGoesOn(w)
              \/ \E u \in User : MailboxNext(u)
              \/ \E u \in Customer, i \in Server : EmailVerified(u, i)
              \/ \E k \in DOMAIN jobs : WorkerNext(k)
       PROVE  UNCHANGED <<rooms, owner>>
  BY <1>17 DEF WriteGoesOn, MailboxNext, MarkRead, MarkAllRead, SoftDelete, EmailVerified, WorkerNext,
     WorkerSends, WorkerFails, WorkerCompletes, WorkerDies, Unbothered, presence
<1>18. CASE UNCHANGED vars
  <2>1. UNCHANGED <<chatVars, rooms, owner>> /\ UNCHANGED <<at, req>>
    BY <1>18 DEF vars, realtimeVars, presence
  <2> QED
    BY <1>6, <2>1 DEF ChatStands, Still
<1>19. ASSUME Still, UNCHANGED <<chatVars, rooms, owner>> PROVE ChatStands
  BY <1>19 DEF ChatStands, Still
<1>20. CASE MessagingNext
  BY <1>9, <1>10, <1>11, <1>12, <1>13, <1>14, <1>15, <1>16, <1>17, <1>19, <1>20
     DEF MessagingNext
<1> QED
  BY <1>18, <1>20

-------------------------------------------------------------------------------
(* Chat, action by action *)

LEMMA SameIs ==
    ASSUME Handlers, NEW h \in Handler, NEW step, NEW r, Moves(h, step, r), NEW other,
           at[h] # other, step # other
    PROVE  SameAt(other)
BY MovesAre DEF SameAt

LEMMA OthersKeep ==
    ASSUME Handlers, ChatInv, NEW h \in Handler, NEW step, NEW r, Moves(h, step, r),
           DOMAIN participants \subseteq DOMAIN participants', DOMAIN messages \subseteq DOMAIN messages',
           \A m \in DOMAIN messages : messages'[m] = messages[m]
    PROVE  \A g \in Handler \ {h} : Keeps(g)'
<1> SUFFICES ASSUME NEW g \in Handler \ {h} PROVE Keeps(g)'
  OBVIOUS
<1>1. at'[g] = at[g] /\ req'[g] = req[g]
  BY MovesAre
<1> QED
  BY <1>1, KeepsOn DEF ChatInv

\* A customer and an administrator are the two, and nobody else.
LEMMA PairIs ==
    ASSUME NEW p, NEW u \in Customer, Pair(p, u)
    PROVE  /\ p[1] = u \/ p[2] = u
           /\ \A v \in Customer : v = p[1] \/ v = p[2] => v = u
BY RealtimeAssumption DEF Pair

LEMMA Joins ==
    ASSUME RoomsInv, NEW s \in Socket, NEW c, JoinRoom(s, c), Acknowledged(s, c),
           UNCHANGED <<opened, known, owner>>
    PROVE  RoomsInv'
<1>1. CASE isOpen(s)
  <2>1. /\ rooms' = [rooms EXCEPT ![s] = @ \cup {c}] /\ begun' = [begun EXCEPT ![s] = @ \cup {c}]
    BY <1>1 DEF JoinRoom, Acknowledged
  <2> QED
    BY <1>1, <2>1 DEF RoomsInv, isOpen
<1>2. CASE ~isOpen(s)
  BY <1>2 DEF RoomsInv, isOpen, JoinRoom, Acknowledged
<1> QED
  BY <1>1, <1>2

LEMMA ChatStarted ==
    ASSUME Base, ChatVarsInv, NEW h \in Handler, NEW s \in Socket, NEW u \in Customer,
           StartConversation(h, s, u)
    PROVE  ChatVarsInv'
<1> DEFINE pair == IF isAdmin(owner[s]) THEN <<owner[s], u>> ELSE <<owner[s], getSuperAdminUser>>
           r == [RequestOn(s) EXCEPT !.target = u, !.pair = pair]
           found == findExisting(u)
<1>1. /\ UNCHANGED <<participants, lastMessage, recent, messages>> /\ UNCHANGED <<owner, alerted>>
      /\ UNCHANGED <<known, opened, overlapped, torn>>
  BY DEF StartConversation, conversations, presence
<1>2. isOpen(s) /\ (u = owner[s] \/ isAdmin(owner[s]))
  BY DEF StartConversation
<1>3. CASE Of(u) # {}
  <2>1. /\ UNCHANGED <<at, req>> /\ UNCHANGED doubled
        /\ JoinRoom(s, found) /\ Acknowledged(s, found)
    BY <1>3 DEF StartConversation, Serve
  <2> HIDE DEF found
  <2>2. \A step : SameAt(step)
    BY <2>1 DEF SameAt
  <2>3. \A g \in Handler : Keeps(g)'
    BY <1>1, <2>1 DEF ChatVarsInv, ChatInv, Keeps
  <2>4. RoomsInv'
    BY <1>1, <2>1, Joins DEF ChatVarsInv
  <2>5. ChatInv'
    BY <1>1, <2>3, ChatRests DEF ChatVarsInv
  <2> QED
    BY <1>1, <2>1, <2>2, <2>4, <2>5, NewestRests, ReadRests, AlertRests, RecentRests, OneChatRests
       DEF ChatVarsInv
<1>4. CASE Of(u) = {}
  <2>1. /\ Accept(h, "chat", "chat.create", r) /\ UNCHANGED <<rooms, begun>>
        /\ doubled' = IF \E g \in Handler : at[g] = "chat.create" /\ req[g].target = u
                      THEN doubled \cup {u} ELSE doubled
    BY <1>4 DEF StartConversation
  <2>2. Pair(pair, u)
    BY <1>2, RealtimeAssumption DEF Pair, getSuperAdminUser, isAdmin
  <2>3. r.target = u /\ r.pair = pair
    BY DEF RequestOn, NoRequest
  <2> HIDE DEF pair, r
  <2>4. Moves(h, "chat.create", r) /\ at[h] = "idle"
    BY <2>1 DEF Accept, Moves
  <2>5. /\ at'[h] = "chat.create" /\ req'[h] = r
        /\ \A g \in Handler \ {h} : at'[g] = at[g] /\ req'[g] = req[g]
    BY <2>4, MovesAre DEF Base
  <2>6. SameAt("chat.save")
    BY <2>4, SameIs DEF Base
  <2>7. Keeps(h)'
    BY <2>2, <2>3, <2>5 DEF Keeps, Pair
  <2>8. \A g \in Handler \ {h} : Keeps(g)'
    BY <1>1, <2>4, OthersKeep DEF Base, ChatVarsInv
  <2>9. ChatInv'
    BY <1>1, <2>7, <2>8, ChatRests DEF ChatVarsInv
  <2>10. RoomsInv'
    BY <1>1, <2>1, RoomsRest DEF ChatVarsInv, RoomsInv
  <2>11. OneChatInv'
    <3>1. \A g \in Handler \ {h} : \A v : Starting(g, v)' <=> Starting(g, v)
      BY <2>5 DEF Starting
    <3>2. \A v : /\ Starting(h, v)' <=> v = u
                 /\ ~Starting(h, v)
      BY <2>3, <2>4, <2>5 DEF Starting
    <3>3. \A c, v : isParticipant(c, v)' <=> isParticipant(c, v)
      BY <1>1 DEF isParticipant
    <3>4. \A c \in DOMAIN participants : ~isParticipant(c, u)
      BY <1>4 DEF Of, ChatVarsInv, RecentInv
    <3>5. /\ doubled \subseteq doubled'
          /\ u \notin doubled' => \A g \in Handler : ~Starting(g, u)
      BY <2>1 DEF Starting
    <3>6. ASSUME NEW v \in Customer \ doubled'
          PROVE  /\ \A c, d \in DOMAIN participants' : isParticipant(c, v)' /\ isParticipant(d, v)' => c = d
                 /\ \A f, g \in Handler : Starting(f, v)' /\ Starting(g, v)' => f = g
                 /\ (\E g \in Handler : Starting(g, v)') =>
                       \A c \in DOMAIN participants' : ~isParticipant(c, v)'
      <4>1. CASE v = u
        BY <1>1, <3>1, <3>2, <3>3, <3>4, <3>5, <4>1
      <4>2. CASE v # u
        <5>1. v \in Customer \ doubled /\ \A g \in Handler : Starting(g, v)' <=> Starting(g, v)
          BY <3>1, <3>2, <3>5, <4>2
        <5> QED
          BY <1>1, <3>3, <5>1 DEF ChatVarsInv, OneChatInv
      <4> QED
        BY <4>1, <4>2
    <3> QED
      BY <3>6 DEF OneChatInv
  <2> QED
    BY <1>1, <2>6, <2>9, <2>10, <2>11, NewestRests, ReadRests, AlertRests, RecentRests DEF ChatVarsInv
<1> QED
  BY <1>3, <1>4

LEMMA ChatCreated ==
    ASSUME Base, ChatVarsInv, NEW h \in Handler, NEW c \in Conversation, CreateConversation(h, c)
    PROVE  ChatVarsInv'
<1> DEFINE u == req[h].target
           pair == req[h].pair
           r == [req[h] EXCEPT !.conversation = c]
<1>1. /\ at[h] = "chat.create" /\ c \notin DOMAIN participants /\ GoTo(h, "chat.find", r)
      /\ recent' = <<c>> \o recent
      /\ UNCHANGED <<owner, rooms, messages, alerted>> /\ UNCHANGED <<known, begun, opened>>
      /\ UNCHANGED <<doubled, overlapped, torn>>
  BY DEF CreateConversation, presence, clients, chatHistory
<1>2. participants' = with(participants, c, pair) /\ lastMessage' = with(lastMessage, c, 0)
  BY DEF CreateConversation, ConversationDoc
<1>3. /\ DOMAIN participants' = DOMAIN participants \cup {c} /\ participants'[c] = pair
      /\ \A d \in DOMAIN participants : participants'[d] = participants[d]
      /\ DOMAIN lastMessage' = DOMAIN participants' /\ lastMessage'[c] = 0
      /\ \A d \in DOMAIN participants : lastMessage'[d] = lastMessage[d]
  BY <1>1, <1>2 DEF with, ChatVarsInv, ChatInv
<1>4. u \in Customer /\ Pair(pair, u)
  BY <1>1 DEF ChatVarsInv, ChatInv, Keeps
<1>5. DOMAIN req[h] = Fields
  BY DEF Base, Handlers, RequestOK
<1>6. r.conversation = c
  BY <1>5 DEF Fields
<1> HIDE DEF r
<1>7. Moves(h, "chat.find", r)
  BY <1>1 DEF GoTo, Moves
<1>8. /\ at'[h] = "chat.find" /\ req'[h] = r
      /\ \A g \in Handler \ {h} : at'[g] = at[g] /\ req'[g] = req[g]
  BY <1>7, MovesAre DEF Base
<1>9. SameAt("chat.save")
  BY <1>1, <1>7, SameIs DEF Base
<1>10. ChatInv'
  <2>1. Keeps(h)'
    BY <1>3, <1>6, <1>8 DEF Keeps
  <2>2. \A g \in Handler \ {h} : Keeps(g)'
    BY <1>1, <1>3, <1>7, OthersKeep DEF Base, ChatVarsInv
  <2>3. \A d \in DOMAIN participants' : \E v \in Customer : Pair(participants'[d], v)
    BY <1>3, <1>4 DEF ChatVarsInv, ChatInv
  <2>4. /\ DOMAIN participants' \subseteq Conversation /\ messages' \in Seq(Message)
        /\ \A m \in DOMAIN messages' : messages'[m].conversation \in DOMAIN participants'
    BY <1>1, <1>3 DEF ChatVarsInv, ChatInv
  <2> QED
    BY <1>3, <2>1, <2>2, <2>3, <2>4 DEF ChatInv, Pair, Message
<1>11. NewestInv'
  <2>1. \A d : MessagesOf(d)' = MessagesOf(d)
    BY <1>1 DEF MessagesOf
  <2>2. \A g \in Handler : \A d : /\ Sending(g, d)' <=> Sending(g, d)
                                  /\ Sending(g, d) => req'[g] = req[g]
    BY <1>9 DEF Sending, SameAt
  <2>3. MessagesOf(c) = {} /\ \A g \in Handler : ~Sending(g, c)
    BY <1>1 DEF MessagesOf, Sending, ChatVarsInv, ChatInv, Keeps
  <2>4. LastIs(c)'
    BY <1>3, <2>1, <2>3 DEF LastIs
  <2>5. \A d \in DOMAIN participants : LastIs(d)' <=> LastIs(d)
    BY <1>3, <2>1 DEF LastIs
  <2>6. ASSUME NEW d \in DOMAIN participants' \ overlapped'
        PROVE  /\ \A f, g \in Handler : Sending(f, d)' /\ Sending(g, d)' => f = g
               /\ \A g \in Handler : Sending(g, d)' => \A m \in MessagesOf(d)' : m <= req'[g].message
               /\ \/ \E g \in Handler : Sending(g, d)'
                  \/ MessagesOf(d)' \cap torn' # {}
                  \/ LastIs(d)'
    <3>1. CASE d = c
      BY <2>2, <2>3, <2>4, <3>1
    <3>2. CASE d # c
      <4>1. d \in DOMAIN participants \ overlapped
        BY <1>1, <1>3, <3>2
      <4> QED
        BY <1>1, <2>1, <2>2, <2>5, <4>1 DEF ChatVarsInv, NewestInv
    <3> QED
      BY <3>1, <3>2
  <2> QED
    BY <2>6 DEF NewestInv
<1>12. RoomsInv'
  BY <1>1, RoomsRest DEF ChatVarsInv, RoomsInv
<1>13. ReadInv'
  BY <1>1, <1>9, ReadRests DEF ChatVarsInv
<1>14. AlertInv'
  <2>1. \A m \in DOMAIN messages : Alerted(m)' <=> Alerted(m)
    BY <1>1, <1>3 DEF Alerted, ChatVarsInv, ChatInv
  <2>2. \A g \in Handler : \A m : Sends(g, m)' <=> Sends(g, m)
    BY <1>9 DEF Sends, SameAt
  <2> QED
    BY <1>1, <2>1, <2>2 DEF AlertInv, ChatVarsInv
<1>15. RecentInv'
  <2>1. recent \in Seq(Conversation)
    BY DEF ChatVarsInv, RecentInv
  <2>2. /\ recent' \in Seq(Conversation) /\ Len(recent') = Len(recent) + 1
        /\ recent'[1] = c /\ \A k \in 1..Len(recent) : recent'[k + 1] = recent[k]
    BY <1>1, <2>1
  <2>3. DOMAIN recent = 1..Len(recent) /\ DOMAIN recent' = 1..Len(recent') /\ Len(recent) \in Nat
    BY <2>1, <2>2
  <2>4. \A k \in DOMAIN recent' : k # 1 => k - 1 \in DOMAIN recent /\ recent'[k] = recent[k - 1]
    <3> SUFFICES ASSUME NEW k \in DOMAIN recent', k # 1
                 PROVE  k - 1 \in DOMAIN recent /\ recent'[k] = recent[k - 1]
      OBVIOUS
    <3>1. k - 1 \in 1..Len(recent) /\ (k - 1) + 1 = k
      BY <2>2, <2>3
    <3> QED
      BY <2>2, <2>3, <3>1
  <2>5. \A k \in DOMAIN recent : recent[k] \in DOMAIN participants
    BY DEF ChatVarsInv, RecentInv
  <2>6. \A k \in DOMAIN recent' : recent'[k] \in DOMAIN participants'
    BY <1>3, <2>2, <2>4, <2>5
  <2>7. ASSUME NEW d \in DOMAIN participants' PROVE \E k \in DOMAIN recent' : recent'[k] = d
    <3>1. CASE d = c
      BY <2>2, <2>3, <3>1
    <3>2. CASE d # c
      <4>1. PICK k \in DOMAIN recent : recent[k] = d
        BY <1>3, <3>2 DEF ChatVarsInv, RecentInv
      <4>2. k + 1 \in DOMAIN recent' /\ recent'[k + 1] = d
        BY <2>2, <2>3, <4>1
      <4> QED
        BY <4>2
    <3> QED
      BY <3>1, <3>2
  <2>8. ASSUME NEW j \in DOMAIN recent', NEW k \in DOMAIN recent', recent'[j] = recent'[k]
        PROVE  j = k
    <3>1. CASE j = 1 \/ k = 1
      BY <1>1, <2>2, <2>4, <2>5, <2>8, <3>1
    <3>2. CASE j # 1 /\ k # 1
      <4>1. /\ j - 1 \in DOMAIN recent /\ k - 1 \in DOMAIN recent
            /\ recent[j - 1] = recent[k - 1]
        BY <2>4, <2>8, <3>2
      <4>2. j - 1 = k - 1
        BY <4>1 DEF ChatVarsInv, RecentInv
      <4> QED
        BY <2>3, <4>2
    <3> QED
      BY <3>1, <3>2
  <2> QED
    BY <2>2, <2>6, <2>7, <2>8 DEF RecentInv
<1>16. OneChatInv'
  <2>1. \A g \in Handler \ {h} : \A v : Starting(g, v)' <=> Starting(g, v)
    BY <1>8 DEF Starting
  <2>2. Starting(h, u) /\ \A v : ~Starting(h, v)'
    BY <1>1, <1>8 DEF Starting
  <2>3. \A d \in DOMAIN participants : \A v : isParticipant(d, v)' <=> isParticipant(d, v)
    BY <1>3 DEF isParticipant
  <2>4. \A v \in Customer : isParticipant(c, v)' => v = u
    BY <1>3, <1>4, PairIs DEF isParticipant
  <2>5. ASSUME NEW v \in Customer \ doubled'
        PROVE  /\ \A d, e \in DOMAIN participants' : isParticipant(d, v)' /\ isParticipant(e, v)' => d = e
               /\ \A f, g \in Handler : Starting(f, v)' /\ Starting(g, v)' => f = g
               /\ (\E g \in Handler : Starting(g, v)') =>
                     \A d \in DOMAIN participants' : ~isParticipant(d, v)'
    <3>1. /\ \A d, e \in DOMAIN participants : isParticipant(d, v) /\ isParticipant(e, v) => d = e
          /\ \A f, g \in Handler : Starting(f, v) /\ Starting(g, v) => f = g
          /\ (\E g \in Handler : Starting(g, v)) => \A d \in DOMAIN participants : ~isParticipant(d, v)
      BY <1>1 DEF ChatVarsInv, OneChatInv
    <3>2. CASE v = u
      BY <1>3, <2>1, <2>2, <2>3, <3>1, <3>2
    <3>3. CASE v # u
      BY <1>3, <2>1, <2>2, <2>3, <2>4, <3>1, <3>3
    <3> QED
      BY <3>2, <3>3
  <2> QED
    BY <2>5 DEF OneChatInv
<1> QED
  BY <1>10, <1>11, <1>12, <1>13, <1>14, <1>15, <1>16 DEF ChatVarsInv

\* A handler answers, or goes on to create a message: no conversation is started or sent into.
LEMMA ChatFound ==
    ASSUME Base, ChatVarsInv, NEW h \in Handler, FindCreated(h)
    PROVE  ChatVarsInv'
<1>1. /\ UNCHANGED <<participants, lastMessage, recent, messages>> /\ UNCHANGED <<owner, alerted>>
      /\ UNCHANGED <<known, opened, doubled, overlapped, torn>>
      /\ at[h] = "chat.find" /\ Answer(h)
      /\ JoinRoom(req[h].socket, req[h].conversation)
      /\ Acknowledged(req[h].socket, req[h].conversation)
  BY DEF FindCreated, conversations, presence, chatHistory
<1>2. Moves(h, "idle", NoRequest)
  BY <1>1 DEF Answer, GoTo, Moves
<1>3. SameAt("chat.save") /\ SameAt("chat.create")
  BY <1>1, <1>2, SameIs DEF Base
<1>4. Keeps(h)'
  BY <1>2, MovesAre DEF Base, Keeps
<1>5. \A g \in Handler \ {h} : Keeps(g)'
  BY <1>1, <1>2, OthersKeep DEF Base, ChatVarsInv
<1>6. ChatInv'
  BY <1>1, <1>4, <1>5, ChatRests DEF ChatVarsInv
<1>7. req[h].socket \in Socket
  <2>1. at[h] \in ChatStep /\ RequestOK(at[h], req[h])
    BY <1>1 DEF Base, Handlers, ChatStep
  <2> QED
    BY <2>1 DEF RequestOK
<1>8. RoomsInv'
  BY <1>1, <1>7, Joins DEF ChatVarsInv
<1> QED
  BY <1>1, <1>3, <1>6, <1>8, NewestRests, ReadRests, AlertRests, RecentRests, OneChatRests
     DEF ChatVarsInv

LEMMA ChatSent ==
    ASSUME Base, ChatVarsInv, NEW h \in Handler, NEW s \in Socket, NEW c \in Conversation,
           SendMessage(h, s, c)
    PROVE  ChatVarsInv'
<1> DEFINE r == [RequestOn(s) EXCEPT !.conversation = c]
<1>1. /\ UNCHANGED <<participants, lastMessage, recent, messages>> /\ UNCHANGED <<owner, rooms, alerted>>
      /\ UNCHANGED <<known, begun, opened>> /\ UNCHANGED <<doubled, overlapped, torn>>
      /\ c \in DOMAIN participants /\ Accept(h, "chat", "chat.message", r)
  BY DEF SendMessage, presence, chatVars, conversations, clients, chatHistory
<1>2. r.conversation = c
  BY DEF RequestOn, NoRequest
<1> HIDE DEF r
<1>3. at[h] = "idle" /\ Moves(h, "chat.message", r)
  BY <1>1 DEF Accept, Moves
<1>4. SameAt("chat.save") /\ SameAt("chat.create")
  BY <1>3, SameIs DEF Base
<1>5. Keeps(h)'
  BY <1>1, <1>2, <1>3, MovesAre DEF Base, Keeps
<1>6. \A g \in Handler \ {h} : Keeps(g)'
  BY <1>1, <1>3, OthersKeep DEF Base, ChatVarsInv
<1>7. ChatInv'
  BY <1>1, <1>5, <1>6, ChatRests DEF ChatVarsInv
<1>8. RoomsInv'
  BY <1>1, RoomsRest DEF ChatVarsInv, RoomsInv
<1> QED
  BY <1>1, <1>4, <1>7, <1>8, NewestRests, ReadRests, AlertRests, RecentRests, OneChatRests
     DEF ChatVarsInv

\* A message is numbered after all others, and is on its way.
LEMMA ChatWritten ==
    ASSUME Base, ChatVarsInv, NEW h \in Handler, CreateMessage(h)
    PROVE  ChatVarsInv'
<1> DEFINE c == req[h].conversation
           n == Len(messages) + 1
           doc == MessageDoc(c, req[h].user)
           r == [req[h] EXCEPT !.message = n]
<1>1. /\ at[h] = "chat.message" /\ messages' = Append(messages, doc) /\ GoTo(h, "chat.save", r)
      /\ UNCHANGED <<owner, rooms, participants, lastMessage>> /\ UNCHANGED <<recent, alerted>>
      /\ UNCHANGED <<known, begun, opened>> /\ UNCHANGED <<doubled, torn>>
  BY DEF CreateMessage, presence, clients
<1>2. overlapped' = IF {g \in Handler \ {h} : Sending(g, c)} # {} THEN overlapped \cup {c}
                    ELSE overlapped
  BY DEF CreateMessage, Sending
<1>3. c \in DOMAIN participants
  BY <1>1 DEF ChatVarsInv, ChatInv, Keeps
<1>4. DOMAIN req[h] = Fields /\ req[h].user \in User
  <2>1. at[h] \in ChatStep /\ RequestOK(at[h], req[h])
    BY <1>1 DEF Base, Handlers, ChatStep
  <2> QED
    BY <2>1 DEF RequestOK
<1>5. r.message = n /\ r.conversation = c /\ r.user = req[h].user
  BY <1>4 DEF Fields
<1>6. doc \in Message /\ doc.conversation = c /\ doc.sender = req[h].user
  BY <1>3, <1>4 DEF Message, MessageDoc, ChatVarsInv, ChatInv
<1> HIDE DEF r
<1>7. Moves(h, "chat.save", r)
  BY <1>1 DEF GoTo, Moves
<1>8. /\ at'[h] = "chat.save" /\ req'[h] = r
      /\ \A g \in Handler \ {h} : at'[g] = at[g] /\ req'[g] = req[g]
  BY <1>7, MovesAre DEF Base
<1>9. messages \in Seq(Message)
  BY DEF ChatVarsInv, ChatInv
<1>10. req'[h].user = req[h].user /\ req'[h].conversation = c
  BY <1>5, <1>8
<1>11. doc = MessageDoc(c, req'[h].user)
  BY <1>10
<1> HIDE DEF doc
<1>12. /\ messages' \in Seq(Message) /\ messages'[n] = doc /\ n \notin DOMAIN messages
       /\ DOMAIN messages' = DOMAIN messages \cup {n} /\ DOMAIN messages \subseteq Nat /\ n \in Nat
       /\ \A m \in DOMAIN messages : messages'[m] = messages[m] /\ m < n
  BY <1>1, <1>6, <1>9
<1> HIDE DEF n
<1>13. \A d : /\ d = c => MessagesOf(d)' = MessagesOf(d) \cup {n}
              /\ d # c => MessagesOf(d)' = MessagesOf(d)
              /\ MessagesOf(d) \subseteq DOMAIN messages
  <2>1. \A d : MessagesOf(d)' = {m \in DOMAIN messages' : messages'[m].conversation = d}
    BY DEF MessagesOf
  <2>2. \A d : MessagesOf(d) = {m \in DOMAIN messages : messages[m].conversation = d}
    BY DEF MessagesOf
  <2>3. messages'[n].conversation = c
    BY <1>6, <1>12
  <2> HIDE DEF c
  <2> SUFFICES ASSUME NEW d
               PROVE  /\ d = c => MessagesOf(d)' = MessagesOf(d) \cup {n}
                      /\ d # c => MessagesOf(d)' = MessagesOf(d)
                      /\ MessagesOf(d) \subseteq DOMAIN messages
    OBVIOUS
  <2>4. MessagesOf(d)' = {m \in DOMAIN messages' : messages'[m].conversation = d}
    BY <2>1
  <2>5. MessagesOf(d) = {m \in DOMAIN messages : messages[m].conversation = d}
    BY <2>2
  <2> QED
    BY <1>12, <2>3, <2>4, <2>5
<1> HIDE DEF c
<1>14. ChatInv'
  <2>1. Keeps(h)'
    BY <1>1, <1>3, <1>5, <1>8, <1>10, <1>11, <1>12 DEF Keeps
  <2>2. \A g \in Handler \ {h} : Keeps(g)'
    BY <1>1, <1>7, <1>12, OthersKeep DEF Base, ChatVarsInv
  <2>3. \A m \in DOMAIN messages' : messages'[m].conversation \in DOMAIN participants'
    BY <1>1, <1>3, <1>6, <1>12 DEF ChatVarsInv, ChatInv
  <2>4. /\ DOMAIN participants' \subseteq Conversation /\ DOMAIN lastMessage' = DOMAIN participants'
        /\ \A d \in DOMAIN participants' : \E u \in Customer : Pair(participants'[d], u)
    BY <1>1 DEF ChatVarsInv, ChatInv
  <2> QED
    BY <1>12, <2>1, <2>2, <2>3, <2>4 DEF ChatInv, Message, Pair
<1>15. \A g \in Handler \ {h} : \A x : /\ Sending(g, x)' <=> Sending(g, x)
                                       /\ Sends(g, x)' <=> Sends(g, x)
  BY <1>8 DEF Sending, Sends
<1>16. \A x : /\ Sending(h, x)' <=> x = c
              /\ Sends(h, x)' <=> x = n
              /\ ~Sending(h, x) /\ ~Sends(h, x)
  BY <1>1, <1>5, <1>8 DEF Sending, Sends
<1>17. NewestInv'
  <2>1. ASSUME NEW d \in DOMAIN participants' \ overlapped'
        PROVE  /\ \A f, g \in Handler : Sending(f, d)' /\ Sending(g, d)' => f = g
               /\ \A g \in Handler : Sending(g, d)' => \A m \in MessagesOf(d)' : m <= req'[g].message
               /\ \/ \E g \in Handler : Sending(g, d)'
                  \/ MessagesOf(d)' \cap torn' # {}
                  \/ LastIs(d)'
    <3>1. d \in DOMAIN participants \ overlapped
      BY <1>1, <1>2, <2>1
    <3>2. CASE d = c
      <4>1. \A g \in Handler \ {h} : ~Sending(g, d)
        BY <1>2, <2>1, <3>2
      <4>2. \A m \in MessagesOf(d)' : m <= n
        BY <1>12, <1>13, <3>2
      <4>3. \A g \in Handler : Sending(g, d)' <=> g = h
        BY <1>15, <1>16, <3>2, <4>1
      <4>4. req'[h].message = n
        BY <1>5, <1>8
      <4> QED
        BY <4>2, <4>3, <4>4
    <3>3. CASE d # c
      <4>1. \A g \in Handler : Sending(g, d)' <=> Sending(g, d)
        BY <1>15, <1>16, <3>3
      <4>2. \A g \in Handler : Sending(g, d) => req'[g] = req[g]
        BY <1>8, <1>16
      <4>3. LastIs(d)' <=> LastIs(d)
        BY <1>1, <1>13, <3>3 DEF LastIs
      <4> QED
        BY <1>1, <1>13, <3>1, <3>3, <4>1, <4>2, <4>3 DEF ChatVarsInv, NewestInv
    <3> QED
      BY <3>2, <3>3
  <2> QED
    BY <2>1 DEF NewestInv
<1>18. ReadInv'
  <2>1. ASSUME useRedisAdapter, NEW s \in Socket, NEW d \in opened'[s], NEW m \in MessagesOf(d)'
        PROVE  m \in torn' \/ m \in known'[s] \/ \E g \in Handler : Sends(g, m)'
    <3>1. CASE m = n
      BY <1>16, <3>1
    <3>2. CASE m # n
      <4>1. m \in MessagesOf(d) /\ d \in opened[s]
        <5>1. opened' = opened
          BY <1>1
        <5>2. m \in MessagesOf(d)
          BY <1>13, <3>2
        <5> QED
          BY <5>1, <5>2
      <4>2. m \in torn \/ m \in known[s] \/ \E g \in Handler : Sends(g, m)
        BY <2>1, <4>1 DEF ChatVarsInv, ReadInv
      <4> QED
        BY <1>1, <1>15, <1>16, <4>2
    <3> QED
      BY <3>1, <3>2
  <2> QED
    BY <2>1 DEF ReadInv
<1>19. AlertInv'
  <2>1. ASSUME NEW m \in DOMAIN messages'
        PROVE  m \in torn' \/ Alerted(m)' \/ \E g \in Handler : Sends(g, m)'
    <3>1. CASE m = n
      BY <1>16, <3>1
    <3>2. CASE m # n
      <4>1. m \in DOMAIN messages /\ messages'[m] = messages[m]
        BY <1>12, <3>2
      <4>2. Alerted(m)' <=> Alerted(m)
        BY <1>1, <4>1 DEF Alerted
      <4>3. m \in torn \/ Alerted(m) \/ \E g \in Handler : Sends(g, m)
        BY <4>1 DEF ChatVarsInv, AlertInv
      <4> QED
        BY <1>1, <1>15, <1>16, <4>2, <4>3
    <3> QED
      BY <3>1, <3>2
  <2> QED
    BY <2>1 DEF AlertInv
<1>20. SameAt("chat.create")
  BY <1>1, <1>7, SameIs DEF Base
<1>21. RoomsInv'
  BY <1>1, RoomsRest DEF ChatVarsInv, RoomsInv
<1> QED
  BY <1>1, <1>14, <1>17, <1>18, <1>19, <1>20, <1>21, RecentRests, OneChatRests DEF ChatVarsInv

\* c goes to the front, and the others keep their order.
LEMMA ForemostIs ==
    ASSUME RecentInv, NEW c \in DOMAIN participants, recent' = Foremost(c),
           participants' = participants
    PROVE  RecentInv'
<1> DEFINE p == CHOOSE k \in DOMAIN recent : recent[k] = c
<1>1. p \in DOMAIN recent /\ recent[p] = c
  BY DEF RecentInv
<1>2. recent' = [k \in DOMAIN recent |-> IF k = 1 THEN c ELSE IF k <= p THEN recent[k - 1] ELSE recent[k]]
  BY DEF Foremost
<1> HIDE DEF p
<1>3. /\ recent \in Seq(Conversation) /\ Len(recent) \in Nat /\ DOMAIN recent = 1..Len(recent)
      /\ c \in Conversation
  BY <1>1 DEF RecentInv
<1>4. /\ DOMAIN recent' = DOMAIN recent
      /\ \A k \in DOMAIN recent :
            recent'[k] = IF k = 1 THEN c ELSE IF k <= p THEN recent[k - 1] ELSE recent[k]
  BY <1>2
<1> DEFINE from(k) == IF k = 1 THEN p ELSE IF k <= p THEN k - 1 ELSE k
<1>5. \A k \in DOMAIN recent : from(k) \in DOMAIN recent /\ recent'[k] = recent[from(k)]
  BY <1>1, <1>3, <1>4
<1>6. recent' \in Seq(Conversation)
  <2>1. recent' = [k \in 1..Len(recent) |-> recent'[k]]
    BY <1>2, <1>3
  <2>2. \A k \in 1..Len(recent) : recent'[k] \in Conversation
    BY <1>3, <1>5
  <2> QED
    BY <1>3, <2>1, <2>2
<1>7. \A j, k \in DOMAIN recent : from(j) = from(k) => j = k
  BY <1>1, <1>3
<1>8. ASSUME NEW x \in DOMAIN recent PROVE \E k \in DOMAIN recent : from(k) = x
  <2>1. CASE x = p
    <3>1. 1 \in DOMAIN recent /\ from(1) = p
      BY <1>1, <1>3
    <3> QED
      BY <2>1, <3>1
  <2>2. CASE x < p
    <3>1. x + 1 \in DOMAIN recent /\ from(x + 1) = x
      BY <1>1, <1>3, <2>2
    <3> QED
      BY <3>1
  <2>3. CASE x > p
    <3>1. from(x) = x
      BY <1>1, <1>3, <2>3
    <3> QED
      BY <3>1
  <2> QED
    BY <1>1, <1>3, <2>1, <2>2, <2>3
<1> HIDE DEF from
<1>9. \A k \in DOMAIN recent' : recent'[k] \in DOMAIN participants'
  BY <1>4, <1>5 DEF RecentInv
<1>10. ASSUME NEW d \in DOMAIN participants' PROVE \E k \in DOMAIN recent' : recent'[k] = d
  <2>1. PICK x \in DOMAIN recent : recent[x] = d
    BY DEF RecentInv
  <2>2. PICK k \in DOMAIN recent : from(k) = x
    BY <1>8
  <2> QED
    BY <1>4, <1>5, <2>1, <2>2
<1>11. \A j, k \in DOMAIN recent' : recent'[j] = recent'[k] => j = k
  BY <1>4, <1>5, <1>7 DEF RecentInv
<1> QED
  BY <1>6, <1>9, <1>10, <1>11 DEF RecentInv

\* Whoever sends goes on, or its message is known to be torn.
DropsTorn ==
    \A g \in Handler : /\ at'[g] = "chat.save" => at[g] = "chat.save" /\ req'[g] = req[g]
                       /\ at[g] = "chat.save" => at'[g] = "chat.save" \/ req[g].message \in torn'

LEMMA NewestDrops ==
    ASSUME ChatInv, NewestInv, UNCHANGED <<participants, lastMessage, messages, overlapped>>,
           torn \subseteq torn', DropsTorn
    PROVE  NewestInv'
<1>1. \A d : MessagesOf(d)' = MessagesOf(d)
  BY DEF MessagesOf
<1>2. \A d : LastIs(d)' <=> LastIs(d)
  BY <1>1 DEF LastIs
<1>3. \A g \in Handler : \A d : Sending(g, d)' => Sending(g, d) /\ req'[g] = req[g]
  BY DEF Sending, DropsTorn
<1>4. ASSUME NEW g \in Handler, NEW d, Sending(g, d)
      PROVE  Sending(g, d)' \/ MessagesOf(d) \cap torn' # {}
  <2>1. CASE at'[g] = "chat.save"
    BY <1>4, <2>1 DEF Sending, DropsTorn
  <2>2. CASE req[g].message \in torn'
    <3>1. req[g].message \in MessagesOf(d)
      <4>1. Keeps(g) /\ at[g] = "chat.save" /\ req[g].conversation = d
        BY <1>4 DEF Sending, ChatInv
      <4>2. /\ req[g].message \in DOMAIN messages
            /\ messages[req[g].message] = MessageDoc(d, req[g].user)
        BY <4>1 DEF Keeps
      <4> QED
        BY <4>2 DEF MessagesOf, MessageDoc
    <3> QED
      BY <2>2, <3>1
  <2> QED
    BY <1>4, <2>1, <2>2 DEF Sending, DropsTorn
<1>5. ASSUME NEW d \in DOMAIN participants' \ overlapped'
      PROVE  /\ \A f, g \in Handler : Sending(f, d)' /\ Sending(g, d)' => f = g
             /\ \A g \in Handler : Sending(g, d)' => \A m \in MessagesOf(d)' : m <= req'[g].message
             /\ \/ \E g \in Handler : Sending(g, d)'
                \/ MessagesOf(d)' \cap torn' # {}
                \/ LastIs(d)'
  <2>1. /\ \A f, g \in Handler : Sending(f, d) /\ Sending(g, d) => f = g
        /\ \A g \in Handler : Sending(g, d) => \A m \in MessagesOf(d) : m <= req[g].message
        /\ \/ \E g \in Handler : Sending(g, d)
           \/ MessagesOf(d) \cap torn # {}
           \/ LastIs(d)
    BY DEF NewestInv
  <2>2. MessagesOf(d)' = MessagesOf(d) /\ (LastIs(d)' <=> LastIs(d))
    BY <1>1, <1>2
  <2>3. \/ \E g \in Handler : Sending(g, d)'
        \/ MessagesOf(d)' \cap torn' # {}
        \/ LastIs(d)'
    BY <1>4, <2>1, <2>2
  <2> QED
    BY <1>3, <2>1, <2>2, <2>3
<1> QED
  BY <1>5 DEF NewestInv

LEMMA ReadDrops ==
    ASSUME ReadInv, UNCHANGED messages, torn \subseteq torn', DropsTorn,
           \A s \in Socket : \/ opened'[s] = {}
                             \/ opened'[s] \subseteq opened[s] /\ known'[s] = known[s]
    PROVE  ReadInv'
<1>1. \A d : MessagesOf(d)' = MessagesOf(d)
  BY DEF MessagesOf
<1>2. \A g \in Handler, m \in DOMAIN messages : Sends(g, m) => Sends(g, m)' \/ m \in torn'
  BY DEF Sends, DropsTorn
<1>3. ASSUME useRedisAdapter, NEW s \in Socket, NEW d \in opened'[s], NEW m \in MessagesOf(d)'
      PROVE  m \in torn' \/ m \in known'[s] \/ \E g \in Handler : Sends(g, m)'
  <2>1. d \in opened[s] /\ known'[s] = known[s] /\ m \in MessagesOf(d) /\ m \in DOMAIN messages
    BY <1>1 DEF MessagesOf
  <2>2. m \in torn \/ m \in known[s] \/ \E g \in Handler : Sends(g, m)
    BY <1>3, <2>1 DEF ReadInv
  <2> QED
    BY <1>2, <2>1, <2>2
<1> QED
  BY <1>3 DEF ReadInv

LEMMA AlertDrops ==
    ASSUME AlertInv, UNCHANGED <<participants, messages, alerted>>, torn \subseteq torn', DropsTorn
    PROVE  AlertInv'
<1>1. \A m : Alerted(m)' <=> Alerted(m)
  BY DEF Alerted
<1>2. \A g \in Handler, m \in DOMAIN messages : Sends(g, m) => Sends(g, m)' \/ m \in torn'
  BY DEF Sends, DropsTorn
<1> QED
  BY <1>1, <1>2 DEF AlertInv

LEMMA OneChatDrops ==
    ASSUME OneChatInv, UNCHANGED <<participants, doubled>>,
           \A g \in Handler : at'[g] = "chat.create" => at[g] = "chat.create" /\ req'[g] = req[g]
    PROVE  OneChatInv'
<1>1. \A h \in Handler : \A u : Starting(h, u)' => Starting(h, u)
  BY DEF Starting
<1>2. \A c, u : isParticipant(c, u)' <=> isParticipant(c, u)
  BY DEF isParticipant
<1> QED
  BY <1>1, <1>2 DEF OneChatInv

\* The message is written into its conversation, and out.
LEMMA ChatSaved ==
    ASSUME Base, ChatVarsInv, NEW h \in Handler, SaveConversation(h)
    PROVE  ChatVarsInv'
<1> SUFFICES ASSUME NEW c, c = req[h].conversation, NEW n, n = req[h].message,
                    NEW heard, heard = Audience(c, req[h].instance),
                    NEW to, to = recipient(c, req[h].user)
             PROVE  ChatVarsInv'
  OBVIOUS
<1>1. /\ at[h] = "chat.save" /\ lastMessage' = [lastMessage EXCEPT ![c] = n]
      /\ recent' = Foremost(c) /\ Answer(h)
      /\ known' = [s \in Socket |-> IF s \in heard THEN known[s] \cup {n} ELSE known[s]]
      /\ alerted' = alerted \cup {[message |-> n, to |-> to]}
      /\ UNCHANGED <<owner, rooms, participants, messages>>
      /\ UNCHANGED <<begun, opened>> /\ UNCHANGED <<doubled, overlapped, torn>>
  BY DEF SaveConversation, lastMessageOf, presence, chatHistory
<1>2. Moves(h, "idle", NoRequest)
  BY <1>1 DEF Answer, GoTo, Moves
<1>3. /\ at'[h] = "idle" /\ \A g \in Handler \ {h} : at'[g] = at[g] /\ req'[g] = req[g]
  BY <1>2, MovesAre DEF Base
<1>4. c \in DOMAIN participants /\ n \in DOMAIN messages /\ messages[n] = MessageDoc(c, req[h].user)
  BY <1>1 DEF ChatVarsInv, ChatInv, Keeps
<1>5. messages[n].conversation = c /\ messages[n].sender = req[h].user
  BY <1>4 DEF MessageDoc
<1>6. \A d : MessagesOf(d)' = MessagesOf(d)
  BY <1>1 DEF MessagesOf
<1>7. \A g \in Handler \ {h} : \A x : /\ Sending(g, x)' <=> Sending(g, x)
                                      /\ Sends(g, x)' <=> Sends(g, x)
  BY <1>3 DEF Sending, Sends
<1>8. \A x : /\ ~Sending(h, x)' /\ ~Sends(h, x)'
             /\ Sending(h, x) <=> x = c
             /\ Sends(h, x) <=> x = n
  BY <1>1, <1>3 DEF Sending, Sends
<1>9. ChatInv'
  <2>1. Keeps(h)'
    BY <1>3 DEF Keeps
  <2>2. \A g \in Handler \ {h} : Keeps(g)'
    BY <1>1, <1>2, OthersKeep DEF Base, ChatVarsInv
  <2> QED
    BY <1>1, <2>1, <2>2, ChatRests DEF ChatVarsInv
<1>10. NewestInv'
  <2>1. ASSUME NEW d \in DOMAIN participants' \ overlapped'
        PROVE  /\ \A f, g \in Handler : Sending(f, d)' /\ Sending(g, d)' => f = g
               /\ \A g \in Handler : Sending(g, d)' => \A m \in MessagesOf(d)' : m <= req'[g].message
               /\ \/ \E g \in Handler : Sending(g, d)'
                  \/ MessagesOf(d)' \cap torn' # {}
                  \/ LastIs(d)'
    <3>1. /\ \A f, g \in Handler : Sending(f, d) /\ Sending(g, d) => f = g
          /\ \A g \in Handler : Sending(g, d) => \A m \in MessagesOf(d) : m <= req[g].message
          /\ \/ \E g \in Handler : Sending(g, d)
             \/ MessagesOf(d) \cap torn # {}
             \/ LastIs(d)
      BY <1>1 DEF ChatVarsInv, NewestInv
    <3>2. MessagesOf(d)' = MessagesOf(d)
      BY <1>6
    <3>3. CASE d = c
      <4>1. \A g \in Handler : ~Sending(g, d)'
        BY <1>7, <1>8, <3>1, <3>3
      <4>2. n \in MessagesOf(d) /\ \A m \in MessagesOf(d) : m <= n
        BY <1>4, <1>5, <1>8, <3>1, <3>3 DEF MessagesOf
      <4>3. lastMessage'[d] = n
        BY <1>1, <1>4, <3>3 DEF ChatVarsInv, ChatInv
      <4>4. LastIs(d)'
        BY <3>2, <4>2, <4>3 DEF LastIs
      <4> QED
        BY <4>1, <4>4
    <3>4. CASE d # c
      <4>1. \A g \in Handler : Sending(g, d)' <=> Sending(g, d)
        BY <1>7, <1>8, <3>4
      <4>2. \A g \in Handler : Sending(g, d) => req'[g] = req[g]
        BY <1>3, <1>8, <3>4
      <4>3. lastMessage'[d] = lastMessage[d]
        BY <1>1, <3>4 DEF ChatVarsInv, ChatInv
      <4>4. LastIs(d)' <=> LastIs(d)
        BY <3>2, <4>3 DEF LastIs
      <4> QED
        BY <1>1, <3>1, <3>2, <4>1, <4>2, <4>4
    <3> QED
      BY <3>3, <3>4
  <2> QED
    BY <2>1 DEF NewestInv
<1>11. ReadInv'
  <2>1. ASSUME useRedisAdapter, NEW s \in Socket, NEW d \in opened'[s], NEW m \in MessagesOf(d)'
        PROVE  m \in torn' \/ m \in known'[s] \/ \E g \in Handler : Sends(g, m)'
    <3>1. opened'[s] = opened[s] /\ MessagesOf(d)' = MessagesOf(d)
      BY <1>1, <1>6
    <3>2. m \in torn \/ m \in known[s] \/ \E g \in Handler : Sends(g, m)
      BY <2>1, <3>1 DEF ChatVarsInv, ReadInv
    <3>3. known[s] \subseteq known'[s] /\ torn' = torn
      BY <1>1
    <3>4. CASE m = n
      <4>1. d = c
        BY <1>5, <3>1, <3>4 DEF MessagesOf
      <4>2. d \in rooms[s] /\ isOpen(s)
        BY <3>1 DEF ChatVarsInv, RoomsInv
      <4>3. s \in heard
        BY <2>1, <4>1, <4>2 DEF Audience, Reached
      <4> QED
        BY <1>1, <3>4, <4>3
    <3>5. CASE m # n
      <4>1. \A g \in Handler : Sends(g, m) => Sends(g, m)'
        BY <1>7, <1>8, <3>5
      <4> QED
        BY <3>2, <3>3, <4>1
    <3> QED
      BY <3>4, <3>5
  <2> QED
    BY <2>1 DEF ReadInv
<1>12. AlertInv'
  <2>1. \A m : Alerted(m) => Alerted(m)'
    BY <1>1 DEF Alerted
  <2>2. Alerted(n)'
    <3>1. [message |-> n, to |-> to] \in alerted'
      BY <1>1
    <3>2. /\ participants'[messages'[n].conversation] = participants[c]
          /\ messages'[n].sender = req[h].user
      BY <1>1, <1>5
    <3>3. to = IF participants[c][1] # req[h].user THEN participants[c][1] ELSE participants[c][2]
      BY DEF recipient
    <3> QED
      BY <3>1, <3>2, <3>3 DEF Alerted
  <2>3. \A m : m # n => \A g \in Handler : Sends(g, m) => Sends(g, m)'
    BY <1>7, <1>8
  <2> QED
    BY <1>1, <2>1, <2>2, <2>3 DEF AlertInv, ChatVarsInv
<1>13. RecentInv'
  BY <1>1, <1>4, ForemostIs DEF ChatVarsInv
<1>14. SameAt("chat.create")
  BY <1>1, <1>2, SameIs DEF Base
<1>15. RoomsInv'
  BY <1>1, RoomsRest DEF ChatVarsInv
<1> QED
  BY <1>1, <1>9, <1>10, <1>11, <1>12, <1>13, <1>14, <1>15, OneChatRests DEF ChatVarsInv

LEMMA ChatFails ==
    ASSUME Base, ChatVarsInv, NEW h \in Handler, SendFails(h)
    PROVE  ChatVarsInv'
<1>1. /\ at[h] \in {"chat.message", "chat.save"} /\ Answer(h)
      /\ torn' = IF at[h] = "chat.save" THEN torn \cup {req[h].message} ELSE torn
      /\ UNCHANGED <<participants, lastMessage, recent, messages>> /\ UNCHANGED <<owner, rooms, alerted>>
      /\ UNCHANGED <<known, begun, opened>> /\ UNCHANGED <<doubled, overlapped>>
  BY DEF SendFails, presence, conversations, clients
<1>2. Moves(h, "idle", NoRequest)
  BY <1>1 DEF Answer, GoTo, Moves
<1>3. /\ at'[h] = "idle" /\ \A g \in Handler \ {h} : at'[g] = at[g] /\ req'[g] = req[g]
  BY <1>2, MovesAre DEF Base
<1>4. DropsTorn /\ torn \subseteq torn'
  BY <1>1, <1>3 DEF DropsTorn
<1>5. SameAt("chat.create")
  BY <1>1, <1>2, SameIs DEF Base
<1>6. Keeps(h)'
  BY <1>3 DEF Keeps
<1>7. \A g \in Handler \ {h} : Keeps(g)'
  BY <1>1, <1>2, OthersKeep DEF Base, ChatVarsInv
<1>8. ChatInv'
  BY <1>1, <1>6, <1>7, ChatRests DEF ChatVarsInv
<1>9. NewestInv' /\ ReadInv' /\ AlertInv'
  BY <1>1, <1>4, NewestDrops, ReadDrops, AlertDrops DEF ChatVarsInv
<1>10. RoomsInv'
  BY <1>1, RoomsRest DEF ChatVarsInv, RoomsInv
<1> QED
  BY <1>1, <1>5, <1>8, <1>9, <1>10, RecentRests, OneChatRests DEF ChatVarsInv

\* A client reads the history of a chat: if all of it fits, it has every message.
LEMMA HistoryIsAll ==
    ASSUME ChatInv, NEW c, Cardinality(MessagesOf(c)) <= historyLimit
    PROVE  getConversationHistory(c) = MessagesOf(c)
<1>1. messages \in Seq(Message) /\ DOMAIN messages = 1..Len(messages) /\ Len(messages) \in Nat
  BY DEF ChatInv
<1>2. IsFiniteSet(MessagesOf(c)) /\ MessagesOf(c) \subseteq Nat
  <2>1. IsFiniteSet(1..Len(messages))
    BY <1>1, FS_Interval
  <2>2. MessagesOf(c) \subseteq 1..Len(messages)
    BY <1>1 DEF MessagesOf
  <2> QED
    BY <2>1, <2>2, FS_Subset
<1>3. ASSUME NEW m \in MessagesOf(c)
      PROVE  Cardinality({k \in MessagesOf(c) : k < m}) < historyLimit
  <2> DEFINE before == {k \in MessagesOf(c) : k < m}
  <2>1. before \subseteq MessagesOf(c) /\ before # MessagesOf(c)
    <3>1. m \notin before
      BY <1>2
    <3> QED
      BY <3>1
  <2> HIDE DEF before
  <2>2. /\ IsFiniteSet(before) /\ Cardinality(before) <= Cardinality(MessagesOf(c))
        /\ Cardinality(MessagesOf(c)) # Cardinality(before)
    <3>1. before \in SUBSET MessagesOf(c)
      BY <2>1
    <3> QED
      BY <1>2, <2>1, <3>1, FS_Subset
  <2>3. Cardinality(before) \in Nat /\ Cardinality(MessagesOf(c)) \in Nat
    BY <1>2, <2>2, FS_CardinalityType
  <2>4. Cardinality(before) < historyLimit
    BY <2>2, <2>3, MessagingAssumption
  <2> QED
    BY <2>4 DEF before
<1> QED
  BY <1>3 DEF getConversationHistory

LEMMA RoomStep ==
    ASSUME Base, ChatVarsInv, NEW s \in Socket, NEW c \in Conversation, RoomNext(s, c)
    PROVE  ChatVarsInv'
<1>1. /\ UNCHANGED <<participants, lastMessage, recent, messages>> /\ UNCHANGED <<owner, alerted>>
      /\ UNCHANGED <<doubled, overlapped, torn>> /\ UNCHANGED <<at, req>> /\ isOpen(s)
  BY DEF RoomNext, Join, Leave, History, Serve, presence, conversations, chatHistory
<1>2. \A step : SameAt(step)
  BY <1>1 DEF SameAt
<1>3. \A g \in Handler : Keeps(g)'
  BY <1>1 DEF ChatVarsInv, ChatInv, Keeps
<1>4. ChatInv'
  BY <1>1, <1>3, ChatRests DEF ChatVarsInv
<1>5. NewestInv' /\ AlertInv' /\ RecentInv' /\ OneChatInv'
  BY <1>1, <1>2, NewestRests, AlertRests, RecentRests, OneChatRests DEF ChatVarsInv
<1>6. CASE Join(s, c)
  <2>1. JoinRoom(s, c) /\ Acknowledged(s, c) /\ UNCHANGED <<opened, known>>
    BY <1>6 DEF Join
  <2>2. RoomsInv' /\ ReadInv'
    BY <1>1, <1>2, <2>1, Joins, ReadRests DEF ChatVarsInv
  <2> QED
    BY <1>4, <1>5, <2>2 DEF ChatVarsInv
<1>7. CASE Leave(s, c)
  <2>1. /\ rooms' = [rooms EXCEPT ![s] = @ \ {c}] /\ begun' = [begun EXCEPT ![s] = @ \ {c}]
        /\ opened' = [opened EXCEPT ![s] = @ \ {c}] /\ known' = known
    BY <1>7 DEF Leave
  <2>2. RoomsInv'
    BY <1>1, <2>1 DEF ChatVarsInv, RoomsInv, isOpen
  <2>3. \A t \in Socket : opened'[t] \subseteq opened[t] /\ known'[t] = known[t]
    BY <2>1 DEF ChatVarsInv, RoomsInv
  <2>4. DropsTorn
    BY <1>1 DEF DropsTorn
  <2>5. ReadInv'
    BY <1>1, <2>3, <2>4, ReadDrops DEF ChatVarsInv
  <2> QED
    BY <1>4, <1>5, <2>2, <2>5 DEF ChatVarsInv
<1>8. CASE History(s, c)
  <2>1. /\ known' = [known EXCEPT ![s] = @ \cup getConversationHistory(c)]
        /\ opened' = IF c \in begun[s] /\ Cardinality(MessagesOf(c)) <= historyLimit
                     THEN [opened EXCEPT ![s] = @ \cup {c}] ELSE opened
        /\ UNCHANGED <<rooms, begun>>
    BY <1>8 DEF History
  <2>2. DOMAIN known' = Socket /\ \A t \in Socket : known[t] \subseteq known'[t]
    BY <2>1 DEF ChatVarsInv, RoomsInv
  <2>3. RoomsInv'
    BY <1>1, <2>1, <2>2 DEF ChatVarsInv, RoomsInv, isOpen
  <2>4. ASSUME useRedisAdapter, NEW t \in Socket, NEW d \in opened'[t], NEW m \in MessagesOf(d)'
        PROVE  m \in torn' \/ m \in known'[t] \/ \E g \in Handler : Sends(g, m)'
    <3>1. m \in MessagesOf(d)
      BY <1>1 DEF MessagesOf
    <3>2. \A g \in Handler : Sends(g, m) => Sends(g, m)'
      BY <1>1 DEF Sends
    <3>3. CASE d \in opened[t]
      BY <1>1, <2>2, <2>4, <3>1, <3>2, <3>3 DEF ChatVarsInv, ReadInv
    <3>4. CASE d \notin opened[t]
      <4>1. t = s /\ d = c /\ Cardinality(MessagesOf(c)) <= historyLimit
        BY <2>1, <3>4 DEF ChatVarsInv, RoomsInv
      <4>2. m \in getConversationHistory(c)
        BY <3>1, <4>1, HistoryIsAll DEF ChatVarsInv
      <4>3. m \in known'[t]
        BY <2>1, <4>1, <4>2 DEF ChatVarsInv, RoomsInv
      <4> QED
        BY <4>3
    <3> QED
      BY <3>3, <3>4
  <2>5. ReadInv'
    BY <2>4 DEF ReadInv
  <2> QED
    BY <1>4, <1>5, <2>3, <2>5 DEF ChatVarsInv
<1> QED
  BY <1>6, <1>7, <1>8 DEF RoomNext

LEMMA ConnectStep ==
    ASSUME Base, ChatVarsInv, NEW s \in Socket, NEW i \in Instance, NEW token \in Token,
           Connect(s, i, token)
    PROVE  ChatVarsInv'
<1>1. /\ UNCHANGED chatVars /\ UNCHANGED <<rooms, at, req>>
      /\ owner' = [owner EXCEPT ![s] = token.sub]
  BY DEF Connect, Connection, Serve
<1>2. /\ UNCHANGED <<participants, lastMessage, recent, messages>> /\ UNCHANGED <<known, alerted>>
      /\ UNCHANGED <<begun, opened, doubled, overlapped, torn>>
  BY <1>1 DEF chatVars, conversations, clients, chatHistory
<1>3. \A step : SameAt(step)
  BY <1>1 DEF SameAt
<1>4. \A g \in Handler : Keeps(g)'
  BY <1>1, <1>2 DEF ChatVarsInv, ChatInv, Keeps
<1>5. ChatInv'
  BY <1>2, <1>4, ChatRests DEF ChatVarsInv
<1>6. NewestInv' /\ ReadInv' /\ AlertInv' /\ RecentInv' /\ OneChatInv'
  BY <1>2, <1>3, NewestRests, ReadRests, AlertRests, RecentRests, OneChatRests DEF ChatVarsInv
<1>7. \A t \in Socket : ~isOpen(t)' => ~isOpen(t)
  <2>1. DOMAIN owner = Socket /\ token.sub # Nobody
    BY RealtimeAssumption DEF Base, PresenceInv
  <2> QED
    BY <1>1, <2>1 DEF isOpen
<1>8. RoomsInv'
  BY <1>1, <1>2, <1>7 DEF ChatVarsInv, RoomsInv
<1> QED
  BY <1>5, <1>6, <1>8 DEF ChatVarsInv

\* A socket is closed and nothing of it is left, or it is as it was.
Closes ==
    /\ DOMAIN rooms' = Socket
    /\ \A s \in Socket : \/ owner'[s] = Nobody /\ rooms'[s] = {}
                         \/ owner'[s] = owner[s] /\ owner[s] # Nobody /\ rooms'[s] = rooms[s]

LEMMA ClosingIs ==
    ASSUME RoomsInv, Closes, Forget
    PROVE  /\ RoomsInv'
           /\ \A s \in Socket : opened'[s] = {} \/ (opened'[s] \subseteq opened[s] /\ known'[s] = known[s])
<1>1. /\ known' = [s \in Socket |-> IF owner'[s] = Nobody THEN {} ELSE known[s]]
      /\ begun' = [s \in Socket |-> IF owner'[s] = Nobody THEN {} ELSE begun[s]]
      /\ opened' = [s \in Socket |-> IF owner'[s] = Nobody THEN {} ELSE opened[s]]
  BY DEF Forget
<1>2. ASSUME NEW s \in Socket
      PROVE  /\ opened'[s] \subseteq begun'[s] /\ begun'[s] \subseteq rooms'[s]
             /\ ~isOpen(s)' => rooms'[s] = {}
  BY <1>1 DEF RoomsInv, Closes, isOpen
<1> QED
  BY <1>1, <1>2 DEF RoomsInv, Closes

LEMMA DisconnectStep ==
    ASSUME Base, ChatVarsInv, NEW s \in Socket, Disconnect(s)
    PROVE  ChatVarsInv'
<1>1. /\ UNCHANGED <<participants, lastMessage, recent, messages>> /\ UNCHANGED alerted
      /\ UNCHANGED <<doubled, overlapped, torn>> /\ UNCHANGED <<at, req>> /\ Forget
      /\ owner' = [owner EXCEPT ![s] = Nobody] /\ rooms' = [rooms EXCEPT ![s] = {}]
  BY DEF Disconnect, disconnect, conversations, chatHistory
<1>2. \A step : SameAt(step)
  BY <1>1 DEF SameAt
<1>3. \A g \in Handler : Keeps(g)'
  BY <1>1 DEF ChatVarsInv, ChatInv, Keeps
<1>4. ChatInv'
  BY <1>1, <1>3, ChatRests DEF ChatVarsInv
<1>5. NewestInv' /\ AlertInv' /\ RecentInv' /\ OneChatInv'
  BY <1>1, <1>2, NewestRests, AlertRests, RecentRests, OneChatRests DEF ChatVarsInv
<1>6. Closes
  <2>1. DOMAIN owner = Socket
    BY DEF Base, PresenceInv
  <2> QED
    BY <1>1, <2>1 DEF Closes, ChatVarsInv, RoomsInv, isOpen
<1>7. /\ RoomsInv'
      /\ \A t \in Socket : opened'[t] = {} \/ (opened'[t] \subseteq opened[t] /\ known'[t] = known[t])
  BY <1>1, <1>6, ClosingIs DEF ChatVarsInv
<1>8. DropsTorn
  BY <1>1 DEF DropsTorn
<1>9. ReadInv'
  BY <1>1, <1>7, <1>8, ReadDrops DEF ChatVarsInv
<1> QED
  BY <1>4, <1>5, <1>7, <1>9 DEF ChatVarsInv

LEMMA DeathStep ==
    ASSUME Base, ChatVarsInv, NEW i \in Instance, Die(i)
    PROVE  ChatVarsInv'
<1> DEFINE serving == {h \in Handler : req[h].instance = i /\ at[h] # "idle"}
           gone == {s \in Socket : home[s] = i}
<1>1. /\ UNCHANGED <<participants, lastMessage, recent, messages>> /\ UNCHANGED alerted
      /\ UNCHANGED <<doubled, overlapped>> /\ Forget
      /\ torn' = torn \cup {req[h].message : h \in {g \in serving : at[g] = "chat.save"}}
  BY DEF Die, conversations
<1>2. /\ owner' = [s \in Socket |-> IF s \in gone THEN Nobody ELSE owner[s]]
      /\ rooms' = [s \in Socket |-> IF s \in gone THEN {} ELSE rooms[s]]
      /\ at' = [h \in Handler |-> IF req[h].instance = i THEN "idle" ELSE at[h]]
      /\ req' = [h \in Handler |-> IF req[h].instance = i THEN NoRequest ELSE req[h]]
  BY DEF Die, InstanceDies
<1>3. ASSUME NEW g \in Handler
      PROVE  /\ at'[g] = "idle" \/ (at'[g] = at[g] /\ req'[g] = req[g])
             /\ at[g] = "chat.save" => at'[g] = "chat.save" \/ req[g].message \in torn'
  <2>1. CASE req[g].instance = i
    <3>1. at'[g] = "idle"
      BY <1>2, <2>1
    <3>2. at[g] = "chat.save" => req[g].message \in torn'
      BY <1>1, <2>1
    <3> QED
      BY <3>1, <3>2
  <2>2. CASE req[g].instance # i
    BY <1>2, <2>2
  <2> QED
    BY <2>1, <2>2
<1>4. DropsTorn /\ torn \subseteq torn'
  BY <1>1, <1>3 DEF DropsTorn
<1>5. ASSUME NEW g \in Handler PROVE Keeps(g)'
  <2>1. CASE at'[g] = "idle"
    BY <2>1 DEF Keeps
  <2>2. CASE at'[g] = at[g] /\ req'[g] = req[g]
    BY <1>1, <2>2, KeepsOn DEF ChatVarsInv, ChatInv
  <2> QED
    BY <1>3, <2>1, <2>2
<1>6. ChatInv'
  BY <1>1, <1>5, ChatRests DEF ChatVarsInv
<1>7. Closes
  <2>1. \A s \in Socket : owner[s] = Nobody => rooms[s] = {}
    BY DEF ChatVarsInv, RoomsInv, isOpen
  <2> QED
    BY <1>2, <2>1 DEF Closes
<1>8. /\ RoomsInv'
      /\ \A t \in Socket : opened'[t] = {} \/ (opened'[t] \subseteq opened[t] /\ known'[t] = known[t])
  BY <1>1, <1>7, ClosingIs DEF ChatVarsInv
<1>9. NewestInv' /\ AlertInv'
  BY <1>1, <1>4, NewestDrops, AlertDrops DEF ChatVarsInv
<1>10. ReadInv'
  BY <1>1, <1>4, <1>8, ReadDrops DEF ChatVarsInv
<1>11. RecentInv' /\ OneChatInv'
  BY <1>1, <1>3, RecentRests, OneChatDrops DEF ChatVarsInv
<1> QED
  BY <1>6, <1>8, <1>9, <1>10, <1>11 DEF ChatVarsInv

LEMMA ChatStarts == MessagingInit => ChatVarsInv
<1> SUFFICES ASSUME MessagingInit PROVE ChatVarsInv
  OBVIOUS
<1>1. /\ DOMAIN participants = {} /\ DOMAIN lastMessage = {} /\ recent = <<>> /\ messages = <<>>
      /\ known = [s \in Socket |-> {}] /\ begun = [s \in Socket |-> {}]
      /\ opened = [s \in Socket |-> {}] /\ rooms = [s \in Socket |-> {}]
      /\ \A h \in Handler : at[h] = "idle"
  BY DEF MessagingInit, ChatInit, RealtimeInit
<1>2. ChatInv
  BY <1>1 DEF ChatInv, Keeps
<1>3. NewestInv /\ RoomsInv /\ ReadInv /\ AlertInv
  BY <1>1 DEF NewestInv, RoomsInv, ReadInv, AlertInv
<1>4. RecentInv /\ OneChatInv
  BY <1>1 DEF RecentInv, OneChatInv, Starting
<1> QED
  BY <1>2, <1>3, <1>4 DEF ChatVarsInv

LEMMA ChatKept ==
    ASSUME Base, ChatVarsInv, [MessagingNext]_vars
    PROVE  ChatVarsInv'
<1>1. ASSUME NEW h \in Handler, ChatNext(h) PROVE ChatVarsInv'
  BY <1>1, ChatStarted, ChatCreated, ChatFound, ChatSent, ChatWritten, ChatSaved, ChatFails
     DEF ChatNext
<1> QED
  BY <1>1, WhoChats, StandingKeeps, RoomStep, ConnectStep, DisconnectStep, DeathStep

LEMMA MaxIs ==
    ASSUME NEW S \in SUBSET Nat, NEW x \in S, \A y \in S : y <= x
    PROVE  Max(S) = x
<1>1. Max(S) \in S /\ \A y \in S : Max(S) >= y
  BY DEF Max
<1>2. Max(S) <= x /\ x <= Max(S) /\ x \in Nat /\ Max(S) \in Nat
  BY <1>1
<1> QED
  BY <1>2

\* A conversation's lastMessage is its newest message once every send to it has been
\* answered, unless two overlapped or one broke off (chat.service.ts,
\* saveAndDispatchMessage).
THEOREM LastMessageIsTheNewest == Spec => []LastMessageIsNewest
<1> DEFINE Inv == Base /\ ChatVarsInv
<1>1. Inv => LastMessageIsNewest
  <2> SUFFICES ASSUME Inv, NEW c \in DOMAIN participants \ overlapped,
                      \A h \in Handler : at[h] = "chat.save" => req[h].conversation # c,
                      MessagesOf(c) \cap torn = {}
               PROVE  lastMessage[c] = IF MessagesOf(c) = {} THEN 0 ELSE Max(MessagesOf(c))
    BY DEF LastMessageIsNewest
  <2>1. \A h \in Handler : ~Sending(h, c)
    BY DEF Sending
  <2>2. LastIs(c)
    BY <2>1 DEF ChatVarsInv, NewestInv
  <2>3. MessagesOf(c) \in SUBSET Nat
    BY DEF MessagesOf, ChatVarsInv, ChatInv
  <2> QED
    BY <2>2, <2>3, MaxIs DEF LastIs
<1>2. MessagingInit => Inv
  BY BaseStarts, ChatStarts
<1>3. Inv /\ [MessagingNext]_vars => Inv'
  BY BaseKept, ChatKept
<1> QED
  BY <1>1, <1>2, <1>3, PTL DEF Spec

\* With the Redis adapter, a client that started or joined a chat and read its history
\* has every message of it, and the participant who did not send a message has been
\* alerted to it, but for messages on their way or torn (chat:message, chat:history).
THEOREM NoMessageIsMissed ==
    ASSUME useRedisAdapter
    PROVE  Spec => []NoMessageMissed
<1> DEFINE Inv == Base /\ ChatVarsInv
<1>1. Inv => NoMessageMissed
  <2> SUFFICES ASSUME Inv PROVE NoMessageMissed
    OBVIOUS
  <2> DEFINE sending == {req[h].message : h \in {g \in Handler : at[g] = "chat.save"}}
  <2>1. \A m : m \notin sending => \A h \in Handler : ~Sends(h, m)
    BY DEF Sends
  <2> HIDE DEF sending
  <2>2. \A s \in Socket : \A c \in opened[s] : MessagesOf(c) \ (torn \cup sending) \subseteq known[s]
    BY <2>1 DEF ChatVarsInv, ReadInv
  <2>3. \A m \in DOMAIN messages \ (torn \cup sending) : Alerted(m)
    BY <2>1 DEF ChatVarsInv, AlertInv
  <2> QED
    BY <2>2, <2>3 DEF NoMessageMissed, Alerted, sending
<1>2. MessagingInit => Inv
  BY BaseStarts, ChatStarts
<1>3. Inv /\ [MessagingNext]_vars => Inv'
  BY BaseKept, ChatKept
<1> QED
  BY <1>1, <1>2, <1>3, PTL DEF Spec

\* The other of the two is the recipient.
LEMMA OtherIs ==
    ASSUME ChatVarsInv, NEW a \in Admin, NEW k \in Of(a)
    PROVE  /\ recipient(recent[k], a) \in Customer
           /\ \A u \in Customer : k \in Of(u) <=> recipient(recent[k], a) = u
<1> DEFINE p == participants[recent[k]]
<1>1. k \in DOMAIN recent /\ isParticipant(recent[k], a) /\ recent[k] \in DOMAIN participants
  BY DEF Of, ChatVarsInv, RecentInv
<1>2. PICK w \in Customer : Pair(p, w)
  BY <1>1 DEF ChatVarsInv, ChatInv
<1>3. PICK b \in Admin : p = <<w, b>> \/ p = <<b, w>>
  BY <1>2 DEF Pair
<1>4. a = p[1] \/ a = p[2]
  BY <1>1 DEF isParticipant
<1>5. a = b /\ a # w
  BY <1>3, <1>4, RealtimeAssumption
<1>6. recipient(recent[k], a) = w
  BY <1>3, <1>5 DEF recipient
<1>7. \A u \in Customer : k \in Of(u) <=> u = w
  BY <1>1, <1>3, RealtimeAssumption DEF Of, isParticipant
<1> QED
  BY <1>6, <1>7

\* The administrator's list shows for a customer the conversation updated last.
LEMMA ListedOnce ==
    ASSUME ChatVarsInv, NEW u \in Customer, NEW a \in Admin, Of(u) # {},
           \A k \in Of(u) : isParticipant(recent[k], a)
    PROVE  {e \in getConversations(a) : e.partner = u} =
               {[conversation |-> findExisting(u), partner |-> u]}
<1>1. Of(u) \in SUBSET Nat /\ Of(u) \subseteq Of(a)
  BY DEF Of, ChatVarsInv, RecentInv
<1>2. PICK first \in Of(u) : \A k \in Of(u) : first <= k
  BY <1>1, LeastIs
<1>3. findExisting(u) = recent[first]
  BY <1>1, <1>2, MinIs DEF findExisting
<1>4. \A k \in Of(a) : /\ formatConversation(k, a).partner \in Customer
                       /\ k \in Of(u) <=> formatConversation(k, a).partner = u
  BY OtherIs DEF formatConversation
<1>5. formatConversation(first, a) = [conversation |-> findExisting(u), partner |-> u]
  BY <1>1, <1>2, <1>3, OtherIs DEF formatConversation
<1>6. UniquePartner(first, a, {j \in Of(a) : j < first})
  <2>1. ~isAdmin(u)
    BY RealtimeAssumption DEF isAdmin
  <2>2. \A j \in Of(a) : j < first => formatConversation(j, a).partner # u
    <3> SUFFICES ASSUME NEW j \in Of(a), j < first PROVE j \notin Of(u)
      BY <1>4
    <3> QED
      BY <1>1, <1>2
  <2> QED
    BY <1>5, <2>1, <2>2 DEF UniquePartner
<1>7. ASSUME NEW k \in Of(a), UniquePartner(k, a, {j \in Of(a) : j < k}),
             formatConversation(k, a).partner = u
      PROVE  k = first
  <2>1. k \in Of(u) /\ first <= k
    BY <1>2, <1>4, <1>7
  <2>2. ~(first < k)
    <3> SUFFICES ASSUME first < k PROVE FALSE
      OBVIOUS
    <3>1. first \in {j \in Of(a) : j < k} /\ formatConversation(first, a).partner = u
      BY <1>1, <1>2, <1>4
    <3> QED
      BY <1>7, <3>1 DEF UniquePartner
  <2> QED
    BY <1>1, <1>2, <2>1, <2>2
<1>8. getConversations(a) =
        {formatConversation(k, a) : k \in {k \in Of(a) : UniquePartner(k, a, {j \in Of(a) : j < k})}}
  BY DEF getConversations
<1>9. first \in Of(a) /\ [conversation |-> findExisting(u), partner |-> u].partner = u
  BY <1>1
<1> QED
  BY <1>5, <1>6, <1>7, <1>8, <1>9

\* A customer has one conversation with support, unless two starts looked before either
\* had created it; and the one the customer resumes is the one the administrator's list
\* shows (chat.service.ts, startUserSupportConversation and getConversations).
THEOREM CustomerAndSupportMeet == Spec => []SamePlace
<1> DEFINE Inv == Base /\ ChatVarsInv
<1>1. Inv => SamePlace
  <2> SUFFICES ASSUME Inv, NEW u \in Customer
               PROVE  /\ u \notin doubled => \A j, k \in Of(u) : j = k
                      /\ Of(u) # {} => \A a \in Admin :
                            (\A k \in Of(u) : isParticipant(recent[k], a)) =>
                                {e \in getConversations(a) : e.partner = u} =
                                    {[conversation |-> findExisting(u), partner |-> u]}
    BY DEF SamePlace
  <2>1. ASSUME u \notin doubled, NEW j \in Of(u), NEW k \in Of(u) PROVE j = k
    <3>1. /\ j \in DOMAIN recent /\ k \in DOMAIN recent
          /\ isParticipant(recent[j], u) /\ isParticipant(recent[k], u)
      BY DEF Of
    <3>2. recent[j] = recent[k]
      BY <2>1, <3>1 DEF ChatVarsInv, RecentInv, OneChatInv
    <3> QED
      BY <3>1, <3>2 DEF ChatVarsInv, RecentInv
  <2> QED
    BY <2>1, ListedOnce
<1>2. MessagingInit => Inv
  BY BaseStarts, ChatStarts
<1>3. Inv /\ [MessagingNext]_vars => Inv'
  BY BaseKept, ChatKept
<1> QED
  BY <1>1, <1>2, <1>3, PTL DEF Spec
===============================================================================
