----------------------------- MODULE Notifications -----------------------------
(***************************************************************************)
(* Notifications: modules/notification with its repository and controller, *)
(* and who asks for them: orders and registrations (notifyAdmins), requests*)
(* of the API, and broadcasts.                                             *)
(*                                                                         *)
(* A notification is stored, then emitted to the room of its user. A       *)
(* request whose time is up is answered at once, while the write it awaits *)
(* goes on in the database (withAbort in base.repository.ts).              *)
(***************************************************************************)
EXTENDS Realtime

VARIABLES
    notifications,  \* notifications[n]: its user and what it is about
    isRead,         \* those marked as read
    emitted,        \* emitted[x]: the emits of notification x to the room of its user
    deleted,        \* accounts that are soft-deleted
    writing,        \* writes that go on for a request already answered
    audience,       \* history: audience[e]: whom event e was to tell
    lapsed,         \* history: events whose request ran out of time
    broken          \* history: events some of whose notifications were not stored

notificationHistory == <<audience, lapsed, broken>>
notificationVars == <<notifications, isRead, emitted, deleted, writing, notificationHistory>>

NotificationStep == {"notify.create", "notify.mail", "broadcast.insert"}

NotificationInit ==
    /\ notifications = <<>>
    /\ isRead = {}
    /\ emitted = [x \in {} |-> 0]
    /\ deleted = {}
    /\ writing = {}
    /\ audience = [e \in {} |-> {}]
    /\ lapsed = {}
    /\ broken = {}

\* Types the mail module has a template for.
EMAIL_TEMPLATES == {"admin_new_order", "admin_new_user"}

\* Types a decision on a profile is announced as.
ProfileKind == {"profile_approved", "profile_rejected"}

Event == [kind : {"api", "broadcast", "password_reset"} \cup EMAIL_TEMPLATES \cup ProfileKind,
          number : Nat]

ASSUME NotificationAssumption == Nobody \notin Event

NewEvent(kind) == [kind |-> kind, number |-> left.notify + left.listen]

\* Event e is to tell these users.
ToTell(e, users) == audience' = with(audience, e, users)

AboutEvent(e) == {n \in DOMAIN notifications : notifications[n].about = e}

-------------------------------------------------------------------------------
(* createNotification and its callers *)

\* POST /notifications
ApiNotify(h, u, i) ==
    LET e == NewEvent("api") IN
    /\ Accept(h, "notify", "notify.create",
              [NoRequest EXCEPT !.instance = i, !.about = e, !.todo = {u}, !.aborts = TRUE])
    /\ ToTell(e, {u})
    /\ UNCHANGED <<presence, rooms, notifications, isRead, emitted, deleted, writing, lapsed,
                   broken>>

\* The administrators are read, and told one after the other.
notifyAdmins(h, kind, i) ==
    LET e == NewEvent(kind)
        admins == Admin \ deleted
    IN /\ admins # {}
       /\ Accept(h, "notify", "notify.create",
                 [NoRequest EXCEPT !.instance = i, !.about = e, !.todo = admins])
       /\ ToTell(e, admins)
       /\ UNCHANGED <<presence, rooms, notifications, isRead, emitted, deleted, writing, lapsed,
                      broken>>

\* A checkout has saved its order code, and awaits this before it clears the cart.
NotifyAdminsOfNewOrder(h, i) == notifyAdmins(h, "admin_new_order", i)

\* The listener of user:registered.
UserRegistered(h, i) == notifyAdmins(h, "admin_new_user", i)

\* After the notification of u is created, and mailed: the next user, or the end.
\* The events of the listeners go on with mail and push.
NextUser(h, u) ==
    LET r == [req[h] EXCEPT !.todo = @ \ {u}] IN
    IF r.about.kind \in ProfileKind THEN GoTo(h, "listener.mail", r)
    ELSE IF r.todo # {} THEN GoTo(h, "notify.create", r) ELSE Answer(h)

\* A notification, as far as it is told apart here.
NotificationDoc(e, u) == [user |-> u, about |-> e]
Items(e, users) == [k \in 1..Cardinality(users) |-> NotificationDoc(e, SetToSeq(users)[k])]

Stored(more) == notifications' = notifications \o more

\* So many emits to the room of each notification's user.
emitNotificationCreated(items, times) ==
    emitted' = [x \in DOMAIN emitted \cup items |->
                  (IF x \in DOMAIN emitted THEN emitted[x] ELSE 0)
                  + (IF x \in items THEN times ELSE 0)]

\* The service emits; the controller of the API emits what it returns again.
emissions(kind) == IF kind = "api" THEN 2 ELSE 1

CreateNotification(h, u) ==
    LET r == req[h] IN
    /\ at[h] = "notify.create"
    /\ u \in r.todo
    /\ Stored(<<NotificationDoc(r.about, u)>>)
    /\ emitNotificationCreated({NotificationDoc(r.about, u)}, emissions(r.about.kind))
    /\ IF r.about.kind \in EMAIL_TEMPLATES
       THEN GoTo(h, "notify.mail", [r EXCEPT !.mailed = u])
       ELSE NextUser(h, u)
    /\ UNCHANGED <<presence, rooms, isRead, deleted, writing, notificationHistory>>

\* The mail goes out or fails; a failure is logged and the loop goes on.
SendNotificationMail(h) ==
    /\ at[h] = "notify.mail"
    /\ LET r == [req[h] EXCEPT !.todo = @ \ {req[h].mailed}, !.mailed = Nobody]
       IN IF r.todo # {} THEN GoTo(h, "notify.create", r) ELSE Answer(h)
    /\ UNCHANGED <<presence, rooms, notificationVars>>

\* Slip: the emit does not wait for the write.
CreateRefused_Emitted(h, u) ==
    LET r == req[h] IN
    /\ at[h] = "notify.create"
    /\ u \in r.todo
    /\ broken' = broken \cup {r.about}
    /\ emitNotificationCreated({NotificationDoc(r.about, u)}, 1)
    /\ Answer(h)
    /\ UNCHANGED <<presence, rooms, notifications, isRead, deleted, writing, audience, lapsed>>

\* The database refuses: the request fails, and with it the users still to be
\* told; a listener goes on with the mail.
CreateRefused(h, u) ==
    LET r == req[h] IN
    /\ at[h] = "notify.create"
    /\ u \in r.todo
    /\ broken' = broken \cup {r.about}
    /\ IF r.about.kind \in ProfileKind THEN NextUser(h, u)
       ELSE Answer(h)
    /\ UNCHANGED <<presence, rooms, notifications, isRead, emitted, deleted, writing, audience,
                   lapsed>>

-------------------------------------------------------------------------------
(* Broadcasts *)

\* The users to reach are read once.
Broadcast(h, i) ==
    LET e == NewEvent("broadcast")
        users == User \ deleted
    IN /\ Accept(h, "notify", "broadcast.insert",
                [NoRequest EXCEPT !.instance = i, !.about = e, !.todo = users, !.aborts = TRUE])
       /\ ToTell(e, users)
       /\ UNCHANGED <<presence, rooms, notifications, isRead, emitted, deleted, writing, lapsed,
                      broken>>

\* createMany is an unordered insertMany: all are stored, and then emitted.
CreateMany(h) ==
    LET r == req[h] IN
    /\ at[h] = "broadcast.insert"
    /\ Stored(Items(r.about, r.todo))
    /\ emitNotificationCreated({NotificationDoc(r.about, u) : u \in r.todo}, 1)
    /\ Answer(h)
    /\ UNCHANGED <<presence, rooms, isRead, deleted, writing, notificationHistory>>

\* Some of the writes are refused: the request fails and nothing is emitted.
CreateManyRefused(h, stored) ==
    LET r == req[h] IN
    /\ at[h] = "broadcast.insert"
    /\ stored \subseteq r.todo /\ stored # r.todo
    /\ Stored(Items(r.about, stored))
    /\ broken' = broken \cup {r.about}
    /\ Answer(h)
    /\ UNCHANGED <<presence, rooms, isRead, emitted, deleted, writing, audience, lapsed>>

-------------------------------------------------------------------------------
(* Requests whose time is up *)

\* Slip: what was aborted is tried again.
withAbort_Retries(h) ==
    LET r == req[h] IN
    /\ at[h] \in {"notify.create", "broadcast.insert"}
    /\ r.aborts
    /\ writing' = writing \cup {[about |-> r.about, users |-> r.todo]}
    /\ lapsed' = lapsed \cup {r.about}
    /\ GoTo(h, at[h], r)
    /\ UNCHANGED <<presence, rooms, notifications, isRead, emitted, deleted, audience, broken>>

\* requestTimeout aborts the signal: withAbort rejects, the write goes on.
withAbort(h) ==
    LET r == req[h] IN
    /\ at[h] \in {"notify.create", "broadcast.insert"}
    /\ r.aborts
    /\ writing' = writing \cup {[about |-> r.about, users |-> r.todo]}
    /\ lapsed' = lapsed \cup {r.about}
    /\ Answer(h)
    /\ UNCHANGED <<presence, rooms, notifications, isRead, emitted, deleted, audience, broken>>

WriteGoesOn(w) ==
    /\ w \in writing
    /\ writing' = writing \ {w}
    /\ Stored(Items(w.about, w.users))
    /\ UNCHANGED <<presence, rooms, at, req, left, isRead, emitted, deleted,
                   notificationHistory>>

-------------------------------------------------------------------------------
(* Reading *)

\* findOneAndUpdate on the id and the user
MarkRead(u, n) ==
    /\ n \in DOMAIN notifications \ isRead
    /\ notifications[n].user = u
    /\ Serve("notify")
    /\ isRead' = isRead \cup {n}
    /\ UNCHANGED <<presence, rooms, notifications, emitted, deleted, writing,
                   notificationHistory>>

MarkAllRead(u) ==
    LET unread == {n \in DOMAIN notifications \ isRead : notifications[n].user = u} IN
    /\ unread # {}
    /\ Serve("notify")
    /\ isRead' = isRead \cup unread
    /\ UNCHANGED <<presence, rooms, notifications, emitted, deleted, writing,
                   notificationHistory>>

SoftDelete(u) ==
    /\ u \notin deleted
    /\ Serve("notify")
    /\ deleted' = deleted \cup {u}
    /\ UNCHANGED <<presence, rooms, notifications, isRead, emitted, writing,
                   notificationHistory>>

-------------------------------------------------------------------------------
(* Properties *)

Ongoing(e) ==
    \/ \E h \in Handler : req[h].about = e
    \/ \E w \in writing : w.about = e

\* An order, a registration or a broadcast tells everyone it was to tell exactly
\* once, however requests interleave, accounts are deleted on the way, or the
\* request runs out of time; only a refused write leaves some of them untold.
EachIsTold ==
    \A e \in DOMAIN audience :
        LET told(u) == Cardinality({n \in AboutEvent(e) : notifications[n].user = u}) IN
        /\ \A u \in User : told(u) <= (IF u \in audience[e] THEN 1 ELSE 0)
        /\ e \notin broken /\ ~Ongoing(e) => \A u \in audience[e] : told(u) = 1

\* What a user is told of is in the user's list, and what is in the list the user
\* has been told of, unless its write was refused in part or its request had been
\* answered, for want of time, when it was stored.
TellsWhatIsStored ==
    /\ \A x \in DOMAIN emitted : \E n \in DOMAIN notifications : notifications[n] = x
    /\ \A n \in DOMAIN notifications :
          notifications[n] \in DOMAIN emitted \/ notifications[n].about \in broken \cup lapsed
===============================================================================
