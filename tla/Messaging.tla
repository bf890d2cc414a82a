-------------------------------- MODULE Messaging --------------------------------
(***************************************************************************)
(* Sockets, chat, notifications and the listeners together, on instances   *)
(* that may die.                                                           *)
(***************************************************************************)
EXTENDS Chat, Listeners

CONSTANT Server     \* bound: the instances that serve the API's requests

ASSUME MessagingAssumption ==
    /\ Server \subseteq Instance
    /\ Nobody \notin Conversation
    /\ maxMailLog \in Nat \ {0} /\ historyLimit \in Nat

vars == <<realtimeVars, chatVars, notificationVars, listenerVars>>

MessagingInit == RealtimeInit /\ ChatInit /\ NotificationInit /\ ListenerInit

\* Nothing of the client of a closed socket is left.
Forget ==
    /\ known' = [s \in Socket |-> IF owner'[s] = Nobody THEN {} ELSE known[s]]
    /\ begun' = [s \in Socket |-> IF owner'[s] = Nobody THEN {} ELSE begun[s]]
    /\ opened' = [s \in Socket |-> IF owner'[s] = Nobody THEN {} ELSE opened[s]]

Connect(s, i, token) ==
    /\ Connection(s, i, token)
    /\ UNCHANGED <<chatVars, notificationVars, listenerVars>>

Disconnect(s) ==
    /\ disconnect(s)
    /\ Forget
    /\ UNCHANGED <<conversations, alerted, chatHistory, notificationVars, listenerVars>>

\* What the instance was serving is left where it stood; its codes and its mail log
\* are gone.
Die(i) ==
    LET serving == {h \in Handler : req[h].instance = i /\ at[h] # "idle"} IN
    /\ InstanceDies(i)
    /\ Forget
    /\ torn' = torn \cup {req[h].message : h \in {g \in serving : at[g] = "chat.save"}}
    /\ broken' = broken \cup ({req[h].about : h \in serving} \ {Nobody})
    /\ otpStore' = [otpStore EXCEPT ![i] = [u \in Customer |-> 0]]
    /\ mailLog' = [mailLog EXCEPT ![i] = <<>>]
    /\ UNCHANGED <<conversations, alerted, doubled, overlapped, notifications, isRead, emitted,
                   deleted, writing, audience, lapsed, decision, jobs, crossed, enqueued>>

ChatNext(h) ==
    \/ \E s \in Socket : \E u \in Customer : StartConversation(h, s, u)
    \/ \E c \in Conversation : CreateConversation(h, c)
    \/ FindCreated(h)
    \/ \E s \in Socket, c \in Conversation : SendMessage(h, s, c)
    \/ CreateMessage(h)
    \/ SaveConversation(h)
    \/ SendFails(h)

ListUsers(s) == PresenceList(s) /\ UNCHANGED <<chatVars, notificationVars, listenerVars>>

RoomNext(s, c) == Join(s, c) \/ Leave(s, c) \/ History(s, c)

NotifyNext(h) ==
    \/ \E u \in User, i \in Server : ApiNotify(h, u, i)
    \/ \E i \in Server : NotifyAdminsOfNewOrder(h, i) \/ UserRegistered(h, i)
    \/ \E u \in User : CreateNotification(h, u)
    \/ SendNotificationMail(h)
    \/ \E u \in User : CreateRefused(h, u)
    \/ \E i \in Server : Broadcast(h, i)
    \/ CreateMany(h)
    \/ \E stored \in SUBSET User : CreateManyRefused(h, stored)
    \/ withAbort(h)

ListenNext(h) ==
    \/ \E u \in Customer, i \in Server : approveUser(h, u, i) \/ declineUser(h, u, i)
    \/ emit(h)
    \/ UpdateFails(h)
    \/ MailDecision(h)
    \/ \E now \in 1..MaxMs : EnqueuePush(h, now)
    \/ EnqueueRefused(h)
    \/ \E u \in Customer, i \in Server : PasswordResetRequested(h, u, i) \/ OtpResend(h, u, i)
    \/ CodeMailed(h)

MailboxNext(u) ==
    \/ \E n \in DOMAIN notifications : MarkRead(u, n)
    \/ MarkAllRead(u)
    \/ SoftDelete(u)

WorkerNext(k) == WorkerSends(k) \/ WorkerFails(k) \/ WorkerCompletes(k) \/ WorkerDies(k)

MessagingNext ==
    \/ \E s \in Socket, i \in Instance, token \in Token : Connect(s, i, token)
    \/ \E s \in Socket : Disconnect(s) \/ ListUsers(s)
    \/ \E i \in Instance : Die(i)
    \/ \E h \in Handler : ChatNext(h) /\ UNCHANGED <<notificationVars, listenerVars>>
    \/ \E s \in Socket, c \in Conversation :
          RoomNext(s, c) /\ UNCHANGED <<notificationVars, listenerVars>>
    \/ \E h \in Handler : NotifyNext(h) /\ UNCHANGED <<chatVars, listenerVars>>
    \/ \E w \in writing : WriteGoesOn(w) /\ UNCHANGED <<chatVars, listenerVars>>
    \/ \E u \in User : MailboxNext(u) /\ UNCHANGED <<chatVars, listenerVars>>
    \/ \E h \in Handler : ListenNext(h) /\ UNCHANGED chatVars
    \/ \E u \in Customer, i \in Server : EmailVerified(u, i) /\ UNCHANGED chatVars
    \/ \E k \in DOMAIN jobs : WorkerNext(k) /\ UNCHANGED chatVars

Spec == MessagingInit /\ [][MessagingNext]_vars
===============================================================================
