-------------------------------- MODULE Listeners --------------------------------
(***************************************************************************)
(* What the event bus sets off: the listeners of infrastructure/events, the*)
(* mail log and the codes kept for development, and the push queue.        *)
(*                                                                         *)
(* An emit calls the listener at once and waits for nothing: the listener  *)
(* goes on by itself, from one awaited call to the next, beside those of   *)
(* later events. A push job is keyed by its user and the millisecond, and  *)
(* outlives the process in Redis.                                          *)
(***************************************************************************)
EXTENDS Notifications

CONSTANTS
    maxMailLog,     \* entries the mail log keeps: 100 in the code
    MaxMs           \* bound: the milliseconds of a behaviour

VARIABLES
    decision,       \* decision[u]: the latest decision on u's profile
    otpStore,       \* otpStore[i][u]: the code instance i keeps, 0 for none
    mailLog,        \* mailLog[i]: its log of mails, newest first
    jobs,           \* push jobs by user and millisecond
    crossed,        \* history: users with two decisions or codes on their way at once
    enqueued        \* history: what was put on the queue, and when

listenerVars == <<decision, otpStore, mailLog, jobs, crossed, enqueued>>

ListenerStep == {"listener.emit", "listener.mail", "listener.push", "otp.mail"}

ListenerInit ==
    /\ decision = [u \in Customer |-> Nobody]
    /\ otpStore = [i \in Instance |-> [u \in Customer |-> 0]]
    /\ mailLog = [i \in Instance |-> <<>>]
    /\ jobs = [k \in {} |-> Nobody]
    /\ crossed = {}
    /\ enqueued = {}

\* A decision on u, or a listener of u, is on its way.
OnTheWay(u) == \E g \in Handler : req[g].user = u /\ req[g].socket = Nobody

Crossing(u) == crossed' = IF OnTheWay(u) THEN crossed \cup {u} ELSE crossed

-------------------------------------------------------------------------------
(* user.listeners.ts *)

\* Slip: both decisions are announced as approvals.
Announcing_Approved(kind) == "profile_approved"

\* The notification each listener creates.
Announcing(kind) == kind

\* updateById has stored the decision on u's profile; approveUser or declineUser has
\* yet to hear of it. Any decision may follow any other: a second approval is refused
\* by a read of the account before this write, and other requests write the account.
Decide(h, u, kind, i) ==
    LET e == NewEvent(kind) IN
    /\ Accept(h, "listen", "listener.emit",
              [NoRequest EXCEPT !.instance = i, !.user = u, !.todo = {u},
                                !.about = [e EXCEPT !.kind = Announcing(kind)]])
    /\ decision' = [decision EXCEPT ![u] = e]
    /\ Crossing(u)
    /\ ToTell(e, {u})
    /\ UNCHANGED <<presence, rooms, notifications, isRead, emitted, deleted, writing, lapsed,
                   broken, otpStore, mailLog, jobs, enqueued>>

approveUser(h, u, i) == Decide(h, u, "profile_approved", i)
declineUser(h, u, i) == Decide(h, u, "profile_rejected", i)

\* The bus calls the listener, which the request does not wait for.
emit(h) ==
    /\ at[h] = "listener.emit"
    /\ GoTo(h, "notify.create", req[h])
    /\ UNCHANGED <<presence, rooms, notificationVars, listenerVars>>

\* updateById throws, though what it wrote is stored: nothing is emitted.
UpdateFails(h) ==
    /\ at[h] = "listener.emit"
    /\ broken' = broken \cup {req[h].about}
    /\ Answer(h)
    /\ UNCHANGED <<presence, rooms, notifications, isRead, emitted, deleted, writing, audience,
                   lapsed, listenerVars>>

\* MailService.send logs what fails and returns.
MailDecision(h) ==
    /\ at[h] = "listener.mail"
    /\ GoTo(h, "listener.push", req[h])
    /\ UNCHANGED <<presence, rooms, notificationVars, listenerVars>>

\* The user and Date.now().
jobId(u, now) == <<u, now>>

\* The queue ignores a job whose id it has; the listener logs what is refused.
EnqueuePush(h, now) ==
    LET r == req[h]
        k == jobId(r.user, now)
        job == [about |-> r.about, state |-> "waiting", attempts |-> 0, sent |-> 0, deaths |-> 0]
    IN /\ at[h] = "listener.push"
       /\ \A e \in enqueued : e.ms <= now
       /\ jobs' = IF k \in DOMAIN jobs THEN jobs ELSE with(jobs, k, job)
       /\ enqueued' = enqueued \cup {[user |-> r.user, about |-> r.about, ms |-> now]}
       /\ Answer(h)
       /\ UNCHANGED <<presence, rooms, notificationVars, decision, otpStore, mailLog, crossed>>

EnqueueRefused(h) ==
    /\ at[h] = "listener.push"
    /\ Answer(h)
    /\ UNCHANGED <<presence, rooms, notificationVars, listenerVars>>

-------------------------------------------------------------------------------
(* The worker of the push queue *)

Unbothered == UNCHANGED <<presence, rooms, at, req, notificationVars, decision, otpStore, mailLog,
                          crossed, enqueued>>

\* A push goes out, or does not: without a token, without Firebase, or when the
\* send fails. Nothing is thrown.
sendPushNotification(job) == {[job EXCEPT !.state = "sent", !.sent = @ + 1],
                              [job EXCEPT !.state = "done"]}

\* Slip: the worker throws when the send fails, though it may have got through.
WorkerSends_Throws(k) ==
    /\ jobs[k].state = "waiting"
    /\ \/ \E job \in sendPushNotification(jobs[k]) : jobs' = [jobs EXCEPT ![k] = job]
       \/ jobs' = [jobs EXCEPT ![k].sent = @ + 1, ![k].attempts = @ + 1,
                               ![k].state = IF jobs[k].attempts < 2 THEN "waiting" ELSE "failed"]
    /\ UNCHANGED left /\ Unbothered

\* The user is read, and the push sent; the job ends well whatever came of it.
WorkerSends(k) ==
    /\ jobs[k].state = "waiting"
    /\ \E job \in sendPushNotification(jobs[k]) : jobs' = [jobs EXCEPT ![k] = job]
    /\ UNCHANGED left /\ Unbothered

\* Only reading the user can fail the job: it is tried three times.
WorkerFails(k) ==
    /\ jobs[k].state = "waiting"
    /\ jobs' = [jobs EXCEPT ![k].attempts = @ + 1,
                            ![k].state = IF jobs[k].attempts < 2 THEN "waiting" ELSE "failed"]
    /\ UNCHANGED left /\ Unbothered

WorkerCompletes(k) ==
    /\ jobs[k].state = "sent"
    /\ jobs' = [jobs EXCEPT ![k].state = "done"]
    /\ UNCHANGED left /\ Unbothered

\* The worker dies after the send: the job stalls, and is taken up again.
WorkerDies(k) ==
    /\ jobs[k].state = "sent"
    /\ Serve("crash")
    /\ jobs' = [jobs EXCEPT ![k].state = "waiting", ![k].deaths = @ + 1]
    /\ UNCHANGED <<presence, rooms, notificationVars, decision, otpStore, mailLog, crossed,
                   enqueued>>

-------------------------------------------------------------------------------
(* auth.listeners.ts *)

\* A code has been drawn for u: it is kept, and mailed.
CodeDrawn(h, u, status, i) ==
    /\ Accept(h, "listen", "otp.mail",
              [NoRequest EXCEPT !.instance = i, !.user = u, !.code = left.listen,
                                !.status = status])
    /\ otpStore' = [otpStore EXCEPT ![i][u] = left.listen]
    /\ Crossing(u)
    /\ UNCHANGED <<presence, rooms, notificationVars, decision, mailLog, jobs, enqueued>>

PasswordResetRequested(h, u, i) == CodeDrawn(h, u, "reset_requested", i)

OtpResend(h, u, i) ==
    CodeDrawn(h, u, IF otpStore[i][u] # 0 THEN "otp_resent" ELSE "otp_sent", i)

\* Slip: a new entry goes to the end of the log.
addMailLog_Last(log, entry) ==
    SubSeq(Append(log, entry), 1, IF Len(log) < maxMailLog THEN Len(log) + 1 ELSE maxMailLog)

\* unshift, and splice at the limit
addMailLog(log, entry) ==
    SubSeq(<<entry>> \o log, 1, IF Len(log) < maxMailLog THEN Len(log) + 1 ELSE maxMailLog)

\* The mail is out, or has failed: it is logged. A reset is announced to the user.
CodeMailed(h) ==
    LET r == req[h] IN
    /\ at[h] = "otp.mail"
    /\ mailLog' = [mailLog EXCEPT ![r.instance] =
                     addMailLog(@, [to |-> r.user, status |-> r.status, otp |-> r.code])]
    /\ IF r.status = "reset_requested"
       THEN LET e == [kind |-> "password_reset", number |-> r.code] IN
            /\ GoTo(h, "notify.create", [NoRequest EXCEPT !.instance = r.instance, !.about = e,
                                                          !.todo = {r.user}])
            /\ ToTell(e, {r.user})
       ELSE Answer(h) /\ UNCHANGED audience
    /\ UNCHANGED <<presence, rooms, notifications, isRead, emitted, deleted, writing, lapsed,
                   broken, decision, otpStore, jobs, crossed, enqueued>>

\* The mails to u in the log of instance i.
MailsTo(i, u) == {k \in DOMAIN mailLog[i] : mailLog[i][k].to = u}

\* The newest mail to u, whatever it is, is marked.
markEmailVerified(i, u) ==
    IF MailsTo(i, u) = {} THEN mailLog[i]
    ELSE [mailLog[i] EXCEPT ![Min(MailsTo(i, u))].status = "verified"]

\* The address is verified: the code is dropped.
EmailVerified(u, i) ==
    /\ otpStore[i][u] # 0
    /\ Serve("listen")
    /\ otpStore' = [otpStore EXCEPT ![i][u] = 0]
    /\ mailLog' = [mailLog EXCEPT ![i] = markEmailVerified(i, u)]
    /\ UNCHANGED <<presence, rooms, notificationVars, decision, jobs, crossed, enqueued>>

-------------------------------------------------------------------------------
(* Properties *)

\* The newest notification of a user about the profile tells of the latest
\* decision on it, with three exceptions: the request of the decision, or its
\* listener, ended after the profile was written and before the notification was
\* (the process died, or updateById threw); the write of the notification was
\* refused; an earlier decision was still on its way to its notification, for
\* nothing keeps the listeners in order.
LastWordStands ==
    \A u \in Customer \ crossed :
        LET told == {n \in DOMAIN notifications :
                        /\ notifications[n].user = u
                        /\ notifications[n].about.kind \in ProfileKind}
        IN decision[u] # Nobody /\ ~Ongoing(decision[u]) /\ decision[u] \notin broken =>
             \E n \in told : /\ \A m \in told : m <= n
                             /\ notifications[n].about = decision[u]

\* Each decision that reached the queue has a push job of its own, unless another
\* of the user reached it within the same millisecond; and the push goes out once,
\* except that a worker that dies after the send leaves it to be sent again.
PushOnce ==
    /\ \A e \in enqueued :
          (\A f \in enqueued : f # e => <<f.user, f.ms>> # <<e.user, e.ms>>) =>
              \E k \in DOMAIN jobs : jobs[k].about = e.about
    /\ \A k \in DOMAIN jobs : jobs[k].sent <= 1 + jobs[k].deaths

\* The newest mail to a user in an instance's log carries the code it keeps for
\* the user, once the listener is done, unless two were on their way at once.
LogCarriesTheCode ==
    \A u \in Customer \ crossed, i \in Instance :
        otpStore[i][u] # 0 /\ ~OnTheWay(u) /\ MailsTo(i, u) # {} =>
            mailLog[i][Min(MailsTo(i, u))].otp = otpStore[i][u]
===============================================================================
