-------------------------------- MODULE Accounts --------------------------------
(***************************************************************************)
(* Accounts that register with an e-mail address and a password, and the   *)
(* secrets that act for them: modules/auth/auth.service.ts with the        *)
(* collections it writes (users, tokens) through user.service.ts,          *)
(* user.repository.ts and token.service.ts / token.repository.ts.          *)
(*                                                                         *)
(* An HTTP request is a handler; every awaited write, and every awaited    *)
(* read a later write depends on, is a step of its own. The service has no *)
(* catch block here: a refused call or a dying process just breaks the     *)
(* handler off between two steps (BreakOff).                               *)
(*                                                                         *)
(* Passwords are versions: 0 at registration, one more at every write.     *)
(***************************************************************************)
EXTENDS Integers, FiniteSets

CONSTANTS
    User,          \* ids of account documents
    NoUser,
    Token,         \* the random values drawn for codes and refresh tokens
    NoToken,
    Undefined,     \* what reading an absent field gives
    Handler,       \* requests served at the same time
    Requests,      \* bound: the kinds of request that arrive
    MaxAttempts,   \* AUTH_MAX_FAILED_ATTEMPTS
    MaxPassword    \* bound: times the passwords of an account are replaced

Kind == {"register", "verifyEmail", "resendOtp", "login", "refresh", "forgot",
         "verifyCode", "resetPassword", "changePassword", "deleteMe", "approve",
         "decline"}

ASSUME AccountsAssumption ==
    /\ NoUser \notin User
    /\ NoToken \notin Token
    /\ Undefined \notin User
    /\ Requests \subseteq Kind
    /\ MaxAttempts \in Nat \ {0}
    /\ MaxPassword \in Nat

VARIABLES
    users,      \* users[u]: the document
    tokens,     \* tokens[t]: the document in the tokens collection
    access,     \* users who were given an access JWT (checked by signature
                \* alone; its expiry is left to the holder)
    resetJwt,   \* users who were given a FORGOT_PASS JWT
    at,         \* at[h]: the call the handler awaits
    req,        \* req[h]: what it serves
    resetTo     \* history: resetTo[u] is the password of u's last completed
                \* reset or re-registration

vars == <<users, tokens, access, resetJwt, at, req, resetTo>>

-------------------------------------------------------------------------------
(* Data *)

State == {"none", "live", "deleted"}
ONBOARDING_STEPS == {"REGISTERED", "VERIFIED", "UNDER_REVIEW", "APPROVED"}
TOKEN_TYPES == {"refresh", "verifyEmail", "resetPassword"}

UserDoc == [state : State, isEmailVerified : BOOLEAN, onboardingStep : ONBOARDING_STEPS,
            isOnboardingCompleted : BOOLEAN, failedLoginAttempts : Nat, locked : BOOLEAN,
            password : Nat]

NewUser == [state |-> "none", isEmailVerified |-> FALSE, onboardingStep |-> "REGISTERED",
            isOnboardingCompleted |-> FALSE, failedLoginAttempts |-> 0,
            locked |-> FALSE, password |-> 0]

\* login is the first refresh token of the session, password the one it was
\* opened with; overlapped and late are history (see RefreshValidate,
\* RevokeCodes and RevokeSessions).
TokenDoc == [type : TOKEN_TYPES \cup {"none"}, user : User \cup {NoUser}, active : BOOLEAN,
             login : Token \cup {NoToken}, password : Nat, overlapped : BOOLEAN,
             late : BOOLEAN]

NoDoc == [type |-> "none", user |-> NoUser, active |-> FALSE, login |-> NoToken,
          password |-> 0, overlapped |-> FALSE, late |-> FALSE]

Step == {"idle", "revive", "revokeSessions", "revokeOtps", "sendOtp", "verifyCheck",
         "verifyWrite", "countMiss", "clearMisses", "issue", "refreshUser", "rotate",
         "revokeCodes", "sendCode", "checkCode", "resetWrite", "changeWrite",
         "approveWrite", "declineWrite"}

\* attempts is failedLoginAttempts as loaded.
Request == [kind : Kind \cup {"none"}, user : User \cup {NoUser},
            token : Token \cup {NoToken}, login : Token \cup {NoToken}, password : Nat,
            attempts : Nat, overlapped : BOOLEAN, late : BOOLEAN]

NoRequest == [kind |-> "none", user |-> NoUser, token |-> NoToken, login |-> NoToken,
              password |-> 0, attempts |-> 0, overlapped |-> FALSE, late |-> FALSE]

Live(u) == users[u].state = "live"

\* Slip: only the onboarding step is looked at.
MustVerify_StepOnly(u) == users[u].onboardingStep = "REGISTERED"

\* assertUserIsApproved: a code is sent, or the login goes on.
MustVerify(u) == ~users[u].isEmailVerified \/ users[u].onboardingStep = "REGISTERED"
Approved(u) == users[u].onboardingStep = "APPROVED" /\ users[u].isOnboardingCompleted

IsUserLocked(u) == users[u].locked

\* findActiveToken.
Valid(t, type, u) ==
    tokens[t].type = type /\ tokens[t].user = u /\ tokens[t].active

\* Random values do not repeat while anything still refers to them.
Fresh(t) ==
    /\ tokens[t].type = "none"
    /\ \A s \in Token : tokens[s].login # t
    /\ \A k \in Handler : req[k].token # t /\ req[k].login # t

\* Handlers serving u that hold a checked login or refresh token and have
\* not stored the new token yet.
Opening(k, u) ==
    /\ req[k].user = u
    /\ \/ req[k].kind = "login" /\ at[k] \in {"clearMisses", "issue"}
       \/ at[k] \in {"refreshUser", "rotate", "issue"}

\* A new password is started only while its version fits the bound.
PasswordRoom(u) ==
    users[u].password
      + Cardinality({k \in Handler : /\ req[k].user = u
                                     /\ at[k] \in {"revive", "resetWrite", "changeWrite"}})
    < MaxPassword

-------------------------------------------------------------------------------
(* Handlers *)

Begin(h, kind, u, t, step) ==
    /\ at[h] = "idle"
    /\ kind \in Requests
    /\ at' = [at EXCEPT ![h] = step]
    /\ req' = [req EXCEPT ![h] =
                 [NoRequest EXCEPT !.kind = kind, !.user = u, !.token = t,
                                   !.attempts = users[u].failedLoginAttempts]]

GoTo(h, step) ==
    /\ at' = [at EXCEPT ![h] = step]
    /\ UNCHANGED req

\* The token the request brought is not used again.
Forget(h, step) ==
    /\ at' = [at EXCEPT ![h] = step]
    /\ req' = [req EXCEPT ![h].token = NoToken]

Finish(h) ==
    /\ at' = [at EXCEPT ![h] = "idle"]
    /\ req' = [req EXCEPT ![h] = NoRequest]

\* updateById: findOneAndUpdate of a document that is not deleted.
UpdateById(id, doc) ==
    users' = IF id \in User /\ users[id].state = "live"
             THEN [users EXCEPT ![id] = doc]
             ELSE users

\* revokeAllByUser.
RevokeAll(u, type) ==
    tokens' = [t \in Token |->
                 IF tokens[t].user = u /\ tokens[t].type = type
                 THEN [tokens[t] EXCEPT !.active = FALSE]
                 ELSE tokens[t]]

\* createToken.
Create(t, h, type, login) ==
    tokens' = [tokens EXCEPT ![t] =
                 [type |-> type, user |-> req[h].user, active |-> TRUE, login |-> login,
                  password |-> req[h].password, overlapped |-> req[h].overlapped,
                  late |-> req[h].late]]

\* user.id: findByEmail and findById answer lean documents, which have an _id
\* and no id.
IdOf(u) == Undefined

\* incrementFailedAttempts and resetFailedAttempts address the user by user.id.
IncrementFailedAttempts(h) ==
    LET u == req[h].user
        attempts == req[h].attempts + 1
    IN  UpdateById(IdOf(u),
            [users[u] EXCEPT !.failedLoginAttempts = attempts,
                             !.locked = @ \/ attempts >= MaxAttempts])

ResetFailedAttempts(h) ==
    UpdateById(IdOf(req[h].user),
        [users[req[h].user] EXCEPT !.failedLoginAttempts = 0, !.locked = FALSE])

-------------------------------------------------------------------------------
Init ==
    /\ users = [u \in User |-> NewUser]
    /\ tokens = [t \in Token |-> NoDoc]
    /\ access = {}
    /\ resetJwt = {}
    /\ at = [h \in Handler |-> "idle"]
    /\ req = [h \in Handler |-> NoRequest]
    /\ resetTo = [u \in User |-> 0]

-------------------------------------------------------------------------------
(* register *)

\* No account of that address: createUser. The id is new: nothing refers to it.
CreateUser(h, u) ==
    /\ users[u].state = "none"
    /\ \A t \in Token : tokens[t].user # u
    /\ \A k \in Handler : req[k].user # u
    /\ users' = [users EXCEPT ![u] =
                   [NewUser EXCEPT !.state = "live", !.password = users[u].password]]
    /\ access' = access \ {u}
    /\ resetJwt' = resetJwt \ {u}
    /\ Begin(h, "register", u, NoToken, "sendOtp")
    /\ UNCHANGED <<tokens, resetTo>>

RegisterAgain(h, u) ==
    /\ users[u].state = "deleted"
    /\ PasswordRoom(u)
    /\ Begin(h, "register", u, NoToken, "revive")
    /\ UNCHANGED <<users, tokens, access, resetJwt, resetTo>>

\* updateAnyUser: by id alone, whether the account is still deleted or not.
Revive(h) ==
    LET u == req[h].user
        revived == [NewUser EXCEPT !.state = "live", !.password = users[u].password + 1]
    IN  /\ at[h] = "revive"
        /\ IF users[u].state = "none"
           THEN /\ GoTo(h, "revokeSessions")
                /\ UNCHANGED users
           ELSE /\ users' = [users EXCEPT ![u] = revived]
                /\ at' = [at EXCEPT ![h] = "revokeSessions"]
                /\ req' = [req EXCEPT ![h].password = revived.password]
        /\ UNCHANGED <<tokens, access, resetJwt, resetTo>>

\* The sessions of u have been revoked; a login or a refresh in flight is late:
\* it will store a token afterwards.
SessionsRevoked(h) ==
    LET u == req[h].user
        again == req[h].kind = "register"
    IN  /\ at' = [at EXCEPT ![h] = IF again THEN "revokeOtps" ELSE "idle"]
        /\ req' = [k \in Handler |->
                     IF k = h THEN IF again THEN req[h] ELSE NoRequest
                     ELSE IF Opening(k, u) THEN [req[k] EXCEPT !.late = TRUE]
                     ELSE req[k]]
        /\ resetTo' = [resetTo EXCEPT ![u] =
                         IF @ < req[h].password THEN req[h].password ELSE @]

\* Slip: the tokens revoked are of another type than the sessions.
RevokeSessions_OtherType(h) ==
    /\ at[h] = "revokeSessions"
    /\ RevokeAll(req[h].user, "resetPassword")
    /\ SessionsRevoked(h)
    /\ UNCHANGED <<users, access, resetJwt>>

\* Ends every session of the account, for a re-registration or a reset.
RevokeSessions(h) ==
    /\ at[h] = "revokeSessions"
    /\ RevokeAll(req[h].user, "refresh")
    /\ SessionsRevoked(h)
    /\ UNCHANGED <<users, access, resetJwt>>

\* After a re-registration a new code follows; after verifyEmail nothing.
RevokeOtps(h) ==
    /\ at[h] = "revokeOtps"
    /\ RevokeAll(req[h].user, "verifyEmail")
    /\ IF req[h].kind = "register" THEN GoTo(h, "sendOtp") ELSE Finish(h)
    /\ UNCHANGED <<users, access, resetJwt, resetTo>>

\* The last step of register and resendOtp, and of a login that is refused
\* because the e-mail is not verified.
SendOtp(h, t) ==
    /\ at[h] = "sendOtp"
    /\ Fresh(t)
    /\ Create(t, h, "verifyEmail", NoToken)
    /\ Finish(h)
    /\ UNCHANGED <<users, access, resetJwt, resetTo>>

\* resendOtp counts as an attempt before it sends a code.
ResendOtp(h, u) ==
    /\ Live(u) /\ ~users[u].isEmailVerified /\ ~IsUserLocked(u)
    /\ Begin(h, "resendOtp", u, NoToken, "countMiss")
    /\ UNCHANGED <<users, tokens, access, resetJwt, resetTo>>

CountMiss(h) ==
    /\ at[h] = "countMiss"
    /\ IncrementFailedAttempts(h)
    /\ IF req[h].kind = "resendOtp" THEN GoTo(h, "sendOtp") ELSE Finish(h)
    /\ UNCHANGED <<tokens, access, resetJwt, resetTo>>

-------------------------------------------------------------------------------
(* verifyEmail *)

VerifyEmail(h, u, t) ==
    /\ Live(u) /\ ~users[u].isEmailVerified /\ ~IsUserLocked(u)
    /\ Begin(h, "verifyEmail", u, t, "verifyCheck")
    /\ UNCHANGED <<users, tokens, access, resetJwt, resetTo>>

VerifyCheck(h) ==
    /\ at[h] = "verifyCheck"
    /\ Forget(h, IF Valid(req[h].token, "verifyEmail", req[h].user)
                  THEN "verifyWrite" ELSE "countMiss")
    /\ UNCHANGED <<users, tokens, access, resetJwt, resetTo>>

\* Registration requires an identity document, so the next step is always
\* UNDER_REVIEW. The account may be gone by now.
VerifyWrite(h) ==
    LET u == req[h].user
    IN  /\ at[h] = "verifyWrite"
        /\ UpdateById(u, [users[u] EXCEPT !.isEmailVerified = TRUE,
                                         !.onboardingStep = "UNDER_REVIEW"])
        /\ IF Live(u) THEN GoTo(h, "revokeOtps") ELSE Finish(h)
        /\ UNCHANGED <<tokens, access, resetJwt, resetTo>>

-------------------------------------------------------------------------------
(* login and refreshTokens *)

\* The password does not match.
LoginRefused(h, u) ==
    /\ Live(u) /\ ~IsUserLocked(u)
    /\ Begin(h, "login", u, NoToken, "countMiss")
    /\ UNCHANGED <<users, tokens, access, resetJwt, resetTo>>

\* Slip: the request is answered while its work goes on.
LoginAccepted_Unawaited(h, u) ==
    /\ Live(u) /\ ~IsUserLocked(u)
    /\ MustVerify(u) \/ Approved(u)
    /\ at[h] = "idle"
    /\ "login" \in Requests
    /\ req' = [req EXCEPT ![h] = [NoRequest EXCEPT !.kind = "login", !.user = u,
                                                  !.password = users[u].password]]
    /\ UNCHANGED <<users, tokens, access, resetJwt, at, resetTo>>

\* The password matches; an unverified account is sent a code, an account
\* under review is refused without a change.
LoginAccepted(h, u) ==
    /\ Live(u) /\ ~IsUserLocked(u)
    /\ MustVerify(u) \/ Approved(u)
    /\ at[h] = "idle"
    /\ "login" \in Requests
    /\ at' = [at EXCEPT ![h] = IF MustVerify(u) THEN "sendOtp" ELSE "clearMisses"]
    /\ req' = [req EXCEPT ![h] = [NoRequest EXCEPT !.kind = "login", !.user = u,
                                                  !.password = users[u].password]]
    /\ UNCHANGED <<users, tokens, access, resetJwt, resetTo>>

\* resetFailedAttempts, in login and forgotPassword.
ClearMisses(h) ==
    /\ at[h] = "clearMisses"
    /\ ResetFailedAttempts(h)
    /\ GoTo(h, IF req[h].kind = "login" THEN "issue" ELSE "revokeCodes")
    /\ UNCHANGED <<tokens, access, resetJwt, resetTo>>

\* issueTokenPair: the refresh token is stored, both are answered. Before it,
\* touchLastLogin writes fields nothing here depends on.
IssueTokenPair(h, t) ==
    /\ at[h] = "issue"
    /\ Fresh(t)
    /\ Create(t, h, "refresh", IF req[h].kind = "login" THEN t ELSE req[h].login)
    /\ access' = access \cup {req[h].user}
    /\ Finish(h)
    /\ UNCHANGED <<users, resetJwt, resetTo>>

\* Two refreshes overlap that both find the token active.
RefreshValidate(h, t) ==
    LET rivals == {k \in Handler : at[k] \in {"refreshUser", "rotate"} /\ req[k].token = t}
    IN  /\ at[h] = "idle"
        /\ "refresh" \in Requests
        /\ tokens[t].type = "refresh" /\ tokens[t].active
        /\ at' = [at EXCEPT ![h] = "refreshUser"]
        /\ req' = [k \in Handler |->
                     IF k = h
                     THEN [kind |-> "refresh", user |-> tokens[t].user, token |-> t,
                           login |-> tokens[t].login, password |-> tokens[t].password,
                           attempts |-> 0, late |-> tokens[t].late,
                           overlapped |-> tokens[t].overlapped \/ rivals # {}]
                     ELSE IF k \in rivals THEN [req[k] EXCEPT !.overlapped = TRUE]
                     ELSE req[k]]
        /\ UNCHANGED <<users, tokens, access, resetJwt, resetTo>>

RefreshUser(h) ==
    /\ at[h] = "refreshUser"
    /\ IF Live(req[h].user) THEN GoTo(h, "rotate") ELSE Finish(h)
    /\ UNCHANGED <<users, tokens, access, resetJwt, resetTo>>

\* Slip: the used refresh token stays valid.
Rotate_Kept(h) ==
    /\ at[h] = "rotate"
    /\ Forget(h, "issue")
    /\ UNCHANGED <<users, tokens, access, resetJwt, resetTo>>

\* revokeToken: whatever has become of the token since it was validated.
Rotate(h) ==
    /\ at[h] = "rotate"
    /\ tokens' = [tokens EXCEPT ![req[h].token].active = FALSE]
    /\ Forget(h, "issue")
    /\ UNCHANGED <<users, access, resetJwt, resetTo>>

-------------------------------------------------------------------------------
(* forgotPassword, verifyResetCode, resetPassword, changePassword *)

ForgotPassword(h, u) ==
    /\ Live(u) /\ ~IsUserLocked(u)
    /\ Begin(h, "forgot", u, NoToken, "clearMisses")
    /\ UNCHANGED <<users, tokens, access, resetJwt, resetTo>>

VerifyResetCode(h, u, t) ==
    /\ u \in resetJwt
    /\ Live(u) /\ ~IsUserLocked(u)
    /\ Begin(h, "verifyCode", u, t, "checkCode")
    /\ UNCHANGED <<users, tokens, access, resetJwt, resetTo>>

CheckCode(h) ==
    /\ at[h] = "checkCode"
    /\ Forget(h, IF Valid(req[h].token, "resetPassword", req[h].user)
                  THEN "revokeCodes" ELSE "countMiss")
    /\ UNCHANGED <<users, tokens, access, resetJwt, resetTo>>

\* Where the two requests that revoke codes go on. Two requests for a code
\* overlap that have both revoked and not yet created one.
CodesRevoked(h) ==
    LET rivals == {k \in Handler : at[k] = "sendCode" /\ req[k].user = req[h].user}
    IN  IF req[h].kind = "verifyCode"
        THEN Finish(h)
        ELSE /\ at' = [at EXCEPT ![h] = "sendCode"]
             /\ req' = [k \in Handler |->
                          IF k \in rivals \/ (k = h /\ rivals # {})
                          THEN [req[k] EXCEPT !.overlapped = TRUE]
                          ELSE req[k]]

\* Slip: a code that is asked for again leaves the earlier one valid.
RevokeCodes_Kept(h) ==
    /\ at[h] = "revokeCodes"
    /\ IF req[h].kind = "verifyCode"
       THEN RevokeAll(req[h].user, "resetPassword") ELSE UNCHANGED tokens
    /\ CodesRevoked(h)
    /\ UNCHANGED <<users, access, resetJwt, resetTo>>

RevokeCodes(h) ==
    /\ at[h] = "revokeCodes"
    /\ RevokeAll(req[h].user, "resetPassword")
    /\ CodesRevoked(h)
    /\ UNCHANGED <<users, access, resetJwt, resetTo>>

\* The code is mailed, the JWT answered.
SendCode(h, t) ==
    /\ at[h] = "sendCode"
    /\ Fresh(t)
    /\ Create(t, h, "resetPassword", NoToken)
    /\ resetJwt' = resetJwt \cup {req[h].user}
    /\ Finish(h)
    /\ UNCHANGED <<users, access, resetTo>>

ResetPassword(h, u) ==
    /\ u \in resetJwt
    /\ Live(u)
    /\ PasswordRoom(u)
    /\ Begin(h, "resetPassword", u, NoToken, "resetWrite")
    /\ UNCHANGED <<users, tokens, access, resetJwt, resetTo>>

\* The account may have been deleted: then nothing is written, and the
\* sessions are revoked all the same.
ResetWrite(h) ==
    LET u == req[h].user
    IN  /\ at[h] = "resetWrite"
        /\ UpdateById(u, [users[u] EXCEPT !.password = @ + 1])
        /\ at' = [at EXCEPT ![h] = "revokeSessions"]
        /\ req' = IF Live(u)
                  THEN [req EXCEPT ![h].password = users[u].password + 1] ELSE req
        /\ UNCHANGED <<tokens, access, resetJwt, resetTo>>

ChangePassword(h, u) ==
    /\ u \in access
    /\ Live(u)
    /\ PasswordRoom(u)
    /\ Begin(h, "changePassword", u, NoToken, "changeWrite")
    /\ UNCHANGED <<users, tokens, access, resetJwt, resetTo>>

ChangeWrite(h) ==
    LET u == req[h].user
    IN  /\ at[h] = "changeWrite"
        /\ UpdateById(u, [users[u] EXCEPT !.password = @ + 1])
        /\ Finish(h)
        /\ UNCHANGED <<tokens, access, resetJwt, resetTo>>

-------------------------------------------------------------------------------
(* user.service.ts: deleteMe, approveUser, declineUser *)

\* softDeleteById, one update; the tokens are left alone.
DeleteMe(u) ==
    /\ "deleteMe" \in Requests
    /\ u \in access
    /\ Live(u)
    /\ users' = [users EXCEPT ![u].state = "deleted"]
    /\ UNCHANGED <<tokens, access, resetJwt, at, req, resetTo>>

ApproveUser(h, u) ==
    /\ Live(u) /\ ~Approved(u)
    /\ Begin(h, "approve", u, NoToken, "approveWrite")
    /\ UNCHANGED <<users, tokens, access, resetJwt, resetTo>>

ApproveWrite(h) ==
    LET u == req[h].user
    IN  /\ at[h] = "approveWrite"
        /\ UpdateById(u, [users[u] EXCEPT !.onboardingStep = "APPROVED",
                                         !.isOnboardingCompleted = TRUE])
        /\ Finish(h)
        /\ UNCHANGED <<tokens, access, resetJwt, resetTo>>

DeclineUser(h, u) ==
    /\ Live(u)
    /\ Begin(h, "decline", u, NoToken, "declineWrite")
    /\ UNCHANGED <<users, tokens, access, resetJwt, resetTo>>

DeclineWrite(h) ==
    LET u == req[h].user
    IN  /\ at[h] = "declineWrite"
        /\ UpdateById(u, [users[u] EXCEPT !.onboardingStep = "UNDER_REVIEW",
                                         !.isOnboardingCompleted = FALSE])
        /\ Finish(h)
        /\ UNCHANGED <<tokens, access, resetJwt, resetTo>>

-------------------------------------------------------------------------------
(* The database's clock, and what can go wrong *)

\* The TTL index on expiresAt of unverified accounts removes the document.
ExpireUser(u) ==
    /\ users[u].state # "none"
    /\ ~users[u].isEmailVerified
    /\ users' = [users EXCEPT ![u].state = "none"]
    /\ UNCHANGED <<tokens, access, resetJwt, at, req, resetTo>>

\* A token's time is up: findActiveToken finds it no more, and the TTL index
\* removes it.
ExpireToken(t) ==
    /\ tokens[t].type # "none"
    /\ tokens' = [tokens EXCEPT ![t] = NoDoc]
    /\ UNCHANGED <<users, access, resetJwt, at, req, resetTo>>

\* An awaited call is refused, or the process dies.
BreakOff(h) ==
    /\ at[h] # "idle"
    /\ Finish(h)
    /\ UNCHANGED <<users, tokens, access, resetJwt, resetTo>>

\* A request that fails its first check (no such account, under review, wrong
\* old password, no valid token) is answered and changes nothing.
TurnedAway(h) ==
    /\ at[h] = "idle"
    /\ UNCHANGED vars

-------------------------------------------------------------------------------
Arrive(h, u) ==
    \/ CreateUser(h, u) \/ RegisterAgain(h, u) \/ ResendOtp(h, u)
    \/ LoginRefused(h, u) \/ LoginAccepted(h, u)
    \/ ForgotPassword(h, u) \/ ResetPassword(h, u) \/ ChangePassword(h, u)
    \/ ApproveUser(h, u) \/ DeclineUser(h, u)
    \/ \E t \in Token : VerifyEmail(h, u, t) \/ VerifyResetCode(h, u, t)

Continue(h) ==
    \/ Revive(h) \/ RevokeSessions(h) \/ RevokeOtps(h) \/ CountMiss(h)
    \/ VerifyCheck(h) \/ VerifyWrite(h) \/ ClearMisses(h)
    \/ RefreshUser(h) \/ Rotate(h) \/ RevokeCodes(h) \/ CheckCode(h)
    \/ ResetWrite(h) \/ ChangeWrite(h) \/ ApproveWrite(h) \/ DeclineWrite(h)
    \/ \E t \in Token : SendOtp(h, t) \/ IssueTokenPair(h, t) \/ SendCode(h, t)

Next ==
    \/ \E h \in Handler :
          \/ \E u \in User : Arrive(h, u)
          \/ TurnedAway(h)
          \/ \E t \in Token : RefreshValidate(h, t)
          \/ Continue(h)
          \/ BreakOff(h)
    \/ \E u \in User : DeleteMe(u) \/ ExpireUser(u)
    \/ \E t \in Token : ExpireToken(t)

Spec == Init /\ [][Next]_vars

-------------------------------------------------------------------------------
(* Properties *)

\* Every variable has its type; a handler is idle exactly when it serves
\* nobody, and a stored token belongs to somebody.
TypeOK ==
    /\ users \in [User -> UserDoc]
    /\ tokens \in [Token -> TokenDoc]
    /\ access \subseteq User
    /\ resetJwt \subseteq User
    /\ at \in [Handler -> Step]
    /\ req \in [Handler -> Request]
    /\ resetTo \in [User -> Nat]
    /\ \A h \in Handler : at[h] = "idle" <=> req[h].user = NoUser
    /\ \A t \in Token : tokens[t].type = "none" <=> tokens[t].user = NoUser

\* Refresh token rotation (auth.service.ts refreshTokens): of one session, two
\* refresh tokens are usable only if both come from refreshes that overlapped,
\* each having found the same token active before the other revoked it.
OneTokenPerSession ==
    \A s, t \in Token :
        /\ tokens[s].type = "refresh" /\ tokens[s].active
        /\ tokens[t].type = "refresh" /\ tokens[t].active
        /\ tokens[s].login = tokens[t].login
        => s = t \/ (tokens[s].overlapped /\ tokens[t].overlapped)

\* Reset and re-registration end the account's sessions (resetPassword and
\* register revoke after they have written): a usable refresh token goes back
\* to a login with that password or a later one, unless the login or refresh
\* that stored it was in flight when the sessions were revoked.
SessionsFollowPassword ==
    \A t \in Token :
        /\ tokens[t].type = "refresh" /\ tokens[t].active /\ ~tokens[t].late
        => tokens[t].password >= resetTo[tokens[t].user]

\* Only verified accounts log in (assertUserIsApproved), and re-registration,
\* which makes the e-mail unverified again, also sets a new password: a session
\* opened with the account's present password belongs to a verified account.
SessionOfVerifiedAccount ==
    \A t \in Token :
        LET u == tokens[t].user
        IN  /\ tokens[t].type = "refresh" /\ tokens[t].active
            /\ tokens[t].password = users[u].password
            => users[u].isEmailVerified

\* forgotPassword replaces the code it sent before: an account has two usable
\* reset codes only if both were asked for by requests that overlapped.
OneResetCode ==
    \A s, t \in Token :
        /\ tokens[s].type = "resetPassword" /\ tokens[s].active
        /\ tokens[t].type = "resetPassword" /\ tokens[t].active
        /\ tokens[s].user = tokens[t].user
        => s = t \/ (tokens[s].overlapped /\ tokens[t].overlapped)

\* What the documentation says of the profile fields: isOnboardingCompleted
\* holds of approved accounts only.
CompletedIsApproved ==
    \A u \in User : users[u].isOnboardingCompleted => users[u].onboardingStep = "APPROVED"

\* What the documentation says of a login with a wrong password: it counts as
\* a failed attempt.
FailedLoginCounted ==
    [][\A h \in Handler :
          at[h] = "countMiss" /\ req[h].kind = "login" /\ CountMiss(h)
          => users'[req[h].user].failedLoginAttempts
               = users[req[h].user].failedLoginAttempts + 1]_vars
===============================================================================
