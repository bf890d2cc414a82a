----------------------------- MODULE AccountsProofs -----------------------------
(***************************************************************************)
(* Proofs about Accounts, for every set of accounts, tokens and handlers   *)
(* and every bound.                                                        *)
(***************************************************************************)
EXTENDS Accounts, TLAPS

\* Next, action by action.
LEMMA NextActions ==
    ASSUME Next
    PROVE  \/ \E h \in Handler, u \in User :
                \/ CreateUser(h, u) \/ RegisterAgain(h, u) \/ ResendOtp(h, u)
                \/ LoginRefused(h, u) \/ LoginAccepted(h, u)
                \/ ForgotPassword(h, u) \/ ResetPassword(h, u) \/ ChangePassword(h, u)
                \/ ApproveUser(h, u) \/ DeclineUser(h, u)
           \/ \E h \in Handler, u \in User, t \in Token :
                VerifyEmail(h, u, t) \/ VerifyResetCode(h, u, t)
           \/ \E h \in Handler :
                \/ Revive(h) \/ RevokeSessions(h) \/ RevokeOtps(h) \/ CountMiss(h)
                \/ VerifyCheck(h) \/ VerifyWrite(h) \/ ClearMisses(h)
                \/ RefreshUser(h) \/ Rotate(h) \/ RevokeCodes(h) \/ CheckCode(h)
                \/ ResetWrite(h) \/ ChangeWrite(h) \/ ApproveWrite(h) \/ DeclineWrite(h)
                \/ BreakOff(h) \/ TurnedAway(h)
           \/ \E h \in Handler, t \in Token :
                RefreshValidate(h, t) \/ SendOtp(h, t) \/ IssueTokenPair(h, t) \/ SendCode(h, t)
           \/ \E u \in User : DeleteMe(u) \/ ExpireUser(u)
           \/ \E t \in Token : ExpireToken(t)
  BY DEF Next, Arrive, Continue

-------------------------------------------------------------------------------
(* Types *)

\* The parts of the type invariant about handlers, accounts and tokens.
HandlerTypes ==
    /\ at \in [Handler -> Step]
    /\ req \in [Handler -> Request]
    /\ \A h \in Handler : at[h] = "idle" <=> req[h].user = NoUser

UserTypes == users \in [User -> UserDoc]

TokenTypes ==
    /\ tokens \in [Token -> TokenDoc]
    /\ \A t \in Token : tokens[t].type = "none" <=> tokens[t].user = NoUser

OtherTypes == access \subseteq User /\ resetJwt \subseteq User /\ resetTo \in [User -> Nat]

LEMMA TypeParts == TypeOK <=> HandlerTypes /\ UserTypes /\ TokenTypes /\ OtherTypes
  BY DEF TypeOK, HandlerTypes, UserTypes, TokenTypes, OtherTypes

LEMMA NoRequestType == NoRequest \in Request /\ NoRequest.user = NoUser
  BY DEF NoRequest, Request

LEMMA BeginTypes ==
    ASSUME HandlerTypes, UserTypes, NEW h \in Handler, NEW u \in User,
           NEW t \in Token \cup {NoToken}, NEW kind \in Kind, NEW step \in Step \ {"idle"},
           Begin(h, kind, u, t, step)
    PROVE  HandlerTypes'
<1>1. users[u].failedLoginAttempts \in Nat
  BY DEF UserTypes, UserDoc
<1>2. req'[h] \in Request /\ req'[h].user = u
  BY <1>1 DEF HandlerTypes, Begin, Request, NoRequest
<1> QED
  BY <1>2, AccountsAssumption DEF HandlerTypes, Begin, AccountsAssumption

LEMMA GoToTypes ==
    ASSUME HandlerTypes, NEW h \in Handler, at[h] # "idle", NEW step \in Step \ {"idle"},
           GoTo(h, step) \/ Forget(h, step)
    PROVE  HandlerTypes'
<1>1. CASE GoTo(h, step)
  BY <1>1 DEF HandlerTypes, GoTo
<1>2. CASE Forget(h, step)
  <2>1. req'[h] \in Request /\ req'[h].user = req[h].user
    BY <1>2 DEF HandlerTypes, Forget, Request
  <2> QED
    BY <1>2, <2>1 DEF HandlerTypes, Forget
<1> QED
  BY <1>1, <1>2

LEMMA FinishTypes ==
    ASSUME HandlerTypes, NEW h \in Handler, Finish(h)
    PROVE  HandlerTypes'
  BY NoRequestType DEF HandlerTypes, Finish, Step

\* The handler that holds a request serves an account.
LEMMA BusyUser ==
    ASSUME HandlerTypes, NEW h \in Handler, at[h] # "idle"
    PROVE  req[h] \in Request /\ req[h].user \in User
  BY DEF HandlerTypes, Request

LEMMA UpdateTypes ==
    ASSUME UserTypes, NEW id, NEW doc,
           id \in User => doc \in UserDoc,
           UpdateById(id, doc)
    PROVE  UserTypes'
  BY DEF UserTypes, UpdateById

LEMMA RevokeTypes ==
    ASSUME TokenTypes, NEW u, NEW type, RevokeAll(u, type)
    PROVE  TokenTypes'
  BY DEF TokenTypes, RevokeAll, TokenDoc

LEMMA CreateTypes ==
    ASSUME TokenTypes, HandlerTypes, NEW h \in Handler, at[h] # "idle", NEW t \in Token,
           NEW type \in TOKEN_TYPES, NEW login \in Token \cup {NoToken},
           Create(t, h, type, login)
    PROVE  TokenTypes'
<1>1. req[h] \in Request /\ req[h].user \in User
  BY BusyUser
<1>2. tokens'[t] \in TokenDoc /\ tokens'[t].type # "none" /\ tokens'[t].user # NoUser
  BY <1>1, AccountsAssumption
     DEF Create, TokenTypes, TokenDoc, Request, AccountsAssumption, TOKEN_TYPES
<1> QED
  BY <1>2 DEF TokenTypes, Create

LEMMA RevivedType ==
    ASSUME NEW n \in Nat
    PROVE  LET revived == [NewUser EXCEPT !.state = "live", !.password = n]
           IN  revived \in UserDoc /\ revived.password = n
  BY DEF NewUser, UserDoc, State, ONBOARDING_STEPS

\* Marking a request changes neither its type nor whom it serves.
LEMMA MarkTypes ==
    ASSUME NEW r \in Request
    PROVE  /\ [r EXCEPT !.overlapped = TRUE] \in Request
           /\ [r EXCEPT !.overlapped = TRUE].user = r.user
           /\ [r EXCEPT !.late = TRUE] \in Request
           /\ [r EXCEPT !.late = TRUE].user = r.user
           /\ \A n \in Nat : [r EXCEPT !.password = n] \in Request
           /\ \A n \in Nat : [r EXCEPT !.password = n].user = r.user
  BY DEF Request

\* incrementFailedAttempts and resetFailedAttempts address no document.
LEMMA AttemptsUnchanged ==
    ASSUME NEW h, IncrementFailedAttempts(h) \/ ResetFailedAttempts(h)
    PROVE  users' = users
  BY AccountsAssumption
     DEF IncrementFailedAttempts, ResetFailedAttempts, UpdateById, IdOf, AccountsAssumption

\* A handler that only moves on, or changes one account and moves on.
QuietStep(h) ==
    \/ RevokeOtps(h) \/ CountMiss(h) \/ VerifyCheck(h) \/ VerifyWrite(h) \/ ClearMisses(h)
    \/ RefreshUser(h) \/ CheckCode(h) \/ ChangeWrite(h) \/ ApproveWrite(h)
    \/ DeclineWrite(h) \/ BreakOff(h)

LEMMA QuietMove ==
    ASSUME NEW h \in Handler, QuietStep(h)
    PROVE  /\ at[h] # "idle"
           /\ Finish(h) \/ \E step \in Step \ {"idle"} : GoTo(h, step) \/ Forget(h, step)
  BY DEF QuietStep, RevokeOtps, CountMiss, VerifyCheck, VerifyWrite, ClearMisses, RefreshUser,
         CheckCode, ChangeWrite, ApproveWrite, DeclineWrite, BreakOff, Step

LEMMA QuietUsers ==
    ASSUME TypeOK, NEW h \in Handler, QuietStep(h)
    PROVE  UserTypes'
<1>1. at[h] # "idle" /\ HandlerTypes /\ UserTypes
  BY QuietMove, TypeParts
<1>2. PICK u \in User : u = req[h].user
  BY <1>1, BusyUser
<1>3. users[u] \in UserDoc
  BY <1>1 DEF UserTypes
<1>4. CASE CountMiss(h) \/ ClearMisses(h)
  BY <1>1, <1>4, AttemptsUnchanged DEF CountMiss, ClearMisses, UserTypes
<1>5. CASE VerifyWrite(h)
  BY <1>1, <1>2, <1>3, <1>5, UpdateTypes DEF VerifyWrite, UserDoc, ONBOARDING_STEPS
<1>6. CASE ChangeWrite(h)
  BY <1>1, <1>2, <1>3, <1>6, UpdateTypes DEF ChangeWrite, UserDoc
<1>7. CASE ApproveWrite(h)
  BY <1>1, <1>2, <1>3, <1>7, UpdateTypes DEF ApproveWrite, UserDoc, ONBOARDING_STEPS
<1>8. CASE DeclineWrite(h)
  BY <1>1, <1>2, <1>3, <1>8, UpdateTypes DEF DeclineWrite, UserDoc, ONBOARDING_STEPS
<1>9. CASE RevokeOtps(h) \/ VerifyCheck(h) \/ RefreshUser(h) \/ CheckCode(h) \/ BreakOff(h)
  BY <1>1, <1>9 DEF RevokeOtps, VerifyCheck, RefreshUser, CheckCode, BreakOff, UserTypes
<1> QED
  BY <1>4, <1>5, <1>6, <1>7, <1>8, <1>9 DEF QuietStep

LEMMA TypeStep ==
    ASSUME TypeOK, [Next]_vars
    PROVE  TypeOK'
<1>p. HandlerTypes /\ UserTypes /\ TokenTypes /\ OtherTypes
  BY TypeParts
<1>s. ASSUME HandlerTypes', UserTypes', TokenTypes', OtherTypes' PROVE TypeOK'
  BY <1>s DEF TypeOK, HandlerTypes, UserTypes, TokenTypes, OtherTypes
<1>1. CASE UNCHANGED vars
  BY <1>1 DEF vars, TypeOK
<1>2. ASSUME NEW h \in Handler, NEW u \in User, NEW t \in Token \cup {NoToken},
             NEW kind \in Kind, NEW step \in Step \ {"idle"},
             Begin(h, kind, u, t, step), UNCHANGED <<users, tokens, access, resetJwt, resetTo>>
      PROVE  TypeOK'
  <2>1. HandlerTypes'
    BY <1>p, <1>2, BeginTypes
  <2> QED
    BY <1>p, <1>s, <1>2, <2>1 DEF UserTypes, TokenTypes, OtherTypes
<1>3. ASSUME NEW h \in Handler, NEW u \in User,
             \/ RegisterAgain(h, u) \/ ResendOtp(h, u) \/ LoginRefused(h, u)
             \/ ForgotPassword(h, u) \/ ResetPassword(h, u) \/ ChangePassword(h, u)
             \/ ApproveUser(h, u) \/ DeclineUser(h, u)
             \/ \E t \in Token : VerifyEmail(h, u, t) \/ VerifyResetCode(h, u, t)
      PROVE  TypeOK'
  <2>1. PICK t \in Token \cup {NoToken}, kind \in Kind, step \in Step \ {"idle"} :
           Begin(h, kind, u, t, step)
    BY <1>3 DEF RegisterAgain, ResendOtp, LoginRefused, ForgotPassword, ResetPassword,
                ChangePassword, ApproveUser, DeclineUser, VerifyEmail, VerifyResetCode,
                Kind, Step
  <2>2. UNCHANGED <<users, tokens, access, resetJwt, resetTo>>
    BY <1>3 DEF RegisterAgain, ResendOtp, LoginRefused, ForgotPassword, ResetPassword,
                ChangePassword, ApproveUser, DeclineUser, VerifyEmail, VerifyResetCode
  <2> QED
    BY <1>2, <2>1, <2>2
<1>4. ASSUME NEW h \in Handler, NEW u \in User, CreateUser(h, u)
      PROVE  TypeOK'
  <2>1. HandlerTypes'
    <3>1. Begin(h, "register", u, NoToken, "sendOtp")
      BY <1>4 DEF CreateUser
    <3> QED
      BY <1>p, <3>1, BeginTypes DEF Kind, Step
  <2>2. UserTypes'
    BY <1>p, <1>4 DEF CreateUser, UserTypes, UserDoc, NewUser, State, ONBOARDING_STEPS
  <2> QED
    BY <1>p, <1>s, <1>4, <2>1, <2>2 DEF CreateUser, TokenTypes, OtherTypes
<1>5. ASSUME NEW h \in Handler, NEW u \in User, LoginAccepted(h, u)
      PROVE  TypeOK'
  <2>1. req'[h] \in Request /\ req'[h].user = u
    BY <1>p, <1>5 DEF LoginAccepted, HandlerTypes, UserTypes, UserDoc, Request, NoRequest, Kind
  <2>2. HandlerTypes'
    BY <1>p, <1>5, <2>1, AccountsAssumption
       DEF LoginAccepted, HandlerTypes, Step, AccountsAssumption
  <2> QED
    BY <1>p, <1>s, <1>5, <2>2 DEF LoginAccepted, UserTypes, TokenTypes, OtherTypes
<1>6. ASSUME NEW h \in Handler, QuietStep(h)
      PROVE  TypeOK'
  <2>1. HandlerTypes'
    BY <1>p, <1>6, QuietMove, FinishTypes, GoToTypes
  <2>2. TokenTypes'
    <3>1. CASE RevokeOtps(h)
      BY <1>p, <3>1, RevokeTypes DEF RevokeOtps
    <3>2. CASE ~RevokeOtps(h)
      BY <1>p, <1>6, <3>2
         DEF QuietStep, CountMiss, VerifyCheck, VerifyWrite, ClearMisses, RefreshUser,
             CheckCode, ChangeWrite, ApproveWrite, DeclineWrite, BreakOff, TokenTypes
    <3> QED
      BY <3>1, <3>2
  <2>3. OtherTypes'
    BY <1>p, <1>6
       DEF QuietStep, RevokeOtps, CountMiss, VerifyCheck, VerifyWrite, ClearMisses,
           RefreshUser, CheckCode, ChangeWrite, ApproveWrite, DeclineWrite, BreakOff, OtherTypes
  <2> QED
    BY <1>6, <1>s, <2>1, <2>2, <2>3, QuietUsers
<1>7. ASSUME NEW h \in Handler, Revive(h)
      PROVE  TypeOK'
  <2>1. PICK u \in User : u = req[h].user /\ users[u] \in UserDoc /\ req[h] \in Request
    BY <1>p, <1>7, BusyUser DEF Revive, UserTypes
  <2>2. CASE users[u].state = "none"
    <3>1. GoTo(h, "revokeSessions") /\ users' = users
      BY <1>7, <2>1, <2>2 DEF Revive
    <3>2. HandlerTypes'
      BY <1>p, <1>7, <3>1, GoToTypes DEF Revive, Step
    <3> QED
      BY <1>p, <1>s, <1>7, <3>1, <3>2 DEF Revive, UserTypes, TokenTypes, OtherTypes
  <2>3. CASE users[u].state # "none"
    <3> DEFINE revived == [NewUser EXCEPT !.state = "live", !.password = users[u].password + 1]
    <3>0. revived \in UserDoc /\ revived.password \in Nat
      <4>1. users[u].password + 1 \in Nat
        BY <2>1 DEF UserDoc
      <4> QED
        BY <4>1, RevivedType
    <3>3. /\ users' = [users EXCEPT ![u] = revived]
          /\ req' = [req EXCEPT ![h].password = revived.password]
      BY <1>7, <2>1, <2>3 DEF Revive
    <3> HIDE DEF revived
    <3>1. UserTypes'
      BY <1>p, <3>0, <3>3 DEF UserTypes
    <3>2. HandlerTypes'
      <4>1. req'[h] \in Request /\ req'[h].user = u
        BY <1>p, <2>1, <3>0, <3>3, MarkTypes DEF HandlerTypes
      <4> QED
        BY <1>p, <1>7, <2>1, <2>3, <4>1 DEF Revive, HandlerTypes, Step
    <3> QED
      BY <1>p, <1>s, <1>7, <3>1, <3>2 DEF Revive, TokenTypes, OtherTypes
  <2> QED
    BY <2>2, <2>3
<1>8. ASSUME NEW h \in Handler, RevokeSessions(h)
      PROVE  TypeOK'
  <2>1. req[h] \in Request /\ req[h].user \in User
    BY <1>p, <1>8, BusyUser DEF RevokeSessions
  <2>2. TokenTypes'
    BY <1>p, <1>8, RevokeTypes DEF RevokeSessions
  <2>3. ASSUME NEW k \in Handler
        PROVE  req'[k] \in Request /\ (at'[k] = "idle" <=> req'[k].user = NoUser)
    <3>1. req[k] \in Request /\ (at[k] = "idle" <=> req[k].user = NoUser)
      BY <1>p DEF HandlerTypes
    <3> QED
      <4>1. CASE k = h
        BY <1>p, <1>8, <2>1, <4>1, NoRequestType, AccountsAssumption
           DEF RevokeSessions, SessionsRevoked, HandlerTypes, AccountsAssumption
      <4>2. CASE k # h
        <5>1. at'[k] = at[k] /\ (req'[k] = req[k] \/ req'[k] = [req[k] EXCEPT !.late = TRUE])
          BY <1>p, <1>8, <4>2 DEF RevokeSessions, SessionsRevoked, HandlerTypes
        <5> QED
          BY <3>1, <5>1, MarkTypes
      <4> QED
        BY <4>1, <4>2
  <2>4. HandlerTypes'
    BY <1>p, <1>8, <2>3 DEF RevokeSessions, SessionsRevoked, HandlerTypes, Step
  <2>5. OtherTypes'
    BY <1>p, <1>8, <2>1 DEF RevokeSessions, SessionsRevoked, OtherTypes, Request
  <2> QED
    BY <1>p, <1>s, <1>8, <2>2, <2>4, <2>5 DEF RevokeSessions, UserTypes
<1>9. ASSUME NEW h \in Handler, Rotate(h)
      PROVE  TypeOK'
  <2>1. HandlerTypes'
    BY <1>p, <1>9, GoToTypes DEF Rotate, Step
  <2>2. TokenTypes'
    <3>1. ASSUME NEW t \in Token
          PROVE  /\ tokens'[t] \in TokenDoc
                 /\ tokens'[t].type = tokens[t].type /\ tokens'[t].user = tokens[t].user
      <4>1. tokens[t] \in TokenDoc
        BY <1>p DEF TokenTypes
      <4>2. tokens'[t] = tokens[t] \/ tokens'[t] = [tokens[t] EXCEPT !.active = FALSE]
        BY <1>p, <1>9 DEF Rotate, TokenTypes
      <4> QED
        BY <4>1, <4>2 DEF TokenDoc
    <3>2. tokens' = [t \in Token |-> tokens'[t]]
      BY <1>p, <1>9 DEF Rotate, TokenTypes
    <3> QED
      BY <1>p, <3>1, <3>2 DEF TokenTypes
  <2> QED
    BY <1>p, <1>s, <1>9, <2>1, <2>2 DEF Rotate, UserTypes, OtherTypes
<1>10. ASSUME NEW h \in Handler, RevokeCodes(h)
       PROVE  TypeOK'
  <2>1. TokenTypes'
    BY <1>p, <1>10, RevokeTypes DEF RevokeCodes
  <2>2. HandlerTypes'
    <3>1. CASE req[h].kind = "verifyCode"
      BY <1>p, <1>10, <3>1, FinishTypes DEF RevokeCodes, CodesRevoked
    <3>2. CASE req[h].kind # "verifyCode"
      <4>1. ASSUME NEW k \in Handler
            PROVE  req'[k] \in Request /\ req'[k].user = req[k].user
        BY <1>p, <1>10, <3>2, MarkTypes DEF RevokeCodes, CodesRevoked, HandlerTypes
      <4> QED
        BY <1>p, <1>10, <3>2, <4>1 DEF RevokeCodes, CodesRevoked, HandlerTypes, Step
    <3> QED
      BY <3>1, <3>2
  <2> QED
    BY <1>p, <1>s, <1>10, <2>1, <2>2 DEF RevokeCodes, UserTypes, OtherTypes
<1>11. ASSUME NEW h \in Handler, ResetWrite(h)
       PROVE  TypeOK'
  <2>1. PICK u \in User : u = req[h].user /\ users[u] \in UserDoc /\ req[h] \in Request
    BY <1>p, <1>11, BusyUser DEF ResetWrite, UserTypes
  <2>2. UserTypes'
    BY <1>p, <1>11, <2>1, UpdateTypes DEF ResetWrite, UserDoc
  <2>3. req'[h] \in Request /\ req'[h].user = u
    <3>1. users[u].password + 1 \in Nat
      BY <2>1 DEF UserDoc
    <3>2. req'[h] = req[h] \/ req'[h] = [req[h] EXCEPT !.password = users[u].password + 1]
      BY <1>p, <1>11, <2>1 DEF ResetWrite, HandlerTypes
    <3> QED
      BY <2>1, <3>1, <3>2, MarkTypes
  <2>4. HandlerTypes'
    BY <1>p, <1>11, <2>1, <2>3 DEF ResetWrite, HandlerTypes, Step
  <2> QED
    BY <1>p, <1>s, <1>11, <2>2, <2>4 DEF ResetWrite, TokenTypes, OtherTypes
<1>12. ASSUME NEW h \in Handler, NEW t \in Token, RefreshValidate(h, t)
       PROVE  TypeOK'
  <2>1. tokens[t] \in TokenDoc /\ tokens[t].user \in User
    BY <1>p, <1>12 DEF RefreshValidate, TokenTypes, TokenDoc
  <2>2. ASSUME NEW k \in Handler
        PROVE  /\ req'[k] \in Request
               /\ req'[k].user = IF k = h THEN tokens[t].user ELSE req[k].user
    <3>1. req[k] \in Request
      BY <1>p DEF HandlerTypes
    <3>2. CASE k = h
      <4>1. PICK o \in BOOLEAN :
               req'[h] = [kind |-> "refresh", user |-> tokens[t].user, token |-> t,
                          login |-> tokens[t].login, password |-> tokens[t].password,
                          attempts |-> 0, late |-> tokens[t].late, overlapped |-> o]
        BY <1>12 DEF RefreshValidate
      <4> QED
        BY <2>1, <3>2, <4>1 DEF Request, TokenDoc, Kind
    <3>3. CASE k # h
      BY <1>12, <3>1, <3>3, MarkTypes DEF RefreshValidate
    <3> QED
      BY <3>2, <3>3
  <2>3. HandlerTypes'
    BY <1>p, <1>12, <2>1, <2>2, AccountsAssumption
       DEF RefreshValidate, HandlerTypes, Step, AccountsAssumption
  <2> QED
    BY <1>p, <1>s, <1>12, <2>3 DEF RefreshValidate, UserTypes, TokenTypes, OtherTypes
<1>13. ASSUME NEW h \in Handler, NEW t \in Token,
              SendOtp(h, t) \/ IssueTokenPair(h, t) \/ SendCode(h, t)
       PROVE  TypeOK'
  <2>1. at[h] # "idle" /\ Finish(h) /\ UNCHANGED <<users, resetTo>>
    BY <1>13 DEF SendOtp, IssueTokenPair, SendCode
  <2>2. req[h] \in Request /\ req[h].user \in User
    BY <1>p, <2>1, BusyUser
  <2>3. TokenTypes'
    <3>1. PICK type \in TOKEN_TYPES, login \in Token \cup {NoToken} : Create(t, h, type, login)
      BY <1>13, <2>2 DEF SendOtp, IssueTokenPair, SendCode, TOKEN_TYPES, Request
    <3> QED
      BY <1>p, <2>1, <3>1, CreateTypes
  <2>4. OtherTypes'
    BY <1>p, <1>13, <2>2 DEF SendOtp, IssueTokenPair, SendCode, OtherTypes
  <2> QED
    BY <1>p, <1>s, <2>1, <2>3, <2>4, FinishTypes DEF UserTypes
<1>14. ASSUME NEW u \in User, DeleteMe(u) \/ ExpireUser(u)
       PROVE  TypeOK'
  <2>1. UserTypes'
    BY <1>p, <1>14 DEF DeleteMe, ExpireUser, UserTypes, UserDoc, State
  <2> QED
    BY <1>p, <1>s, <1>14, <2>1 DEF DeleteMe, ExpireUser, HandlerTypes, TokenTypes, OtherTypes
<1>15. ASSUME NEW t \in Token, ExpireToken(t)
       PROVE  TypeOK'
  <2>1. TokenTypes'
    BY <1>p, <1>15 DEF ExpireToken, TokenTypes, TokenDoc, NoDoc
  <2> QED
    BY <1>p, <1>s, <1>15, <2>1 DEF ExpireToken, HandlerTypes, UserTypes, OtherTypes
<1>16. ASSUME NEW h \in Handler, TurnedAway(h) PROVE TypeOK'
  BY <1>1, <1>16 DEF TurnedAway
<1> QED
  BY <1>1, <1>3, <1>4, <1>5, <1>6, <1>7, <1>8, <1>9, <1>10, <1>11, <1>12, <1>13, <1>14,
     <1>15, <1>16, NextActions DEF QuietStep

\* Types: every variable keeps its type (users and tokens collections, and
\* what the handlers hold).
THEOREM TypeCorrect == Spec => []TypeOK
<1>1. Init => TypeOK
  BY NoRequestType
     DEF Init, TypeOK, NewUser, UserDoc, State, ONBOARDING_STEPS, NoDoc, TokenDoc, Step
<1>2. TypeOK /\ [Next]_vars => TypeOK'
  BY TypeStep
<1> QED
  BY <1>1, <1>2, PTL DEF Spec

-------------------------------------------------------------------------------
(* Reset codes *)

UsableCode(t) == tokens[t].type = "resetPassword" /\ tokens[t].active

\* Two handlers about to send a code to one account have overlapped, and so
\* has one about to send with the one whose code is usable.
SendersApart ==
    \A h, k \in Handler :
        at[h] = "sendCode" /\ at[k] = "sendCode" /\ req[h].user = req[k].user
        => h = k \/ (req[h].overlapped /\ req[k].overlapped)
SenderAlone ==
    \A h \in Handler, t \in Token :
        at[h] = "sendCode" /\ UsableCode(t) /\ tokens[t].user = req[h].user
        => req[h].overlapped /\ tokens[t].overlapped

CodesInv == SendersApart /\ SenderAlone /\ OneResetCode

\* No usable code and no sender appears, and none changes its account.
CodesKept ==
    \A t \in Token :
        UsableCode(t)' => /\ UsableCode(t)
                          /\ tokens'[t].user = tokens[t].user
                          /\ tokens'[t].overlapped = tokens[t].overlapped
SendersKept ==
    \A h \in Handler :
        at'[h] = "sendCode" => /\ at[h] = "sendCode"
                               /\ req'[h].user = req[h].user
                               /\ req[h].overlapped => req'[h].overlapped

LEMMA CodesFrame ==
    ASSUME CodesInv, CodesKept, SendersKept
    PROVE  CodesInv'
<1>1. SendersApart'
  BY DEF CodesInv, SendersApart, SendersKept
<1>2. SenderAlone'
  BY DEF CodesInv, SenderAlone, SendersKept, CodesKept
<1>3. OneResetCode'
  BY DEF CodesInv, OneResetCode, CodesKept, UsableCode
<1> QED
  BY <1>1, <1>2, <1>3 DEF CodesInv

\* One handler moves, and not to sendCode.
LEMMA SendersMove ==
    ASSUME NEW h \in Handler, at'[h] # "sendCode",
           \A k \in Handler \ {h} : /\ at'[k] = at[k]
                                    /\ req'[k].user = req[k].user
                                    /\ req[k].overlapped => req'[k].overlapped
    PROVE  SendersKept
  BY DEF SendersKept

\* The codes sent before are revoked; whoever is still to send one for the
\* account is marked, and so is this handler.
LEMMA RevokeCodesStep ==
    ASSUME TypeOK, CodesInv, NEW h \in Handler, RevokeCodes(h)
    PROVE  CodesInv'
<1> DEFINE rivals == {k \in Handler : at[k] = "sendCode" /\ req[k].user = req[h].user}
<1>1. CodesKept
  BY DEF RevokeCodes, RevokeAll, CodesKept, UsableCode
<1>2. CASE req[h].kind = "verifyCode"
  BY <1>1, <1>2, CodesFrame, SendersMove DEF RevokeCodes, CodesRevoked, Finish, TypeOK
<1>3. CASE req[h].kind # "verifyCode"
  <2>1. ASSUME NEW k \in Handler
        PROVE  /\ at'[k] = IF k = h THEN "sendCode" ELSE at[k]
               /\ req'[k].user = req[k].user
               /\ req[k].overlapped => req'[k].overlapped
               /\ k \in rivals \/ (k = h /\ rivals # {}) => req'[k].overlapped
    <3>1. req[k] \in Request
      BY DEF TypeOK
    <3>2. /\ at'[k] = IF k = h THEN "sendCode" ELSE at[k]
          /\ req'[k] = IF k \in rivals \/ (k = h /\ rivals # {})
                       THEN [req[k] EXCEPT !.overlapped = TRUE] ELSE req[k]
      BY <1>3 DEF RevokeCodes, CodesRevoked, TypeOK
    <3> HIDE DEF rivals
    <3> QED
      BY <3>1, <3>2 DEF Request
  <2>2. ASSUME NEW t \in Token, UsableCode(t)'
        PROVE  tokens'[t].user # req[h].user
    BY <2>2 DEF RevokeCodes, RevokeAll, UsableCode, TypeOK, TokenDoc
  <2>3. SendersApart'
    <3>1. ASSUME NEW i \in Handler, NEW k \in Handler, i # k, at'[i] = "sendCode",
                 at'[k] = "sendCode", req'[i].user = req'[k].user
          PROVE  req'[i].overlapped /\ req'[k].overlapped
      <4>1. CASE i = h
        BY <2>1, <3>1, <4>1
      <4>2. CASE k = h
        BY <2>1, <3>1, <4>2
      <4>3. CASE i # h /\ k # h
        BY <2>1, <3>1, <4>3 DEF CodesInv, SendersApart
      <4> QED
        BY <4>1, <4>2, <4>3
    <3> QED
      BY <3>1 DEF SendersApart
  <2>4. SenderAlone'
    <3>1. ASSUME NEW k \in Handler, NEW t \in Token, at'[k] = "sendCode", UsableCode(t)',
                 tokens'[t].user = req'[k].user
          PROVE  req'[k].overlapped /\ tokens'[t].overlapped
      <4>1. k # h
        BY <2>1, <2>2, <3>1
      <4> QED
        BY <1>1, <2>1, <3>1, <4>1 DEF CodesKept, CodesInv, SenderAlone
    <3> QED
      BY <3>1 DEF SenderAlone
  <2>5. OneResetCode'
    BY <1>1 DEF CodesInv, OneResetCode, CodesKept, UsableCode
  <2> QED
    BY <2>3, <2>4, <2>5 DEF CodesInv
<1> QED
  BY <1>2, <1>3

\* The code sent is as overlapped as its handler.
LEMMA SendCodeStep ==
    ASSUME TypeOK, CodesInv, NEW h \in Handler, NEW t \in Token, SendCode(h, t)
    PROVE  CodesInv'
<1>1. /\ at[h] = "sendCode" /\ at'[h] = "idle"
      /\ \A k \in Handler : k # h => at'[k] = at[k] /\ req'[k] = req[k]
  BY DEF SendCode, Finish, TypeOK
<1>2. /\ tokens'[t].user = req[h].user /\ tokens'[t].overlapped = req[h].overlapped
      /\ \A s \in Token : s # t => tokens'[s] = tokens[s] /\ (UsableCode(s)' <=> UsableCode(s))
  BY DEF SendCode, Create, TypeOK, UsableCode
<1>3. SendersApart'
  BY <1>1 DEF CodesInv, SendersApart
<1>4. SenderAlone'
  <2>1. ASSUME NEW k \in Handler, NEW s \in Token, at'[k] = "sendCode", UsableCode(s)',
               tokens'[s].user = req'[k].user
        PROVE  req'[k].overlapped /\ tokens'[s].overlapped
    <3>1. CASE s = t
      BY <1>1, <1>2, <2>1, <3>1 DEF CodesInv, SendersApart
    <3>2. CASE s # t
      BY <1>1, <1>2, <2>1, <3>2 DEF CodesInv, SenderAlone
    <3> QED
      BY <3>1, <3>2
  <2> QED
    BY <2>1 DEF SenderAlone
<1>5. OneResetCode'
  <2>1. ASSUME NEW r \in Token, NEW s \in Token, r # s, UsableCode(r)', UsableCode(s)',
               tokens'[r].user = tokens'[s].user
        PROVE  tokens'[r].overlapped /\ tokens'[s].overlapped
    <3>1. CASE r = t
      BY <1>1, <1>2, <2>1, <3>1 DEF CodesInv, SenderAlone
    <3>2. CASE s = t
      BY <1>1, <1>2, <2>1, <3>2 DEF CodesInv, SenderAlone
    <3>3. CASE r # t /\ s # t
      BY <1>2, <2>1, <3>3 DEF CodesInv, OneResetCode, UsableCode
    <3> QED
      BY <3>1, <3>2, <3>3
  <2> QED
    BY <2>1 DEF OneResetCode, UsableCode
<1> QED
  BY <1>3, <1>4, <1>5 DEF CodesInv

LEMMA CodesStep ==
    ASSUME TypeOK, CodesInv, [Next]_vars
    PROVE  CodesInv'
<1>1. CASE UNCHANGED vars
  BY <1>1 DEF vars, CodesInv, SendersApart, SenderAlone, OneResetCode, UsableCode
<1>2. ASSUME NEW h \in Handler, NEW u \in User,
             \/ CreateUser(h, u) \/ RegisterAgain(h, u) \/ ResendOtp(h, u)
             \/ LoginRefused(h, u) \/ LoginAccepted(h, u)
             \/ ForgotPassword(h, u) \/ ResetPassword(h, u) \/ ChangePassword(h, u)
             \/ ApproveUser(h, u) \/ DeclineUser(h, u)
             \/ \E t \in Token : VerifyEmail(h, u, t) \/ VerifyResetCode(h, u, t)
      PROVE  CodesInv'
  <2>1. CodesKept
    BY <1>2 DEF CreateUser, RegisterAgain, ResendOtp, LoginRefused, LoginAccepted,
                ForgotPassword, ResetPassword, ChangePassword, ApproveUser, DeclineUser,
                VerifyEmail, VerifyResetCode, CodesKept, UsableCode
  <2>2. /\ at'[h] # "sendCode"
        /\ \A k \in Handler : k # h => at'[k] = at[k] /\ req'[k] = req[k]
    BY <1>2 DEF CreateUser, RegisterAgain, ResendOtp, LoginRefused, LoginAccepted,
                ForgotPassword, ResetPassword, ChangePassword, ApproveUser, DeclineUser,
                VerifyEmail, VerifyResetCode, Begin, TypeOK
  <2> QED
    BY <2>1, <2>2, SendersMove, CodesFrame
<1>3. ASSUME NEW h \in Handler,
             QuietStep(h) \/ Revive(h) \/ ResetWrite(h) \/ RevokeSessions(h) \/ Rotate(h)
      PROVE  CodesInv'
  <2>1. CodesKept
    <3>1. CASE RevokeOtps(h) \/ RevokeSessions(h)
      <4>1. PICK u, type : RevokeAll(u, type)
        BY <3>1 DEF RevokeOtps, RevokeSessions
      <4> QED
        BY <4>1 DEF RevokeAll, CodesKept, UsableCode
    <3>2. CASE Rotate(h)
      BY <3>2 DEF Rotate, TypeOK, TokenDoc, CodesKept, UsableCode
    <3>3. CASE ~RevokeOtps(h) /\ ~RevokeSessions(h) /\ ~Rotate(h)
      BY <1>3, <3>3
         DEF QuietStep, CountMiss, VerifyCheck, VerifyWrite, ClearMisses, RefreshUser,
             CheckCode, ChangeWrite, ApproveWrite, DeclineWrite, BreakOff, Revive, ResetWrite,
             CodesKept, UsableCode
    <3> QED
      BY <3>1, <3>2, <3>3
  <2>2. SendersKept
    <3>1. CASE RevokeSessions(h)
      <4>1. at'[h] # "sendCode"
        BY <3>1 DEF RevokeSessions, SessionsRevoked, TypeOK
      <4>2. ASSUME NEW k \in Handler, k # h
            PROVE  /\ at'[k] = at[k] /\ req'[k].user = req[k].user
                   /\ req[k].overlapped => req'[k].overlapped
        <5>1. req[k] \in Request
          BY DEF TypeOK
        <5>2. at'[k] = at[k] /\ (req'[k] = req[k] \/ req'[k] = [req[k] EXCEPT !.late = TRUE])
          BY <3>1, <4>2 DEF RevokeSessions, SessionsRevoked, TypeOK
        <5> QED
          BY <5>1, <5>2 DEF Request
      <4> QED
        BY <4>1, <4>2, SendersMove
    <3>2. CASE ~RevokeSessions(h)
      <4>1. /\ at'[h] # "sendCode"
            /\ \A k \in Handler : k # h => at'[k] = at[k] /\ req'[k] = req[k]
        BY <1>3, <3>2
           DEF QuietStep, RevokeOtps, CountMiss, VerifyCheck, VerifyWrite, ClearMisses,
               RefreshUser, CheckCode, ChangeWrite, ApproveWrite, DeclineWrite, BreakOff,
               Revive, ResetWrite, Rotate, GoTo, Forget, Finish, TypeOK
      <4> QED
        BY <4>1, SendersMove
    <3> QED
      BY <3>1, <3>2
  <2> QED
    BY <2>1, <2>2, CodesFrame
<1>4. ASSUME NEW h \in Handler, NEW t \in Token, RefreshValidate(h, t)
      PROVE  CodesInv'
  <2>1. CodesKept
    BY <1>4 DEF RefreshValidate, CodesKept, UsableCode
  <2>2. at'[h] # "sendCode"
    BY <1>4 DEF RefreshValidate, TypeOK
  <2>3. ASSUME NEW k \in Handler, k # h
        PROVE  /\ at'[k] = at[k] /\ req'[k].user = req[k].user
               /\ req[k].overlapped => req'[k].overlapped
    <3>1. req[k] \in Request
      BY DEF TypeOK
    <3>2. at'[k] = at[k] /\ (req'[k] = req[k] \/ req'[k] = [req[k] EXCEPT !.overlapped = TRUE])
      BY <1>4, <2>3 DEF RefreshValidate, TypeOK
    <3> QED
      BY <3>1, <3>2 DEF Request
  <2> QED
    BY <2>1, <2>2, <2>3, SendersMove, CodesFrame
<1>5. ASSUME NEW h \in Handler, NEW t \in Token, SendOtp(h, t) \/ IssueTokenPair(h, t)
      PROVE  CodesInv'
  <2>1. CodesKept
    BY <1>5 DEF SendOtp, IssueTokenPair, Create, TypeOK, CodesKept, UsableCode
  <2>2. /\ at'[h] # "sendCode"
        /\ \A k \in Handler : k # h => at'[k] = at[k] /\ req'[k] = req[k]
    BY <1>5 DEF SendOtp, IssueTokenPair, Finish, TypeOK
  <2> QED
    BY <2>1, <2>2, SendersMove, CodesFrame
<1>6. ASSUME NEW u \in User, DeleteMe(u) \/ ExpireUser(u)
      PROVE  CodesInv'
  BY <1>6, CodesFrame DEF DeleteMe, ExpireUser, CodesKept, SendersKept, UsableCode
<1>7. ASSUME NEW t \in Token, ExpireToken(t)
      PROVE  CodesInv'
  <2>1. CodesKept
    BY <1>7 DEF ExpireToken, TypeOK, NoDoc, CodesKept, UsableCode
  <2> QED
    BY <1>7, <2>1, CodesFrame DEF ExpireToken, SendersKept
<1>8. ASSUME NEW h \in Handler, TurnedAway(h) PROVE CodesInv'
  BY <1>1, <1>8 DEF TurnedAway
<1> QED
  BY <1>1, <1>2, <1>3, <1>4, <1>5, <1>6, <1>7, <1>8, RevokeCodesStep, SendCodeStep,
     NextActions DEF QuietStep

\* forgotPassword replaces the code it sent before: an account has two usable
\* reset codes only if they were asked for by requests that overlapped.
THEOREM ResetCodeReplaced == Spec => []OneResetCode
<1>1. Init => CodesInv
  BY DEF Init, CodesInv, SendersApart, SenderAlone, OneResetCode, UsableCode, NoDoc
<1>2. TypeOK /\ CodesInv /\ [Next]_vars => CodesInv'
  BY CodesStep
<1>3. CodesInv => OneResetCode
  BY DEF CodesInv
<1> QED
  BY <1>1, <1>2, <1>3, TypeCorrect, PTL DEF Spec
===============================================================================
