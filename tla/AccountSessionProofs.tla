--------------------------- MODULE AccountSessionProofs ---------------------------
(***************************************************************************)
(* Refresh tokens and sessions: rotation; what re-registration and         *)
(* password resets end; and who can hold a session of the account as it is *)
(* now.                                                                    *)
(***************************************************************************)
EXTENDS AccountsProofs

-------------------------------------------------------------------------------
(* Rotation *)

Usable(t) == tokens[t].type = "refresh" /\ tokens[t].active

\* The handler holds a refresh token it has found active.
Refreshing(h) == req[h].kind = "refresh"
Holding(h) == at[h] \in {"refreshUser", "rotate"}

\* A refresh is in one of its three steps, and knows its session.
RefreshSteps ==
    /\ \A h \in Handler : Holding(h) => Refreshing(h)
    /\ \A h \in Handler :
         Refreshing(h) => /\ at[h] \in {"refreshUser", "rotate", "issue"}
                          /\ req[h].login \in Token
    /\ \A h \in Handler : at[h] = "issue" => req[h].kind \in {"login", "refresh"}
    /\ \A t \in Token : Usable(t) => tokens[t].login \in Token

\* Two refreshes of one session overlap.
RefreshesApart ==
    \A h, k \in Handler :
        Refreshing(h) /\ Refreshing(k) /\ req[h].login = req[k].login
        => h = k \/ (req[h].overlapped /\ req[k].overlapped)

\* While a session is refreshed, its only usable token is the one the refresh
\* is about to revoke.
TokenInHand ==
    \A h \in Handler, t \in Token :
        Refreshing(h) /\ Usable(t) /\ req[h].login = tokens[t].login
        => \/ Holding(h) /\ req[h].token = t
           \/ req[h].overlapped /\ tokens[t].overlapped

\* OneTokenPerSession is not inductive alone: it depends on who is about to
\* store a token for the session.
SessionInv == RefreshSteps /\ RefreshesApart /\ TokenInHand /\ OneTokenPerSession

\* No usable token or refresh appears, and none changes its session.
TokensKept ==
    \A t \in Token :
        Usable(t)' => /\ Usable(t)
                      /\ tokens'[t].login = tokens[t].login
                      /\ tokens'[t].overlapped = tokens[t].overlapped
HandlersKept ==
    /\ \A h \in Handler :
         Refreshing(h)' => /\ Refreshing(h)
                           /\ req'[h].login = req[h].login
                           /\ req[h].overlapped => req'[h].overlapped
                           /\ Holding(h) => Holding(h)' /\ req'[h].token = req[h].token
                           /\ at[h] = "issue" => at'[h] = "issue"
    /\ \A h \in Handler : Holding(h)' => Refreshing(h)'
    /\ \A h \in Handler : at'[h] = "issue" => req'[h].kind \in {"login", "refresh"}

LEMMA SessionFrame ==
    ASSUME SessionInv, TokensKept, HandlersKept
    PROVE  SessionInv'
<1>1. RefreshSteps'
  BY DEF SessionInv, RefreshSteps, TokensKept, HandlersKept, Holding
<1>2. RefreshesApart'
  BY DEF SessionInv, RefreshesApart, HandlersKept
<1>3. TokenInHand'
  BY DEF SessionInv, TokenInHand, TokensKept, HandlersKept
<1>4. OneTokenPerSession'
  BY DEF SessionInv, OneTokenPerSession, TokensKept, Usable
<1> QED
  BY <1>1, <1>2, <1>3, <1>4 DEF SessionInv

LEMMA RevokeKeeps ==
    ASSUME NEW u, NEW type, RevokeAll(u, type)
    PROVE  TokensKept
  BY DEF RevokeAll, TokensKept, Usable

LEMMA UnchangedTokens == ASSUME UNCHANGED tokens PROVE TokensKept
  BY DEF TokensKept, Usable

\* A new request that is no refresh.
LEMMA BeginKeeps ==
    ASSUME TypeOK, SessionInv, NEW h \in Handler, NEW r, r.kind # "refresh",
           NEW step \in Step \ {"refreshUser", "rotate", "issue"},
           at' = [at EXCEPT ![h] = step],
           req' = [req EXCEPT ![h] = r]
    PROVE  HandlersKept
  BY DEF TypeOK, SessionInv, RefreshSteps, HandlersKept, Refreshing, Holding

\* The next step of a request that is no refresh.
LEMMA MoveKeeps ==
    ASSUME TypeOK, SessionInv, NEW h \in Handler,
           at[h] \notin {"refreshUser", "rotate", "issue"},
           NEW step \in Step \ {"refreshUser", "rotate", "issue"},
           GoTo(h, step) \/ Forget(h, step)
    PROVE  HandlersKept
  BY DEF TypeOK, SessionInv, RefreshSteps, HandlersKept, Refreshing, Holding, GoTo, Forget,
         Request

LEMMA FinishKeeps ==
    ASSUME TypeOK, SessionInv, NEW h \in Handler, Finish(h)
    PROVE  HandlersKept
  BY DEF TypeOK, SessionInv, RefreshSteps, HandlersKept, Refreshing, Holding, Finish, NoRequest

\* The refresh revokes the token it holds: none of its session is left to
\* other refreshes that do not overlap.
LEMMA RotateSession ==
    ASSUME TypeOK, SessionInv, NEW h \in Handler, Rotate(h)
    PROVE  SessionInv'
<1>1. /\ at' = [at EXCEPT ![h] = "issue"]
      /\ req' = [req EXCEPT ![h].token = NoToken]
      /\ tokens' = [tokens EXCEPT ![req[h].token].active = FALSE]
  BY DEF Rotate, Forget
<1>2. TokensKept
  BY <1>1 DEF TypeOK, TokensKept, Usable, TokenDoc
<1>3. Refreshing(h) /\ Holding(h)
  BY DEF Rotate, SessionInv, RefreshSteps, Holding
<1>4. ASSUME NEW k \in Handler
      PROVE  /\ req'[k].kind = req[k].kind /\ req'[k].login = req[k].login
             /\ req'[k].overlapped = req[k].overlapped
             /\ k # h => at'[k] = at[k] /\ req'[k].token = req[k].token
  BY <1>1 DEF TypeOK, Request
<1>5. ASSUME NEW t \in Token, Usable(t)'
      PROVE  t # req[h].token
  <2>1. CASE t = req[h].token
    <3>1. tokens'[t] = [tokens[t] EXCEPT !.active = FALSE] /\ tokens[t] \in TokenDoc
      BY <1>1, <2>1 DEF TypeOK
    <3> QED
      BY <1>5, <3>1 DEF Usable, TokenDoc
  <2> QED
    BY <2>1
<1>6. RefreshSteps'
  BY <1>1, <1>2, <1>3, <1>4
     DEF SessionInv, RefreshSteps, Refreshing, Holding, TypeOK, TokensKept
<1>7. RefreshesApart'
  BY <1>4 DEF SessionInv, RefreshesApart, Refreshing
<1>8. TokenInHand'
  <2>1. ASSUME NEW k \in Handler, NEW t \in Token, Refreshing(k)', Usable(t)',
               req'[k].login = tokens'[t].login
        PROVE  \/ Holding(k)' /\ req'[k].token = t
               \/ req'[k].overlapped /\ tokens'[t].overlapped
    <3>1. /\ Refreshing(k) /\ Usable(t) /\ req[k].login = tokens[t].login
          /\ tokens'[t].overlapped = tokens[t].overlapped
      BY <1>2, <1>4, <2>1 DEF Refreshing, TokensKept
    <3>2. \/ Holding(k) /\ req[k].token = t
          \/ req[k].overlapped /\ tokens[t].overlapped
      BY <3>1 DEF SessionInv, TokenInHand
    <3>3. CASE k # h
      BY <1>4, <3>1, <3>2, <3>3 DEF Holding
    <3>4. CASE k = h
      BY <1>4, <1>5, <2>1, <3>1, <3>2, <3>4 DEF Usable
    <3> QED
      BY <3>3, <3>4
  <2> QED
    BY <2>1 DEF TokenInHand
<1>9. OneTokenPerSession'
  BY <1>2 DEF SessionInv, OneTokenPerSession, TokensKept, Usable
<1> QED
  BY <1>6, <1>7, <1>8, <1>9 DEF SessionInv

\* A refresh finds its token active: whoever else refreshes the session either
\* holds the same token, and both are marked, or was marked before.
LEMMA ValidateSession ==
    ASSUME TypeOK, SessionInv, NEW h \in Handler, NEW t \in Token, RefreshValidate(h, t)
    PROVE  SessionInv'
<1> DEFINE rivals == {k \in Handler : Holding(k) /\ req[k].token = t}
<1>1. /\ Usable(t) /\ UNCHANGED tokens /\ at[h] = "idle"
      /\ at' = [at EXCEPT ![h] = "refreshUser"]
  BY DEF RefreshValidate, Usable
<1>2. /\ req'[h].kind = "refresh" /\ req'[h].token = t /\ req'[h].login = tokens[t].login
      /\ tokens[t].overlapped \/ rivals # {} => req'[h].overlapped
  BY DEF RefreshValidate, Holding
<1>3. ASSUME NEW k \in Handler, k # h
      PROVE  /\ req'[k].kind = req[k].kind /\ req'[k].login = req[k].login
             /\ req'[k].token = req[k].token /\ at'[k] = at[k]
             /\ req[k].overlapped => req'[k].overlapped
             /\ k \in rivals => req'[k].overlapped
  BY <1>1, <1>3 DEF RefreshValidate, Holding, TypeOK, Request
<1>4. at'[h] = "refreshUser"
  BY <1>1 DEF TypeOK
<1> HIDE DEF rivals
<1>5. RefreshSteps'
  BY <1>1, <1>2, <1>3, <1>4 DEF SessionInv, RefreshSteps, Refreshing, Holding, Usable
<1>6. ASSUME NEW k \in Handler, k # h, Refreshing(k), req[k].login = tokens[t].login
      PROVE  req'[k].overlapped /\ req'[h].overlapped
  <2>1. \/ Holding(k) /\ req[k].token = t
        \/ req[k].overlapped /\ tokens[t].overlapped
    BY <1>1, <1>6 DEF SessionInv, TokenInHand
  <2>2. CASE Holding(k) /\ req[k].token = t
    <3>1. k \in rivals
      BY <2>2 DEF rivals
    <3> QED
      BY <1>2, <1>3, <1>6, <3>1
  <2>3. CASE req[k].overlapped /\ tokens[t].overlapped
    BY <1>2, <1>3, <1>6, <2>3
  <2> QED
    BY <2>1, <2>2, <2>3
<1>7. RefreshesApart'
  <2>1. ASSUME NEW i \in Handler, NEW k \in Handler, i # k, Refreshing(i)', Refreshing(k)',
               req'[i].login = req'[k].login
        PROVE  req'[i].overlapped /\ req'[k].overlapped
    <3>1. CASE i = h
      BY <1>2, <1>3, <1>6, <2>1, <3>1 DEF Refreshing
    <3>2. CASE k = h
      BY <1>2, <1>3, <1>6, <2>1, <3>2 DEF Refreshing
    <3>3. CASE i # h /\ k # h
      BY <1>3, <2>1, <3>3 DEF Refreshing, SessionInv, RefreshesApart
    <3> QED
      BY <3>1, <3>2, <3>3
  <2> QED
    BY <2>1 DEF RefreshesApart
<1>8. TokenInHand'
  <2>1. ASSUME NEW k \in Handler, NEW s \in Token, Refreshing(k)', Usable(s),
               req'[k].login = tokens[s].login
        PROVE  \/ Holding(k)' /\ req'[k].token = s
               \/ req'[k].overlapped /\ tokens[s].overlapped
    <3>1. CASE k = h
      <4>1. s = t \/ (tokens[s].overlapped /\ tokens[t].overlapped)
        BY <1>1, <1>2, <2>1, <3>1 DEF SessionInv, OneTokenPerSession, Usable
      <4> QED
        BY <1>2, <1>4, <3>1, <4>1 DEF Holding
    <3>2. CASE k # h
      <4>1. \/ Holding(k) /\ req[k].token = s
            \/ req[k].overlapped /\ tokens[s].overlapped
        BY <1>3, <2>1, <3>2 DEF Refreshing, SessionInv, TokenInHand
      <4> QED
        BY <1>3, <3>2, <4>1 DEF Holding
    <3> QED
      BY <3>1, <3>2
  <2>2. \A s \in Token : (Usable(s)' <=> Usable(s)) /\ tokens'[s] = tokens[s]
    BY <1>1 DEF Usable
  <2> QED
    BY <2>1, <2>2 DEF TokenInHand
<1>9. OneTokenPerSession'
  BY <1>1 DEF SessionInv, OneTokenPerSession
<1> QED
  BY <1>5, <1>7, <1>8, <1>9 DEF SessionInv

\* A login stores the first token of a session, a refresh the next one.
LEMMA IssueSession ==
    ASSUME TypeOK, SessionInv, NEW h \in Handler, NEW t \in Token, IssueTokenPair(h, t)
    PROVE  SessionInv'
<1> DEFINE session == IF req[h].kind = "login" THEN t ELSE req[h].login
<1>1. /\ Fresh(t) /\ Finish(h) /\ Create(t, h, "refresh", session) /\ at[h] = "issue"
  BY DEF IssueTokenPair
<1>2. HandlersKept
  BY <1>1, FinishKeeps
<1>3. ~Refreshing(h)'
  BY <1>1 DEF Finish, TypeOK, Refreshing, NoRequest
<1>4. /\ Usable(t)' /\ tokens'[t].login = session
      /\ tokens'[t].overlapped = req[h].overlapped
      /\ \A s \in Token : s # t => tokens'[s] = tokens[s] /\ (Usable(s)' <=> Usable(s))
  BY <1>1 DEF Create, TypeOK, Usable
<1>5. session \in Token /\ (req[h].kind # "login" => Refreshing(h))
  BY <1>1 DEF SessionInv, RefreshSteps, Refreshing
<1>6. /\ \A s \in Token : tokens[s].login # t
      /\ \A k \in Handler : req[k].token # t /\ req[k].login # t
  BY <1>1 DEF Fresh
<1> HIDE DEF session
<1>7. session = t \/ (Refreshing(h) /\ session = req[h].login)
  BY <1>5 DEF session
<1>8. ASSUME NEW s \in Token, s # t, Usable(s), tokens[s].login = session
      PROVE  tokens[s].overlapped /\ req[h].overlapped
  BY <1>1, <1>6, <1>7, <1>8 DEF SessionInv, TokenInHand, Holding
<1>9. ASSUME NEW k \in Handler, k # h, Refreshing(k), req[k].login = session
      PROVE  req[k].overlapped /\ req[h].overlapped
  BY <1>6, <1>7, <1>9 DEF SessionInv, RefreshesApart
<1>10. RefreshSteps'
  BY <1>2, <1>4, <1>5 DEF SessionInv, RefreshSteps, HandlersKept, Holding
<1>11. RefreshesApart'
  BY <1>2 DEF SessionInv, RefreshesApart, HandlersKept
<1>12. TokenInHand'
  <2>1. ASSUME NEW k \in Handler, NEW s \in Token, Refreshing(k)', Usable(s)',
               req'[k].login = tokens'[s].login
        PROVE  \/ Holding(k)' /\ req'[k].token = s
               \/ req'[k].overlapped /\ tokens'[s].overlapped
    <3>1. /\ k # h /\ Refreshing(k) /\ req'[k].login = req[k].login
          /\ req[k].overlapped => req'[k].overlapped
          /\ Holding(k) => Holding(k)' /\ req'[k].token = req[k].token
      BY <1>2, <1>3, <2>1 DEF HandlersKept
    <3>2. CASE s = t
      BY <1>4, <1>9, <2>1, <3>1, <3>2
    <3>3. CASE s # t
      BY <1>4, <2>1, <3>1, <3>3 DEF SessionInv, TokenInHand
    <3> QED
      BY <3>2, <3>3
  <2> QED
    BY <2>1 DEF TokenInHand
<1>13. OneTokenPerSession'
  <2>1. ASSUME NEW r \in Token, NEW s \in Token, Usable(r)', Usable(s)', r # s,
               tokens'[r].login = tokens'[s].login
        PROVE  tokens'[r].overlapped /\ tokens'[s].overlapped
    <3>1. CASE r = t
      BY <1>4, <1>8, <2>1, <3>1
    <3>2. CASE s = t
      BY <1>4, <1>8, <2>1, <3>2
    <3>3. CASE r # t /\ s # t
      BY <1>4, <2>1, <3>3 DEF SessionInv, OneTokenPerSession, Usable
    <3> QED
      BY <3>1, <3>2, <3>3
  <2> QED
    BY <2>1 DEF OneTokenPerSession, Usable
<1> QED
  BY <1>10, <1>11, <1>12, <1>13 DEF SessionInv

LEMMA SessionStep ==
    ASSUME TypeOK, SessionInv, [Next]_vars
    PROVE  SessionInv'
<1>1. CASE UNCHANGED vars
  <2>1. TokensKept /\ HandlersKept
    BY <1>1, UnchangedTokens
       DEF vars, SessionInv, RefreshSteps, HandlersKept, Refreshing, Holding
  <2> QED
    BY <2>1, SessionFrame
<1>2. ASSUME NEW h \in Handler, NEW u \in User,
             \/ CreateUser(h, u) \/ RegisterAgain(h, u) \/ ResendOtp(h, u)
             \/ LoginRefused(h, u) \/ LoginAccepted(h, u)
             \/ ForgotPassword(h, u) \/ ResetPassword(h, u) \/ ChangePassword(h, u)
             \/ ApproveUser(h, u) \/ DeclineUser(h, u)
             \/ \E t \in Token : VerifyEmail(h, u, t) \/ VerifyResetCode(h, u, t)
      PROVE  SessionInv'
  <2>1. UNCHANGED tokens
    BY <1>2 DEF CreateUser, RegisterAgain, ResendOtp, LoginRefused, LoginAccepted,
                ForgotPassword, ResetPassword, ChangePassword, ApproveUser, DeclineUser,
                VerifyEmail, VerifyResetCode
  <2>2. CASE LoginAccepted(h, u)
    <3> DEFINE r == [NoRequest EXCEPT !.kind = "login", !.user = u,
                                      !.password = users[u].password]
    <3>0. r.kind # "refresh"
      BY DEF NoRequest
    <3>1. PICK step \in Step \ {"refreshUser", "rotate", "issue"} :
             at' = [at EXCEPT ![h] = step]
      BY <2>2 DEF LoginAccepted, Step
    <3>3. req' = [req EXCEPT ![h] = r]
      BY <2>2 DEF LoginAccepted
    <3> HIDE DEF r
    <3>2. HandlersKept
      BY <3>0, <3>1, <3>3, BeginKeeps
    <3> QED
      BY <2>1, <3>2, UnchangedTokens, SessionFrame
  <2>3. CASE ~LoginAccepted(h, u)
    <3>1. PICK t \in Token \cup {NoToken}, kind \in Kind \ {"refresh"},
               step \in Step \ {"refreshUser", "rotate", "issue"} : Begin(h, kind, u, t, step)
      BY <1>2, <2>3
         DEF CreateUser, RegisterAgain, ResendOtp, LoginRefused, ForgotPassword,
             ResetPassword, ChangePassword, ApproveUser, DeclineUser, VerifyEmail,
             VerifyResetCode, Kind, Step
    <3>2. HandlersKept
      BY <3>1, BeginKeeps DEF Begin, NoRequest
    <3> QED
      BY <2>1, <3>2, UnchangedTokens, SessionFrame
  <2> QED
    BY <2>2, <2>3
<1>3. ASSUME NEW h \in Handler, QuietStep(h)
      PROVE  SessionInv'
  <2>1. TokensKept
    <3>1. CASE RevokeOtps(h)
      BY <3>1, RevokeKeeps DEF RevokeOtps
    <3>2. CASE ~RevokeOtps(h)
      BY <1>3, <3>2, UnchangedTokens
         DEF QuietStep, CountMiss, VerifyCheck, VerifyWrite, ClearMisses, RefreshUser,
             CheckCode, ChangeWrite, ApproveWrite, DeclineWrite, BreakOff
    <3> QED
      BY <3>1, <3>2
  <2>2. HandlersKept
    <3>1. CASE Finish(h)
      BY <3>1, FinishKeeps
    <3>2. CASE RefreshUser(h) /\ ~Finish(h)
      BY <3>2 DEF RefreshUser, TypeOK, SessionInv, RefreshSteps, HandlersKept, Refreshing,
                  Holding, GoTo
    <3>3. CASE ClearMisses(h)
      BY <3>3 DEF ClearMisses, TypeOK, SessionInv, RefreshSteps, HandlersKept, Refreshing,
                  Holding, GoTo
    <3>4. CASE ~Finish(h) /\ ~RefreshUser(h) /\ ~ClearMisses(h)
      <4>1. /\ at[h] \notin {"refreshUser", "rotate", "issue"}
            /\ \E step \in Step \ {"refreshUser", "rotate", "issue"} :
                 GoTo(h, step) \/ Forget(h, step)
        BY <1>3, <3>4
           DEF QuietStep, RevokeOtps, CountMiss, VerifyCheck, VerifyWrite, CheckCode,
               ChangeWrite, ApproveWrite, DeclineWrite, BreakOff, Step
      <4> QED
        BY <4>1, MoveKeeps
    <3> QED
      BY <1>3, <3>1, <3>2, <3>3, <3>4 DEF QuietStep
  <2> QED
    BY <2>1, <2>2, SessionFrame
<1>4. ASSUME NEW h \in Handler, Revive(h) \/ ResetWrite(h)
      PROVE  SessionInv'
  <2>1. HandlersKept
    BY <1>4 DEF Revive, ResetWrite, TypeOK, SessionInv, RefreshSteps, HandlersKept,
                Refreshing, Holding, GoTo, Request
  <2>2. UNCHANGED tokens
    BY <1>4 DEF Revive, ResetWrite
  <2> QED
    BY <2>1, <2>2, UnchangedTokens, SessionFrame
<1>5. ASSUME NEW h \in Handler, RevokeSessions(h)
      PROVE  SessionInv'
  <2>1. TokensKept
    BY <1>5, RevokeKeeps DEF RevokeSessions
  <2>2. HandlersKept
    <3>1. ASSUME NEW k \in Handler, k # h
          PROVE  /\ at'[k] = at[k] /\ req'[k].kind = req[k].kind
                 /\ req'[k].login = req[k].login /\ req'[k].token = req[k].token
                 /\ req'[k].overlapped = req[k].overlapped
      BY <1>5, <3>1 DEF RevokeSessions, SessionsRevoked, TypeOK, Request
    <3>2. ~Refreshing(h)' /\ ~Holding(h)' /\ at'[h] # "issue"
      BY <1>5 DEF RevokeSessions, SessionsRevoked, TypeOK, SessionInv, RefreshSteps,
                  Refreshing, Holding, NoRequest
    <3> QED
      BY <3>1, <3>2 DEF HandlersKept, SessionInv, RefreshSteps, Refreshing, Holding
  <2> QED
    BY <2>1, <2>2, SessionFrame
<1>6. ASSUME NEW h \in Handler, RevokeCodes(h)
      PROVE  SessionInv'
  <2>1. TokensKept
    BY <1>6, RevokeKeeps DEF RevokeCodes
  <2>2. HandlersKept
    <3>1. CASE req[h].kind = "verifyCode"
      BY <1>6, <3>1, FinishKeeps DEF RevokeCodes, CodesRevoked
    <3>2. CASE req[h].kind # "verifyCode"
      <4>1. ASSUME NEW k \in Handler
            PROVE  /\ at'[k] = IF k = h THEN "sendCode" ELSE at[k]
                   /\ req'[k].kind = req[k].kind
                   /\ req'[k].login = req[k].login /\ req'[k].token = req[k].token
                   /\ req[k].overlapped => req'[k].overlapped
        <5>1. req[k] \in Request
          BY DEF TypeOK
        <5>2. /\ at'[k] = IF k = h THEN "sendCode" ELSE at[k]
              /\ req'[k] = req[k] \/ req'[k] = [req[k] EXCEPT !.overlapped = TRUE]
          BY <1>6, <3>2 DEF RevokeCodes, CodesRevoked, TypeOK
        <5> QED
          BY <5>1, <5>2 DEF Request
      <4>2. ~Refreshing(h)
        BY <1>6 DEF RevokeCodes, SessionInv, RefreshSteps
      <4> QED
        BY <1>6, <4>1, <4>2
           DEF RevokeCodes, HandlersKept, SessionInv, RefreshSteps, Refreshing, Holding
    <3> QED
      BY <3>1, <3>2
  <2> QED
    BY <2>1, <2>2, SessionFrame
<1>7. ASSUME NEW h \in Handler, NEW t \in Token, SendOtp(h, t) \/ SendCode(h, t)
      PROVE  SessionInv'
  <2>1. TokensKept
    BY <1>7 DEF SendOtp, SendCode, Create, TypeOK, TokensKept, Usable
  <2>2. HandlersKept
    BY <1>7, FinishKeeps DEF SendOtp, SendCode
  <2> QED
    BY <2>1, <2>2, SessionFrame
<1>8. ASSUME NEW t \in Token, ExpireToken(t)
      PROVE  SessionInv'
  <2>1. TokensKept
    BY <1>8 DEF ExpireToken, TypeOK, TokensKept, Usable, NoDoc
  <2>2. HandlersKept
    BY <1>8 DEF ExpireToken, SessionInv, RefreshSteps, HandlersKept, Refreshing, Holding
  <2> QED
    BY <2>1, <2>2, SessionFrame
<1>9. ASSUME NEW u \in User, DeleteMe(u) \/ ExpireUser(u)
      PROVE  SessionInv'
  <2>1. TokensKept /\ HandlersKept
    BY <1>9, UnchangedTokens
       DEF DeleteMe, ExpireUser, SessionInv, RefreshSteps, HandlersKept, Refreshing, Holding
  <2> QED
    BY <2>1, SessionFrame
<1>10. ASSUME NEW h \in Handler, TurnedAway(h) PROVE SessionInv'
  BY <1>1, <1>10 DEF TurnedAway
<1>11. ASSUME NEW h \in Handler, Rotate(h)
       PROVE  SessionInv'
  BY <1>11, RotateSession
<1>12. ASSUME NEW h \in Handler, NEW t \in Token, RefreshValidate(h, t)
       PROVE  SessionInv'
  BY <1>12, ValidateSession
<1>13. ASSUME NEW h \in Handler, NEW t \in Token, IssueTokenPair(h, t)
       PROVE  SessionInv'
  BY <1>13, IssueSession
<1> QED
  BY <1>1, <1>2, <1>3, <1>4, <1>5, <1>6, <1>7, <1>8, <1>9, <1>10, <1>11, <1>12, <1>13,
     NextActions DEF QuietStep

\* Refresh token rotation (auth.service.ts refreshTokens): of one session, two
\* refresh tokens are usable only if refreshes overlapped.
THEOREM RotationKeepsOneToken == Spec => []OneTokenPerSession
<1>1. Init => SessionInv
  BY DEF Init, SessionInv, RefreshSteps, RefreshesApart, TokenInHand, OneTokenPerSession,
         Refreshing, Holding, Usable, NoRequest, NoDoc
<1>2. TypeOK /\ SessionInv /\ [Next]_vars => SessionInv'
  BY SessionStep
<1>3. SessionInv => OneTokenPerSession
  BY DEF SessionInv
<1> QED
  BY <1>1, <1>2, <1>3, TypeCorrect, PTL DEF Spec

-------------------------------------------------------------------------------
(* Passwords *)

\* What holds of a session of u opened with password p.
Fits(u, p, late) ==
    /\ p <= users[u].password
    /\ p = users[u].password => users[u].isEmailVerified
    /\ late \/ p >= resetTo[u]

\* Steps at which a handler may be about to end sessions.
Ending == {"revive", "resetWrite", "revokeSessions"}

ResetBound == \A u \in User : resetTo[u] <= users[u].password
GoneUnverified == \A u \in User : users[u].state = "none" => ~users[u].isEmailVerified
SessionsFit ==
    \A t \in Token : Usable(t) => Fits(tokens[t].user, tokens[t].password, tokens[t].late)
OpeningsFit ==
    \A h \in Handler :
        Opening(h, req[h].user) => Fits(req[h].user, req[h].password, req[h].late)
EndingBound ==
    \A h \in Handler :
        at[h] \in Ending => req[h].password <= users[req[h].user].password

\* The two properties are not inductive alone: a session is stored by a
\* handler that read the account earlier, and ended by one that wrote it
\* earlier.
PasswordInv == ResetBound /\ GoneUnverified /\ SessionsFit /\ OpeningsFit /\ EndingBound

\* No password is taken back, and no account with its password becomes
\* unverified.
UsersKept ==
    \A u \in User :
        /\ users'[u].password >= users[u].password
        /\ users[u].isEmailVerified /\ users'[u].password = users[u].password
           => users'[u].isEmailVerified
        /\ users'[u].state = "none" => ~users'[u].isEmailVerified
SessionsKept ==
    \A t \in Token :
        Usable(t)' => /\ Usable(t)
                      /\ tokens'[t].user = tokens[t].user
                      /\ tokens'[t].password = tokens[t].password
                      /\ tokens'[t].late = tokens[t].late
OpeningKept(h) ==
    Opening(h, req[h].user)' => /\ Opening(h, req[h].user)
                                /\ req'[h].user = req[h].user
                                /\ req'[h].password = req[h].password
                                /\ req[h].late => req'[h].late
EndingKept(h) ==
    at'[h] \in Ending => req'[h].password <= users'[req'[h].user].password
HoldersKept == \A h \in Handler : OpeningKept(h) /\ EndingKept(h)

\* Types of what the inequalities are about.
LEMMA Numbers ==
    ASSUME TypeOK
    PROVE  /\ \A u \in User : users[u].password \in Nat /\ resetTo[u] \in Nat
                              /\ users[u].isEmailVerified \in BOOLEAN
           /\ \A t \in Token : tokens[t].password \in Nat /\ tokens[t].late \in BOOLEAN
                               /\ (Usable(t) => tokens[t].user \in User)
           /\ \A h \in Handler : req[h].password \in Nat /\ req[h].late \in BOOLEAN
                                 /\ (at[h] # "idle" => req[h].user \in User)
<1>1. \A u \in User : users[u].password \in Nat /\ resetTo[u] \in Nat
                      /\ users[u].isEmailVerified \in BOOLEAN
  BY DEF TypeOK, UserDoc
<1>2. ASSUME NEW t \in Token
      PROVE  tokens[t].password \in Nat /\ tokens[t].late \in BOOLEAN
             /\ (Usable(t) => tokens[t].user \in User)
  BY DEF TypeOK, TokenDoc, Usable
<1>3. ASSUME NEW h \in Handler
      PROVE  req[h].password \in Nat /\ req[h].late \in BOOLEAN
             /\ (at[h] # "idle" => req[h].user \in User)
  BY DEF TypeOK, Request
<1> QED
  BY <1>1, <1>2, <1>3

LEMMA FitsKept ==
    ASSUME TypeOK, TypeOK', UsersKept, UNCHANGED resetTo, NEW u \in User, NEW p \in Nat,
           NEW late \in BOOLEAN, NEW later \in BOOLEAN, late => later, Fits(u, p, late)
    PROVE  /\ p <= users'[u].password
           /\ p = users'[u].password => users'[u].isEmailVerified
           /\ later \/ p >= resetTo'[u]
<1>1. users[u].password \in Nat /\ users'[u].password \in Nat /\ resetTo[u] \in Nat
  BY DEF TypeOK, UserDoc
<1> QED
  BY <1>1 DEF UsersKept, Fits

LEMMA PasswordFrame ==
    ASSUME TypeOK, TypeOK', PasswordInv, UsersKept, SessionsKept, HoldersKept,
           UNCHANGED resetTo
    PROVE  PasswordInv'
<1>1. ResetBound'
  <2>1. ASSUME NEW u \in User PROVE resetTo'[u] <= users'[u].password
    <3>1. /\ users[u].password \in Nat /\ users'[u].password \in Nat /\ resetTo[u] \in Nat
          /\ resetTo[u] <= users[u].password
      BY DEF TypeOK, UserDoc, PasswordInv, ResetBound
    <3> QED
      BY <3>1 DEF UsersKept
  <2> QED
    BY <2>1 DEF ResetBound
<1>2. GoneUnverified'
  BY DEF UsersKept, GoneUnverified
<1>3. SessionsFit'
  <2>1. ASSUME NEW t \in Token, Usable(t)'
        PROVE  Fits(tokens[t].user, tokens[t].password, tokens[t].late)'
    <3>1. /\ Fits(tokens[t].user, tokens[t].password, tokens[t].late)
          /\ tokens'[t].user = tokens[t].user /\ tokens'[t].password = tokens[t].password
          /\ tokens'[t].late = tokens[t].late /\ Usable(t)
      BY <2>1 DEF PasswordInv, SessionsFit, SessionsKept
    <3>2. /\ tokens[t].user \in User /\ tokens[t].password \in Nat
          /\ tokens[t].late \in BOOLEAN
      BY <3>1, Numbers
    <3> QED
      BY <3>1, <3>2, FitsKept DEF Fits
  <2> QED
    BY <2>1 DEF SessionsFit
<1>4. OpeningsFit'
  <2>1. ASSUME NEW h \in Handler, Opening(h, req[h].user)'
        PROVE  Fits(req[h].user, req[h].password, req[h].late)'
    <3>1. /\ Fits(req[h].user, req[h].password, req[h].late)
          /\ req'[h].user = req[h].user /\ req'[h].password = req[h].password
          /\ req[h].late => req'[h].late
          /\ Opening(h, req[h].user)
      BY <2>1 DEF PasswordInv, OpeningsFit, HoldersKept, OpeningKept
    <3>2. /\ req[h].user \in User /\ req[h].password \in Nat
          /\ req[h].late \in BOOLEAN /\ req'[h].late \in BOOLEAN
      <4>1. at[h] # "idle" /\ req'[h] \in Request
        BY <3>1 DEF Opening, TypeOK
      <4> QED
        BY <4>1, Numbers DEF Request
    <3> QED
      BY <3>1, <3>2, FitsKept DEF Fits
  <2> QED
    BY <2>1 DEF OpeningsFit
<1>5. EndingBound'
  BY DEF EndingBound, HoldersKept, EndingKept
<1> QED
  BY <1>1, <1>2, <1>3, <1>4, <1>5 DEF PasswordInv

-------------------------------------------------------------------------------
(* What the parts of the actions keep *)

LEMMA SameUsers == ASSUME TypeOK, PasswordInv, UNCHANGED users PROVE UsersKept
  BY Numbers DEF UsersKept, PasswordInv, GoneUnverified

LEMMA UpdateKeeps ==
    ASSUME TypeOK, PasswordInv, NEW u \in User, NEW doc \in UserDoc,
           doc.password >= users[u].password,
           users[u].isEmailVerified => doc.isEmailVerified,
           doc.state = users[u].state,
           UpdateById(u, doc)
    PROVE  UsersKept
<1>1. \A v \in User : users'[v] = users[v] \/ (v = u /\ users[u].state = "live" /\ users'[v] = doc)
  BY DEF UpdateById, TypeOK
<1> QED
  BY <1>1, Numbers DEF UsersKept, PasswordInv, GoneUnverified

LEMMA SameTokens == ASSUME UNCHANGED tokens PROVE SessionsKept
  BY DEF SessionsKept, Usable

LEMMA RevokeSessionsKept ==
    ASSUME NEW u, NEW type, RevokeAll(u, type) PROVE SessionsKept
  BY DEF RevokeAll, SessionsKept, Usable

LEMMA CreateOtherKept ==
    ASSUME TypeOK, NEW h \in Handler, NEW t \in Token, NEW type, type # "refresh",
           NEW login, Create(t, h, type, login)
    PROVE  SessionsKept
  BY DEF Create, TypeOK, SessionsKept, Usable

\* Handlers whose request does not change, while passwords only grow.
LEMMA StillKept ==
    ASSUME TypeOK, TypeOK', PasswordInv, UsersKept, NEW k \in Handler,
           at'[k] = at[k],
           req'[k] = req[k] \/ req'[k] = [req[k] EXCEPT !.overlapped = TRUE]
                            \/ req'[k] = [req[k] EXCEPT !.late = TRUE]
    PROVE  OpeningKept(k) /\ EndingKept(k)
<1>1. /\ req'[k].user = req[k].user /\ req'[k].password = req[k].password
      /\ req'[k].kind = req[k].kind
      /\ req[k].late => req'[k].late
  <2>1. req[k] \in Request
    BY DEF TypeOK
  <2> QED
    BY <2>1 DEF Request
<1>2. OpeningKept(k)
  BY <1>1 DEF OpeningKept, Opening
<1>3. ASSUME at[k] \in Ending
      PROVE  req[k].password <= users'[req[k].user].password
  <2>1. at[k] # "idle"
    BY <1>3 DEF Ending
  <2>2. /\ req[k].user \in User /\ req[k].password \in Nat
        /\ users[req[k].user].password \in Nat
    BY <2>1, Numbers
  <2>3. users'[req[k].user].password \in Nat
    BY <2>2 DEF TypeOK, UserDoc
  <2>4. /\ req[k].password <= users[req[k].user].password
        /\ users[req[k].user].password <= users'[req[k].user].password
    BY <1>3, <2>2, <2>3 DEF PasswordInv, EndingBound, UsersKept
  <2> QED
    BY <2>2, <2>3, <2>4
<1> QED
  BY <1>1, <1>2, <1>3 DEF EndingKept

\* One handler moves, and is left neither opening nor ending anything.
LEMMA PlainKept ==
    ASSUME TypeOK, TypeOK', PasswordInv, UsersKept, NEW h \in Handler,
           \A k \in Handler : k # h => at'[k] = at[k] /\ req'[k] = req[k],
           at'[h] \notin Ending \cup {"refreshUser", "rotate", "issue"},
           at'[h] = "clearMisses" => req'[h].kind # "login"
    PROVE  HoldersKept
<1>1. OpeningKept(h) /\ EndingKept(h)
  BY DEF OpeningKept, EndingKept, Opening
<1> QED
  BY <1>1, StillKept DEF HoldersKept

\* A new request that may end sessions has no password yet.
LEMMA BeginHolders ==
    ASSUME TypeOK, TypeOK', PasswordInv, UsersKept, NEW h \in Handler, NEW u \in User,
           NEW t, NEW kind, NEW step, Begin(h, kind, u, t, step),
           step \in Step \ {"refreshUser", "rotate", "issue"},
           step = "clearMisses" => kind # "login"
    PROVE  HoldersKept
<1>1. /\ at' = [at EXCEPT ![h] = step]
      /\ \A k \in Handler : k # h => at'[k] = at[k] /\ req'[k] = req[k]
      /\ req'[h].user = u /\ req'[h].password = 0 /\ req'[h].kind = kind
  BY DEF Begin, TypeOK, NoRequest
<1>2. at'[h] = step
  BY <1>1 DEF TypeOK
<1>3. OpeningKept(h)
  BY <1>1, <1>2 DEF OpeningKept, Opening
<1>4. users'[u].password \in Nat
  BY DEF TypeOK, UserDoc
<1>5. EndingKept(h)
  BY <1>1, <1>4 DEF EndingKept
<1> QED
  BY <1>1, <1>3, <1>5, StillKept DEF HoldersKept

-------------------------------------------------------------------------------
(* The actions that concern sessions or passwords *)

\* A login reads the account as it is.
LEMMA LoginFits ==
    ASSUME TypeOK, TypeOK', PasswordInv, NEW h \in Handler, NEW u \in User,
           LoginAccepted(h, u)
    PROVE  PasswordInv'
<1>1. /\ UNCHANGED <<users, tokens, resetTo>>
      /\ \A k \in Handler : k # h => at'[k] = at[k] /\ req'[k] = req[k]
      /\ req'[h].user = u /\ req'[h].password = users[u].password /\ req'[h].late = FALSE
      /\ at'[h] \notin Ending
      /\ at'[h] = "sendOtp" \/ ~MustVerify(u)
  BY DEF LoginAccepted, TypeOK, NoRequest, Ending
<1>2. UsersKept /\ SessionsKept
  BY <1>1, SameUsers, SameTokens
<1>3. ASSUME NEW k \in Handler, k # h
      PROVE  OpeningKept(k) /\ EndingKept(k)
  BY <1>1, <1>2, <1>3, StillKept
<1>4. Opening(h, req[h].user)' => Fits(req[h].user, req[h].password, req[h].late)'
  <2>1. users[u].password \in Nat /\ resetTo[u] \in Nat /\ resetTo[u] <= users[u].password
    BY Numbers DEF PasswordInv, ResetBound
  <2> QED
    BY <1>1, <2>1 DEF Opening, Fits, MustVerify
<1>5. OpeningsFit'
  <2>1. ASSUME NEW k \in Handler, k # h, Opening(k, req[k].user)'
        PROVE  Fits(req[k].user, req[k].password, req[k].late)'
    BY <1>1, <1>3, <2>1 DEF OpeningKept, PasswordInv, OpeningsFit, Fits
  <2> QED
    BY <1>4, <2>1 DEF OpeningsFit
<1>6. EndingBound'
  BY <1>1, <1>3 DEF EndingBound, EndingKept
<1>7. ResetBound' /\ GoneUnverified' /\ SessionsFit'
  BY <1>1 DEF PasswordInv, ResetBound, GoneUnverified, SessionsFit, Usable, Fits
<1> QED
  BY <1>5, <1>6, <1>7 DEF PasswordInv

\* The account comes back unverified, with a password no session has.
LEMMA ReviveFits ==
    ASSUME TypeOK, TypeOK', PasswordInv, NEW h \in Handler, Revive(h)
    PROVE  PasswordInv'
<1>1. PICK u \in User : u = req[h].user /\ users[u] \in UserDoc /\ req[h] \in Request
  BY BusyUser, TypeParts DEF Revive, UserTypes
<1>2. /\ at[h] = "revive" /\ UNCHANGED <<tokens, resetTo>>
      /\ at' = [at EXCEPT ![h] = "revokeSessions"]
  BY DEF Revive, GoTo
<1>3. /\ users[u].state = "none" => UNCHANGED <<users, req>>
      /\ users[u].state # "none" =>
            /\ users' = [users EXCEPT ![u] = [NewUser EXCEPT !.state = "live",
                                                   !.password = users[u].password + 1]]
            /\ req' = [req EXCEPT ![h].password = users[u].password + 1]
  BY <1>1 DEF Revive, GoTo, NewUser
<1>4. UsersKept
  <2>1. CASE users[u].state = "none"
    BY <1>3, <2>1, SameUsers
  <2>2. CASE users[u].state # "none"
    <3>1. /\ users'[u].state = "live" /\ users'[u].password = users[u].password + 1
          /\ \A v \in User : v # u => users'[v] = users[v]
      BY <1>3, <2>2 DEF TypeOK, NewUser
    <3> QED
      BY <3>1, Numbers DEF UsersKept, PasswordInv, GoneUnverified
  <2> QED
    BY <2>1, <2>2
<1>5. EndingKept(h) /\ OpeningKept(h)
  <2>1. CASE users[u].state = "none"
    <3>1. req[h].password <= users[u].password
      BY <1>1, <1>2 DEF PasswordInv, EndingBound, Ending
    <3> QED
      BY <1>1, <1>2, <1>3, <2>1, <3>1 DEF EndingKept, OpeningKept, Opening, TypeOK
  <2>2. CASE users[u].state # "none"
    <3>1. /\ users'[u].password = users[u].password + 1
          /\ req'[h].user = u /\ req'[h].password = users[u].password + 1
          /\ at'[h] = "revokeSessions"
      <4>1. users'[u].password = users[u].password + 1
        BY <1>3, <2>2 DEF TypeOK, NewUser
      <4>2. req'[h] = [req[h] EXCEPT !.password = users[u].password + 1]
        BY <1>3, <2>2 DEF TypeOK
      <4>3. req'[h].user = u /\ req'[h].password = users[u].password + 1
        BY <1>1, <4>2 DEF Request
      <4> QED
        BY <1>2, <4>1, <4>3 DEF TypeOK
    <3>2. users'[u].password \in Nat
      BY DEF TypeOK, UserDoc
    <3> QED
      BY <3>1, <3>2 DEF EndingKept, OpeningKept, Opening
  <2> QED
    BY <2>1, <2>2
<1>6. ASSUME NEW k \in Handler, k # h
      PROVE  OpeningKept(k) /\ EndingKept(k)
  <2>1. at'[k] = at[k] /\ req'[k] = req[k]
    BY <1>2, <1>3, <1>6 DEF TypeOK
  <2> QED
    BY <1>4, <2>1, StillKept
<1> QED
  BY <1>2, <1>4, <1>5, <1>6, SameTokens, PasswordFrame DEF HoldersKept

\* A reset writes the password first: sessions opened before fit no more only
\* once they are revoked.
LEMMA ResetWriteFits ==
    ASSUME TypeOK, TypeOK', PasswordInv, NEW h \in Handler, ResetWrite(h)
    PROVE  PasswordInv'
<1>1. PICK u \in User : u = req[h].user /\ users[u] \in UserDoc /\ req[h] \in Request
  BY BusyUser, TypeParts DEF ResetWrite, UserTypes
<1> DEFINE doc == [users[u] EXCEPT !.password = @ + 1]
<1>2. /\ at[h] = "resetWrite" /\ UNCHANGED <<tokens, resetTo>>
      /\ at' = [at EXCEPT ![h] = "revokeSessions"]
      /\ UpdateById(u, doc)
      /\ req' = IF Live(u) THEN [req EXCEPT ![h].password = users[u].password + 1] ELSE req
  BY <1>1 DEF ResetWrite
<1>3. /\ doc \in UserDoc /\ doc.password = users[u].password + 1
      /\ doc.state = users[u].state /\ doc.isEmailVerified = users[u].isEmailVerified
  BY <1>1 DEF UserDoc
<1>0. users[u].password \in Nat
  BY <1>1 DEF UserDoc
<1>4. Live(u) => users'[u] = doc
  BY <1>2 DEF UpdateById, Live, TypeOK
<1> HIDE DEF doc
<1>5. UsersKept
  BY <1>0, <1>2, <1>3, UpdateKeeps
<1>6. EndingKept(h) /\ OpeningKept(h)
  <2>1. at'[h] = "revokeSessions"
    BY <1>2 DEF TypeOK
  <2>2. CASE Live(u)
    <3>1. req'[h].user = u /\ req'[h].password = users[u].password + 1
      BY <1>1, <1>2, <2>2 DEF TypeOK, Request
    <3> QED
      BY <1>0, <1>3, <1>4, <2>1, <2>2, <3>1 DEF EndingKept, OpeningKept, Opening
  <2>3. CASE ~Live(u)
    <3>1. req[h].password <= users[u].password /\ req' = req /\ users' = users
      BY <1>1, <1>2, <2>3 DEF PasswordInv, EndingBound, Ending, UpdateById, Live
    <3> QED
      BY <1>1, <2>1, <3>1 DEF EndingKept, OpeningKept, Opening
  <2> QED
    BY <2>2, <2>3
<1>7. ASSUME NEW k \in Handler, k # h
      PROVE  OpeningKept(k) /\ EndingKept(k)
  <2>1. at'[k] = at[k] /\ req'[k] = req[k]
    BY <1>2, <1>7 DEF TypeOK
  <2> QED
    BY <1>5, <2>1, StillKept
<1> QED
  BY <1>2, <1>5, <1>6, <1>7, SameTokens, PasswordFrame DEF HoldersKept

\* Sessions of the account end; those still being opened are late.
LEMMA RevokeFits ==
    ASSUME TypeOK, TypeOK', PasswordInv, NEW h \in Handler, RevokeSessions(h)
    PROVE  PasswordInv'
<1>1. PICK u \in User : u = req[h].user /\ req[h] \in Request
  BY BusyUser, TypeParts DEF RevokeSessions
<1>2. /\ at[h] = "revokeSessions" /\ UNCHANGED users
      /\ RevokeAll(u, "refresh")
      /\ at'[h] \in {"revokeOtps", "idle"}
      /\ resetTo' = [resetTo EXCEPT ![u] =
                        IF @ < req[h].password THEN req[h].password ELSE @]
  BY <1>1 DEF RevokeSessions, SessionsRevoked, TypeOK
<1>3. UsersKept /\ SessionsKept
  BY <1>2, SameUsers, RevokeSessionsKept
<1>4. /\ resetTo[u] \in Nat /\ req[h].password \in Nat /\ users[u].password \in Nat
      /\ resetTo[u] <= users[u].password /\ req[h].password <= users[u].password
  BY <1>1, <1>2, Numbers DEF PasswordInv, ResetBound, EndingBound, Ending
<1>5. /\ resetTo'[u] <= users[u].password
      /\ \A v \in User : v # u => resetTo'[v] = resetTo[v]
  BY <1>2, <1>4 DEF TypeOK
<1>6. ResetBound' /\ GoneUnverified'
  BY <1>2, <1>5 DEF PasswordInv, ResetBound, GoneUnverified
<1>7. SessionsFit'
  <2>1. ASSUME NEW t \in Token, Usable(t)'
        PROVE  Fits(tokens[t].user, tokens[t].password, tokens[t].late)'
    <3>1. /\ Usable(t) /\ tokens'[t].user = tokens[t].user
          /\ tokens'[t].password = tokens[t].password /\ tokens'[t].late = tokens[t].late
          /\ Fits(tokens[t].user, tokens[t].password, tokens[t].late)
      BY <1>3, <2>1 DEF SessionsKept, PasswordInv, SessionsFit
    <3>2. tokens[t].user # u
      <4>1. \/ tokens'[t] = [tokens[t] EXCEPT !.active = FALSE] /\ tokens[t] \in TokenDoc
            \/ tokens[t].user # u
        BY <1>2, <3>1 DEF RevokeAll, Usable, TypeOK
      <4> QED
        BY <2>1, <4>1 DEF Usable, TokenDoc
    <3>3. tokens[t].user \in User
      BY <3>1, Numbers
    <3> QED
      BY <1>2, <1>5, <3>1, <3>2, <3>3 DEF Fits
  <2> QED
    BY <2>1 DEF SessionsFit
<1>8. ASSUME NEW k \in Handler, k # h
      PROVE  /\ at'[k] = at[k]
             /\ req'[k] = IF Opening(k, u) THEN [req[k] EXCEPT !.late = TRUE] ELSE req[k]
  BY <1>1, <1>8 DEF RevokeSessions, SessionsRevoked, TypeOK
<1>9. OpeningsFit'
  <2>1. ASSUME NEW k \in Handler, Opening(k, req[k].user)'
        PROVE  Fits(req[k].user, req[k].password, req[k].late)'
    <3>1. k # h
      BY <1>2, <2>1 DEF Opening
    <3>2. req[k] \in Request /\ at'[k] = at[k]
      BY <1>8, <3>1 DEF TypeOK
    <3>3. /\ req'[k].user = req[k].user /\ req'[k].password = req[k].password
          /\ req'[k].kind = req[k].kind
          /\ req'[k].late = IF Opening(k, u) THEN TRUE ELSE req[k].late
      BY <1>8, <3>1, <3>2 DEF Request
    <3>4. Opening(k, req[k].user)
      BY <2>1, <3>2, <3>3 DEF Opening
    <3>5. Fits(req[k].user, req[k].password, req[k].late)
      BY <3>4 DEF PasswordInv, OpeningsFit
    <3>6. CASE req[k].user = u
      BY <1>2, <3>3, <3>4, <3>5, <3>6 DEF Fits
    <3>7. CASE req[k].user # u
      <4>1. req[k].user \in User
        BY <3>4, Numbers DEF Opening
      <4> QED
        BY <1>2, <1>5, <3>3, <3>5, <3>7, <4>1 DEF Fits, Opening
    <3> QED
      BY <3>6, <3>7
  <2> QED
    BY <2>1 DEF OpeningsFit
<1>10. EndingBound'
  <2>1. ASSUME NEW k \in Handler, at'[k] \in Ending
        PROVE  req'[k].password <= users'[req'[k].user].password
    <3>1. k # h
      BY <1>2, <2>1 DEF Ending
    <3> QED
      BY <1>3, <1>8, <2>1, <3>1, StillKept DEF EndingKept
  <2> QED
    BY <2>1 DEF EndingBound
<1> QED
  BY <1>6, <1>7, <1>9, <1>10 DEF PasswordInv

\* A refresh takes over what its token says.
LEMMA ValidateFits ==
    ASSUME TypeOK, TypeOK', PasswordInv, NEW h \in Handler, NEW t \in Token,
           RefreshValidate(h, t)
    PROVE  PasswordInv'
<1>1. /\ UNCHANGED <<users, tokens, resetTo>> /\ Usable(t)
      /\ at'[h] = "refreshUser"
      /\ req'[h].user = tokens[t].user /\ req'[h].password = tokens[t].password
      /\ req'[h].late = tokens[t].late
  BY DEF RefreshValidate, TypeOK, Usable
<1>2. UsersKept
  BY <1>1, SameUsers
<1>3. ASSUME NEW k \in Handler, k # h
      PROVE  OpeningKept(k) /\ EndingKept(k)
  <2>1. /\ at'[k] = at[k]
        /\ req'[k] = req[k] \/ req'[k] = [req[k] EXCEPT !.overlapped = TRUE]
    BY <1>3 DEF RefreshValidate, TypeOK
  <2> QED
    BY <1>2, <2>1, StillKept
<1>4. OpeningsFit'
  <2>1. ASSUME NEW k \in Handler, Opening(k, req[k].user)'
        PROVE  Fits(req[k].user, req[k].password, req[k].late)'
    <3>1. CASE k = h
      BY <1>1, <3>1 DEF PasswordInv, SessionsFit, Fits
    <3>2. CASE k # h
      <4>1. /\ Opening(k, req[k].user)
            /\ req'[k].user = req[k].user /\ req'[k].password = req[k].password
            /\ req[k].late => req'[k].late
        BY <1>3, <2>1, <3>2 DEF OpeningKept
      <4>2. req[k].late \in BOOLEAN /\ req'[k].late \in BOOLEAN
        BY DEF TypeOK, Request
      <4> QED
        BY <1>1, <4>1, <4>2 DEF PasswordInv, OpeningsFit, Fits
    <3> QED
      BY <3>1, <3>2
  <2> QED
    BY <2>1 DEF OpeningsFit
<1>5. EndingBound'
  BY <1>1, <1>3 DEF EndingBound, EndingKept, Ending
<1>6. ResetBound' /\ GoneUnverified' /\ SessionsFit'
  BY <1>1 DEF PasswordInv, ResetBound, GoneUnverified, SessionsFit, Usable, Fits
<1> QED
  BY <1>4, <1>5, <1>6 DEF PasswordInv

\* The token stored says what the handler was given.
LEMMA IssueFits ==
    ASSUME TypeOK, TypeOK', PasswordInv, NEW h \in Handler, NEW t \in Token,
           IssueTokenPair(h, t)
    PROVE  PasswordInv'
<1>1. /\ UNCHANGED <<users, resetTo>> /\ at[h] = "issue" /\ Finish(h)
      /\ Create(t, h, "refresh", IF req[h].kind = "login" THEN t ELSE req[h].login)
  BY DEF IssueTokenPair
<1>2. UsersKept
  BY <1>1, SameUsers
<1>3. HoldersKept
  BY <1>1, <1>2, PlainKept DEF Finish, TypeOK, Ending
<1>4. Fits(req[h].user, req[h].password, req[h].late)
  BY <1>1 DEF PasswordInv, OpeningsFit, Opening
<1>5. SessionsFit'
  <2>1. ASSUME NEW s \in Token, Usable(s)'
        PROVE  Fits(tokens[s].user, tokens[s].password, tokens[s].late)'
    <3>1. CASE s = t
      <4>1. /\ tokens'[s].user = req[h].user /\ tokens'[s].password = req[h].password
            /\ tokens'[s].late = req[h].late
        BY <1>1, <3>1 DEF Create, TypeOK
      <4> QED
        BY <1>1, <1>4, <4>1 DEF Fits
    <3>2. CASE s # t
      <4>1. tokens'[s] = tokens[s]
        BY <1>1, <3>2 DEF Create, TypeOK
      <4> QED
        BY <1>1, <2>1, <4>1 DEF PasswordInv, SessionsFit, Usable, Fits
    <3> QED
      BY <3>1, <3>2
  <2> QED
    BY <2>1 DEF SessionsFit
<1>6. OpeningsFit'
  <2>1. ASSUME NEW k \in Handler, Opening(k, req[k].user)'
        PROVE  Fits(req[k].user, req[k].password, req[k].late)'
    <3>1. /\ Opening(k, req[k].user) /\ req'[k].user = req[k].user
          /\ req'[k].password = req[k].password
          /\ req[k].late => req'[k].late
      BY <1>3, <2>1 DEF HoldersKept, OpeningKept
    <3>2. req[k].late \in BOOLEAN /\ req'[k].late \in BOOLEAN
      BY DEF TypeOK, Request
    <3> QED
      BY <1>1, <3>1, <3>2 DEF PasswordInv, OpeningsFit, Fits
  <2> QED
    BY <2>1 DEF OpeningsFit
<1>7. ResetBound' /\ GoneUnverified' /\ EndingBound'
  BY <1>1, <1>3
     DEF PasswordInv, ResetBound, GoneUnverified, EndingBound, HoldersKept, EndingKept
<1> QED
  BY <1>5, <1>6, <1>7 DEF PasswordInv

-------------------------------------------------------------------------------
(* Every step *)

\* The next step of a login or a refresh.
LEMMA OnwardKept ==
    ASSUME TypeOK, TypeOK', PasswordInv, UsersKept, NEW h \in Handler,
           Opening(h, req[h].user), NEW step \in {"rotate", "issue"},
           GoTo(h, step) \/ Forget(h, step)
    PROVE  HoldersKept
<1>1. ASSUME NEW k \in Handler, k # h PROVE at'[k] = at[k] /\ req'[k] = req[k]
  BY <1>1 DEF GoTo, Forget, TypeOK
<1>2. req'[h] = req[h] \/ req'[h] = [req[h] EXCEPT !.token = NoToken]
  BY DEF GoTo, Forget, TypeOK
<1>3. /\ req'[h].user = req[h].user /\ req'[h].password = req[h].password
      /\ req'[h].late = req[h].late
  BY <1>2 DEF TypeOK, Request
<1>4. at'[h] = step
  BY DEF GoTo, Forget, TypeOK
<1>5. OpeningKept(h) /\ EndingKept(h)
  BY <1>3, <1>4 DEF OpeningKept, EndingKept, Ending
<1> QED
  BY <1>1, <1>5, StillKept DEF HoldersKept

\* The accounts' fields that quiet steps write.
LEMMA QuietUsersKept ==
    ASSUME TypeOK, PasswordInv, NEW h \in Handler, QuietStep(h)
    PROVE  UsersKept
<1>1. PICK u \in User : u = req[h].user /\ users[u] \in UserDoc
  BY QuietMove, BusyUser, TypeParts DEF UserTypes
<1>2. users[u].password \in Nat /\ users[u].isEmailVerified \in BOOLEAN
  BY <1>1 DEF UserDoc
<1>3. CASE CountMiss(h) \/ ClearMisses(h)
  BY <1>3, AttemptsUnchanged, SameUsers DEF CountMiss, ClearMisses
<1>4. CASE VerifyWrite(h)
  <2> DEFINE doc == [users[u] EXCEPT !.isEmailVerified = TRUE, !.onboardingStep = "UNDER_REVIEW"]
  <2>1. /\ doc \in UserDoc /\ doc.password = users[u].password
        /\ doc.isEmailVerified /\ doc.state = users[u].state
    BY <1>1 DEF UserDoc, ONBOARDING_STEPS
  <2>2. UpdateById(u, doc)
    BY <1>1, <1>4 DEF VerifyWrite
  <2> HIDE DEF doc
  <2> QED
    BY <1>2, <2>1, <2>2, UpdateKeeps
<1>5. CASE ChangeWrite(h)
  <2> DEFINE doc == [users[u] EXCEPT !.password = @ + 1]
  <2>1. /\ doc \in UserDoc /\ doc.password = users[u].password + 1
        /\ doc.isEmailVerified = users[u].isEmailVerified /\ doc.state = users[u].state
    BY <1>1 DEF UserDoc
  <2>2. UpdateById(u, doc)
    BY <1>1, <1>5 DEF ChangeWrite
  <2> HIDE DEF doc
  <2> QED
    BY <1>2, <2>1, <2>2, UpdateKeeps
<1>6. CASE ApproveWrite(h)
  <2> DEFINE doc == [users[u] EXCEPT !.onboardingStep = "APPROVED", !.isOnboardingCompleted = TRUE]
  <2>1. /\ doc \in UserDoc /\ doc.password = users[u].password
        /\ doc.isEmailVerified = users[u].isEmailVerified /\ doc.state = users[u].state
    BY <1>1 DEF UserDoc, ONBOARDING_STEPS
  <2>2. UpdateById(u, doc)
    BY <1>1, <1>6 DEF ApproveWrite
  <2> HIDE DEF doc
  <2> QED
    BY <1>2, <2>1, <2>2, UpdateKeeps
<1>7. CASE DeclineWrite(h)
  <2> DEFINE doc == [users[u] EXCEPT !.onboardingStep = "UNDER_REVIEW",
                                     !.isOnboardingCompleted = FALSE]
  <2>1. /\ doc \in UserDoc /\ doc.password = users[u].password
        /\ doc.isEmailVerified = users[u].isEmailVerified /\ doc.state = users[u].state
    BY <1>1 DEF UserDoc, ONBOARDING_STEPS
  <2>2. UpdateById(u, doc)
    BY <1>1, <1>7 DEF DeclineWrite
  <2> HIDE DEF doc
  <2> QED
    BY <1>2, <2>1, <2>2, UpdateKeeps
<1>8. CASE RevokeOtps(h) \/ VerifyCheck(h) \/ RefreshUser(h) \/ CheckCode(h) \/ BreakOff(h)
  BY <1>8, SameUsers DEF RevokeOtps, VerifyCheck, RefreshUser, CheckCode, BreakOff
<1> QED
  BY <1>3, <1>4, <1>5, <1>6, <1>7, <1>8 DEF QuietStep

LEMMA QuietFits ==
    ASSUME TypeOK, TypeOK', PasswordInv, NEW h \in Handler, QuietStep(h)
    PROVE  PasswordInv'
<1>1. UsersKept
  BY QuietUsersKept
<1>2. SessionsKept
  <2>1. CASE RevokeOtps(h)
    BY <2>1, RevokeSessionsKept DEF RevokeOtps
  <2>2. CASE ~RevokeOtps(h)
    BY <2>2, SameTokens
       DEF QuietStep, CountMiss, VerifyCheck, VerifyWrite, ClearMisses, RefreshUser,
           CheckCode, ChangeWrite, ApproveWrite, DeclineWrite, BreakOff
  <2> QED
    BY <2>1, <2>2
<1>3. HoldersKept
  <2>1. CASE Finish(h)
    BY <1>1, <2>1, PlainKept DEF Finish, TypeOK, Ending
  <2>2. CASE RefreshUser(h) /\ ~Finish(h)
    BY <1>1, <2>2, OnwardKept DEF RefreshUser, Opening
  <2>3. CASE ClearMisses(h) /\ req[h].kind = "login"
    BY <1>1, <2>3, OnwardKept DEF ClearMisses, Opening
  <2>4. CASE ClearMisses(h) /\ req[h].kind # "login"
    BY <1>1, <2>4, PlainKept DEF ClearMisses, GoTo, TypeOK, Ending
  <2>5. CASE ~Finish(h) /\ ~RefreshUser(h) /\ ~ClearMisses(h)
    <3>1. \E step \in Step \ (Ending \cup {"refreshUser", "rotate", "issue", "clearMisses"}) :
             GoTo(h, step) \/ Forget(h, step)
      BY <2>5
         DEF QuietStep, RevokeOtps, CountMiss, VerifyCheck, VerifyWrite, CheckCode,
             ChangeWrite, ApproveWrite, DeclineWrite, BreakOff, Step, Ending
    <3> QED
      BY <1>1, <3>1, PlainKept DEF GoTo, Forget, TypeOK
  <2> QED
    BY <2>1, <2>2, <2>3, <2>4, <2>5
<1>4. UNCHANGED resetTo
  BY DEF QuietStep, RevokeOtps, CountMiss, VerifyCheck, VerifyWrite, ClearMisses, RefreshUser,
         CheckCode, ChangeWrite, ApproveWrite, DeclineWrite, BreakOff
<1> QED
  BY <1>1, <1>2, <1>3, <1>4, PasswordFrame

LEMMA PasswordStep ==
    ASSUME TypeOK, TypeOK', PasswordInv, [Next]_vars
    PROVE  PasswordInv'
<1>1. CASE UNCHANGED vars
  BY <1>1 DEF vars, PasswordInv, ResetBound, GoneUnverified, SessionsFit, OpeningsFit,
              EndingBound, Usable, Opening, Fits
<1>2. ASSUME NEW h \in Handler, NEW u \in User,
             \/ CreateUser(h, u) \/ RegisterAgain(h, u) \/ ResendOtp(h, u)
             \/ LoginRefused(h, u) \/ ForgotPassword(h, u) \/ ResetPassword(h, u)
             \/ ChangePassword(h, u) \/ ApproveUser(h, u) \/ DeclineUser(h, u)
             \/ \E t \in Token : VerifyEmail(h, u, t) \/ VerifyResetCode(h, u, t)
      PROVE  PasswordInv'
  <2>1. UNCHANGED <<tokens, resetTo>>
    BY <1>2 DEF CreateUser, RegisterAgain, ResendOtp, LoginRefused, ForgotPassword,
                ResetPassword, ChangePassword, ApproveUser, DeclineUser, VerifyEmail,
                VerifyResetCode
  <2>2. UsersKept
    <3>1. CASE CreateUser(h, u)
      <4>1. /\ users[u].state = "none"
            /\ users'[u].state = "live" /\ users'[u].password = users[u].password
            /\ \A v \in User : v # u => users'[v] = users[v]
        BY <3>1 DEF CreateUser, TypeOK, NewUser
      <4>2. users[u].password \in Nat
        BY Numbers
      <4> QED
        BY <4>1, <4>2, Numbers DEF UsersKept, PasswordInv, GoneUnverified
    <3>2. CASE ~CreateUser(h, u)
      BY <1>2, <3>2, SameUsers
         DEF RegisterAgain, ResendOtp, LoginRefused, ForgotPassword, ResetPassword,
             ChangePassword, ApproveUser, DeclineUser, VerifyEmail, VerifyResetCode
    <3> QED
      BY <3>1, <3>2
  <2>3. HoldersKept
    <3>1. PICK t \in Token \cup {NoToken}, kind \in Kind,
               step \in Step \ {"refreshUser", "rotate", "issue"} :
             Begin(h, kind, u, t, step) /\ (step = "clearMisses" => kind # "login")
      BY <1>2
         DEF CreateUser, RegisterAgain, ResendOtp, LoginRefused, ForgotPassword,
             ResetPassword, ChangePassword, ApproveUser, DeclineUser, VerifyEmail,
             VerifyResetCode, Kind, Step
    <3> QED
      BY <2>2, <3>1, BeginHolders
  <2> QED
    BY <2>1, <2>2, <2>3, SameTokens, PasswordFrame
<1>3. ASSUME NEW h \in Handler, Rotate(h)
      PROVE  PasswordInv'
  <2>1. SessionsKept
    BY <1>3 DEF Rotate, SessionsKept, TypeOK, TokenDoc, Usable
  <2>2. UsersKept
    BY <1>3, SameUsers DEF Rotate
  <2>3. HoldersKept
    BY <1>3, <2>2, OnwardKept DEF Rotate, Opening
  <2> QED
    BY <1>3, <2>1, <2>2, <2>3, PasswordFrame DEF Rotate
<1>4. ASSUME NEW h \in Handler, RevokeCodes(h)
      PROVE  PasswordInv'
  <2>1. SessionsKept /\ UsersKept /\ UNCHANGED resetTo
    BY <1>4, RevokeSessionsKept, SameUsers DEF RevokeCodes
  <2>2. HoldersKept
    <3>1. CASE req[h].kind = "verifyCode"
      BY <1>4, <2>1, <3>1, PlainKept DEF RevokeCodes, CodesRevoked, Finish, TypeOK, Ending
    <3>2. CASE req[h].kind # "verifyCode"
      <4>1. ASSUME NEW k \in Handler, k # h
            PROVE  /\ at'[k] = at[k]
                   /\ req'[k] = req[k] \/ req'[k] = [req[k] EXCEPT !.overlapped = TRUE]
        BY <1>4, <3>2, <4>1 DEF RevokeCodes, CodesRevoked, TypeOK
      <4>2. at'[h] = "sendCode"
        BY <1>4, <3>2 DEF RevokeCodes, CodesRevoked, TypeOK
      <4>3. OpeningKept(h) /\ EndingKept(h)
        BY <4>2 DEF OpeningKept, EndingKept, Opening, Ending
      <4> QED
        BY <2>1, <4>1, <4>3, StillKept DEF HoldersKept
    <3> QED
      BY <3>1, <3>2
  <2> QED
    BY <2>1, <2>2, PasswordFrame
<1>5. ASSUME NEW h \in Handler, NEW t \in Token, SendOtp(h, t) \/ SendCode(h, t)
      PROVE  PasswordInv'
  <2>1. SessionsKept
    BY <1>5, CreateOtherKept DEF SendOtp, SendCode
  <2>2. UsersKept /\ UNCHANGED resetTo
    BY <1>5, SameUsers DEF SendOtp, SendCode
  <2>3. HoldersKept
    BY <1>5, <2>2, PlainKept DEF SendOtp, SendCode, Finish, TypeOK, Ending
  <2> QED
    BY <2>1, <2>2, <2>3, PasswordFrame
<1>6. ASSUME UNCHANGED <<at, req, resetTo>>, UsersKept, SessionsKept
      PROVE  PasswordInv'
  BY <1>6, StillKept, PasswordFrame DEF HoldersKept
<1>7. ASSUME NEW u \in User, DeleteMe(u) \/ ExpireUser(u)
      PROVE  PasswordInv'
  <2>1. UsersKept
    <3>1. /\ users'[u].password = users[u].password
          /\ users'[u].isEmailVerified = users[u].isEmailVerified
          /\ users'[u].state = "none" => ~users[u].isEmailVerified
          /\ \A v \in User : v # u => users'[v] = users[v]
      BY <1>7 DEF DeleteMe, ExpireUser, TypeOK, UserDoc
    <3> QED
      BY <3>1, Numbers DEF UsersKept, PasswordInv, GoneUnverified
  <2> QED
    BY <1>6, <1>7, <2>1, SameTokens DEF DeleteMe, ExpireUser
<1>8. ASSUME NEW t \in Token, ExpireToken(t)
      PROVE  PasswordInv'
  <2>1. SessionsKept
    BY <1>8 DEF ExpireToken, TypeOK, SessionsKept, Usable, NoDoc
  <2> QED
    BY <1>6, <1>8, <2>1, SameUsers DEF ExpireToken
<1>9. ASSUME NEW h \in Handler, TurnedAway(h) PROVE PasswordInv'
  BY <1>1, <1>9 DEF TurnedAway
<1> QED
  BY <1>1, <1>2, <1>3, <1>4, <1>5, <1>7, <1>8, <1>9, LoginFits, ReviveFits, ResetWriteFits,
     RevokeFits, ValidateFits, IssueFits, QuietFits, NextActions DEF QuietStep

LEMMA PasswordInvariant == Spec => []PasswordInv
<1>1. Init => PasswordInv
  BY DEF Init, PasswordInv, ResetBound, GoneUnverified, SessionsFit, OpeningsFit, EndingBound,
         Usable, Opening, Ending, NewUser, NoDoc, NoRequest
<1>2. TypeOK /\ TypeOK' /\ PasswordInv /\ [Next]_vars => PasswordInv'
  BY PasswordStep
<1> QED
  BY <1>1, <1>2, TypeCorrect, PTL DEF Spec

\* resetPassword and register end the account's sessions: a usable refresh
\* token goes back to a login with the password last set that way, or a later
\* one, unless it was stored by a login or refresh then in flight.
THEOREM SessionsAlwaysFollowPassword == Spec => []SessionsFollowPassword
<1>1. TypeOK /\ PasswordInv => SessionsFollowPassword
  BY Numbers DEF PasswordInv, SessionsFit, SessionsFollowPassword, Usable, Fits
<1> QED
  BY <1>1, PasswordInvariant, TypeCorrect, PTL

\* assertUserIsApproved, and what register resets: a session opened with the
\* account's present password belongs to a verified account.
THEOREM SessionsOfVerifiedAccounts == Spec => []SessionOfVerifiedAccount
<1>1. TypeOK /\ PasswordInv => SessionOfVerifiedAccount
  BY Numbers DEF PasswordInv, SessionsFit, SessionOfVerifiedAccount, Usable, Fits
<1> QED
  BY <1>1, PasswordInvariant, TypeCorrect, PTL
===============================================================================
