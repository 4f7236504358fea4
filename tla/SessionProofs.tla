--------------------------- MODULE SessionProofs ---------------------------
(***************************************************************************)
(* What Session guarantees for any number of tabs, requests, clicks and    *)
(* faults.  Two facts hold the safety properties up:                       *)
(*                                                                         *)
(*   - a pending login that counts as verified has a confirmation that     *)
(*     opened no session yet (Paid): whoever polls first takes the entry   *)
(*     with the session, and a new request starts unverified;              *)
(*   - an answer that clears the cookies belongs to a logout, or to a      *)
(*     refresh of cookies that were no good (CallsInv), and answers of the *)
(*     login form clear none (FormsInv).                                   *)
(***************************************************************************)
EXTENDS Session, TLAPS

PendingInv == pending = Nothing \/ pending \in [verified : BOOLEAN, old : BOOLEAN]

Paid == pending # Nothing /\ pending.verified => logins < confirmed

LoginInv == logins \in Nat /\ confirmed \in Nat /\ PendingInv /\ Paid /\ OneLoginPerConfirmation

Harmless(c) ==
  c.cookie = "clear" =>
    \/ c.kind = "logout" /\ c.leg = "first"
    \/ c.leg = "refresh" /\ c.from = "stale" /\ c.answer = "401"

CallsInv == /\ call \in [Tabs -> Calls \cup {Nothing}]
            /\ \A t \in Tabs : call[t] # Nothing =>
                 Harmless(call[t]) /\ (call[t].kind = "logout" => call[t].leg = "first")

FormsInv == form \in [Tabs -> Forms \cup {Nothing}]

CookieInv == jar \in {"none", "stale", "renewable", "live"} /\ CallsInv /\ FormsInv

-----------------------------------------------------------------------------
(* Confirmations and sessions.                                             *)

\* The answer of verify-status, and what it leaves pending.
LEMMA StatusTakesTheEntry ==
  ASSUME PendingInv, StatusAnswer.answer = "verified"
  PROVE  pending # Nothing /\ pending.verified /\ PendingAfterStatus(StatusAnswer.answer) = Nothing
BY DEF PendingInv, StatusAnswer, PendingAfterStatus, Said

LEMMA StatusKeepsTheRest == PendingAfterStatus(StatusAnswer.answer) \in {pending, Nothing}
BY DEF PendingAfterStatus

LEMMA LoginInit == Init => LoginInv
BY DEF Init, LoginInv, PendingInv, Paid, OneLoginPerConfirmation

LEMMA LoginStep == LoginInv /\ [Next]_vars => LoginInv'
<1> SUFFICES ASSUME LoginInv, [Next]_vars PROVE LoginInv'
  OBVIOUS
<1> USE DEF LoginInv, PendingInv, Paid, OneLoginPerConfirmation
<1>1. ASSUME UNCHANGED <<pending, logins, confirmed>> PROVE LoginInv'
  BY <1>1
<1>2. ASSUME pending' = Nothing, UNCHANGED <<logins, confirmed>> PROVE LoginInv'
  BY <1>2
<1>3. ASSUME NEW t \in Tabs, LoginPressed(t) PROVE LoginInv'
  BY <1>3 DEF LoginPressed
<1>4. ASSUME NEW t \in Tabs, MessageFailed(t) PROVE LoginInv'
  BY <1>2, <1>4 DEF MessageFailed
<1>5. ASSUME NEW t \in Tabs, Poll(t) PROVE LoginInv'
  <2>1. CASE StatusAnswer.answer = "verified"
    BY <1>5, <2>1, StatusTakesTheEntry DEF Poll
  <2>2. CASE StatusAnswer.answer # "verified"
    <3>1. logins' = logins /\ confirmed' = confirmed /\ pending' \in {pending, Nothing}
      BY <1>5, <2>2, StatusKeepsTheRest DEF Poll
    <3> QED BY <1>1, <1>2, <3>1
  <2> QED BY <2>1, <2>2
<1>6. CASE ConfirmPressed
  <2>1. CASE pending = Nothing
    BY <1>1, <1>6, <2>1 DEF ConfirmPressed, confirmLoginVerification
  <2>2. CASE pending # Nothing
    <3>1. pending' = [pending EXCEPT !.verified = TRUE] /\ confirmed' = confirmed + 1 /\ logins' = logins
      BY <1>6, <2>2 DEF ConfirmPressed, confirmLoginVerification
    <3>2. pending' \in [verified : BOOLEAN, old : BOOLEAN]
      BY <2>2, <3>1
    <3>3. logins' < confirmed' /\ logins' \in Nat /\ confirmed' \in Nat /\ logins' <= confirmed'
      BY <3>1
    <3> QED BY <3>2, <3>3
  <2> QED BY <2>1, <2>2
<1>7. CASE PendingAges
  <2>1. pending' = [pending EXCEPT !.old = TRUE] /\ pending # Nothing /\ UNCHANGED <<logins, confirmed>>
    BY <1>7 DEF PendingAges
  <2>2. pending' \in [verified : BOOLEAN, old : BOOLEAN] /\ pending'.verified = pending.verified
    BY <2>1
  <2> QED BY <2>1, <2>2
<1>8. CASE ConfirmTimer \/ CleanOld \/ Restart
  BY <1>2, <1>8 DEF ConfirmTimer, CleanOld, Restart
<1>9. CASE CancelLoginPressed \/ CookieExpires
  BY <1>1, <1>9 DEF CancelLoginPressed, CookieExpires, server
<1>10. ASSUME NEW t \in Tabs,
              \/ CallAnswered(t) \/ CallLost(t) \/ Reload(t) \/ AdminRequest(t) \/ Logout(t)
              \/ MessageSent(t) \/ FormAnswered(t) \/ FormLost(t) \/ CancelPressed(t)
       PROVE LoginInv'
  BY <1>1, <1>10 DEF CallAnswered, CallLost, Reload, AdminRequest, Logout, MessageSent, FormAnswered,
     FormLost, CancelPressed, server
<1>11. CASE UNCHANGED vars
  BY <1>1, <1>11 DEF vars, server
<1> QED BY <1>3, <1>4, <1>5, <1>6, <1>7, <1>8, <1>9, <1>10, <1>11 DEF Next

(* One confirmation in Telegram opens one session at most, with any number of tabs that poll
   for it, and over lost answers, cancelled forms and restarts. *)
THEOREM ConfirmationOpensOneSession == Spec => []OneLoginPerConfirmation
<1>1. LoginInv => OneLoginPerConfirmation
  BY DEF LoginInv
<1> QED BY <1>1, LoginInit, LoginStep, PTL DEF Spec

-----------------------------------------------------------------------------
(* Cookies.                                                                *)

\* A call as it is sent: a refresh clears cookies only when they were of an older secret.
LEMMA SentIsHarmless ==
  ASSUME NEW kind \in {"me", "admin", "logout"}, NEW leg \in {"first", "refresh", "again"},
         NEW cookies \in {"none", "stale", "renewable", "live"}, kind = "logout" => leg = "first"
  PROVE  /\ Sent(kind, leg, cookies) \in Calls
         /\ Sent(kind, leg, cookies).kind = kind /\ Sent(kind, leg, cookies).leg = leg
         /\ Harmless(Sent(kind, leg, cookies))
<1>1. CASE leg = "refresh"
  BY <1>1 DEF Sent, RefreshAnswer, Calls, Harmless, HasSession
<1>2. CASE leg # "refresh"
  <2>1. CASE kind = "logout"
    BY <1>2, <2>1 DEF Sent, RouteAnswer, LogoutAnswer, Calls, Harmless
  <2>2. CASE kind = "me"
    BY <1>2, <2>2 DEF Sent, RouteAnswer, MeAnswer, Authenticated, Calls, Harmless
  <2>3. CASE kind = "admin"
    BY <1>2, <2>3 DEF Sent, RouteAnswer, AdminAnswer, Authenticated, Calls, Harmless
  <2> QED BY <2>1, <2>2, <2>3
<1> QED BY <1>1, <1>2

\* What the interceptor sends next keeps the shape of calls.
LEMMA NextLegIsHarmless ==
  ASSUME NEW c \in Calls, c.kind = "logout" => c.leg = "first",
         NEW cookies \in {"none", "stale", "renewable", "live"},
         NextLeg(c, cookies) # Nothing
  PROVE  /\ NextLeg(c, cookies) \in Calls /\ Harmless(NextLeg(c, cookies))
         /\ NextLeg(c, cookies).kind = "logout" => NextLeg(c, cookies).leg = "first"
<1>1. c.kind \in {"me", "admin", "logout"}
  BY DEF Calls
<1>2. CASE c.leg = "refresh" /\ c.answer = "ok"
  <2>1. NextLeg(c, cookies) = Sent(c.kind, "again", cookies) /\ c.kind # "logout"
    BY <1>2 DEF NextLeg
  <2> QED BY <1>1, <2>1, SentIsHarmless
<1>3. CASE ~(c.leg = "refresh" /\ c.answer = "ok")
  <2>1. NextLeg(c, cookies) = Sent(c.kind, "refresh", cookies) /\ c.kind # "logout"
    BY <1>3 DEF NextLeg
  <2> QED BY <1>1, <2>1, SentIsHarmless
<1> QED BY <1>2, <1>3

\* The cookies are one of the four after any answer.
LEMMA AppliedTyped ==
  ASSUME jar \in {"none", "stale", "renewable", "live"}, NEW cookie
  PROVE  Applied(cookie) \in {"none", "stale", "renewable", "live"}
BY DEF Applied

LEMMA CookieInit == Init => CookieInv
<1> SUFFICES ASSUME Init PROVE CookieInv
  OBVIOUS
<1>1. jar \in {"none", "stale", "renewable", "live"} /\ form = [t \in Tabs |-> Nothing]
      /\ call = [t \in Tabs |-> Sent("me", "first", jar)]
  BY DEF Init
<1>2. /\ Sent("me", "first", jar) \in Calls /\ Harmless(Sent("me", "first", jar))
      /\ Sent("me", "first", jar).kind = "me" /\ Sent("me", "first", jar).leg = "first"
  BY <1>1, SentIsHarmless
<1>3. CallsInv /\ FormsInv
  BY <1>1, <1>2 DEF CallsInv, FormsInv
<1> QED BY <1>1, <1>3 DEF CookieInv

\* A call that replaces another in a tab keeps the shape of all, if its own is right.
LEMMA OneCallChanges ==
  ASSUME CallsInv, NEW t \in Tabs, call' = [call EXCEPT ![t] = call'[t]],
         \/ call'[t] = Nothing
         \/ /\ call'[t] \in Calls /\ Harmless(call'[t])
            /\ call'[t].kind = "logout" => call'[t].leg = "first"
  PROVE  CallsInv'
BY DEF CallsInv, Harmless

LEMMA CookieStep == CookieInv /\ [Next]_vars => CookieInv'
<1> SUFFICES ASSUME CookieInv, [Next]_vars PROVE CookieInv'
  OBVIOUS
<1> USE DEF CookieInv
<1>1. ASSUME NEW t \in Tabs, CallAnswered(t) PROVE CookieInv'
  <2>1. jar' = Applied(call[t].cookie) /\ form' = form /\ call[t] # Nothing
        /\ call' = [call EXCEPT ![t] = NextLeg(call[t], Applied(call[t].cookie))]
    BY <1>1 DEF CallAnswered
  <2>2. call[t] \in Calls /\ (call[t].kind = "logout" => call[t].leg = "first")
    BY <2>1 DEF CallsInv
  <2>3. jar' \in {"none", "stale", "renewable", "live"}
    BY <2>1, AppliedTyped
  <2>4. ASSUME NextLeg(call[t], Applied(call[t].cookie)) = Nothing PROVE CallsInv'
    <3>1. call'[t] = Nothing /\ call' = [call EXCEPT ![t] = call'[t]]
      BY <2>1, <2>4 DEF CallsInv
    <3> QED BY <3>1, OneCallChanges
  <2>5. ASSUME NextLeg(call[t], Applied(call[t].cookie)) # Nothing PROVE CallsInv'
    <3> DEFINE c == NextLeg(call[t], jar')
    <3>1. c \in Calls /\ Harmless(c) /\ (c.kind = "logout" => c.leg = "first")
      BY <2>1, <2>2, <2>3, <2>5, NextLegIsHarmless
    <3>2. call'[t] = c /\ call' = [call EXCEPT ![t] = call'[t]]
      BY <2>1 DEF CallsInv
    <3> QED BY <3>1, <3>2, OneCallChanges
  <2>6. CallsInv'
    BY <2>4, <2>5
  <2> QED BY <2>1, <2>3, <2>6 DEF FormsInv
<1>2. ASSUME NEW t \in Tabs, CallLost(t) PROVE CookieInv'
  <2>1. call' = [call EXCEPT ![t] = Nothing] /\ jar' = jar /\ form' = form
    BY <1>2 DEF CallLost
  <2>2. call'[t] = Nothing /\ call' = [call EXCEPT ![t] = call'[t]]
    BY <2>1 DEF CallsInv
  <2>3. CallsInv'
    BY <2>2, OneCallChanges
  <2> QED BY <2>1, <2>3 DEF FormsInv
<1>3. ASSUME NEW t \in Tabs, NEW kind \in {"me", "admin", "logout"}, jar' = jar,
             call' = [call EXCEPT ![t] = Sent(kind, "first", jar)],
             form' = form \/ form' = [form EXCEPT ![t] = Nothing]
      PROVE CookieInv'
  <2>1. call'[t] = Sent(kind, "first", jar) /\ call' = [call EXCEPT ![t] = call'[t]]
    BY <1>3 DEF CallsInv
  <2>2. /\ call'[t] \in Calls /\ Harmless(call'[t])
        /\ call'[t].kind = "logout" => call'[t].leg = "first"
    BY <2>1, SentIsHarmless
  <2>3. CallsInv'
    BY <2>1, <2>2, OneCallChanges
  <2> QED BY <1>3, <2>3 DEF FormsInv
<1>4. ASSUME NEW t \in Tabs, Reload(t) \/ AdminRequest(t) \/ Logout(t) PROVE CookieInv'
  BY <1>3, <1>4 DEF Reload, AdminRequest, Logout
<1>5. ASSUME NEW t \in Tabs, NEW f \in Forms \cup {Nothing}, form' = [form EXCEPT ![t] = f],
             call' = call, jar' \in {"none", "stale", "renewable", "live"}
      PROVE CookieInv'
  BY <1>5 DEF CallsInv, FormsInv, Harmless
<1>6. ASSUME NEW t \in Tabs, LoginPressed(t) \/ MessageSent(t) \/ MessageFailed(t) \/ Poll(t)
      PROVE CookieInv'
  <2>1. StatusAnswer \in Forms /\ Said("sending", "keep") \in Forms /\ Said("sent", "keep") \in Forms
        /\ Said("failed", "keep") \in Forms
    BY DEF StatusAnswer, Said, Forms
  <2> QED BY <1>5, <1>6, <2>1 DEF LoginPressed, MessageSent, MessageFailed, Poll
<1>7. ASSUME NEW t \in Tabs, FormAnswered(t) \/ FormLost(t) PROVE CookieInv'
  <2>1. call' = call /\ form' = [form EXCEPT ![t] = Nothing] /\ jar' \in {jar, Applied(form[t].cookie)}
    BY <1>7 DEF FormAnswered, FormLost, server
  <2> QED BY <1>5, <2>1, AppliedTyped
<1>8. CASE CookieExpires \/ UNCHANGED vars
         \/ ConfirmPressed \/ CancelLoginPressed \/ ConfirmTimer \/ PendingAges \/ CleanOld
         \/ \E t \in Tabs : CancelPressed(t)
  <2>1. call' = call /\ form' = form /\ jar' \in {"none", "stale", "renewable", "live"}
    BY <1>8 DEF CookieExpires, vars, browser, ConfirmPressed, CancelLoginPressed, ConfirmTimer,
       PendingAges, CleanOld, CancelPressed
  <2> QED BY <2>1 DEF CallsInv, FormsInv, Harmless
<1>9. CASE Restart
  <2>1. jar' \in {"stale", jar} /\ form' = [t \in Tabs |-> Nothing] /\ call' = [t \in Tabs |-> Nothing]
    BY <1>9 DEF Restart
  <2> QED BY <2>1 DEF CallsInv, FormsInv
<1> QED BY <1>1, <1>2, <1>4, <1>6, <1>7, <1>8, <1>9 DEF Next

\* What an answer does to working cookies: only one that clears takes them.
LEMMA OnlyClearTakes ==
  ASSUME NEW cookie, HasSession(jar), ~HasSession(Applied(cookie))
  PROVE  cookie = "clear"
BY DEF Applied, HasSession

(* Cookies that work go only when they run out, with the process's secrets, with a logout, or with
   the refusal of tokens of an older secret: never because of another tab's failed refresh. *)
THEOREM CookiesAreOnlyTakenForAReason == Spec => LoginSurvives
<1> DEFINE Reason == \/ CookieExpires \/ Restart
                     \/ \E t \in Tabs : call[t] # Nothing /\ call'[t] = Nothing
                                        /\ (call[t].kind = "logout" \/ call[t].from = "stale")
<1>1. CookieInv /\ [Next]_vars => [HasSession(jar) /\ ~HasSession(jar') => Reason]_vars
  <2> SUFFICES ASSUME CookieInv, Next, HasSession(jar), ~HasSession(jar') PROVE Reason
    OBVIOUS
  <2>1. jar' # jar
    OBVIOUS
  <2>2. ASSUME NEW t \in Tabs, CallAnswered(t) PROVE Reason
    <3>1. /\ jar' = Applied(call[t].cookie) /\ call[t] # Nothing
          /\ call' = [call EXCEPT ![t] = NextLeg(call[t], Applied(call[t].cookie))]
      BY <2>2 DEF CallAnswered
    <3>2. call[t].cookie = "clear"
      BY <3>1, OnlyClearTakes
    <3>3. Harmless(call[t]) /\ call \in [Tabs -> Calls \cup {Nothing}]
      BY <3>1 DEF CookieInv, CallsInv
    <3>4. /\ call[t].kind = "logout" \/ call[t].from = "stale"
          /\ NextLeg(call[t], Applied(call[t].cookie)) = Nothing
      BY <3>2, <3>3 DEF Harmless, NextLeg
    <3> QED BY <3>1, <3>3, <3>4
  <2>3. ASSUME NEW t \in Tabs, FormAnswered(t) PROVE FALSE
    <3>1. jar' = Applied(form[t].cookie) /\ form[t] # Nothing
      BY <2>3 DEF FormAnswered
    <3>2. form[t].cookie # "clear"
      BY <3>1 DEF CookieInv, FormsInv, Forms
    <3> QED BY <3>1, <3>2, OnlyClearTakes
  <2>4. ASSUME NEW t \in Tabs,
               \/ CallLost(t) \/ Reload(t) \/ AdminRequest(t) \/ Logout(t) \/ LoginPressed(t)
               \/ MessageSent(t) \/ MessageFailed(t) \/ Poll(t) \/ FormLost(t) \/ CancelPressed(t)
        PROVE FALSE
    BY <2>1, <2>4 DEF CallLost, Reload, AdminRequest, Logout, LoginPressed, MessageSent, MessageFailed,
       Poll, FormLost, CancelPressed
  <2>5. CASE ConfirmPressed \/ CancelLoginPressed \/ ConfirmTimer \/ PendingAges \/ CleanOld
    BY <2>1, <2>5 DEF ConfirmPressed, CancelLoginPressed, ConfirmTimer, PendingAges, CleanOld, browser
  <2> QED BY <2>2, <2>3, <2>4, <2>5 DEF Next
<1> QED BY <1>1, CookieInit, CookieStep, PTL DEF Spec, LoginSurvives
=============================================================================
