------------------------------ MODULE Session ------------------------------
(***************************************************************************)
(* Logging in and staying logged in: the tabs of one browser, the cookies  *)
(* they share, the routes under /auth, and the Telegram message that       *)
(* confirms a login (auth.routes.ts, auth.service.ts, auth.middleware.ts,  *)
(* AuthContext.tsx, Login.tsx, the interceptor of services/api.ts and the  *)
(* login buttons of telegram.service.ts).                                  *)
(*                                                                         *)
(* There is one account, so one chat.  A tab has two calls at most in      *)
(* flight: one through axios (who am I, an administrator's request,        *)
(* logout), with its refresh and its repetition, and one of the login      *)
(* form.  The server answers at once; an answer takes its time to arrive,  *)
(* and the cookies change when it does.                                    *)
(***************************************************************************)
EXTENDS Naturals

CONSTANTS
  Tabs,          \* the tabs of the browser
  Nothing,       \* no call in flight, no verification pending
  MaxRequests,   \* bound: verification messages asked for
  MaxClicks,     \* bound: reloads, logouts and administrator's requests
  MaxFaults      \* bound: lost answers, failed messages, restarts, expired cookies

VARIABLES
  jar,           \* the cookies: "none", "stale" (signed with an older secret),
                 \*   "renewable" (the access token ran out), "live"
  pending,       \* pendingVerifications of the chat: [verified, old] or Nothing
  timers,        \* the one-minute timers of confirmLoginVerification
  buttons,       \* login messages whose buttons can be pressed
  page,          \* what each tab shows: "login" or "app"
  user,          \* the tabs whose AuthContext has a user
  verifying,     \* the tabs whose login form polls
  form,          \* the call of each tab's form: [answer, cookie] or Nothing
  call,          \* the axios call of each tab: [kind, leg, from, answer, cookie] or Nothing
  confirmed,     \* history: confirmations that were accepted
  logins,        \* history: sessions issued by verify-status
  requestsLeft, clicksLeft, faultsLeft

server == <<pending, timers, buttons, confirmed, logins>>
browser == <<jar, page, user, verifying, form, call>>
bounds == <<requestsLeft, clicksLeft, faultsLeft>>
vars == <<server, browser, bounds>>

HasSession(cookies) == cookies \in {"renewable", "live"}
Click == clicksLeft > 0 /\ clicksLeft' = clicksLeft - 1
Fault == faultsLeft > 0 /\ faultsLeft' = faultsLeft - 1

\* What an answer's Set-Cookie headers do: setAuthCookies, clearAuthCookies, none.
Applied(cookie) == CASE cookie = "set" -> "live" [] cookie = "clear" -> "none" [] OTHER -> jar

----------------------------------------------------------------------------
(* The routes.                                                             *)

\* tryJwtAuth: who has a valid access token is known, anyone else is not.
Authenticated(cookies) == cookies = "live"

\* Defect: a request without a token has its cookies cleared, like one with a bad token.
RefreshClearsAll(cookies) ==
  IF HasSession(cookies) THEN [answer |-> "ok", cookie |-> "set"]
  ELSE [answer |-> "401", cookie |-> "clear"]

\* POST /auth/refresh: no token leaves the cookies alone, a bad one clears them, a good one
\* issues both anew.
RefreshAnswer(cookies) ==
  IF HasSession(cookies) THEN [answer |-> "ok", cookie |-> "set"]
  ELSE [answer |-> "401", cookie |-> IF cookies = "stale" THEN "clear" ELSE "keep"]

\* POST /auth/logout clears whatever is there.
LogoutAnswer == [answer |-> "ok", cookie |-> "clear"]

\* GET /auth/me says who is authenticated, and refuses who is not.
MeAnswer(cookies) ==
  [answer |-> IF Authenticated(cookies) THEN "ok" ELSE "401", cookie |-> "keep"]

\* So does requireAdmin, before it looks at the role: ours is the administrator's.
AdminAnswer(cookies) ==
  [answer |-> IF Authenticated(cookies) THEN "ok" ELSE "401", cookie |-> "keep"]

RouteAnswer(kind, cookies) ==
  CASE kind = "logout" -> LogoutAnswer
    [] kind = "me" -> MeAnswer(cookies)
    [] kind = "admin" -> AdminAnswer(cookies)

Sent(kind, leg, cookies) ==
  LET a == IF leg = "refresh" THEN RefreshAnswer(cookies) ELSE RouteAnswer(kind, cookies)
  IN [kind |-> kind, leg |-> leg, from |-> cookies, answer |-> a.answer, cookie |-> a.cookie]

----------------------------------------------------------------------------
(* The axios calls of a tab.                                               *)

\* What is left of a call once its answer has come, given the cookies by then.
\* Defect: the interceptor tries to refresh after a refused refresh, too.
NextLegForever(c, cookies) ==
  CASE c.leg = "refresh" /\ c.answer = "ok" -> Sent(c.kind, "again", cookies)
    [] c.answer = "401" /\ c.leg # "again" /\ c.kind # "logout" -> Sent(c.kind, "refresh", cookies)
    [] OTHER -> Nothing

\* The interceptor: a first 401 is followed by a refresh, a refresh by the same request again.
NextLeg(c, cookies) ==
  CASE c.leg = "refresh" /\ c.answer = "ok" -> Sent(c.kind, "again", cookies)
    [] c.answer = "401" /\ c.leg = "first" /\ c.kind # "logout" -> Sent(c.kind, "refresh", cookies)
    [] OTHER -> Nothing

\* Whether the tab has a user after the call: fetchUser takes the user it is told or none,
\* logout forgets the user however it went, and so does handleSessionExpired when a refresh
\* was refused or failed.
UserAfter(t, c) ==
  CASE c.kind = "me" -> c.leg # "refresh" /\ c.answer = "ok"
    [] c.kind = "logout" \/ c.leg = "refresh" -> FALSE
    [] OTHER -> t \in user

Settle(t, has) ==
  /\ user' = IF has THEN user \cup {t} ELSE user \ {t}
  \* ProtectedRoute: without a user every page redirects to the login form.
  /\ page' = IF has THEN page ELSE [page EXCEPT ![t] = "login"]

CallAnswered(t) ==
  /\ call[t] # Nothing
  /\ LET c == call[t]
         next == NextLeg(c, Applied(c.cookie))
     IN /\ jar' = Applied(c.cookie)
        /\ call' = [call EXCEPT ![t] = next]
        /\ IF next = Nothing THEN Settle(t, UserAfter(t, c)) ELSE UNCHANGED <<user, page>>
  /\ UNCHANGED <<server, verifying, form, bounds>>

\* The request or its answer is lost: no cookies change, and the call fails.
CallLost(t) ==
  /\ Fault /\ call[t] # Nothing
  /\ Settle(t, UserAfter(t, [call[t] EXCEPT !.answer = "lost"]))
  /\ call' = [call EXCEPT ![t] = Nothing]
  /\ UNCHANGED <<server, jar, verifying, form, requestsLeft, clicksLeft>>

\* The tab is reloaded, or opened: AuthProvider asks who the user is.  The calls of the page
\* before are forgotten, but what they asked for has happened.
Reload(t) ==
  /\ Click
  /\ user' = user \ {t} /\ verifying' = verifying \ {t}
  /\ call' = [call EXCEPT ![t] = Sent("me", "first", jar)]
  /\ form' = [form EXCEPT ![t] = Nothing]
  /\ UNCHANGED <<server, jar, page, requestsLeft, faultsLeft>>

\* A page behind the routes of administrators asks for something.
AdminRequest(t) ==
  /\ Click /\ call[t] = Nothing /\ t \in user /\ page[t] = "app"
  /\ call' = [call EXCEPT ![t] = Sent("admin", "first", jar)]
  /\ UNCHANGED <<server, jar, page, user, verifying, form, requestsLeft, faultsLeft>>

\* handleLogout does not wait for the answer before it shows the login form.
Logout(t) ==
  /\ Click /\ call[t] = Nothing /\ t \in user /\ page[t] = "app"
  /\ call' = [call EXCEPT ![t] = Sent("logout", "first", jar)]
  /\ page' = [page EXCEPT ![t] = "login"]
  /\ UNCHANGED <<server, jar, user, verifying, form, requestsLeft, faultsLeft>>

----------------------------------------------------------------------------
(* The login form.                                                         *)

Said(answer, cookie) == [answer |-> answer, cookie |-> cookie]

\* The button is there while nothing is under way.
LoginEnabled(t) == page[t] = "login" /\ form[t] = Nothing /\ t \notin verifying

\* handleLogin, and the route up to the await of sendLoginVerification.
LoginPressed(t) ==
  /\ requestsLeft > 0 /\ requestsLeft' = requestsLeft - 1
  /\ LoginEnabled(t)
  /\ pending' = [verified |-> FALSE, old |-> FALSE]
  /\ form' = [form EXCEPT ![t] = Said("sending", "keep")]
  /\ UNCHANGED <<jar, timers, buttons, confirmed, logins, page, user, verifying, call,
                 clicksLeft, faultsLeft>>

MessageSent(t) ==
  /\ form[t] # Nothing /\ form[t].answer = "sending"
  /\ buttons' = buttons + 1
  /\ form' = [form EXCEPT ![t] = Said("sent", "keep")]
  /\ UNCHANGED <<jar, pending, timers, confirmed, logins, page, user, verifying, call, bounds>>

\* Telegram refuses, or no bot is configured: the chat's entry goes, whosever it is by now.
MessageFailed(t) ==
  /\ Fault /\ form[t] # Nothing /\ form[t].answer = "sending"
  /\ pending' = Nothing
  /\ form' = [form EXCEPT ![t] = Said("failed", "keep")]
  /\ UNCHANGED <<jar, timers, buttons, confirmed, logins, page, user, verifying, call,
                 requestsLeft, clicksLeft>>

\* GET /auth/verify-status: issues a session for a verified entry, and drops it.
\* Defect: an entry that is not there is not reported as expired.
StatusForgets ==
  IF pending = Nothing THEN Said("waiting", "keep")
  ELSE IF pending.old THEN Said("expired", "keep")
  ELSE IF pending.verified THEN Said("verified", "set") ELSE Said("waiting", "keep")

StatusAnswer ==
  IF pending = Nothing \/ pending.old THEN Said("expired", "keep")
  ELSE IF pending.verified THEN Said("verified", "set") ELSE Said("waiting", "keep")

\* Defect: the entry stays when the session is issued.
StatusKeeps(answer) == IF answer = "expired" THEN Nothing ELSE pending

PendingAfterStatus(answer) == IF answer \in {"expired", "verified"} THEN Nothing ELSE pending

\* The interval of two seconds polls; fetch passes by the interceptor.
Poll(t) ==
  /\ t \in verifying /\ form[t] = Nothing
  /\ form' = [form EXCEPT ![t] = StatusAnswer]
  /\ pending' = PendingAfterStatus(StatusAnswer.answer)
  /\ logins' = logins + (IF StatusAnswer.answer = "verified" THEN 1 ELSE 0)
  /\ UNCHANGED <<jar, timers, buttons, confirmed, page, user, verifying, call, bounds>>

\* The form's answer arrives.  A verified login shows the user even if the form was
\* cancelled while the poll was under way.
FormAnswered(t) ==
  /\ form[t] # Nothing /\ form[t].answer # "sending"
  /\ jar' = Applied(form[t].cookie)
  /\ form' = [form EXCEPT ![t] = Nothing]
  /\ LET a == form[t].answer
     IN /\ verifying' = CASE a = "sent" -> verifying \cup {t}
                          [] a \in {"expired", "verified"} -> verifying \ {t}
                          [] OTHER -> verifying
        /\ user' = IF a = "verified" THEN user \cup {t} ELSE user
        /\ page' = IF a = "verified" THEN [page EXCEPT ![t] = "app"] ELSE page
  /\ UNCHANGED <<server, call, bounds>>

\* An answer that is lost leaves the form as it was: the next poll asks again.
FormLost(t) ==
  /\ Fault /\ form[t] # Nothing /\ form[t].answer # "sending"
  /\ form' = [form EXCEPT ![t] = Nothing]
  /\ UNCHANGED <<server, jar, page, user, verifying, call, requestsLeft, clicksLeft>>

CancelPressed(t) ==
  /\ Click /\ t \in verifying
  /\ verifying' = verifying \ {t}
  /\ UNCHANGED <<server, jar, page, user, form, call, requestsLeft, faultsLeft>>

----------------------------------------------------------------------------
(* The message in Telegram, the timers and the process.                    *)

\* For whatever request is pending now.
confirmLoginVerification ==
  IF pending = Nothing THEN UNCHANGED <<pending, timers, confirmed>>
  ELSE /\ pending' = [pending EXCEPT !.verified = TRUE]
       /\ timers' = timers + 1 /\ confirmed' = confirmed + 1

\* "Confirm Login": the message is rewritten, without buttons.
ConfirmPressed ==
  /\ buttons > 0 /\ buttons' = buttons - 1
  /\ confirmLoginVerification
  /\ UNCHANGED <<logins, browser, bounds>>

\* "Cancel" only rewrites the message: the request stays pending.
CancelLoginPressed ==
  /\ buttons > 0 /\ buttons' = buttons - 1
  /\ UNCHANGED <<pending, timers, confirmed, logins, browser, bounds>>

\* One minute after a confirmation the chat's entry goes, whichever it is.
ConfirmTimer ==
  /\ timers > 0 /\ timers' = timers - 1 /\ pending' = Nothing
  /\ UNCHANGED <<buttons, confirmed, logins, browser, bounds>>

\* Five minutes pass: not before the minute of an earlier confirmation has.
PendingAges ==
  /\ pending # Nothing /\ ~pending.old /\ (timers = 0 \/ (timers = 1 /\ pending.verified))
  /\ pending' = [pending EXCEPT !.old = TRUE]
  /\ UNCHANGED <<timers, buttons, confirmed, logins, browser, bounds>>

\* The interval of five minutes drops what is old.
CleanOld ==
  /\ pending # Nothing /\ pending.old /\ pending' = Nothing
  /\ UNCHANGED <<timers, buttons, confirmed, logins, browser, bounds>>

\* A cookie runs out with the token in it: the access token first.
CookieExpires ==
  /\ Fault /\ HasSession(jar)
  /\ jar' = IF jar = "live" THEN "renewable" ELSE "none"
  /\ UNCHANGED <<server, page, user, verifying, form, call, requestsLeft, clicksLeft>>

\* The process ends (a button pressed twice makes an edit fail, and nothing handles that)
\* and starts again, perhaps with other secrets.  The calls in flight fail; the bot was
\* not heard meanwhile.
Restart ==
  /\ Fault
  /\ pending' = Nothing /\ timers' = 0
  /\ \E renewed \in BOOLEAN : jar' = IF renewed /\ HasSession(jar) THEN "stale" ELSE jar
  /\ LET has == {t \in user : call[t] = Nothing \/
                   UserAfter(t, [call[t] EXCEPT !.answer = "lost"])}
     IN /\ user' = has
        /\ page' = [t \in Tabs |-> IF call[t] # Nothing /\ t \notin has THEN "login" ELSE page[t]]
  /\ form' = [t \in Tabs |-> Nothing] /\ call' = [t \in Tabs |-> Nothing]
  /\ UNCHANGED <<buttons, confirmed, logins, verifying, requestsLeft, clicksLeft>>

----------------------------------------------------------------------------
\* Each tab has just been opened, in a browser that may have cookies of an earlier visit.
Init ==
  /\ jar \in {"none", "stale", "renewable", "live"}
  /\ pending = Nothing /\ timers = 0 /\ buttons = 0
  /\ page = [t \in Tabs |-> "app"] /\ user = {} /\ verifying = {}
  /\ form = [t \in Tabs |-> Nothing]
  /\ call = [t \in Tabs |-> Sent("me", "first", jar)]
  /\ confirmed = 0 /\ logins = 0
  /\ requestsLeft = MaxRequests /\ clicksLeft = MaxClicks /\ faultsLeft = MaxFaults

Next ==
  \/ \E t \in Tabs :
       \/ CallAnswered(t) \/ CallLost(t) \/ Reload(t) \/ AdminRequest(t) \/ Logout(t)
       \/ LoginPressed(t) \/ MessageSent(t) \/ MessageFailed(t) \/ Poll(t)
       \/ FormAnswered(t) \/ FormLost(t) \/ CancelPressed(t)
  \/ ConfirmPressed \/ CancelLoginPressed \/ ConfirmTimer \/ PendingAges \/ CleanOld
  \/ CookieExpires \/ Restart

\* Answers that are not lost arrive, intervals and timers run, and time passes.  Nobody has
\* to press anything.
Fairness ==
  /\ \A t \in Tabs : WF_vars(CallAnswered(t)) /\ WF_vars(FormAnswered(t))
                     /\ WF_vars(MessageSent(t)) /\ WF_vars(Poll(t))
  /\ WF_vars(ConfirmTimer) /\ WF_vars(PendingAges) /\ WF_vars(CleanOld)

Spec == Init /\ [][Next]_vars /\ Fairness

----------------------------------------------------------------------------
Calls == [kind : {"me", "admin", "logout"}, leg : {"first", "refresh", "again"},
          from : {"none", "stale", "renewable", "live"},
          answer : {"ok", "401"}, cookie : {"keep", "clear", "set"}]
Forms == [answer : {"sending", "sent", "failed", "waiting", "expired", "verified"},
          cookie : {"keep", "set"}]

SessionTypeOK ==
  /\ jar \in {"none", "stale", "renewable", "live"}
  /\ pending \in [verified : BOOLEAN, old : BOOLEAN] \cup {Nothing}
  /\ timers \in 0..MaxRequests /\ buttons \in 0..MaxRequests
  /\ page \in [Tabs -> {"login", "app"}]
  /\ user \subseteq Tabs /\ verifying \subseteq Tabs
  /\ form \in [Tabs -> Forms \cup {Nothing}] /\ call \in [Tabs -> Calls \cup {Nothing}]
  /\ confirmed \in 0..MaxRequests /\ logins \in 0..MaxRequests
  /\ requestsLeft \in 0..MaxRequests /\ clicksLeft \in 0..MaxClicks /\ faultsLeft \in 0..MaxFaults

\* However many tabs poll for the chat, and whatever is confirmed twice, lost or restarted
\* in between, a confirmation in Telegram opens one session at most (verify-status).
OneLoginPerConfirmation == logins <= confirmed

\* A session is never ended by a tab that had none: cookies that work go only when they run
\* out, with a logout, or with the refusal of tokens of an older secret (auth/refresh).
LoginSurvives ==
  [][HasSession(jar) /\ ~HasSession(jar') =>
       \/ CookieExpires \/ Restart
       \/ \E t \in Tabs : call[t] # Nothing /\ call'[t] = Nothing
                          /\ (call[t].kind = "logout" \/ call[t].from = "stale")]_vars

\* Whatever the cookies of the other tabs do to a call and to its refresh, the call ends: the
\* spinner of a protected page goes, and the interceptor does not chase its own refusals.
CallsSettle == \A t \in Tabs : call[t] # Nothing ~> call[t] = Nothing

\* The form stops waiting, though the message is never answered, the entry is dropped for
\* another request, an answer is lost or the process forgets all that was pending.
WaitEnds == \A t \in Tabs : t \in verifying ~> t \notin verifying
=============================================================================
