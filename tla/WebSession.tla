----------------------------- MODULE WebSession -----------------------------
(***************************************************************************)
(* The session of one browser tab: lib/api-client.ts, lib/auth-context.tsx  *)
(* and components/require-auth.tsx, with the routes of /auth as far as the  *)
(* tab can tell. An access token lives in the tab's memory and the refresh  *)
(* token in a cookie; both are named by the row of `sessions` they were     *)
(* issued with, 0 for none. A request is sent, served and received in three *)
(* steps, and the network may lose it before or after it is served. What    *)
(* the server does between its own awaits is in the module Sessions.        *)
(***************************************************************************)
EXTENDS Naturals, Sequences, FiniteSets

CONSTANTS
  Users,
  Slots,    \* requests of the tab under way at a time
  MaxActs,  \* bound: what the user, the clock and reloads do in all
  None

VARIABLES
  sessions,   \* rows of the sessions table, in the order made
  lapsed,     \* access tokens past their fifteen minutes
  failures,   \* failures[u]: attempts recorded as failed_password
  cookie,     \* the refresh token the browser holds
  token,      \* accessToken
  refresh,    \* refreshInFlight
  user,       \* the profile shown
  isLoading,
  call,       \* the tab's requests
  acts,
  mistyped,   \* history: wrong passwords submitted
  loggedOut,  \* history: a logout was answered since the last login
  turned,     \* history: a request was refused while the session lived
  faulted,    \* history: an answer was lost
  overlapped  \* history: two of boot, login, logout and refresh overlapped

vars == <<sessions, lapsed, failures, cookie, token, refresh, user, isLoading, call, acts,
          mistyped, loggedOut, turned, faulted, overlapped>>

Rows == 1..Len(sessions)
Idle == [flow |-> "idle"]
Busy(s) == call[s] # Idle
Waiting == {s \in Slots : Busy(s) /\ call[s].stage = "waiting"}
CookieLives == cookie # 0 /\ sessions[cookie].live

-----------------------------------------------------------------------------
(* Requests. `flow` is the function of the tab that awaits this one. *)

Sent(flow, ask, bearer) ==
  [flow |-> flow, ask |-> ask, bearer |-> bearer, skip |-> FALSE, as |-> None,
   right |-> FALSE, holds |-> cookie, stage |-> "sent", status |-> 0, row |-> 0]

Waits(flow) == [Sent(flow, "refresh", 0) EXCEPT !.stage = "waiting"]

\* mutant: the retried request may be retried again
RetriesAgain(c, t) == [c EXCEPT !.bearer = t, !.stage = "sent"]
\* mutant: the headers of the first attempt are sent again
KeepsHeaders(c, t) == [c EXCEPT !.skip = TRUE, !.stage = "sent"]
\* The request after a 401, with the token the refresh brought.
Again(c, t) == [c EXCEPT !.bearer = t, !.skip = TRUE, !.holds = cookie', !.stage = "sent"]

\* What a waiting caller does with the token, or null, of the refresh.
Resumed(c, t) ==
  IF c = Idle THEN c ELSE IF c.stage # "waiting" THEN c
  ELSE IF t = 0 THEN Idle
  ELSE IF c.ask = "refresh" THEN [Sent(c.flow, "me", t) EXCEPT !.holds = cookie']
  ELSE Again(c, t)

\* Every caller of refreshAccessToken shares one promise.
AllResumed(t) == [s \in Slots |-> Resumed(call[s], t)]

-----------------------------------------------------------------------------
\* The slot of a new request: slots are interchangeable.
IsFree(s) == ~Busy(s) /\ s = CHOOSE t \in Slots : ~Busy(t)

Unsettled == refresh # None \/ \E s \in Slots : call[s].flow \in {"boot", "login", "logout"}

StartRefresh ==
  refresh' = IF refresh = None THEN [holds |-> cookie, served |-> FALSE, ok |-> FALSE, row |-> 0]
             ELSE refresh

Acts == acts < MaxActs /\ acts' = acts + 1

\* The effect of AuthProvider, at every load of the tab.
Booting == LET first == CHOOSE s \in Slots : TRUE
           IN  [s \in Slots |-> IF s = first THEN Waits("boot") ELSE Idle]

Boot ==
  /\ call' = Booting
  /\ token' = 0 /\ user' = None /\ isLoading' = TRUE
  /\ refresh' = [holds |-> cookie, served |-> FALSE, ok |-> FALSE, row |-> 0]

\* A hard reload: what is under way is forgotten, and answers on their way are lost.
Reload ==
  /\ Acts
  /\ Boot
  /\ faulted' = (faulted \/ refresh # None \/ \E t \in Slots : Busy(t))
  /\ UNCHANGED <<sessions, lapsed, failures, cookie, mistyped, loggedOut, turned, overlapped>>

\* The login page, which any visitor may open, at any time but during a submission.
SubmitLogin(s, u, right) ==
  /\ IsFree(s) /\ \A t \in Slots : call[t].flow # "login"
  /\ Acts
  /\ call' = [call EXCEPT ![s] = [Sent("login", "login", token) EXCEPT !.as = u, !.right = right]]
  /\ mistyped' = IF right THEN mistyped ELSE [mistyped EXCEPT ![u] = @ + 1]
  /\ overlapped' = (overlapped \/ Unsettled)
  /\ UNCHANGED <<sessions, lapsed, failures, cookie, token, refresh, user, isLoading, loggedOut,
                 turned, faulted>>

ClickLogout(s) ==
  /\ IsFree(s) /\ user # None
  /\ Acts
  /\ call' = [call EXCEPT ![s] = Sent("logout", "logout", token)]
  /\ overlapped' = (overlapped \/ Unsettled)
  /\ UNCHANGED <<sessions, lapsed, failures, cookie, token, refresh, user, isLoading, mistyped,
                 loggedOut, turned, faulted>>

\* A page shown by RequireAuth asks for its data.
RequireAuth == IF isLoading THEN "loading" ELSE IF user = None THEN "login" ELSE "page"

Ask(s) ==
  /\ IsFree(s) /\ RequireAuth = "page"
  /\ Acts
  /\ call' = [call EXCEPT ![s] = Sent("page", "list", token)]
  /\ UNCHANGED <<sessions, lapsed, failures, cookie, token, refresh, user, isLoading, mistyped,
                 loggedOut, turned, faulted, overlapped>>

\* The tab's token lapses. Fifteen minutes outlast a round trip: no retry is on its way.
Lapse ==
  /\ token # 0 /\ token \notin lapsed
  /\ \A s \in Slots : Busy(s) => ~(call[s].skip /\ call[s].bearer = token)
  /\ Acts
  /\ lapsed' = lapsed \cup {token}
  /\ UNCHANGED <<sessions, failures, cookie, token, refresh, user, isLoading, call, mistyped,
                 loggedOut, turned, faulted, overlapped>>

-----------------------------------------------------------------------------
(* The server. *)

Answered(s, status, row) ==
  call' = [call EXCEPT ![s] = [@ EXCEPT !.stage = "answered", !.status = status, !.row = row]]

IsSent(s, ask) == Busy(s) /\ call[s].stage = "sent" /\ call[s].ask = ask

ServeLogin(s) ==
  /\ IsSent(s, "login")
  /\ IF call[s].right
     THEN /\ sessions' = Append(sessions, [user |-> call[s].as, live |-> TRUE])
          /\ Answered(s, 200, Len(sessions) + 1)
          /\ UNCHANGED failures
     ELSE /\ failures' = [failures EXCEPT ![call[s].as] = @ + 1]
          /\ Answered(s, 401, 0)
          /\ UNCHANGED sessions
  /\ UNCHANGED <<lapsed, cookie, token, refresh, user, isLoading, acts, mistyped, loggedOut,
                 turned, faulted, overlapped>>

\* The cookie's session is revoked, if a cookie came along.
ServeLogout(s) ==
  /\ IsSent(s, "logout")
  /\ sessions' = [n \in Rows |-> [sessions[n] EXCEPT !.live = @ /\ n # call[s].holds]]
  /\ Answered(s, 200, 0)
  /\ UNCHANGED <<lapsed, failures, cookie, token, refresh, user, isLoading, acts, mistyped,
                 loggedOut, turned, faulted, overlapped>>

\* /users/me and every list: the guard looks at the bearer token alone.
ServeData(s) ==
  /\ IsSent(s, "me") \/ IsSent(s, "list")
  /\ IF call[s].bearer \in Rows \ lapsed THEN Answered(s, 200, call[s].bearer)
     ELSE Answered(s, 401, 0)
  /\ UNCHANGED <<sessions, lapsed, failures, cookie, token, refresh, user, isLoading, acts,
                 mistyped, loggedOut, turned, faulted, overlapped>>

\* Without a cookie the answer is 200 with a null token.
ServeRefresh ==
  /\ refresh # None /\ ~refresh.served
  /\ LET n == refresh.holds IN
     IF n # 0 /\ sessions[n].live
     THEN /\ sessions' = Append([sessions EXCEPT ![n].live = FALSE],
                                [user |-> sessions[n].user, live |-> TRUE])
          /\ refresh' = [refresh EXCEPT !.served = TRUE, !.ok = TRUE, !.row = Len(sessions) + 1]
     ELSE /\ refresh' = [refresh EXCEPT !.served = TRUE, !.ok = n = 0]
          /\ UNCHANGED sessions
  /\ UNCHANGED <<lapsed, failures, cookie, token, user, isLoading, call, acts, mistyped,
                 loggedOut, turned, faulted, overlapped>>

-----------------------------------------------------------------------------
(* What the tab does with an answer. *)

\* refreshProfile: a request for the profile that fails clears it.
Unprofiled(t) == t = 0 /\ \E s \in Waiting : call[s].ask = "me"
BootEnds(t) == t = 0 /\ \E s \in Waiting : call[s].flow = "boot"
Refused(t) == t = 0 /\ \E s \in Waiting : call[s].flow = "page"

\* mutant: rawRefresh lets the failure of fetch through
ThrowsOn(ok, t) == ok /\ BootEnds(t)
\* The mount effect clears isLoading when there is no session to recover.
StopsLoading(ok, t) == BootEnds(t)

\* The shared promise resolves: `ok` is res.ok, and t the token or null.
RefreshReturns(ok) ==
  /\ refresh # None
  /\ ok => refresh.served /\ refresh.ok
  /\ LET t == IF ok THEN refresh.row ELSE 0 IN
     /\ cookie' = IF t # 0 THEN t ELSE cookie
     /\ token' = IF ok THEN t ELSE token
     /\ call' = AllResumed(t)
     /\ user' = IF Unprofiled(t) THEN None ELSE user
     /\ isLoading' = (isLoading /\ ~StopsLoading(ok, t))
     /\ turned' = (turned \/ (Refused(t) /\ CookieLives))
  /\ refresh' = None
  /\ faulted' = (faulted \/ (~ok /\ ~(refresh.served /\ ~refresh.ok)))
  /\ UNCHANGED <<sessions, lapsed, failures, acts, mistyped, loggedOut, overlapped>>

IsAnswered(s, ask) == Busy(s) /\ call[s].stage = "answered" /\ call[s].ask = ask

\* A first 401 waits for the shared refresh, whatever was asked.
Receive401(s) ==
  /\ Busy(s) /\ call[s].stage = "answered" /\ call[s].status = 401 /\ ~call[s].skip
  /\ StartRefresh
  /\ overlapped' = (overlapped \/ \E t \in Slots \ {s} : call[t].flow \in {"boot", "login", "logout"})
  /\ call' = [call EXCEPT ![s].stage = "waiting"]
  /\ UNCHANGED <<sessions, lapsed, failures, cookie, token, user, isLoading, acts, mistyped,
                 loggedOut, turned, faulted>>

\* The end of a request that failed for good, by its caller.
Fails(s) ==
  /\ call' = [call EXCEPT ![s] = Idle]
  /\ user' = IF call[s].ask \in {"me", "logout"} THEN None ELSE user
  /\ token' = IF call[s].ask = "logout" THEN 0 ELSE token
  /\ isLoading' = (isLoading /\ call[s].flow # "boot")

ReceiveRefusal(s) ==
  /\ Busy(s) /\ call[s].stage = "answered" /\ call[s].status = 401 /\ call[s].skip
  /\ Fails(s)
  /\ turned' = (turned \/ (call[s].flow = "page" /\ CookieLives))
  /\ UNCHANGED <<sessions, lapsed, failures, cookie, refresh, acts, mistyped, loggedOut, faulted,
                 overlapped>>

\* fetch rejects: the request or its answer is lost.
Lose(s) ==
  /\ Busy(s) /\ call[s].stage \in {"sent", "answered"}
  /\ Fails(s)
  /\ faulted' = TRUE
  /\ UNCHANGED <<sessions, lapsed, failures, cookie, refresh, acts, mistyped, loggedOut, turned,
                 overlapped>>

\* mutant: the profile is not fetched after a login
NoProfile(s) == call' = [call EXCEPT ![s] = Idle]
\* login: the token is stored, then the profile asked for.
AsksProfile(s) ==
  call' = [call EXCEPT ![s] = [Sent("login", "me", call[s].row) EXCEPT !.holds = call[s].row]]

ReceiveLogin(s) ==
  /\ IsAnswered(s, "login") /\ call[s].status = 200
  /\ cookie' = call[s].row /\ token' = call[s].row
  /\ AsksProfile(s)
  /\ loggedOut' = FALSE
  /\ UNCHANGED <<sessions, lapsed, failures, refresh, user, isLoading, acts, mistyped, turned,
                 faulted, overlapped>>

ReceiveLogout(s) ==
  /\ IsAnswered(s, "logout")
  /\ cookie' = 0 /\ token' = 0 /\ user' = None
  /\ call' = [call EXCEPT ![s] = Idle]
  /\ loggedOut' = TRUE
  /\ UNCHANGED <<sessions, lapsed, failures, refresh, isLoading, acts, mistyped, turned, faulted,
                 overlapped>>

ReceiveProfile(s) ==
  /\ IsAnswered(s, "me") /\ call[s].status = 200
  /\ user' = sessions[call[s].row].user
  /\ isLoading' = (isLoading /\ call[s].flow # "boot")
  /\ call' = [call EXCEPT ![s] = Idle]
  /\ UNCHANGED <<sessions, lapsed, failures, cookie, token, refresh, acts, mistyped, loggedOut,
                 turned, faulted, overlapped>>

ReceiveList(s) ==
  /\ IsAnswered(s, "list") /\ call[s].status = 200
  /\ call' = [call EXCEPT ![s] = Idle]
  /\ UNCHANGED <<sessions, lapsed, failures, cookie, token, refresh, user, isLoading, acts,
                 mistyped, loggedOut, turned, faulted, overlapped>>

Receive(s) ==
  \/ Receive401(s) \/ ReceiveRefusal(s)
  \/ ReceiveLogin(s) \/ ReceiveLogout(s) \/ ReceiveProfile(s) \/ ReceiveList(s)

Serve(s) == ServeLogin(s) \/ ServeLogout(s) \/ ServeData(s)

-----------------------------------------------------------------------------
Init ==
  /\ sessions = <<>> /\ lapsed = {} /\ failures = [u \in Users |-> 0]
  /\ cookie = 0 /\ token = 0
  /\ refresh = [holds |-> 0, served |-> FALSE, ok |-> FALSE, row |-> 0]
  /\ user = None /\ isLoading = TRUE
  /\ call = Booting
  /\ acts = 0 /\ mistyped = [u \in Users |-> 0]
  /\ loggedOut = FALSE /\ turned = FALSE /\ faulted = FALSE /\ overlapped = FALSE

\* What the server and the network do, and the tab with what arrives.
Answers ==
  \/ \E s \in Slots : Serve(s) \/ Receive(s) \/ Lose(s)
  \/ ServeRefresh
  \/ \E ok \in BOOLEAN : RefreshReturns(ok)

Next ==
  \/ \E s \in Slots : ClickLogout(s) \/ Ask(s)
  \/ \E s \in Slots, u \in Users, right \in BOOLEAN : SubmitLogin(s, u, right)
  \/ Reload \/ Lapse
  \/ Answers

\* The server answers, or fetch gives up, and the tab handles what arrives.
Fairness == WF_vars(Answers)

Spec == Init /\ [][Next]_vars /\ Fairness

-----------------------------------------------------------------------------
Quiet == refresh = None /\ \A s \in Slots : ~Busy(s)

TypeOK ==
  /\ sessions \in Seq([user : Users, live : BOOLEAN])
  /\ lapsed \subseteq Rows /\ cookie \in 0..Len(sessions) /\ token \in 0..Len(sessions)
  /\ user \in Users \cup {None} /\ isLoading \in BOOLEAN /\ acts \in 0..MaxActs
  /\ Waiting # {} => refresh # None

(* The tab acts as the user it shows, and as nobody after a logout, whose     *)
(* session is dead: unless a login or a logout overlapped a refresh. Then the *)
(* answer that comes last decides the token, whoever is shown, and may bring  *)
(* a session back.                                                           *)
ActsAsShown ==
  Quiet /\ ~overlapped =>
    /\ user # None /\ token # 0 => sessions[token].user = user
    /\ loggedOut => token = 0 /\ ~CookieLives

(* Only a lost answer or an overlap turns a visitor away whose session lives: *)
(* however many requests find the access token lapsed at once, none is       *)
(* refused, for they share one refresh (a second with the same cookie would  *)
(* fail); and he is not sent to the login page while the profile of a        *)
(* recovered session is still being fetched.                                 *)
NotTurnedAway ==
  /\ TypeOK
  /\ turned => faulted \/ overlapped
  /\ RequireAuth = "login" /\ CookieLives /\ (\A s \in Slots : call[s].flow # "login")
       => faulted \/ overlapped

(* A wrong password is counted at most twice: a 401 is retried even when it  *)
(* is the answer to a login, but once.                                       *)
CountedTwiceAtMost == \A u \in Users : failures[u] <= 2 * mistyped[u]

(* Whatever is lost, the tab gets past its spinner and every request ends.   *)
Settles == []<>(Quiet /\ ~isLoading)
-----------------------------------------------------------------------------
(* The invariants these three need. First, what holds whatever overlaps. *)

Signing == {"boot", "login", "logout"}
Asks(flow) ==
  CASE flow = "boot" -> {"refresh", "me"} [] flow = "login" -> {"login", "me"}
    [] flow = "logout" -> {"logout"} [] flow = "page" -> {"list"}

Refreshes == [holds : Nat, served : BOOLEAN, ok : BOOLEAN, row : Nat]
Calls ==
  [flow : Signing \cup {"page"}, ask : {"refresh", "me", "login", "logout", "list"},
   bearer : Nat, skip : BOOLEAN, as : Users \cup {None}, right : BOOLEAN, holds : Nat,
   stage : {"sent", "waiting", "answered"}, status : {0, 200, 401}, row : Nat]

(* A request that was retried does not wait again, and a logout is never refused. *)
CallOK(c) ==
  /\ c \in Calls /\ c.ask \in Asks(c.flow)
  /\ c.stage = "waiting" => ~c.skip
  /\ c.ask = "refresh" => c.stage = "waiting"
  /\ c.ask = "login" => c.as \in Users
  /\ c.ask = "logout" => c.stage # "waiting" /\ c.status # 401
  /\ c.ask = "me" /\ c.stage = "answered" /\ c.status = 200 => c.row = c.bearer

RefreshFits ==
  refresh # None =>
    /\ refresh \in Refreshes
    /\ {refresh.holds, refresh.row} \subseteq 0..Len(sessions)
    /\ refresh.row # 0 => refresh.served /\ refresh.ok

CallsFit ==
  /\ DOMAIN call = Slots
  /\ \A s \in Slots : Busy(s) => CallOK(call[s])
  /\ \A s \in Slots :
       /\ Busy(s) /\ call[s].ask \in {"login", "me"} /\ call[s].stage = "answered"
       /\ call[s].status = 200
       => call[s].row \in Rows

Shape ==
  /\ failures \in [Users -> Nat] /\ mistyped \in [Users -> Nat]
  /\ token \in {0, cookie}
  /\ RefreshFits /\ CallsFit

(* How often a login under way may still be counted as a wrong password. *)
Left(c) == (IF c.stage = "sent" THEN 1 ELSE 0) + (IF c.skip THEN 0 ELSE 1)

Counted ==
  /\ CountedTwiceAtMost
  /\ \A s, t \in Slots : call[s].flow = "login" /\ call[t].flow = "login" => s = t
  /\ \A s \in Slots : Busy(s) /\ call[s].ask = "login" /\ ~call[s].right =>
       failures[call[s].as] + Left(call[s]) <= 2 * mistyped[call[s].as]

Base == TypeOK /\ Shape /\ Counted

(* Next, what holds as long as boot, login, logout and refresh do not overlap. *)

Profiling == \E s \in Slots : call[s].flow = "login" /\ call[s].ask = "me"
SameUser(m, n) == {m, n} \subseteq Rows /\ sessions[m].user = sessions[n].user

(* One of them is under way, and a refresh only on its behalf. *)
OneAtATime ==
  /\ \A s, t \in Slots : call[s].flow \in Signing /\ call[t].flow \in Signing => s = t
  /\ refresh # None =>
       \A s \in Slots : call[s].flow \in Signing => call[s].stage = "waiting"

(* The refresh under way is the cookie's, and what it brings is fresh. *)
RefreshOK ==
  refresh # None =>
    /\ refresh.holds = cookie
    /\ refresh.row # 0 => SameUser(refresh.row, cookie) /\ refresh.row \notin lapsed \cup {cookie}
    /\ refresh.served /\ refresh.ok /\ refresh.row = 0 => cookie = 0
    /\ refresh.served /\ ~refresh.ok => ~CookieLives

(* Who is shown, and whose profile is asked for, is the cookie's user. *)
CookieIsShown ==
  /\ user # None /\ ~Profiling => cookie # 0 /\ sessions[cookie].user = user
  /\ \A s \in Slots : Busy(s) /\ call[s].ask = "me" => SameUser(call[s].bearer, cookie)
  /\ loggedOut => cookie = 0

(* A retried request carries a token that has not lapsed. *)
RetriesAreFresh ==
  \A s \in Slots : Busy(s) /\ call[s].skip /\ call[s].ask \in {"me", "list"} =>
    /\ call[s].bearer \in Rows \ lapsed
    /\ call[s].stage = "answered" => call[s].status = 200

(* Nobody is at the login page who has a session, or will have. *)
NobodyOut ==
  /\ turned => faulted
  /\ RequireAuth = "login" /\ ~Profiling /\ ~faulted =>
       ~CookieLives /\ (refresh # None => refresh.row = 0)

Orderly == OneAtATime /\ RefreshOK /\ CookieIsShown /\ RetriesAreFresh /\ NobodyOut

IInv ==
  /\ Base
  /\ overlapped \/ Orderly
  /\ turned => faulted \/ overlapped
=============================================================================
