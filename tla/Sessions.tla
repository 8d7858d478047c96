------------------------------ MODULE Sessions ------------------------------
(***************************************************************************)
(* Accounts, refresh-token sessions and one-time tokens: AuthService.       *)
(*                                                                          *)
(* An account stands for its e-mail address, a session row for its refresh  *)
(* token.  Each handler runs from await to await; what a request in flight  *)
(* has read is kept in its record in `call`, and it writes from that record *)
(* whatever has happened since.  Time is an environment that ends a lock,   *)
(* a session or a token; a failing query, or a restart of the process, ends *)
(* a request between two of its awaits.                                     *)
(*                                                                          *)
(* Left out: login_history and security_events (append-only, never read by  *)
(* this service), the mails, the devices, and the access token, which is    *)
(* not stored.  No code writes the statuses suspended and deactivated.      *)
(***************************************************************************)
EXTENDS Naturals, FiniteSets

CONSTANTS
  Users,        \* e-mail addresses
  SeedAdmins,   \* the addresses SEED_ADMIN_EMAIL may name
  Passwords,    \* passwords people choose and type
  SessionIds,   \* bound: rows of identity.sessions
  Tokens,       \* bound: rows of the two token tables
  Slots,        \* bound: requests handled at the same time
  MaxAttempts,  \* auth.maxFailedLoginAttempts
  FailedCap,    \* bound: failed attempts counted
  None          \* null

ASSUME SeedAssumption == SeedAdmins \subseteq Users
ASSUME AttemptsAssumption == MaxAttempts \in Nat \ {0} /\ FailedCap \in Nat
ASSUME NullAssumption == None \notin Users \cup Passwords \cup SessionIds \cup Tokens

VARIABLES
  password,      \* users.password_hash by the password it is of, None: no such user
  verified,      \* users.is_email_verified
  status,        \* users.status
  lockedUntil,   \* users.locked_until: null, still to come, or past
  failed,        \* users.failed_login_attempts
  session,       \* what a sessions row is created with
  sessionState,  \* its revoked_at and expires_at
  token,         \* what a row of the token tables is created with
  tokenState,    \* its used_at and expires_at
  call,          \* the requests in flight
  interrupted,   \* history: whether a request ended between two of its awaits
  overlapped     \* history: whether two requests were in flight at a time

users == <<password, verified, status, lockedUntil, failed>>
sessions == <<session, sessionState>>
tokens == <<token, tokenState>>
vars == <<users, sessions, tokens, call, interrupted, overlapped>>

-----------------------------------------------------------------------------
(* Rows and requests *)

(* `from`, `line` and `password` are histories: the session whose refresh
   created this one, the session of the login it descends from, and the
   password that login verified. `raced` marks a session created by a request
   during which the account's password was reset, and those refreshed from it. *)
Session ==
  [user : Users \cup {None}, from : SessionIds \cup {None}, line : SessionIds \cup {None},
   password : Passwords \cup {None}, raced : BOOLEAN]

NoSession ==
  [user |-> None, from |-> None, line |-> None, password |-> None, raced |-> FALSE]

Token == [kind : {"none", "emailVerification", "passwordReset"}, user : Users \cup {None}]
NoToken == [kind |-> "none", user |-> None]

Stages == {"idle", "registering", "mailing", "verifying", "checking", "locking",
           "rotating", "signing", "resetting"}

Call ==
  [at : Stages, user : Users \cup {None}, password : Passwords \cup {None},
   seen : Passwords \cup {None}, from : SessionIds \cup {None},
   token : Tokens \cup {None}, raced : BOOLEAN]

Step(at, u, p, seen, from, t, raced) ==
  [at |-> at, user |-> u, password |-> p, seen |-> seen, from |-> from, token |-> t,
   raced |-> raced]

NoCall == Step("idle", None, None, None, None, None, FALSE)

Goes(s, k) == call' = [call EXCEPT ![s] = k]
Ends(s) == Goes(s, NoCall)

At(s, stage) == call[s].at = stage

(* The request moves on to its next await. *)
MovesTo(s, stage) ==
  Goes(s, Step(stage, call[s].user, call[s].password, call[s].seen, call[s].from,
               call[s].token, call[s].raced))

Registered(u) == password[u] # None

(* A request that may yet create a session. *)
ToSession(s) == call[s].at \in {"checking", "rotating", "signing"}

(* Bounds: ids are left for the rows the requests in flight may create. *)
InFlight(stages) == {s \in Slots : call[s].at \in stages}
SessionIdLeft ==
  Cardinality({x \in SessionIds : sessionState[x] = "none"}) >
    Cardinality({s \in Slots : ToSession(s)})
TokenIdLeft ==
  Cardinality({t \in Tokens : tokenState[t] = "none"}) >
    Cardinality(InFlight({"registering", "mailing"}))

Init ==
  /\ password = [u \in Users |-> None]
  /\ verified = [u \in Users |-> FALSE]
  /\ status = [u \in Users |-> "active"]
  /\ lockedUntil = [u \in Users |-> "null"]
  /\ failed = [u \in Users |-> 0]
  /\ session = [x \in SessionIds |-> NoSession]
  /\ sessionState = [x \in SessionIds |-> "none"]
  /\ token = [t \in Tokens |-> NoToken]
  /\ tokenState = [t \in Tokens |-> "none"]
  /\ call = [s \in Slots |-> NoCall]
  /\ interrupted = FALSE /\ overlapped = FALSE

-----------------------------------------------------------------------------
(* Accounts *)

(* register: the address is looked up, then the password hashed. *)
Register(s) ==
  \E u \in Users, p \in Passwords :
    /\ At(s, "idle")
    /\ ~Registered(u)
    /\ TokenIdLeft
    /\ Goes(s, Step("registering", u, p, None, None, None, FALSE))
    /\ UNCHANGED <<users, sessions, tokens>>

(* The unique index on users.email. *)
EmailIsFree(u) == ~Registered(u)

CreateUser(s) ==
  /\ At(s, "registering")
  /\ UNCHANGED <<verified, status, lockedUntil, failed, sessions, tokens>>
  /\ \/ /\ EmailIsFree(call[s].user)
        /\ password' = [password EXCEPT ![call[s].user] = call[s].password]
        /\ MovesTo(s, "mailing")
     \/ /\ ~EmailIsFree(call[s].user)
        /\ Ends(s)
        /\ UNCHANGED password

NewToken(t, kind, u) ==
  /\ tokenState[t] = "none"
  /\ token' = [token EXCEPT ![t] = [kind |-> kind, user |-> u]]
  /\ tokenState' = [tokenState EXCEPT ![t] = "unused"]

IssueEmailVerification(s) ==
  /\ At(s, "mailing")
  /\ \E t \in Tokens : NewToken(t, "emailVerification", call[s].user)
  /\ Ends(s)
  /\ UNCHANGED <<users, sessions>>

(* seedPlatformAdminOnBoot: an upsert that leaves an existing account's
   password, e-mail flag and status alone. *)
SeedPlatformAdmin(u) ==
  \E p \in Passwords :
    /\ u \in SeedAdmins
    /\ EmailIsFree(u)
    /\ password' = [password EXCEPT ![u] = p]
    /\ verified' = [verified EXCEPT ![u] = TRUE]
    /\ UNCHANGED <<status, lockedUntil, failed, sessions, tokens, call>>

(* An unused and unexpired row of the right table. *)
Redeemable(t, kind) == token[t].kind = kind /\ tokenState[t] = "unused"

VerifyEmailRead(s) ==
  \E t \in Tokens :
    /\ At(s, "idle")
    /\ Redeemable(t, "emailVerification")
    /\ Goes(s, Step("verifying", token[t].user, None, None, None, t, FALSE))
    /\ UNCHANGED <<users, sessions, tokens>>

VerifyEmail(s) ==
  /\ At(s, "verifying")
  /\ tokenState' = [tokenState EXCEPT ![call[s].token] = "used"]
  /\ verified' = [verified EXCEPT ![call[s].user] = TRUE]
  /\ Ends(s)
  /\ UNCHANGED <<password, status, lockedUntil, failed, sessions, token>>

-----------------------------------------------------------------------------
(* Login *)

\* mutant: the lock is not looked at
LockUnchecked(u) == TRUE

NotLockedOut(u) == ~(status[u] = "locked" /\ lockedUntil[u] = "future")

\* mutant: the e-mail flag is not looked at
MailUnchecked(u) == Registered(u) /\ NotLockedOut(u)

MayTryPassword(u) == Registered(u) /\ NotLockedOut(u) /\ verified[u]

(* Bound: attempts in flight stay within the failed attempts counted. *)
AttemptLeft(u) ==
  failed[u] + Cardinality({s \in InFlight({"checking"}) : call[s].user = u}) < FailedCap

(* The account is read once; its hash, as read, is what the password meets. *)
LoginRead(s) ==
  \E u \in Users, p \in Passwords :
    /\ At(s, "idle")
    /\ MayTryPassword(u)
    /\ AttemptLeft(u)
    /\ SessionIdLeft
    /\ Goes(s, Step("checking", u, p, password[u], None, None, FALSE))
    /\ UNCHANGED <<users, sessions, tokens>>

PasswordValid(s) == call[s].password = call[s].seen

LoginSucceeds(s) ==
  /\ At(s, "checking")
  /\ PasswordValid(s)
  /\ failed' = [failed EXCEPT ![call[s].user] = 0]
  /\ lockedUntil' = [lockedUntil EXCEPT ![call[s].user] = "null"]
  /\ status' = [status EXCEPT ![call[s].user] = "active"]
  /\ MovesTo(s, "signing")
  /\ UNCHANGED <<password, verified, sessions, tokens>>

\* mutant: one attempt too many
PastLimit(n) == n > MaxAttempts

ReachesLimit(n) == n >= MaxAttempts

(* handleFailedLogin: an atomic increment that returns the row; the lock is
   a second update, after login_history. *)
FailedLogin(s) ==
  /\ At(s, "checking")
  /\ ~PasswordValid(s)
  /\ failed' = [failed EXCEPT ![call[s].user] = failed[call[s].user] + 1]
  /\ IF ReachesLimit(failed[call[s].user] + 1) THEN MovesTo(s, "locking") ELSE Ends(s)
  /\ UNCHANGED <<password, verified, status, lockedUntil, sessions, tokens>>

LockAccount(s) ==
  /\ At(s, "locking")
  /\ status' = [status EXCEPT ![call[s].user] = "locked"]
  /\ lockedUntil' = [lockedUntil EXCEPT ![call[s].user] = "future"]
  /\ Ends(s)
  /\ UNCHANGED <<password, verified, failed, sessions, tokens>>

(* issueTokenPair, for a login and for a refresh. *)
IssueTokenPair(s) ==
  \E x \in SessionIds :
    /\ At(s, "signing")
    /\ sessionState[x] = "none"
    /\ session' = [session EXCEPT ![x] =
         [user |-> call[s].user, from |-> call[s].from,
          line |-> IF call[s].from = None THEN x ELSE session[call[s].from].line,
          password |-> call[s].password, raced |-> call[s].raced]]
    /\ sessionState' = [sessionState EXCEPT ![x] = "live"]
    /\ Ends(s)
    /\ UNCHANGED <<users, tokens>>

-----------------------------------------------------------------------------
(* Sessions *)

(* refresh: an unrevoked, unexpired row; the account is read but only for its
   id and address, its status is not looked at. *)
RefreshRead(s) ==
  \E x \in SessionIds :
    /\ At(s, "idle")
    /\ sessionState[x] = "live"
    /\ SessionIdLeft
    /\ Goes(s, Step("rotating", session[x].user, session[x].password, None, x, None,
                    session[x].raced))
    /\ UNCHANGED <<users, sessions, tokens>>

\* mutant: the new token is issued and the old one kept
KeepsOldToken(s) ==
  /\ At(s, "rotating")
  /\ MovesTo(s, "signing")
  /\ UNCHANGED <<users, sessions, tokens>>

(* The old row is revoked by its id, whether or not it still stands. *)
Rotate(s) ==
  /\ At(s, "rotating")
  /\ sessionState' = [sessionState EXCEPT ![call[s].from] = "revoked"]
  /\ MovesTo(s, "signing")
  /\ UNCHANGED <<users, session, tokens>>

Unrevoked(x) == sessionState[x] \in {"live", "expired"}

(* logout: whoever holds the refresh token. *)
Logout(x) ==
  /\ Unrevoked(x)
  /\ sessionState' = [sessionState EXCEPT ![x] = "revoked"]
  /\ UNCHANGED <<users, session, tokens, call>>

(* revokeSession: a row of the caller's own, JwtStrategy having found the
   caller's account active. *)
RevokeSession(u, x) ==
  /\ status[u] = "active"
  /\ session[x].user = u
  /\ Unrevoked(x)
  /\ sessionState' = [sessionState EXCEPT ![x] = "revoked"]
  /\ UNCHANGED <<users, session, tokens, call>>

-----------------------------------------------------------------------------
(* Password reset *)

ForgotPassword(u) ==
  /\ Registered(u)
  /\ TokenIdLeft
  /\ \E t \in Tokens : NewToken(t, "passwordReset", u)
  /\ UNCHANGED <<users, sessions, call>>

ResetRead(s) ==
  \E t \in Tokens, p \in Passwords :
    /\ At(s, "idle")
    /\ Redeemable(t, "passwordReset")
    /\ Goes(s, Step("resetting", token[t].user, p, None, None, t, FALSE))
    /\ UNCHANGED <<users, sessions, tokens>>

\* mutant: the reset leaves the sessions alone
SessionsKept(u) == sessionState

SessionsAfterReset(u) ==
  [x \in SessionIds |-> IF session[x].user = u /\ Unrevoked(x) THEN "revoked"
                                                               ELSE sessionState[x]]

(* One transaction: the token, the account and its sessions. The requests in
   flight that may yet create a session of the account are marked (a history). *)
ResetPassword(s) ==
  /\ At(s, "resetting")
  /\ tokenState' = [tokenState EXCEPT ![call[s].token] = "used"]
  /\ password' = [password EXCEPT ![call[s].user] = call[s].password]
  /\ failed' = [failed EXCEPT ![call[s].user] = 0]
  /\ lockedUntil' = [lockedUntil EXCEPT ![call[s].user] = "null"]
  /\ status' = [status EXCEPT ![call[s].user] = "active"]
  /\ sessionState' = SessionsAfterReset(call[s].user)
  /\ call' = [r \in Slots |->
       IF r = s THEN NoCall
       ELSE Step(call[r].at, call[r].user, call[r].password, call[r].seen, call[r].from,
                 call[r].token,
                 call[r].raced \/ (ToSession(r) /\ call[r].user = call[s].user))]
  /\ UNCHANGED <<verified, session, token>>

-----------------------------------------------------------------------------
(* Time, and requests that end half way *)

LockRunsOut(u) ==
  /\ lockedUntil[u] = "future"
  /\ lockedUntil' = [lockedUntil EXCEPT ![u] = "past"]
  /\ UNCHANGED <<password, verified, status, failed, sessions, tokens, call>>

SessionExpires(x) ==
  /\ sessionState[x] = "live"
  /\ sessionState' = [sessionState EXCEPT ![x] = "expired"]
  /\ UNCHANGED <<users, session, tokens, call>>

TokenExpires(t) ==
  /\ tokenState[t] = "unused"
  /\ tokenState' = [tokenState EXCEPT ![t] = "expired"]
  /\ UNCHANGED <<users, sessions, token, call>>

(* A query throws, or the process is restarted: what was written stays. *)
Fail(s) ==
  /\ ~At(s, "idle")
  /\ Ends(s)
  /\ UNCHANGED <<users, sessions, tokens>>

Serves(s) ==
  \/ Register(s) \/ CreateUser(s) \/ IssueEmailVerification(s)
  \/ VerifyEmailRead(s) \/ VerifyEmail(s)
  \/ LoginRead(s) \/ LoginSucceeds(s) \/ FailedLogin(s) \/ LockAccount(s)
  \/ RefreshRead(s) \/ Rotate(s) \/ IssueTokenPair(s)
  \/ ResetRead(s) \/ ResetPassword(s)

(* Methods of one write, the boot and the clock. *)
AtOnce ==
  \/ \E u \in Users : SeedPlatformAdmin(u) \/ ForgotPassword(u) \/ LockRunsOut(u)
  \/ \E x \in SessionIds : Logout(x) \/ SessionExpires(x)
  \/ \E u \in Users, x \in SessionIds : RevokeSession(u, x)
  \/ \E t \in Tokens : TokenExpires(t)

OneAtATime == \A s, t \in Slots : ~At(s, "idle") /\ ~At(t, "idle") => s = t

RecordsOverlap == overlapped' = (overlapped \/ ~OneAtATime')

Next ==
  /\ \/ ((\E s \in Slots : Serves(s)) \/ AtOnce) /\ UNCHANGED interrupted
     \/ (\E s \in Slots : Fail(s)) /\ interrupted' = TRUE
  /\ RecordsOverlap

Spec == Init /\ [][Next]_vars

-----------------------------------------------------------------------------
(* Properties *)

CallShape(s) ==
  /\ ~At(s, "idle") => call[s].user # None
  /\ call[s].at \in {"verifying", "resetting"} => call[s].token # None
  /\ call[s].at \in {"registering", "checking", "resetting"} => call[s].password # None
  /\ At(s, "rotating") => call[s].from # None

(* Every row, token and request is well formed: a row exists exactly when it
   has a state, and a request holds the row ids its next query will use. *)
WellTyped ==
  /\ password \in [Users -> Passwords \cup {None}]
  /\ verified \in [Users -> BOOLEAN]
  /\ status \in [Users -> {"active", "locked"}]
  /\ lockedUntil \in [Users -> {"null", "future", "past"}]
  /\ failed \in [Users -> Nat]
  /\ session \in [SessionIds -> Session]
  /\ sessionState \in [SessionIds -> {"none", "live", "expired", "revoked"}]
  /\ token \in [Tokens -> Token]
  /\ tokenState \in [Tokens -> {"none", "unused", "expired", "used"}]
  /\ call \in [Slots -> Call]
  /\ \A x \in SessionIds : sessionState[x] # "none" => session[x].user # None
  /\ \A s \in Slots : CallShape(s)
TypeOK == WellTyped /\ interrupted \in BOOLEAN /\ overlapped \in BOOLEAN

UsedVerification(u) ==
  \E t \in Tokens :
    token[t].kind = "emailVerification" /\ token[t].user = u /\ tokenState[t] = "used"

(* Only someone who reads the address's mail holds sessions of the account:
   every account with a session has used a verification token (or is the
   seeded administrator), also when logins, verifications, resets and
   registrations of the same address interleave. *)
SessionsOfVerified ==
  \A x \in SessionIds :
    sessionState[x] # "none" =>
      /\ verified[session[x].user]
      /\ session[x].user \in SeedAdmins \/ UsedVerification(session[x].user)

(* A refresh token that was ever exchanged is dead: once a session has a
   successor nothing revives it, whatever fails or runs in between. *)
ExchangedIsRevoked ==
  \A x \in SessionIds :
    session[x].from # None => sessionState[session[x].from] = "revoked"

(* A password reset ends every session of the account: the ones that are
   still unrevoked were obtained with the present password, except those
   created by a login or a refresh that was in flight during the reset, or
   refreshed from such a one. *)
ResetEndsSessions ==
  \A x \in SessionIds :
    Unrevoked(x) =>
      session[x].password = password[session[x].user] \/ session[x].raced

(* Reaching the limit of failed attempts locks the account: it is locked, or
   the request that reached the limit is about to lock it, whatever other
   logins and resets write to the counter and the status meanwhile. *)
LimitLocks ==
  \A u \in Users :
    failed[u] >= MaxAttempts =>
      \/ status[u] = "locked"
      \/ \E s \in Slots : At(s, "locking") /\ call[s].user = u

(* No query fails and the process is not restarted: a failure between the
   counter and the lock does leave an account at its limit and open. *)
LocksUnlessInterrupted == ~interrupted => LimitLocks

(* SECURITY.md: refresh tokens "rotate on every use (old one revoked, new one
   issued)". One login yields one usable refresh token at a time, so a replayed
   token is noticed. Holds one request at a time; two refreshes that both read
   the session before either revokes it leave two. *)
OneLivePerLogin ==
  \A x, y \in SessionIds :
    Unrevoked(x) /\ Unrevoked(y) /\ session[x].line = session[y].line => x = y

(* resetPassword: "a credential compromise recovery shouldn't leave old
   sessions alive". No usable session rests on an earlier password. *)
NoSessionOfOldPassword ==
  \A x \in SessionIds :
    Unrevoked(x) => session[x].password = password[session[x].user]

Redeems(t, u) ==
  /\ token[t] = [kind |-> "passwordReset", user |-> u]
  /\ tokenState[t] # "used" /\ tokenState'[t] = "used"

(* A password, once set, changes only with a reset link that was still unused:
   a link works once, and neither registration nor the seeding of the
   administrator touches an existing account. *)
PasswordByLink ==
  \A u \in Users :
    Registered(u) /\ password'[u] # password[u] => \E t \in Tokens : Redeems(t, u)

(* SECURITY.md: a "time-boxed lock". Before its time is over only a password
   reset opens a locked account. *)
LockHolds ==
  \A u \in Users :
    status[u] = "locked" /\ lockedUntil[u] = "future" /\ status'[u] # "locked"
      => \E t \in Tokens : Redeems(t, u)

(* As long as requests do not overlap, one login yields one usable refresh token,
   also when a refresh fails half way, and none rests on an old password. *)
SessionsUnlessOverlapped == ~overlapped => OneLivePerLogin /\ NoSessionOfOldPassword

(* As long as requests do not overlap, only an unused reset link changes a
   password, or opens a lock before its time is over. *)
LinksUnlessOverlapped == [][~overlapped' => PasswordByLink /\ LockHolds]_vars

-----------------------------------------------------------------------------
(* The inductive invariant *)

(* Every token belongs to an account, and every verified account used one. *)
TokensOfAccounts ==
  /\ \A t \in Tokens : tokenState[t] # "none" => token[t].user # None /\ Registered(token[t].user)
  /\ \A u \in Users : verified[u] => Registered(u)
  /\ \A u \in Users : verified[u] => u \in SeedAdmins \/ UsedVerification(u)

(* What a request in flight may rely on, however long its next await takes. *)
RequestHolds(s) ==
  /\ At(s, "mailing") => Registered(call[s].user)
  /\ At(s, "verifying") =>
       token[call[s].token] = [kind |-> "emailVerification", user |-> call[s].user]
  /\ call[s].at \in {"verifying", "resetting"} => tokenState[call[s].token] # "none"
  /\ ToSession(s) => verified[call[s].user]
  /\ At(s, "checking") =>
       call[s].from = None /\ (call[s].seen = password[call[s].user] \/ call[s].raced)
  /\ call[s].at \in {"rotating", "signing"} =>
       call[s].password = password[call[s].user] \/ call[s].raced
  /\ At(s, "rotating") => sessionState[call[s].from] # "none"
  /\ At(s, "signing") /\ call[s].from # None => sessionState[call[s].from] = "revoked"

(* The invariant the proofs use: the three promises about sessions, what the
   requests in flight still rely on, and, if requests run to their end, the lock. *)
IInv ==
  /\ WellTyped
  /\ TokensOfAccounts
  /\ \A s \in Slots : RequestHolds(s)
  /\ SessionsOfVerified
  /\ ExchangedIsRevoked
  /\ ResetEndsSessions
  /\ interrupted \/ LimitLocks

(* What the one request in flight has read and still relies on: the lock it saw
   open, the link it saw unused, the session it replaces and no other of its login. *)
StillSo(s) ==
  /\ ~call[s].raced
  /\ call[s].from # None => call[s].at \in {"rotating", "signing"}
  /\ At(s, "checking") => NotLockedOut(call[s].user)
  /\ At(s, "resetting") =>
       /\ token[call[s].token] = [kind |-> "passwordReset", user |-> call[s].user]
       /\ tokenState[call[s].token] # "used"
  /\ \A x \in SessionIds :
       Unrevoked(x) /\ call[s].from # None /\ session[x].line = session[call[s].from].line
         => At(s, "rotating") /\ x = call[s].from

(* The login a session descends from is a session. *)
LinesExist ==
  \A x \in SessionIds :
    sessionState[x] # "none" =>
      session[x].line \in SessionIds /\ sessionState[session[x].line] # "none"

(* Inductive together with IInv. *)
Alone ==
  ~overlapped =>
    /\ OneAtATime
    /\ \A s \in Slots : StillSo(s)
    /\ \A x \in SessionIds : ~session[x].raced
    /\ LinesExist /\ OneLivePerLogin
=============================================================================
