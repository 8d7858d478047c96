--------------------------- MODULE SessionsProofs ---------------------------
(* Proofs about Sessions for every set of accounts, rows and request slots.   *)
EXTENDS Sessions, TLAPS

-----------------------------------------------------------------------------
(* Steps by what they leave alone *)

(* No account, password or verification is lost. *)
AccountsKept ==
  /\ \A u \in Users : Registered(u) => Registered(u)' /\ password'[u] = password[u]
  /\ \A u \in Users : verified[u] => verified'[u]

(* Tokens are issued and spent, never revived or rewritten. *)
TokensKept ==
  \A t \in Tokens :
    /\ tokenState[t] # "none" => tokenState'[t] # "none" /\ token'[t] = token[t]
    /\ tokenState[t] = "used" => tokenState'[t] = "used"

(* Sessions end, none begins. *)
SessionsOnlyEnd ==
  \A x \in SessionIds :
    /\ session'[x] = session[x]
    /\ sessionState'[x] = "none" <=> sessionState[x] = "none"
    /\ sessionState[x] = "revoked" => sessionState'[x] = "revoked"

(* No session disappears, none that was revoked is revived. *)
RevokedStays ==
  \A x \in SessionIds :
    /\ sessionState[x] # "none" => sessionState'[x] # "none"
    /\ sessionState[x] = "revoked" => sessionState'[x] = "revoked"

LEMMA NoCallTyped == NoCall \in Call
  BY DEF NoCall, Step, Call, Stages

(* A used verification token stays one. *)
LEMMA UsedVerificationStays ==
  ASSUME TokensKept, NEW u \in Users, UsedVerification(u)
  PROVE  UsedVerification(u)'
  BY DEF TokensKept, UsedVerification

(* The promises about sessions survive a step that only ends sessions. *)
LEMMA SessionPromisesKept ==
  ASSUME IInv, AccountsKept, TokensKept, SessionsOnlyEnd
  PROVE  SessionsOfVerified' /\ ExchangedIsRevoked' /\ ResetEndsSessions'
  <1> USE DEF IInv
  <1>1. SessionsOfVerified'
    <2> SUFFICES ASSUME NEW x \in SessionIds, sessionState'[x] # "none"
                 PROVE  /\ verified'[session'[x].user]
                        /\ session'[x].user \in SeedAdmins \/ UsedVerification(session[x].user)'
      BY DEF SessionsOfVerified
    <2>1. /\ sessionState[x] # "none" /\ session'[x] = session[x]
          /\ session[x].user \in Users
      BY DEF SessionsOnlyEnd, WellTyped, Session
    <2>2. PICK u \in Users : u = session[x].user
      BY <2>1
    <2>3. verified[u] /\ (u \in SeedAdmins \/ UsedVerification(u))
      BY <2>1, <2>2 DEF SessionsOfVerified
    <2>4. UsedVerification(u) => UsedVerification(u)'
      BY UsedVerificationStays
    <2>5. session'[x].user = u /\ verified'[u]
      BY <2>1, <2>2, <2>3 DEF AccountsKept
    <2>6. UsedVerification(u)' => UsedVerification(session[x].user)'
      BY <2>5 DEF UsedVerification
    <2> QED BY <2>3, <2>4, <2>5, <2>6
  <1>2. ExchangedIsRevoked'
    BY NullAssumption DEF ExchangedIsRevoked, SessionsOnlyEnd, WellTyped, Session
  <1>3. ResetEndsSessions'
    <2> SUFFICES ASSUME NEW x \in SessionIds, Unrevoked(x)'
                 PROVE  session'[x].password = password'[session'[x].user] \/ session'[x].raced
      BY DEF ResetEndsSessions
    <2>1. Unrevoked(x) /\ session'[x] = session[x] /\ session[x].user \in Users
      BY DEF SessionsOnlyEnd, Unrevoked, WellTyped, Session
    <2>2. Registered(session[x].user)
      BY <2>1 DEF SessionsOfVerified, TokensOfAccounts, Unrevoked
    <2> QED BY <2>1, <2>2 DEF ResetEndsSessions, AccountsKept
  <1> QED BY <1>1, <1>2, <1>3

(* What a request in flight relies on stays true while accounts and tokens
   are kept and no revoked row comes back. *)
LEMMA RequestKept ==
  ASSUME IInv, AccountsKept, TokensKept, RevokedStays,
         NEW r \in Slots, call'[r] = call[r]
  PROVE  CallShape(r)' /\ RequestHolds(r)'
  <1> USE DEF IInv
  <1>1. CallShape(r)'
    BY DEF WellTyped, CallShape, At
  <1>2. RequestHolds(r) /\ CallShape(r) /\ call[r] \in Call
    BY DEF WellTyped
  <1>3. At(r, "mailing") => Registered(call[r].user)'
    BY <1>2 DEF RequestHolds, CallShape, At, AccountsKept, Call
  <1>4. call[r].at \in {"verifying", "resetting"} =>
          /\ tokenState'[call[r].token] # "none"
          /\ token'[call[r].token] = token[call[r].token]
    BY <1>2 DEF RequestHolds, CallShape, TokensKept, Call
  <1>5. ToSession(r) =>
          /\ verified'[call[r].user]
          /\ password'[call[r].user] = password[call[r].user]
    BY <1>2 DEF RequestHolds, CallShape, ToSession, At, AccountsKept, Call, TokensOfAccounts
  <1>6. /\ At(r, "rotating") => sessionState'[call[r].from] # "none"
        /\ At(r, "signing") /\ call[r].from # None => sessionState'[call[r].from] = "revoked"
    BY <1>2 DEF RequestHolds, RevokedStays, CallShape, At, Call
  <1> QED
    BY <1>1, <1>2, <1>3, <1>4, <1>5, <1>6 DEF RequestHolds, At, ToSession, Registered

(* Requests other than the one that takes the step. *)
LEMMA RequestsKept ==
  ASSUME IInv, AccountsKept, TokensKept, RevokedStays,
         NEW s \in Slots, NEW k \in Call, call' = [call EXCEPT ![s] = k],
         CallShape(s)', RequestHolds(s)'
  PROVE  \A r \in Slots : CallShape(r)' /\ RequestHolds(r)'
  <1> SUFFICES ASSUME NEW r \in Slots
               PROVE  CallShape(r)' /\ RequestHolds(r)'
    OBVIOUS
  <1>1. CASE r = s
    BY <1>1
  <1>2. CASE r # s
    <2>1. call'[r] = call[r]
      BY <1>2 DEF IInv, WellTyped
    <2> QED BY <2>1, RequestKept
  <1> QED BY <1>1, <1>2

(* A finished request relies on nothing. *)
LEMMA EndedHolds ==
  ASSUME NEW s \in Slots, call'[s] = NoCall
  PROVE  CallShape(s)' /\ RequestHolds(s)'
  BY DEF CallShape, RequestHolds, At, ToSession, NoCall, Step

(* The lock survives a step that leaves counters and statuses alone and is
   not the one that was about to lock. *)
LEMMA LockKept ==
  ASSUME IInv, interrupted => interrupted', UNCHANGED <<status, failed>>,
         \A r \in Slots : At(r, "locking") /\ ~interrupted' =>
           At(r, "locking")' /\ call'[r].user = call[r].user
  PROVE  (interrupted \/ LimitLocks)'
  BY DEF IInv, LimitLocks, At

(* WellTyped without the requests. *)
RowsTyped ==
  /\ password \in [Users -> Passwords \cup {None}]
  /\ verified \in [Users -> BOOLEAN]
  /\ status \in [Users -> {"active", "locked"}]
  /\ lockedUntil \in [Users -> {"null", "future", "past"}]
  /\ failed \in [Users -> Nat]
  /\ session \in [SessionIds -> Session]
  /\ sessionState \in [SessionIds -> {"none", "live", "expired", "revoked"}]
  /\ token \in [Tokens -> Token]
  /\ tokenState \in [Tokens -> {"none", "unused", "expired", "used"}]
  /\ \A x \in SessionIds : sessionState[x] # "none" => session[x].user # None

(* No token is issued and no account verified: their relation is kept. *)
LEMMA TokensOfAccountsKept ==
  ASSUME IInv, AccountsKept, TokensKept, UNCHANGED verified,
         \A t \in Tokens : tokenState'[t] # "none" => tokenState[t] # "none"
  PROVE  TokensOfAccounts'
  <1> USE DEF IInv
  <1>1. \A t \in Tokens : tokenState'[t] # "none" =>
          token'[t].user # None /\ password'[token'[t].user] # None
    BY DEF TokensOfAccounts, TokensKept, AccountsKept, WellTyped, Token, Registered
  <1>2. \A u \in Users : verified'[u] => password'[u] # None
    BY DEF TokensOfAccounts, AccountsKept, Registered
  <1>3. \A u \in Users : verified'[u] => u \in SeedAdmins \/ UsedVerification(u)'
    BY UsedVerificationStays DEF TokensOfAccounts
  <1> QED BY <1>1, <1>2, <1>3 DEF TokensOfAccounts, Registered

(* A step of one request that only ends sessions: what is left to show is
   what it does to the rows, to the lock, and to its own request. *)
LEMMA StepKeeps ==
  ASSUME IInv, interrupted => interrupted', AccountsKept, TokensKept, SessionsOnlyEnd,
         NEW s \in Slots, NEW k \in Call, call' = [call EXCEPT ![s] = k],
         CallShape(s)', RequestHolds(s)',
         RowsTyped', TokensOfAccounts', (interrupted \/ LimitLocks)'
  PROVE  IInv'
  <1>1. RevokedStays
    BY DEF SessionsOnlyEnd, RevokedStays
  <1>2. \A r \in Slots : CallShape(r)' /\ RequestHolds(r)'
    BY <1>1, RequestsKept
  <1>3. WellTyped'
    BY <1>2 DEF WellTyped, RowsTyped, IInv
  <1> QED BY <1>2, <1>3, SessionPromisesKept DEF IInv

(* A step that only moves one request on, from anywhere but the lock. *)
LEMMA MoveKeeps ==
  ASSUME IInv, interrupted => interrupted', UNCHANGED <<users, sessions, tokens>>,
         NEW s \in Slots, NEW k \in Call, call' = [call EXCEPT ![s] = k],
         ~At(s, "locking") \/ interrupted', CallShape(s)', RequestHolds(s)'
  PROVE  IInv'
  <1> USE DEF users, sessions, tokens
  <1>1. AccountsKept /\ TokensKept /\ SessionsOnlyEnd
    BY DEF AccountsKept, TokensKept, SessionsOnlyEnd, Registered
  <1>2. RowsTyped'
    BY DEF RowsTyped, IInv, WellTyped
  <1>3. TokensOfAccounts'
    BY <1>1, TokensOfAccountsKept
  <1>4. (interrupted \/ LimitLocks)'
    BY LockKept DEF At, IInv, WellTyped
  <1> QED BY <1>1, <1>2, <1>3, <1>4, StepKeeps

-----------------------------------------------------------------------------
(* Requests that arrive, and requests that fail *)

LEMMA RegisterKeepsIInv ==
  ASSUME IInv, interrupted => interrupted', NEW s \in Slots, Register(s)
  PROVE  IInv'
  <1>1. PICK u \in Users, p \in Passwords :
          call' = [call EXCEPT ![s] = Step("registering", u, p, None, None, None, FALSE)]
    BY DEF Register, Goes
  <1> DEFINE k == Step("registering", u, p, None, None, None, FALSE)
  <1>2. k \in Call /\ call'[s] = k
    BY <1>1 DEF Call, Step, Stages, IInv, WellTyped
  <1>3. CallShape(s)' /\ RequestHolds(s)'
    BY <1>2, NullAssumption DEF CallShape, RequestHolds, At, ToSession, Step
  <1> HIDE DEF k
  <1> QED BY <1>1, <1>2, <1>3, MoveKeeps DEF Register, At, k

LEMMA VerifyEmailReadKeepsIInv ==
  ASSUME IInv, interrupted => interrupted', NEW s \in Slots, VerifyEmailRead(s)
  PROVE  IInv'
  <1>1. PICK t \in Tokens :
          /\ Redeemable(t, "emailVerification")
          /\ call' = [call EXCEPT ![s] =
                         Step("verifying", token[t].user, None, None, None, t, FALSE)]
    BY DEF VerifyEmailRead, Goes
  <1> DEFINE k == Step("verifying", token[t].user, None, None, None, t, FALSE)
  <1>2. token[t] = [kind |-> "emailVerification", user |-> token[t].user]
        /\ token[t].user \in Users /\ tokenState[t] # "none"
    BY <1>1 DEF Redeemable, IInv, WellTyped, TokensOfAccounts, Token
  <1>3. k \in Call /\ call'[s] = k
    BY <1>1, <1>2 DEF Call, Step, Stages, IInv, WellTyped
  <1>4. token' = token /\ tokenState' = tokenState
    BY DEF VerifyEmailRead, tokens
  <1>5. CallShape(s)' /\ RequestHolds(s)'
    BY <1>2, <1>3, <1>4, NullAssumption DEF CallShape, RequestHolds, At, ToSession, Step
  <1> HIDE DEF k
  <1> QED BY <1>1, <1>3, <1>5, MoveKeeps DEF VerifyEmailRead, At, k

LEMMA LoginReadKeepsIInv ==
  ASSUME IInv, interrupted => interrupted', NEW s \in Slots, LoginRead(s)
  PROVE  IInv'
  <1>1. PICK u \in Users, p \in Passwords :
          /\ MayTryPassword(u)
          /\ call' = [call EXCEPT ![s] = Step("checking", u, p, password[u], None, None, FALSE)]
    BY DEF LoginRead, Goes
  <1> DEFINE k == Step("checking", u, p, password[u], None, None, FALSE)
  <1>2. k \in Call /\ call'[s] = k
    BY <1>1 DEF Call, Step, Stages, IInv, WellTyped
  <1>3. verified'[u] /\ password' = password
    BY <1>1 DEF MayTryPassword, LoginRead, users
  <1>4. CallShape(s)' /\ RequestHolds(s)'
    BY <1>2, <1>3, NullAssumption DEF CallShape, RequestHolds, At, ToSession, Step
  <1> HIDE DEF k
  <1> QED BY <1>1, <1>2, <1>4, MoveKeeps DEF LoginRead, At, k

LEMMA RefreshReadKeepsIInv ==
  ASSUME IInv, interrupted => interrupted', NEW s \in Slots, RefreshRead(s)
  PROVE  IInv'
  <1>1. PICK x \in SessionIds :
          /\ sessionState[x] = "live"
          /\ call' = [call EXCEPT ![s] =
                         Step("rotating", session[x].user, session[x].password, None, x, None,
                              session[x].raced)]
    BY DEF RefreshRead, Goes
  <1> DEFINE k == Step("rotating", session[x].user, session[x].password, None, x, None,
                       session[x].raced)
  <1>2. session[x] \in Session /\ session[x].user \in Users
    BY <1>1 DEF IInv, WellTyped, Session
  <1>3. k \in Call /\ call'[s] = k
    BY <1>1, <1>2 DEF Call, Step, Stages, Session, IInv, WellTyped
  <1>4. /\ verified'[session[x].user] /\ sessionState'[x] # "none"
        /\ session[x].password = password'[session[x].user] \/ session[x].raced
    BY <1>1 DEF RefreshRead, users, sessions, IInv, SessionsOfVerified, ResetEndsSessions, Unrevoked
  <1>5. CallShape(s)' /\ RequestHolds(s)'
    BY <1>2, <1>3, <1>4, NullAssumption DEF CallShape, RequestHolds, At, ToSession, Step
  <1> HIDE DEF k
  <1> QED BY <1>1, <1>3, <1>5, MoveKeeps DEF RefreshRead, At, k

LEMMA ResetReadKeepsIInv ==
  ASSUME IInv, interrupted => interrupted', NEW s \in Slots, ResetRead(s)
  PROVE  IInv'
  <1>1. PICK t \in Tokens, p \in Passwords :
          /\ Redeemable(t, "passwordReset")
          /\ call' = [call EXCEPT ![s] =
                         Step("resetting", token[t].user, p, None, None, t, FALSE)]
    BY DEF ResetRead, Goes
  <1> DEFINE k == Step("resetting", token[t].user, p, None, None, t, FALSE)
  <1>2. token[t].user \in Users /\ tokenState[t] # "none"
    BY <1>1 DEF Redeemable, IInv, WellTyped, TokensOfAccounts, Token
  <1>3. k \in Call /\ call'[s] = k
    BY <1>1, <1>2 DEF Call, Step, Stages, IInv, WellTyped
  <1>4. tokenState' = tokenState
    BY DEF ResetRead, tokens
  <1>5. CallShape(s)' /\ RequestHolds(s)'
    BY <1>2, <1>3, <1>4, NullAssumption DEF CallShape, RequestHolds, At, ToSession, Step
  <1> HIDE DEF k
  <1> QED BY <1>1, <1>3, <1>5, MoveKeeps DEF ResetRead, At, k

LEMMA FailKeepsIInv ==
  ASSUME IInv, NEW s \in Slots, Fail(s), interrupted'
  PROVE  IInv'
  <1>1. call' = [call EXCEPT ![s] = NoCall] /\ call'[s] = NoCall
    BY DEF Fail, Ends, Goes, IInv, WellTyped
  <1> QED BY <1>1, NoCallTyped, EndedHolds, MoveKeeps DEF Fail

-----------------------------------------------------------------------------
(* Steps that no request in flight takes: time, logout, seeding *)

LEMMA OutsideStepKeeps ==
  ASSUME IInv, interrupted => interrupted', AccountsKept, TokensKept, SessionsOnlyEnd,
         UNCHANGED call,
         RowsTyped', TokensOfAccounts', (interrupted \/ LimitLocks)'
  PROVE  IInv'
  <1>1. RevokedStays
    BY DEF SessionsOnlyEnd, RevokedStays
  <1>2. \A r \in Slots : CallShape(r)' /\ RequestHolds(r)'
    BY <1>1, RequestKept
  <1>3. WellTyped'
    BY <1>2 DEF WellTyped, RowsTyped, IInv
  <1> QED BY <1>2, <1>3, SessionPromisesKept DEF IInv

(* A session ends. *)
LEMMA EndingKeepsIInv ==
  ASSUME IInv, interrupted => interrupted', NEW x \in SessionIds,
         Logout(x) \/ SessionExpires(x) \/ \E u \in Users : RevokeSession(u, x)
  PROVE  IInv'
  <1>1. PICK v \in {"expired", "revoked"} : sessionState' = [sessionState EXCEPT ![x] = v]
    BY DEF Logout, SessionExpires, RevokeSession
  <1>2. sessionState[x] \in {"live", "expired"}
    BY DEF Logout, SessionExpires, RevokeSession, Unrevoked
  <1>3. UNCHANGED <<password, verified, status, lockedUntil, failed, session, token, tokenState, call>>
    BY DEF Logout, SessionExpires, RevokeSession, users, tokens
  <1>4. AccountsKept /\ TokensKept
    BY <1>3 DEF AccountsKept, TokensKept, Registered
  <1>5. SessionsOnlyEnd
    BY <1>1, <1>2, <1>3 DEF SessionsOnlyEnd, IInv, WellTyped
  <1>6. RowsTyped'
    BY <1>1, <1>2, <1>3 DEF RowsTyped, IInv, WellTyped
  <1>7. TokensOfAccounts'
    BY <1>3, <1>4, TokensOfAccountsKept
  <1>8. (interrupted \/ LimitLocks)'
    BY <1>3, LockKept DEF At
  <1> QED BY <1>3, <1>4, <1>5, <1>6, <1>7, <1>8, OutsideStepKeeps

LEMMA LockRunsOutKeepsIInv ==
  ASSUME IInv, interrupted => interrupted', NEW u \in Users, LockRunsOut(u)
  PROVE  IInv'
  <1>1. UNCHANGED <<password, verified, status, failed, session, sessionState, token, tokenState, call>>
        /\ lockedUntil' = [lockedUntil EXCEPT ![u] = "past"]
    BY DEF LockRunsOut, sessions, tokens
  <1>2. AccountsKept /\ TokensKept /\ SessionsOnlyEnd
    BY <1>1 DEF AccountsKept, TokensKept, SessionsOnlyEnd, Registered
  <1>3. RowsTyped'
    BY <1>1 DEF RowsTyped, IInv, WellTyped
  <1>4. TokensOfAccounts'
    BY <1>1, <1>2, TokensOfAccountsKept
  <1>5. (interrupted \/ LimitLocks)'
    BY <1>1, LockKept DEF At
  <1> QED BY <1>1, <1>2, <1>3, <1>4, <1>5, OutsideStepKeeps

LEMMA TokenExpiresKeepsIInv ==
  ASSUME IInv, interrupted => interrupted', NEW t \in Tokens, TokenExpires(t)
  PROVE  IInv'
  <1>1. UNCHANGED <<password, verified, status, lockedUntil, failed, session, sessionState, token, call>>
        /\ tokenState[t] = "unused" /\ tokenState' = [tokenState EXCEPT ![t] = "expired"]
    BY DEF TokenExpires, sessions, users
  <1>2. AccountsKept /\ TokensKept /\ SessionsOnlyEnd
    BY <1>1 DEF AccountsKept, TokensKept, SessionsOnlyEnd, Registered, IInv, WellTyped
  <1>3. RowsTyped'
    BY <1>1 DEF RowsTyped, IInv, WellTyped
  <1>4. TokensOfAccounts'
    BY <1>1, <1>2, TokensOfAccountsKept DEF IInv, WellTyped
  <1>5. (interrupted \/ LimitLocks)'
    BY <1>1, LockKept DEF At
  <1> QED BY <1>1, <1>2, <1>3, <1>4, <1>5, OutsideStepKeeps

LEMMA SeedKeepsIInv ==
  ASSUME IInv, interrupted => interrupted', NEW u \in Users, SeedPlatformAdmin(u)
  PROVE  IInv'
  <1>1. PICK p \in Passwords : password' = [password EXCEPT ![u] = p]
    BY DEF SeedPlatformAdmin
  <1>2. /\ UNCHANGED <<status, lockedUntil, failed, session, sessionState, token, tokenState, call>>
        /\ verified' = [verified EXCEPT ![u] = TRUE]
        /\ u \in SeedAdmins /\ ~Registered(u)
    BY DEF SeedPlatformAdmin, EmailIsFree, sessions, tokens
  <1>3. AccountsKept
    BY <1>1, <1>2, NullAssumption DEF AccountsKept, Registered, IInv, WellTyped
  <1>4. TokensKept /\ SessionsOnlyEnd
    BY <1>2 DEF TokensKept, SessionsOnlyEnd
  <1>5. RowsTyped'
    BY <1>1, <1>2 DEF RowsTyped, IInv, WellTyped
  <1>6. TokensOfAccounts'
    <2>1. \A t \in Tokens : tokenState'[t] # "none" =>
            token'[t].user # None /\ password'[token'[t].user] # None
      BY <1>2, <1>3 DEF IInv, TokensOfAccounts, AccountsKept, WellTyped, Token, Registered
    <2>2. \A v \in Users : verified'[v] => password'[v] # None
      <3> SUFFICES ASSUME NEW v \in Users, verified'[v]
                   PROVE  password'[v] # None
        OBVIOUS
      <3>1. CASE v = u
        BY <3>1, <1>1, NullAssumption DEF IInv, WellTyped
      <3>2. CASE v # u
        BY <3>2, <1>1, <1>2 DEF IInv, WellTyped, TokensOfAccounts, Registered
      <3> QED BY <3>1, <3>2
    <2>3. \A v \in Users : verified'[v] => v \in SeedAdmins \/ UsedVerification(v)'
      <3> SUFFICES ASSUME NEW v \in Users, verified'[v], v \notin SeedAdmins
                   PROVE  UsedVerification(v)'
        OBVIOUS
      <3>1. verified[v]
        BY <1>2 DEF IInv, WellTyped
      <3> QED BY <3>1, <1>4, UsedVerificationStays DEF IInv, TokensOfAccounts
    <2> QED BY <2>1, <2>2, <2>3 DEF TokensOfAccounts, Registered
  <1>7. (interrupted \/ LimitLocks)'
    BY <1>2, LockKept DEF At
  <1> QED BY <1>2, <1>3, <1>4, <1>5, <1>6, <1>7, OutsideStepKeeps

-----------------------------------------------------------------------------
(* Tokens *)

(* A token row is written for a registered account. *)
LEMMA NewTokenKeeps ==
  ASSUME IInv, AccountsKept, UNCHANGED verified, NEW t \in Tokens, NEW u \in Users,
         NEW kind \in {"emailVerification", "passwordReset"},
         NewToken(t, kind, u), Registered(u)
  PROVE  TokensKept /\ TokensOfAccounts' /\ token' \in [Tokens -> Token]
         /\ tokenState' \in [Tokens -> {"none", "unused", "expired", "used"}]
  <1>1. /\ tokenState[t] = "none"
        /\ token' = [token EXCEPT ![t] = [kind |-> kind, user |-> u]]
        /\ tokenState' = [tokenState EXCEPT ![t] = "unused"]
    BY DEF NewToken
  <1>2. TokensKept
    BY <1>1 DEF TokensKept, IInv, WellTyped
  <1>3. [kind |-> kind, user |-> u] \in Token
    BY DEF Token
  <1>4. token' \in [Tokens -> Token]
        /\ tokenState' \in [Tokens -> {"none", "unused", "expired", "used"}]
    BY <1>1, <1>3 DEF IInv, WellTyped
  <1>5. \A r \in Tokens : tokenState'[r] # "none" =>
          token'[r].user # None /\ password'[token'[r].user] # None
    <2> SUFFICES ASSUME NEW r \in Tokens, tokenState'[r] # "none"
                 PROVE  token'[r].user # None /\ password'[token'[r].user] # None
      OBVIOUS
    <2>1. CASE r = t
      BY <2>1, <1>1, NullAssumption DEF IInv, WellTyped, AccountsKept, Registered
    <2>2. CASE r # t
      <3>1. token'[r] = token[r] /\ tokenState[r] # "none"
        BY <2>2, <1>1 DEF IInv, WellTyped
      <3>2. token[r].user \in Users /\ Registered(token[r].user)
        BY <3>1 DEF IInv, WellTyped, TokensOfAccounts, Token
      <3> QED BY <3>1, <3>2, NullAssumption DEF AccountsKept, Registered
    <2> QED BY <2>1, <2>2
  <1>6. \A v \in Users : verified'[v] => password'[v] # None
    BY DEF IInv, TokensOfAccounts, AccountsKept, Registered
  <1>7. \A v \in Users : verified'[v] => v \in SeedAdmins \/ UsedVerification(v)'
    BY <1>2, UsedVerificationStays DEF IInv, TokensOfAccounts
  <1> QED BY <1>2, <1>4, <1>5, <1>6, <1>7 DEF TokensOfAccounts, Registered

LEMMA ForgotPasswordKeepsIInv ==
  ASSUME IInv, interrupted => interrupted', NEW u \in Users, ForgotPassword(u)
  PROVE  IInv'
  <1>1. UNCHANGED <<password, verified, status, lockedUntil, failed, session, sessionState, call>>
    BY DEF ForgotPassword, users, sessions
  <1>2. AccountsKept /\ SessionsOnlyEnd
    BY <1>1 DEF AccountsKept, SessionsOnlyEnd, Registered
  <1>3. PICK t \in Tokens : NewToken(t, "passwordReset", u)
    BY DEF ForgotPassword
  <1>4. TokensKept /\ TokensOfAccounts' /\ token' \in [Tokens -> Token]
        /\ tokenState' \in [Tokens -> {"none", "unused", "expired", "used"}]
    BY <1>1, <1>2, <1>3, NewTokenKeeps DEF ForgotPassword
  <1>5. RowsTyped'
    BY <1>1, <1>4 DEF RowsTyped, IInv, WellTyped
  <1>6. (interrupted \/ LimitLocks)'
    BY <1>1, LockKept DEF At
  <1> QED BY <1>1, <1>2, <1>4, <1>5, <1>6, OutsideStepKeeps

LEMMA IssueEmailVerificationKeepsIInv ==
  ASSUME IInv, interrupted => interrupted', NEW s \in Slots, IssueEmailVerification(s)
  PROVE  IInv'
  <1>1. /\ UNCHANGED <<password, verified, status, lockedUntil, failed, session, sessionState>>
        /\ call' = [call EXCEPT ![s] = NoCall] /\ call'[s] = NoCall
    BY DEF IssueEmailVerification, users, sessions, Ends, Goes, IInv, WellTyped
  <1>2. AccountsKept /\ SessionsOnlyEnd
    BY <1>1 DEF AccountsKept, SessionsOnlyEnd, Registered
  <1>3. call[s].user \in Users /\ Registered(call[s].user) /\ ~At(s, "locking")
    BY DEF IssueEmailVerification, IInv, WellTyped, RequestHolds, CallShape, Call, At
  <1>4. PICK u \in Users : u = call[s].user
    BY <1>3
  <1>5. PICK t \in Tokens : NewToken(t, "emailVerification", u)
    BY <1>4 DEF IssueEmailVerification
  <1>6. TokensKept /\ TokensOfAccounts' /\ token' \in [Tokens -> Token]
        /\ tokenState' \in [Tokens -> {"none", "unused", "expired", "used"}]
    BY <1>1, <1>2, <1>3, <1>4, <1>5, NewTokenKeeps
  <1>7. RowsTyped'
    BY <1>1, <1>6 DEF RowsTyped, IInv, WellTyped
  <1>8. (interrupted \/ LimitLocks)'
    BY <1>1, <1>3, LockKept DEF At, IInv, WellTyped
  <1> QED BY <1>1, <1>2, <1>6, <1>7, <1>8, NoCallTyped, EndedHolds, StepKeeps

-----------------------------------------------------------------------------
(* Requests that write *)

(* A request at a stage is a request of an account. *)
LEMMA RequestOfAccount ==
  ASSUME IInv, NEW s \in Slots, ~At(s, "idle")
  PROVE  call[s] \in Call /\ call[s].user \in Users /\ CallShape(s) /\ RequestHolds(s)
  BY DEF IInv, WellTyped, CallShape, Call, At

(* Moving on keeps what the request carries. *)
LEMMA MovedOn ==
  ASSUME IInv, NEW s \in Slots, NEW stage \in Stages \ {"idle"}, MovesTo(s, stage)
  PROVE  \E k \in Call :
           /\ call' = [call EXCEPT ![s] = k] /\ call'[s] = k
           /\ k.at = stage /\ k.user = call[s].user /\ k.password = call[s].password
           /\ k.from = call[s].from /\ k.token = call[s].token /\ k.raced = call[s].raced
  <1> DEFINE k == Step(stage, call[s].user, call[s].password, call[s].seen, call[s].from,
                       call[s].token, call[s].raced)
  <1>1. call[s] \in Call
    BY DEF IInv, WellTyped
  <1>2. k \in Call
    BY <1>1 DEF Call, Step
  <1>3. call' = [call EXCEPT ![s] = k] /\ call'[s] = k
    BY DEF MovesTo, Goes, IInv, WellTyped
  <1>4. /\ k.at = stage /\ k.user = call[s].user /\ k.password = call[s].password
        /\ k.from = call[s].from /\ k.token = call[s].token /\ k.raced = call[s].raced
    BY DEF Step
  <1> HIDE DEF k
  <1> QED BY <1>2, <1>3, <1>4

LEMMA CreateUserKeepsIInv ==
  ASSUME IInv, interrupted => interrupted', NEW s \in Slots, CreateUser(s)
  PROVE  IInv'
  <1>1. /\ UNCHANGED <<verified, status, lockedUntil, failed, session, sessionState, token, tokenState>>
        /\ At(s, "registering") /\ ~At(s, "idle") /\ ~At(s, "locking")
    BY DEF CreateUser, sessions, tokens, At
  <1>2. TokensKept /\ SessionsOnlyEnd
    BY <1>1 DEF TokensKept, SessionsOnlyEnd
  <1>3. call[s] \in Call /\ call[s].user \in Users /\ CallShape(s)
    BY <1>1, RequestOfAccount
  <1>4. call[s].password \in Passwords
    BY <1>1, <1>3 DEF CallShape, Call, At
  <1>5. CASE ~EmailIsFree(call[s].user)
    <2>1. call' = [call EXCEPT ![s] = NoCall] /\ call'[s] = NoCall /\ password' = password
      BY <1>5 DEF CreateUser, Ends, Goes, IInv, WellTyped
    <2>2. UNCHANGED <<users, sessions, tokens>>
      BY <1>1, <2>1 DEF users, sessions, tokens
    <2> QED BY <1>1, <2>1, <2>2, NoCallTyped, EndedHolds, MoveKeeps
  <1>6. CASE EmailIsFree(call[s].user)
    <2>1. password' = [password EXCEPT ![call[s].user] = call[s].password] /\ MovesTo(s, "mailing")
      BY <1>6 DEF CreateUser
    <2>2. PICK k \in Call :
            /\ call' = [call EXCEPT ![s] = k] /\ call'[s] = k
            /\ k.at = "mailing" /\ k.user = call[s].user
      BY <2>1, MovedOn DEF Stages
    <2>3. AccountsKept
      BY <1>1, <1>3, <1>6, <2>1 DEF AccountsKept, Registered, EmailIsFree, IInv, WellTyped
    <2>4. password'[call[s].user] # None
      BY <1>3, <1>4, <2>1, NullAssumption DEF IInv, WellTyped
    <2>5. CallShape(s)' /\ RequestHolds(s)'
      BY <1>3, <2>2, <2>4, NullAssumption
      DEF CallShape, RequestHolds, At, ToSession, Registered
    <2>6. RowsTyped'
      BY <1>1, <1>3, <1>4, <2>1 DEF RowsTyped, IInv, WellTyped
    <2>7. TokensOfAccounts'
      BY <1>1, <1>2, <2>3, TokensOfAccountsKept
    <2>8. (interrupted \/ LimitLocks)'
      BY <1>1, <2>2, LockKept DEF At, IInv, WellTyped
    <2> QED BY <1>2, <2>2, <2>3, <2>5, <2>6, <2>7, <2>8, StepKeeps
  <1> QED BY <1>5, <1>6

LEMMA VerifyEmailKeepsIInv ==
  ASSUME IInv, interrupted => interrupted', NEW s \in Slots, VerifyEmail(s)
  PROVE  IInv'
  <1>1. /\ UNCHANGED <<password, status, lockedUntil, failed, session, sessionState, token>>
        /\ tokenState' = [tokenState EXCEPT ![call[s].token] = "used"]
        /\ verified' = [verified EXCEPT ![call[s].user] = TRUE]
        /\ call' = [call EXCEPT ![s] = NoCall] /\ call'[s] = NoCall
        /\ At(s, "verifying") /\ ~At(s, "idle") /\ ~At(s, "locking")
    BY DEF VerifyEmail, sessions, Ends, Goes, At, IInv, WellTyped
  <1>2. PICK u \in Users, t \in Tokens :
          /\ u = call[s].user /\ t = call[s].token
          /\ tokenState[t] # "none" /\ token[t] = [kind |-> "emailVerification", user |-> u]
    BY <1>1, RequestOfAccount DEF RequestHolds, CallShape, Call, At
  <1>3. AccountsKept /\ TokensKept /\ SessionsOnlyEnd
    BY <1>1, <1>2 DEF AccountsKept, TokensKept, SessionsOnlyEnd, Registered, IInv, WellTyped
  <1>4. RowsTyped'
    BY <1>1, <1>2 DEF RowsTyped, IInv, WellTyped
  <1>5. Registered(u)
    BY <1>2 DEF IInv, TokensOfAccounts
  <1>6. UsedVerification(u)'
    BY <1>1, <1>2 DEF UsedVerification, IInv, WellTyped
  <1>7. TokensOfAccounts'
    <2>1. \A r \in Tokens : tokenState'[r] # "none" =>
            token'[r].user # None /\ password'[token'[r].user] # None
      BY <1>1, <1>2 DEF IInv, WellTyped, TokensOfAccounts, Registered
    <2>2. \A v \in Users : verified'[v] => v = u \/ verified[v]
      BY <1>1, <1>2 DEF IInv, WellTyped
    <2>3. \A v \in Users : verified'[v] => password'[v] # None
      BY <1>1, <1>5, <2>2 DEF IInv, TokensOfAccounts, Registered
    <2>4. \A v \in Users : verified'[v] => v \in SeedAdmins \/ UsedVerification(v)'
      BY <1>3, <1>6, <2>2, UsedVerificationStays DEF IInv, TokensOfAccounts
    <2> QED BY <2>1, <2>3, <2>4 DEF TokensOfAccounts, Registered
  <1>8. (interrupted \/ LimitLocks)'
    BY <1>1, LockKept DEF At, IInv, WellTyped
  <1> QED BY <1>1, <1>3, <1>4, <1>7, <1>8, NoCallTyped, EndedHolds, StepKeeps

LEMMA RotateKeepsIInv ==
  ASSUME IInv, interrupted => interrupted', NEW s \in Slots, Rotate(s)
  PROVE  IInv'
  <1>1. /\ UNCHANGED <<password, verified, status, lockedUntil, failed, session, token, tokenState>>
        /\ sessionState' = [sessionState EXCEPT ![call[s].from] = "revoked"]
        /\ MovesTo(s, "signing")
        /\ At(s, "rotating") /\ ~At(s, "idle") /\ ~At(s, "locking")
    BY DEF Rotate, users, tokens, At
  <1>2. PICK x \in SessionIds : x = call[s].from /\ sessionState[x] # "none"
    BY <1>1, RequestOfAccount DEF RequestHolds, CallShape, Call, At
  <1>3. AccountsKept /\ TokensKept /\ SessionsOnlyEnd
    BY <1>1, <1>2 DEF AccountsKept, TokensKept, SessionsOnlyEnd, Registered, IInv, WellTyped
  <1>4. PICK k \in Call :
          /\ call' = [call EXCEPT ![s] = k] /\ call'[s] = k
          /\ k.at = "signing" /\ k.user = call[s].user /\ k.password = call[s].password
          /\ k.from = call[s].from /\ k.raced = call[s].raced
    BY <1>1, MovedOn DEF Stages
  <1>5. CallShape(s)' /\ RequestHolds(s)'
    BY <1>1, <1>2, <1>4, RequestOfAccount
    DEF CallShape, RequestHolds, At, ToSession, IInv, WellTyped
  <1>6. RowsTyped'
    BY <1>1, <1>2 DEF RowsTyped, IInv, WellTyped
  <1>7. TokensOfAccounts'
    BY <1>1, <1>3, TokensOfAccountsKept
  <1>8. (interrupted \/ LimitLocks)'
    BY <1>1, <1>4, LockKept DEF At, IInv, WellTyped
  <1> QED BY <1>3, <1>4, <1>5, <1>6, <1>7, <1>8, StepKeeps

LEMMA LoginSucceedsKeepsIInv ==
  ASSUME IInv, interrupted => interrupted', NEW s \in Slots, LoginSucceeds(s)
  PROVE  IInv'
  <1>1. /\ UNCHANGED <<password, verified, session, sessionState, token, tokenState>>
        /\ failed' = [failed EXCEPT ![call[s].user] = 0]
        /\ lockedUntil' = [lockedUntil EXCEPT ![call[s].user] = "null"]
        /\ status' = [status EXCEPT ![call[s].user] = "active"]
        /\ MovesTo(s, "signing") /\ PasswordValid(s)
        /\ At(s, "checking") /\ ~At(s, "idle") /\ ~At(s, "locking")
    BY DEF LoginSucceeds, sessions, tokens, At
  <1>2. PICK k \in Call :
          /\ call' = [call EXCEPT ![s] = k] /\ call'[s] = k
          /\ k.at = "signing" /\ k.user = call[s].user /\ k.password = call[s].password
          /\ k.from = call[s].from /\ k.raced = call[s].raced
    BY <1>1, MovedOn DEF Stages
  <1>3. AccountsKept /\ TokensKept /\ SessionsOnlyEnd
    BY <1>1 DEF AccountsKept, TokensKept, SessionsOnlyEnd, Registered
  <1>4. PICK u \in Users : u = call[s].user
    BY <1>1, RequestOfAccount
  <1>5. CallShape(s)' /\ RequestHolds(s)'
    BY <1>1, <1>2, <1>4, RequestOfAccount, NullAssumption
    DEF CallShape, RequestHolds, At, ToSession, PasswordValid
  <1>6. RowsTyped'
    BY <1>1, <1>4 DEF RowsTyped, IInv, WellTyped
  <1>7. TokensOfAccounts'
    BY <1>1, <1>3, TokensOfAccountsKept
  <1>8. (interrupted \/ LimitLocks)'
    <2> SUFFICES ASSUME LimitLocks, NEW v \in Users, failed'[v] >= MaxAttempts
                 PROVE  \/ status'[v] = "locked"
                        \/ \E r \in Slots : call'[r].at = "locking" /\ call'[r].user = v
      BY DEF LimitLocks, At, IInv
    <2>1. v # u
      BY <1>1, <1>4, AttemptsAssumption DEF IInv, WellTyped
    <2>2. failed'[v] = failed[v] /\ status'[v] = status[v]
      BY <1>1, <1>4, <2>1 DEF IInv, WellTyped
    <2>3. \A r \in Slots : call[r].at = "locking" => call'[r] = call[r]
      BY <1>1, <1>2 DEF At, IInv, WellTyped
    <2> QED BY <2>2, <2>3 DEF LimitLocks, At
  <1> QED BY <1>2, <1>3, <1>5, <1>6, <1>7, <1>8, StepKeeps

LEMMA FailedLoginKeepsIInv ==
  ASSUME IInv, interrupted => interrupted', NEW s \in Slots, FailedLogin(s)
  PROVE  IInv'
  <1>1. /\ UNCHANGED <<password, verified, status, lockedUntil, session, sessionState, token, tokenState>>
        /\ failed' = [failed EXCEPT ![call[s].user] = failed[call[s].user] + 1]
        /\ At(s, "checking") /\ ~At(s, "idle") /\ ~At(s, "locking")
    BY DEF FailedLogin, sessions, tokens, At
  <1>2. PICK u \in Users : u = call[s].user
    BY <1>1, RequestOfAccount
  <1>3. AccountsKept /\ TokensKept /\ SessionsOnlyEnd
    BY <1>1 DEF AccountsKept, TokensKept, SessionsOnlyEnd, Registered
  <1>4. PICK k \in Call :
          /\ call' = [call EXCEPT ![s] = k] /\ call'[s] = k
          /\ k = NoCall \/ (k.at = "locking" /\ k.user = u)
          /\ failed[u] + 1 >= MaxAttempts => k.at = "locking" /\ k.user = u
    <2>1. CASE ReachesLimit(failed[call[s].user] + 1)
      <3>1. MovesTo(s, "locking")
        BY <2>1 DEF FailedLogin
      <3> QED BY <1>2, <3>1, MovedOn DEF Stages
    <2>2. CASE ~ReachesLimit(failed[call[s].user] + 1)
      <3>1. call' = [call EXCEPT ![s] = NoCall] /\ call'[s] = NoCall
        BY <2>2 DEF FailedLogin, Ends, Goes, IInv, WellTyped
      <3> QED BY <1>2, <2>2, <3>1, NoCallTyped DEF ReachesLimit
    <2> QED BY <2>1, <2>2
  <1>5. CallShape(s)' /\ RequestHolds(s)'
    <2>1. CASE k = NoCall
      BY <1>4, <2>1, EndedHolds
    <2>2. CASE k.at = "locking" /\ k.user = u
      BY <1>4, <2>2, NullAssumption DEF CallShape, RequestHolds, At, ToSession
    <2> QED BY <1>4, <2>1, <2>2
  <1>6. RowsTyped'
    BY <1>1, <1>2 DEF RowsTyped, IInv, WellTyped
  <1>7. TokensOfAccounts'
    BY <1>1, <1>3, TokensOfAccountsKept
  <1>8. (interrupted \/ LimitLocks)'
    <2> SUFFICES ASSUME LimitLocks, NEW v \in Users, failed'[v] >= MaxAttempts
                 PROVE  \/ status'[v] = "locked"
                        \/ \E r \in Slots : call'[r].at = "locking" /\ call'[r].user = v
      BY DEF LimitLocks, At, IInv
    <2>1. CASE v = u
      BY <1>1, <1>2, <1>4, <2>1 DEF IInv, WellTyped
    <2>2. CASE v # u
      <3>1. failed'[v] = failed[v] /\ status'[v] = status[v]
        BY <1>1, <1>2, <2>2 DEF IInv, WellTyped
      <3>2. \A r \in Slots : call[r].at = "locking" => call'[r] = call[r]
        BY <1>1, <1>4 DEF At, IInv, WellTyped
      <3> QED BY <3>1, <3>2 DEF LimitLocks, At
    <2> QED BY <2>1, <2>2
  <1> QED BY <1>3, <1>4, <1>5, <1>6, <1>7, <1>8, StepKeeps

LEMMA LockAccountKeepsIInv ==
  ASSUME IInv, interrupted => interrupted', NEW s \in Slots, LockAccount(s)
  PROVE  IInv'
  <1>1. /\ UNCHANGED <<password, verified, failed, session, sessionState, token, tokenState>>
        /\ status' = [status EXCEPT ![call[s].user] = "locked"]
        /\ lockedUntil' = [lockedUntil EXCEPT ![call[s].user] = "future"]
        /\ call' = [call EXCEPT ![s] = NoCall] /\ call'[s] = NoCall
        /\ At(s, "locking") /\ ~At(s, "idle")
    BY DEF LockAccount, sessions, tokens, Ends, Goes, At, IInv, WellTyped
  <1>2. PICK u \in Users : u = call[s].user
    BY <1>1, RequestOfAccount
  <1>3. AccountsKept /\ TokensKept /\ SessionsOnlyEnd
    BY <1>1 DEF AccountsKept, TokensKept, SessionsOnlyEnd, Registered
  <1>4. RowsTyped'
    BY <1>1, <1>2 DEF RowsTyped, IInv, WellTyped
  <1>5. TokensOfAccounts'
    BY <1>1, <1>3, TokensOfAccountsKept
  <1>6. (interrupted \/ LimitLocks)'
    <2> SUFFICES ASSUME LimitLocks, NEW v \in Users, failed'[v] >= MaxAttempts
                 PROVE  \/ status'[v] = "locked"
                        \/ \E r \in Slots : call'[r].at = "locking" /\ call'[r].user = v
      BY DEF LimitLocks, At, IInv
    <2>1. CASE v = u
      BY <1>1, <1>2, <2>1 DEF IInv, WellTyped
    <2>2. CASE v # u
      <3>1. failed'[v] = failed[v] /\ status'[v] = status[v]
        BY <1>1, <1>2, <2>2 DEF IInv, WellTyped
      <3>2. \A r \in Slots : call[r].user = v => call'[r] = call[r]
        BY <1>1, <1>2, <2>2 DEF IInv, WellTyped
      <3> QED BY <3>1, <3>2 DEF LimitLocks, At
    <2> QED BY <2>1, <2>2
  <1> QED BY <1>1, <1>3, <1>4, <1>5, <1>6, NoCallTyped, EndedHolds, StepKeeps

LEMMA IssueTokenPairKeepsIInv ==
  ASSUME IInv, interrupted => interrupted', NEW s \in Slots, IssueTokenPair(s)
  PROVE  IInv'
  <1>1. PICK x \in SessionIds :
          /\ sessionState[x] = "none"
          /\ session' = [session EXCEPT ![x] =
               [user |-> call[s].user, from |-> call[s].from,
                line |-> IF call[s].from = None THEN x ELSE session[call[s].from].line,
                password |-> call[s].password, raced |-> call[s].raced]]
          /\ sessionState' = [sessionState EXCEPT ![x] = "live"]
    BY DEF IssueTokenPair
  <1>2. /\ UNCHANGED <<password, verified, status, lockedUntil, failed, token, tokenState>>
        /\ call' = [call EXCEPT ![s] = NoCall] /\ call'[s] = NoCall
        /\ At(s, "signing") /\ ~At(s, "idle") /\ ~At(s, "locking")
    BY DEF IssueTokenPair, users, tokens, Ends, Goes, At, IInv, WellTyped
  <1>3. PICK u \in Users : u = call[s].user
    BY <1>2, RequestOfAccount
  <1>4. /\ verified[u]
        /\ call[s].password = password[u] \/ call[s].raced
        /\ call[s].from # None => sessionState[call[s].from] = "revoked"
    BY <1>2, <1>3, RequestOfAccount DEF RequestHolds, At, ToSession
  <1> DEFINE row == [user |-> call[s].user, from |-> call[s].from,
                     line |-> IF call[s].from = None THEN x ELSE session[call[s].from].line,
                     password |-> call[s].password, raced |-> call[s].raced]
  <1>5. row \in Session
    <2>1. call[s] \in Call
      BY <1>2, RequestOfAccount
    <2>2. call[s].from # None => session[call[s].from].line \in SessionIds \cup {None}
      BY <2>1 DEF Call, IInv, WellTyped, Session
    <2> QED BY <1>3, <2>1, <2>2 DEF Call, Session
  <1>6. /\ row.user = u /\ row.from = call[s].from
        /\ row.password = call[s].password /\ row.raced = call[s].raced
    BY <1>3
  <1>7. session' = [session EXCEPT ![x] = row]
    BY <1>1
  <1> HIDE DEF row
  <1>8. AccountsKept /\ TokensKept /\ RevokedStays
    BY <1>1, <1>2 DEF AccountsKept, TokensKept, RevokedStays, Registered, IInv, WellTyped
  <1>9. \A r \in Slots : CallShape(r)' /\ RequestHolds(r)'
    BY <1>2, <1>8, NoCallTyped, EndedHolds, RequestsKept
  <1>10. /\ session'[x] = row /\ sessionState'[x] = "live"
         /\ \A y \in SessionIds \ {x} :
               session'[y] = session[y] /\ sessionState'[y] = sessionState[y]
    BY <1>1, <1>7 DEF IInv, WellTyped
  <1>11. WellTyped'
    <2>1. RowsTyped'
      <3>1. /\ session' \in [SessionIds -> Session]
            /\ sessionState' \in [SessionIds -> {"none", "live", "expired", "revoked"}]
        BY <1>1, <1>5, <1>7 DEF IInv, WellTyped
      <3>2. \A y \in SessionIds : sessionState'[y] # "none" => session'[y].user # None
        BY <1>3, <1>6, <1>10, NullAssumption DEF IInv, WellTyped
      <3> QED BY <1>2, <3>1, <3>2 DEF RowsTyped, IInv, WellTyped
    <2> QED BY <1>2, <1>9, <2>1, NoCallTyped DEF RowsTyped, IInv, WellTyped
  <1>12. TokensOfAccounts'
    BY <1>2, <1>8, TokensOfAccountsKept
  <1>13. SessionsOfVerified'
    <2> SUFFICES ASSUME NEW y \in SessionIds, sessionState'[y] # "none"
                 PROVE  /\ verified'[session'[y].user]
                        /\ session'[y].user \in SeedAdmins \/ UsedVerification(session[y].user)'
      BY DEF SessionsOfVerified
    <2>1. PICK v \in Users : v = session'[y].user /\ verified[v]
      BY <1>3, <1>4, <1>6, <1>10 DEF IInv, WellTyped, Session, SessionsOfVerified
    <2>2. v \in SeedAdmins \/ UsedVerification(v)
      BY <2>1 DEF IInv, TokensOfAccounts
    <2>3. UsedVerification(v) => UsedVerification(session[y].user)'
      BY <1>2, <2>1 DEF UsedVerification
    <2> QED BY <1>2, <2>1, <2>2, <2>3
  <1>14. ExchangedIsRevoked'
    <2> SUFFICES ASSUME NEW y \in SessionIds, session'[y].from # None
                 PROVE  sessionState'[session'[y].from] = "revoked"
      BY DEF ExchangedIsRevoked
    <2>1. /\ session'[y].from \in SessionIds
          /\ sessionState[session'[y].from] = "revoked"
      BY <1>4, <1>5, <1>6, <1>10 DEF IInv, WellTyped, Session, ExchangedIsRevoked
    <2> QED BY <2>1, <1>8 DEF RevokedStays
  <1>15. ResetEndsSessions'
    BY <1>2, <1>3, <1>4, <1>6, <1>10 DEF ResetEndsSessions, Unrevoked, IInv
  <1>16. (interrupted \/ LimitLocks)'
    BY <1>2, LockKept DEF At, IInv, WellTyped
  <1> QED BY <1>9, <1>11, <1>12, <1>13, <1>14, <1>15, <1>16 DEF IInv

LEMMA ResetPasswordKeepsIInv ==
  ASSUME IInv, interrupted => interrupted', NEW s \in Slots, ResetPassword(s)
  PROVE  IInv'
  <1>1. PICK u \in Users, p \in Passwords, t \in Tokens :
          /\ u = call[s].user /\ p = call[s].password /\ t = call[s].token
          /\ tokenState[t] # "none"
    BY RequestOfAccount DEF ResetPassword, RequestHolds, CallShape, Call, At
  <1>2. /\ UNCHANGED <<verified, session, token>>
        /\ At(s, "resetting") /\ ~At(s, "locking")
        /\ tokenState' = [tokenState EXCEPT ![t] = "used"]
        /\ password' = [password EXCEPT ![u] = p]
        /\ failed' = [failed EXCEPT ![u] = 0]
        /\ lockedUntil' = [lockedUntil EXCEPT ![u] = "null"]
        /\ status' = [status EXCEPT ![u] = "active"]
        /\ sessionState' = SessionsAfterReset(u)
    BY <1>1 DEF ResetPassword, At
  <1>3. /\ call' \in [Slots -> Call] /\ call'[s] = NoCall
        /\ \A r \in Slots \ {s} :
             /\ call'[r].at = call[r].at /\ call'[r].user = call[r].user
             /\ call'[r].password = call[r].password /\ call'[r].seen = call[r].seen
             /\ call'[r].from = call[r].from /\ call'[r].token = call[r].token
             /\ call[r].raced => call'[r].raced
             /\ ToSession(r) /\ call[r].user = u => call'[r].raced
    <2> DEFINE raced(r) == call[r].raced \/ (ToSession(r) /\ call[r].user = call[s].user)
               next(r) == Step(call[r].at, call[r].user, call[r].password, call[r].seen,
                               call[r].from, call[r].token, raced(r))
    <2>1. call' = [r \in Slots |-> IF r = s THEN NoCall ELSE next(r)]
      BY DEF ResetPassword
    <2>2. \A r \in Slots : raced(r) \in BOOLEAN
      BY DEF IInv, WellTyped, Call, ToSession
    <2>3. \A r \in Slots : next(r) \in Call
      BY <2>2 DEF Step, Call, IInv, WellTyped
    <2>4. \A r \in Slots \ {s} : call'[r] = next(r)
      BY <2>1
    <2> QED BY <1>1, <2>1, <2>3, <2>4, NoCallTyped DEF Step
  <1>4. TokensKept
    BY <1>1, <1>2 DEF TokensKept, IInv, WellTyped
  <1>5. /\ \A x \in SessionIds :
             /\ sessionState'[x] = "none" <=> sessionState[x] = "none"
             /\ sessionState[x] = "revoked" => sessionState'[x] = "revoked"
             /\ Unrevoked(x)' => Unrevoked(x) /\ session[x].user # u
        /\ sessionState' \in [SessionIds -> {"none", "live", "expired", "revoked"}]
    BY <1>2 DEF SessionsAfterReset, Unrevoked, IInv, WellTyped
  <1>6. /\ password'[u] = p /\ password'[u] # None
        /\ \A v \in Users : v # u => password'[v] = password[v]
        /\ \A v \in Users : password[v] # None => password'[v] # None
    BY <1>1, <1>2, NullAssumption DEF IInv, WellTyped
  <1>7. \A r \in Slots : CallShape(r)' /\ RequestHolds(r)'
    <2> SUFFICES ASSUME NEW r \in Slots
                 PROVE  CallShape(r)' /\ RequestHolds(r)'
      OBVIOUS
    <2>1. CASE r = s
      BY <1>3, <2>1, EndedHolds
    <2>2. CASE r # s
      <3>1. CallShape(r) /\ RequestHolds(r) /\ call[r] \in Call
        BY DEF IInv, WellTyped
      <3>2. CallShape(r)'
        BY <1>3, <2>2, <3>1 DEF CallShape, At
      <3>3. /\ At(r, "mailing") => password'[call[r].user] # None
            /\ At(r, "verifying") =>
                 token'[call[r].token] = [kind |-> "emailVerification", user |-> call[r].user]
            /\ ToSession(r) => verified'[call[r].user]
        BY <1>2, <1>6, <3>1 DEF RequestHolds, CallShape, Call, At, Registered
      <3>4. call[r].at \in {"verifying", "resetting"} => tokenState'[call[r].token] # "none"
        BY <1>4, <3>1 DEF RequestHolds, CallShape, Call, TokensKept
      <3>5. /\ At(r, "rotating") => sessionState'[call[r].from] # "none"
            /\ At(r, "signing") /\ call[r].from # None => sessionState'[call[r].from] = "revoked"
        BY <1>5, <3>1 DEF RequestHolds, CallShape, Call, At
      <3>6. ToSession(r) =>
              call'[r].raced \/ password'[call[r].user] = password[call[r].user]
        BY <1>3, <1>6, <2>2, <3>1 DEF ToSession, CallShape, Call, At
      <3> QED
        BY <1>3, <2>2, <3>1, <3>2, <3>3, <3>4, <3>5, <3>6
        DEF RequestHolds, At, ToSession, Registered
    <2> QED BY <2>1, <2>2
  <1>8. WellTyped'
    <2>1. RowsTyped'
      BY <1>1, <1>2, <1>5 DEF RowsTyped, IInv, WellTyped
    <2> QED BY <1>3, <1>7, <2>1 DEF RowsTyped, WellTyped
  <1>9. TokensOfAccounts'
    <2>1. \A r \in Tokens : tokenState'[r] # "none" =>
            token'[r].user # None /\ password'[token'[r].user] # None
      BY <1>1, <1>2, <1>6 DEF IInv, WellTyped, Token, TokensOfAccounts, Registered
    <2>2. \A v \in Users : verified'[v] => password'[v] # None
      BY <1>2, <1>6 DEF IInv, TokensOfAccounts, Registered
    <2>3. \A v \in Users : verified'[v] => v \in SeedAdmins \/ UsedVerification(v)'
      BY <1>2, <1>4, UsedVerificationStays DEF IInv, TokensOfAccounts
    <2> QED BY <2>1, <2>2, <2>3 DEF TokensOfAccounts, Registered
  <1>10. SessionsOfVerified'
    <2> SUFFICES ASSUME NEW y \in SessionIds, sessionState'[y] # "none"
                 PROVE  /\ verified'[session'[y].user]
                        /\ session'[y].user \in SeedAdmins \/ UsedVerification(session[y].user)'
      BY DEF SessionsOfVerified
    <2>1. PICK v \in Users : v = session'[y].user /\ verified[v]
      BY <1>2, <1>5 DEF IInv, WellTyped, Session, SessionsOfVerified
    <2>2. v \in SeedAdmins \/ UsedVerification(v)'
      BY <2>1, <1>4, UsedVerificationStays DEF IInv, TokensOfAccounts
    <2>3. UsedVerification(v)' => UsedVerification(session[y].user)'
      BY <2>1 DEF UsedVerification
    <2> QED BY <1>2, <2>1, <2>2, <2>3
  <1>11. ExchangedIsRevoked'
    BY <1>2, <1>5, NullAssumption DEF ExchangedIsRevoked, IInv, WellTyped, Session
  <1>12. ResetEndsSessions'
    BY <1>2, <1>5, <1>6 DEF ResetEndsSessions, Unrevoked, IInv, WellTyped, Session
  <1>13. (interrupted \/ LimitLocks)'
    <2> SUFFICES ASSUME LimitLocks, NEW v \in Users, failed'[v] >= MaxAttempts
                 PROVE  \/ status'[v] = "locked"
                        \/ \E r \in Slots : call'[r].at = "locking" /\ call'[r].user = v
      BY DEF LimitLocks, At, IInv
    <2>1. v # u
      BY <1>2, AttemptsAssumption DEF IInv, WellTyped
    <2>2. failed'[v] = failed[v] /\ status'[v] = status[v]
      BY <1>2, <2>1 DEF IInv, WellTyped
    <2>3. \A r \in Slots : call[r].at = "locking" =>
            call'[r].at = "locking" /\ call'[r].user = call[r].user
      BY <1>2, <1>3 DEF At
    <2> QED BY <2>2, <2>3 DEF LimitLocks, At
  <1> QED BY <1>7, <1>8, <1>9, <1>10, <1>11, <1>12, <1>13 DEF IInv

-----------------------------------------------------------------------------
(* The inductive invariant, and what follows from it *)

LEMMA InitIInv == Init => IInv
  <1> SUFFICES ASSUME Init PROVE IInv
    OBVIOUS
  <1> USE DEF Init
  <1>1. \A s \in Slots : CallShape(s) /\ RequestHolds(s)
    BY DEF CallShape, RequestHolds, At, ToSession, NoCall, Step
  <1>2. WellTyped
    BY <1>1, NoCallTyped DEF WellTyped, NoSession, Session, NoToken, Token
  <1>3. TokensOfAccounts /\ SessionsOfVerified /\ ResetEndsSessions
    BY DEF TokensOfAccounts, SessionsOfVerified, ResetEndsSessions, Unrevoked
  <1>4. ExchangedIsRevoked
    BY DEF ExchangedIsRevoked, NoSession
  <1>5. LimitLocks
    BY AttemptsAssumption DEF LimitLocks
  <1> QED BY <1>1, <1>2, <1>3, <1>4, <1>5 DEF IInv

LEMMA NextKeepsIInv == IInv /\ [Next]_vars => IInv'
  <1> SUFFICES ASSUME IInv, [Next]_vars PROVE IInv'
    OBVIOUS
  <1>0. interrupted => interrupted'
    BY DEF Next, vars
  <1>1. CASE UNCHANGED vars
    <2>1. UNCHANGED <<users, sessions, tokens, call>>
      BY <1>1 DEF vars
    <2>2. AccountsKept /\ TokensKept /\ SessionsOnlyEnd
      BY <2>1 DEF AccountsKept, TokensKept, SessionsOnlyEnd, Registered, users, sessions, tokens
    <2>3. RowsTyped'
      BY <2>1 DEF RowsTyped, IInv, WellTyped, users, sessions, tokens
    <2>4. TokensOfAccounts'
      BY <2>1, <2>2, TokensOfAccountsKept DEF users, tokens
    <2>5. (interrupted \/ LimitLocks)'
      BY <1>0, <2>1, LockKept DEF users, At
    <2> QED BY <1>0, <2>1, <2>2, <2>3, <2>4, <2>5, OutsideStepKeeps
  <1>2. ASSUME NEW s \in Slots,
               \/ Register(s) \/ CreateUser(s) \/ IssueEmailVerification(s)
               \/ VerifyEmailRead(s) \/ VerifyEmail(s)
               \/ LoginRead(s) \/ LoginSucceeds(s) \/ FailedLogin(s) \/ LockAccount(s)
               \/ RefreshRead(s) \/ Rotate(s) \/ IssueTokenPair(s)
               \/ ResetRead(s) \/ ResetPassword(s)
        PROVE  IInv'
    BY <1>0, <1>2, RegisterKeepsIInv, CreateUserKeepsIInv, IssueEmailVerificationKeepsIInv,
       VerifyEmailReadKeepsIInv, VerifyEmailKeepsIInv, LoginReadKeepsIInv,
       LoginSucceedsKeepsIInv, FailedLoginKeepsIInv, LockAccountKeepsIInv,
       RefreshReadKeepsIInv, RotateKeepsIInv, IssueTokenPairKeepsIInv,
       ResetReadKeepsIInv, ResetPasswordKeepsIInv
  <1>3. ASSUME NEW u \in Users, SeedPlatformAdmin(u) \/ ForgotPassword(u) \/ LockRunsOut(u)
        PROVE  IInv'
    BY <1>0, <1>3, SeedKeepsIInv, ForgotPasswordKeepsIInv, LockRunsOutKeepsIInv
  <1>4. ASSUME NEW x \in SessionIds,
               Logout(x) \/ SessionExpires(x) \/ \E u \in Users : RevokeSession(u, x)
        PROVE  IInv'
    BY <1>0, <1>4, EndingKeepsIInv
  <1>5. ASSUME NEW t \in Tokens, TokenExpires(t)
        PROVE  IInv'
    BY <1>0, <1>5, TokenExpiresKeepsIInv
  <1>6. ASSUME NEW s \in Slots, Fail(s), interrupted'
        PROVE  IInv'
    BY <1>6, FailKeepsIInv
  <1> QED BY <1>1, <1>2, <1>3, <1>4, <1>5, <1>6 DEF Next, Serves, AtOnce

(* The inductive invariant holds in every reachable state of AuthService. *)
THEOREM SessionsInductive == Spec => []IInv
  BY InitIInv, NextKeepsIInv, PTL DEF Spec

(* Every row and every request in flight stays well formed. *)
THEOREM SessionsTyped == Spec => []TypeOK
  <1> DEFINE Marked == interrupted \in BOOLEAN /\ overlapped \in BOOLEAN
  <1>1. Init => Marked
    BY DEF Init
  <1>2. Marked /\ [Next]_vars => Marked'
    BY DEF Next, RecordsOverlap, vars
  <1>3. IInv /\ Marked => TypeOK
    BY DEF IInv, TypeOK
  <1> HIDE DEF Marked
  <1> QED BY <1>1, <1>2, <1>3, SessionsInductive, PTL DEF Spec

(* login: a session, also one of a request that overlaps others, belongs to an
   account whose address has used a verification link or was seeded. *)
THEOREM SessionsNeedVerification == Spec => []SessionsOfVerified
  <1>1. IInv => SessionsOfVerified
    BY DEF IInv
  <1> QED BY <1>1, SessionsInductive, PTL

(* refresh: an exchanged refresh token stays revoked, whatever overlaps it. *)
THEOREM ExchangedStaysRevoked == Spec => []ExchangedIsRevoked
  <1>1. IInv => ExchangedIsRevoked
    BY DEF IInv
  <1> QED BY <1>1, SessionsInductive, PTL

(* resetPassword: the sessions it leaves unrevoked rest on the new password,
   or were created by a request that overlapped it. *)
THEOREM ResetLeavesOnlyRaced == Spec => []ResetEndsSessions
  <1>1. IInv => ResetEndsSessions
    BY DEF IInv
  <1> QED BY <1>1, SessionsInductive, PTL

(* handleFailedLogin: as long as no query fails, reaching the limit locks,
   whatever logins and resets overlap. *)
THEOREM LimitAlwaysLocks == Spec => []LocksUnlessInterrupted
  <1>1. IInv => LocksUnlessInterrupted
    BY DEF IInv, LocksUnlessInterrupted
  <1> QED BY <1>1, SessionsInductive, PTL

-----------------------------------------------------------------------------
(* One request at a time *)

(* No link is redeemed, no lock begins, and the session tables only shrink. *)
NothingBegins ==
  /\ TokensKept /\ SessionsOnlyEnd
  /\ \A t \in Tokens : tokenState'[t] = "used" => tokenState[t] = "used"
  /\ \A u \in Users : NotLockedOut(u) => NotLockedOut(u)'

(* What the session tables keep while requests do not overlap. *)
SessionsSound ==
  (\A x \in SessionIds : ~session[x].raced) /\ LinesExist /\ OneLivePerLogin

LEMMA OnlyEnded ==
  ASSUME IInv, SessionsOnlyEnd, NEW x \in SessionIds, Unrevoked(x)'
  PROVE  Unrevoked(x)
  BY DEF IInv, WellTyped, SessionsOnlyEnd, Unrevoked

LEMMA EndingStaysSound ==
  ASSUME IInv, SessionsSound, SessionsOnlyEnd
  PROVE  SessionsSound'
  <1>1. LinesExist'
    <2> SUFFICES ASSUME NEW x \in SessionIds, sessionState'[x] # "none"
                 PROVE  session'[x].line \in SessionIds /\ sessionState'[session'[x].line] # "none"
      BY DEF LinesExist
    <2>1. sessionState[x] # "none" /\ session'[x] = session[x]
      BY DEF SessionsOnlyEnd
    <2>2. session[x].line \in SessionIds /\ sessionState[session[x].line] # "none"
      BY <2>1 DEF SessionsSound, LinesExist
    <2> QED BY <2>1, <2>2 DEF SessionsOnlyEnd
  <1>2. OneLivePerLogin'
    BY OnlyEnded DEF SessionsSound, OneLivePerLogin, SessionsOnlyEnd
  <1> QED BY <1>1, <1>2 DEF SessionsSound, SessionsOnlyEnd

LEMMA IdleRelyOnNothing ==
  ASSUME NEW s \in Slots, call[s].at = "idle", call[s].from = None, ~call[s].raced
  PROVE  StillSo(s)
  BY DEF StillSo, At

(* A request in flight may still rely on what it has read. *)
LEMMA StaysSo ==
  ASSUME IInv, NothingBegins, NEW s \in Slots, call'[s] = call[s], StillSo(s)
  PROVE  StillSo(s)'
  <1>1. call[s] \in Call /\ CallShape(s) /\ RequestHolds(s)
    BY DEF IInv, WellTyped
  <1>2. At(s, "checking") => NotLockedOut(call[s].user)'
    BY <1>1 DEF StillSo, NothingBegins, CallShape, Call, At
  <1>3. At(s, "resetting") =>
          /\ token'[call[s].token] = [kind |-> "passwordReset", user |-> call[s].user]
          /\ tokenState'[call[s].token] # "used"
    <2> SUFFICES ASSUME At(s, "resetting")
                 PROVE  /\ token'[call[s].token] = [kind |-> "passwordReset", user |-> call[s].user]
                        /\ tokenState'[call[s].token] # "used"
      OBVIOUS
    <2>1. PICK t \in Tokens : t = call[s].token
      BY <1>1 DEF CallShape, Call, At
    <2>2. tokenState[t] # "none"
      BY <1>1, <2>1 DEF RequestHolds, At
    <2> QED BY <2>1, <2>2 DEF StillSo, NothingBegins, TokensKept
  <1>4. ASSUME NEW x \in SessionIds, Unrevoked(x)', call[s].from # None,
               session'[x].line = session'[call[s].from].line
        PROVE  At(s, "rotating") /\ x = call[s].from
    <2>1. call[s].from \in SessionIds
      BY <1>1, <1>4 DEF Call
    <2>2. session[x].line = session[call[s].from].line
      BY <1>4, <2>1 DEF NothingBegins, SessionsOnlyEnd
    <2>3. Unrevoked(x)
      BY <1>4, OnlyEnded DEF NothingBegins
    <2> QED BY <1>4, <2>2, <2>3 DEF StillSo
  <1> QED BY <1>2, <1>3, <1>4 DEF StillSo, At, NotLockedOut

(* Steps that change neither passwords nor statuses redeem nothing. *)
LEMMA NothingToRedeem ==
  ASSUME UNCHANGED <<password, status>>
  PROVE  PasswordByLink /\ LockHolds
  BY DEF PasswordByLink, LockHolds

(* The slots other than the one that takes a step are idle, before and after. *)
LEMMA OthersIdle ==
  ASSUME IInv, \A r \in Slots : StillSo(r), NEW s \in Slots,
         NEW k, call' = [call EXCEPT ![s] = k],
         \/ OneAtATime /\ ~At(s, "idle")
         \/ OneAtATime' /\ k.at # "idle"
  PROVE  call'[s] = k /\ \A r \in Slots \ {s} : StillSo(r)'
  <1>1. call'[s] = k /\ \A r \in Slots \ {s} : call'[r] = call[r]
    BY DEF IInv, WellTyped
  <1>2. \A r \in Slots \ {s} : call[r].at = "idle"
    BY <1>1 DEF OneAtATime, At
  <1>3. ASSUME NEW r \in Slots \ {s}
        PROVE  StillSo(r)'
    <2>1. call'[r].at = "idle" /\ call'[r].from = None /\ ~call'[r].raced
      BY <1>1, <1>2 DEF StillSo, At
    <2> QED BY <2>1 DEF StillSo, At
  <1> QED BY <1>1, <1>3

(* What a step leaves when requests do not overlap. *)
StepIsSound ==
  SessionsSound' /\ (\A r \in Slots : StillSo(r)') /\ PasswordByLink /\ LockHolds

(* A request arrives, or ends, and no table but the tokens' has changed. *)
LEMMA ArrivalIsSound ==
  ASSUME IInv, SessionsSound, \A r \in Slots : StillSo(r), OneAtATime', NEW s \in Slots,
         \/ Register(s) \/ VerifyEmailRead(s) \/ LoginRead(s) \/ RefreshRead(s) \/ ResetRead(s)
  PROVE  StepIsSound
  <1>1. UNCHANGED <<users, sessions, tokens>>
    BY DEF Register, VerifyEmailRead, LoginRead, RefreshRead, ResetRead
  <1>2. SessionsSound' /\ PasswordByLink /\ LockHolds
    <2>1. SessionsOnlyEnd
      BY <1>1 DEF SessionsOnlyEnd, sessions
    <2> QED BY <1>1, <2>1, EndingStaysSound, NothingToRedeem DEF users
  <1>3. SUFFICES \A r \in Slots : StillSo(r)'
    BY <1>2 DEF StepIsSound
  <1>4. ASSUME NEW k, call' = [call EXCEPT ![s] = k], k.at # "idle", ~k.raced, k.from = None,
               k.at # "checking", k.at # "resetting"
        PROVE  \A r \in Slots : StillSo(r)'
    <2>1. call'[s] = k /\ \A r \in Slots \ {s} : StillSo(r)'
      BY <1>4, OthersIdle
    <2>2. StillSo(s)'
      BY <1>4, <2>1 DEF StillSo, At
    <2> QED BY <2>1, <2>2
  <1>5. CASE Register(s)
    <2>1. PICK u, p : call' = [call EXCEPT ![s] = Step("registering", u, p, None, None, None, FALSE)]
      BY <1>5 DEF Register, Goes
    <2>2. PICK k \in {Step("registering", u, p, None, None, None, FALSE)} :
            k.at = "registering" /\ ~k.raced /\ k.from = None
      BY DEF Step
    <2> QED BY <1>4, <2>1, <2>2
  <1>6. CASE VerifyEmailRead(s)
    <2>1. PICK t : call' = [call EXCEPT ![s] =
                              Step("verifying", token[t].user, None, None, None, t, FALSE)]
      BY <1>6 DEF VerifyEmailRead, Goes
    <2>2. PICK k \in {Step("verifying", token[t].user, None, None, None, t, FALSE)} :
            k.at = "verifying" /\ ~k.raced /\ k.from = None
      BY DEF Step
    <2> QED BY <1>4, <2>1, <2>2
  <1>7. CASE LoginRead(s)
    <2>0. PICK u, p : /\ NotLockedOut(u)
                      /\ call' = [call EXCEPT ![s] =
                                     Step("checking", u, p, password[u], None, None, FALSE)]
      BY <1>7 DEF LoginRead, Goes, MayTryPassword
    <2>1. PICK k \in {Step("checking", u, p, password[u], None, None, FALSE)} :
            /\ call' = [call EXCEPT ![s] = k]
            /\ k.at = "checking" /\ ~k.raced /\ k.from = None /\ NotLockedOut(k.user)
      BY <2>0 DEF Step
    <2>2. call'[s] = k /\ \A r \in Slots \ {s} : StillSo(r)'
      BY <2>1, OthersIdle
    <2>3. StillSo(s)'
      BY <1>1, <2>1, <2>2 DEF StillSo, At, NotLockedOut, users
    <2> QED BY <2>2, <2>3
  <1>8. CASE RefreshRead(s)
    <2>1. PICK x, k :
            /\ x \in SessionIds
            /\ call' = [call EXCEPT ![s] = k] /\ sessionState[x] = "live"
            /\ k.at = "rotating" /\ k.raced = session[x].raced /\ k.from = x
      BY <1>8 DEF RefreshRead, Goes, Step
    <2>2. call'[s] = k /\ \A r \in Slots \ {s} : StillSo(r)'
      BY <2>1, OthersIdle
    <2>3. ~k.raced
      BY <2>1 DEF SessionsSound
    <2>4. \A y \in SessionIds : Unrevoked(y) /\ session[y].line = session[x].line => y = x
      BY <2>1 DEF SessionsSound, OneLivePerLogin, Unrevoked
    <2>5. StillSo(s)'
      BY <1>1, <2>1, <2>2, <2>3, <2>4 DEF StillSo, At, Unrevoked, sessions
    <2> QED BY <2>2, <2>5
  <1>9. CASE ResetRead(s)
    <2>1. PICK t, k :
            /\ t \in Tokens
            /\ call' = [call EXCEPT ![s] = k] /\ Redeemable(t, "passwordReset")
            /\ k.at = "resetting" /\ ~k.raced /\ k.from = None
            /\ k.token = t /\ k.user = token[t].user
      BY <1>9 DEF ResetRead, Goes, Step
    <2>2. call'[s] = k /\ \A r \in Slots \ {s} : StillSo(r)'
      BY <2>1, OthersIdle
    <2>3. token[t] = [kind |-> "passwordReset", user |-> token[t].user]
      BY <2>1 DEF Redeemable, IInv, WellTyped, Token
    <2>4. StillSo(s)'
      BY <1>1, <2>1, <2>2, <2>3 DEF StillSo, At, Redeemable, tokens
    <2> QED BY <2>2, <2>4
  <1> QED BY <1>5, <1>6, <1>7, <1>8, <1>9

(* The request is over: its slot relies on nothing. *)
LEMMA EndedRequest ==
  ASSUME IInv, \A r \in Slots : StillSo(r), OneAtATime, NEW s \in Slots, ~At(s, "idle"), Ends(s)
  PROVE  \A r \in Slots : StillSo(r)'
  <1>1. call' = [call EXCEPT ![s] = NoCall]
    BY DEF Ends, Goes
  <1>2. call'[s] = NoCall /\ \A r \in Slots \ {s} : StillSo(r)'
    BY <1>1, OthersIdle
  <1>3. StillSo(s)'
    BY <1>2 DEF StillSo, At, NoCall, Step
  <1> QED BY <1>2, <1>3

(* The request goes on to a stage where it relies on no session. *)
LEMMA MovedRequest ==
  ASSUME IInv, \A r \in Slots : StillSo(r), OneAtATime, NEW s \in Slots, ~At(s, "idle"),
         NEW stage \in {"mailing", "locking", "signing"}, MovesTo(s, stage),
         call[s].from = None
  PROVE  \A r \in Slots : StillSo(r)'
  <1>1. PICK k \in {Step(stage, call[s].user, call[s].password, call[s].seen, call[s].from,
                         call[s].token, call[s].raced)} :
          /\ call' = [call EXCEPT ![s] = k]
          /\ k.at = stage /\ k.from = None /\ ~k.raced
    BY DEF MovesTo, Goes, Step, StillSo
  <1>2. call'[s] = k /\ \A r \in Slots \ {s} : StillSo(r)'
    BY <1>1, OthersIdle
  <1>3. StillSo(s)'
    BY <1>1, <1>2 DEF StillSo, At
  <1> QED BY <1>2, <1>3

(* A request that waits for a query gets its answer and writes. *)
LEMMA AccountStepIsSound ==
  ASSUME IInv, SessionsSound, \A r \in Slots : StillSo(r), OneAtATime, NEW s \in Slots,
         \/ CreateUser(s) \/ IssueEmailVerification(s) \/ VerifyEmail(s)
         \/ LoginSucceeds(s) \/ FailedLogin(s) \/ LockAccount(s) \/ Fail(s)
  PROVE  StepIsSound
  <1>1. UNCHANGED sessions /\ ~At(s, "idle")
    BY DEF CreateUser, IssueEmailVerification, VerifyEmail, LoginSucceeds, FailedLogin,
           LockAccount, Fail, At
  <1>2. SessionsSound'
    <2>1. SessionsOnlyEnd
      BY <1>1 DEF SessionsOnlyEnd, sessions
    <2> QED BY <2>1, EndingStaysSound
  <1>3. call[s] \in Call /\ call[s].user \in Users /\ CallShape(s) /\ RequestHolds(s)
    BY <1>1, RequestOfAccount
  <1>4. CASE IssueEmailVerification(s) \/ VerifyEmail(s) \/ Fail(s)
    <2>1. Ends(s) /\ UNCHANGED <<password, status>>
      BY <1>4 DEF IssueEmailVerification, VerifyEmail, Fail, users
    <2> QED BY <1>1, <1>2, <2>1, EndedRequest, NothingToRedeem DEF StepIsSound
  <1>5. CASE CreateUser(s)
    <2>1. \A u \in Users : Registered(u) => password'[u] = password[u]
      BY <1>3, <1>5 DEF CreateUser, EmailIsFree, Registered, IInv, WellTyped
    <2>2. PasswordByLink /\ LockHolds
      BY <1>5, <2>1 DEF CreateUser, PasswordByLink, LockHolds
    <2>3. Ends(s) \/ MovesTo(s, "mailing")
      BY <1>5 DEF CreateUser
    <2>4. call[s].from = None
      BY <1>5 DEF CreateUser, StillSo, At
    <2> QED BY <1>1, <1>2, <2>2, <2>3, <2>4, EndedRequest, MovedRequest DEF StepIsSound
  <1>6. CASE LoginSucceeds(s)
    <2>1. MovesTo(s, "signing") /\ call[s].from = None
      BY <1>3, <1>6 DEF LoginSucceeds, RequestHolds
    <2>2. NotLockedOut(call[s].user)
      BY <1>6 DEF LoginSucceeds, StillSo
    <2>3. LockHolds
      <3>1. \A u \in Users : u # call[s].user => status'[u] = status[u]
        BY <1>6 DEF LoginSucceeds, IInv, WellTyped
      <3> QED BY <2>2, <3>1 DEF LockHolds, NotLockedOut
    <2>4. PasswordByLink
      BY <1>6 DEF LoginSucceeds, PasswordByLink
    <2> QED BY <1>1, <1>2, <2>1, <2>3, <2>4, MovedRequest DEF StepIsSound
  <1>7. CASE FailedLogin(s)
    <2>1. Ends(s) \/ MovesTo(s, "locking")
      BY <1>7 DEF FailedLogin
    <2>2. call[s].from = None
      BY <1>3, <1>7 DEF FailedLogin, RequestHolds
    <2>3. UNCHANGED <<password, status>>
      BY <1>7 DEF FailedLogin
    <2> QED BY <1>1, <1>2, <2>1, <2>2, <2>3, EndedRequest, MovedRequest, NothingToRedeem
            DEF StepIsSound
  <1>8. CASE LockAccount(s)
    <2>1. Ends(s) /\ password' = password
      BY <1>8 DEF LockAccount
    <2>2. \A u \in Users : status'[u] \in {status[u], "locked"}
      BY <1>3, <1>8 DEF LockAccount, IInv, WellTyped
    <2>3. PasswordByLink /\ LockHolds
      BY <2>1, <2>2 DEF PasswordByLink, LockHolds
    <2> QED BY <1>1, <1>2, <2>1, <2>3, EndedRequest DEF StepIsSound
  <1> QED BY <1>4, <1>5, <1>6, <1>7, <1>8

(* Rotation revokes the one session of the login that may be live. *)
LEMMA RotateIsSound ==
  ASSUME IInv, SessionsSound, \A r \in Slots : StillSo(r), OneAtATime, NEW s \in Slots, Rotate(s)
  PROVE  StepIsSound
  <1>1. At(s, "rotating") /\ ~At(s, "idle") /\ MovesTo(s, "signing")
        /\ UNCHANGED <<users, session, tokens>>
        /\ sessionState' = [sessionState EXCEPT ![call[s].from] = "revoked"]
    BY DEF Rotate, At
  <1>2. PICK x \in SessionIds : x = call[s].from /\ sessionState[x] # "none"
    BY <1>1, RequestOfAccount DEF RequestHolds, CallShape, Call, At
  <1>3. \A y \in SessionIds : sessionState'[y] = IF y = x THEN "revoked" ELSE sessionState[y]
    BY <1>1, <1>2 DEF IInv, WellTyped
  <1>4. SessionsOnlyEnd
    BY <1>1, <1>2, <1>3 DEF SessionsOnlyEnd
  <1>5. SessionsSound' /\ PasswordByLink /\ LockHolds
    BY <1>1, <1>4, EndingStaysSound, NothingToRedeem DEF users
  <1>6. PICK k \in {Step("signing", call[s].user, call[s].password, call[s].seen, call[s].from,
                         call[s].token, call[s].raced)} :
          /\ call' = [call EXCEPT ![s] = k]
          /\ k.at = "signing" /\ k.from = x /\ ~k.raced
    BY <1>1, <1>2 DEF MovesTo, Goes, Step, StillSo
  <1>7. call'[s] = k /\ \A r \in Slots \ {s} : StillSo(r)'
    BY <1>1, <1>6, OthersIdle
  <1>8. \A y \in SessionIds : Unrevoked(y)' => session'[y].line # session'[x].line
    <2> SUFFICES ASSUME NEW y \in SessionIds, Unrevoked(y)', session'[y].line = session'[x].line
                 PROVE  FALSE
      OBVIOUS
    <2>1. Unrevoked(y) /\ y # x /\ session[y].line = session[x].line
      BY <1>1, <1>3 DEF Unrevoked
    <2> QED BY <1>2, <2>1, NullAssumption DEF StillSo
  <1>9. StillSo(s)'
    BY <1>6, <1>7, <1>8 DEF StillSo, At
  <1> QED BY <1>5, <1>7, <1>9 DEF StepIsSound

(* The session of a login is the first of its line, the one of a refresh takes
   the place of the one session of its line, which is revoked. *)
LEMMA IssueIsSound ==
  ASSUME IInv, SessionsSound, \A r \in Slots : StillSo(r), OneAtATime, NEW s \in Slots,
         IssueTokenPair(s)
  PROVE  StepIsSound
  <1> DEFINE k == call[s]
  <1>1. PICK x \in SessionIds :
          /\ sessionState[x] = "none"
          /\ session' = [session EXCEPT ![x] =
               [user |-> k.user, from |-> k.from,
                line |-> IF k.from = None THEN x ELSE session[k.from].line,
                password |-> k.password, raced |-> k.raced]]
          /\ sessionState' = [sessionState EXCEPT ![x] = "live"]
    BY DEF IssueTokenPair
  <1>2. At(s, "signing") /\ ~At(s, "idle") /\ Ends(s) /\ UNCHANGED users
    BY DEF IssueTokenPair, At
  <1>3. k.from # None => k.from \in SessionIds /\ sessionState[k.from] = "revoked"
    BY <1>2, RequestOfAccount DEF RequestHolds, At, Call
  <1>4. PICK l : l = IF k.from = None THEN x ELSE session[k.from].line
    OBVIOUS
  <1>5. /\ session'[x].line = l /\ session'[x].raced = k.raced /\ sessionState'[x] = "live"
        /\ \A y \in SessionIds \ {x} :
             session'[y] = session[y] /\ sessionState'[y] = sessionState[y]
    BY <1>1, <1>4 DEF IInv, WellTyped
  <1>6. l \in SessionIds /\ sessionState'[l] # "none"
    <2>1. CASE k.from = None
      BY <1>4, <1>5, <2>1
    <2>2. CASE k.from # None
      <3>1. l \in SessionIds /\ sessionState[l] # "none"
        BY <1>3, <1>4, <2>2 DEF SessionsSound, LinesExist
      <3> QED BY <1>5, <3>1
    <2> QED BY <2>1, <2>2
  <1>7. LinesExist'
    <2> SUFFICES ASSUME NEW y \in SessionIds, sessionState'[y] # "none"
                 PROVE  session'[y].line \in SessionIds /\ sessionState'[session'[y].line] # "none"
      BY DEF LinesExist
    <2>1. CASE y = x
      BY <1>5, <1>6, <2>1
    <2>2. CASE y # x
      <3>1. session'[y].line = session[y].line
            /\ session[y].line \in SessionIds /\ sessionState[session[y].line] # "none"
        BY <1>5, <2>2 DEF SessionsSound, LinesExist
      <3> QED BY <1>5, <3>1
    <2> QED BY <2>1, <2>2
  <1>8. \A y \in SessionIds \ {x} : Unrevoked(y) => session[y].line # l
    <2> SUFFICES ASSUME NEW y \in SessionIds \ {x}, Unrevoked(y), session[y].line = l
                 PROVE  FALSE
      OBVIOUS
    <2>1. CASE k.from = None
      <3>1. sessionState[session[y].line] # "none"
        BY DEF SessionsSound, LinesExist, Unrevoked
      <3> QED BY <1>1, <1>4, <2>1, <3>1
    <2>2. CASE k.from # None
      <3>1. session[y].line = session[k.from].line
        BY <1>4, <2>2
      <3> QED BY <1>2, <2>2, <3>1 DEF StillSo, At
    <2> QED BY <2>1, <2>2
  <1>9. OneLivePerLogin'
    <2> SUFFICES ASSUME NEW y \in SessionIds, NEW z \in SessionIds, Unrevoked(y)', Unrevoked(z)',
                        session'[y].line = session'[z].line
                 PROVE  y = z
      BY DEF OneLivePerLogin
    <2>1. \A w \in SessionIds \ {x} : Unrevoked(w)' => Unrevoked(w)
      BY <1>5 DEF Unrevoked
    <2>2. CASE y # x /\ z # x
      BY <1>5, <2>1, <2>2 DEF SessionsSound, OneLivePerLogin
    <2>3. CASE y = x \/ z = x
      BY <1>5, <1>8, <2>1, <2>3
    <2> QED BY <2>2, <2>3
  <1>10. \A y \in SessionIds : ~session'[y].raced
    BY <1>5 DEF SessionsSound, StillSo
  <1>11. \A r \in Slots : StillSo(r)'
    BY <1>2, EndedRequest
  <1>12. PasswordByLink /\ LockHolds
    BY <1>2, NothingToRedeem DEF users
  <1> QED BY <1>7, <1>9, <1>10, <1>11, <1>12 DEF StepIsSound, SessionsSound

(* A reset redeems the link it read unused, which nothing else has spent. *)
LEMMA ResetIsSound ==
  ASSUME IInv, SessionsSound, \A r \in Slots : StillSo(r), OneAtATime, NEW s \in Slots,
         ResetPassword(s)
  PROVE  StepIsSound
  <1>1. PICK u \in Users, t \in Tokens :
          /\ u = call[s].user /\ t = call[s].token
          /\ token[t] = [kind |-> "passwordReset", user |-> u] /\ tokenState[t] # "used"
    BY RequestOfAccount DEF ResetPassword, StillSo, CallShape, Call, At
  <1>2. At(s, "resetting") /\ ~At(s, "idle") /\ session' = session
    BY DEF ResetPassword, At
  <1>3. /\ tokenState'[t] = "used"
        /\ \A v \in Users : v # u => password'[v] = password[v] /\ status'[v] = status[v]
    BY <1>1 DEF ResetPassword, IInv, WellTyped
  <1>4. PasswordByLink /\ LockHolds
    <2>1. Redeems(t, u)
      BY <1>1, <1>3 DEF Redeems
    <2> QED BY <1>3, <2>1 DEF PasswordByLink, LockHolds
  <1>5. SessionsOnlyEnd
    BY <1>1, <1>2 DEF ResetPassword, SessionsAfterReset, Unrevoked, SessionsOnlyEnd, IInv, WellTyped
  <1>6. SessionsSound'
    BY <1>5, EndingStaysSound
  <1>7. call'[s] = NoCall
    BY DEF ResetPassword
  <1>8. ASSUME NEW r \in Slots \ {s}
        PROVE  call'[r].at = "idle" /\ call'[r].from = None /\ ~call'[r].raced
    <2>1. call[r].at = "idle" /\ call[r].from = None /\ ~call[r].raced
      BY <1>2 DEF OneAtATime, At, StillSo
    <2> DEFINE raced == call[r].raced \/ (ToSession(r) /\ call[r].user = call[s].user)
    <2>2. call'[r] = Step(call[r].at, call[r].user, call[r].password, call[r].seen, call[r].from,
                          call[r].token, raced)
      BY DEF ResetPassword
    <2>3. ~raced
      BY <2>1 DEF ToSession
    <2> HIDE DEF raced
    <2>4. call'[r].at = call[r].at /\ call'[r].from = call[r].from /\ call'[r].raced = raced
      BY <2>2 DEF Step
    <2> QED BY <2>1, <2>3, <2>4
  <1>9. ASSUME NEW r \in Slots
        PROVE  StillSo(r)'
    <2>1. call'[r].at = "idle" /\ call'[r].from = None /\ ~call'[r].raced
      BY <1>7, <1>8 DEF NoCall, Step
    <2> QED BY <2>1 DEF StillSo, At
  <1> QED BY <1>4, <1>6, <1>9 DEF StepIsSound

(* What happens beside the requests takes nothing away that one relies on. *)
LEMMA AtOnceIsSound ==
  ASSUME IInv, SessionsSound, \A r \in Slots : StillSo(r), AtOnce
  PROVE  StepIsSound
  <1>1. UNCHANGED <<call, session, status>>
    BY DEF AtOnce, SeedPlatformAdmin, ForgotPassword, LockRunsOut, Logout, SessionExpires,
           RevokeSession, TokenExpires, users, sessions
  <1>2. SessionsOnlyEnd
    BY <1>1 DEF AtOnce, SeedPlatformAdmin, ForgotPassword, LockRunsOut, Logout, SessionExpires,
           RevokeSession, TokenExpires, users, sessions, SessionsOnlyEnd, Unrevoked, IInv, WellTyped
  <1>3. \A t \in Tokens :
          /\ tokenState[t] # "none" => tokenState'[t] # "none" /\ token'[t] = token[t]
          /\ tokenState'[t] = "used" <=> tokenState[t] = "used"
    <2>1. CASE UNCHANGED tokens
      BY <2>1 DEF tokens
    <2>2. CASE \E u \in Users : ForgotPassword(u)
      BY <2>2 DEF ForgotPassword, NewToken, IInv, WellTyped
    <2>3. CASE \E t \in Tokens : TokenExpires(t)
      BY <2>3 DEF TokenExpires, IInv, WellTyped
    <2> QED BY <2>1, <2>2, <2>3 DEF AtOnce, SeedPlatformAdmin, LockRunsOut, Logout, SessionExpires,
                                    RevokeSession
  <1>4. \A u \in Users : NotLockedOut(u) => NotLockedOut(u)'
    <2>1. CASE UNCHANGED lockedUntil
      BY <1>1, <2>1 DEF NotLockedOut
    <2>2. CASE \E u \in Users : LockRunsOut(u)
      BY <1>1, <2>2 DEF LockRunsOut, NotLockedOut, IInv, WellTyped
    <2> QED BY <2>1, <2>2 DEF AtOnce, SeedPlatformAdmin, ForgotPassword, Logout, SessionExpires,
                              RevokeSession, TokenExpires, users
  <1>5. PasswordByLink
    <2>1. CASE UNCHANGED password
      BY <2>1 DEF PasswordByLink
    <2>2. CASE \E u \in Users : SeedPlatformAdmin(u)
      BY <2>2 DEF SeedPlatformAdmin, EmailIsFree, Registered, PasswordByLink, IInv, WellTyped
    <2> QED BY <2>1, <2>2 DEF AtOnce, ForgotPassword, LockRunsOut, Logout, SessionExpires,
                              RevokeSession, TokenExpires, users
  <1>6. LockHolds
    BY <1>1 DEF LockHolds
  <1>7. NothingBegins
    BY <1>2, <1>3, <1>4 DEF NothingBegins, TokensKept
  <1>8. \A r \in Slots : StillSo(r)'
    BY <1>1, <1>7, StaysSo
  <1>9. SessionsSound'
    BY <1>2, EndingStaysSound
  <1> QED BY <1>5, <1>6, <1>8, <1>9 DEF StepIsSound

LEMMA StepAlone ==
  ASSUME IInv, Alone, Next, ~overlapped'
  PROVE  Alone' /\ PasswordByLink /\ LockHolds
  <1>1. /\ OneAtATime /\ OneAtATime' /\ SessionsSound
        /\ \A s \in Slots : StillSo(s)
    BY DEF Next, RecordsOverlap, Alone, SessionsSound
  <1>2. ASSUME NEW s \in Slots, Serves(s) \/ Fail(s)
        PROVE  StepIsSound
    BY <1>1, <1>2, ArrivalIsSound, AccountStepIsSound, RotateIsSound, IssueIsSound, ResetIsSound
    DEF Serves
  <1>3. StepIsSound
    BY <1>1, <1>2, AtOnceIsSound DEF Next
  <1> QED BY <1>1, <1>3 DEF StepIsSound, SessionsSound, Alone

LEMMA AloneInductive == Spec => [](IInv /\ Alone)
  <1>1. Init => Alone
    BY DEF Init, Alone, OneAtATime, At, StillSo, NoCall, Step, NoSession, LinesExist,
           OneLivePerLogin, Unrevoked
  <1>2. IInv /\ Alone /\ [Next]_vars => Alone'
    <2>1. IInv /\ Alone /\ Next => Alone'
      BY StepAlone DEF Alone
    <2>2. Alone /\ UNCHANGED vars => Alone'
      BY DEF vars, users, sessions, tokens, Alone, OneAtATime, At, StillSo, NotLockedOut,
             LinesExist, OneLivePerLogin, Unrevoked
    <2> QED BY <2>1, <2>2
  <1> QED BY <1>1, <1>2, SessionsInductive, PTL DEF Spec

(* refresh and resetPassword: as long as requests do not overlap, a login has one
   usable refresh token and none rests on an old password, whatever fails. *)
THEOREM TurnsKeepSessions == Spec => []SessionsUnlessOverlapped
  <1>1. IInv /\ Alone => SessionsUnlessOverlapped
    BY DEF IInv, Alone, ResetEndsSessions, SessionsUnlessOverlapped, NoSessionOfOldPassword
  <1> QED BY <1>1, AloneInductive, PTL

(* ... and only an unused reset link changes a password or opens a lock early. *)
THEOREM TurnsNeedLink == Spec => LinksUnlessOverlapped
  <1>1. IInv /\ Alone /\ [Next]_vars => [~overlapped' => PasswordByLink /\ LockHolds]_vars
    BY StepAlone
  <1> QED BY <1>1, AloneInductive, PTL DEF Spec, LinksUnlessOverlapped
=============================================================================
