--------------------------- MODULE PasswordLogin ---------------------------
(***************************************************************************)
(* How a password lets in, locks out and is replaced: the login attempts   *)
(* of the auth service, the failure counter they keep in Redis, the status *)
(* of the user row, and the password-reset tokens.                         *)
(*                                                                         *)
(* A request is a process with one step per statement sent to Postgres or  *)
(* Redis.  A refusal that writes nothing (unknown e-mail, account not      *)
(* active, unknown, used or expired token) leaves every variable as it is  *)
(* and has no action.  The session a successful login opens is the         *)
(* subject of RefreshRotation.                                             *)
(***************************************************************************)
EXTENDS Naturals, FiniteSets

CONSTANTS
    User,
    Token,        \* ids the password_resets table may allocate
    Request,      \* requests served at the same time
    MaxAttempts,  \* AUTH_LOCKOUT_MAX_ATTEMPTS
    NoUser, NoToken

ASSUME RequestAssumption == IsFiniteSet(Request) /\ Request # {}

ASSUME MaxAttemptsAssumption == MaxAttempts \in Nat \ {0}

ASSUME NullAssumption == NoUser \notin User /\ NoToken \notin Token

VARIABLES
    status,     \* status[u] of the user row
    failures,   \* failures[u]: value of the Redis key lockout:<u>, 0 if absent
    expiring,   \* users whose lockout key has a time to live
    resets,     \* rows of the password_resets table
    consumed,   \* ids of the resets whose usedAt is set
    lapsed,     \* ids of the resets whose expiresAt has passed
    redeemed,   \* redeemed[t]: how many passwords t has set (no column)
    request     \* request[r]: how far r has come and what it remembers

vars == <<status, failures, expiring, resets, consumed, lapsed, redeemed, request>>
lockout == <<status, failures, expiring>>
resetTables == <<resets, consumed, lapsed, redeemed>>

\* suspended, deleted: no code path of the repository writes them.  An
\* account pending verification or invited cannot log in yet.
Status == {"active", "locked"}

ResetRow == [id : Token, user : User]

Step == {"idle", "count", "verify", "expire", "lock", "issue", "redeem"}

Progress == [step : Step, user : User \cup {NoUser}, count : Nat,
             token : Token \cup {NoToken}, targets : SUBSET Token]

Serving(step, u, n, t, S) ==
    [step |-> step, user |-> u, count |-> n, token |-> t, targets |-> S]

Idle == Serving("idle", NoUser, 0, NoToken, {})
LoggingIn(step, u, n) == Serving(step, u, n, NoToken, {})

TypeOK ==
    /\ status \in [User -> Status]
    /\ failures \in [User -> Nat]
    /\ expiring \subseteq User
    /\ resets \subseteq ResetRow
    /\ consumed \subseteq Token
    /\ lapsed \subseteq Token
    /\ redeemed \in [Token -> Nat]
    /\ request \in [Request -> Progress]

At(r, step) == request[r].step = step
Begin(r, progress) == request' = [request EXCEPT ![r] = progress]
Finish(r) == Begin(r, Idle)

\* Attempts on u that passed the check of the counter and not yet the one
\* of the password.
Guessing(u) == {r \in Request : At(r, "verify") /\ request[r].user = u}

Redeeming(t) == {r \in Request : At(r, "redeem") /\ request[r].token = t}
Issuing(u) == {r \in Request : At(r, "issue") /\ request[r].user = u}

ResetIds == {row.id : row \in resets}
Unused(u) == {row.id : row \in {x \in resets : x.user = u}} \ consumed
Live(u) == Unused(u) \ lapsed

Init ==
    /\ status = [u \in User |-> "active"]
    /\ failures = [u \in User |-> 0]
    /\ expiring = {}
    /\ resets = {}
    /\ consumed = {}
    /\ lapsed = {}
    /\ redeemed = [t \in Token |-> 0]
    /\ request = [r \in Request |-> Idle]

-----------------------------------------------------------------------------
(***************************************************************************)
(* POST /auth/login.                                                       *)
(***************************************************************************)

\* assertUserCanLogIn.
CanLogIn(u) == status[u] = "active"

\* The user row is read once; only an active account goes on.
Login(r, u) ==
    /\ At(r, "idle")
    /\ CanLogIn(u)
    /\ Begin(r, LoggingIn("count", u, 0))
    /\ UNCHANGED <<lockout, resetTables>>

\* Mutation: the limit is off by one.
CheckCountOffByOne(r) ==
    /\ At(r, "count")
    /\ Begin(r, LoggingIn(IF failures[request[r].user] > MaxAttempts
                          THEN "lock" ELSE "verify",
                          request[r].user, failures[request[r].user]))
    /\ UNCHANGED <<lockout, resetTables>>

\* GET of the counter; an attempt over the limit locks the account and is
\* refused before its password is looked at.
CheckCount(r) ==
    /\ At(r, "count")
    /\ Begin(r, LoggingIn(IF failures[request[r].user] >= MaxAttempts
                          THEN "lock" ELSE "verify",
                          request[r].user, failures[request[r].user]))
    /\ UNCHANGED <<lockout, resetTables>>

AfterCounting(r, n) ==
    IF n >= MaxAttempts THEN Begin(r, LoggingIn("lock", request[r].user, n)) ELSE Finish(r)

\* Mutation: the key gets its time to live at the last failure, not the first.
WrongPasswordExpireAtMax(r) ==
    /\ At(r, "verify")
    /\ LET u == request[r].user
           n == failures[u] + 1
       IN  /\ failures' = [failures EXCEPT ![u] = n]
           /\ IF n = MaxAttempts
              THEN Begin(r, LoggingIn("expire", u, n))
              ELSE AfterCounting(r, n)
    /\ UNCHANGED <<status, expiring, resetTables>>

\* INCR; the attempt that created the key gives it its time to live next.
WrongPassword(r) ==
    /\ At(r, "verify")
    /\ LET u == request[r].user
           n == failures[u] + 1
       IN  /\ failures' = [failures EXCEPT ![u] = n]
           /\ IF n = 1
              THEN Begin(r, LoggingIn("expire", u, n))
              ELSE AfterCounting(r, n)
    /\ UNCHANGED <<status, expiring, resetTables>>

\* EXPIRE does nothing when the key is gone.
SetExpiry(r) ==
    /\ At(r, "expire")
    /\ expiring' = IF failures[request[r].user] > 0
                   THEN expiring \cup {request[r].user} ELSE expiring
    /\ AfterCounting(r, request[r].count)
    /\ UNCHANGED <<status, failures, resetTables>>

\* Mutation: the account is suspended instead of locked.
LockAccountSuspends(r) ==
    /\ At(r, "lock")
    /\ status' = [status EXCEPT ![request[r].user] = "suspended"]
    /\ Finish(r)
    /\ UNCHANGED <<failures, expiring, resetTables>>

\* The write does not depend on the status or the counter found now.
LockAccount(r) ==
    /\ At(r, "lock")
    /\ status' = [status EXCEPT ![request[r].user] = "locked"]
    /\ Finish(r)
    /\ UNCHANGED <<failures, expiring, resetTables>>

ClearCounter(u) ==
    /\ failures' = [failures EXCEPT ![u] = 0]
    /\ expiring' = expiring \ {u}

\* DEL of the counter; the rest of the login opens the session.
RightPassword(r) ==
    /\ At(r, "verify")
    /\ ClearCounter(request[r].user)
    /\ Finish(r)
    /\ UNCHANGED <<status, resetTables>>

\* Redis drops the key when its time to live is over.
CounterExpires(u) ==
    /\ u \in expiring
    /\ ClearCounter(u)
    /\ UNCHANGED <<status, resetTables, request>>

\* An invitation accepted by somebody who has an account already sets the
\* status whatever it was.
ReactivateByInvite(u) ==
    /\ status' = [status EXCEPT ![u] = "active"]
    /\ UNCHANGED <<failures, expiring, resetTables, request>>

-----------------------------------------------------------------------------
(***************************************************************************)
(* POST /auth/forgot-password and /auth/reset-password.                    *)
(***************************************************************************)

\* One transaction: its update takes the rows unused at that statement, and
\* they show as expired, together with the new row, at the commit.  The
\* status of the account plays no part.
RequestReset(r, u) ==
    /\ At(r, "idle")
    /\ Begin(r, Serving("issue", u, 0, NoToken, Unused(u)))
    /\ UNCHANGED <<lockout, resetTables>>

\* Mutation: older tokens keep their expiry.
IssueResetKeepOlder(r, t) ==
    /\ At(r, "issue")
    /\ t \notin ResetIds
    /\ resets' = resets \cup {[id |-> t, user |-> request[r].user]}
    /\ Finish(r)
    /\ UNCHANGED <<lockout, lapsed, consumed, redeemed>>

IssueReset(r, t) ==
    /\ At(r, "issue")
    /\ t \notin ResetIds
    /\ lapsed' = lapsed \cup request[r].targets
    /\ resets' = resets \cup {[id |-> t, user |-> request[r].user]}
    /\ Finish(r)
    /\ UNCHANGED <<lockout, consumed, redeemed>>

ResetExpires(t) ==
    /\ t \in ResetIds \ lapsed
    /\ lapsed' = lapsed \cup {t}
    /\ UNCHANGED <<lockout, resets, consumed, redeemed, request>>

\* The token is looked up and judged outside the transaction.
FindReset(r, row) ==
    /\ At(r, "idle")
    /\ row \in resets
    /\ row.id \notin consumed \cup lapsed
    /\ Begin(r, Serving("redeem", row.user, 0, row.id, {}))
    /\ UNCHANGED <<lockout, resetTables>>

\* Mutation: usedAt is not set.
SetPasswordKeepToken(r) ==
    /\ At(r, "redeem")
    /\ redeemed' = [redeemed EXCEPT ![request[r].token] = @ + 1]
    /\ Finish(r)
    /\ UNCHANGED <<lockout, resets, consumed, lapsed>>

\* The transaction sets usedAt and the password without looking at usedAt
\* again.  Neither the lock nor the counter is touched.  The sessions it
\* ends are in RefreshRotation.
SetPassword(r) ==
    /\ At(r, "redeem")
    /\ consumed' = consumed \cup {request[r].token}
    /\ redeemed' = [redeemed EXCEPT ![request[r].token] = @ + 1]
    /\ Finish(r)
    /\ UNCHANGED <<lockout, resets, lapsed>>

-----------------------------------------------------------------------------
\* The process serving r stops, or a statement fails.
Crash(r) ==
    /\ ~At(r, "idle")
    /\ Finish(r)
    /\ UNCHANGED <<lockout, resetTables>>

LoginStep(r) ==
    \/ CheckCount(r)
    \/ WrongPassword(r)
    \/ RightPassword(r)
    \/ SetExpiry(r)
    \/ LockAccount(r)

ResetStep(r) ==
    \/ \E t \in Token : IssueReset(r, t)
    \/ SetPassword(r)

Next ==
    \/ \E r \in Request :
          \/ \E u \in User : Login(r, u) \/ RequestReset(r, u)
          \/ \E row \in resets : FindReset(r, row)
          \/ LoginStep(r)
          \/ ResetStep(r)
          \/ Crash(r)
    \/ \E u \in User : CounterExpires(u) \/ ReactivateByInvite(u)
    \/ \E t \in Token : ResetExpires(t)

Spec == Init /\ [][Next]_vars

\* A request that is being served goes on (or crashes), and Redis honours
\* the times to live.  Nobody has to log in, and nobody has to be invited.
Fairness ==
    /\ \A r \in Request : WF_vars(LoginStep(r) \/ ResetStep(r))
    /\ \A u \in User : WF_vars(CounterExpires(u))

FairSpec == Spec /\ Fairness

-----------------------------------------------------------------------------
(***************************************************************************)
(* Properties.                                                             *)
(***************************************************************************)

\* Attempts read the counter, then check the password, then count: several
\* can pass the check of the counter before any of them counts
\* (login.service.ts:85-96).  Still the passwords tried since the counter
\* was last cleared, and those about to be tried, exceed the limit by less
\* than the number of requests served at once.
GuessesBounded ==
    \A u \in User : failures[u] + Cardinality(Guessing(u)) < MaxAttempts + Cardinality(Request)

\* A non-zero counter has a time to live, or an attempt is about to give it
\* one.
Covered(u) ==
    \/ failures[u] = 0
    \/ u \in expiring
    \/ \E r \in Request : At(r, "expire") /\ request[r].user = u

\* INCR and EXPIRE are two commands (login.service.ts:96-98).  A counter is
\* left without a time to live only when the attempt that created it stops
\* between the two; no interleaving of attempts, clears and expiries does it.
CounterOutlivesOnlyACrash ==
    [][\A u \in User : Covered(u) /\ ~Covered(u)' => \E r \in Request :
          request[r].user = u /\ At(r, "expire") /\ Crash(r)]_vars

\* A new reset token expires the older ones (password-reset.service.ts:67);
\* requests that overlap can each leave one, never more than that.
LiveResetsBounded ==
    \A u \in User : Cardinality(Live(u)) <= Cardinality(Request)

\* "Token is single-use" (password-reset.service.ts:35) up to the requests
\* that found the token unused before the first of them consumed it.
RedeemsBounded ==
    \A t \in Token : redeemed[t] + Cardinality(Redeeming(t)) <= Cardinality(Request)

\* A locked account is locked for AUTH_LOCKOUT_DURATION ("status=locked for
\* 30 min", auth/README.md): it becomes active again.
LockEnds == \A u \in User : status[u] = "locked" ~> status[u] = "active"
=============================================================================
