-------------------------- MODULE RefreshRotation --------------------------
(***************************************************************************)
(* Sessions and rotating refresh tokens of the auth service.               *)
(*                                                                         *)
(* An HTTP request is a process: each of its database statements is one    *)
(* step, and requests interleave freely between statements.  A request     *)
(* keeps what its handler keeps in local variables (the row it read), so   *)
(* it acts on what it saw and not on what the tables say now.  A request   *)
(* may stop between any two statements (a crash, a lost connection).       *)
(*                                                                         *)
(* Expiry of a refresh token is not a state: a token found expired is      *)
(* refused without any write (refresh.service.ts:62), as are an unknown    *)
(* and a revoked one, so these answers leave every variable unchanged and  *)
(* have no action.                                                         *)
(*                                                                         *)
(* The sessions are those of one tenant: the deactivation of a staff       *)
(* member, the one operation that looks at the tenant, ends all of them.   *)
(***************************************************************************)
EXTENDS Naturals, FiniteSets

CONSTANTS
    User,
    Session,          \* ids the sessions table may allocate
    Token,            \* ids the refresh_tokens table may allocate
    Request,          \* requests served at the same time
    TwoFactorUsers,   \* users whose twoFactorEnabled is set
    NoUser, NoSession, NoToken

ASSUME TwoFactorAssumption == TwoFactorUsers \subseteq User

ASSUME RequestAssumption == IsFiniteSet(Request)

ASSUME NullAssumption ==
    NoUser \notin User /\ NoSession \notin Session /\ NoToken \notin Token

VARIABLES
    sessions,       \* rows of the sessions table
    ended,          \* ids of the sessions whose endedAt is set
    refreshTokens,  \* rows of the refresh_tokens table
    used,           \* ids of the tokens whose usedAt is set
    revoked,        \* ids of the tokens whose revokedAt is set
    pending,        \* sessions with a 2fa_pending JWT still valid
    request         \* request[r]: how far r has come and what it remembers

vars == <<sessions, ended, refreshTokens, used, revoked, pending, request>>
tables == <<sessions, ended, refreshTokens, used, revoked, pending>>

SessionRow == [id : Session, user : User]

\* parent is null for the first token of a chain.
TokenRow == [id : Token, user : User, session : Session, family : Token,
             parent : Token \cup {NoToken}]

Step == {"idle",
         "mint",                               \* login, invite, second factor
         "burn", "check", "rotate",            \* refresh
         "revokeFamily", "endReused",          \* refresh, reuse detected
         "logoutEnd", "logoutAllEnd",
         "resetCommit",
         "deactivate", "deactivateEnd", "deactivateRevoke"}

Progress == [step : Step, user : User \cup {NoUser},
             session : Session \cup {NoSession},
             token : Token \cup {NoToken}, family : Token \cup {NoToken},
             targets : SUBSET Session]

Serving(step, u, s, t, f, S) == [step |-> step, user |-> u, session |-> s,
                                 token |-> t, family |-> f, targets |-> S]

Idle == Serving("idle", NoUser, NoSession, NoToken, NoToken, {})

\* Handlers work on one session, on a token row they read, or on a user.
OnSession(step, u, s) == Serving(step, u, s, NoToken, NoToken, {})
OnToken(step, row) == Serving(step, row.user, row.session, row.id, row.family, {})
OnUser(step, u, S) == Serving(step, u, NoSession, NoToken, NoToken, S)

TypeOK ==
    /\ sessions \subseteq SessionRow
    /\ ended \subseteq Session
    /\ refreshTokens \subseteq TokenRow
    /\ used \subseteq Token
    /\ revoked \subseteq Token
    /\ pending \subseteq Session
    /\ request \in [Request -> Progress]

CreatedSessions == {row.id : row \in sessions}
IssuedTokens == {row.id : row \in refreshTokens}
SessionsOf(u) == {row.id : row \in {x \in sessions : x.user = u}}
OpenSessionsOf(u) == SessionsOf(u) \ ended
TokensOf(u) == {row.id : row \in {x \in refreshTokens : x.user = u}}
Children(t) == {row \in refreshTokens : row.parent = t}

\* Requests that found t unused and have not finished exchanging it.
Holders(t) == {r \in Request : /\ request[r].token = t
                              /\ request[r].step \in {"burn", "check", "rotate"}}

At(r, step) == request[r].step = step
Goto(r, step) == request' = [request EXCEPT ![r].step = step]
Begin(r, progress) == request' = [request EXCEPT ![r] = progress]
Finish(r) == request' = [request EXCEPT ![r] = Idle]

Init ==
    /\ sessions = {}
    /\ ended = {}
    /\ refreshTokens = {}
    /\ used = {}
    /\ revoked = {}
    /\ pending = {}
    /\ request = [r \in Request |-> Idle]

-----------------------------------------------------------------------------
(***************************************************************************)
(* Requests that open a session.                                           *)
(***************************************************************************)

CreateSession(s, u) ==
    /\ s \notin CreatedSessions
    /\ sessions' = sessions \cup {[id |-> s, user |-> u]}

\* The password was right and the user and a membership are active: the
\* session is created; a user with 2FA gets a 2fa_pending JWT for it and no
\* refresh token yet.
Login(r, u, s) ==
    /\ At(r, "idle")
    /\ CreateSession(s, u)
    /\ IF u \in TwoFactorUsers
       THEN pending' = pending \cup {s} /\ UNCHANGED request
       ELSE Begin(r, OnSession("mint", u, s)) /\ UNCHANGED pending
    /\ UNCHANGED <<ended, refreshTokens, used, revoked>>

\* The accepted invite ends in a direct login: no second factor.
AcceptInvite(r, u, s) ==
    /\ At(r, "idle")
    /\ CreateSession(s, u)
    /\ Begin(r, OnSession("mint", u, s))
    /\ UNCHANGED <<ended, refreshTokens, used, revoked, pending>>

\* The 2fa_pending JWT names the session and stays valid until it expires,
\* however often it is presented; the session row is not read again.
VerifyTwoFactor(r, row) ==
    /\ At(r, "idle")
    /\ row \in sessions
    /\ row.id \in pending
    /\ row.user \in TwoFactorUsers
    /\ Begin(r, OnSession("mint", row.user, row.id))
    /\ UNCHANGED tables

ExpirePending(s) ==
    /\ s \in pending
    /\ pending' = pending \ {s}
    /\ UNCHANGED <<sessions, ended, refreshTokens, used, revoked, request>>

\* Mutation: the login forgets familyId.
MintFirstNoFamily(r, t) ==
    /\ At(r, "mint")
    /\ t \notin IssuedTokens
    /\ refreshTokens' = refreshTokens \cup
           {[id |-> t, user |-> request[r].user, session |-> request[r].session,
             family |-> NoToken, parent |-> NoToken]}
    /\ Finish(r)
    /\ UNCHANGED <<sessions, ended, used, revoked, pending>>

\* The first token of a chain is its own family.
MintFirst(r, t) ==
    /\ At(r, "mint")
    /\ t \notin IssuedTokens
    /\ refreshTokens' = refreshTokens \cup
           {[id |-> t, user |-> request[r].user, session |-> request[r].session,
             family |-> t, parent |-> NoToken]}
    /\ Finish(r)
    /\ UNCHANGED <<sessions, ended, used, revoked, pending>>

-----------------------------------------------------------------------------
(***************************************************************************)
(* POST /auth/refresh.                                                     *)
(***************************************************************************)

\* Mutation: usedAt is not looked at.
RefreshFindBlind(r, row) ==
    /\ At(r, "idle")
    /\ row \in refreshTokens
    /\ row.id \notin revoked
    /\ Begin(r, OnToken("burn", row))
    /\ UNCHANGED tables

\* findByHash, and the branch on what the row said at that moment.
RefreshFind(r, row) ==
    /\ At(r, "idle")
    /\ row \in refreshTokens
    /\ row.id \notin revoked
    /\ Begin(r, OnToken(IF row.id \in used THEN "revokeFamily" ELSE "burn", row))
    /\ UNCHANGED tables

RevokeFamily(r) ==
    /\ At(r, "revokeFamily")
    /\ revoked' = revoked \cup
           {row.id : row \in {x \in refreshTokens : x.family = request[r].family}}
    /\ Goto(r, "endReused")
    /\ UNCHANGED <<sessions, ended, refreshTokens, used, pending>>

EndReused(r) ==
    /\ At(r, "endReused")
    /\ ended' = ended \cup {request[r].session}
    /\ Finish(r)
    /\ UNCHANGED <<sessions, refreshTokens, used, revoked, pending>>

\* markUsed is an unconditional update by id.
MarkUsed(r) ==
    /\ At(r, "burn")
    /\ used' = used \cup {request[r].token}
    /\ Goto(r, "check")
    /\ UNCHANGED <<sessions, ended, refreshTokens, revoked, pending>>

\* Mutation: the session row is only looked up, its endedAt ignored.
CheckSessionRowOnly(r) ==
    /\ At(r, "check")
    /\ IF request[r].session \in CreatedSessions
       THEN Goto(r, "rotate")
       ELSE Finish(r)
    /\ UNCHANGED tables

CheckSession(r) ==
    /\ At(r, "check")
    /\ IF request[r].session \in CreatedSessions \ ended
       THEN Goto(r, "rotate")
       ELSE Finish(r)
    /\ UNCHANGED tables

\* Mutation: a rotated token starts a family of its own.
RotateNewFamily(r, t) ==
    /\ At(r, "rotate")
    /\ t \notin IssuedTokens
    /\ refreshTokens' = refreshTokens \cup
           {[id |-> t, user |-> request[r].user, session |-> request[r].session,
             family |-> t, parent |-> request[r].token]}
    /\ Finish(r)
    /\ UNCHANGED <<sessions, ended, used, revoked, pending>>

\* The new token shares family and session with its parent; the touch of
\* lastActiveAt that follows is not modelled.
Rotate(r, t) ==
    /\ At(r, "rotate")
    /\ t \notin IssuedTokens
    /\ refreshTokens' = refreshTokens \cup
           {[id |-> t, user |-> request[r].user, session |-> request[r].session,
             family |-> request[r].family, parent |-> request[r].token]}
    /\ Finish(r)
    /\ UNCHANGED <<sessions, ended, used, revoked, pending>>

-----------------------------------------------------------------------------
(***************************************************************************)
(* Requests that end sessions.                                             *)
(***************************************************************************)

\* POST /auth/logout: the session comes from the access token, the refresh
\* token (if any) from the cookie, and nothing relates the two.
Logout(r, row) ==
    /\ At(r, "idle")
    /\ row \in sessions
    /\ \E cookie \in {{}} \cup {{t} : t \in IssuedTokens} :
           revoked' = revoked \cup cookie
    /\ Begin(r, OnSession("logoutEnd", row.user, row.id))
    /\ UNCHANGED <<sessions, ended, refreshTokens, used, pending>>

LogoutEnd(r) ==
    /\ At(r, "logoutEnd")
    /\ ended' = ended \cup {request[r].session}
    /\ Finish(r)
    /\ UNCHANGED <<sessions, refreshTokens, used, revoked, pending>>

LogoutAll(r, u) ==
    /\ At(r, "idle")
    /\ SessionsOf(u) # {}
    /\ revoked' = revoked \cup TokensOf(u)
    /\ Begin(r, OnUser("logoutAllEnd", u, {}))
    /\ UNCHANGED <<sessions, ended, refreshTokens, used, pending>>

\* Mutation: the update has lost its userId condition.
LogoutAllEndEverywhere(r) ==
    /\ At(r, "logoutAllEnd")
    /\ ended' = ended \cup CreatedSessions
    /\ Finish(r)
    /\ UNCHANGED <<sessions, refreshTokens, used, revoked, pending>>

LogoutAllEnd(r) ==
    /\ At(r, "logoutAllEnd")
    /\ ended' = ended \cup SessionsOf(request[r].user)
    /\ Finish(r)
    /\ UNCHANGED <<sessions, refreshTokens, used, revoked, pending>>

\* One transaction, read committed: the rows its session update locks are
\* those open at that statement, the tokens it revokes those present at the
\* last one, and both show at the commit.  Its update of the user row makes
\* resets of the same user take turns.
ResetPassword(r, u) ==
    /\ At(r, "idle")
    /\ ~\E q \in Request : At(q, "resetCommit") /\ request[q].user = u
    /\ Begin(r, OnUser("resetCommit", u, OpenSessionsOf(u)))
    /\ UNCHANGED tables

ResetCommit(r) ==
    /\ At(r, "resetCommit")
    /\ ended' = ended \cup request[r].targets
    /\ revoked' = revoked \cup TokensOf(request[r].user)
    /\ Finish(r)
    /\ UNCHANGED <<sessions, refreshTokens, used, pending>>

\* The session ids are read first; then the two updates run in parallel, the
\* token update only if there was a session to name.
DeactivateStaff(r, u) ==
    /\ At(r, "idle")
    /\ Begin(r, OnUser(IF OpenSessionsOf(u) = {} THEN "deactivateEnd" ELSE "deactivate",
                       u, OpenSessionsOf(u)))
    /\ UNCHANGED tables

DeactivateEnd(r) ==
    /\ At(r, "deactivate") \/ At(r, "deactivateEnd")
    /\ ended' = ended \cup SessionsOf(request[r].user)
    /\ IF At(r, "deactivate") THEN Goto(r, "deactivateRevoke") ELSE Finish(r)
    /\ UNCHANGED <<sessions, refreshTokens, used, revoked, pending>>

DeactivateRevoke(r) ==
    /\ At(r, "deactivate") \/ At(r, "deactivateRevoke")
    /\ revoked' = revoked \cup {row.id : row \in
           {x \in refreshTokens : x.session \in request[r].targets}}
    /\ IF At(r, "deactivate") THEN Goto(r, "deactivateEnd") ELSE Finish(r)
    /\ UNCHANGED <<sessions, ended, refreshTokens, used, pending>>

\* The process serving r stops, or a statement fails: the rest is never done.
Crash(r) ==
    /\ ~At(r, "idle")
    /\ Finish(r)
    /\ UNCHANGED tables

-----------------------------------------------------------------------------
OpenNext(r) ==
    \/ \E u \in User, s \in Session : Login(r, u, s) \/ AcceptInvite(r, u, s)
    \/ \E row \in sessions : VerifyTwoFactor(r, row)
    \/ \E t \in Token : MintFirst(r, t)

RefreshNext(r) ==
    \/ \E row \in refreshTokens : RefreshFind(r, row)
    \/ RevokeFamily(r)
    \/ EndReused(r)
    \/ MarkUsed(r)
    \/ CheckSession(r)
    \/ \E t \in Token : Rotate(r, t)

EndNext(r) ==
    \/ \E row \in sessions : Logout(r, row)
    \/ LogoutEnd(r)
    \/ \E u \in User : LogoutAll(r, u) \/ ResetPassword(r, u) \/ DeactivateStaff(r, u)
    \/ LogoutAllEnd(r)
    \/ ResetCommit(r)
    \/ DeactivateEnd(r)
    \/ DeactivateRevoke(r)

Next ==
    \/ \E r \in Request : OpenNext(r) \/ RefreshNext(r) \/ EndNext(r) \/ Crash(r)
    \/ \E s \in Session : ExpirePending(s)

Spec == Init /\ [][Next]_vars

-----------------------------------------------------------------------------
(***************************************************************************)
(* Properties.                                                             *)
(***************************************************************************)

\* Ids are primary keys of both tables.
KeysUnique ==
    /\ \A x, y \in sessions : x.id = y.id => x = y
    /\ \A x, y \in refreshTokens : x.id = y.id => x = y

\* Every token belongs to the user of its session, and to a family whose
\* first token is on the same session: revoking a family and ending the
\* session of one of its tokens concern the same login.
FamiliesAreSound ==
    \A row \in refreshTokens :
        /\ \E s \in sessions : s.id = row.session /\ s.user = row.user
        /\ \E root \in refreshTokens :
              /\ root.id = row.family
              /\ root.family = root.id /\ root.parent = NoToken
              /\ root.session = row.session /\ root.user = row.user

\* A token with a successor was burned before the successor existed, in the
\* same family: whoever presents it again is caught (refresh.service.ts:66).
ParentsAreBurned ==
    \A row \in refreshTokens : row.parent # NoToken =>
        /\ row.parent \in used
        /\ \E p \in refreshTokens : p.id = row.parent /\ p.family = row.family

\* The tables stay consistent whichever requests interleave or crash.
RotationChain == KeysUnique /\ FamiliesAreSound /\ ParentsAreBurned

OwnedBy(s, u) == \E row \in sessions : row.id = s /\ row.user = u

\* What a request remembers is still in the tables when it acts on it: rows
\* are never deleted and their keys never change.
RequestSound(r) ==
    /\ request[r].step \in {"mint", "logoutEnd"} =>
           OwnedBy(request[r].session, request[r].user)
    /\ request[r].step \in {"burn", "check", "rotate", "revokeFamily", "endReused"} =>
           \E row \in refreshTokens :
               /\ row.id = request[r].token /\ row.family = request[r].family
               /\ row.session = request[r].session /\ row.user = request[r].user
    /\ request[r].step \in {"check", "rotate"} => request[r].token \in used
    /\ \A s \in request[r].targets : OwnedBy(s, request[r].user)

EndedSessionsExist == ended \subseteq CreatedSessions

\* RotationChain alone is not inductive: a step writes what its request read
\* some steps before.
Consistent ==
    /\ TypeOK
    /\ RotationChain
    /\ EndedSessionsExist
    /\ \A r \in Request : RequestSound(r)

\* However many times a token is presented, the exchanges it got and those
\* still under way never outnumber the requests that can be served at once:
\* every exchange belongs to a request that read the token before its first
\* burn, and whoever comes later is caught (refresh.service.ts:52).
ExchangesBounded ==
    \A t \in Token :
        Cardinality(Children(t)) + Cardinality(Holders(t)) <= Cardinality(Request)

\* A session is ended only by a request that acts for the session's own
\* user, even when the request takes the session from a token row.
EndedOnBehalfOfOwner ==
    [][\A row \in sessions : row.id \in ended' \ ended =>
          \E r \in Request : request[r].user = row.user]_vars

\* Refresh tokens "used EXACTLY ONCE" (refresh.service.ts:25): no token is
\* exchanged twice.
UsedExactlyOnce == \A t \in Token : Cardinality(Children(t)) <= 1

\* The session contract, on the tables: a request is admitted between the
\* read that saw its session open and the insert of the new token.
Contract == INSTANCE SessionContract WITH
    phase <- [s \in Session |-> IF s \notin CreatedSessions THEN "none"
                                ELSE IF s \in ended THEN "ended" ELSE "open"],
    first <- [s \in Session |-> {row.id : row \in
                {x \in refreshTokens : x.session = s /\ x.parent = NoToken}}],
    rotated <- [s \in Session |-> {row.id : row \in
                {x \in refreshTokens : x.session = s /\ x.parent # NoToken}}],
    admitted <- [r \in Request |->
                IF At(r, "rotate") THEN request[r].session ELSE NoSession]

\* Every behaviour of the handlers is one the session contract allows.
KeepsContract == Contract!Spec
=============================================================================
