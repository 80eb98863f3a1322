----------------------- MODULE RefreshRotationProofs -----------------------
(***************************************************************************)
(* For any users, sessions, tokens and requests: the refresh token tables  *)
(* stay consistent, only the owner's requests end a session, and every     *)
(* step of a handler is a step of the session contract.                    *)
(*                                                                         *)
(* Every action is of one of three kinds, and the proof goes by them:      *)
(* it adds a session row, it adds a token row, or it leaves both tables    *)
(* alone and changes marks and one request's progress.                     *)
(***************************************************************************)
EXTENDS RefreshRotation, FiniteSetTheorems, TLAPS

\* The parts of the invariant that speak of tables only.
TablesSound == RotationChain /\ EndedSessionsExist

AllRequestsSound == \A r \in Request : RequestSound(r)

\* The steps of a handler that has read a token row.
TokenSteps == {"burn", "check", "rotate", "revokeFamily", "endReused"}

-----------------------------------------------------------------------------
\* Initially there is no row and every request is idle.
LEMMA InitConsistent == Init => Consistent
<1> SUFFICES ASSUME Init PROVE Consistent
  OBVIOUS
<1>1. TypeOK
  BY DEF Init, TypeOK, Progress, Idle, Serving, Step
<1>2. RotationChain /\ EndedSessionsExist
  BY DEF Init, RotationChain, KeysUnique, FamiliesAreSound, ParentsAreBurned,
         EndedSessionsExist, CreatedSessions
<1>3. AllRequestsSound
  BY DEF Init, AllRequestsSound, RequestSound, Idle, Serving
<1> QED
  BY <1>1, <1>2, <1>3 DEF Consistent, AllRequestsSound

\* A request that the step leaves alone stays sound when rows and burns are
\* only added.
LEMMA OtherRequestsStaySound ==
  ASSUME NEW q \in Request, RequestSound(q), request'[q] = request[q],
         sessions \subseteq sessions', refreshTokens \subseteq refreshTokens',
         used \subseteq used'
  PROVE  RequestSound(q)'
  BY DEF RequestSound, OwnedBy

\* The tables stay sound when rows are left alone and marks only added, the
\* sessions marked as ended being rows of the table.
LEMMA MarksKeepTables ==
  ASSUME TablesSound, UNCHANGED <<sessions, refreshTokens>>,
         used \subseteq used', ended' \subseteq ended \cup CreatedSessions
  PROVE  TablesSound'
<1>1. KeysUnique' /\ FamiliesAreSound'
  BY DEF TablesSound, RotationChain, KeysUnique, FamiliesAreSound
<1>2. ParentsAreBurned'
  BY DEF TablesSound, RotationChain, ParentsAreBurned
<1>3. EndedSessionsExist'
  BY DEF TablesSound, EndedSessionsExist, CreatedSessions
<1> QED
  BY <1>1, <1>2, <1>3 DEF TablesSound, RotationChain

\* A new session row with a fresh id keeps the tables sound.
LEMMA NewSessionKeepsTables ==
  ASSUME TablesSound, NEW u \in User, NEW s \in Session, CreateSession(s, u),
         UNCHANGED <<ended, refreshTokens, used>>
  PROVE  TablesSound' /\ OwnedBy(s, u)'
<1> DEFINE new == [id |-> s, user |-> u]
<1>1. sessions \subseteq sessions' /\ OwnedBy(s, u)'
  <2>1. sessions' = sessions \cup {new}
    BY DEF CreateSession
  <2>2. new \in sessions' /\ new.id = s /\ new.user = u
    BY <2>1
  <2> QED
    BY <2>1, <2>2 DEF OwnedBy
<1>2. KeysUnique'
  BY DEF TablesSound, RotationChain, KeysUnique, CreateSession, CreatedSessions
<1>3. FamiliesAreSound'
  BY <1>1 DEF TablesSound, RotationChain, FamiliesAreSound
<1>4. ParentsAreBurned'
  BY DEF TablesSound, RotationChain, ParentsAreBurned
<1>5. EndedSessionsExist'
  BY <1>1 DEF TablesSound, EndedSessionsExist, CreatedSessions
<1> QED
  BY <1>1, <1>2, <1>3, <1>4, <1>5 DEF TablesSound, RotationChain

\* A new first token on an existing session of its user keeps the tables
\* sound: it is the root of its own family.
LEMMA FirstTokenKeepsTables ==
  ASSUME TypeOK, TablesSound, NEW t \in Token, t \notin IssuedTokens,
         NEW u \in User, NEW s \in Session, OwnedBy(s, u),
         refreshTokens' = refreshTokens \cup
            {[id |-> t, user |-> u, session |-> s, family |-> t, parent |-> NoToken]},
         UNCHANGED <<sessions, ended, used>>
  PROVE  TablesSound'
<1> DEFINE new == [id |-> t, user |-> u, session |-> s, family |-> t, parent |-> NoToken]
<1>1. KeysUnique'
  BY DEF TablesSound, RotationChain, KeysUnique, IssuedTokens
<1>2. FamiliesAreSound'
  <2> SUFFICES ASSUME NEW row \in refreshTokens'
               PROVE  /\ \E x \in sessions : x.id = row.session /\ x.user = row.user
                      /\ \E root \in refreshTokens' :
                            /\ root.id = row.family
                            /\ root.family = root.id /\ root.parent = NoToken
                            /\ root.session = row.session /\ root.user = row.user
    BY DEF FamiliesAreSound
  <2>1. CASE row \in refreshTokens
    BY <2>1 DEF TablesSound, RotationChain, FamiliesAreSound
  <2>2. CASE row = new
    BY <2>2 DEF OwnedBy
  <2> QED
    BY <2>1, <2>2
<1>3. ParentsAreBurned'
  BY DEF TablesSound, RotationChain, ParentsAreBurned
<1>4. EndedSessionsExist'
  BY DEF TablesSound, EndedSessionsExist, CreatedSessions
<1> QED
  BY <1>1, <1>2, <1>3, <1>4 DEF TablesSound, RotationChain

\* A successor of a burned token, on its parent's session, user and family,
\* keeps the tables sound: its family's root is its parent's.
LEMMA SuccessorKeepsTables ==
  ASSUME TypeOK, TablesSound, NEW t \in Token, t \notin IssuedTokens,
         NEW p \in refreshTokens, p.id \in used,
         refreshTokens' = refreshTokens \cup
            {[id |-> t, user |-> p.user, session |-> p.session,
              family |-> p.family, parent |-> p.id]},
         UNCHANGED <<sessions, ended, used>>
  PROVE  TablesSound'
<1> DEFINE new == [id |-> t, user |-> p.user, session |-> p.session,
                   family |-> p.family, parent |-> p.id]
<1>1. KeysUnique'
  BY DEF TablesSound, RotationChain, KeysUnique, IssuedTokens
<1>2. FamiliesAreSound'
  <2> SUFFICES ASSUME NEW row \in refreshTokens'
               PROVE  /\ \E x \in sessions : x.id = row.session /\ x.user = row.user
                      /\ \E root \in refreshTokens' :
                            /\ root.id = row.family
                            /\ root.family = root.id /\ root.parent = NoToken
                            /\ root.session = row.session /\ root.user = row.user
    BY DEF FamiliesAreSound
  <2>1. CASE row \in refreshTokens
    BY <2>1 DEF TablesSound, RotationChain, FamiliesAreSound
  <2>2. CASE row = new
    BY <2>2 DEF TablesSound, RotationChain, FamiliesAreSound
  <2> QED
    BY <2>1, <2>2
<1>3. ParentsAreBurned'
  <2> SUFFICES ASSUME NEW row \in refreshTokens', row.parent # NoToken
               PROVE  /\ row.parent \in used
                      /\ \E q \in refreshTokens' : q.id = row.parent /\ q.family = row.family
    BY DEF ParentsAreBurned
  <2>1. CASE row \in refreshTokens
    BY <2>1 DEF TablesSound, RotationChain, ParentsAreBurned
  <2>2. CASE row = new
    BY <2>2
  <2> QED
    BY <2>1, <2>2
<1>4. EndedSessionsExist'
  BY DEF TablesSound, EndedSessionsExist, CreatedSessions
<1> QED
  BY <1>1, <1>2, <1>3, <1>4 DEF TablesSound, RotationChain

-----------------------------------------------------------------------------
\* A handler at "mint" or "logoutEnd" remembers a session and its owner.
LEMMA SessionHandlers ==
  ASSUME Consistent, NEW r \in Request, request[r].step \in {"mint", "logoutEnd"}
  PROVE  /\ request[r].session \in Session /\ request[r].user \in User
         /\ OwnedBy(request[r].session, request[r].user)
<1>1. OwnedBy(request[r].session, request[r].user)
  BY DEF Consistent, RequestSound
<1> QED
  BY <1>1 DEF OwnedBy, Consistent, TypeOK, SessionRow

\* A refresh that has read a token row remembers that row's columns.
LEMMA TokenHandlers ==
  ASSUME Consistent, NEW r \in Request, request[r].step \in TokenSteps
  PROVE  \E row \in refreshTokens :
            /\ row.id = request[r].token /\ row.family = request[r].family
            /\ row.session = request[r].session /\ row.user = request[r].user
            /\ row \in TokenRow
            /\ OwnedBy(row.session, row.user)
<1>1. PICK row \in refreshTokens :
            /\ row.id = request[r].token /\ row.family = request[r].family
            /\ row.session = request[r].session /\ row.user = request[r].user
  BY DEF Consistent, RequestSound, TokenSteps
<1>2. row \in TokenRow
  BY DEF Consistent, TypeOK
<1>3. OwnedBy(row.session, row.user)
  BY DEF Consistent, RotationChain, FamiliesAreSound, OwnedBy
<1> QED
  BY <1>1, <1>2, <1>3

\* Types: every action stores rows, ids and progress of the declared types.
LEMMA TypePreserved == Consistent /\ [Next]_vars => TypeOK'
<1> SUFFICES ASSUME Consistent, [Next]_vars PROVE TypeOK'
  OBVIOUS
<1> TypeOK
  BY DEF Consistent
<1> USE DEF TypeOK, SessionRow, TokenRow, Progress, Step, Idle, Serving, OnSession,
            OnToken, OnUser, At, Goto, Begin, Finish, tables
<1>1. ASSUME NEW r \in Request, OpenNext(r) PROVE TypeOK'
  <2>1. ASSUME NEW u \in User, NEW s \in Session, Login(r, u, s) PROVE TypeOK'
    BY <2>1 DEF Login, CreateSession
  <2>2. ASSUME NEW u \in User, NEW s \in Session, AcceptInvite(r, u, s) PROVE TypeOK'
    BY <2>2 DEF AcceptInvite, CreateSession
  <2>3. ASSUME NEW row \in sessions, VerifyTwoFactor(r, row) PROVE TypeOK'
    BY <2>3 DEF VerifyTwoFactor
  <2>4. ASSUME NEW t \in Token, MintFirst(r, t) PROVE TypeOK'
    BY <2>4, SessionHandlers DEF MintFirst
  <2> QED
    BY <1>1, <2>1, <2>2, <2>3, <2>4 DEF OpenNext
<1>2. ASSUME NEW r \in Request, RefreshNext(r) PROVE TypeOK'
  <2>1. ASSUME NEW row \in refreshTokens, RefreshFind(r, row) PROVE TypeOK'
    BY <2>1 DEF RefreshFind
  <2>2. CASE RevokeFamily(r)
    BY <2>2 DEF RevokeFamily
  <2>3. CASE EndReused(r)
    BY <2>3, TokenHandlers DEF EndReused, TokenSteps
  <2>4. CASE MarkUsed(r)
    BY <2>4, TokenHandlers DEF MarkUsed, TokenSteps
  <2>5. CASE CheckSession(r)
    BY <2>5 DEF CheckSession
  <2>6. ASSUME NEW t \in Token, Rotate(r, t) PROVE TypeOK'
    BY <2>6, TokenHandlers DEF Rotate, TokenSteps
  <2> QED
    BY <1>2, <2>1, <2>2, <2>3, <2>4, <2>5, <2>6 DEF RefreshNext
<1>3. ASSUME NEW r \in Request, EndNext(r) PROVE TypeOK'
  <2>1. ASSUME NEW row \in sessions, Logout(r, row) PROVE TypeOK'
    BY <2>1 DEF Logout, IssuedTokens
  <2>2. CASE LogoutEnd(r)
    BY <2>2, SessionHandlers DEF LogoutEnd
  <2>3. ASSUME NEW u \in User, LogoutAll(r, u) PROVE TypeOK'
    BY <2>3 DEF LogoutAll, TokensOf
  <2>4. CASE LogoutAllEnd(r)
    BY <2>4 DEF LogoutAllEnd, SessionsOf
  <2>5. ASSUME NEW u \in User, ResetPassword(r, u) PROVE TypeOK'
    BY <2>5 DEF ResetPassword, OpenSessionsOf, SessionsOf
  <2>6. CASE ResetCommit(r)
    BY <2>6 DEF ResetCommit, TokensOf
  <2>7. ASSUME NEW u \in User, DeactivateStaff(r, u) PROVE TypeOK'
    BY <2>7 DEF DeactivateStaff, OpenSessionsOf, SessionsOf
  <2>8. CASE DeactivateEnd(r)
    BY <2>8 DEF DeactivateEnd, SessionsOf
  <2>9. CASE DeactivateRevoke(r)
    BY <2>9 DEF DeactivateRevoke
  <2> QED
    BY <1>3, <2>1, <2>2, <2>3, <2>4, <2>5, <2>6, <2>7, <2>8, <2>9 DEF EndNext
<1>4. ASSUME NEW r \in Request, Crash(r) PROVE TypeOK'
  BY <1>4 DEF Crash
<1>5. ASSUME NEW s \in Session, ExpirePending(s) PROVE TypeOK'
  BY <1>5 DEF ExpirePending
<1>6. CASE UNCHANGED vars
  BY <1>6 DEF vars
<1> QED
  BY <1>1, <1>2, <1>3, <1>4, <1>5, <1>6 DEF Next

-----------------------------------------------------------------------------
\* The tables stay sound under every action.
LEMMA TablesPreserved == Consistent /\ [Next]_vars => TablesSound'
<1> SUFFICES ASSUME Consistent, [Next]_vars PROVE TablesSound'
  OBVIOUS
<1> TypeOK /\ TablesSound
  BY DEF Consistent, TablesSound
<1> USE DEF tables, At
<1>1. ASSUME NEW r \in Request, OpenNext(r) PROVE TablesSound'
  <2>1. ASSUME NEW u \in User, NEW s \in Session, Login(r, u, s) PROVE TablesSound'
    BY <2>1, NewSessionKeepsTables DEF Login
  <2>2. ASSUME NEW u \in User, NEW s \in Session, AcceptInvite(r, u, s) PROVE TablesSound'
    BY <2>2, NewSessionKeepsTables DEF AcceptInvite
  <2>3. ASSUME NEW row \in sessions, VerifyTwoFactor(r, row) PROVE TablesSound'
    BY <2>3, MarksKeepTables DEF VerifyTwoFactor
  <2>4. ASSUME NEW t \in Token, MintFirst(r, t) PROVE TablesSound'
    <3>1. /\ request[r].session \in Session /\ request[r].user \in User
          /\ OwnedBy(request[r].session, request[r].user)
      BY <2>4, SessionHandlers DEF MintFirst
    <3> QED
      BY <2>4, <3>1, FirstTokenKeepsTables DEF MintFirst
  <2> QED
    BY <1>1, <2>1, <2>2, <2>3, <2>4 DEF OpenNext
<1>2. ASSUME NEW r \in Request, RefreshNext(r) PROVE TablesSound'
  <2>1. ASSUME NEW row \in refreshTokens, RefreshFind(r, row) PROVE TablesSound'
    BY <2>1, MarksKeepTables DEF RefreshFind
  <2>2. CASE RevokeFamily(r)
    BY <2>2, MarksKeepTables DEF RevokeFamily
  <2>3. CASE EndReused(r)
    <3>1. request[r].session \in CreatedSessions
      BY <2>3, TokenHandlers DEF EndReused, TokenSteps, OwnedBy, CreatedSessions
    <3> QED
      BY <2>3, <3>1, MarksKeepTables DEF EndReused
  <2>4. CASE MarkUsed(r)
    BY <2>4, MarksKeepTables DEF MarkUsed
  <2>5. CASE CheckSession(r)
    BY <2>5, MarksKeepTables DEF CheckSession
  <2>6. ASSUME NEW t \in Token, Rotate(r, t) PROVE TablesSound'
    <3>1. PICK p \in refreshTokens :
            /\ p.id = request[r].token /\ p.family = request[r].family
            /\ p.session = request[r].session /\ p.user = request[r].user
      BY <2>6, TokenHandlers DEF Rotate, TokenSteps
    <3>2. p.id \in used
      BY <2>6, <3>1 DEF Rotate, Consistent, RequestSound
    <3> QED
      BY <2>6, <3>1, <3>2, SuccessorKeepsTables DEF Rotate
  <2> QED
    BY <1>2, <2>1, <2>2, <2>3, <2>4, <2>5, <2>6 DEF RefreshNext
<1>3. ASSUME NEW r \in Request, EndNext(r) PROVE TablesSound'
  <2>1. ASSUME NEW row \in sessions, Logout(r, row) PROVE TablesSound'
    BY <2>1, MarksKeepTables DEF Logout
  <2>2. CASE LogoutEnd(r)
    <3>1. request[r].session \in CreatedSessions
      BY <2>2, SessionHandlers DEF LogoutEnd, OwnedBy, CreatedSessions
    <3> QED
      BY <2>2, <3>1, MarksKeepTables DEF LogoutEnd
  <2>3. ASSUME NEW u \in User, LogoutAll(r, u) PROVE TablesSound'
    BY <2>3, MarksKeepTables DEF LogoutAll
  <2>4. CASE LogoutAllEnd(r)
    BY <2>4, MarksKeepTables DEF LogoutAllEnd, SessionsOf, CreatedSessions
  <2>5. ASSUME NEW u \in User, ResetPassword(r, u) PROVE TablesSound'
    BY <2>5, MarksKeepTables DEF ResetPassword
  <2>6. CASE ResetCommit(r)
    <3>1. request[r].targets \subseteq CreatedSessions
      BY DEF Consistent, RequestSound, OwnedBy, CreatedSessions
    <3> QED
      BY <2>6, <3>1, MarksKeepTables DEF ResetCommit
  <2>7. ASSUME NEW u \in User, DeactivateStaff(r, u) PROVE TablesSound'
    BY <2>7, MarksKeepTables DEF DeactivateStaff
  <2>8. CASE DeactivateEnd(r)
    BY <2>8, MarksKeepTables DEF DeactivateEnd, SessionsOf, CreatedSessions
  <2>9. CASE DeactivateRevoke(r)
    BY <2>9, MarksKeepTables DEF DeactivateRevoke
  <2> QED
    BY <1>3, <2>1, <2>2, <2>3, <2>4, <2>5, <2>6, <2>7, <2>8, <2>9 DEF EndNext
<1>4. ASSUME NEW r \in Request, Crash(r) PROVE TablesSound'
  BY <1>4, MarksKeepTables DEF Crash
<1>5. ASSUME NEW s \in Session, ExpirePending(s) PROVE TablesSound'
  BY <1>5, MarksKeepTables DEF ExpirePending
<1>6. CASE UNCHANGED vars
  BY <1>6, MarksKeepTables DEF vars
<1> QED
  BY <1>1, <1>2, <1>3, <1>4, <1>5, <1>6 DEF Next

-----------------------------------------------------------------------------
\* No action deletes a row or takes back a burn, and each changes the
\* progress of at most one request.
OnlyAdds ==
    /\ sessions \subseteq sessions'
    /\ refreshTokens \subseteq refreshTokens'
    /\ used \subseteq used'

OnlyMoves(r) == \A q \in Request \ {r} : request'[q] = request[q]

\* It is enough that the request which moved is sound.
LEMMA MovedRequestSuffices ==
  ASSUME Consistent, NEW r \in Request, OnlyAdds, OnlyMoves(r), RequestSound(r)'
  PROVE  AllRequestsSound'
<1> SUFFICES ASSUME NEW q \in Request, q # r PROVE RequestSound(q)'
  BY DEF AllRequestsSound
<1>1. RequestSound(q) /\ request'[q] = request[q]
  BY DEF Consistent, OnlyMoves
<1> QED
  BY <1>1, OtherRequestsStaySound DEF OnlyAdds

\* A request that finished is sound whatever the tables say.
LEMMA FinishedIsSound ==
  ASSUME TypeOK, NEW r \in Request, Finish(r), OnlyAdds
  PROVE  RequestSound(r)' /\ OnlyMoves(r)
  BY DEF Finish, TypeOK, RequestSound, Idle, Serving, OnlyMoves, OnlyAdds

\* Going on to a step that works on the same columns keeps a request sound.
LEMMA GoingOnIsSound ==
  ASSUME Consistent, NEW r \in Request, NEW step \in Step, Goto(r, step), OnlyAdds,
         step \notin {"mint", "logoutEnd"},
         step \in TokenSteps => request[r].step \in TokenSteps,
         step \in {"check", "rotate"} => request[r].token \in used'
  PROVE  RequestSound(r)' /\ OnlyMoves(r)
<1>1. /\ request'[r] = [request[r] EXCEPT !.step = step]
      /\ OnlyMoves(r)
  BY DEF Consistent, TypeOK, Goto, OnlyMoves
<1>2. RequestSound(r) /\ request[r] \in Progress
  BY DEF Consistent, TypeOK
<1> QED
  BY <1>1, <1>2 DEF RequestSound, OwnedBy, OnlyAdds, TokenSteps, Progress

\* A request that begins on a session and its owner, on a token row, or on a
\* user and sessions of that user is sound.
LEMMA BegunIsSound ==
  ASSUME TypeOK, NEW r \in Request, NEW p \in Progress, Begin(r, p),
         p.step \in {"mint", "logoutEnd"} => OwnedBy(p.session, p.user)',
         p.step \in TokenSteps =>
            \E row \in refreshTokens' :
               /\ row.id = p.token /\ row.family = p.family
               /\ row.session = p.session /\ row.user = p.user,
         p.step \notin {"check", "rotate"},
         \A s \in p.targets : OwnedBy(s, p.user)'
  PROVE  RequestSound(r)' /\ OnlyMoves(r)
<1>1. request'[r] = p /\ OnlyMoves(r)
  BY DEF TypeOK, Begin, OnlyMoves
<1> QED
  BY <1>1 DEF RequestSound, TokenSteps

\* The request invariant is preserved by every action.
LEMMA RequestsPreserved == Consistent /\ [Next]_vars => AllRequestsSound'
<1> SUFFICES ASSUME Consistent, [Next]_vars PROVE AllRequestsSound'
  OBVIOUS
<1> TypeOK /\ AllRequestsSound
  BY DEF Consistent, AllRequestsSound
<1> USE DEF tables, At, OnlyAdds
<1>1. ASSUME NEW r \in Request, OpenNext(r) PROVE AllRequestsSound'
  <2>1. ASSUME NEW u \in User, NEW s \in Session, Login(r, u, s)
        PROVE  AllRequestsSound'
    <3>1. OnlyAdds /\ OwnedBy(s, u)'
      BY <2>1, NewSessionKeepsTables DEF Login, CreateSession, Consistent, TablesSound
    <3>2. CASE Begin(r, OnSession("mint", u, s))
      <4>1. OnSession("mint", u, s) \in Progress
        BY DEF OnSession, Serving, Progress, Step
      <4>2. RequestSound(r)' /\ OnlyMoves(r)
        BY <3>1, <3>2, <4>1, BegunIsSound DEF OnSession, Serving, TokenSteps
      <4> QED
        BY <3>1, <4>2, MovedRequestSuffices
    <3>3. CASE UNCHANGED request
      BY <3>1, <3>3, OtherRequestsStaySound DEF AllRequestsSound
    <3> QED
      BY <2>1, <3>2, <3>3 DEF Login
  <2>2. ASSUME NEW u \in User, NEW s \in Session, AcceptInvite(r, u, s)
        PROVE  AllRequestsSound'
    <3>1. OnlyAdds /\ OwnedBy(s, u)'
      BY <2>2, NewSessionKeepsTables
         DEF AcceptInvite, CreateSession, Consistent, TablesSound
    <3>2. OnSession("mint", u, s) \in Progress
      BY DEF OnSession, Serving, Progress, Step
    <3>3. RequestSound(r)' /\ OnlyMoves(r)
      BY <2>2, <3>1, <3>2, BegunIsSound
         DEF AcceptInvite, OnSession, Serving, TokenSteps
    <3> QED
      BY <3>1, <3>3, MovedRequestSuffices
  <2>3. ASSUME NEW row \in sessions, VerifyTwoFactor(r, row) PROVE AllRequestsSound'
    <3>1. OnSession("mint", row.user, row.id) \in Progress /\ OnlyAdds
      BY <2>3 DEF VerifyTwoFactor, OnSession, Serving, Progress, Step, TypeOK, SessionRow
    <3>2. OwnedBy(row.id, row.user)'
      BY <2>3 DEF VerifyTwoFactor, OwnedBy
    <3>3. RequestSound(r)' /\ OnlyMoves(r)
      BY <2>3, <3>1, <3>2, BegunIsSound
         DEF VerifyTwoFactor, OnSession, Serving, TokenSteps
    <3> QED
      BY <3>1, <3>3, MovedRequestSuffices
  <2>4. ASSUME NEW t \in Token, MintFirst(r, t) PROVE AllRequestsSound'
    BY <2>4, FinishedIsSound, MovedRequestSuffices DEF MintFirst
  <2> QED
    BY <1>1, <2>1, <2>2, <2>3, <2>4 DEF OpenNext
<1>2. ASSUME NEW r \in Request, RefreshNext(r) PROVE AllRequestsSound'
  <2>1. ASSUME NEW row \in refreshTokens, RefreshFind(r, row) PROVE AllRequestsSound'
    <3> DEFINE step == IF row.id \in used THEN "revokeFamily" ELSE "burn"
    <3>1. OnToken(step, row) \in Progress /\ OnlyAdds
      BY <2>1 DEF RefreshFind, OnToken, Serving, Progress, Step, TypeOK, TokenRow
    <3>2. RequestSound(r)' /\ OnlyMoves(r)
      BY <2>1, <3>1, BegunIsSound DEF RefreshFind, OnToken, Serving, TokenSteps
    <3> QED
      BY <3>1, <3>2, MovedRequestSuffices
  <2>2. CASE RevokeFamily(r)
    BY <2>2, GoingOnIsSound, MovedRequestSuffices DEF RevokeFamily, Step, TokenSteps
  <2>3. CASE EndReused(r)
    BY <2>3, FinishedIsSound, MovedRequestSuffices DEF EndReused
  <2>4. CASE MarkUsed(r)
    BY <2>4, GoingOnIsSound, MovedRequestSuffices DEF MarkUsed, Step, TokenSteps
  <2>5. CASE CheckSession(r)
    <3>1. OnlyAdds /\ request[r].token \in used'
      BY <2>5 DEF CheckSession, Consistent, RequestSound
    <3>2. CASE Goto(r, "rotate")
      BY <2>5, <3>1, <3>2, GoingOnIsSound, MovedRequestSuffices
         DEF CheckSession, Step, TokenSteps
    <3>3. CASE Finish(r)
      BY <3>1, <3>3, FinishedIsSound, MovedRequestSuffices
    <3> QED
      BY <2>5, <3>2, <3>3 DEF CheckSession
  <2>6. ASSUME NEW t \in Token, Rotate(r, t) PROVE AllRequestsSound'
    BY <2>6, FinishedIsSound, MovedRequestSuffices DEF Rotate
  <2> QED
    BY <1>2, <2>1, <2>2, <2>3, <2>4, <2>5, <2>6 DEF RefreshNext
<1>3. ASSUME NEW r \in Request, EndNext(r) PROVE AllRequestsSound'
  <2>1. ASSUME NEW row \in sessions, Logout(r, row) PROVE AllRequestsSound'
    <3>1. OnSession("logoutEnd", row.user, row.id) \in Progress /\ OnlyAdds
      BY <2>1 DEF Logout, OnSession, Serving, Progress, Step, TypeOK, SessionRow
    <3>2. OwnedBy(row.id, row.user)'
      BY <2>1 DEF Logout, OwnedBy
    <3>3. RequestSound(r)' /\ OnlyMoves(r)
      BY <2>1, <3>1, <3>2, BegunIsSound DEF Logout, OnSession, Serving, TokenSteps
    <3> QED
      BY <3>1, <3>3, MovedRequestSuffices
  <2>2. CASE LogoutEnd(r)
    BY <2>2, FinishedIsSound, MovedRequestSuffices DEF LogoutEnd
  <2>3. ASSUME NEW u \in User, LogoutAll(r, u) PROVE AllRequestsSound'
    <3>1. OnUser("logoutAllEnd", u, {}) \in Progress /\ OnlyAdds
      BY <2>3 DEF LogoutAll, OnUser, Serving, Progress, Step
    <3>2. RequestSound(r)' /\ OnlyMoves(r)
      BY <2>3, <3>1, BegunIsSound DEF LogoutAll, OnUser, Serving, TokenSteps
    <3> QED
      BY <3>1, <3>2, MovedRequestSuffices
  <2>4. CASE LogoutAllEnd(r)
    BY <2>4, FinishedIsSound, MovedRequestSuffices DEF LogoutAllEnd
  <2>5. ASSUME NEW u \in User, ResetPassword(r, u) PROVE AllRequestsSound'
    <3>1. OnUser("resetCommit", u, OpenSessionsOf(u)) \in Progress /\ OnlyAdds
      BY <2>5 DEF ResetPassword, OnUser, Serving, Progress, Step, OpenSessionsOf,
                  SessionsOf, TypeOK, SessionRow
    <3>2. \A s \in OpenSessionsOf(u) : OwnedBy(s, u)'
      BY <2>5 DEF ResetPassword, OpenSessionsOf, SessionsOf, OwnedBy
    <3>3. RequestSound(r)' /\ OnlyMoves(r)
      BY <2>5, <3>1, <3>2, BegunIsSound DEF ResetPassword, OnUser, Serving, TokenSteps
    <3> QED
      BY <3>1, <3>3, MovedRequestSuffices
  <2>6. CASE ResetCommit(r)
    BY <2>6, FinishedIsSound, MovedRequestSuffices DEF ResetCommit
  <2>7. ASSUME NEW u \in User, DeactivateStaff(r, u) PROVE AllRequestsSound'
    <3> DEFINE step == IF OpenSessionsOf(u) = {} THEN "deactivateEnd" ELSE "deactivate"
    <3>1. OnUser(step, u, OpenSessionsOf(u)) \in Progress /\ OnlyAdds
      BY <2>7 DEF DeactivateStaff, OnUser, Serving, Progress, Step, OpenSessionsOf,
                  SessionsOf, TypeOK, SessionRow
    <3>2. \A s \in OpenSessionsOf(u) : OwnedBy(s, u)'
      BY <2>7 DEF DeactivateStaff, OpenSessionsOf, SessionsOf, OwnedBy
    <3>3. RequestSound(r)' /\ OnlyMoves(r)
      BY <2>7, <3>1, <3>2, BegunIsSound
         DEF DeactivateStaff, OnUser, Serving, TokenSteps
    <3> QED
      BY <3>1, <3>3, MovedRequestSuffices
  <2>8. CASE DeactivateEnd(r)
    <3>1. CASE Goto(r, "deactivateRevoke")
      BY <2>8, <3>1, GoingOnIsSound, MovedRequestSuffices
         DEF DeactivateEnd, Step, TokenSteps
    <3>2. CASE Finish(r)
      BY <2>8, <3>2, FinishedIsSound, MovedRequestSuffices DEF DeactivateEnd
    <3> QED
      BY <2>8, <3>1, <3>2 DEF DeactivateEnd
  <2>9. CASE DeactivateRevoke(r)
    <3>1. CASE Goto(r, "deactivateEnd")
      BY <2>9, <3>1, GoingOnIsSound, MovedRequestSuffices
         DEF DeactivateRevoke, Step, TokenSteps
    <3>2. CASE Finish(r)
      BY <2>9, <3>2, FinishedIsSound, MovedRequestSuffices DEF DeactivateRevoke
    <3> QED
      BY <2>9, <3>1, <3>2 DEF DeactivateRevoke
  <2> QED
    BY <1>3, <2>1, <2>2, <2>3, <2>4, <2>5, <2>6, <2>7, <2>8, <2>9 DEF EndNext
<1>4. ASSUME NEW r \in Request, Crash(r) PROVE AllRequestsSound'
  BY <1>4, FinishedIsSound, MovedRequestSuffices DEF Crash
<1>5. ASSUME NEW s \in Session, ExpirePending(s) PROVE AllRequestsSound'
  BY <1>5, OtherRequestsStaySound DEF ExpirePending, AllRequestsSound
<1>6. CASE UNCHANGED vars
  BY <1>6, OtherRequestsStaySound DEF vars, AllRequestsSound
<1> QED
  BY <1>1, <1>2, <1>3, <1>4, <1>5, <1>6 DEF Next

-----------------------------------------------------------------------------
\* The tables, their marks and what every request remembers stay consistent.
THEOREM ConsistentAlways == Spec => []Consistent
<1>1. Consistent /\ [Next]_vars => Consistent'
  BY TypePreserved, TablesPreserved, RequestsPreserved
     DEF Consistent, TablesSound, AllRequestsSound
<1> QED
  BY InitConsistent, <1>1, PTL DEF Spec

\* Every variable keeps its type.
THEOREM TypeCorrect == Spec => []TypeOK
<1>1. Consistent => TypeOK
  BY DEF Consistent
<1> QED
  BY ConsistentAlways, <1>1, PTL

\* The rotation chains of refresh.service.ts are sound for any number of
\* users, sessions, tokens and concurrent requests, crashes included.
THEOREM RotationChainAlways == Spec => []RotationChain
<1>1. Consistent => RotationChain
  BY DEF Consistent
<1> QED
  BY ConsistentAlways, <1>1, PTL

-----------------------------------------------------------------------------
\* Two owners of one session id are the same user.
LEMMA OneOwner ==
  ASSUME Consistent, NEW u, NEW row \in sessions, OwnedBy(row.id, u)
  PROVE  row.user = u
  BY DEF Consistent, RotationChain, KeysUnique, OwnedBy

\* No request ever ends a session of another user than the one it acts for,
\* although refresh and logout take the session from what they were given.
THEOREM OnlyOwnersEnd == Spec => EndedOnBehalfOfOwner
<1> DEFINE Acting(row) == \E r \in Request : request[r].user = row.user
<1>1. ASSUME Consistent, [Next]_vars, NEW row \in sessions, row.id \in ended' \ ended
      PROVE  Acting(row)
  <2> USE DEF tables, At
  <2>1. ASSUME NEW r \in Request, OpenNext(r) PROVE FALSE
    BY <1>1, <2>1 DEF OpenNext, Login, AcceptInvite, VerifyTwoFactor, MintFirst
  <2>2. ASSUME NEW r \in Request, RefreshNext(r) PROVE Acting(row)
    <3>1. EndReused(r)
      BY <1>1, <2>2 DEF RefreshNext, RefreshFind, RevokeFamily, MarkUsed, CheckSession,
                        Rotate
    <3>2. OwnedBy(row.id, request[r].user)
      BY <1>1, <3>1, TokenHandlers DEF EndReused, TokenSteps
    <3> QED
      BY <1>1, <3>2, OneOwner
  <2>3. ASSUME NEW r \in Request, EndNext(r) PROVE Acting(row)
    <3>1. CASE LogoutEnd(r)
      <4>1. OwnedBy(row.id, request[r].user)
        BY <1>1, <3>1, SessionHandlers DEF LogoutEnd
      <4> QED
        BY <1>1, <4>1, OneOwner
    <3>2. CASE row.id \in SessionsOf(request[r].user)
      <4>1. OwnedBy(row.id, request[r].user)
        BY <3>2 DEF SessionsOf, OwnedBy
      <4> QED
        BY <1>1, <4>1, OneOwner
    <3>3. CASE ResetCommit(r)
      <4>1. OwnedBy(row.id, request[r].user)
        BY <1>1, <3>3 DEF ResetCommit, Consistent, RequestSound
      <4> QED
        BY <1>1, <4>1, OneOwner
    <3> QED
      BY <1>1, <2>3, <3>1, <3>2, <3>3
         DEF EndNext, Logout, LogoutAll, LogoutAllEnd, ResetPassword, DeactivateStaff,
             DeactivateEnd, DeactivateRevoke
  <2> QED
    BY <1>1, <2>1, <2>2, <2>3 DEF Next, Crash, ExpirePending, vars
<1>2. Consistent /\ [Next]_vars =>
         [\A row \in sessions : row.id \in ended' \ ended => Acting(row)]_vars
  BY <1>1
<1> QED
  BY ConsistentAlways, <1>2, PTL DEF Spec, EndedOnBehalfOfOwner

-----------------------------------------------------------------------------
(***************************************************************************)
(* The handlers implement the session contract.  Barred variables are      *)
(* those of the contract under the mapping of module RefreshRotation.      *)
(***************************************************************************)
PhaseBar == [s \in Session |-> IF s \notin CreatedSessions THEN "none"
                               ELSE IF s \in ended THEN "ended" ELSE "open"]
FirstBar == [s \in Session |-> {row.id : row \in
               {x \in refreshTokens : x.session = s /\ x.parent = NoToken}}]
RotatedBar == [s \in Session |-> {row.id : row \in
                 {x \in refreshTokens : x.session = s /\ x.parent # NoToken}}]
AdmittedBar == [r \in Request |->
                  IF At(r, "rotate") THEN request[r].session ELSE NoSession]

\* A token id the contract counts as granted is one of the table.
LEMMA GrantedAreIssued ==
  Contract!Granted \subseteq IssuedTokens
  BY DEF Contract!Granted, IssuedTokens

\* Steps that leave the rows alone and end only existing sessions of which
\* none is being admitted are End steps of the contract, or stutter.
LEMMA EndStep ==
  ASSUME Consistent, UNCHANGED <<sessions, refreshTokens>>,
         NEW S \in SUBSET CreatedSessions, ended' = ended \cup S,
         AdmittedBar' = AdmittedBar
  PROVE  Contract!End(S)
<1>1. S \subseteq Session /\ CreatedSessions \subseteq Session /\ CreatedSessions' = CreatedSessions
  BY DEF Consistent, TypeOK, SessionRow, CreatedSessions
<1>2. \A s \in S : PhaseBar[s] # "none"
  BY <1>1 DEF PhaseBar
<1>3. PhaseBar' = [s \in Session |-> IF s \in S THEN "ended" ELSE PhaseBar[s]]
  BY <1>1 DEF PhaseBar
<1>4. UNCHANGED <<FirstBar, RotatedBar, AdmittedBar>>
  BY DEF FirstBar, RotatedBar
<1> QED
  BY <1>2, <1>3, <1>4 DEF Contract!End, PhaseBar, FirstBar, RotatedBar, AdmittedBar

\* A step that adds no row and ends no session is a stutter of the contract
\* when it admits nobody.
LEMMA StutterStep ==
  ASSUME UNCHANGED <<sessions, refreshTokens, ended>>, AdmittedBar' = AdmittedBar
  PROVE  UNCHANGED Contract!contractVars
<1>1. UNCHANGED <<PhaseBar, FirstBar, RotatedBar>>
  BY DEF PhaseBar, FirstBar, RotatedBar, CreatedSessions
<1> QED
  BY <1>1 DEF Contract!contractVars, PhaseBar, FirstBar, RotatedBar, AdmittedBar

\* A request moving between steps other than "rotate" admits nobody.
LEMMA NobodyAdmitted ==
  ASSUME TypeOK, NEW r \in Request, NEW p, Begin(r, p), request[r].step # "rotate",
         p.step # "rotate"
  PROVE  AdmittedBar' = AdmittedBar
  BY DEF TypeOK, Begin, AdmittedBar, At

\* The same for Goto and Finish.
LEMMA NobodyAdmittedOnTheWay ==
  ASSUME TypeOK, NEW r \in Request, request[r].step # "rotate",
         Finish(r) \/ \E step \in Step \ {"rotate"} : Goto(r, step)
  PROVE  AdmittedBar' = AdmittedBar
<1>1. CASE Finish(r)
  <2>1. Begin(r, Idle)
    BY <1>1 DEF Finish, Begin
  <2>2. Idle.step # "rotate"
    BY DEF Idle, Serving
  <2> QED
    BY <2>1, <2>2, NobodyAdmitted
<1>2. ASSUME NEW step \in Step \ {"rotate"}, Goto(r, step) PROVE AdmittedBar' = AdmittedBar
  <2>1. Begin(r, [request[r] EXCEPT !.step = step])
    BY <1>2 DEF Goto, Begin
  <2>2. [request[r] EXCEPT !.step = step].step # "rotate"
    BY <1>2 DEF TypeOK, Progress
  <2> QED
    BY <2>1, <2>2, NobodyAdmitted
<1> QED
  BY <1>1, <1>2

\* Creating a session opens it.
LEMMA OpenStep ==
  ASSUME Consistent, NEW u \in User, NEW s \in Session, CreateSession(s, u),
         UNCHANGED <<ended, refreshTokens>>, AdmittedBar' = AdmittedBar
  PROVE  Contract!Open(s)
<1>1. CreatedSessions' = CreatedSessions \cup {s} /\ s \notin CreatedSessions
  <2> DEFINE new == [id |-> s, user |-> u]
  <2>1. sessions' = sessions \cup {new} /\ new.id = s
    BY DEF CreateSession
  <2> QED
    BY <2>1 DEF CreateSession, CreatedSessions
<1>2. s \notin ended
  BY <1>1 DEF Consistent, EndedSessionsExist
<1>3. PhaseBar[s] = "none" /\ PhaseBar' = [PhaseBar EXCEPT ![s] = "open"]
  BY <1>1, <1>2 DEF PhaseBar
<1>4. UNCHANGED <<FirstBar, RotatedBar>>
  BY DEF FirstBar, RotatedBar
<1> QED
  BY <1>3, <1>4 DEF Contract!Open, PhaseBar, FirstBar, RotatedBar, AdmittedBar

\* Minting the first token of a chain is a first grant.
LEMMA MintStep ==
  ASSUME Consistent, NEW r \in Request, NEW t \in Token, MintFirst(r, t),
         NEW s \in Session, s = request[r].session
  PROVE  Contract!GrantFirst(s, t)
<1> DEFINE new == [id |-> t, user |-> request[r].user, session |-> s,
                   family |-> t, parent |-> NoToken]
<1>1. s \in Session /\ s \in CreatedSessions
  BY SessionHandlers DEF MintFirst, At, OwnedBy, CreatedSessions
<1>2. PhaseBar[s] # "none"
  BY <1>1 DEF PhaseBar
<1>3. t \notin Contract!Granted
  BY GrantedAreIssued DEF MintFirst
<1>4. refreshTokens' = refreshTokens \cup {new}
  BY DEF MintFirst
<1>5. FirstBar' = [FirstBar EXCEPT ![s] = @ \cup {t}]
  <2>1. \A x \in Session : FirstBar'[x] = IF x = s THEN FirstBar[x] \cup {t} ELSE FirstBar[x]
    <3>1. new \in refreshTokens' /\ new.id = t /\ new.session = s /\ new.parent = NoToken
      BY <1>4
    <3>2. ASSUME NEW x \in Session, x # s PROVE FirstBar'[x] = FirstBar[x]
      BY <1>4, <3>1, <3>2 DEF FirstBar
    <3>3. FirstBar'[s] = FirstBar[s] \cup {t}
      <4> HIDE DEF new
      <4>1. {y \in refreshTokens' : y.session = s /\ y.parent = NoToken}
              = {y \in refreshTokens : y.session = s /\ y.parent = NoToken} \cup {new}
        BY <1>4, <3>1
      <4> QED
        BY <1>1, <3>1, <4>1 DEF FirstBar
    <3> QED
      BY <3>2, <3>3
  <2> QED
    BY <1>1, <2>1 DEF FirstBar
<1>6. UNCHANGED <<PhaseBar, RotatedBar>>
  BY <1>4 DEF PhaseBar, RotatedBar, MintFirst, CreatedSessions
<1>7. UNCHANGED AdmittedBar
  BY NobodyAdmittedOnTheWay DEF MintFirst, At, Consistent
<1> QED
  BY <1>2, <1>3, <1>5, <1>6, <1>7
     DEF Contract!GrantFirst, PhaseBar, FirstBar, RotatedBar, AdmittedBar

\* The session read that lets a refresh through admits it.
LEMMA AdmitStep ==
  ASSUME Consistent, NEW r \in Request, CheckSession(r),
         NEW s \in Session, s = request[r].session
  PROVE  UNCHANGED Contract!contractVars \/ Contract!Admit(r, s)
<1>1. CASE Finish(r)
  <2>1. UNCHANGED AdmittedBar
    BY <1>1, NobodyAdmittedOnTheWay DEF CheckSession, At, Consistent
  <2> QED
    BY <2>1, StutterStep DEF CheckSession, tables
<1>2. CASE s \in CreatedSessions \ ended /\ Goto(r, "rotate")
  <2>2. AdmittedBar[r] = NoSession /\ PhaseBar[s] = "open"
    BY <1>2 DEF CheckSession, AdmittedBar, PhaseBar, At
  <2>3. AdmittedBar' = [AdmittedBar EXCEPT ![r] = s]
    BY <1>2 DEF Goto, AdmittedBar, At, Consistent, TypeOK, Progress
  <2>4. UNCHANGED <<PhaseBar, FirstBar, RotatedBar>>
    BY DEF CheckSession, tables, PhaseBar, FirstBar, RotatedBar, CreatedSessions
  <2> QED
    BY <2>2, <2>3, <2>4 DEF Contract!Admit, PhaseBar, FirstBar, RotatedBar, AdmittedBar
<1> QED
  BY <1>1, <1>2 DEF CheckSession

\* The insert of a successor is a rotation on the admitted session.
LEMMA RotateStep ==
  ASSUME Consistent, NEW r \in Request, NEW t \in Token, Rotate(r, t)
  PROVE  Contract!Rotate(r, t)
<1> DEFINE s == request[r].session
           new == [id |-> t, user |-> request[r].user, session |-> s,
                   family |-> request[r].family, parent |-> request[r].token]
<1>1. s \in Session /\ request[r].token \in Token
  BY TokenHandlers DEF Rotate, At, TokenSteps, TokenRow
<1>2. AdmittedBar[r] = s /\ s # NoSession
  BY <1>1, NullAssumption DEF Rotate, AdmittedBar, At
<1>3. t \notin Contract!Granted
  BY GrantedAreIssued DEF Rotate
<1>4. refreshTokens' = refreshTokens \cup {new} /\ new.parent # NoToken
  BY <1>1, NullAssumption DEF Rotate
<1>5. RotatedBar' = [RotatedBar EXCEPT ![s] = @ \cup {t}]
  <2>1. \A x \in Session :
           RotatedBar'[x] = IF x = s THEN RotatedBar[x] \cup {t} ELSE RotatedBar[x]
    <3>1. new \in refreshTokens' /\ new.id = t /\ new.session = s /\ new.parent # NoToken
      BY <1>4
    <3>2. ASSUME NEW x \in Session, x # s PROVE RotatedBar'[x] = RotatedBar[x]
      BY <1>4, <3>1, <3>2 DEF RotatedBar
    <3>3. RotatedBar'[s] = RotatedBar[s] \cup {t}
      <4> HIDE DEF new
      <4>1. {y \in refreshTokens' : y.session = s /\ y.parent # NoToken}
              = {y \in refreshTokens : y.session = s /\ y.parent # NoToken} \cup {new}
        BY <1>4, <3>1
      <4> QED
        BY <1>1, <3>1, <4>1 DEF RotatedBar
    <3> QED
      BY <3>2, <3>3
  <2> QED
    BY <1>1, <2>1 DEF RotatedBar
<1>6. UNCHANGED <<PhaseBar, FirstBar>>
  BY <1>4 DEF PhaseBar, FirstBar, Rotate, CreatedSessions
<1>7. AdmittedBar' = [AdmittedBar EXCEPT ![r] = NoSession]
  BY DEF Rotate, Finish, Idle, Serving, AdmittedBar, At, Consistent, TypeOK
<1> QED
  BY <1>2, <1>3, <1>5, <1>6, <1>7
     DEF Contract!Rotate, PhaseBar, FirstBar, RotatedBar, AdmittedBar

\* A request that is dropped withdraws its admission, if it had one.
LEMMA CrashStep ==
  ASSUME Consistent, NEW r \in Request, Crash(r)
  PROVE  UNCHANGED Contract!contractVars \/ Contract!Withdraw(r)
<1>1. CASE request[r].step # "rotate"
  BY <1>1, NobodyAdmittedOnTheWay, StutterStep DEF Crash, tables, Consistent
<1>2. CASE request[r].step = "rotate"
  <2>1. request[r].session \in Session
    BY <1>2, TokenHandlers DEF TokenSteps, TokenRow
  <2>2. AdmittedBar[r] # NoSession
    BY <1>2, <2>1, NullAssumption DEF AdmittedBar, At
  <2>3. AdmittedBar' = [AdmittedBar EXCEPT ![r] = NoSession]
    BY DEF Crash, Finish, Idle, Serving, AdmittedBar, At, Consistent, TypeOK
  <2>4. UNCHANGED <<PhaseBar, FirstBar, RotatedBar>>
    BY DEF Crash, tables, PhaseBar, FirstBar, RotatedBar, CreatedSessions
  <2> QED
    BY <2>2, <2>3, <2>4
       DEF Contract!Withdraw, PhaseBar, FirstBar, RotatedBar, AdmittedBar
<1> QED
  BY <1>1, <1>2

\* Every step of the handlers is a step of the contract or a stutter.
LEMMA StepSimulation ==
  ASSUME Consistent, [Next]_vars
  PROVE  [Contract!Next]_(Contract!contractVars)
<1> TypeOK
  BY DEF Consistent
<1> DEFINE Simulated == Contract!Next \/ UNCHANGED Contract!contractVars
<1> SUFFICES Simulated
  OBVIOUS
<1> USE DEF tables, At
<1>1. ASSUME NEW r \in Request, OpenNext(r) PROVE Simulated
  <2>1. ASSUME NEW u \in User, NEW s \in Session, Login(r, u, s) PROVE Simulated
    <3>1. UNCHANGED AdmittedBar
      BY <2>1, NobodyAdmitted DEF Login, OnSession, Serving, AdmittedBar
    <3> QED
      BY <2>1, <3>1, OpenStep DEF Login, Contract!Next
  <2>2. ASSUME NEW u \in User, NEW s \in Session, AcceptInvite(r, u, s) PROVE Simulated
    <3>1. UNCHANGED AdmittedBar
      BY <2>2, NobodyAdmitted DEF AcceptInvite, OnSession, Serving
    <3> QED
      BY <2>2, <3>1, OpenStep DEF AcceptInvite, Contract!Next
  <2>3. ASSUME NEW row \in sessions, VerifyTwoFactor(r, row) PROVE Simulated
    <3>1. UNCHANGED AdmittedBar
      BY <2>3, NobodyAdmitted DEF VerifyTwoFactor, OnSession, Serving
    <3> QED
      BY <2>3, <3>1, StutterStep DEF VerifyTwoFactor
  <2>4. ASSUME NEW t \in Token, MintFirst(r, t) PROVE Simulated
    <3>1. PICK s \in Session : s = request[r].session
      BY <2>4, SessionHandlers DEF MintFirst
    <3> QED
      BY <2>4, <3>1, MintStep DEF Contract!Next
  <2> QED
    BY <1>1, <2>1, <2>2, <2>3, <2>4 DEF OpenNext
<1>2. ASSUME NEW r \in Request, RefreshNext(r) PROVE Simulated
  <2>1. ASSUME NEW row \in refreshTokens, RefreshFind(r, row) PROVE Simulated
    <3>1. UNCHANGED AdmittedBar
      BY <2>1, NobodyAdmitted DEF RefreshFind, OnToken, Serving
    <3> QED
      BY <2>1, <3>1, StutterStep DEF RefreshFind
  <2>2. CASE RevokeFamily(r)
    BY <2>2, NobodyAdmittedOnTheWay, StutterStep DEF RevokeFamily, Step
  <2>3. CASE EndReused(r)
    <3>1. UNCHANGED AdmittedBar
      BY <2>3, NobodyAdmittedOnTheWay DEF EndReused
    <3>2. PICK S \in SUBSET CreatedSessions : S = {request[r].session}
      BY <2>3, TokenHandlers DEF EndReused, TokenSteps, OwnedBy, CreatedSessions
    <3>3. Contract!End(S) /\ S \in SUBSET Session
      BY <2>3, <3>1, <3>2, EndStep
         DEF EndReused, CreatedSessions, TypeOK, SessionRow
    <3> QED
      BY <3>3 DEF Contract!Next
  <2>4. CASE MarkUsed(r)
    BY <2>4, NobodyAdmittedOnTheWay, StutterStep DEF MarkUsed, Step
  <2>5. CASE CheckSession(r)
    <3>1. PICK s \in Session : s = request[r].session
      BY <2>5, TokenHandlers DEF CheckSession, TokenSteps, TokenRow
    <3> QED
      BY <2>5, <3>1, AdmitStep DEF Contract!Next
  <2>6. ASSUME NEW t \in Token, Rotate(r, t) PROVE Simulated
    BY <2>6, RotateStep DEF Contract!Next
  <2> QED
    BY <1>2, <2>1, <2>2, <2>3, <2>4, <2>5, <2>6 DEF RefreshNext
<1>3. ASSUME NEW r \in Request, EndNext(r) PROVE Simulated
  <2>0. CreatedSessions \subseteq Session /\ \A u : SessionsOf(u) \subseteq CreatedSessions
    BY DEF TypeOK, SessionRow, CreatedSessions, SessionsOf
  <2>1. ASSUME NEW row \in sessions, Logout(r, row) PROVE Simulated
    <3>1. UNCHANGED AdmittedBar
      BY <2>1, NobodyAdmitted DEF Logout, OnSession, Serving
    <3> QED
      BY <2>1, <3>1, StutterStep DEF Logout
  <2>2. CASE LogoutEnd(r)
    <3>1. UNCHANGED AdmittedBar
      BY <2>2, NobodyAdmittedOnTheWay DEF LogoutEnd
    <3>2. PICK S \in SUBSET CreatedSessions : S = {request[r].session}
      BY <2>2, SessionHandlers DEF LogoutEnd, OwnedBy, CreatedSessions
    <3>3. Contract!End(S)
      BY <2>2, <3>1, <3>2, EndStep DEF LogoutEnd
    <3> QED
      BY <2>0, <3>2, <3>3 DEF Contract!Next
  <2>3. ASSUME NEW u \in User, LogoutAll(r, u) PROVE Simulated
    <3>1. UNCHANGED AdmittedBar
      BY <2>3, NobodyAdmitted DEF LogoutAll, OnUser, Serving
    <3> QED
      BY <2>3, <3>1, StutterStep DEF LogoutAll
  <2>4. CASE LogoutAllEnd(r)
    <3>1. UNCHANGED AdmittedBar
      BY <2>4, NobodyAdmittedOnTheWay DEF LogoutAllEnd
    <3>2. PICK S \in SUBSET CreatedSessions : S = SessionsOf(request[r].user)
      BY <2>0
    <3>3. Contract!End(S)
      BY <2>4, <3>1, <3>2, EndStep DEF LogoutAllEnd
    <3> QED
      BY <2>0, <3>2, <3>3 DEF Contract!Next
  <2>5. ASSUME NEW u \in User, ResetPassword(r, u) PROVE Simulated
    <3>1. UNCHANGED AdmittedBar
      BY <2>5, NobodyAdmitted DEF ResetPassword, OnUser, Serving
    <3> QED
      BY <2>5, <3>1, StutterStep DEF ResetPassword
  <2>6. CASE ResetCommit(r)
    <3>1. UNCHANGED AdmittedBar
      BY <2>6, NobodyAdmittedOnTheWay DEF ResetCommit
    <3>2. PICK S \in SUBSET CreatedSessions : S = request[r].targets
      BY DEF Consistent, RequestSound, OwnedBy, CreatedSessions
    <3>3. Contract!End(S)
      BY <2>6, <3>1, <3>2, EndStep DEF ResetCommit
    <3> QED
      BY <2>0, <3>2, <3>3 DEF Contract!Next
  <2>7. ASSUME NEW u \in User, DeactivateStaff(r, u) PROVE Simulated
    <3>1. UNCHANGED AdmittedBar
      BY <2>7, NobodyAdmitted DEF DeactivateStaff, OnUser, Serving
    <3> QED
      BY <2>7, <3>1, StutterStep DEF DeactivateStaff
  <2>8. CASE DeactivateEnd(r)
    <3>1. UNCHANGED AdmittedBar
      BY <2>8, NobodyAdmittedOnTheWay DEF DeactivateEnd, Step
    <3>2. PICK S \in SUBSET CreatedSessions : S = SessionsOf(request[r].user)
      BY <2>0
    <3>3. Contract!End(S)
      BY <2>8, <3>1, <3>2, EndStep DEF DeactivateEnd
    <3> QED
      BY <2>0, <3>2, <3>3 DEF Contract!Next
  <2>9. CASE DeactivateRevoke(r)
    BY <2>9, NobodyAdmittedOnTheWay, StutterStep DEF DeactivateRevoke, Step
  <2> QED
    BY <1>3, <2>1, <2>2, <2>3, <2>4, <2>5, <2>6, <2>7, <2>8, <2>9 DEF EndNext
<1>4. ASSUME NEW r \in Request, Crash(r) PROVE Simulated
  BY <1>4, CrashStep DEF Contract!Next
<1>5. ASSUME NEW s \in Session, ExpirePending(s) PROVE Simulated
  BY <1>5, StutterStep DEF ExpirePending, AdmittedBar
<1>6. CASE UNCHANGED vars
  BY <1>6, StutterStep DEF vars, AdmittedBar
<1> QED
  BY <1>1, <1>2, <1>3, <1>4, <1>5, <1>6 DEF Next

\* The handlers implement the session contract: a session only moves
\* forward, and a token is rotated only for a request that read its session
\* while it was open, whatever is ended, revoked or crashes meanwhile.
THEOREM ContractKept == Spec => KeepsContract
<1>1. Init => Contract!Init
  BY DEF Init, Contract!Init, CreatedSessions, At, Idle, Serving
<1> QED
  BY <1>1, StepSimulation, ConsistentAlways, PTL DEF Spec, KeepsContract, Contract!Spec
-----------------------------------------------------------------------------
(***************************************************************************)
(* How often a token is exchanged.  A request holds a token from the read  *)
(* that found it unused to the insert of a successor: a successor turns a  *)
(* holder into a child, and nobody becomes a holder once there is a child. *)
(***************************************************************************)

ChildrenFinite == \A t \in Token : IsFiniteSet(Children(t))

\* A token that has a successor is marked as used.
LEMMA ParentsUsed ==
  ASSUME Consistent, NEW t \in Token, Children(t) # {}
  PROVE  t \in used
  BY NullAssumption DEF Consistent, RotationChain, ParentsAreBurned, Children

\* Nobody joins the holders of t, and its successors stay as they are.
LEMMA NobodyJoins ==
  ASSUME NEW t \in Token, IsFiniteSet(Children(t)),
         Cardinality(Children(t)) + Cardinality(Holders(t)) <= Cardinality(Request),
         Children(t)' = Children(t), Holders(t)' \subseteq Holders(t)
  PROVE  /\ IsFiniteSet(Children(t)')
         /\ Cardinality(Children(t)') + Cardinality(Holders(t)') <= Cardinality(Request)
<1> DEFINE C == Children(t)
           G == Holders(t)
           H == Holders(t)'
           N == Cardinality(Request)
<1>1. IsFiniteSet(G) /\ IsFiniteSet(H)
  BY RequestAssumption, FS_Subset DEF Holders
<1>2. Cardinality(H) <= Cardinality(G)
  BY <1>1, FS_Subset
<1>3. /\ Cardinality(C) \in Nat /\ Cardinality(G) \in Nat /\ Cardinality(H) \in Nat
      /\ N \in Nat
  BY <1>1, RequestAssumption, FS_CardinalityType
<1>4. Cardinality(C) + Cardinality(G) <= N
  OBVIOUS
<1>5. Cardinality(C) + Cardinality(H) <= N
  <2> HIDE DEF C, G, H, N
  <2> QED
    BY <1>2, <1>3, <1>4
<1> QED
  BY <1>5

\* As long as t has no successor, any number of requests may hold it.
LEMMA AnyMayJoin ==
  ASSUME NEW t \in Token, Children(t)' = {}
  PROVE  /\ IsFiniteSet(Children(t)')
         /\ Cardinality(Children(t)') + Cardinality(Holders(t)') <= Cardinality(Request)
<1> DEFINE H == Holders(t)'
           N == Cardinality(Request)
<1>1. IsFiniteSet(H) /\ Cardinality(H) <= N
  BY RequestAssumption, FS_Subset DEF Holders
<1>2. Cardinality(H) \in Nat /\ N \in Nat
  BY <1>1, RequestAssumption, FS_CardinalityType
<1>3. IsFiniteSet({}) /\ Cardinality({}) = 0
  BY FS_EmptySet
<1>4. 0 + Cardinality(H) <= N
  <2> HIDE DEF H, N
  <2> QED
    BY <1>1, <1>2
<1> QED
  BY <1>3, <1>4

\* A holder of t becomes a successor of t.
LEMMA HolderExchanges ==
  ASSUME NEW t \in Token, IsFiniteSet(Children(t)),
         Cardinality(Children(t)) + Cardinality(Holders(t)) <= Cardinality(Request),
         NEW r \in Holders(t), NEW new,
         Children(t)' = Children(t) \cup {new}, Holders(t)' = Holders(t) \ {r}
  PROVE  /\ IsFiniteSet(Children(t)')
         /\ Cardinality(Children(t)') + Cardinality(Holders(t)') <= Cardinality(Request)
<1> DEFINE C == Children(t)
           D == Children(t)'
           G == Holders(t)
           H == Holders(t)'
           N == Cardinality(Request)
<1>1. IsFiniteSet(G)
  BY RequestAssumption, FS_Subset DEF Holders
<1>2. Cardinality(H) = Cardinality(G) - 1
  BY <1>1, FS_RemoveElement
<1>3. /\ IsFiniteSet(D)
      /\ Cardinality(D) = Cardinality(C) \/ Cardinality(D) = Cardinality(C) + 1
  BY FS_AddElement
<1>4. Cardinality(C) \in Nat /\ Cardinality(G) \in Nat /\ N \in Nat
  BY <1>1, RequestAssumption, FS_CardinalityType
<1>5. Cardinality(C) + Cardinality(G) <= N
  OBVIOUS
<1>6. Cardinality(D) + Cardinality(H) <= N
  <2> HIDE DEF C, D, G, H, N
  <2> QED
    BY <1>2, <1>3, <1>4, <1>5
<1> QED
  BY <1>3, <1>6

\* A request that begins something else, or ends, holds no token.
LEMMA HoldersLeave ==
  ASSUME TypeOK, NEW r \in Request, NEW p,
         \/ request' = [request EXCEPT ![r] = p]
         \/ p.token = request[r].token /\ request' = [request EXCEPT ![r].step = p.step],
         NEW t, p.step \notin {"burn", "check", "rotate"} \/ p.token # t
  PROVE  Holders(t)' = Holders(t) \ {r}
<1>1. \A q \in Request \ {r} : request'[q] = request[q]
  BY DEF TypeOK
<1>2. request'[r].step = p.step /\ request'[r].token = p.token
  BY DEF TypeOK, Progress
<1> QED
  BY <1>1, <1>2 DEF Holders

LEMMA ExchangesPreserved ==
  Consistent /\ ChildrenFinite /\ ExchangesBounded /\ [Next]_vars
     => ChildrenFinite' /\ ExchangesBounded'
<1> SUFFICES ASSUME Consistent, ChildrenFinite, ExchangesBounded, [Next]_vars,
                    NEW t \in Token
             PROVE  /\ IsFiniteSet(Children(t)')
                    /\ Cardinality(Children(t)') + Cardinality(Holders(t)')
                          <= Cardinality(Request)
  BY DEF ChildrenFinite, ExchangesBounded
<1> DEFINE Goal == /\ IsFiniteSet(Children(t)')
                   /\ Cardinality(Children(t)') + Cardinality(Holders(t)')
                         <= Cardinality(Request)
<1> USE DEF tables
<1>0. TypeOK
  BY DEF Consistent
<1>1. ASSUME Children(t)' = Children(t), Holders(t)' \subseteq Holders(t) PROVE Goal
  BY <1>1, NobodyJoins DEF ChildrenFinite, ExchangesBounded
<1>2. ASSUME UNCHANGED refreshTokens PROVE Children(t)' = Children(t)
  BY <1>2 DEF Children
<1>3. ASSUME UNCHANGED request PROVE Holders(t)' = Holders(t)
  BY <1>3 DEF Holders
<1>4. ASSUME NEW r \in Request, NEW p, Begin(r, p), p.step \notin {"burn", "check", "rotate"}
      PROVE  Holders(t)' = Holders(t) \ {r}
  BY <1>0, <1>4, HoldersLeave DEF Begin
<1>5. ASSUME NEW r \in Request, Finish(r) PROVE Holders(t)' = Holders(t) \ {r}
  <2>1. Idle.step = "idle"
    BY DEF Idle, Serving
  <2> QED
    BY <1>0, <1>5, <2>1, HoldersLeave DEF Finish
<1>6. ASSUME NEW r \in Request, NEW step \in Step, Goto(r, step),
             step \in {"burn", "check", "rotate"}
                => request[r].step \in {"burn", "check", "rotate"}
      PROVE  Holders(t)' \subseteq Holders(t)
  <2>1. ASSUME NEW q \in Request
        PROVE  /\ request'[q].token = request[q].token
               /\ request'[q].step = IF q = r THEN step ELSE request[q].step
    BY <1>0, <1>6 DEF TypeOK, Progress, Goto
  <2> QED
    BY <1>6, <2>1 DEF Holders
<1>7. ASSUME NEW r \in Request, OpenNext(r) PROVE Goal
  <2>1. ASSUME NEW u \in User, NEW s \in Session, Login(r, u, s) \/ AcceptInvite(r, u, s)
        PROVE  Goal
    BY <2>1, <1>1, <1>2, <1>3, <1>4 DEF Login, AcceptInvite, OnSession, Serving
  <2>2. ASSUME NEW row \in sessions, VerifyTwoFactor(r, row) PROVE Goal
    BY <2>2, <1>1, <1>2, <1>4 DEF VerifyTwoFactor, OnSession, Serving
  <2>3. ASSUME NEW x \in Token, MintFirst(r, x) PROVE Goal
    <3>1. Children(t)' = Children(t)
      BY <2>3, NullAssumption DEF MintFirst, Children
    <3> QED
      BY <2>3, <3>1, <1>1, <1>5 DEF MintFirst
  <2> QED
    BY <1>7, <2>1, <2>2, <2>3 DEF OpenNext
<1>8. ASSUME NEW r \in Request, RefreshNext(r) PROVE Goal
  <2>1. ASSUME NEW row \in refreshTokens, RefreshFind(r, row) PROVE Goal
    <3>1. CASE row.id = t /\ t \notin used
      <4>1. Children(t) = {}
        BY <3>1, ParentsUsed
      <4>2. Children(t)' = {}
        BY <2>1, <4>1, <1>2 DEF RefreshFind
      <4> QED
        BY <4>2, AnyMayJoin
    <3>2. CASE ~(row.id = t /\ t \notin used)
      <4> DEFINE p == OnToken(IF row.id \in used THEN "revokeFamily" ELSE "burn", row)
      <4>1. p.step \notin {"burn", "check", "rotate"} \/ p.token # t
        BY <3>2 DEF OnToken, Serving
      <4>2. request' = [request EXCEPT ![r] = p]
        BY <2>1 DEF RefreshFind, Begin
      <4> HIDE DEF p
      <4>3. Holders(t)' = Holders(t) \ {r}
        BY <1>0, <4>1, <4>2, HoldersLeave
      <4> QED
        BY <2>1, <4>3, <1>1, <1>2 DEF RefreshFind
    <3> QED
      BY <3>1, <3>2
  <2>2. CASE RevokeFamily(r) \/ MarkUsed(r) \/ CheckSession(r)
    BY <2>2, <1>1, <1>2, <1>5, <1>6 DEF RevokeFamily, MarkUsed, CheckSession, At, Step
  <2>3. CASE EndReused(r)
    BY <2>3, <1>1, <1>2, <1>5 DEF EndReused
  <2>4. ASSUME NEW x \in Token, Rotate(r, x) PROVE Goal
    <3> DEFINE new == [id |-> x, user |-> request[r].user, session |-> request[r].session,
                       family |-> request[r].family, parent |-> request[r].token]
    <3>1. Holders(t)' = Holders(t) \ {r} /\ refreshTokens' = refreshTokens \cup {new}
      BY <2>4, <1>5 DEF Rotate
    <3>2. CASE request[r].token = t
      <4>1. r \in Holders(t)
        BY <2>4, <3>2 DEF Rotate, Holders, At
      <4>2. Children(t)' = Children(t) \cup {new}
        BY <3>1, <3>2 DEF Children
      <4> QED
        BY <3>1, <4>1, <4>2, HolderExchanges DEF ChildrenFinite, ExchangesBounded
    <3>3. CASE request[r].token # t
      <4>1. Children(t)' = Children(t)
        BY <3>1, <3>3 DEF Children
      <4> QED
        BY <3>1, <4>1, <1>1
    <3> QED
      BY <3>2, <3>3
  <2> QED
    BY <1>8, <2>1, <2>2, <2>3, <2>4 DEF RefreshNext
<1>9. ASSUME NEW r \in Request, EndNext(r) PROVE Goal
  <2>1. UNCHANGED refreshTokens
    BY <1>9 DEF EndNext, Logout, LogoutEnd, LogoutAll, ResetPassword, DeactivateStaff,
                LogoutAllEnd, ResetCommit, DeactivateEnd, DeactivateRevoke
  <2>2. CASE LogoutEnd(r) \/ LogoutAllEnd(r) \/ ResetCommit(r)
    BY <2>1, <2>2, <1>1, <1>2, <1>5 DEF LogoutEnd, LogoutAllEnd, ResetCommit
  <2>3. CASE DeactivateEnd(r) \/ DeactivateRevoke(r)
    BY <2>1, <2>3, <1>1, <1>2, <1>5, <1>6 DEF DeactivateEnd, DeactivateRevoke, Step
  <2>4. ASSUME NEW row \in sessions, Logout(r, row) PROVE Goal
    BY <2>1, <2>4, <1>1, <1>2, <1>4 DEF Logout, OnSession, Serving
  <2>5. ASSUME NEW u \in User, LogoutAll(r, u) \/ ResetPassword(r, u) \/ DeactivateStaff(r, u)
        PROVE  Goal
    BY <2>1, <2>5, <1>1, <1>2, <1>4
       DEF LogoutAll, ResetPassword, DeactivateStaff, OnUser, Serving
  <2> QED
    BY <1>9, <2>2, <2>3, <2>4, <2>5 DEF EndNext
<1>10. ASSUME NEW r \in Request, Crash(r) PROVE Goal
  BY <1>10, <1>1, <1>2, <1>5 DEF Crash
<1>11. ASSUME UNCHANGED <<refreshTokens, request>> PROVE Goal
  BY <1>11, <1>1, <1>2, <1>3
<1> HIDE DEF Goal
<1>12. Goal
  BY <1>7, <1>8, <1>9, <1>10, <1>11 DEF Next, ExpirePending, vars
<1> QED
  BY <1>12 DEF Goal

\* However many requests present a token, those that exchange it are among
\* those that read it before its first burn (refresh.service.ts:52-99).
THEOREM ExchangesBoundedAlways == Spec => []ExchangesBounded
<1>1. Init => ChildrenFinite /\ ExchangesBounded
  <2> SUFFICES ASSUME Init, NEW t \in Token
               PROVE  /\ IsFiniteSet(Children(t))
                      /\ Cardinality(Children(t)) + Cardinality(Holders(t))
                            <= Cardinality(Request)
    BY DEF ChildrenFinite, ExchangesBounded
  <2>1. Children(t) = {} /\ Holders(t) = {}
    BY DEF Init, Children, Holders, Idle, Serving
  <2>2. IsFiniteSet({}) /\ Cardinality({}) = 0 /\ Cardinality(Request) \in Nat
    BY RequestAssumption, FS_EmptySet, FS_CardinalityType
  <2>3. 0 + 0 <= Cardinality(Request)
    BY <2>2
  <2> QED
    BY <2>1, <2>2, <2>3
<1> QED
  BY <1>1, ConsistentAlways, ExchangesPreserved, PTL DEF Spec
=============================================================================
