--------------------------- MODULE StaffSessions ---------------------------
(***************************************************************************)
(* The staff of a tenant together with their sessions.                     *)
(*                                                                         *)
(* The CRM service suspends the membership a login of the auth service     *)
(* reads, and ends the sessions it opens.  No transaction spans the two: a *)
(* login reads the membership in one statement and inserts its session in  *)
(* another, a deactivation updates membership and sessions in parallel.    *)
(* A request is StaffRoles' request and the statement on the sessions it   *)
(* still has to send.  Tokens are in RefreshRotation: whoever exchanges    *)
(* one looks at the session only, not at the membership.                   *)
(***************************************************************************)
EXTENDS StaffRoles

CONSTANT Session      \* ids the sessions table may allocate

VARIABLES
    sessions,     \* rows of the sessions table
    ended,        \* ids of the sessions whose endedAt is set
    pending,      \* pending[r]: what r has yet to do to the sessions
    overtaken,    \* sessions opened after their user was dismissed (no column)
    abandoned     \* users some deactivation has left logged in (no column)

sessionVars == <<sessions, ended, pending, overtaken, abandoned>>
serviceVars == <<vars, sessionVars>>

SessionRow == [id : Session, user : User]

Todo(doing, u) == [doing |-> doing, user |-> u]
Nothing == Todo("nothing", NoUser)
Opening(u) == Todo("open", u)
Ending(u) == Todo("end", u)

SessionsTyped ==
    /\ sessions \subseteq SessionRow
    /\ ended \subseteq Session
    /\ pending \in [Request -> {Nothing} \cup {Opening(u) : u \in User}
                                         \cup {Ending(u) : u \in User}]
    /\ overtaken \subseteq Session
    /\ abandoned \subseteq User

ServiceTypeOK == TypeOK /\ SessionsTyped

SessionIds == {row.id : row \in sessions}
SessionsOf(u) == {row.id : row \in {x \in sessions : x.user = u}}
OpenSessionsOf(u) == SessionsOf(u) \ ended

Await(r, todo) == pending' = [pending EXCEPT ![r] = todo]

ServiceInit ==
    /\ Init
    /\ sessions = {}
    /\ ended = {}
    /\ pending = [r \in Request |-> Nothing]
    /\ overtaken = {}
    /\ abandoned = {}

-----------------------------------------------------------------------------
\* An accepted invitation goes on to a session, without a look at the
\* membership; a deactivation past its guard sends the update of the
\* sessions together with the two of StaffRoles.
TodoAfter(r) ==
    IF \E a \in Assignment : AssignInvited(r, a) THEN Opening(request[r].user)
    ELSE IF At(r, "deactivate")' /\ ~At(r, "deactivate") THEN Ending(request[r].user)
    ELSE pending[r]

\* A step of StaffRoles; a request with its session still to do is not free
\* for another call.
StaffStep ==
    /\ Next
    /\ \A r \in Request : At(r, "idle") /\ pending[r] # Nothing => request'[r] = request[r]
    /\ pending' = [r \in Request |-> TodoAfter(r)]
    /\ UNCHANGED <<sessions, ended, overtaken, abandoned>>

\* POST /auth/login, once the password was right.
ReadMembership(r, u) ==
    /\ At(r, "idle") /\ pending[r] = Nothing
    /\ membership[u] = "active"
    /\ Await(r, Opening(u))
    /\ UNCHANGED <<vars, sessions, ended, overtaken, abandoned>>

\* Deactivations that have ended the sessions of u but not yet suspended u.
EndedTooEarly(u) ==
    {q \in Request : /\ At(q, "deactivate") \/ At(q, "suspend")
                     /\ request[q].user = u
                     /\ pending[q] = Nothing}

\* The insert is unconditional: whether u has been dismissed since the
\* membership was read, or is about to be, is noted in overtaken only.
OpenSession(r, s) ==
    /\ \E u \in User :
           /\ pending[r] = Opening(u)
           /\ sessions' = sessions \cup {[id |-> s, user |-> u]}
           /\ overtaken' = IF membership[u] # "active" \/ EndedTooEarly(u) # {}
                           THEN overtaken \cup {s} ELSE overtaken
    /\ s \notin SessionIds
    /\ Await(r, Nothing)
    /\ UNCHANGED <<vars, ended, abandoned>>

\* Mutation: a member who does not show as suspended yet keeps the sessions.
EndSessionsOfSuspended(r) ==
    /\ \E u \in User :
           /\ pending[r] = Ending(u)
           /\ ended' = IF membership[u] = "suspended" THEN ended \cup SessionsOf(u) ELSE ended
           /\ abandoned' = abandoned \ {u}
    /\ Await(r, Nothing)
    /\ UNCHANGED <<vars, sessions, overtaken>>

\* One update of the deactivation, in parallel with the two of StaffRoles.
EndSessions(r) ==
    /\ \E u \in User :
           /\ pending[r] = Ending(u)
           /\ ended' = ended \cup SessionsOf(u)
           /\ abandoned' = abandoned \ {u}
    /\ Await(r, Nothing)
    /\ UNCHANGED <<vars, sessions, overtaken>>

\* The insert or the update fails, or the process stops before it.
SessionStatementFails(r) ==
    /\ pending[r] # Nothing
    /\ abandoned' = abandoned \cup {u \in User : pending[r] = Ending(u)}
    /\ Await(r, Nothing)
    /\ UNCHANGED <<vars, sessions, ended, overtaken>>

\* Any of the ways a session ends in RefreshRotation.
SessionEnds(s) ==
    /\ s \in SessionIds \ ended
    /\ ended' = ended \cup {s}
    /\ UNCHANGED <<vars, sessions, pending, overtaken, abandoned>>

ServiceNext ==
    \/ StaffStep
    \/ \E r \in Request :
           \/ \E u \in User : ReadMembership(r, u)
           \/ \E s \in Session : OpenSession(r, s)
           \/ EndSessions(r)
           \/ SessionStatementFails(r)
    \/ \E s \in Session : SessionEnds(s)

ServiceSpec == ServiceInit /\ [][ServiceNext]_serviceVars

-----------------------------------------------------------------------------
(***************************************************************************)
(* Properties.                                                             *)
(***************************************************************************)

\* No session of u is left open but those opened too late to be seen.
LoggedOut(u) ==
    \/ OpenSessionsOf(u) \subseteq overtaken
    \/ u \in abandoned
    \/ \E r \in Request : pending[r] = Ending(u)

\* A suspended member keeps no session that was opened before the dismissal:
\* one can stay only if its login had read the membership before, if it was
\* opened between the two updates, or if the update of the sessions failed or
\* is still on its way (staff.repository.ts:374-393).
DismissedAreOut == \A u \in User : membership[u] = "suspended" => LoggedOut(u)

\* "terminates all active sessions for this tenant so they are force-logged-
\* out immediately" (staff.repository.ts:353): when all that a deactivation
\* sends has been done, nothing of the member stays open.
ForceLoggedOut ==
    \A u \in User : /\ membership[u] = "suspended"
                    /\ u \notin abandoned
                    /\ \A r \in Request : request[r].user # u /\ pending[r].user # u
                    => OpenSessionsOf(u) = {}
=============================================================================
