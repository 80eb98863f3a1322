---------------------------- MODULE AccountsProofs ----------------------------
(***************************************************************************)
(* For any users, tokens, secrets, batches of codes, requests and limit:   *)
(* how far the races of the login and of the password reset can go, that   *)
(* only a crash leaves a failure counter without an expiry, and that 2FA   *)
(* is only ever on with a proven secret and the codes handed out with it.  *)
(*                                                                         *)
(* The password comes first, the second factor next; at the end, what is   *)
(* proved of each alone is shown to hold of the two together.              *)
(***************************************************************************)
EXTENDS Accounts, FiniteSetTheorems, TLAPS

\* A request moves to what its handler stores for it.
LEMMA ProgressTypes ==
  ASSUME NEW step \in Step, NEW u \in User, NEW n \in Nat,
         NEW t \in Token \cup {NoToken}, NEW S \in SUBSET Token
  PROVE  /\ Serving(step, u, n, t, S) \in Progress
         /\ LoggingIn(step, u, n) \in Progress
         /\ Idle \in Progress
  BY DEF Serving, LoggingIn, Idle, Progress, Step

\* A request at a step of the login or of a reset knows its user, a request
\* that redeems knows its token.
Known ==
    \A r \in Request :
        /\ ~At(r, "idle") => request[r].user \in User
        /\ At(r, "redeem") => request[r].token \in Token

Typed == TypeOK /\ Known

LEMMA InitTyped == Init => Typed
<1> SUFFICES ASSUME Init PROVE Typed
  OBVIOUS
<1>1. Idle \in Progress /\ Idle.step = "idle"
  BY DEF Idle, Serving, Progress, Step
<1>2. TypeOK
  BY <1>1 DEF Init, TypeOK, Status
<1>3. Known
  BY <1>1 DEF Init, Known, At
<1> QED
  BY <1>2, <1>3 DEF Typed

\* Storing well-typed progress keeps the requests well typed.
LEMMA BeginTyped ==
  ASSUME Typed, NEW r \in Request, NEW p \in Progress, Begin(r, p),
         p.step # "idle" => p.user \in User, p.step = "redeem" => p.token \in Token
  PROVE  request' \in [Request -> Progress] /\ Known'
<1>1. request' \in [Request -> Progress]
  BY DEF Typed, TypeOK, Begin
<1>2. ASSUME NEW q \in Request PROVE request'[q] = IF q = r THEN p ELSE request[q]
  BY DEF Typed, TypeOK, Begin
<1> QED
  BY <1>1, <1>2 DEF Typed, Known, At

LEMMA FinishTyped ==
  ASSUME Typed, NEW r \in Request, Finish(r)
  PROVE  request' \in [Request -> Progress] /\ Known'
<1>1. Idle \in Progress /\ Idle.step = "idle"
  BY DEF Idle, Serving, Progress, Step
<1> QED
  BY <1>1, BeginTyped DEF Finish

LEMMA LoggingInTyped ==
  ASSUME Typed, NEW r \in Request, NEW step \in Step \ {"redeem"}, NEW u \in User,
         NEW n \in Nat, Begin(r, LoggingIn(step, u, n))
  PROVE  request' \in [Request -> Progress] /\ Known'
<1>1. LoggingIn(step, u, n) \in Progress
  BY ProgressTypes
<1>2. LoggingIn(step, u, n).user = u /\ LoggingIn(step, u, n).step = step
  BY DEF LoggingIn, Serving
<1> QED
  BY <1>1, <1>2, BeginTyped

LEMMA AfterCountingTyped ==
  ASSUME Typed, NEW r \in Request, ~At(r, "idle"), NEW n \in Nat, AfterCounting(r, n)
  PROVE  request' \in [Request -> Progress] /\ Known'
<1>1. request[r].user \in User
  BY DEF Typed, Known
<1>2. "lock" \in Step \ {"redeem"}
  BY DEF Step
<1> QED
  BY <1>1, <1>2, FinishTyped, LoggingInTyped DEF AfterCounting

-----------------------------------------------------------------------------
LEMMA TypedPreserved == Typed /\ [Next]_vars => Typed'
<1> SUFFICES ASSUME Typed, [Next]_vars PROVE Typed'
  OBVIOUS
<1> DEFINE RequestsTyped == request' \in [Request -> Progress] /\ Known'
           LockoutTyped == /\ status' \in [User -> Status]
                           /\ failures' \in [User -> Nat]
                           /\ expiring' \subseteq User
           ResetsTyped == /\ resets' \subseteq ResetRow
                          /\ consumed' \subseteq Token
                          /\ lapsed' \subseteq Token
                          /\ redeemed' \in [Token -> Nat]
<1> SUFFICES RequestsTyped /\ LockoutTyped /\ ResetsTyped
  BY DEF Typed, TypeOK
<1> USE DEF lockout, resetTables
<1>a. UNCHANGED lockout => LockoutTyped
  BY DEF Typed, TypeOK
<1>b. UNCHANGED resetTables => ResetsTyped
  BY DEF Typed, TypeOK
<1>c. \A r \in Request : ~At(r, "idle") => request[r].user \in User
  BY DEF Typed, Known
<1>d. {"count", "verify", "expire", "lock"} \subseteq Step \ {"redeem"}
  BY DEF Step
<1>1. ASSUME NEW r \in Request, NEW u \in User, Login(r, u)
      PROVE  RequestsTyped /\ LockoutTyped /\ ResetsTyped
  BY <1>1, <1>a, <1>b, <1>d, LoggingInTyped DEF Login
<1>2. ASSUME NEW r \in Request, NEW u \in User, RequestReset(r, u)
      PROVE  RequestsTyped /\ LockoutTyped /\ ResetsTyped
  <2>1. Unused(u) \in SUBSET Token
    BY DEF Typed, TypeOK, Unused, ResetRow
  <2>2. Serving("issue", u, 0, NoToken, Unused(u)) \in Progress
    BY <2>1, ProgressTypes DEF Step
  <2>3. /\ Serving("issue", u, 0, NoToken, Unused(u)).user = u
        /\ Serving("issue", u, 0, NoToken, Unused(u)).step = "issue"
    BY DEF Serving
  <2> QED
    BY <1>2, <1>a, <1>b, <2>2, <2>3, BeginTyped DEF RequestReset
<1>3. ASSUME NEW r \in Request, NEW row \in resets, FindReset(r, row)
      PROVE  RequestsTyped /\ LockoutTyped /\ ResetsTyped
  <2>1. row.user \in User /\ row.id \in Token
    BY DEF Typed, TypeOK, ResetRow
  <2>2. Serving("redeem", row.user, 0, row.id, {}) \in Progress
    BY <2>1, ProgressTypes DEF Step
  <2>3. /\ Serving("redeem", row.user, 0, row.id, {}).user = row.user
        /\ Serving("redeem", row.user, 0, row.id, {}).token = row.id
    BY DEF Serving
  <2> QED
    BY <1>3, <1>a, <1>b, <2>1, <2>2, <2>3, BeginTyped DEF FindReset
<1>4. ASSUME NEW r \in Request, LoginStep(r)
      PROVE  RequestsTyped /\ LockoutTyped /\ ResetsTyped
  <2>1. CASE CheckCount(r)
    <3>1. request[r].user \in User /\ failures[request[r].user] \in Nat
      BY <2>1, <1>c DEF CheckCount, At, Typed, TypeOK
    <3> QED
      BY <2>1, <1>a, <1>b, <1>d, <3>1, LoggingInTyped DEF CheckCount
  <2>2. CASE WrongPassword(r)
    <3> DEFINE u == request[r].user
               n == failures[u] + 1
    <3>1. u \in User /\ n \in Nat /\ ~At(r, "idle")
      BY <2>2, <1>c DEF WrongPassword, At, Typed, TypeOK
    <3>2. RequestsTyped
      <4>1. CASE n = 1
        BY <2>2, <4>1, <1>d, <3>1, LoggingInTyped DEF WrongPassword
      <4>2. CASE n # 1
        BY <2>2, <4>2, <3>1, AfterCountingTyped DEF WrongPassword
      <4> QED
        BY <4>1, <4>2
    <3>3. LockoutTyped
      BY <2>2, <3>1 DEF WrongPassword, Typed, TypeOK
    <3> QED
      BY <2>2, <3>2, <3>3, <1>b DEF WrongPassword
  <2>3. CASE RightPassword(r)
    BY <2>3, <1>b, <1>c, FinishTyped DEF RightPassword, ClearCounter, Typed, TypeOK
  <2>4. CASE SetExpiry(r)
    <3>1. request[r].user \in User /\ request[r].count \in Nat /\ ~At(r, "idle")
      BY <2>4, <1>c DEF SetExpiry, At, Typed, TypeOK, Progress
    <3>2. RequestsTyped
      BY <2>4, <3>1, AfterCountingTyped DEF SetExpiry
    <3>3. LockoutTyped
      BY <2>4, <3>1 DEF SetExpiry, Typed, TypeOK
    <3> QED
      BY <2>4, <3>2, <3>3, <1>b DEF SetExpiry
  <2>5. CASE LockAccount(r)
    BY <2>5, <1>b, <1>c, FinishTyped DEF LockAccount, Typed, TypeOK, Status
  <2> QED
    BY <1>4, <2>1, <2>2, <2>3, <2>4, <2>5 DEF LoginStep
<1>5. ASSUME NEW r \in Request, ResetStep(r)
      PROVE  RequestsTyped /\ LockoutTyped /\ ResetsTyped
  <2>1. ASSUME NEW t \in Token, IssueReset(r, t) PROVE ResetsTyped
    <3>1. request[r].user \in User /\ request[r].targets \subseteq Token
      BY <2>1, <1>c DEF IssueReset, At, Typed, TypeOK, Progress
    <3> QED
      BY <2>1, <3>1 DEF IssueReset, Typed, TypeOK, ResetRow
  <2>2. CASE SetPassword(r)
    <3>1. request[r].token \in Token
      BY <2>2 DEF SetPassword, Typed, Known
    <3>2. ResetsTyped
      BY <2>2, <3>1 DEF SetPassword, Typed, TypeOK
    <3> QED
      BY <2>2, <3>2, <1>a, FinishTyped DEF SetPassword
  <2>3. ASSUME NEW t \in Token, IssueReset(r, t) PROVE RequestsTyped /\ LockoutTyped
    BY <2>3, <1>a, FinishTyped DEF IssueReset
  <2> QED
    BY <1>5, <2>1, <2>2, <2>3 DEF ResetStep
<1>6. ASSUME NEW r \in Request, Crash(r)
      PROVE  RequestsTyped /\ LockoutTyped /\ ResetsTyped
  BY <1>6, <1>a, <1>b, FinishTyped DEF Crash
<1>7. ASSUME UNCHANGED request PROVE RequestsTyped
  BY <1>7 DEF Typed, TypeOK, Known, At
<1>8. ASSUME NEW u \in User, CounterExpires(u) \/ ReactivateByInvite(u)
      PROVE  RequestsTyped /\ LockoutTyped /\ ResetsTyped
  BY <1>7, <1>8, <1>b DEF CounterExpires, ReactivateByInvite, ClearCounter, Typed, TypeOK,
                          Status
<1>9. ASSUME NEW t \in Token, ResetExpires(t)
      PROVE  RequestsTyped /\ LockoutTyped /\ ResetsTyped
  BY <1>7, <1>9, <1>a DEF ResetExpires, Typed, TypeOK
<1>10. CASE UNCHANGED vars
  BY <1>7, <1>10, <1>a, <1>b DEF vars
<1> QED
  BY <1>1, <1>2, <1>3, <1>4, <1>5, <1>6, <1>8, <1>9, <1>10 DEF Next

\* Types, and what a request at a step has to know by then.
THEOREM TypedAlways == Spec => []Typed
  BY InitTyped, TypedPreserved, PTL DEF Spec

-----------------------------------------------------------------------------
(***************************************************************************)
(* The two check-then-act races.  A request joins those that have checked  *)
(* only while the count is below its limit, and leaves them as it counts.  *)
(***************************************************************************)

\* Sets of requests are finite, and none is larger than all of them.
LEMMA RequestSets ==
  ASSUME NEW S \in SUBSET Request
  PROVE  /\ Cardinality(S) \in Nat
         /\ Cardinality(S) <= Cardinality(Request)
         /\ Cardinality(Request) \in Nat \ {0}
         /\ \A r \in S : Cardinality(S \ {r}) = Cardinality(S) - 1
<1>1. IsFiniteSet(S) /\ Cardinality(S) <= Cardinality(Request)
  BY RequestAssumption, FS_Subset
<1>2. Cardinality(S) \in Nat /\ Cardinality(Request) \in Nat
  BY <1>1, RequestAssumption, FS_CardinalityType
<1>3. Cardinality(Request) # 0
  BY RequestAssumption, FS_EmptySet
<1>4. \A r \in S : Cardinality(S \ {r}) = Cardinality(S) - 1
  BY <1>1, FS_RemoveElement
<1> QED
  BY <1>1, <1>2, <1>3, <1>4

LEMMA SmallerRequestSets ==
  ASSUME NEW S \in SUBSET Request, NEW T \in SUBSET S
  PROVE  Cardinality(T) <= Cardinality(S)
<1>1. IsFiniteSet(S)
  BY RequestAssumption, FS_Subset
<1> QED
  BY <1>1, FS_Subset

\* What a request does to the sets it can be in.
LEMMA Moves ==
  ASSUME TypeOK, NEW r \in Request, NEW p, Begin(r, p)
  PROVE  /\ \A u : p.step # "verify" => Guessing(u)' = Guessing(u) \ {r}
         /\ \A t : p.step # "redeem" => Redeeming(t)' = Redeeming(t) \ {r}
         /\ \A u : p.user # u => Guessing(u)' = Guessing(u) \ {r}
         /\ \A t : p.token # t => Redeeming(t)' = Redeeming(t) \ {r}
<1>1. ASSUME NEW q \in Request PROVE request'[q] = IF q = r THEN p ELSE request[q]
  BY DEF TypeOK, Begin
<1> QED
  BY <1>1 DEF Guessing, Redeeming, At

\* Requests other than r are where they were.
LEMMA OnlyOneMoves ==
  ASSUME TypeOK, NEW r \in Request, NEW p, Begin(r, p)
  PROVE  \A q \in Request \ {r} : request'[q] = request[q]
  BY DEF TypeOK, Begin

\* A step by which nobody joins those that guess, and the counter grows only
\* if one of them leaves.
LEMMA GuessesKept ==
  ASSUME Typed, GuessesBounded, failures' \in [User -> Nat], NEW u \in User,
         \/ Guessing(u)' \subseteq Guessing(u) /\ failures'[u] <= failures[u]
         \/ /\ \E r \in Guessing(u) : Guessing(u)' = Guessing(u) \ {r}
            /\ failures'[u] = failures[u] + 1
         \/ failures'[u] < MaxAttempts
  PROVE  failures'[u] + Cardinality(Guessing(u)') < MaxAttempts + Cardinality(Request)
<1> DEFINE G == Guessing(u)
           H == Guessing(u)'
           N == Cardinality(Request)
           Goal == failures'[u] + Cardinality(H) < MaxAttempts + N
<1>1. G \in SUBSET Request /\ H \in SUBSET Request
  BY DEF Guessing
<1>2. /\ Cardinality(G) \in Nat /\ Cardinality(H) \in Nat /\ N \in Nat
      /\ Cardinality(H) <= N
  BY <1>1, RequestSets
<1>3. failures[u] \in Nat /\ failures'[u] \in Nat /\ MaxAttempts \in Nat
  BY MaxAttemptsAssumption DEF Typed, TypeOK
<1>4. failures[u] + Cardinality(G) < MaxAttempts + N
  BY DEF GuessesBounded
<1>5. ASSUME H \subseteq G, failures'[u] <= failures[u] PROVE Goal
  <2>1. Cardinality(H) <= Cardinality(G)
    BY <1>1, <1>5, SmallerRequestSets
  <2> HIDE DEF G, H, N
  <2> QED
    BY <1>2, <1>3, <1>4, <1>5, <2>1
<1>6. ASSUME \E r \in G : H = G \ {r}, failures'[u] = failures[u] + 1 PROVE Goal
  <2>1. Cardinality(H) = Cardinality(G) - 1
    BY <1>1, <1>6, RequestSets
  <2> HIDE DEF G, H, N
  <2> QED
    BY <1>2, <1>3, <1>4, <1>6, <2>1
<1>7. ASSUME failures'[u] < MaxAttempts PROVE Goal
  <2> HIDE DEF G, H, N
  <2> QED
    BY <1>2, <1>3, <1>7
<1> QED
  BY <1>5, <1>6, <1>7

LEMMA GuessesPreserved == Typed /\ GuessesBounded /\ [Next]_vars => GuessesBounded'
<1> SUFFICES ASSUME Typed, GuessesBounded, [Next]_vars PROVE GuessesBounded'
  OBVIOUS
<1> SUFFICES ASSUME NEW u \in User
             PROVE  \/ Guessing(u)' \subseteq Guessing(u) /\ failures'[u] <= failures[u]
                    \/ /\ \E r \in Guessing(u) : Guessing(u)' = Guessing(u) \ {r}
                       /\ failures'[u] = failures[u] + 1
                    \/ failures'[u] < MaxAttempts
  <2>1. Typed'
    BY TypedPreserved
  <2>2. failures' \in [User -> Nat]
    BY <2>1 DEF Typed, TypeOK
  <2> QED
    BY <2>2, GuessesKept DEF GuessesBounded
<1> DEFINE Fewer == Guessing(u)' \subseteq Guessing(u) /\ failures'[u] <= failures[u]
           Counts == /\ \E r \in Guessing(u) : Guessing(u)' = Guessing(u) \ {r}
                     /\ failures'[u] = failures[u] + 1
           Below == failures'[u] < MaxAttempts
<1> USE DEF lockout, resetTables
<1>0. TypeOK /\ failures[u] \in Nat
  BY DEF Typed, TypeOK
<1>1. ASSUME NEW r \in Request, NEW p, Begin(r, p), p.step # "verify" \/ p.user # u
      PROVE  Guessing(u)' = Guessing(u) \ {r}
  BY <1>0, <1>1, Moves
<1>2. ASSUME NEW r \in Request, Finish(r) PROVE Guessing(u)' = Guessing(u) \ {r}
  BY <1>1, <1>2 DEF Finish, Idle, Serving
<1>3. ASSUME NEW r \in Request, NEW n, AfterCounting(r, n)
      PROVE  Guessing(u)' = Guessing(u) \ {r}
  BY <1>1, <1>2, <1>3 DEF AfterCounting, LoggingIn, Serving
<1>4. ASSUME NEW r \in Request, NEW v \in User, Login(r, v) \/ RequestReset(r, v)
      PROVE  Fewer
  BY <1>0, <1>1, <1>4 DEF Login, RequestReset, LoggingIn, Serving
<1>5. ASSUME NEW r \in Request, NEW row \in resets, FindReset(r, row) PROVE Fewer
  BY <1>0, <1>1, <1>5 DEF FindReset, Serving
<1>6. ASSUME NEW r \in Request, CheckCount(r) PROVE Fewer \/ Below
  <2>1. CASE request[r].user = u /\ failures[u] < MaxAttempts
    BY <1>6, <2>1 DEF CheckCount
  <2>2. CASE request[r].user = u /\ ~(failures[u] < MaxAttempts)
    <3>1. Begin(r, LoggingIn("lock", request[r].user, failures[request[r].user]))
      BY <1>0, <1>6, <2>2, MaxAttemptsAssumption DEF CheckCount
    <3> QED
      BY <1>0, <1>1, <1>6, <3>1 DEF CheckCount, LoggingIn, Serving
  <2>3. CASE request[r].user # u
    BY <1>0, <1>1, <1>6, <2>3 DEF CheckCount, LoggingIn, Serving
  <2> QED
    BY <2>1, <2>2, <2>3
<1>7. ASSUME NEW r \in Request, WrongPassword(r) PROVE Fewer \/ Counts
  <2>1. Guessing(u)' = Guessing(u) \ {r}
    BY <1>1, <1>3, <1>7 DEF WrongPassword, LoggingIn, Serving
  <2>2. CASE request[r].user = u
    <3>1. r \in Guessing(u)
      BY <1>7, <2>2 DEF WrongPassword, Guessing
    <3>2. failures'[u] = failures[u] + 1
      BY <1>0, <1>7, <2>2 DEF WrongPassword, TypeOK
    <3> QED
      BY <2>1, <3>1, <3>2
  <2>3. CASE request[r].user # u
    <3>1. failures'[u] = failures[u]
      BY <1>0, <1>7, <2>3 DEF WrongPassword, TypeOK
    <3> QED
      BY <1>0, <2>1, <3>1
  <2> QED
    BY <2>2, <2>3
<1>8. ASSUME NEW v, ClearCounter(v) PROVE failures'[u] <= failures[u]
  <2>1. failures'[u] = 0 \/ failures'[u] = failures[u]
    BY <1>0, <1>8 DEF ClearCounter, TypeOK
  <2> QED
    BY <1>0, <2>1
<1>9. ASSUME NEW r \in Request, RightPassword(r) PROVE Fewer
  BY <1>2, <1>8, <1>9 DEF RightPassword
<1>10. ASSUME NEW r \in Request, SetExpiry(r) \/ LockAccount(r) PROVE Fewer
  BY <1>0, <1>2, <1>3, <1>10 DEF SetExpiry, LockAccount
<1>11. ASSUME NEW r \in Request, ResetStep(r) \/ Crash(r) PROVE Fewer
  BY <1>0, <1>2, <1>11 DEF ResetStep, IssueReset, SetPassword, Crash
<1>12. ASSUME NEW v \in User, CounterExpires(v) \/ ReactivateByInvite(v) PROVE Fewer
  BY <1>0, <1>8, <1>12 DEF CounterExpires, ReactivateByInvite, Guessing, At
<1>13. ASSUME NEW t \in Token, ResetExpires(t) PROVE Fewer
  BY <1>0, <1>13 DEF ResetExpires, Guessing, At
<1>14. ASSUME UNCHANGED vars PROVE Fewer
  BY <1>0, <1>14 DEF vars, Guessing, At
<1> HIDE DEF Fewer, Counts, Below
<1>15. ASSUME NEW r \in Request, LoginStep(r) PROVE Fewer \/ Counts \/ Below
  BY <1>6, <1>7, <1>9, <1>10, <1>15 DEF LoginStep
<1>16. Fewer \/ Counts \/ Below
  BY <1>4, <1>5, <1>11, <1>12, <1>13, <1>14, <1>15 DEF Next
<1> QED
  BY <1>16 DEF Fewer, Counts, Below

\* However many attempts race past the check of the counter, the passwords
\* tried before it is cleared exceed the limit by less than the number of
\* requests served at once (login.service.ts:84-105).
THEOREM GuessesBoundedAlways == Spec => []GuessesBounded
<1>1. Init => GuessesBounded
  <2> SUFFICES ASSUME Init, NEW u \in User
               PROVE  failures[u] + Cardinality(Guessing(u))
                         < MaxAttempts + Cardinality(Request)
    BY DEF GuessesBounded
  <2>1. failures[u] = 0 /\ Guessing(u) = {}
    BY DEF Init, Guessing, At, Idle, Serving
  <2>2. Cardinality(Guessing(u)) = 0 /\ Cardinality(Request) \in Nat \ {0}
    BY <2>1, FS_EmptySet, RequestSets
  <2> QED
    BY <2>1, <2>2, MaxAttemptsAssumption
<1> QED
  BY <1>1, GuessesPreserved, TypedAlways, PTL DEF Spec

-----------------------------------------------------------------------------
\* A token that has set a password is marked as used.
RedeemedIsConsumed == \A t \in Token : redeemed[t] > 0 => t \in consumed

LEMMA RedeemsPreserved ==
  Typed /\ RedeemedIsConsumed /\ RedeemsBounded /\ [Next]_vars
     => RedeemedIsConsumed' /\ RedeemsBounded'
<1> SUFFICES ASSUME Typed, RedeemedIsConsumed, RedeemsBounded, [Next]_vars,
                    NEW t \in Token
             PROVE  /\ redeemed'[t] > 0 => t \in consumed'
                    /\ redeemed'[t] + Cardinality(Redeeming(t)') <= Cardinality(Request)
  BY DEF RedeemedIsConsumed, RedeemsBounded
<1> DEFINE R == Redeeming(t)
           S == Redeeming(t)'
           N == Cardinality(Request)
           Goal == /\ redeemed'[t] > 0 => t \in consumed'
                   /\ redeemed'[t] + Cardinality(S) <= N
<1> USE DEF lockout, resetTables
<1>0. /\ TypeOK
      /\ redeemed[t] \in Nat
      /\ redeemed[t] > 0 => t \in consumed
      /\ redeemed[t] + Cardinality(R) <= N
  BY DEF Typed, TypeOK, RedeemedIsConsumed, RedeemsBounded
<1>1. R \in SUBSET Request /\ S \in SUBSET Request
  BY DEF Redeeming
<1>2. /\ Cardinality(R) \in Nat /\ Cardinality(S) \in Nat /\ N \in Nat
      /\ Cardinality(S) <= N
  BY <1>1, RequestSets
<1>3. ASSUME S \subseteq R, redeemed'[t] = redeemed[t], consumed \subseteq consumed'
      PROVE  Goal
  <2>1. Cardinality(S) <= Cardinality(R)
    BY <1>1, <1>3, SmallerRequestSets
  <2> HIDE DEF R, S, N
  <2> QED
    BY <1>0, <1>2, <1>3, <2>1
<1>4. ASSUME NEW r \in Request, NEW p, Begin(r, p), p.step # "redeem" \/ p.token # t
      PROVE  S = R \ {r}
  BY <1>0, <1>4, Moves
<1>5. ASSUME NEW r \in Request, Finish(r) PROVE S = R \ {r}
  BY <1>4, <1>5 DEF Finish, Idle, Serving
<1>6. ASSUME NEW r \in Request, NEW n, AfterCounting(r, n) PROVE S = R \ {r}
  BY <1>4, <1>5, <1>6 DEF AfterCounting, LoggingIn, Serving
<1>7. ASSUME NEW r \in Request, NEW u \in User, Login(r, u) \/ RequestReset(r, u)
      PROVE  Goal
  BY <1>3, <1>4, <1>7 DEF Login, RequestReset, LoggingIn, Serving
<1>8. ASSUME NEW r \in Request, NEW row \in resets, FindReset(r, row) PROVE Goal
  <2>1. CASE row.id = t
    <3>1. redeemed[t] = 0 /\ redeemed'[t] = 0
      BY <1>0, <1>8, <2>1 DEF FindReset
    <3> HIDE DEF R, S, N
    <3> QED
      BY <1>2, <3>1
  <2>2. CASE row.id # t
    BY <1>3, <1>4, <1>8, <2>2 DEF FindReset, Serving
  <2> QED
    BY <2>1, <2>2
<1>9. ASSUME NEW r \in Request, LoginStep(r) PROVE Goal
  <2>1. S = R \ {r} /\ UNCHANGED resetTables
    BY <1>4, <1>5, <1>6, <1>9
       DEF LoginStep, CheckCount, WrongPassword, RightPassword, SetExpiry, LockAccount,
           LoggingIn, Serving
  <2> QED
    BY <1>3, <2>1
<1>10. ASSUME NEW r \in Request, SetPassword(r) PROVE Goal
  <2>1. S = R \ {r}
    BY <1>5, <1>10 DEF SetPassword
  <2>2. CASE request[r].token = t
    <3>1. r \in R
      BY <1>10, <2>2 DEF SetPassword, Redeeming
    <3>2. Cardinality(S) = Cardinality(R) - 1
      BY <1>1, <2>1, <3>1, RequestSets
    <3>3. redeemed'[t] = redeemed[t] + 1 /\ t \in consumed'
      BY <1>0, <1>10, <2>2 DEF SetPassword, TypeOK
    <3> HIDE DEF R, S, N
    <3> QED
      BY <1>0, <1>2, <3>2, <3>3
  <2>3. CASE request[r].token # t
    <3>1. redeemed'[t] = redeemed[t] /\ consumed \subseteq consumed'
      BY <1>0, <1>10, <2>3 DEF SetPassword, TypeOK
    <3> QED
      BY <1>3, <2>1, <3>1
  <2> QED
    BY <2>2, <2>3
<1>11. ASSUME NEW r \in Request, NEW s \in Token, IssueReset(r, s) PROVE Goal
  BY <1>3, <1>5, <1>11 DEF IssueReset
<1>12. ASSUME NEW r \in Request, Crash(r) PROVE Goal
  BY <1>3, <1>5, <1>12 DEF Crash
<1>13. ASSUME UNCHANGED <<request, redeemed, consumed>> PROVE Goal
  BY <1>3, <1>13 DEF Redeeming, At
<1> HIDE DEF Goal
<1>14. Goal
  BY <1>7, <1>8, <1>9, <1>10, <1>11, <1>12, <1>13
     DEF Next, ResetStep, CounterExpires, ReactivateByInvite, ResetExpires, vars
<1> QED
  BY <1>14 DEF Goal

\* A reset token sets at most as many passwords as there are requests served
\* at once (password-reset.service.ts:109-133).
THEOREM RedeemsBoundedAlways == Spec => []RedeemsBounded
<1>1. Init => RedeemedIsConsumed /\ RedeemsBounded
  <2> SUFFICES ASSUME Init, NEW t \in Token
               PROVE  /\ redeemed[t] = 0
                      /\ redeemed[t] + Cardinality(Redeeming(t)) <= Cardinality(Request)
    BY DEF RedeemedIsConsumed, RedeemsBounded
  <2>1. redeemed[t] = 0 /\ Redeeming(t) = {}
    BY DEF Init, Redeeming, At, Idle, Serving
  <2>2. Cardinality(Redeeming(t)) = 0 /\ Cardinality(Request) \in Nat \ {0}
    BY <2>1, FS_EmptySet, RequestSets
  <2> QED
    BY <2>1, <2>2
<1> QED
  BY <1>1, RedeemsPreserved, TypedAlways, PTL DEF Spec

-----------------------------------------------------------------------------
(***************************************************************************)
(* How many reset tokens of a user can live.  A token is spared only by    *)
(* the transactions that looked for older ones before it was there.  So    *)
(* whichever of the transactions under way commit, what they leave of the  *)
(* tokens alive now, and one of their own each, must fit in the bound.     *)
(***************************************************************************)

\* What the transactions A are going to expire.
Superseded(A) == UNION {request[r].targets : r \in A}

TargetsExist == \A r \in Request : request[r].targets \subseteq ResetIds

LiveBalance(u) ==
    /\ IsFiniteSet(Live(u))
    /\ \A A \in SUBSET Issuing(u) :
          Cardinality(Live(u) \ Superseded(A)) + Cardinality(A) <= Cardinality(Request)

\* Tokens only die, transactions of the user only end.
LEMMA BalanceKept ==
  ASSUME NEW u \in User, LiveBalance(u), Live(u)' \subseteq Live(u),
         Issuing(u)' \subseteq Issuing(u),
         \A r \in Issuing(u)' : request'[r].targets = request[r].targets
  PROVE  LiveBalance(u)'
<1>1. IsFiniteSet(Live(u)')
  BY FS_Subset DEF LiveBalance
<1>2. ASSUME NEW A \in SUBSET Issuing(u)'
      PROVE  Cardinality(Live(u)' \ Superseded(A)') + Cardinality(A) <= Cardinality(Request)
  <2> DEFINE L == Live(u) \ Superseded(A)
             M == Live(u)' \ Superseded(A)'
             N == Cardinality(Request)
  <2>1. M \subseteq L
    BY <1>2 DEF Superseded
  <2>2. IsFiniteSet(L) /\ IsFiniteSet(M) /\ IsFiniteSet(A)
    <3>1. A \subseteq Request
      BY <1>2 DEF Issuing
    <3> QED
      BY <1>1, <3>1, RequestAssumption, FS_Subset DEF LiveBalance
  <2>3. Cardinality(M) <= Cardinality(L)
    BY <2>1, <2>2, FS_Subset
  <2>4. /\ Cardinality(L) \in Nat /\ Cardinality(M) \in Nat /\ Cardinality(A) \in Nat
        /\ N \in Nat
    BY <2>2, RequestAssumption, FS_CardinalityType
  <2>5. Cardinality(L) + Cardinality(A) <= N
    BY <1>2 DEF LiveBalance
  <2>6. Cardinality(M) + Cardinality(A) <= N
    <3> HIDE DEF L, M, N
    <3> QED
      BY <2>3, <2>4, <2>5
  <2> QED
    BY <2>6
<1> QED
  BY <1>1, <1>2 DEF LiveBalance

\* A transaction that begins is going to expire whatever is alive.
LEMMA BalanceBegun ==
  ASSUME TypeOK, NEW u \in User, LiveBalance(u), NEW r \in Request,
         Begin(r, Serving("issue", u, 0, NoToken, Unused(u))),
         UNCHANGED resetTables
  PROVE  LiveBalance(u)'
<1> USE DEF resetTables
<1>1. Live(u)' = Live(u) /\ Live(u) \subseteq Unused(u)
  BY DEF Live, Unused
<1>2. ASSUME NEW q \in Request
      PROVE  request'[q] = IF q = r THEN Serving("issue", u, 0, NoToken, Unused(u))
                           ELSE request[q]
  BY DEF TypeOK, Begin
<1>3. request'[r].targets = Unused(u)
  BY <1>2 DEF Serving
<1>4. ASSUME NEW A \in SUBSET Issuing(u)'
      PROVE  Cardinality(Live(u)' \ Superseded(A)') + Cardinality(A) <= Cardinality(Request)
  <2>1. A \in SUBSET Request
    BY <1>4 DEF Issuing
  <2>2. CASE r \in A
    <3>1. Live(u)' \ Superseded(A)' = {}
      BY <1>1, <1>3, <2>2 DEF Superseded
    <3>2. Cardinality({}) = 0
      BY FS_EmptySet
    <3>3. Cardinality(A) \in Nat /\ Cardinality(A) <= Cardinality(Request)
      BY <2>1, RequestSets
    <3>4. 0 + Cardinality(A) <= Cardinality(Request)
      BY <3>3, RequestSets, <2>1
    <3> QED
      BY <3>1, <3>2, <3>4
  <2>3. CASE r \notin A
    <3>1. A \in SUBSET Issuing(u)
      BY <1>2, <1>4, <2>3 DEF Issuing, At
    <3>2. Superseded(A)' = Superseded(A)
      BY <1>2, <2>1, <2>3 DEF Superseded
    <3> QED
      BY <1>1, <3>1, <3>2 DEF LiveBalance
  <2> QED
    BY <2>2, <2>3
<1> QED
  BY <1>1, <1>4 DEF LiveBalance

\* A transaction that commits has counted for its token already.
LEMMA BalanceIssued ==
  ASSUME Typed, TargetsExist, NEW u \in User, LiveBalance(u), NEW r \in Request,
         request[r].user = u, NEW t \in Token, IssueReset(r, t)
  PROVE  LiveBalance(u)'
<1>0. TypeOK
  BY DEF Typed
<1>1. r \in Issuing(u) /\ t \notin ResetIds
  BY DEF IssueReset, Issuing
<1>2. Live(u)' \subseteq (Live(u) \ request[r].targets) \cup {t}
  BY DEF IssueReset, Live, Unused
<1>3. IsFiniteSet(Live(u)')
  <2>1. IsFiniteSet(Live(u) \ request[r].targets)
    BY FS_Subset DEF LiveBalance
  <2>2. IsFiniteSet((Live(u) \ request[r].targets) \cup {t})
    BY <2>1, FS_AddElement
  <2> QED
    BY <1>2, <2>2, FS_Subset
<1>4. Issuing(u)' \subseteq Issuing(u) \ {r}
  <2>1. request'[r] = Idle /\ \A q \in Request \ {r} : request'[q] = request[q]
    BY <1>0 DEF IssueReset, Finish, Begin, TypeOK
  <2> QED
    BY <2>1 DEF Issuing, At, Idle, Serving
<1>5. ASSUME NEW A \in SUBSET Issuing(u)'
      PROVE  Cardinality(Live(u)' \ Superseded(A)') + Cardinality(A) <= Cardinality(Request)
  <2> DEFINE B == A \cup {r}
             L == Live(u) \ Superseded(B)
             M == Live(u)' \ Superseded(A)'
             N == Cardinality(Request)
  <2>1. A \subseteq Request /\ r \notin A /\ B \in SUBSET Issuing(u)
    BY <1>1, <1>4, <1>5 DEF Issuing
  <2>2. Superseded(A)' = Superseded(A)
    BY <1>0, <2>1, OnlyOneMoves DEF IssueReset, Finish, Superseded
  <2>3. M \subseteq L \cup {t}
    BY <1>2, <2>2 DEF Superseded
  <2>4. IsFiniteSet(L) /\ IsFiniteSet(A)
    BY <2>1, RequestAssumption, FS_Subset DEF LiveBalance
  <2>5. /\ IsFiniteSet(L \cup {t})
        /\ \/ Cardinality(L \cup {t}) = Cardinality(L)
           \/ Cardinality(L \cup {t}) = Cardinality(L) + 1
    BY <2>4, FS_AddElement
  <2>6. IsFiniteSet(M) /\ Cardinality(M) <= Cardinality(L \cup {t})
    <3> HIDE DEF L, M
    <3>1. M \in SUBSET (L \cup {t})
      BY <2>3
    <3> QED
      BY <2>5, <3>1, FS_Subset
  <2>7. Cardinality(B) = Cardinality(A) + 1
    BY <2>1, <2>4, FS_AddElement
  <2>8. /\ Cardinality(L) \in Nat /\ Cardinality(M) \in Nat /\ Cardinality(A) \in Nat
        /\ N \in Nat
    BY <2>4, <2>6, RequestAssumption, FS_CardinalityType
  <2>9. Cardinality(L) + Cardinality(B) <= N
    BY <2>1 DEF LiveBalance
  <2>10. Cardinality(M) + Cardinality(A) <= N
    <3> HIDE DEF B, L, M, N
    <3> QED
      BY <2>5, <2>6, <2>7, <2>8, <2>9
  <2> QED
    BY <2>10
<1> QED
  BY <1>3, <1>5 DEF LiveBalance

LEMMA TargetsPreserved == Typed /\ TargetsExist /\ [Next]_vars => TargetsExist'
<1> SUFFICES ASSUME Typed, TargetsExist, [Next]_vars PROVE TargetsExist'
  OBVIOUS
<1> USE DEF resetTables, lockout
<1>0. TypeOK
  BY DEF Typed
<1>1. ResetIds \subseteq ResetIds'
  <2>1. resets \subseteq resets'
    BY DEF Next, LoginStep, ResetStep, Login, RequestReset, FindReset, CheckCount,
           WrongPassword, RightPassword, SetExpiry, LockAccount, IssueReset, SetPassword,
           Crash, CounterExpires, ReactivateByInvite, ResetExpires, vars
  <2> QED
    BY <2>1 DEF ResetIds
<1>2. ASSUME NEW r \in Request, NEW p, Begin(r, p), p.targets \subseteq ResetIds
      PROVE  TargetsExist'
  <2>1. \A q \in Request : request'[q] = IF q = r THEN p ELSE request[q]
    BY <1>0, <1>2 DEF TypeOK, Begin
  <2> QED
    BY <1>1, <1>2, <2>1 DEF TargetsExist
<1>3. ASSUME NEW r \in Request, Finish(r) PROVE TargetsExist'
  BY <1>2, <1>3 DEF Finish, Idle, Serving
<1>4. ASSUME NEW r \in Request, NEW n, AfterCounting(r, n) PROVE TargetsExist'
  BY <1>2, <1>3, <1>4 DEF AfterCounting, LoggingIn, Serving
<1>5. ASSUME NEW r \in Request, NEW u \in User, Login(r, u) PROVE TargetsExist'
  BY <1>2, <1>5 DEF Login, LoggingIn, Serving
<1>6. ASSUME NEW r \in Request, NEW u \in User, RequestReset(r, u) PROVE TargetsExist'
  BY <1>2, <1>6 DEF RequestReset, Serving, Unused, ResetIds
<1>7. ASSUME NEW r \in Request, NEW row \in resets, FindReset(r, row) PROVE TargetsExist'
  BY <1>2, <1>7 DEF FindReset, Serving
<1>8. ASSUME NEW r \in Request, LoginStep(r) PROVE TargetsExist'
  <2>1. CASE CheckCount(r) \/ RightPassword(r) \/ LockAccount(r)
    BY <2>1, <1>2, <1>3 DEF CheckCount, RightPassword, LockAccount, LoggingIn, Serving
  <2>2. CASE WrongPassword(r) \/ SetExpiry(r)
    BY <2>2, <1>2, <1>4 DEF WrongPassword, SetExpiry, LoggingIn, Serving
  <2> QED
    BY <1>8, <2>1, <2>2 DEF LoginStep
<1>9. ASSUME NEW r \in Request, ResetStep(r) \/ Crash(r) PROVE TargetsExist'
  BY <1>3, <1>9 DEF ResetStep, IssueReset, SetPassword, Crash
<1>10. ASSUME UNCHANGED request PROVE TargetsExist'
  BY <1>1, <1>10 DEF TargetsExist
<1> HIDE DEF TargetsExist
<1> QED
  BY <1>5, <1>6, <1>7, <1>8, <1>9, <1>10
     DEF Next, CounterExpires, ReactivateByInvite, ResetExpires, vars

LEMMA BalancePreserved ==
  Typed /\ TargetsExist /\ (\A u \in User : LiveBalance(u)) /\ [Next]_vars
     => (\A u \in User : LiveBalance(u))'
<1> SUFFICES ASSUME Typed, TargetsExist, \A u \in User : LiveBalance(u), [Next]_vars,
                    NEW u \in User
             PROVE  LiveBalance(u)'
  OBVIOUS
<1> USE DEF resetTables, lockout
<1>0. TypeOK /\ LiveBalance(u)
  BY DEF Typed
<1>1. ASSUME UNCHANGED resets, consumed \subseteq consumed', lapsed \subseteq lapsed'
      PROVE  Live(u)' \subseteq Live(u)
  BY <1>1 DEF Live, Unused
<1>2. ASSUME NEW r \in Request, NEW p, Begin(r, p), p.step # "issue" \/ p.user # u,
             Live(u)' \subseteq Live(u)
      PROVE  LiveBalance(u)'
  <2>1. \A q \in Request : request'[q] = IF q = r THEN p ELSE request[q]
    BY <1>0, <1>2 DEF TypeOK, Begin
  <2>2. /\ Issuing(u)' \subseteq Issuing(u)
        /\ \A q \in Issuing(u)' : request'[q].targets = request[q].targets
    BY <1>2, <2>1 DEF Issuing, At
  <2> QED
    BY <1>0, <1>2, <2>2, BalanceKept
<1>3. ASSUME NEW r \in Request, Finish(r), Live(u)' \subseteq Live(u) PROVE LiveBalance(u)'
  BY <1>2, <1>3 DEF Finish, Idle, Serving
<1>4. ASSUME NEW r \in Request, NEW n, AfterCounting(r, n), Live(u)' \subseteq Live(u)
      PROVE  LiveBalance(u)'
  BY <1>2, <1>3, <1>4 DEF AfterCounting, LoggingIn, Serving
<1>5. ASSUME NEW r \in Request, NEW v \in User, Login(r, v) PROVE LiveBalance(u)'
  BY <1>1, <1>2, <1>5 DEF Login, LoggingIn, Serving
<1>6. ASSUME NEW r \in Request, NEW v \in User, RequestReset(r, v) PROVE LiveBalance(u)'
  <2>1. CASE v = u
    BY <1>0, <1>6, <2>1, BalanceBegun DEF RequestReset
  <2>2. CASE v # u
    BY <1>1, <1>2, <1>6, <2>2 DEF RequestReset, Serving
  <2> QED
    BY <2>1, <2>2
<1>7. ASSUME NEW r \in Request, NEW row \in resets, FindReset(r, row) PROVE LiveBalance(u)'
  BY <1>1, <1>2, <1>7 DEF FindReset, Serving
<1>8. ASSUME NEW r \in Request, LoginStep(r) PROVE LiveBalance(u)'
  <2>1. CASE CheckCount(r) \/ RightPassword(r) \/ LockAccount(r)
    BY <2>1, <1>1, <1>2, <1>3 DEF CheckCount, RightPassword, LockAccount, LoggingIn, Serving
  <2>2. CASE WrongPassword(r) \/ SetExpiry(r)
    BY <2>2, <1>1, <1>2, <1>4 DEF WrongPassword, SetExpiry, LoggingIn, Serving
  <2> QED
    BY <1>8, <2>1, <2>2 DEF LoginStep
<1>9. ASSUME NEW r \in Request, NEW t \in Token, IssueReset(r, t) PROVE LiveBalance(u)'
  <2>1. CASE request[r].user = u
    BY <1>0, <1>9, <2>1, BalanceIssued
  <2>2. CASE request[r].user # u
    <3>1. Live(u)' \subseteq Live(u)
      BY <1>9, <2>2 DEF IssueReset, Live, Unused
    <3> QED
      BY <1>3, <1>9, <3>1 DEF IssueReset
  <2> QED
    BY <2>1, <2>2
<1>10. ASSUME NEW r \in Request, SetPassword(r) \/ Crash(r) PROVE LiveBalance(u)'
  BY <1>1, <1>3, <1>10 DEF SetPassword, Crash
<1>11. ASSUME UNCHANGED <<resets, consumed, request>>, lapsed \subseteq lapsed'
       PROVE  LiveBalance(u)'
  <2>1. Issuing(u)' = Issuing(u)
    BY <1>11 DEF Issuing, At
  <2> QED
    BY <1>0, <1>1, <1>11, <2>1, BalanceKept
<1> HIDE DEF LiveBalance
<1> QED
  BY <1>5, <1>6, <1>7, <1>8, <1>9, <1>10, <1>11
     DEF Next, ResetStep, CounterExpires, ReactivateByInvite, ResetExpires, vars

\* However requests for a reset overlap, no more tokens of a user are alive
\* than requests can be served at once (password-reset.service.ts:67).
THEOREM LiveResetsBoundedAlways == Spec => []LiveResetsBounded
<1> DEFINE Balanced == \A u \in User : LiveBalance(u)
<1>1. Init => TargetsExist /\ Balanced
  <2> SUFFICES ASSUME Init PROVE TargetsExist /\ Balanced
    OBVIOUS
  <2>1. TargetsExist
    BY DEF Init, TargetsExist, Idle, Serving
  <2>2. ASSUME NEW u \in User PROVE LiveBalance(u)
    <3>1. Live(u) = {} /\ Issuing(u) = {}
      BY DEF Init, Live, Unused, Issuing, At, Idle, Serving
    <3>2. IsFiniteSet({}) /\ Cardinality({}) = 0 /\ Cardinality(Request) \in Nat
      BY RequestAssumption, FS_EmptySet, FS_CardinalityType
    <3>3. \A A \in SUBSET Issuing(u) : A = {} /\ Live(u) \ Superseded(A) = {}
      BY <3>1
    <3>4. 0 + 0 <= Cardinality(Request)
      BY <3>2
    <3> QED
      BY <3>1, <3>2, <3>3, <3>4 DEF LiveBalance
  <2> QED
    BY <2>1, <2>2
<1>2. Typed /\ TargetsExist /\ Balanced /\ [Next]_vars => TargetsExist' /\ Balanced'
  BY TargetsPreserved, BalancePreserved
<1>3. Balanced => LiveResetsBounded
  <2> SUFFICES ASSUME NEW u \in User, LiveBalance(u)
               PROVE  Cardinality(Live(u)) <= Cardinality(Request)
    BY DEF LiveResetsBounded
  <2>1. {} \in SUBSET Issuing(u) /\ Live(u) \ Superseded({}) = Live(u)
    BY DEF Superseded
  <2>2. Cardinality(Live(u)) + Cardinality({}) <= Cardinality(Request)
    BY <2>1 DEF LiveBalance
  <2>3. Cardinality({}) = 0 /\ Cardinality(Live(u)) \in Nat
    BY FS_EmptySet, FS_CardinalityType DEF LiveBalance
  <2> QED
    BY <2>2, <2>3
<1> HIDE DEF Balanced
<1> QED
  BY <1>1, <1>2, <1>3, TypedAlways, PTL DEF Spec

-----------------------------------------------------------------------------
(***************************************************************************)
(* The expiry of the failure counter.                                      *)
(***************************************************************************)

\* A request that is not at its EXPIRE moves; the counter stays or goes.
LEMMA CoverKept ==
  ASSUME TypeOK, NEW u \in User, Covered(u), NEW r \in Request, NEW p, Begin(r, p),
         ~At(r, "expire"),
         \/ failures'[u] = 0
         \/ failures'[u] = failures[u] /\ (u \in expiring => u \in expiring')
  PROVE  Covered(u)'
<1>1. \A q \in Request \ {r} : request'[q] = request[q]
  BY OnlyOneMoves
<1> QED
  BY <1>1 DEF Covered, At

\* Counting stores some progress for the request.
LEMMA CountingBegins ==
  ASSUME NEW r, NEW n, AfterCounting(r, n)
  PROVE  \E p : Begin(r, p)
  BY DEF AfterCounting, Finish

\* DEL and the end of a time to live take the counter of one user away.
LEMMA ClearKeepsCover ==
  ASSUME TypeOK, NEW u \in User, NEW v \in User, ClearCounter(v)
  PROVE  \/ failures'[u] = 0
         \/ failures'[u] = failures[u] /\ (u \in expiring => u \in expiring')
  BY DEF TypeOK, ClearCounter

\* However attempts, clears and expiries interleave, a failure counter is
\* left without a time to live only by the crash of the attempt that was
\* about to set it (login.service.ts:96-98).
THEOREM OnlyACrashUncovers == Spec => CounterOutlivesOnlyACrash
<1>1. ASSUME Typed, [Next]_vars, NEW u \in User, Covered(u)
      PROVE  \/ Covered(u)'
             \/ \E r \in Request : request[r].user = u /\ At(r, "expire") /\ Crash(r)
  <2> USE DEF lockout, resetTables
  <2>0. TypeOK /\ (\A r \in Request : ~At(r, "idle") => request[r].user \in User)
    BY <1>1 DEF Typed, Known
  <2>1. ASSUME NEW r \in Request, NEW v \in User, Login(r, v) \/ RequestReset(r, v)
        PROVE  Covered(u)'
    BY <1>1, <2>0, <2>1, CoverKept DEF Login, RequestReset, At
  <2>2. ASSUME NEW r \in Request, NEW row \in resets, FindReset(r, row)
        PROVE  Covered(u)'
    BY <1>1, <2>0, <2>2, CoverKept DEF FindReset, At
  <2>3. ASSUME NEW r \in Request, CheckCount(r) \/ LockAccount(r) PROVE Covered(u)'
    BY <1>1, <2>0, <2>3, CoverKept DEF CheckCount, LockAccount, Finish, At
  <2>4. ASSUME NEW r \in Request, WrongPassword(r) PROVE Covered(u)'
    <3>1. request[r].user \in User /\ ~At(r, "expire")
      BY <2>0, <2>4 DEF WrongPassword, At
    <3>2. PICK p : Begin(r, p)
      BY <2>4, CountingBegins DEF WrongPassword
    <3>3. CASE request[r].user # u
      <4>1. failures'[u] = failures[u] /\ expiring' = expiring
        BY <2>0, <2>4, <3>3 DEF WrongPassword, TypeOK
      <4> QED
        BY <1>1, <2>0, <3>1, <3>2, <4>1, CoverKept
    <3>4. CASE request[r].user = u /\ failures[u] = 0
      <4>1. Begin(r, LoggingIn("expire", u, 1))
        BY <2>4, <3>4 DEF WrongPassword
      <4>2. request'[r] = LoggingIn("expire", u, 1)
        BY <2>0, <4>1 DEF Begin, TypeOK
      <4> QED
        BY <4>2 DEF Covered, At, LoggingIn, Serving
    <3>5. CASE failures[u] # 0
      <4>1. \A q \in Request \ {r} : request'[q] = request[q]
        BY <2>0, <3>2, OnlyOneMoves
      <4> QED
        BY <1>1, <2>4, <3>1, <3>5, <4>1 DEF WrongPassword, Covered, At
    <3> QED
      BY <3>3, <3>4, <3>5
  <2>5. ASSUME NEW r \in Request, RightPassword(r) PROVE Covered(u)'
    <3>1. request[r].user \in User /\ ~At(r, "expire")
      BY <2>0, <2>5 DEF RightPassword, At
    <3> QED
      BY <1>1, <2>0, <2>5, <3>1, CoverKept, ClearKeepsCover DEF RightPassword, Finish
  <2>6. ASSUME NEW r \in Request, SetExpiry(r) PROVE Covered(u)'
    <3>1. PICK p : Begin(r, p)
      BY <2>6, CountingBegins DEF SetExpiry
    <3>2. \A q \in Request \ {r} : request'[q] = request[q]
      BY <2>0, <3>1, OnlyOneMoves
    <3>3. CASE request[r].user = u
      <4>1. failures[u] \in Nat
        BY <2>0 DEF TypeOK
      <4> QED
        BY <2>6, <3>3, <4>1 DEF SetExpiry, Covered
    <3>4. CASE request[r].user # u
      BY <1>1, <2>6, <3>2, <3>4 DEF SetExpiry, Covered, At
    <3> QED
      BY <3>3, <3>4
  <2>7. ASSUME NEW r \in Request, ResetStep(r) PROVE Covered(u)'
    BY <1>1, <2>0, <2>7, CoverKept DEF ResetStep, IssueReset, SetPassword, Finish, At
  <2>8. ASSUME NEW r \in Request, Crash(r)
        PROVE  Covered(u)' \/ (request[r].user = u /\ At(r, "expire") /\ Crash(r))
    <3>1. \A q \in Request \ {r} : request'[q] = request[q]
      BY <2>0, <2>8, OnlyOneMoves DEF Crash, Finish
    <3> QED
      BY <1>1, <2>8, <3>1 DEF Crash, Covered, At
  <2>9. ASSUME NEW v \in User, CounterExpires(v) PROVE Covered(u)'
    BY <1>1, <2>0, <2>9, ClearKeepsCover DEF CounterExpires, Covered, At
  <2>10. ASSUME UNCHANGED <<failures, expiring, request>> PROVE Covered(u)'
    BY <1>1, <2>10 DEF Covered, At
  <2>11. ASSUME NEW r \in Request, LoginStep(r) PROVE Covered(u)'
    BY <2>3, <2>4, <2>5, <2>6, <2>11 DEF LoginStep
  <2> QED
    BY <1>1, <2>1, <2>2, <2>7, <2>8, <2>9, <2>10, <2>11
       DEF Next, ReactivateByInvite, ResetExpires, vars
<1>2. Typed /\ [Next]_vars =>
         [\A u \in User : Covered(u) /\ ~Covered(u)' => \E r \in Request :
             request[r].user = u /\ At(r, "expire") /\ Crash(r)]_vars
  BY <1>1
<1> QED
  BY TypedAlways, <1>2, PTL DEF Spec, CounterOutlivesOnlyACrash

-----------------------------------------------------------------------------
(***************************************************************************)
(* The second factor.  Neither of its properties is inductive by itself: a *)
(* handler writes back what it read, so the invariant must say the same of *)
(* the rows that requests remember.                                        *)
(***************************************************************************)

\* A row of user u that is safe to have in the table, now and later: proofs
\* and issues are only added.
SoundRow(u, row) ==
    row \in Factor!Row /\ Factor!ProvenRow(u, row) /\ Factor!OneBatch(u, row)

SoundRequest(r) ==
    /\ factorRequest[r] \in Factor!Progress
    /\ ~Factor!At(r, "idle") =>
           factorRequest[r].user \in Enrolled /\ SoundRow(factorRequest[r].user, Factor!Read(r))
    /\ Factor!At(r, "confirm") =>
           [user |-> factorRequest[r].user, secret |-> Factor!Read(r).secret] \in proven
    /\ Factor!At(r, "consume") => factorRequest[r].code \in Factor!Code
    /\ Factor!At(r, "consume") \/ Factor!At(r, "regenerate") => Factor!Read(r).enabled

TablesSound ==
    /\ twoFactor \in [Enrolled -> Factor!Row]
    /\ issued \subseteq Factor!Issue
    /\ proven \subseteq Factor!Proof
    /\ accepted \in [Factor!Code -> Nat]
    /\ \A u \in Enrolled : SoundRow(u, twoFactor[u])

FactorSound ==
    /\ TablesSound
    /\ factorRequest \in [Request -> Factor!Progress]
    /\ \A r \in Request : SoundRequest(r)

-----------------------------------------------------------------------------
LEMMA FactorSuffices ==
  FactorSound => Factor!TypeOK /\ Factor!OnlyProvenSecrets /\ Factor!CodesBelongToSecret
  BY DEF FactorSound, TablesSound, Factor!TypeOK, SoundRow, Factor!OnlyProvenSecrets,
     Factor!CodesBelongToSecret

LEMMA OffIsSound == \A u : SoundRow(u, Factor!Off)
  BY DEF SoundRow, Factor!Off, Factor!Columns, Factor!Row, Factor!ProvenRow, Factor!OneBatch

LEMMA FactorIdle == Factor!Idle \in Factor!Progress /\ Factor!Idle.step = "idle"
  BY DEF Factor!Idle, Factor!Serving, Factor!Off, Factor!Columns, Factor!Row,
     Factor!Progress, Factor!Step

LEMMA FactorInit == Factor!Init => FactorSound
<1> SUFFICES ASSUME Factor!Init PROVE FactorSound
  OBVIOUS
<1>1. \A u \in Enrolled : SoundRow(u, twoFactor[u]) /\ twoFactor[u] \in Factor!Row
  BY OffIsSound DEF Factor!Init, SoundRow
<1>2. TablesSound
  BY <1>1 DEF Factor!Init, TablesSound
<1>3. factorRequest \in [Request -> Factor!Progress] /\ \A r \in Request : SoundRequest(r)
  BY FactorIdle DEF Factor!Init, SoundRequest, Factor!At
<1> QED
  BY <1>2, <1>3 DEF FactorSound

\* A sound row stays sound as issues and proofs are added.
LEMMA SoundRowStays ==
  ASSUME NEW u, NEW row, SoundRow(u, row), issued \subseteq issued',
         proven \subseteq proven'
  PROVE  SoundRow(u, row)'
  BY DEF SoundRow, Factor!ProvenRow, Factor!OneBatch

\* The requests stay sound when one of them moves to sound progress.
LEMMA RequestsStay ==
  ASSUME FactorSound, NEW r \in Request, NEW p \in Factor!Progress, Factor!Begin(r, p),
         issued \subseteq issued', proven \subseteq proven',
         p.step # "idle" => p.user \in Enrolled /\ SoundRow(p.user, p.read)',
         p.step = "confirm" => [user |-> p.user, secret |-> p.read.secret] \in proven',
         p.step = "consume" => p.code \in Factor!Code,
         p.step \in {"consume", "regenerate"} => p.read.enabled
  PROVE  factorRequest' \in [Request -> Factor!Progress] /\ \A q \in Request : SoundRequest(q)'
<1>1. /\ factorRequest' = [factorRequest EXCEPT ![r] = p]
      /\ factorRequest \in [Request -> Factor!Progress]
  BY DEF FactorSound, Factor!Begin
<1>2. factorRequest' \in [Request -> Factor!Progress] /\ factorRequest'[r] = p
  BY <1>1
<1>3. SoundRequest(r)'
  BY <1>2 DEF SoundRequest, Factor!At, Factor!Read
<1>4. ASSUME NEW q \in Request, q # r PROVE SoundRequest(q)'
  <2>1. factorRequest'[q] = factorRequest[q] /\ SoundRequest(q)
    BY <1>1, <1>4 DEF FactorSound
  <2> DEFINE u == factorRequest[q].user
             row == factorRequest[q].read
  <2>2. SoundRow(u, row) => SoundRow(u, row)'
    BY SoundRowStays, <2>1 DEF SoundRow, Factor!ProvenRow, Factor!OneBatch
  <2> QED
    BY <1>2, <2>1, <2>2 DEF SoundRequest, Factor!At, Factor!Read
<1> QED
  BY <1>2, <1>3, <1>4

LEMMA FinishStays ==
  ASSUME FactorSound, NEW r \in Request, Factor!Finish(r), issued \subseteq issued',
         proven \subseteq proven'
  PROVE  factorRequest' \in [Request -> Factor!Progress] /\ \A q \in Request : SoundRequest(q)'
  BY FactorIdle, RequestsStay DEF Factor!Finish

\* The tables stay sound when set2FA writes a sound row.
LEMMA WriteStays ==
  ASSUME FactorSound, NEW r \in Request, NEW v \in Enrolled, v = factorRequest[r].user,
         NEW row \in Factor!Row,
         Factor!Set2FA(r, row), SoundRow(v, row)', issued \subseteq issued',
         issued' \subseteq Factor!Issue, proven' = proven, accepted' \in [Factor!Code -> Nat]
  PROVE  TablesSound'
<1>1. /\ twoFactor' = [twoFactor EXCEPT ![v] = row]
      /\ twoFactor \in [Enrolled -> Factor!Row]
  BY DEF FactorSound, TablesSound, Factor!Set2FA
<1>2. ASSUME NEW u \in Enrolled PROVE SoundRow(u, twoFactor[u])'
  <2>1. CASE u = v
    BY <1>1, <2>1 DEF SoundRow, Factor!ProvenRow, Factor!OneBatch
  <2>2. CASE u # v
    <3>1. twoFactor'[u] = twoFactor[u] /\ SoundRow(u, twoFactor[u])
      BY <1>1, <2>2 DEF FactorSound, TablesSound
    <3> QED
      BY <3>1 DEF SoundRow, Factor!ProvenRow, Factor!OneBatch
  <2> QED
    BY <2>1, <2>2
<1> QED
  BY <1>1, <1>2 DEF FactorSound, TablesSound

\* A handler that has only read, and possibly seen a proof, keeps the tables.
LEMMA ReadStays ==
  ASSUME FactorSound, UNCHANGED <<twoFactor, issued, accepted>>, proven \subseteq proven',
         proven' \subseteq Factor!Proof
  PROVE  TablesSound'
<1>1. ASSUME NEW u \in Enrolled PROVE SoundRow(u, twoFactor[u])'
  BY DEF FactorSound, TablesSound, SoundRow, Factor!ProvenRow, Factor!OneBatch
<1> QED
  BY <1>1 DEF FactorSound, TablesSound

LEMMA FactorServing ==
  ASSUME NEW step \in Factor!Step, NEW u \in Enrolled, NEW row \in Factor!Row,
         NEW c \in Factor!Code \cup {NoCode}
  PROVE  /\ Factor!Serving(step, u, row, c) \in Factor!Progress
         /\ Factor!Serving(step, u, row, c).step = step /\ Factor!Serving(step, u, row, c).user = u
         /\ Factor!Serving(step, u, row, c).read = row /\ Factor!Serving(step, u, row, c).code = c
  BY DEF Factor!Serving, Factor!Progress

-----------------------------------------------------------------------------
LEMMA FactorStep == FactorSound /\ [Factor!Next]_(Factor!vars) => FactorSound'
<1> SUFFICES ASSUME FactorSound, [Factor!Next]_(Factor!vars) PROVE FactorSound'
  OBVIOUS
<1> DEFINE RequestsSound == /\ factorRequest' \in [Request -> Factor!Progress]
                            /\ \A q \in Request : SoundRequest(q)'
<1> SUFFICES TablesSound' /\ RequestsSound
  BY DEF FactorSound
<1>1. ASSUME NEW r \in Request, NEW u \in Enrolled, NEW step \in Factor!Step \ {"confirm",
             "consume"},
             step = "regenerate" => twoFactor[u].enabled, proven \subseteq proven',
             proven' \subseteq Factor!Proof, UNCHANGED <<twoFactor, issued, accepted>>,
             Factor!Begin(r, Factor!Serving(step, u, twoFactor[u], NoCode))
      PROVE  TablesSound' /\ RequestsSound
  <2>1. twoFactor[u] \in Factor!Row /\ SoundRow(u, twoFactor[u])
    BY DEF FactorSound, TablesSound
  <2>2. SoundRow(u, twoFactor[u])'
    BY <1>1, <2>1 DEF SoundRow, Factor!ProvenRow, Factor!OneBatch
  <2>3. RequestsSound
    BY <1>1, <2>1, <2>2, FactorServing, RequestsStay
       DEF SoundRow, Factor!ProvenRow, Factor!OneBatch
  <2> QED
    BY <1>1, <2>3, ReadStays
<1>2. ASSUME NEW r \in Request, NEW u \in Enrolled, Factor!BeginSetup(r, u)
      PROVE  TablesSound' /\ RequestsSound
  BY <1>1, <1>2 DEF Factor!BeginSetup, Factor!Step, FactorSound, TablesSound
<1>3. ASSUME NEW u \in Enrolled, twoFactor[u].secret # NoSecret
      PROVE  [user |-> u, secret |-> twoFactor[u].secret] \in Factor!Proof
  BY <1>3 DEF FactorSound, TablesSound, Factor!Row, Factor!Proof
<1>4. ASSUME NEW r \in Request, NEW u \in Enrolled, Factor!ConfirmSetup(r, u)
      PROVE  TablesSound' /\ RequestsSound
  <2>1. /\ twoFactor[u] \in Factor!Row /\ SoundRow(u, twoFactor[u])
        /\ proven \subseteq proven' /\ proven' \subseteq Factor!Proof /\ issued' = issued
        /\ twoFactor' = twoFactor
        /\ [user |-> u, secret |-> twoFactor[u].secret] \in proven'
    BY <1>3, <1>4 DEF Factor!ConfirmSetup, FactorSound, TablesSound
  <2>2. SoundRow(u, twoFactor[u])'
    BY <2>1 DEF SoundRow, Factor!ProvenRow, Factor!OneBatch
  <2>3. "confirm" \in Factor!Step
    BY DEF Factor!Step
  <2>4. RequestsSound
    BY <1>4, <2>1, <2>2, <2>3, FactorServing, RequestsStay
       DEF Factor!ConfirmSetup, SoundRow, Factor!ProvenRow, Factor!OneBatch
  <2> QED
    BY <1>4, <2>1, <2>4, ReadStays DEF Factor!ConfirmSetup
<1>5. ASSUME NEW r \in Request, NEW u \in Enrolled, Factor!Disable(r, u)
      PROVE  TablesSound' /\ RequestsSound
  BY <1>1, <1>5 DEF Factor!Disable, Factor!Step, FactorSound, TablesSound
<1>6. ASSUME NEW r \in Request, NEW u \in Enrolled, NEW c \in Factor!Code,
             Factor!VerifyLogin(r, u, c)
      PROVE  TablesSound' /\ RequestsSound
  <2>1. twoFactor[u] \in Factor!Row /\ SoundRow(u, twoFactor[u]) /\ twoFactor[u].enabled
    BY <1>6 DEF Factor!VerifyLogin, FactorSound, TablesSound
  <2>2. UNCHANGED <<twoFactor, issued, proven, accepted>> /\ "consume" \in Factor!Step
    BY <1>6 DEF Factor!VerifyLogin, Factor!Step
  <2>3. SoundRow(u, twoFactor[u])'
    BY <2>1, <2>2 DEF SoundRow, Factor!ProvenRow, Factor!OneBatch
  <2>4. RequestsSound
    BY <1>6, <2>1, <2>2, <2>3, FactorServing, RequestsStay
       DEF Factor!VerifyLogin, SoundRow, Factor!ProvenRow, Factor!OneBatch
  <2> QED
    BY <2>2, <2>4, ReadStays DEF FactorSound, TablesSound
<1>7. ASSUME NEW r \in Request, NEW u \in Enrolled, Factor!RegenerateBackupCodes(r, u)
      PROVE  TablesSound' /\ RequestsSound
  BY <1>1, <1>3, <1>7
     DEF Factor!RegenerateBackupCodes, Factor!Step, FactorSound, TablesSound
<1>8. ASSUME NEW r \in Request, NEW v \in Enrolled, v = factorRequest[r].user,
             NEW row \in Factor!Row,
             Factor!Set2FA(r, row), Factor!Finish(r), SoundRow(v, row)', issued \subseteq issued',
             issued' \subseteq Factor!Issue, proven' = proven, accepted' \in [Factor!Code -> Nat]
      PROVE  TablesSound' /\ RequestsSound
  BY <1>8, WriteStays, FinishStays
\* The user and the row a request remembers, as names a prime leaves alone.
<1>9. ASSUME NEW r \in Request, ~Factor!At(r, "idle")
      PROVE  \E v \in Enrolled, old \in Factor!Row :
                 /\ v = factorRequest[r].user /\ old = Factor!Read(r)
                 /\ Factor!ProvenRow(v, old) /\ Factor!OneBatch(v, old)
  BY <1>9 DEF FactorSound, SoundRequest, SoundRow
<1>10. /\ issued \subseteq Factor!Issue /\ accepted \in [Factor!Code -> Nat]
       /\ proven \subseteq Factor!Proof
  BY DEF FactorSound, TablesSound
<1>11. ASSUME NEW r \in Request, NEW s \in Secret, NEW b \in Batch, Factor!StoreSetup(r,
              s, b)
       PROVE  TablesSound' /\ RequestsSound
  <2>1. PICK v \in Enrolled : v = factorRequest[r].user
    BY <1>9, <1>11 DEF Factor!StoreSetup, Factor!At
  <2> DEFINE i == [user |-> v, secret |-> s, batch |-> b]
             row == Factor!Columns(FALSE, s, Factor!CodesOf(b))
  <2>2. row \in Factor!Row
    BY DEF Factor!Columns, Factor!Row, Factor!CodesOf, Factor!Code
  <2>3. issued' = issued \cup {i} /\ i \in Factor!Issue
    BY <1>11, <2>1 DEF Factor!StoreSetup, Factor!Issue
  <2>4. Factor!OneBatch(v, row)'
    BY <2>3 DEF Factor!OneBatch, Factor!Columns
  <2>5. Factor!ProvenRow(v, row)'
    BY DEF Factor!ProvenRow, Factor!Columns
  <2>6. SoundRow(v, row)'
    BY <2>2, <2>4, <2>5 DEF SoundRow
  <2> QED
    BY <1>8, <1>11, <1>10, <2>1, <2>2, <2>3, <2>6 DEF Factor!StoreSetup
<1>12. ASSUME NEW r \in Request, Factor!Enable(r) PROVE TablesSound' /\ RequestsSound
  <2>1. PICK v \in Enrolled, old \in Factor!Row :
            /\ v = factorRequest[r].user /\ old = Factor!Read(r)
            /\ Factor!ProvenRow(v, old) /\ Factor!OneBatch(v, old)
    BY <1>9, <1>12 DEF Factor!Enable, Factor!At
  <2> DEFINE row == Factor!Columns(TRUE, old.secret, old.codes)
  <2>2. row \in Factor!Row
    BY DEF Factor!Columns, Factor!Row
  <2>3. [user |-> v, secret |-> old.secret] \in proven
    BY <1>12, <2>1 DEF Factor!Enable, FactorSound, SoundRequest
  <2>4. SoundRow(v, row)'
    BY <1>12, <2>1, <2>2, <2>3
       DEF Factor!Enable, SoundRow, Factor!ProvenRow, Factor!OneBatch, Factor!Columns
  <2> QED
    BY <1>8, <1>12, <1>10, <2>1, <2>2, <2>4 DEF Factor!Enable
<1>13. ASSUME NEW r \in Request, Factor!Clear(r) PROVE TablesSound' /\ RequestsSound
  <2>1. PICK v \in Enrolled : v = factorRequest[r].user
    BY <1>9, <1>13 DEF Factor!Clear, Factor!At
  <2>2. Factor!Off \in Factor!Row
    BY DEF Factor!Off, Factor!Columns, Factor!Row
  <2>3. SoundRow(v, Factor!Off)'
    BY <2>2 DEF SoundRow, Factor!Off, Factor!Columns, Factor!ProvenRow, Factor!OneBatch
  <2> QED
    BY <1>8, <1>13, <1>10, <2>1, <2>2, <2>3 DEF Factor!Clear
<1>14. ASSUME NEW r \in Request, Factor!ConsumeCode(r) PROVE TablesSound' /\ RequestsSound
  <2>1. PICK v \in Enrolled, old \in Factor!Row :
            /\ v = factorRequest[r].user /\ old = Factor!Read(r)
            /\ Factor!ProvenRow(v, old) /\ Factor!OneBatch(v, old)
    BY <1>9, <1>14 DEF Factor!ConsumeCode, Factor!At
  <2>2. PICK c \in Factor!Code : c = factorRequest[r].code
    BY <1>14 DEF Factor!ConsumeCode, FactorSound, SoundRequest, Factor!At
  <2> DEFINE row == Factor!Columns(TRUE, old.secret, old.codes \ {c})
  <2>3. old.enabled
    BY <1>14, <2>1 DEF Factor!ConsumeCode, FactorSound, SoundRequest
  <2>4. row \in Factor!Row
    BY DEF Factor!Columns, Factor!Row
  <2>5. Factor!ProvenRow(v, row)'
    BY <1>14, <2>1, <2>3 DEF Factor!ConsumeCode, Factor!ProvenRow, Factor!Columns
  <2>6. Factor!OneBatch(v, row)'
    BY <1>14, <2>1 DEF Factor!ConsumeCode, Factor!OneBatch, Factor!Columns
  <2>7. SoundRow(v, row)'
    BY <2>4, <2>5, <2>6 DEF SoundRow
  <2>8. accepted' \in [Factor!Code -> Nat]
    <3>1. accepted' = [accepted EXCEPT ![c] = accepted[c] + 1] /\ accepted[c] \in Nat
      BY <1>10, <1>14, <2>2 DEF Factor!ConsumeCode
    <3> HIDE DEF row
    <3> QED
      BY <1>10, <3>1
  <2>9. Factor!Set2FA(r, row)
    BY <1>14, <2>1, <2>2 DEF Factor!ConsumeCode
  <2> QED
    BY <1>8, <1>14, <1>10, <2>1, <2>4, <2>7, <2>8, <2>9 DEF Factor!ConsumeCode
<1>15. ASSUME NEW r \in Request, NEW b \in Batch, Factor!StoreCodes(r, b)
       PROVE  TablesSound' /\ RequestsSound
  <2>1. PICK v \in Enrolled, old \in Factor!Row :
            /\ v = factorRequest[r].user /\ old = Factor!Read(r)
            /\ Factor!ProvenRow(v, old) /\ Factor!OneBatch(v, old)
    BY <1>9, <1>15 DEF Factor!StoreCodes, Factor!At
  <2> DEFINE row == Factor!Columns(TRUE, old.secret, Factor!CodesOf(b))
             i == [user |-> v, secret |-> old.secret, batch |-> b]
  <2>2. old.enabled
    BY <1>15, <2>1 DEF Factor!StoreCodes, FactorSound, SoundRequest
  <2>3. [user |-> v, secret |-> old.secret] \in proven
    BY <2>1, <2>2 DEF Factor!ProvenRow
  <2>4. old.secret \in Secret
    BY <1>10, <2>3 DEF Factor!Proof
  <2>5. row \in Factor!Row
    BY DEF Factor!Columns, Factor!Row, Factor!CodesOf, Factor!Code
  <2>6. issued' = issued \cup {i} /\ i \in Factor!Issue
    BY <1>15, <2>1, <2>4 DEF Factor!StoreCodes, Factor!Issue
  <2>7. Factor!ProvenRow(v, row)'
    BY <1>15, <2>3 DEF Factor!StoreCodes, Factor!ProvenRow, Factor!Columns
  <2>8. Factor!OneBatch(v, row)'
    BY <2>6 DEF Factor!OneBatch, Factor!Columns
  <2>9. SoundRow(v, row)'
    BY <2>5, <2>7, <2>8 DEF SoundRow
  <2> QED
    BY <1>8, <1>15, <1>10, <2>1, <2>5, <2>6, <2>9 DEF Factor!StoreCodes
<1>16. ASSUME NEW r \in Request, Factor!Crash(r) PROVE TablesSound' /\ RequestsSound
  BY <1>16, ReadStays, FinishStays DEF Factor!Crash, FactorSound, TablesSound
<1>17. CASE UNCHANGED Factor!vars
  <2>1. TablesSound'
    BY <1>17, ReadStays DEF Factor!vars, FactorSound, TablesSound
  <2>2. ASSUME NEW r \in Request PROVE SoundRequest(r)'
    BY <1>17
       DEF Factor!vars, FactorSound, SoundRequest, SoundRow, Factor!ProvenRow,
           Factor!OneBatch, Factor!At, Factor!Read
  <2> QED
    BY <1>17, <2>1, <2>2 DEF Factor!vars, FactorSound
<1>18. ASSUME NEW r \in Request, Factor!ReadStep(r) PROVE TablesSound' /\ RequestsSound
  BY <1>2, <1>4, <1>5, <1>6, <1>7, <1>18 DEF Factor!ReadStep
<1>19. ASSUME NEW r \in Request, Factor!WriteStep(r) PROVE TablesSound' /\ RequestsSound
  BY <1>11, <1>12, <1>13, <1>14, <1>15, <1>19 DEF Factor!WriteStep
<1> QED
  BY <1>16, <1>17, <1>18, <1>19 DEF Factor!Next

LEMMA FactorAlways == Factor!Spec => []FactorSound
  BY FactorInit, FactorStep, PTL DEF Factor!Spec

-----------------------------------------------------------------------------
(***************************************************************************)
(* The two together.                                                       *)
(***************************************************************************)

\* However the handlers of both sides interleave, each side behaves as it does
\* alone: whatever is proved of one holds of it beside the other.
THEOREM InterleavedImplementTheirParts == Interleaved => Spec /\ Factor!Spec
<1>1. ASSUME [\/ Next /\ UNCHANGED factor
              \/ Factor!Next /\ UNCHANGED vars]_<<vars, factor>>
      PROVE  [Next]_vars /\ [Factor!Next]_(Factor!vars)
  BY <1>1 DEF factor, vars, lockout, resetTables, Factor!vars
<1> QED
  BY <1>1, PTL DEF Interleaved, Spec, Factor!Spec

\* The service keeps every invariant of both, and its steps the action property.
THEOREM InterleavedIsSound ==
    Interleaved =>
        /\ [](TypesOK /\ OnlyProvenSecrets /\ CodesBelongToSecret)
        /\ [](GuessesBounded /\ LiveResetsBounded /\ RedeemsBounded)
        /\ CounterOutlivesOnlyACrash
<1>1. Typed /\ FactorSound => TypesOK /\ OnlyProvenSecrets /\ CodesBelongToSecret
  BY FactorSuffices DEF Typed, TypesOK, OnlyProvenSecrets, CodesBelongToSecret
<1> QED
  BY <1>1, InterleavedImplementTheirParts, TypedAlways, FactorAlways, GuessesBoundedAlways,
     LiveResetsBoundedAlways, RedeemsBoundedAlways, OnlyACrashUncovers, PTL

\* So a behaviour that exercises one side is a behaviour of each.
THEOREM AccountsImplementTheirParts == AccountsSpec => Spec /\ Factor!Spec
<1>1. AccountsInit => Init /\ Factor!Init
  BY DEF AccountsInit
<1>2. [AccountsNext]_accountVars => [Next]_vars /\ [Factor!Next]_(Factor!vars)
  BY DEF AccountsNext, accountVars, factor, vars, lockout, resetTables, Factor!vars
<1> QED
  BY <1>1, <1>2, PTL DEF AccountsSpec, Spec, Factor!Spec

\* Status, counters, tokens and columns, and whatever a request of either side
\* remembers, keep their types.
THEOREM EveryTypeCorrect == AccountsSpec => []TypesOK
<1>1. Typed /\ FactorSound => TypesOK
  BY FactorSuffices DEF Typed, TypesOK
<1> QED
  BY <1>1, AccountsImplementTheirParts, TypedAlways, FactorAlways, PTL

\* However many attempts overlap, the passwords tried since the counter was
\* cleared exceed the limit by less than the number of requests.
THEOREM TheGuessesAreBounded == AccountsSpec => []GuessesBounded
  BY AccountsImplementTheirParts, GuessesBoundedAlways, PTL

\* Requests that overlap leave at most as many live reset tokens of a user.
THEOREM TheLiveResetsAreBounded == AccountsSpec => []LiveResetsBounded
  BY AccountsImplementTheirParts, LiveResetsBoundedAlways, PTL

\* A reset token sets at most as many passwords as requests overlap.
THEOREM TheRedeemsAreBounded == AccountsSpec => []RedeemsBounded
  BY AccountsImplementTheirParts, RedeemsBoundedAlways, PTL

\* Only the stop of the attempt that created the counter leaves it without a
\* time to live.
THEOREM OnlyACrashUncoversTheCounter == AccountsSpec => CounterOutlivesOnlyACrash
  BY AccountsImplementTheirParts, OnlyACrashUncovers, PTL

\* 2FA is on only with a secret the user has shown a code of.
THEOREM OnlyProvenSecretsAlways == AccountsSpec => []OnlyProvenSecrets
<1>1. FactorSound => OnlyProvenSecrets
  BY FactorSuffices DEF OnlyProvenSecrets
<1> QED
  BY <1>1, AccountsImplementTheirParts, FactorAlways, PTL

\* Overlapping rewrites never mix the backup codes of two enrolments.
THEOREM CodesBelongToSecretAlways == AccountsSpec => []CodesBelongToSecret
<1>1. FactorSound => CodesBelongToSecret
  BY FactorSuffices DEF CodesBelongToSecret
<1> QED
  BY <1>1, AccountsImplementTheirParts, FactorAlways, PTL
=============================================================================
