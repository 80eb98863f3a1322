----------------------------- MODULE CrmProofs ------------------------------
(***************************************************************************)
(* What the components of crm-core promise, for any finite sets of         *)
(* activities and requests and any sets of webhooks, branches, leads,      *)
(* agents, tasks and mails: each has its inductive invariant, which no     *)
(* other component disturbs.                                               *)
(***************************************************************************)
EXTENDS Crm, FiniteSetTheorems, SequenceTheorems, WellFoundedInduction, TLAPS

-----------------------------------------------------------------------------
(***************************************************************************)
(* Lead activities: the columns that summarise those of a lead.            *)
(***************************************************************************)

USE DEF table, columns

LEMMA Least ==
  ASSUME NEW S \in SUBSET Nat, S # {}
  PROVE  \E m \in S : \A k \in S : m <= k
<1> DEFINE T == {0..k : k \in S}
<1>1. \A k \in S : 0..k \in FiniteSubsetsOf(Nat)
  BY FS_Interval DEF FiniteSubsetsOf
<1>2. T \subseteq FiniteSubsetsOf(Nat) /\ T # {}
  BY <1>1
<1> HIDE DEF T
<1>3. PICK x \in T : \A y \in T : ~ (<<y, x>> \in StrictSubsetOrdering(Nat))
  BY <1>2, FS_StrictSubsetOrderingWellFounded, WFMin
<1>4. PICK m \in S : x = 0..m
  BY <1>3 DEF T
<1>5. ASSUME NEW k \in S, k < m PROVE FALSE
  <2>1. 0..k \in T /\ 0..k \subseteq 0..m /\ 0..k # 0..m
    BY <1>5 DEF T
  <2>2. <<0..k, x>> \in StrictSubsetOrdering(Nat)
    BY <1>4, <2>1 DEF StrictSubsetOrdering
  <2> QED
    BY <1>3, <2>1, <2>2
<1> QED
  BY <1>5

LEMMA Greatest ==
  ASSUME NEW n \in Nat, NEW S \in SUBSET (0..n), S # {}
  PROVE  \E m \in S : \A k \in S : k <= m
<1> DEFINE T == {n - k : k \in S}
<1>1. \A k \in S : n - k \in Nat
  OBVIOUS
<1>a. T \in SUBSET Nat /\ T # {}
  BY <1>1
<1> HIDE DEF T
<1>2. PICK t \in T : \A u \in T : t <= u
  BY <1>a, Least
<1>3. PICK m \in S : t = n - m
  BY <1>2 DEF T
<1>4. \A k \in S : n - k \in T
  BY DEF T
<1>5. \A k \in S : n - m <= n - k
  BY <1>2, <1>3, <1>4
<1>6. \A k \in S : k <= m
  BY <1>5
<1> QED
  BY <1>6

-----------------------------------------------------------------------------
(***************************************************************************)
(* What a request remembers suits the statements it still has to run.      *)
(***************************************************************************)

Creating(p) ==
    \/ p.todo = {"row", "count"} /\ p.owes = {}
    \/ p.todo = {"row"} /\ p.owes = {"touchpoints", "last"}
    \/ p.todo = {"count"} /\ p.owes \in {{"touchpoints", "last"}, Column}
    \/ p.todo \in {{"readFollowUp"}, {"writeFollowUp"}} /\ p.owes = {"followUp"}

Updating(p) ==
    \/ p.todo = {"row"} /\ p.owes = {}
    \/ p.todo \in {{"readFollowUp"}, {"writeFollowUp"}} /\ p.owes = {"followUp"}

Deleting(p) ==
    \/ p.todo = {"row"} /\ p.owes = {}
    \/ /\ "row" \notin p.todo
       /\ "touchpoints" \in p.owes <=> "count" \in p.todo
       /\ "last" \in p.owes <=> "readLast" \in p.todo \/ "writeLast" \in p.todo
       /\ "followUp" \in p.owes <=> "readFollowUp" \in p.todo \/ "writeFollowUp" \in p.todo
       /\ "readLast" \in p.todo => "writeLast" \notin p.todo
       /\ "readFollowUp" \in p.todo => "writeFollowUp" \notin p.todo

Fits(p) ==
    /\ p \in Progress
    /\ p.kind = "idle" => p.todo = {} /\ p.owes = {}
    /\ p.kind # "idle" => p.todo # {} /\ p.activity \in Activity
    /\ p.kind = "create" => Creating(p)
    /\ p.kind = "update" => Updating(p)
    /\ p.kind = "delete" => Deleting(p)

RequestsFit == request \in [Request -> Progress] /\ \A r \in Request : Fits(request[r])

\* Request q stays where it is and learns at most that columns are outdated,
\* those in cols included.
Kept(q, cols) ==
    /\ request'[q].kind = request[q].kind
    /\ request'[q].activity = request[q].activity
    /\ request'[q].todo = request[q].todo
    /\ request'[q].owes = request[q].owes
    /\ request'[q].last = request[q].last
    /\ request'[q].followUp = request[q].followUp
    /\ request[q].outdated \subseteq request'[q].outdated
    /\ Todo(q) # {} => cols \subseteq request'[q].outdated

\* Request r goes on with p, or is answered.
Went(r, p) ==
    /\ p.todo # {} => request'[r] = p
    /\ p.todo = {} => request'[r] = Idle

LEMMA IdleFits == Fits(Idle) /\ Idle.kind = "idle" /\ Idle.todo = {} /\ Idle.owes = {}
  BY DEF Fits, Idle, Serving, Progress, Statement, Column

LEMMA OvertakenFits ==
  ASSUME RequestsFit, NEW q \in Request, NEW cols \in SUBSET Column
  PROVE  LET o == Overtaken(q, cols) IN
         /\ Fits(o)
         /\ o.kind = request[q].kind /\ o.activity = request[q].activity
         /\ o.todo = request[q].todo /\ o.owes = request[q].owes
         /\ o.last = request[q].last /\ o.followUp = request[q].followUp
         /\ request[q].outdated \subseteq o.outdated
         /\ Todo(q) # {} => cols \subseteq o.outdated
<1>1. Fits(request[q]) /\ request[q] \in Progress
  BY DEF RequestsFit
<1> DEFINE p == [request[q] EXCEPT !.outdated = request[q].outdated \cup cols]
<1>2. /\ p \in Progress
      /\ p.kind = request[q].kind /\ p.activity = request[q].activity
      /\ p.todo = request[q].todo /\ p.owes = request[q].owes
      /\ p.last = request[q].last /\ p.followUp = request[q].followUp
      /\ p.outdated = request[q].outdated \cup cols
  BY <1>1 DEF Progress
<1> HIDE DEF p
<1>3. Fits(p)
  BY <1>1, <1>2 DEF Fits, Creating, Updating, Deleting
<1>4. Overtaken(q, cols) = IF Todo(q) = {} THEN request[q] ELSE p
  BY DEF Overtaken, p
<1> QED
  BY <1>1, <1>2, <1>3, <1>4

LEMMA ProceedMoves ==
  ASSUME RequestsFit, NEW r \in Request, NEW p, p.todo # {} => Fits(p),
         NEW cols \in SUBSET Column, Proceed(r, p, RowsChanged(cols))
  PROVE  /\ RequestsFit' /\ Went(r, p)
         /\ \A q \in Request \ {r} : Kept(q, cols)
<1> DEFINE s == IF p.todo = {} THEN Idle ELSE p
<1>1. Fits(s) /\ s \in Progress
  BY IdleFits DEF Fits
<1> HIDE DEF s
<1>2. request' = [q \in Request |-> IF q # r THEN Overtaken(q, cols) ELSE s]
  BY DEF Proceed, RowsChanged, s
<1>3. \A q \in Request \ {r} : request'[q] = Overtaken(q, cols) /\ Kept(q, cols)
  BY <1>2, OvertakenFits DEF Kept
<1>4. request'[r] = s /\ Went(r, p)
  BY <1>2 DEF Went, s
<1>5. \A q \in Request : Fits(request'[q])
  BY <1>1, <1>3, <1>4, OvertakenFits
<1>6. request' \in [Request -> Progress]
  BY <1>2, <1>5 DEF Fits
<1> QED
  BY <1>3, <1>4, <1>5, <1>6 DEF RequestsFit

LEMMA AloneMoves ==
  ASSUME RequestsFit, NEW r \in Request, NEW p, p.todo # {} => Fits(p), Alone(r, p)
  PROVE  /\ RequestsFit' /\ Went(r, p)
         /\ \A q \in Request \ {r} : request'[q] = request[q] /\ Kept(q, {})
<1> DEFINE s == IF p.todo = {} THEN Idle ELSE p
<1>1. Fits(s) /\ s \in Progress
  BY IdleFits DEF Fits
<1> HIDE DEF s
<1>2. request' = [q \in Request |-> IF q # r THEN request[q] ELSE s]
  BY DEF Proceed, Alone, s
<1>3. \A q \in Request \ {r} : request'[q] = request[q] /\ Kept(q, {})
  BY <1>2 DEF Kept
<1>4. request'[r] = s /\ Went(r, p)
  BY <1>2 DEF Went, s
<1>5. \A q \in Request : Fits(request'[q])
  BY <1>1, <1>3, <1>4 DEF RequestsFit
<1>6. request' \in [Request -> Progress]
  BY <1>2, <1>5 DEF Fits
<1> QED
  BY <1>3, <1>4, <1>5, <1>6 DEF RequestsFit

LEMMA LastWrittenMoves ==
  ASSUME RequestsFit, NEW r \in Request, NEW p, p.todo # {} => Fits(p),
         Proceed(r, p, LastWritten)
  PROVE  /\ RequestsFit' /\ Went(r, p)
         /\ \A q \in Request \ {r} :
                Kept(q, {}) /\ (Is(q, "create") => Kept(q, {"last"}))
<1> DEFINE s == IF p.todo = {} THEN Idle ELSE p
<1>1. Fits(s) /\ s \in Progress
  BY IdleFits DEF Fits
<1> HIDE DEF s
<1>2. request' = [q \in Request |-> IF q # r THEN LastWritten[q] ELSE s]
  BY DEF Proceed, s
<1>3. \A q \in Request \ {r} :
          /\ request'[q] = IF Is(q, "create") THEN Overtaken(q, {"last"}) ELSE request[q]
          /\ Kept(q, {}) /\ (Is(q, "create") => Kept(q, {"last"}))
          /\ Fits(request'[q])
  BY <1>2, OvertakenFits DEF Kept, LastWritten, RequestsFit, Column
<1>4. request'[r] = s /\ Went(r, p)
  BY <1>2 DEF Went, s
<1>5. \A q \in Request : Fits(request'[q])
  BY <1>1, <1>3, <1>4
<1>6. request' \in [Request -> Progress]
  BY <1>2, <1>5 DEF Fits
<1> QED
  BY <1>3, <1>4, <1>5, <1>6 DEF RequestsFit

-----------------------------------------------------------------------------
(***************************************************************************)
(* Where each statement takes its request.                                 *)
(***************************************************************************)

\* Request r is at the statements todo of its request, and owes the columns owes.
Becomes(r, todo, owes) ==
    /\ request'[r].kind = request[r].kind
    /\ request'[r].activity = request[r].activity
    /\ request'[r].todo = todo
    /\ request'[r].owes = owes

\* How one request serves another statement of its own.
Onward(p, todo, owes) == [p EXCEPT !.todo = todo, !.owes = owes]

LEMMA OnwardIs ==
  ASSUME NEW p \in Progress, NEW todo \in SUBSET Statement, NEW owes \in SUBSET Column
  PROVE  LET n == Onward(p, todo, owes) IN
         /\ n \in Progress /\ n.kind = p.kind /\ n.activity = p.activity
         /\ n.todo = todo /\ n.owes = owes /\ n.outdated = p.outdated
         /\ n.last = p.last /\ n.followUp = p.followUp
  BY DEF Onward, Progress

Dated(d) == IF d # None THEN {"followUp"} ELSE {}

LEMMA InsertMoves ==
  ASSUME RequestsFit, NEW r \in Request, NEW d \in Due \cup {None}, InsertActivity(r, d)
  PROVE  /\ RequestsFit'
         /\ Is(r, "create") /\ request[r].activity \in Activity
         /\ \A q \in Request \ {r} : Kept(q, {"last"} \cup Dated(d))
         /\ "count" \in Todo(r) =>
               /\ Todo(r) = {"row", "count"}
               /\ Becomes(r, {"count"}, {"touchpoints", "last"} \cup Dated(d))
               /\ request'[r].outdated = request[r].outdated
         /\ "count" \notin Todo(r) =>
               /\ Todo(r) = {"row"}
               /\ d # None => Becomes(r, {"readFollowUp"}, {"followUp"})
               /\ d = None => request'[r] = Idle
<1> DEFINE owes == (IF "count" \in Todo(r) THEN {"touchpoints", "last"} ELSE {})
                      \cup Dated(d)
           todo == IF "count" \in Todo(r) THEN {"count"}
                   ELSE IF d # None THEN {"readFollowUp"} ELSE {}
           p == Onward(request[r], todo, owes)
<1>1. /\ Fits(request[r]) /\ request[r] \in Progress /\ Creating(request[r])
      /\ Is(r, "create") /\ "row" \in Todo(r) /\ request[r].activity \in Activity
  BY DEF RequestsFit, InsertActivity, Fits, Is
<1>2. \/ Todo(r) = {"row", "count"}
      \/ Todo(r) = {"row"} /\ "count" \notin Todo(r)
  BY <1>1 DEF Creating, Todo
<1>3. todo \in SUBSET Statement /\ owes \in SUBSET Column
  BY DEF Statement, Column, Dated
<1>4. /\ p \in Progress /\ p.kind = request[r].kind /\ p.activity = request[r].activity
      /\ p.todo = todo /\ p.owes = owes /\ p.outdated = request[r].outdated
  BY <1>1, <1>3, OnwardIs
<1>5. Following(r, "row", owes) = todo
  BY <1>2 DEF Following, Dated
<1>6. Proceed(r, p, RowsChanged({"last"} \cup Dated(d)))
  BY <1>5 DEF InsertActivity, Onward, Dated
<1> HIDE DEF p
<1>7. todo # {} => Creating(p)
  BY <1>2, <1>4 DEF Creating, Dated, Column
<1>8. p.todo # {} => Fits(p)
  BY <1>1, <1>4, <1>7 DEF Fits, Is
<1>9. {"last"} \cup Dated(d) \in SUBSET Column
  BY DEF Dated, Column
<1>10. /\ RequestsFit' /\ Went(r, p)
       /\ \A q \in Request \ {r} : Kept(q, {"last"} \cup Dated(d))
  BY <1>6, <1>8, <1>9, ProceedMoves
<1>11. CASE "count" \in Todo(r)
  BY <1>1, <1>2, <1>4, <1>10, <1>11 DEF Went, Becomes
<1>12. CASE "count" \notin Todo(r)
  BY <1>1, <1>2, <1>4, <1>10, <1>12 DEF Went, Becomes, Dated
<1> QED
  BY <1>11, <1>12

LEMMA CountMoves ==
  ASSUME RequestsFit, NEW r \in Request, CountActivity(r)
  PROVE  /\ RequestsFit'
         /\ Is(r, "create") /\ request[r].activity \in Activity
         /\ \A q \in Request \ {r} :
                Kept(q, {}) /\ (Is(q, "create") => Kept(q, {"last"}))
         /\ "row" \in Todo(r) =>
               /\ Todo(r) = {"row", "count"}
               /\ Becomes(r, {"row"}, {"touchpoints", "last"})
               /\ request'[r].outdated = request[r].outdated
         /\ "row" \notin Todo(r) =>
               /\ Todo(r) = {"count"}
               /\ "touchpoints" \in request[r].owes
               /\ \/ "followUp" \in request[r].owes
                     /\ Becomes(r, {"readFollowUp"}, {"followUp"})
                  \/ "followUp" \notin request[r].owes /\ request'[r] = Idle
<1> DEFINE due_ == "followUp" \in request[r].owes
           owes == IF "row" \in Todo(r) THEN {"touchpoints", "last"}
                   ELSE request[r].owes \ {"touchpoints", "last"}
           todo == IF "row" \in Todo(r) THEN {"row"}
                   ELSE IF due_ THEN {"readFollowUp"} ELSE {}
           p == Onward(request[r], todo, owes)
<1>1. /\ Fits(request[r]) /\ request[r] \in Progress /\ Creating(request[r])
      /\ Is(r, "create") /\ "count" \in Todo(r) /\ request[r].activity \in Activity
  BY DEF RequestsFit, CountActivity, Fits, Is
<1>2. \/ Todo(r) = {"row", "count"}
      \/ /\ Todo(r) = {"count"} /\ "row" \notin Todo(r)
         /\ request[r].owes \in {{"touchpoints", "last"}, Column}
  BY <1>1 DEF Creating, Todo
<1>3. todo \in SUBSET Statement /\ owes \in SUBSET Column
  BY <1>1 DEF Statement, Column, Progress
<1>4. /\ p \in Progress /\ p.kind = request[r].kind /\ p.activity = request[r].activity
      /\ p.todo = todo /\ p.owes = owes /\ p.outdated = request[r].outdated
  BY <1>1, <1>3, OnwardIs
<1>a. "row" \notin Todo(r) => owes = IF due_ THEN {"followUp"} ELSE {}
  BY <1>2 DEF Column
<1>5. Following(r, "count", owes) = todo
  BY <1>2, <1>a DEF Following
<1>6. Proceed(r, p, LastWritten)
  BY <1>5 DEF CountActivity, Onward
<1> HIDE DEF p
<1>7. todo # {} => Creating(p)
  BY <1>2, <1>4, <1>a DEF Creating
<1>8. p.todo # {} => Fits(p)
  BY <1>1, <1>4, <1>7 DEF Fits, Is
<1>10. /\ RequestsFit' /\ Went(r, p)
       /\ \A q \in Request \ {r} :
              Kept(q, {}) /\ (Is(q, "create") => Kept(q, {"last"}))
  BY <1>6, <1>8, LastWrittenMoves
<1>11. CASE "row" \in Todo(r)
  BY <1>1, <1>2, <1>4, <1>10, <1>11 DEF Went, Becomes
<1>12. CASE "row" \notin Todo(r)
  BY <1>1, <1>2, <1>4, <1>a, <1>10, <1>12 DEF Went, Becomes, Column
<1> QED
  BY <1>11, <1>12

LEMMA UpdateMoves ==
  ASSUME RequestsFit, NEW r \in Request, NEW d, UpdateRow(r, d)
  PROVE  /\ RequestsFit'
         /\ Is(r, "update") /\ Todo(r) = {"row"}
         /\ \A q \in Request \ {r} : Kept(q, {"followUp"})
         /\ Becomes(r, {"readFollowUp"}, {"followUp"})
<1> DEFINE p == Onward(request[r], {"readFollowUp"}, {"followUp"})
<1>1. /\ Fits(request[r]) /\ request[r] \in Progress /\ Is(r, "update") /\ Todo(r) = {"row"}
  BY DEF RequestsFit, UpdateRow, Fits, Updating, Is, Todo
<1>2. /\ p \in Progress /\ p.kind = request[r].kind /\ p.activity = request[r].activity
      /\ p.todo = {"readFollowUp"} /\ p.owes = {"followUp"}
  BY <1>1, OnwardIs DEF Statement, Column
<1>3. Proceed(r, p, RowsChanged({"followUp"}))
  BY DEF UpdateRow, Onward
<1> HIDE DEF p
<1>4. Fits(p)
  BY <1>1, <1>2 DEF Fits, Is, Updating
<1>5. /\ RequestsFit' /\ Went(r, p) /\ \A q \in Request \ {r} : Kept(q, {"followUp"})
  BY <1>3, <1>4, ProceedMoves DEF Column
<1> QED
  BY <1>1, <1>2, <1>5 DEF Went, Becomes

LEMMA MarkMoves ==
  ASSUME RequestsFit, NEW r \in Request, MarkDeleted(r)
  PROVE  /\ RequestsFit'
         /\ Is(r, "delete") /\ Todo(r) = {"row"}
         /\ \A q \in Request \ {r} : Kept(q, {"last", "followUp"})
         /\ Becomes(r, {"count", "readLast", "readFollowUp"}, Column)
<1> DEFINE p == Onward(request[r], {"count", "readLast", "readFollowUp"}, Column)
<1>1. /\ Fits(request[r]) /\ request[r] \in Progress /\ Is(r, "delete") /\ Todo(r) = {"row"}
  BY DEF RequestsFit, MarkDeleted, Fits, Deleting, Is, Todo
<1>2. /\ p \in Progress /\ p.kind = request[r].kind /\ p.activity = request[r].activity
      /\ p.todo = {"count", "readLast", "readFollowUp"} /\ p.owes = Column
  BY <1>1, OnwardIs DEF Statement
<1>3. Proceed(r, p, RowsChanged({"last", "followUp"}))
  BY DEF MarkDeleted, Onward
<1> HIDE DEF p
<1>4. Fits(p)
  BY <1>1, <1>2 DEF Fits, Is, Deleting, Column
<1>5. /\ RequestsFit' /\ Went(r, p)
      /\ \A q \in Request \ {r} : Kept(q, {"last", "followUp"})
  BY <1>3, <1>4, ProceedMoves DEF Column
<1> QED
  BY <1>1, <1>2, <1>5 DEF Went, Becomes

LEMMA DiscountMoves ==
  ASSUME RequestsFit, NEW r \in Request, DiscountActivity(r)
  PROVE  /\ RequestsFit'
         /\ Is(r, "delete") /\ "count" \in Todo(r)
         /\ \A q \in Request \ {r} : Kept(q, {})
         /\ \/ /\ Becomes(r, Todo(r) \ {"count"}, request[r].owes \ {"touchpoints"})
               /\ request'[r].outdated = request[r].outdated
               /\ request'[r].last = request[r].last
               /\ request'[r].followUp = request[r].followUp
            \/ Todo(r) = {"count"} /\ request'[r] = Idle
<1> DEFINE p == Onward(request[r], Todo(r) \ {"count"}, request[r].owes \ {"touchpoints"})
<1>1. /\ Fits(request[r]) /\ request[r] \in Progress /\ Is(r, "delete")
      /\ "count" \in Todo(r) /\ "row" \notin Todo(r) /\ Deleting(request[r])
  BY DEF RequestsFit, DiscountActivity, Fits, Deleting, Is, Todo
<1>2. /\ p \in Progress /\ p.kind = request[r].kind /\ p.activity = request[r].activity
      /\ p.todo = Todo(r) \ {"count"} /\ p.owes = request[r].owes \ {"touchpoints"}
      /\ p.outdated = request[r].outdated
      /\ p.last = request[r].last /\ p.followUp = request[r].followUp
  <2>1. Todo(r) \ {"count"} \in SUBSET Statement
    BY <1>1 DEF Progress, Todo
  <2>2. request[r].owes \ {"touchpoints"} \in SUBSET Column
    BY <1>1 DEF Progress
  <2> QED
    BY <1>1, <2>1, <2>2, OnwardIs
<1>3. Alone(r, p)
  BY DEF DiscountActivity, Onward, Todo
<1> HIDE DEF p
<1>a. Deleting(p)
  BY <1>1, <1>2 DEF Deleting, Todo
<1>4. p.todo # {} => Fits(p)
  BY <1>1, <1>2, <1>a DEF Fits, Is
<1>5. RequestsFit' /\ Went(r, p) /\ \A q \in Request \ {r} : Kept(q, {})
  BY <1>3, <1>4, AloneMoves
<1>6. p.todo = {} => Todo(r) = {"count"}
  BY <1>1, <1>2
<1> QED
  BY <1>1, <1>2, <1>5, <1>6 DEF Went, Becomes

\* A recalculation reads, ...
LEMMA ReadLastMoves ==
  ASSUME RequestsFit, NEW r \in Request, ReadLast(r), Latest \in Activity \cup {None}
  PROVE  /\ RequestsFit'
         /\ \A q \in Request \ {r} : Kept(q, {})
         /\ "readLast" \in Todo(r)
         /\ Becomes(r, (Todo(r) \ {"readLast"}) \cup {"writeLast"}, request[r].owes)
         /\ request'[r].outdated = request[r].outdated \ {"last"}
         /\ request'[r].last = Latest
         /\ request'[r].followUp = request[r].followUp
<1> DEFINE p == [request[r] EXCEPT !.todo = (Todo(r) \ {"readLast"}) \cup {"writeLast"},
                                   !.outdated = request[r].outdated \ {"last"},
                                   !.last = Latest]
<1>0. Fits(request[r]) /\ request[r] \in Progress
  BY DEF RequestsFit
<1>1. /\ p.kind = request[r].kind /\ p.activity = request[r].activity
      /\ p.todo = (Todo(r) \ {"readLast"}) \cup {"writeLast"} /\ p.owes = request[r].owes
      /\ p.outdated = request[r].outdated \ {"last"}
      /\ p.last = Latest /\ p.followUp = request[r].followUp
      /\ p \in Progress
  BY <1>0 DEF Progress, Todo, Statement
<1>2. Alone(r, p) /\ "readLast" \in Todo(r)
  BY DEF ReadLast, Todo
<1> HIDE DEF p
<1>3. request[r].kind = "delete" /\ Deleting(request[r]) /\ "row" \notin Todo(r)
  BY <1>0, <1>2 DEF Fits, Progress, Creating, Updating, Deleting, Todo
<1>4. Deleting(p)
  BY <1>1, <1>2, <1>3 DEF Deleting, Todo
<1>5. Fits(p) /\ p.todo # {}
  BY <1>0, <1>1, <1>3, <1>4 DEF Fits
<1>6. RequestsFit' /\ Went(r, p) /\ \A q \in Request \ {r} : Kept(q, {})
  BY <1>2, <1>5, AloneMoves
<1> QED
  BY <1>1, <1>2, <1>5, <1>6 DEF Went, Becomes

LEMMA ReadFollowUpMoves ==
  ASSUME RequestsFit, NEW r \in Request, ReadFollowUp(r), EarliestDue \in Due \cup {None}
  PROVE  /\ RequestsFit'
         /\ \A q \in Request \ {r} : Kept(q, {})
         /\ "readFollowUp" \in Todo(r)
         /\ Becomes(r, (Todo(r) \ {"readFollowUp"}) \cup {"writeFollowUp"}, request[r].owes)
         /\ request'[r].outdated = request[r].outdated \ {"followUp"}
         /\ request'[r].last = request[r].last
         /\ request'[r].followUp = EarliestDue
<1> DEFINE p == [request[r] EXCEPT
                    !.todo = (Todo(r) \ {"readFollowUp"}) \cup {"writeFollowUp"},
                    !.outdated = request[r].outdated \ {"followUp"},
                    !.followUp = EarliestDue]
<1>0. Fits(request[r]) /\ request[r] \in Progress
  BY DEF RequestsFit
<1>1. /\ p.kind = request[r].kind /\ p.activity = request[r].activity
      /\ p.todo = (Todo(r) \ {"readFollowUp"}) \cup {"writeFollowUp"}
      /\ p.owes = request[r].owes
      /\ p.outdated = request[r].outdated \ {"followUp"}
      /\ p.last = request[r].last /\ p.followUp = EarliestDue
      /\ p \in Progress
  BY <1>0 DEF Progress, Todo, Statement
<1>2. Alone(r, p) /\ "readFollowUp" \in Todo(r)
  BY DEF ReadFollowUp, Todo
<1> HIDE DEF p
<1>3. request[r].kind # "idle"
  BY <1>0, <1>2 DEF Fits, Todo
<1>4. ASSUME request[r].kind = "create" PROVE Creating(p)
  <2>1. Todo(r) = {"readFollowUp"} /\ request[r].owes = {"followUp"}
    BY <1>0, <1>2, <1>4 DEF Fits, Creating, Todo
  <2> QED
    BY <1>1, <2>1 DEF Creating
<1>5. ASSUME request[r].kind = "update" PROVE Updating(p)
  <2>1. Todo(r) = {"readFollowUp"} /\ request[r].owes = {"followUp"}
    BY <1>0, <1>2, <1>5 DEF Fits, Updating, Todo
  <2> QED
    BY <1>1, <2>1 DEF Updating
<1>6. ASSUME request[r].kind = "delete" PROVE Deleting(p)
  BY <1>0, <1>1, <1>2, <1>6 DEF Fits, Deleting, Todo
<1>7. Fits(p) /\ p.todo # {}
  BY <1>0, <1>1, <1>3, <1>4, <1>5, <1>6 DEF Fits
<1>8. RequestsFit' /\ Went(r, p) /\ \A q \in Request \ {r} : Kept(q, {})
  BY <1>2, <1>7, AloneMoves
<1> QED
  BY <1>1, <1>2, <1>7, <1>8 DEF Went, Becomes

\* ... and writes what it has read.
LEMMA WriteLastMoves ==
  ASSUME RequestsFit, NEW r \in Request, WriteLast(r)
  PROVE  /\ RequestsFit'
         /\ \A q \in Request \ {r} :
                Kept(q, {}) /\ (Is(q, "create") => Kept(q, {"last"}))
         /\ Is(r, "delete") /\ "writeLast" \in Todo(r) /\ "row" \notin Todo(r)
         /\ \/ /\ Becomes(r, Todo(r) \ {"writeLast"}, request[r].owes \ {"last"})
               /\ request'[r].outdated = request[r].outdated
               /\ request'[r].last = request[r].last
               /\ request'[r].followUp = request[r].followUp
            \/ Todo(r) = {"writeLast"} /\ request'[r] = Idle
<1> DEFINE p == Onward(request[r], Todo(r) \ {"writeLast"}, request[r].owes \ {"last"})
<1>0. Fits(request[r]) /\ request[r] \in Progress
  BY DEF RequestsFit
<1>1. Proceed(r, p, LastWritten) /\ "writeLast" \in Todo(r)
  BY DEF WriteLast, Todo, Onward
<1>2. /\ p \in Progress /\ p.kind = request[r].kind /\ p.activity = request[r].activity
      /\ p.todo = Todo(r) \ {"writeLast"} /\ p.owes = request[r].owes \ {"last"}
      /\ p.outdated = request[r].outdated
      /\ p.last = request[r].last /\ p.followUp = request[r].followUp
  <2>1. Todo(r) \ {"writeLast"} \in SUBSET Statement
    BY <1>0 DEF Progress, Todo
  <2>2. request[r].owes \ {"last"} \in SUBSET Column
    BY <1>0 DEF Progress
  <2> QED
    BY <1>0, <2>1, <2>2, OnwardIs
<1> HIDE DEF p
<1>3. request[r].kind = "delete" /\ Deleting(request[r]) /\ "row" \notin Todo(r)
  BY <1>0, <1>1 DEF Fits, Progress, Creating, Updating, Deleting, Todo
<1>a. "readLast" \notin Todo(r)
  BY <1>1, <1>3 DEF Deleting, Todo
<1>4. Deleting(p)
  BY <1>1, <1>2, <1>3, <1>a DEF Deleting, Todo
<1>5. p.todo # {} => Fits(p)
  BY <1>0, <1>2, <1>3, <1>4 DEF Fits
<1>6. /\ RequestsFit' /\ Went(r, p)
      /\ \A q \in Request \ {r} :
             Kept(q, {}) /\ (Is(q, "create") => Kept(q, {"last"}))
  BY <1>1, <1>5, LastWrittenMoves
<1>7. p.todo = {} => Todo(r) = {"writeLast"}
  BY <1>1, <1>2
<1> QED
  BY <1>1, <1>2, <1>3, <1>6, <1>7 DEF Went, Becomes, Is

LEMMA WriteFollowUpMoves ==
  ASSUME RequestsFit, NEW r \in Request, WriteFollowUp(r)
  PROVE  /\ RequestsFit'
         /\ \A q \in Request \ {r} : Kept(q, {})
         /\ "writeFollowUp" \in Todo(r) /\ "row" \notin Todo(r)
         /\ \/ /\ Is(r, "delete")
               /\ Becomes(r, Todo(r) \ {"writeFollowUp"}, request[r].owes \ {"followUp"})
               /\ request'[r].outdated = request[r].outdated
               /\ request'[r].last = request[r].last
               /\ request'[r].followUp = request[r].followUp
            \/ Todo(r) = {"writeFollowUp"} /\ request'[r] = Idle
<1> DEFINE p == Onward(request[r], Todo(r) \ {"writeFollowUp"},
                       request[r].owes \ {"followUp"})
<1>0. Fits(request[r]) /\ request[r] \in Progress
  BY DEF RequestsFit
<1>1. Alone(r, p) /\ "writeFollowUp" \in Todo(r)
  BY DEF WriteFollowUp, Todo, Onward
<1>2. /\ p \in Progress /\ p.kind = request[r].kind /\ p.activity = request[r].activity
      /\ p.todo = Todo(r) \ {"writeFollowUp"} /\ p.owes = request[r].owes \ {"followUp"}
      /\ p.outdated = request[r].outdated
      /\ p.last = request[r].last /\ p.followUp = request[r].followUp
  <2>1. Todo(r) \ {"writeFollowUp"} \in SUBSET Statement
    BY <1>0 DEF Progress, Todo
  <2>2. request[r].owes \ {"followUp"} \in SUBSET Column
    BY <1>0 DEF Progress
  <2> QED
    BY <1>0, <2>1, <2>2, OnwardIs
<1> HIDE DEF p
<1>3. request[r].kind \in {"create", "update"} => Todo(r) = {"writeFollowUp"}
  BY <1>0, <1>1 DEF Fits, Creating, Updating, Todo
<1>4. request[r].kind = "delete" => Deleting(request[r]) /\ "row" \notin Todo(r)
  BY <1>0, <1>1 DEF Fits, Deleting, Todo
<1>5. request[r].kind # "idle"
  BY <1>0, <1>1 DEF Fits, Todo
<1>6. request[r].kind \in {"create", "update", "delete"}
  BY <1>0, <1>5 DEF Progress
<1>7. request[r].kind = "delete" => Deleting(p)
  BY <1>1, <1>2, <1>4 DEF Deleting, Todo
<1>8. p.todo # {} => Fits(p) /\ Is(r, "delete")
  BY <1>0, <1>2, <1>3, <1>6, <1>7 DEF Fits, Is
<1>9. RequestsFit' /\ Went(r, p) /\ \A q \in Request \ {r} : Kept(q, {})
  BY <1>1, <1>8, AloneMoves
<1>10. p.todo = {} => Todo(r) = {"writeFollowUp"}
  BY <1>1, <1>2
<1> QED
  BY <1>1, <1>2, <1>3, <1>4, <1>6, <1>8, <1>9, <1>10 DEF Went, Becomes

LEMMA CutMoves ==
  ASSUME RequestsFit, NEW r \in Request, CutShort(r)
  PROVE  /\ RequestsFit'
         /\ \A q \in Request \ {r} : Kept(q, {})
         /\ request'[r] = Idle
<1>1. RequestsFit' /\ Went(r, Idle) /\ \A q \in Request \ {r} : Kept(q, {})
  BY IdleFits, AloneMoves DEF CutShort
<1> QED
  BY <1>1, IdleFits DEF Went

LEMMA BeginMoves ==
  ASSUME RequestsFit, NEW r \in Request, NEW a \in Activity, NEW kind,
         NEW todo, Begin(r, Serving(kind, a, todo)),
         \/ kind = "create" /\ todo = {"row", "count"}
         \/ kind \in {"update", "delete"} /\ todo = {"row"}
  PROVE  /\ RequestsFit'
         /\ \A q \in Request \ {r} : Kept(q, {}) /\ request'[q] = request[q]
         /\ request'[r].kind = kind /\ request'[r].activity = a
         /\ request'[r].todo = todo /\ request'[r].owes = {}
         /\ Is(r, "idle") /\ Todo(r) = {} /\ request[r].owes = {}
<1> DEFINE p == Serving(kind, a, todo)
<1>1. /\ p \in Progress /\ p.kind = kind /\ p.activity = a /\ p.todo = todo /\ p.owes = {}
      /\ p.todo # {}
  BY DEF Serving, Progress, Statement
<1>2. Alone(r, p) /\ Is(r, "idle")
  BY DEF Begin
<1> HIDE DEF p
<1>3. Fits(p)
  BY <1>1 DEF Fits, Creating, Updating, Deleting
<1>4. /\ RequestsFit' /\ Went(r, p)
      /\ \A q \in Request \ {r} : request'[q] = request[q] /\ Kept(q, {})
  BY <1>2, <1>3, AloneMoves
<1>5. Todo(r) = {} /\ request[r].owes = {}
  BY <1>2 DEF RequestsFit, Fits, Is, Todo
<1> QED
  BY <1>1, <1>2, <1>4, <1>5 DEF Went

-----------------------------------------------------------------------------
(***************************************************************************)
(* Types, and what Latest and EarliestDue choose.                          *)
(***************************************************************************)

TableTyped ==
    /\ logged \subseteq Activity
    /\ deleted \subseteq logged /\ tasks \subseteq logged
    /\ stamp \in [Activity -> Nat]
    /\ due \in [Activity -> Due \cup {None}]
    /\ \A a \in logged : stamp[a] <= Cardinality(logged)

ColumnsTyped ==
    /\ lastActivityAt \in Activity \cup {None}
    /\ touchpointCount \in Int
    /\ nextFollowUpAt \in Due \cup {None}

Inserting(r) == Is(r, "create") /\ "row" \in Todo(r)

\* A row is there once its request has inserted it, and not before.
RowsTyped ==
    /\ \A r \in Request : Inserting(r) => request[r].activity \notin logged
    /\ \A r \in Request :
           ~Is(r, "idle") /\ ~Inserting(r) => request[r].activity \in logged
    /\ \A q, r \in Request :
           q # r /\ Inserting(q) /\ Inserting(r) => request[q].activity # request[r].activity

Typed ==
    /\ TableTyped /\ ColumnsTyped /\ RequestsFit /\ RowsTyped
    /\ unsure \subseteq Column /\ served \in 0..MaxServed

LEMMA TypedSuffices == Typed => TypeOK
  BY DEF Typed, TypeOK, TableTyped, ColumnsTyped, RequestsFit

LEMMA LoggedFinite ==
  ASSUME TableTyped
  PROVE  /\ IsFiniteSet(logged) /\ Cardinality(logged) \in Nat
         /\ IsFiniteSet(Live) /\ Cardinality(Live) \in Nat
<1>1. IsFiniteSet(logged)
  BY FiniteAssumption, FS_Subset DEF TableTyped
<1>2. IsFiniteSet(Live)
  BY <1>1, FS_Subset DEF Live
<1> QED
  BY <1>1, <1>2, FS_CardinalityType

LEMMA LatestIs ==
  ASSUME TableTyped
  PROVE  /\ Live = {} => Latest = None
         /\ Live # {} => Latest \in Live /\ \A b \in Live : stamp[b] <= stamp[Latest]
         /\ Latest \in Activity \cup {None}
<1>1. ASSUME Live # {} PROVE \E a \in Live : \A b \in Live : stamp[b] <= stamp[a]
  <2> DEFINE S == {stamp[a] : a \in Live}
  <2>1. \A a \in Live : a \in logged /\ stamp[a] \in Nat /\ stamp[a] <= Cardinality(logged)
    BY DEF Live, TableTyped
  <2>2. S \in SUBSET (0..Cardinality(logged)) /\ S # {}
    BY <1>1, <2>1, LoggedFinite
  <2>3. \A b \in Live : stamp[b] \in S
    OBVIOUS
  <2>a. \A k \in S : \E a \in Live : k = stamp[a]
    OBVIOUS
  <2> HIDE DEF S
  <2>4. PICK m \in S : \A k \in S : k <= m
    BY <2>2, LoggedFinite, Greatest
  <2> QED
    BY <2>a, <2>3, <2>4
<1>2. Live # {} => Latest \in Live /\ \A b \in Live : stamp[b] <= stamp[Latest]
  BY <1>1 DEF Latest
<1>3. Live = {} => Latest = None
  BY DEF Latest
<1> QED
  BY <1>2, <1>3 DEF Live, TableTyped

LEMMA EarliestDueIs ==
  ASSUME TableTyped
  PROVE  EarliestDue \in Due \cup {None}
<1>1. Dues \in SUBSET Due
  BY DEF Dues, Live, TableTyped
<1>2. ASSUME Dues # {} PROVE \E d \in Dues : \A e \in Dues : d <= e
  BY <1>1, <1>2, Least, DueAssumption
<1>3. Dues # {} => EarliestDue \in Dues
  BY <1>2 DEF EarliestDue
<1>4. Dues = {} => EarliestDue = None
  BY DEF EarliestDue
<1> QED
  BY <1>1, <1>3, <1>4

LEMMA KeptActivity ==
  ASSUME NEW q \in Request, NEW cols, Kept(q, cols)
  PROVE  /\ Inserting(q)' <=> Inserting(q)
         /\ Is(q, "idle")' <=> Is(q, "idle")
         /\ request'[q].activity = request[q].activity
  BY DEF Kept, Inserting, Is, Todo

LEMMA RowsStay ==
  ASSUME RowsTyped, NEW r \in Request, \A q \in Request \ {r} : Kept(q, {}),
         logged' = logged,
         \/ Is(r, "idle")'
         \/ /\ request'[r].activity = request[r].activity
            /\ ~Is(r, "idle")
            /\ Inserting(r)' <=> Inserting(r)
  PROVE  RowsTyped'
<1>1. \A q \in Request \ {r} : /\ Inserting(q)' <=> Inserting(q)
                               /\ Is(q, "idle")' <=> Is(q, "idle")
                               /\ request'[q].activity = request[q].activity
  BY KeptActivity
<1>2. Is(r, "idle")' => ~Inserting(r)'
  BY DEF Is, Inserting
<1> QED
  BY <1>1, <1>2 DEF RowsTyped

LEMMA RowInserted ==
  ASSUME RowsTyped, NEW r \in Request, \A q \in Request \ {r} : Kept(q, {}),
         Inserting(r), logged' = logged \cup {request[r].activity}, ~Inserting(r)',
         Is(r, "idle")' \/ request'[r].activity = request[r].activity
  PROVE  RowsTyped'
<1>1. \A q \in Request \ {r} : /\ Inserting(q)' <=> Inserting(q)
                               /\ Is(q, "idle")' <=> Is(q, "idle")
                               /\ request'[q].activity = request[q].activity
  BY KeptActivity
<1> QED
  BY <1>1 DEF RowsTyped

LEMMA RowBegun ==
  ASSUME RowsTyped, NEW r \in Request, \A q \in Request \ {r} : Kept(q, {}),
         logged' = logged, NEW a, request'[r].activity = a,
         Inserting(r)' => a \notin logged /\ \A q \in Request : request[q].activity # a,
         ~Inserting(r)' => a \in logged
  PROVE  RowsTyped'
<1>1. \A q \in Request \ {r} : /\ Inserting(q)' <=> Inserting(q)
                               /\ Is(q, "idle")' <=> Is(q, "idle")
                               /\ request'[q].activity = request[q].activity
  BY KeptActivity
<1> QED
  BY <1>1 DEF RowsTyped

\* A column is kept under any set of columns.
LEMMA KeptWeaker ==
  ASSUME NEW q, NEW cols, Kept(q, cols)
  PROVE  Kept(q, {})
  BY DEF Kept

LEMMA BecomesSays ==
  ASSUME NEW r, NEW todo, NEW owes, Becomes(r, todo, owes)
  PROVE  /\ request'[r].activity = request[r].activity
         /\ Is(r, "idle")' <=> Is(r, "idle")
         /\ Inserting(r)' <=> Is(r, "create") /\ "row" \in todo
  BY DEF Becomes, Is, Inserting, Todo

LEMMA IdleSays ==
  ASSUME NEW r, request'[r] = Idle
  PROVE  Is(r, "idle")' /\ ~Inserting(r)' /\ Todo(r)' = {} /\ request'[r].owes = {}
  BY IdleFits DEF Is, Inserting, Todo

LEMMA InitTyped == Init => Typed
<1> SUFFICES ASSUME Init PROVE Typed
  OBVIOUS
<1>1. RequestsFit
  BY IdleFits DEF Init, RequestsFit, Fits
<1>2. RowsTyped
  BY IdleFits DEF Init, RowsTyped, Inserting, Is
<1>3. TableTyped /\ ColumnsTyped
  BY DEF Init, TableTyped, ColumnsTyped
<1>4. served \in 0..MaxServed /\ unsure \subseteq Column
  BY MaxServedAssumption DEF Init
<1> QED
  BY <1>1, <1>2, <1>3, <1>4 DEF Typed

LEMMA InsertTable ==
  ASSUME Typed, NEW r \in Request, NEW d \in Due \cup {None}, InsertActivity(r, d)
  PROVE  /\ request[r].activity \in Activity \ logged
         /\ TableTyped'
         /\ Cardinality(logged') = Cardinality(logged) + 1
<1> DEFINE a == request[r].activity
<1>1. Is(r, "create") /\ "row" \in Todo(r) /\ a \in Activity
  BY InsertMoves DEF Typed, InsertActivity
<1>2. a \notin logged
  BY <1>1 DEF Typed, RowsTyped, Inserting
<1> HIDE DEF a
<1>3. /\ logged' = logged \cup {a}
      /\ stamp' = [stamp EXCEPT ![a] = Cardinality(logged) + 1]
      /\ tasks' = IF d = None THEN tasks ELSE tasks \cup {a}
      /\ due' = [due EXCEPT ![a] = d]
      /\ deleted' = deleted
  BY DEF InsertActivity, a
<1>4. IsFiniteSet(logged) /\ Cardinality(logged) \in Nat
  BY LoggedFinite DEF Typed
<1>5. Cardinality(logged') = Cardinality(logged) + 1
  BY <1>2, <1>3, <1>4, FS_AddElement
<1>6. stamp' \in [Activity -> Nat] /\ due' \in [Activity -> Due \cup {None}]
  BY <1>1, <1>3, <1>4 DEF Typed, TableTyped
<1>7. \A b \in logged' : stamp'[b] <= Cardinality(logged')
  <2>1. \A b \in logged : b \in Activity /\ stamp[b] <= Cardinality(logged) /\ stamp[b] \in Nat
    BY DEF Typed, TableTyped
  <2> QED
    BY <1>1, <1>2, <1>3, <1>4, <1>5, <2>1 DEF Typed, TableTyped
<1>8. logged' \subseteq Activity /\ deleted' \subseteq logged' /\ tasks' \subseteq logged'
  BY <1>1, <1>3 DEF Typed, TableTyped
<1> QED
  BY <1>1, <1>2, <1>5, <1>6, <1>7, <1>8 DEF TableTyped, a

LEMMA SettleTyped ==
  ASSUME unsure \subseteq Column, NEW r, NEW c \in Column, Settle(r, c)
  PROVE  unsure' \subseteq Column
  BY DEF Settle

LEMMA TableStays ==
  /\ TableTyped /\ UNCHANGED table => TableTyped' /\ Live' = Live
  /\ ColumnsTyped /\ UNCHANGED columns => ColumnsTyped'
  BY DEF TableTyped, ColumnsTyped, Live

\* A statement moves its request and no row of another.
LEMMA StepTyped ==
  ASSUME Typed, NEW r \in Request, Step(r)
  PROVE  /\ TableTyped' /\ ColumnsTyped' /\ RequestsFit' /\ RowsTyped'
         /\ unsure' \subseteq Column
<1> USE DEF Typed
<1> DEFINE Goal == /\ TableTyped' /\ ColumnsTyped' /\ RequestsFit' /\ RowsTyped'
                   /\ unsure' \subseteq Column
<1>a. \A q \in Request : Fits(request[q]) /\ request[q] \in Progress
  BY DEF RequestsFit
<1>b. /\ "touchpoints" \in Column /\ "last" \in Column /\ "followUp" \in Column
  BY DEF Column
<1>1. ASSUME NEW d \in Due \cup {None}, InsertActivity(r, d) PROVE Goal
  <2>1. TableTyped'
    BY <1>1, InsertTable
  <2>2. ColumnsTyped' /\ unsure' \subseteq Column
    BY <1>1, <1>b, SettleTyped, TableStays DEF InsertActivity
  <2>3. RequestsFit' /\ \A q \in Request \ {r} : Kept(q, {})
    BY <1>1, InsertMoves, KeptWeaker
  <2>4. ~Inserting(r)' /\ (Is(r, "idle")' \/ request'[r].activity = request[r].activity)
    <3>1. \/ Becomes(r, {"count"}, {"touchpoints", "last"} \cup Dated(d))
          \/ Becomes(r, {"readFollowUp"}, {"followUp"})
          \/ request'[r] = Idle
      BY <1>1, InsertMoves
    <3>2. "row" \notin {"count"} /\ "row" \notin {"readFollowUp"}
      OBVIOUS
    <3> QED
      BY <3>1, <3>2, BecomesSays, IdleSays
  <2>5. Inserting(r) /\ logged' = logged \cup {request[r].activity}
    BY <1>1 DEF InsertActivity, Inserting
  <2> QED
    BY <2>1, <2>2, <2>3, <2>4, <2>5, RowInserted
<1>2. ASSUME NEW d \in Due \cup {None}, UpdateRow(r, d) PROVE Goal
  <2>1. /\ RequestsFit' /\ Is(r, "update") /\ \A q \in Request \ {r} : Kept(q, {})
        /\ Becomes(r, {"readFollowUp"}, {"followUp"})
    BY <1>2, UpdateMoves, KeptWeaker
  <2>2. request[r].activity \in Activity
    BY <1>a, <2>1 DEF Fits, Is
  <2>3. TableTyped'
    BY <1>2, <2>2 DEF UpdateRow, TableTyped
  <2>4. RowsTyped'
    BY <1>2, <2>1, BecomesSays, RowsStay DEF UpdateRow, Is, Inserting
  <2> QED
    BY <1>2, <2>1, <2>3, <2>4, TableStays DEF UpdateRow
<1>3. ASSUME CountActivity(r) PROVE Goal
  <2>1. /\ RequestsFit' /\ Is(r, "create") /\ request[r].activity \in Activity
        /\ \A q \in Request \ {r} : Kept(q, {})
    BY <1>3, CountMoves
  <2>2. Is(r, "idle")' \/ /\ request'[r].activity = request[r].activity
                          /\ ~Is(r, "idle")
                          /\ Inserting(r)' <=> Inserting(r)
    BY <1>3, <2>1, CountMoves, BecomesSays, IdleSays DEF Inserting, Is
  <2>3. RowsTyped'
    BY <1>3, <2>1, <2>2, RowsStay DEF CountActivity
  <2>4. ColumnsTyped'
    BY <1>3, <2>1 DEF CountActivity, ColumnsTyped
  <2>5. unsure' \subseteq Column
    BY <1>3, <1>b, SettleTyped DEF CountActivity
  <2> QED
    BY <1>3, <2>1, <2>3, <2>4, <2>5, TableStays DEF CountActivity
<1>4. ASSUME MarkDeleted(r) PROVE Goal
  <2>1. /\ RequestsFit' /\ Is(r, "delete") /\ \A q \in Request \ {r} : Kept(q, {})
        /\ Becomes(r, {"count", "readLast", "readFollowUp"}, Column)
    BY <1>4, MarkMoves, KeptWeaker
  <2>2. request[r].activity \in logged
    BY <2>1 DEF RowsTyped, Inserting, Is
  <2>3. TableTyped'
    BY <1>4, <2>2 DEF MarkDeleted, TableTyped
  <2>4. RowsTyped'
    BY <1>4, <2>1, BecomesSays, RowsStay DEF MarkDeleted, Is, Inserting
  <2>5. unsure' \subseteq Column
    BY <1>4, <1>b DEF MarkDeleted
  <2> QED
    BY <1>4, <2>1, <2>3, <2>4, <2>5, TableStays DEF MarkDeleted
<1>5. ASSUME DiscountActivity(r) PROVE Goal
  <2>1. /\ RequestsFit' /\ Is(r, "delete") /\ \A q \in Request \ {r} : Kept(q, {})
        /\ \/ Is(r, "idle")'
           \/ Becomes(r, Todo(r) \ {"count"}, request[r].owes \ {"touchpoints"})
    BY <1>5, DiscountMoves, IdleSays
  <2>2. RowsTyped'
    BY <1>5, <2>1, BecomesSays, RowsStay DEF DiscountActivity, Is, Inserting
  <2>3. ColumnsTyped'
    BY <1>5 DEF DiscountActivity, ColumnsTyped
  <2> QED
    BY <1>5, <2>1, <2>2, <2>3, TableStays DEF DiscountActivity
<1>6. ASSUME ReadLast(r) PROVE Goal
  <2>1. /\ RequestsFit' /\ \A q \in Request \ {r} : Kept(q, {})
        /\ "readLast" \in Todo(r)
        /\ Becomes(r, (Todo(r) \ {"readLast"}) \cup {"writeLast"}, request[r].owes)
    BY <1>6, ReadLastMoves, LatestIs
  <2>2. ~Is(r, "idle")
    BY <1>a, <2>1 DEF Fits, Is, Todo
  <2>3. RowsTyped'
    BY <1>6, <2>1, <2>2, BecomesSays, RowsStay DEF ReadLast, Inserting
  <2> QED
    BY <1>6, <2>1, <2>3, TableStays DEF ReadLast
<1>7. ASSUME WriteLast(r) PROVE Goal
  <2>1. /\ RequestsFit' /\ Is(r, "delete") /\ \A q \in Request \ {r} : Kept(q, {})
        /\ \/ Is(r, "idle")'
           \/ Becomes(r, Todo(r) \ {"writeLast"}, request[r].owes \ {"last"})
    BY <1>7, WriteLastMoves, IdleSays
  <2>2. RowsTyped'
    BY <1>7, <2>1, BecomesSays, RowsStay DEF WriteLast, Is, Inserting
  <2>3. ColumnsTyped'
    BY <1>7, <1>a DEF WriteLast, ColumnsTyped, Progress
  <2>4. unsure' \subseteq Column
    BY <1>7, <1>b, SettleTyped DEF WriteLast
  <2> QED
    BY <1>7, <2>1, <2>2, <2>3, <2>4, TableStays DEF WriteLast
<1>8. ASSUME ReadFollowUp(r) PROVE Goal
  <2>1. /\ RequestsFit' /\ \A q \in Request \ {r} : Kept(q, {})
        /\ "readFollowUp" \in Todo(r)
        /\ Becomes(r, (Todo(r) \ {"readFollowUp"}) \cup {"writeFollowUp"}, request[r].owes)
    BY <1>8, ReadFollowUpMoves, EarliestDueIs
  <2>2. ~Is(r, "idle")
    BY <1>a, <2>1 DEF Fits, Is, Todo
  <2>3. RowsTyped'
    BY <1>8, <2>1, <2>2, BecomesSays, RowsStay DEF ReadFollowUp, Inserting
  <2> QED
    BY <1>8, <2>1, <2>3, TableStays DEF ReadFollowUp
<1>9. ASSUME WriteFollowUp(r) PROVE Goal
  <2>1. /\ RequestsFit' /\ \A q \in Request \ {r} : Kept(q, {})
        /\ \/ Is(r, "idle")'
           \/ /\ Is(r, "delete")
              /\ Becomes(r, Todo(r) \ {"writeFollowUp"}, request[r].owes \ {"followUp"})
    BY <1>9, WriteFollowUpMoves, IdleSays
  <2>2. RowsTyped'
    BY <1>9, <2>1, BecomesSays, RowsStay DEF WriteFollowUp, Is, Inserting
  <2>3. ColumnsTyped'
    BY <1>9, <1>a DEF WriteFollowUp, ColumnsTyped, Progress
  <2>4. unsure' \subseteq Column
    BY <1>9, <1>b, SettleTyped DEF WriteFollowUp
  <2> QED
    BY <1>9, <2>1, <2>2, <2>3, <2>4, TableStays DEF WriteFollowUp
<1>10. ASSUME CutShort(r) PROVE Goal
  <2>1. /\ RequestsFit' /\ \A q \in Request \ {r} : Kept(q, {})
        /\ Is(r, "idle")'
    BY <1>10, CutMoves, IdleSays
  <2>2. RowsTyped'
    BY <1>10, <2>1, RowsStay DEF CutShort
  <2>3. unsure' \subseteq Column
    BY <1>10, <1>a DEF CutShort, Progress
  <2> QED
    BY <1>10, <2>1, <2>2, <2>3, TableStays DEF CutShort
<1> QED
  BY <1>1, <1>2, <1>3, <1>4, <1>5, <1>6, <1>7, <1>8, <1>9, <1>10 DEF Step

\* A request that begins has changed nothing yet.
LEMMA BeginSays ==
  ASSUME Typed, NEW r \in Request, NEW a \in Activity,
         CreateActivity(r, a) \/ UpdateActivity(r, a) \/ DeleteActivity(r, a)
  PROVE  /\ \A q \in Request \ {r} : Kept(q, {})
         /\ RequestsFit' /\ RowsTyped'
         /\ Is(r, "idle") /\ Todo(r) = {} /\ request[r].owes = {}
         /\ request'[r].kind \in {"create", "update", "delete"}
         /\ request'[r].kind = "create" => request'[r].todo = {"row", "count"}
         /\ request'[r].kind # "create" => request'[r].todo = {"row"}
         /\ request'[r].owes = {}
         /\ UNCHANGED <<table, columns, unsure>> /\ served' \in 0..MaxServed
<1>0. /\ UNCHANGED <<table, columns, unsure>> /\ served' \in 0..MaxServed
  BY MaxServedAssumption
  DEF CreateActivity, UpdateActivity, DeleteActivity, Begin, Typed
<1>1. ASSUME CreateActivity(r, a)
      PROVE  /\ \A q \in Request \ {r} : Kept(q, {})
             /\ RequestsFit' /\ RowsTyped'
             /\ Is(r, "idle") /\ Todo(r) = {} /\ request[r].owes = {}
             /\ request'[r].kind = "create" /\ request'[r].todo = {"row", "count"}
             /\ request'[r].owes = {}
  <2>1. /\ RequestsFit' /\ \A q \in Request \ {r} : Kept(q, {})
        /\ Is(r, "idle") /\ Todo(r) = {} /\ request[r].owes = {}
        /\ request'[r].kind = "create" /\ request'[r].todo = {"row", "count"}
        /\ request'[r].owes = {} /\ request'[r].activity = a
    BY <1>1, BeginMoves DEF CreateActivity, Typed
  <2>2. RowsTyped'
    BY <1>0, <1>1, <2>1, RowBegun DEF CreateActivity, Typed, Inserting, Is, Todo
  <2> QED
    BY <2>1, <2>2
<1>2. ASSUME UpdateActivity(r, a) \/ DeleteActivity(r, a)
      PROVE  /\ \A q \in Request \ {r} : Kept(q, {})
             /\ RequestsFit' /\ RowsTyped'
             /\ Is(r, "idle") /\ Todo(r) = {} /\ request[r].owes = {}
             /\ request'[r].kind \in {"update", "delete"} /\ request'[r].todo = {"row"}
             /\ request'[r].owes = {}
  <2>1. /\ RequestsFit' /\ \A q \in Request \ {r} : Kept(q, {})
        /\ Is(r, "idle") /\ Todo(r) = {} /\ request[r].owes = {}
        /\ request'[r].kind \in {"update", "delete"} /\ request'[r].todo = {"row"}
        /\ request'[r].owes = {} /\ request'[r].activity = a
    BY <1>2, BeginMoves DEF UpdateActivity, DeleteActivity, Typed
  <2>2. a \in logged
    BY <1>2 DEF UpdateActivity, DeleteActivity, Live
  <2>3. RowsTyped'
    BY <1>0, <2>1, <2>2, RowBegun DEF Typed, Inserting, Is, Todo
  <2> QED
    BY <2>1, <2>3
<1> QED
  BY <1>0, <1>1, <1>2

LEMMA NextTyped == Typed /\ [Next]_vars => Typed'
<1> SUFFICES ASSUME Typed, [Next]_vars PROVE Typed'
  OBVIOUS
<1>1. CASE UNCHANGED vars
  BY <1>1 DEF vars, Typed, TableTyped, ColumnsTyped, RequestsFit, RowsTyped, Inserting, Is,
              Todo
<1>2. ASSUME NEW r \in Request, NEW a \in Activity,
             CreateActivity(r, a) \/ UpdateActivity(r, a) \/ DeleteActivity(r, a)
      PROVE  Typed'
  BY <1>2, BeginSays, TableStays DEF Typed
<1>3. ASSUME NEW r \in Request, Step(r), UNCHANGED served PROVE Typed'
  BY <1>3, StepTyped DEF Typed
<1> QED
  BY <1>1, <1>2, <1>3 DEF Next

\* The table, the columns and whatever a request remembers keep their types.
THEOREM TypeCorrect == Spec => []TypeOK
<1>1. Spec => []Typed
  BY InitTyped, NextTyped, PTL DEF Spec
<1> QED
  BY <1>1, TypedSuffices, PTL

-----------------------------------------------------------------------------
(***************************************************************************)
(* nextFollowUpAt.                                                         *)
(***************************************************************************)

Settled(c) == c \notin unsure /\ \A r \in Request : c \notin request[r].owes

Reread(r) == "writeFollowUp" \in Todo(r) /\ "followUp" \notin request[r].outdated

\* A recalculation about to write what it read in time knows the earliest due
\* date, and so does the column when nobody owes it anything.
FollowUpExact ==
    /\ Settled("followUp") => nextFollowUpAt = EarliestDue
    /\ \A r \in Request : Reread(r) => request[r].followUp = EarliestDue

LEMMA ProgressTyped ==
  ASSUME Typed, NEW r \in Request
  PROVE  Fits(request[r]) /\ request[r] \in Progress
  BY DEF Typed, RequestsFit

\* Whoever still has a follow-up to recalculate owes it.
LEMMA RecalculatesOwing ==
  ASSUME NEW p, Fits(p), "readFollowUp" \in p.todo \/ "writeFollowUp" \in p.todo
  PROVE  "followUp" \in p.owes
<1>1. p.kind # "idle" /\ p.kind \in {"idle", "create", "update", "delete"}
  BY DEF Fits, Progress
<1>2. CASE p.kind = "create"
  BY <1>2 DEF Fits, Creating
<1>3. CASE p.kind = "update"
  BY <1>3 DEF Fits, Updating
<1>4. CASE p.kind = "delete"
  BY <1>4 DEF Fits, Deleting
<1> QED
  BY <1>1, <1>2, <1>3, <1>4

\* A step that leaves the due dates and the column alone.
LEMMA FollowUpStays ==
  ASSUME FollowUpExact, NEW r \in Request, \A q \in Request \ {r} : Kept(q, {}),
         EarliestDue' = EarliestDue, nextFollowUpAt' = nextFollowUpAt,
         "followUp" \in unsure => "followUp" \in unsure',
         "followUp" \in request[r].owes =>
             "followUp" \in request'[r].owes \/ "followUp" \in unsure',
         Reread(r)' => request'[r].followUp = EarliestDue
  PROVE  FollowUpExact'
<1>1. \A q \in Request \ {r} :
          /\ request'[q].owes = request[q].owes
          /\ Reread(q)' => Reread(q) /\ request'[q].followUp = request[q].followUp
  BY DEF Kept, Reread, Todo
<1>2. Settled("followUp")' => Settled("followUp")
  BY <1>1 DEF Settled
<1> QED
  BY <1>1, <1>2 DEF FollowUpExact

\* A step that changes due dates.
LEMMA FollowUpChanges ==
  ASSUME NEW r \in Request, NEW cols, "followUp" \in cols,
         \A q \in Request \ {r} : Kept(q, cols),
         "followUp" \in request'[r].owes, "writeFollowUp" \notin Todo(r)'
  PROVE  FollowUpExact'
<1>1. \A q \in Request \ {r} : ~Reread(q)'
  BY DEF Kept, Reread, Todo
<1> QED
  BY <1>1 DEF FollowUpExact, Settled, Reread

LEMMA EarliestDueStays ==
  ASSUME Dues' = Dues
  PROVE  EarliestDue' = EarliestDue
  BY DEF EarliestDue

LEMMA DuesStay ==
  ASSUME UNCHANGED table
  PROVE  EarliestDue' = EarliestDue /\ Latest' = Latest
  BY DEF EarliestDue, Dues, Live, Latest

LatestRight ==
    Live # {} => Latest \in Live /\ \A b \in Live : stamp[b] <= stamp[Latest]

LEMMA LatestNext == TableTyped' => LatestRight'
<1>1. TableTyped => LatestRight
  BY LatestIs DEF LatestRight
<1> QED
  BY <1>1, PTL

\* The new row is live, nothing precedes it, and without a due date it leaves
\* the earliest one as it was.
LEMMA InsertLive ==
  ASSUME Typed, NEW r \in Request, NEW d \in Due \cup {None}, InsertActivity(r, d)
  PROVE  /\ request[r].activity \notin Live
         /\ Live' = Live \cup {request[r].activity}
         /\ Latest' = request[r].activity
         /\ d = None => EarliestDue' = EarliestDue
<1> DEFINE a == request[r].activity
<1>1. a \in Activity \ logged /\ TableTyped' /\ TableTyped
  BY InsertTable DEF Typed
<1> HIDE DEF a
<1>2. /\ logged' = logged \cup {a}
      /\ stamp' = [stamp EXCEPT ![a] = Cardinality(logged) + 1]
      /\ due' = [due EXCEPT ![a] = d]
      /\ deleted' = deleted
  BY DEF InsertActivity, a
<1>3. a \notin Live /\ Live' = Live \cup {a} /\ Live \subseteq logged
  BY <1>1, <1>2 DEF TableTyped, Live
<1>4. stamp'[a] = Cardinality(logged) + 1
  BY <1>1, <1>2 DEF TableTyped
<1>5. \A b \in Live : stamp'[b] < stamp'[a]
  <2>1. \A b \in Live : /\ stamp'[b] = stamp[b] /\ stamp[b] \in Nat
                        /\ stamp[b] <= Cardinality(logged)
    BY <1>1, <1>2, <1>3 DEF TableTyped
  <2>2. Cardinality(logged) \in Nat
    BY <1>1, LoggedFinite
  <2> QED
    BY <1>4, <2>1, <2>2
<1>6. Latest' \in Live' /\ \A b \in Live' : stamp'[b] <= stamp'[Latest']
  <2>1. Live' # {}
    BY <1>3
  <2>2. LatestRight'
    BY <1>1, LatestNext
  <2> QED
    BY <2>1, <2>2 DEF LatestRight
<1>7. Latest' = a
  <2>1. stamp'[a] <= stamp'[Latest']
    BY <1>3, <1>6
  <2>2. \A b \in Live : stamp'[b] \in Nat /\ stamp'[a] \in Nat
    BY <1>1, <1>2, <1>3 DEF TableTyped
  <2>3. Latest' \notin Live
    BY <1>5, <2>1, <2>2
  <2> QED
    BY <1>3, <1>6, <2>3
<1>8. ASSUME d = None PROVE EarliestDue' = EarliestDue
  <2>1. due'[a] = None /\ \A b \in Live : due'[b] = due[b]
    BY <1>1, <1>2, <1>3, <1>8 DEF TableTyped
  <2>2. Dues' = Dues
    BY <1>3, <2>1 DEF Dues
  <2> QED
    BY <2>2, EarliestDueStays
<1> QED
  BY <1>3, <1>7, <1>8 DEF a

LEMMA StepFollowUp ==
  ASSUME Typed, FollowUpExact, NEW r \in Request, Step(r)
  PROVE  FollowUpExact'
<1>a. Fits(request[r]) /\ request[r] \in Progress /\ RequestsFit /\ TableTyped
  BY ProgressTyped DEF Typed
<1>b. EarliestDue \in Due \cup {None} /\ Latest \in Activity \cup {None}
  BY <1>a, EarliestDueIs, LatestIs
<1>c. Reread(r) => request[r].followUp = EarliestDue
  BY DEF FollowUpExact
<1>d. request'[r] = Idle => ~Reread(r)'
  BY IdleSays DEF Reread
<1>1. ASSUME NEW d \in Due, InsertActivity(r, d) PROVE FollowUpExact'
  <2>1. d # None /\ "followUp" \in Dated(d)
    BY NullAssumption DEF Dated
  <2>2. /\ \A q \in Request \ {r} : Kept(q, {"last"} \cup Dated(d))
        /\ \/ Becomes(r, {"count"}, {"touchpoints", "last"} \cup Dated(d))
           \/ Becomes(r, {"readFollowUp"}, {"followUp"})
    BY <1>1, <1>a, <2>1, InsertMoves
  <2>3. "followUp" \in request'[r].owes /\ "writeFollowUp" \notin Todo(r)'
    BY <2>1, <2>2 DEF Becomes, Todo
  <2> QED
    BY <2>1, <2>2, <2>3, FollowUpChanges
<1>2. ASSUME InsertActivity(r, None) PROVE FollowUpExact'
  <2>1. \A q \in Request \ {r} : Kept(q, {})
    BY <1>2, <1>a, InsertMoves, KeptWeaker
  <2>2. \/ Becomes(r, {"count"}, {"touchpoints", "last"} \cup Dated(None))
        \/ request'[r] = Idle
    BY <1>2, <1>a, InsertMoves
  <2>3. ~Reread(r)'
    BY <1>d, <2>2 DEF Becomes, Reread, Todo
  <2>4. "followUp" \notin request[r].owes
    BY <1>2, <1>a DEF InsertActivity, Is, Todo, Fits, Creating
  <2>5. EarliestDue' = EarliestDue
    BY <1>2, InsertLive
  <2>6. "followUp" \in unsure => "followUp" \in unsure'
    BY <1>2 DEF InsertActivity, Settle
  <2> QED
    BY <1>2, <2>1, <2>3, <2>4, <2>5, <2>6, FollowUpStays DEF InsertActivity
<1>3. ASSUME NEW d \in Due \cup {None}, UpdateRow(r, d) PROVE FollowUpExact'
  <2>1. /\ \A q \in Request \ {r} : Kept(q, {"followUp"})
        /\ Becomes(r, {"readFollowUp"}, {"followUp"})
    BY <1>3, <1>a, UpdateMoves
  <2> QED
    BY <2>1, FollowUpChanges DEF Becomes, Todo
<1>4. ASSUME MarkDeleted(r) PROVE FollowUpExact'
  <2>1. /\ \A q \in Request \ {r} : Kept(q, {"last", "followUp"})
        /\ Becomes(r, {"count", "readLast", "readFollowUp"}, Column)
    BY <1>4, <1>a, MarkMoves
  <2> QED
    BY <2>1, FollowUpChanges DEF Becomes, Todo, Column
<1>5. ASSUME CountActivity(r) PROVE FollowUpExact'
  <2>1. \A q \in Request \ {r} : Kept(q, {})
    BY <1>5, <1>a, CountMoves
  <2>2. /\ "followUp" \in request[r].owes => "followUp" \in request'[r].owes
        /\ ~Reread(r)'
    <3>1. CASE "row" \in Todo(r)
      <4>1. "followUp" \notin request[r].owes
        BY <1>5, <1>a, <3>1 DEF CountActivity, Is, Todo, Fits, Creating
      <4> QED
        BY <1>5, <1>a, <3>1, <4>1, CountMoves DEF Becomes, Reread, Todo
    <3>2. CASE "row" \notin Todo(r)
      BY <1>5, <1>a, <1>d, <3>2, CountMoves DEF Becomes, Reread, Todo
    <3> QED
      BY <3>1, <3>2
  <2>3. "followUp" \in unsure => "followUp" \in unsure'
    BY <1>5 DEF CountActivity, Settle
  <2> QED
    BY <1>5, <2>1, <2>2, <2>3, DuesStay, FollowUpStays DEF CountActivity
<1>6. ASSUME DiscountActivity(r) PROVE FollowUpExact'
  <2>1. \A q \in Request \ {r} : Kept(q, {})
    BY <1>6, <1>a, DiscountMoves
  <2>2. /\ "followUp" \in request[r].owes => "followUp" \in request'[r].owes
        /\ Reread(r)' => request'[r].followUp = EarliestDue
    <3>1. CASE request'[r] = Idle /\ Todo(r) = {"count"}
      <4>1. "followUp" \notin request[r].owes
        BY <1>6, <1>a, <3>1 DEF DiscountActivity, Is, Todo, Fits, Deleting
      <4> QED
        BY <1>d, <3>1, <4>1
    <3>2. CASE /\ Becomes(r, Todo(r) \ {"count"}, request[r].owes \ {"touchpoints"})
               /\ request'[r].outdated = request[r].outdated
               /\ request'[r].followUp = request[r].followUp
      BY <1>c, <3>2 DEF Becomes, Reread, Todo
    <3> QED
      BY <1>6, <1>a, <3>1, <3>2, DiscountMoves
  <2> QED
    BY <1>6, <2>1, <2>2, DuesStay, FollowUpStays DEF DiscountActivity
<1>7. ASSUME ReadLast(r) PROVE FollowUpExact'
  <2>1. /\ \A q \in Request \ {r} : Kept(q, {})
        /\ Becomes(r, (Todo(r) \ {"readLast"}) \cup {"writeLast"}, request[r].owes)
        /\ request'[r].outdated = request[r].outdated \ {"last"}
        /\ request'[r].followUp = request[r].followUp
    BY <1>7, <1>a, <1>b, ReadLastMoves
  <2>2. Reread(r)' => Reread(r)
    BY <2>1 DEF Becomes, Reread, Todo
  <2> QED
    BY <1>7, <1>c, <2>1, <2>2, DuesStay, FollowUpStays DEF ReadLast, Becomes
<1>8. ASSUME WriteLast(r) PROVE FollowUpExact'
  <2>1. \A q \in Request \ {r} : Kept(q, {})
    BY <1>8, <1>a, WriteLastMoves
  <2>2. /\ "followUp" \in request[r].owes => "followUp" \in request'[r].owes
        /\ Reread(r)' => request'[r].followUp = EarliestDue
    <3>1. CASE request'[r] = Idle /\ Todo(r) = {"writeLast"}
      <4>1. "followUp" \notin request[r].owes
        BY <1>8, <1>a, <3>1, WriteLastMoves DEF Is, Todo, Fits, Deleting
      <4> QED
        BY <1>d, <3>1, <4>1
    <3>2. CASE /\ Becomes(r, Todo(r) \ {"writeLast"}, request[r].owes \ {"last"})
               /\ request'[r].outdated = request[r].outdated
               /\ request'[r].followUp = request[r].followUp
      BY <1>c, <3>2 DEF Becomes, Reread, Todo
    <3> QED
      BY <1>8, <1>a, <3>1, <3>2, WriteLastMoves
  <2>3. "followUp" \in unsure => "followUp" \in unsure'
    BY <1>8 DEF WriteLast, Settle
  <2> QED
    BY <1>8, <2>1, <2>2, <2>3, DuesStay, FollowUpStays DEF WriteLast
<1>9. ASSUME ReadFollowUp(r) PROVE FollowUpExact'
  <2>1. /\ \A q \in Request \ {r} : Kept(q, {})
        /\ Becomes(r, (Todo(r) \ {"readFollowUp"}) \cup {"writeFollowUp"}, request[r].owes)
        /\ request'[r].followUp = EarliestDue
    BY <1>9, <1>a, <1>b, ReadFollowUpMoves
  <2> QED
    BY <1>9, <2>1, DuesStay, FollowUpStays DEF ReadFollowUp, Becomes
<1>10. ASSUME WriteFollowUp(r) PROVE FollowUpExact'
  <2>1. /\ \A q \in Request \ {r} : Kept(q, {})
        /\ "writeFollowUp" \in Todo(r)
        /\ \/ Becomes(r, Todo(r) \ {"writeFollowUp"}, request[r].owes \ {"followUp"})
           \/ request'[r] = Idle
    BY <1>10, <1>a, WriteFollowUpMoves
  <2>2. ~Reread(r)'
    BY <1>d, <2>1 DEF Becomes, Reread, Todo
  <2>3. nextFollowUpAt' = request[r].followUp /\ Settle(r, "followUp") /\ UNCHANGED table
    BY <1>10 DEF WriteFollowUp
  <2>4. "followUp" \notin unsure' => nextFollowUpAt' = EarliestDue'
    BY <1>c, <2>1, <2>3, DuesStay DEF Settle, Reread
  <2>5. \A q \in Request \ {r} : Reread(q)' => request'[q].followUp = EarliestDue'
    BY <2>1, <2>3, DuesStay DEF Kept, Reread, Todo, FollowUpExact
  <2> QED
    BY <2>2, <2>4, <2>5 DEF FollowUpExact, Settled
<1>11. ASSUME CutShort(r) PROVE FollowUpExact'
  <2>1. (\A q \in Request \ {r} : Kept(q, {})) /\ request'[r] = Idle
    BY <1>11, <1>a, CutMoves
  <2>2. unsure' = unsure \cup request[r].owes
    BY <1>11 DEF CutShort
  <2> QED
    BY <1>11, <1>d, <2>1, <2>2, DuesStay, FollowUpStays DEF CutShort
<1> QED
  BY <1>1, <1>2, <1>3, <1>4, <1>5, <1>6, <1>7, <1>8, <1>9, <1>10, <1>11 DEF Step

-----------------------------------------------------------------------------
(***************************************************************************)
(* lastActivityAt.                                                         *)
(***************************************************************************)

\* One request that nothing has overtaken knows the latest activity: about to
\* write it again, or its own, of which it has yet to write the column or the
\* row.
LastKnown(r) ==
    "last" \notin request[r].outdated =>
        /\ "writeLast" \in Todo(r) => request[r].last = Latest
        /\ Todo(r) = {"count"} /\ Is(r, "create") => Latest = request[r].activity
        /\ Todo(r) = {"row"} /\ Is(r, "create") => lastActivityAt = request[r].activity

LastExact ==
    /\ Settled("last") => lastActivityAt = Latest
    /\ \A r \in Request : LastKnown(r)

LEMMA IdleKnows ==
  ASSUME NEW r, request'[r] = Idle
  PROVE  LastKnown(r)' /\ "last" \notin request'[r].owes
  BY IdleFits DEF LastKnown, Is, Todo

\* Another request, when neither the latest row nor the column changes, or when
\* it is outdated.
LEMMA KnowsStill ==
  ASSUME NEW q \in Request, NEW cols, Kept(q, cols), LastKnown(q),
         \/ "last" \in cols
         \/ /\ Latest' = Latest
            /\ lastActivityAt' = lastActivityAt \/ ~Is(q, "create")
  PROVE  LastKnown(q)' /\ request'[q].owes = request[q].owes
<1>1. CASE Todo(q) = {}
  BY <1>1 DEF Kept, LastKnown, Todo, Is
<1>2. CASE Todo(q) # {} /\ "last" \in cols
  BY <1>2 DEF Kept, LastKnown, Todo, Is
<1>3. CASE /\ Latest' = Latest
           /\ lastActivityAt' = lastActivityAt \/ ~Is(q, "create")
  BY <1>3 DEF Kept, LastKnown, Todo, Is
<1> QED
  BY <1>1, <1>2, <1>3

LEMMA LastStays ==
  ASSUME LastExact, NEW r \in Request, \A q \in Request \ {r} : Kept(q, {}),
         Latest' = Latest, lastActivityAt' = lastActivityAt,
         "last" \in unsure => "last" \in unsure',
         "last" \in request[r].owes =>
             "last" \in request'[r].owes \/ "last" \in unsure',
         LastKnown(r)'
  PROVE  LastExact'
<1>1. \A q \in Request \ {r} : LastKnown(q)' /\ request'[q].owes = request[q].owes
  BY KnowsStill DEF LastExact
<1>2. Settled("last")' => Settled("last")
  BY <1>1 DEF Settled
<1> QED
  BY <1>1, <1>2 DEF LastExact

LEMMA StepLast ==
  ASSUME Typed, LastExact, NEW r \in Request, Step(r)
  PROVE  LastExact'
<1>a. Fits(request[r]) /\ request[r] \in Progress /\ RequestsFit /\ TableTyped
  BY ProgressTyped DEF Typed
<1>b. EarliestDue \in Due \cup {None} /\ Latest \in Activity \cup {None}
  BY <1>a, EarliestDueIs, LatestIs
<1>c. LastKnown(r) /\ \A q \in Request : LastKnown(q)
  BY DEF LastExact
<1>1. ASSUME NEW d \in Due \cup {None}, InsertActivity(r, d) PROVE LastExact'
  <2>1. \A q \in Request \ {r} : LastKnown(q)'
    BY <1>1, <1>a, <1>c, InsertMoves, KnowsStill
  <2>2. Latest' = request[r].activity
    BY <1>1, InsertLive
  <2>3. CASE "count" \in Todo(r)
    <3>1. /\ request'[r].activity = request[r].activity
          /\ Todo(r)' = {"count"} /\ "last" \in request'[r].owes
      BY <1>1, <1>a, <2>3, InsertMoves DEF Becomes, Todo
    <3>2. LastKnown(r)'
      BY <2>2, <3>1 DEF LastKnown
    <3> QED
      BY <2>1, <3>1, <3>2 DEF LastExact, Settled
  <2>4. CASE "count" \notin Todo(r)
    <3>1. /\ Todo(r) = {"row"} /\ Is(r, "create")
          /\ \/ Becomes(r, {"readFollowUp"}, {"followUp"})
             \/ request'[r] = Idle
      BY <1>1, <1>a, <2>4, InsertMoves
    <3>2. LastKnown(r)'
      BY <3>1, IdleKnows DEF Becomes, LastKnown, Todo
    <3>3. Settle(r, "last") /\ lastActivityAt' = lastActivityAt
      BY <1>1, <2>4 DEF InsertActivity
    <3>4. "last" \notin unsure' => lastActivityAt' = Latest'
      BY <1>c, <2>2, <3>1, <3>3 DEF Settle, LastKnown
    <3> QED
      BY <2>1, <3>2, <3>4 DEF LastExact, Settled
  <2> QED
    BY <2>3, <2>4
<1>2. ASSUME NEW d \in Due \cup {None}, UpdateRow(r, d) PROVE LastExact'
  <2>1. /\ \A q \in Request \ {r} : Kept(q, {})
        /\ Becomes(r, {"readFollowUp"}, {"followUp"})
        /\ Is(r, "update") /\ Todo(r) = {"row"}
    BY <1>2, <1>a, UpdateMoves, KeptWeaker
  <2>2. "last" \notin request[r].owes
    BY <1>a, <2>1 DEF Fits, Updating, Is
  <2>3. LastKnown(r)'
    BY <2>1 DEF Becomes, LastKnown, Todo
  <2>4. Latest' = Latest
    BY <1>2 DEF UpdateRow, Latest, Live
  <2> QED
    BY <1>2, <2>1, <2>2, <2>3, <2>4, LastStays DEF UpdateRow
<1>3. ASSUME CountActivity(r) PROVE LastExact'
  <2>1. \A q \in Request \ {r} : LastKnown(q)'
    <3>1. \A q \in Request \ {r} : Kept(q, {}) /\ (Is(q, "create") => Kept(q, {"last"}))
      BY <1>3, <1>a, CountMoves
    <3>2. Latest' = Latest
      BY <1>3, DuesStay DEF CountActivity
    <3> QED
      BY <1>c, <3>1, <3>2, KnowsStill
  <2>2. lastActivityAt' = request[r].activity /\ Latest' = Latest
    BY <1>3, DuesStay DEF CountActivity
  <2>3. CASE "row" \in Todo(r)
    <3>1. /\ request'[r].activity = request[r].activity
          /\ Todo(r)' = {"row"} /\ "last" \in request'[r].owes
      BY <1>3, <1>a, <2>3, CountMoves DEF Becomes, Todo
    <3>2. LastKnown(r)'
      BY <2>2, <3>1 DEF LastKnown
    <3> QED
      BY <2>1, <3>1, <3>2 DEF LastExact, Settled
  <2>4. CASE "row" \notin Todo(r)
    <3>1. /\ Todo(r) = {"count"} /\ Is(r, "create")
          /\ \/ Becomes(r, {"readFollowUp"}, {"followUp"})
             \/ request'[r] = Idle
      BY <1>3, <1>a, <2>4, CountMoves
    <3>2. LastKnown(r)'
      BY <3>1, IdleKnows DEF Becomes, LastKnown, Todo
    <3>3. Settle(r, "last")
      BY <1>3, <2>4 DEF CountActivity
    <3>4. "last" \notin unsure' => lastActivityAt' = Latest'
      BY <1>c, <2>2, <3>1, <3>3 DEF Settle, LastKnown
    <3> QED
      BY <2>1, <3>2, <3>4 DEF LastExact, Settled
  <2> QED
    BY <2>3, <2>4
<1>4. ASSUME MarkDeleted(r) PROVE LastExact'
  <2>1. /\ \A q \in Request \ {r} : Kept(q, {"last", "followUp"})
        /\ Becomes(r, {"count", "readLast", "readFollowUp"}, Column)
    BY <1>4, <1>a, MarkMoves
  <2>2. \A q \in Request \ {r} : LastKnown(q)'
    BY <1>c, <2>1, KnowsStill
  <2>3. LastKnown(r)' /\ "last" \in request'[r].owes
    BY <2>1 DEF Becomes, LastKnown, Todo, Column
  <2> QED
    BY <2>2, <2>3 DEF LastExact, Settled
<1>5. ASSUME DiscountActivity(r) PROVE LastExact'
  <2>1. Is(r, "delete") /\ \A q \in Request \ {r} : Kept(q, {})
    BY <1>5, <1>a, DiscountMoves
  <2>2. /\ "last" \in request[r].owes => "last" \in request'[r].owes
        /\ LastKnown(r)'
    <3>1. CASE request'[r] = Idle /\ Todo(r) = {"count"}
      <4>1. "last" \notin request[r].owes
        BY <1>5, <1>a, <3>1 DEF DiscountActivity, Is, Todo, Fits, Deleting
      <4> QED
        BY <3>1, <4>1, IdleKnows
    <3>2. CASE /\ Becomes(r, Todo(r) \ {"count"}, request[r].owes \ {"touchpoints"})
               /\ request'[r].outdated = request[r].outdated
               /\ request'[r].last = request[r].last
      <4>1. Latest' = Latest
        BY <1>5, DuesStay DEF DiscountActivity
      <4> QED
        BY <1>c, <2>1, <3>2, <4>1 DEF Becomes, LastKnown, Todo, Is
    <3> QED
      BY <1>5, <1>a, <3>1, <3>2, DiscountMoves
  <2> QED
    BY <1>5, <2>1, <2>2, DuesStay, LastStays DEF DiscountActivity
<1>6. ASSUME ReadLast(r) PROVE LastExact'
  <2>1. /\ \A q \in Request \ {r} : Kept(q, {})
        /\ Becomes(r, (Todo(r) \ {"readLast"}) \cup {"writeLast"}, request[r].owes)
        /\ request'[r].last = Latest
    BY <1>6, <1>a, <1>b, ReadLastMoves
  <2>2. Latest' = Latest
    BY <1>6, DuesStay DEF ReadLast
  <2>3. LastKnown(r)'
    BY <2>1, <2>2 DEF Becomes, LastKnown, Todo
  <2> QED
    BY <1>6, <2>1, <2>2, <2>3, LastStays DEF ReadLast, Becomes
<1>7. ASSUME WriteLast(r) PROVE LastExact'
  <2>1. /\ \A q \in Request \ {r} :
               Kept(q, {}) /\ (Is(q, "create") => Kept(q, {"last"}))
        /\ Is(r, "delete") /\ "writeLast" \in Todo(r)
        /\ \/ Becomes(r, Todo(r) \ {"writeLast"}, request[r].owes \ {"last"})
           \/ request'[r] = Idle
    BY <1>7, <1>a, WriteLastMoves
  <2>2. lastActivityAt' = request[r].last /\ Settle(r, "last") /\ Latest' = Latest
    BY <1>7, DuesStay DEF WriteLast
  <2>3. \A q \in Request \ {r} : LastKnown(q)'
    BY <1>c, <2>1, <2>2, KnowsStill
  <2>4. LastKnown(r)'
    BY <2>1, IdleKnows DEF Becomes, LastKnown, Todo, Is
  <2>5. "last" \notin unsure' => lastActivityAt' = Latest'
    BY <1>c, <2>1, <2>2 DEF Settle, LastKnown
  <2> QED
    BY <2>3, <2>4, <2>5 DEF LastExact, Settled
<1>8. ASSUME ReadFollowUp(r) PROVE LastExact'
  <2>1. /\ \A q \in Request \ {r} : Kept(q, {})
        /\ "readFollowUp" \in Todo(r)
        /\ Becomes(r, (Todo(r) \ {"readFollowUp"}) \cup {"writeFollowUp"}, request[r].owes)
        /\ request'[r].outdated = request[r].outdated \ {"followUp"}
        /\ request'[r].last = request[r].last
    BY <1>8, <1>a, <1>b, ReadFollowUpMoves
  <2>2. Latest' = Latest
    BY <1>8, DuesStay DEF ReadFollowUp
  <2>3. "writeFollowUp" \in Todo(r)'
    BY <2>1 DEF Becomes, Todo
  <2>4. LastKnown(r)'
    BY <1>c, <2>1, <2>2, <2>3 DEF Becomes, LastKnown, Todo
  <2> QED
    BY <1>8, <2>1, <2>2, <2>4, LastStays DEF ReadFollowUp, Becomes
<1>9. ASSUME WriteFollowUp(r) PROVE LastExact'
  <2>1. \A q \in Request \ {r} : Kept(q, {})
    BY <1>9, <1>a, WriteFollowUpMoves
  <2>2. Latest' = Latest
    BY <1>9, DuesStay DEF WriteFollowUp
  <2>3. /\ "last" \in request[r].owes => "last" \in request'[r].owes
        /\ LastKnown(r)'
    <3>1. CASE request'[r] = Idle /\ Todo(r) = {"writeFollowUp"}
      <4>1. "last" \notin request[r].owes
        BY <1>a, <3>1 DEF Todo, Fits, Progress, Creating, Updating, Deleting
      <4> QED
        BY <3>1, <4>1, IdleKnows
    <3>2. CASE /\ Is(r, "delete")
               /\ Becomes(r, Todo(r) \ {"writeFollowUp"}, request[r].owes \ {"followUp"})
               /\ request'[r].outdated = request[r].outdated
               /\ request'[r].last = request[r].last
      BY <1>c, <2>2, <3>2 DEF Becomes, LastKnown, Todo, Is
    <3> QED
      BY <1>9, <1>a, <3>1, <3>2, WriteFollowUpMoves
  <2>4. "last" \in unsure => "last" \in unsure'
    BY <1>9 DEF WriteFollowUp, Settle
  <2> QED
    BY <1>9, <2>1, <2>2, <2>3, <2>4, LastStays DEF WriteFollowUp
<1>10. ASSUME CutShort(r) PROVE LastExact'
  <2>1. (\A q \in Request \ {r} : Kept(q, {})) /\ request'[r] = Idle
    BY <1>10, <1>a, CutMoves
  <2>2. unsure' = unsure \cup request[r].owes
    BY <1>10 DEF CutShort
  <2> QED
    BY <1>10, <2>1, <2>2, DuesStay, IdleKnows, LastStays DEF CutShort
<1> QED
  BY <1>1, <1>2, <1>3, <1>4, <1>5, <1>6, <1>7, <1>8, <1>9, <1>10 DEF Step

-----------------------------------------------------------------------------
(***************************************************************************)
(* touchpointCount.                                                        *)
(***************************************************************************)

\* Requests between the row and its count, by which of the two is done.
Ahead(r) == Is(r, "create") /\ "row" \in Todo(r) /\ "count" \notin Todo(r)
Behind(r) == Is(r, "create") /\ "count" \in Todo(r) /\ "row" \notin Todo(r)
Marked(r) == Is(r, "delete") /\ "count" \in Todo(r)

CountedAhead == {r \in Request : Ahead(r)}
NotYetCounted == {r \in Request : Behind(r)}
NotYetDiscounted == {r \in Request : Marked(r)}

\* No activity being deleted twice and no request cut short, the count differs
\* from the number of live activities by the requests that are between the two.
CountExact ==
    "touchpoints" \notin unsure =>
        touchpointCount + Cardinality(NotYetCounted) =
            Cardinality(Live) + Cardinality(CountedAhead) + Cardinality(NotYetDiscounted)

Bit(b) == IF b THEN 1 ELSE 0

LEMMA RequestsFinite ==
  ASSUME NEW S \in SUBSET Request
  PROVE  IsFiniteSet(S) /\ Cardinality(S) \in Nat
  BY FiniteAssumption, FS_Subset, FS_CardinalityType

\* Two sets of requests that differ in r at most.
LEMMA DifferInOne ==
  ASSUME NEW S \in SUBSET Request, NEW T \in SUBSET Request, NEW r \in Request,
         \A q \in Request \ {r} : q \in T <=> q \in S
  PROVE  Cardinality(T) = Cardinality(S) + Bit(r \in T) - Bit(r \in S)
<1>0. IsFiniteSet(S) /\ Cardinality(S) \in Nat /\ IsFiniteSet(T) /\ Cardinality(T) \in Nat
  BY RequestsFinite
<1>1. CASE r \in T <=> r \in S
  <2>1. S = T
    BY <1>1
  <2> QED
    BY <1>0, <2>1 DEF Bit
<1>2. CASE r \in T /\ r \notin S
  <2>1. T = S \cup {r}
    BY <1>2
  <2> QED
    BY <1>0, <1>2, <2>1, FS_AddElement DEF Bit
<1>3. CASE r \notin T /\ r \in S
  <2>1. T = S \ {r}
    BY <1>3
  <2> QED
    BY <1>0, <1>3, <2>1, FS_RemoveElement DEF Bit
<1> QED
  BY <1>1, <1>2, <1>3

\* Only r can enter or leave one of the three sets.
LEMMA CountsMove ==
  ASSUME NEW r \in Request, \A q \in Request \ {r} : Kept(q, {})
  PROVE  /\ Cardinality(CountedAhead') =
                Cardinality(CountedAhead) + Bit(Ahead(r)') - Bit(Ahead(r))
         /\ Cardinality(NotYetCounted') =
                Cardinality(NotYetCounted) + Bit(Behind(r)') - Bit(Behind(r))
         /\ Cardinality(NotYetDiscounted') =
                Cardinality(NotYetDiscounted) + Bit(Marked(r)') - Bit(Marked(r))
         /\ Cardinality(CountedAhead) \in Nat /\ Cardinality(NotYetCounted) \in Nat
         /\ Cardinality(NotYetDiscounted) \in Nat
<1>1. \A q \in Request \ {r} : /\ Ahead(q)' <=> Ahead(q)
                               /\ Behind(q)' <=> Behind(q)
                               /\ Marked(q)' <=> Marked(q)
  BY DEF Kept, Ahead, Behind, Marked, Is, Todo
<1>2. /\ CountedAhead \in SUBSET Request /\ CountedAhead' \in SUBSET Request
      /\ NotYetCounted \in SUBSET Request /\ NotYetCounted' \in SUBSET Request
      /\ NotYetDiscounted \in SUBSET Request /\ NotYetDiscounted' \in SUBSET Request
  BY DEF CountedAhead, NotYetCounted, NotYetDiscounted
<1>3. /\ \A q \in Request : q \in CountedAhead <=> Ahead(q)
      /\ \A q \in Request : q \in CountedAhead' <=> Ahead(q)'
  BY DEF CountedAhead
<1>4. /\ \A q \in Request : q \in NotYetCounted <=> Behind(q)
      /\ \A q \in Request : q \in NotYetCounted' <=> Behind(q)'
  BY DEF NotYetCounted
<1>5. /\ \A q \in Request : q \in NotYetDiscounted <=> Marked(q)
      /\ \A q \in Request : q \in NotYetDiscounted' <=> Marked(q)'
  BY DEF NotYetDiscounted
<1>6. Cardinality(CountedAhead') = Cardinality(CountedAhead)
          + Bit(r \in CountedAhead') - Bit(r \in CountedAhead)
  BY <1>1, <1>2, <1>3, DifferInOne
<1>7. Cardinality(NotYetCounted') = Cardinality(NotYetCounted)
          + Bit(r \in NotYetCounted') - Bit(r \in NotYetCounted)
  BY <1>1, <1>2, <1>4, DifferInOne
<1>8. Cardinality(NotYetDiscounted') = Cardinality(NotYetDiscounted)
          + Bit(r \in NotYetDiscounted') - Bit(r \in NotYetDiscounted)
  BY <1>1, <1>2, <1>5, DifferInOne
<1> QED
  BY <1>2, <1>3, <1>4, <1>5, <1>6, <1>7, <1>8, RequestsFinite DEF Bit

\* The count, the live rows and r's place between them move together.
LEMMA CountBalances ==
  ASSUME Typed, CountExact, NEW r \in Request, \A q \in Request \ {r} : Kept(q, {}),
         "touchpoints" \in unsure => "touchpoints" \in unsure',
         Cardinality(Live') \in Int, touchpointCount' \in Int,
         "touchpoints" \notin unsure' =>
             (touchpointCount' - touchpointCount) + (Bit(Behind(r)') - Bit(Behind(r))) =
                 (Cardinality(Live') - Cardinality(Live))
                 + (Bit(Ahead(r)') - Bit(Ahead(r))) + (Bit(Marked(r)') - Bit(Marked(r)))
  PROVE  CountExact'
<1> DEFINE A == Cardinality(CountedAhead)
           B == Cardinality(NotYetCounted)
           C == Cardinality(NotYetDiscounted)
           L == Cardinality(Live)
<1>1. /\ Cardinality(CountedAhead') = A + Bit(Ahead(r)') - Bit(Ahead(r))
      /\ Cardinality(NotYetCounted') = B + Bit(Behind(r)') - Bit(Behind(r))
      /\ Cardinality(NotYetDiscounted') = C + Bit(Marked(r)') - Bit(Marked(r))
      /\ A \in Int /\ B \in Int /\ C \in Int
  BY CountsMove
<1>2. L \in Int /\ touchpointCount \in Int
  BY LoggedFinite DEF Typed, ColumnsTyped
<1>3. \A b \in BOOLEAN : Bit(b) \in Int
  BY DEF Bit
<1>4. /\ Bit(Ahead(r)') \in Int /\ Bit(Ahead(r)) \in Int
      /\ Bit(Behind(r)') \in Int /\ Bit(Behind(r)) \in Int
      /\ Bit(Marked(r)') \in Int /\ Bit(Marked(r)) \in Int
  BY DEF Bit
<1>5. "touchpoints" \notin unsure => touchpointCount + B = L + A + C
  BY DEF CountExact
<1> HIDE DEF A, B, C, L
<1>6. ASSUME "touchpoints" \notin unsure'
      PROVE  touchpointCount' + Cardinality(NotYetCounted') =
                 Cardinality(Live') + Cardinality(CountedAhead')
                 + Cardinality(NotYetDiscounted')
  <2>1. /\ touchpointCount + B = L + A + C
        /\ (touchpointCount' - touchpointCount) + (Bit(Behind(r)') - Bit(Behind(r))) =
                 (Cardinality(Live') - L)
                 + (Bit(Ahead(r)') - Bit(Ahead(r))) + (Bit(Marked(r)') - Bit(Marked(r)))
    BY <1>5, <1>6 DEF L
  <2> QED
    BY <1>1, <1>2, <1>4, <2>1
<1> QED
  BY <1>6 DEF CountExact

\* A request between the row and the count owes the count.
LEMMA BetweenOwes ==
  ASSUME NEW r \in Request, Fits(request[r]), Ahead(r) \/ Behind(r) \/ Marked(r)
  PROVE  "touchpoints" \in request[r].owes
<1>1. CASE Ahead(r)
  BY <1>1 DEF Ahead, Is, Todo, Fits, Creating
<1>2. CASE Behind(r)
  BY <1>2 DEF Behind, Is, Todo, Fits, Creating, Column
<1>3. CASE Marked(r)
  BY <1>3 DEF Marked, Is, Todo, Fits, Deleting
<1> QED
  BY <1>1, <1>2, <1>3

\* A step that leaves the rows and the count alone, and r where it is.
LEMMA CountStays ==
  ASSUME Typed, CountExact, NEW r \in Request, \A q \in Request \ {r} : Kept(q, {}),
         "touchpoints" \in unsure => "touchpoints" \in unsure',
         Live' = Live, touchpointCount' = touchpointCount,
         \/ "touchpoints" \in unsure'
         \/ /\ Ahead(r)' <=> Ahead(r)
            /\ Behind(r)' <=> Behind(r)
            /\ Marked(r)' <=> Marked(r)
  PROVE  CountExact'
<1>1. Cardinality(Live) \in Int /\ touchpointCount \in Int
  BY LoggedFinite DEF Typed, ColumnsTyped
<1>2. "touchpoints" \notin unsure' =>
         /\ Bit(Ahead(r)') = Bit(Ahead(r)) /\ Bit(Behind(r)') = Bit(Behind(r))
         /\ Bit(Marked(r)') = Bit(Marked(r))
  BY DEF Bit
<1>3. /\ Bit(Ahead(r)) \in Int /\ Bit(Behind(r)) \in Int /\ Bit(Marked(r)) \in Int
  BY DEF Bit
<1>4. "touchpoints" \notin unsure' =>
         (touchpointCount' - touchpointCount) + (Bit(Behind(r)') - Bit(Behind(r))) =
             (Cardinality(Live') - Cardinality(Live))
             + (Bit(Ahead(r)') - Bit(Ahead(r))) + (Bit(Marked(r)') - Bit(Marked(r)))
  BY <1>1, <1>2, <1>3
<1> QED
  BY <1>1, <1>4, CountBalances

LEMMA IdleBetween ==
  ASSUME NEW r, request'[r] = Idle
  PROVE  ~Ahead(r)' /\ ~Behind(r)' /\ ~Marked(r)'
  BY IdleFits DEF Ahead, Behind, Marked, Is, Todo

LEMMA StepCount ==
  ASSUME Typed, CountExact, NEW r \in Request, Step(r)
  PROVE  CountExact'
<1>a. /\ Fits(request[r]) /\ request[r] \in Progress /\ RequestsFit /\ TableTyped
      /\ Cardinality(Live) \in Int /\ IsFiniteSet(Live) /\ touchpointCount \in Int
  BY ProgressTyped, LoggedFinite DEF Typed, ColumnsTyped
<1>b. EarliestDue \in Due \cup {None} /\ Latest \in Activity \cup {None}
  BY <1>a, EarliestDueIs, LatestIs
<1>1. ASSUME NEW d \in Due \cup {None}, InsertActivity(r, d) PROVE CountExact'
  <2>1. /\ \A q \in Request \ {r} : Kept(q, {})
        /\ Is(r, "create")
    BY <1>1, <1>a, InsertMoves, KeptWeaker
  <2>2. Cardinality(Live') = Cardinality(Live) + 1
    <3>1. PICK a : a \notin Live /\ Live' = Live \cup {a}
      BY <1>1, InsertLive
    <3>2. Cardinality(Live \cup {a}) = Cardinality(Live) + 1
      BY <1>a, <3>1, FS_AddElement
    <3> QED
      BY <3>1, <3>2
  <2>3. /\ touchpointCount' = touchpointCount
        /\ "touchpoints" \in unsure => "touchpoints" \in unsure'
    BY <1>1 DEF InsertActivity, Settle
  <2>4. CASE "count" \in Todo(r)
    <3>1. /\ ~Ahead(r) /\ ~Behind(r) /\ ~Marked(r)
          /\ ~Ahead(r)' /\ Behind(r)' /\ ~Marked(r)'
      BY <1>1, <1>a, <2>1, <2>4, InsertMoves
      DEF Ahead, Behind, Marked, Becomes, Is, Todo
    <3>2. (touchpointCount' - touchpointCount) + (Bit(Behind(r)') - Bit(Behind(r))) =
             (Cardinality(Live') - Cardinality(Live))
             + (Bit(Ahead(r)') - Bit(Ahead(r))) + (Bit(Marked(r)') - Bit(Marked(r)))
      BY <1>a, <2>2, <2>3, <3>1 DEF Bit
    <3> QED
      BY <1>a, <2>1, <2>2, <2>3, <3>2, CountBalances
  <2>5. CASE "count" \notin Todo(r)
    <3>1. /\ Todo(r) = {"row"}
          /\ \/ Becomes(r, {"readFollowUp"}, {"followUp"})
             \/ request'[r] = Idle
      BY <1>1, <1>a, <2>5, InsertMoves
    <3>2. Ahead(r) /\ ~Behind(r) /\ ~Marked(r)
      BY <2>1, <3>1 DEF Ahead, Behind, Marked, Is
    <3>3. ~Ahead(r)' /\ ~Behind(r)' /\ ~Marked(r)'
      BY <3>1, IdleBetween DEF Ahead, Behind, Marked, Becomes, Todo
    <3>4. (touchpointCount' - touchpointCount) + (Bit(Behind(r)') - Bit(Behind(r))) =
             (Cardinality(Live') - Cardinality(Live))
             + (Bit(Ahead(r)') - Bit(Ahead(r))) + (Bit(Marked(r)') - Bit(Marked(r)))
      BY <1>a, <2>2, <2>3, <3>2, <3>3 DEF Bit
    <3> QED
      BY <1>a, <2>1, <2>2, <2>3, <3>4, CountBalances
  <2> QED
    BY <2>4, <2>5
<1>2. ASSUME NEW d \in Due \cup {None}, UpdateRow(r, d) PROVE CountExact'
  <2>1. /\ \A q \in Request \ {r} : Kept(q, {})
        /\ Is(r, "update") /\ Becomes(r, {"readFollowUp"}, {"followUp"})
    BY <1>2, <1>a, UpdateMoves, KeptWeaker
  <2>2. /\ ~Ahead(r) /\ ~Behind(r) /\ ~Marked(r)
        /\ ~Ahead(r)' /\ ~Behind(r)' /\ ~Marked(r)'
    BY <2>1 DEF Ahead, Behind, Marked, Becomes, Is, Todo
  <2> QED
    BY <1>2, <2>1, <2>2, CountStays DEF UpdateRow, Live
<1>3. ASSUME CountActivity(r) PROVE CountExact'
  <2>1. /\ \A q \in Request \ {r} : Kept(q, {})
        /\ Is(r, "create")
    BY <1>3, <1>a, CountMoves
  <2>2. /\ touchpointCount' = touchpointCount + 1 /\ Live' = Live
        /\ "touchpoints" \in unsure => "touchpoints" \in unsure'
    BY <1>3, TableStays, <1>a DEF CountActivity, Settle
  <2>3. CASE "row" \in Todo(r)
    <3>1. /\ ~Ahead(r) /\ ~Behind(r) /\ ~Marked(r)
          /\ Ahead(r)' /\ ~Behind(r)' /\ ~Marked(r)'
      BY <1>3, <1>a, <2>1, <2>3, CountMoves
      DEF Ahead, Behind, Marked, Becomes, Is, Todo
    <3>2. (touchpointCount' - touchpointCount) + (Bit(Behind(r)') - Bit(Behind(r))) =
             (Cardinality(Live') - Cardinality(Live))
             + (Bit(Ahead(r)') - Bit(Ahead(r))) + (Bit(Marked(r)') - Bit(Marked(r)))
      BY <1>a, <2>2, <3>1 DEF Bit
    <3> QED
      BY <1>a, <2>1, <2>2, <3>2, CountBalances
  <2>4. CASE "row" \notin Todo(r)
    <3>1. /\ Todo(r) = {"count"}
          /\ \/ Becomes(r, {"readFollowUp"}, {"followUp"})
             \/ request'[r] = Idle
      BY <1>3, <1>a, <2>4, CountMoves
    <3>2. ~Ahead(r) /\ Behind(r) /\ ~Marked(r)
      BY <2>1, <3>1 DEF Ahead, Behind, Marked, Is
    <3>3. ~Ahead(r)' /\ ~Behind(r)' /\ ~Marked(r)'
      BY <3>1, IdleBetween DEF Ahead, Behind, Marked, Becomes, Todo
    <3>4. (touchpointCount' - touchpointCount) + (Bit(Behind(r)') - Bit(Behind(r))) =
             (Cardinality(Live') - Cardinality(Live))
             + (Bit(Ahead(r)') - Bit(Ahead(r))) + (Bit(Marked(r)') - Bit(Marked(r)))
      BY <1>a, <2>2, <3>2, <3>3 DEF Bit
    <3> QED
      BY <1>a, <2>1, <2>2, <3>4, CountBalances
  <2> QED
    BY <2>3, <2>4
<1>4. ASSUME MarkDeleted(r) PROVE CountExact'
  <2> DEFINE a == request[r].activity
  <2>1. /\ \A q \in Request \ {r} : Kept(q, {})
        /\ Is(r, "delete") /\ Todo(r) = {"row"}
        /\ Becomes(r, {"count", "readLast", "readFollowUp"}, Column)
    BY <1>4, <1>a, MarkMoves, KeptWeaker
  <2>2. a \in logged
    BY <2>1 DEF Typed, RowsTyped, Inserting, Is
  <2>3. /\ deleted' = deleted \cup {a} /\ logged' = logged
        /\ unsure' = IF a \in deleted THEN unsure \cup {"touchpoints"} ELSE unsure
        /\ touchpointCount' = touchpointCount
    BY <1>4 DEF MarkDeleted
  <2> HIDE DEF a
  <2>4. Live' = Live \ {a} /\ (a \notin deleted => a \in Live)
    BY <2>2, <2>3 DEF Live
  <2>5. /\ Cardinality(Live') \in Int
        /\ a \notin deleted => Cardinality(Live') = Cardinality(Live) - 1
    BY <1>a, <2>4, FS_RemoveElement
  <2>6. /\ ~Ahead(r) /\ ~Behind(r) /\ ~Marked(r)
        /\ ~Ahead(r)' /\ ~Behind(r)' /\ Marked(r)'
    BY <2>1 DEF Ahead, Behind, Marked, Becomes, Is, Todo
  <2>7. a \notin deleted =>
           (touchpointCount' - touchpointCount) + (Bit(Behind(r)') - Bit(Behind(r))) =
             (Cardinality(Live') - Cardinality(Live))
             + (Bit(Ahead(r)') - Bit(Ahead(r))) + (Bit(Marked(r)') - Bit(Marked(r)))
    BY <1>a, <2>3, <2>5, <2>6 DEF Bit
  <2>8. /\ "touchpoints" \in unsure => "touchpoints" \in unsure'
        /\ "touchpoints" \notin unsure' => a \notin deleted
    BY <2>3
  <2> QED
    BY <1>a, <2>1, <2>3, <2>5, <2>7, <2>8, CountBalances
<1>5. ASSUME DiscountActivity(r) PROVE CountExact'
  <2>1. /\ \A q \in Request \ {r} : Kept(q, {})
        /\ Is(r, "delete") /\ "count" \in Todo(r)
        /\ \/ Becomes(r, Todo(r) \ {"count"}, request[r].owes \ {"touchpoints"})
           \/ request'[r] = Idle
    BY <1>5, <1>a, DiscountMoves
  <2>2. /\ touchpointCount' = touchpointCount - 1 /\ Live' = Live
        /\ unsure' = unsure
    BY <1>5, TableStays, <1>a DEF DiscountActivity
  <2>3. ~Ahead(r) /\ ~Behind(r) /\ Marked(r)
    BY <2>1 DEF Ahead, Behind, Marked, Is
  <2>4. ~Ahead(r)' /\ ~Behind(r)' /\ ~Marked(r)'
    BY <2>1, IdleBetween DEF Ahead, Behind, Marked, Becomes, Todo, Is
  <2>5. (touchpointCount' - touchpointCount) + (Bit(Behind(r)') - Bit(Behind(r))) =
             (Cardinality(Live') - Cardinality(Live))
             + (Bit(Ahead(r)') - Bit(Ahead(r))) + (Bit(Marked(r)') - Bit(Marked(r)))
    BY <1>a, <2>2, <2>3, <2>4 DEF Bit
  <2> QED
    BY <1>a, <2>1, <2>2, <2>5, CountBalances
<1>6. ASSUME ReadLast(r) PROVE CountExact'
  <2>1. /\ \A q \in Request \ {r} : Kept(q, {})
        /\ Becomes(r, (Todo(r) \ {"readLast"}) \cup {"writeLast"}, request[r].owes)
    BY <1>6, <1>a, <1>b, ReadLastMoves
  <2>2. Live' = Live
    BY <1>6, <1>a, TableStays DEF ReadLast
  <2> QED
    BY <1>6, <2>1, <2>2, CountStays DEF ReadLast, Becomes, Ahead, Behind, Marked, Is, Todo
<1>7. ASSUME WriteLast(r) PROVE CountExact'
  <2>1. /\ \A q \in Request \ {r} : Kept(q, {})
        /\ Is(r, "delete")
        /\ \/ Becomes(r, Todo(r) \ {"writeLast"}, request[r].owes \ {"last"})
           \/ Todo(r) = {"writeLast"} /\ request'[r] = Idle
    BY <1>7, <1>a, WriteLastMoves
  <2>2. /\ Live' = Live /\ touchpointCount' = touchpointCount
        /\ "touchpoints" \in unsure => "touchpoints" \in unsure'
    BY <1>7, <1>a, TableStays DEF WriteLast, Settle
  <2>3. /\ Ahead(r)' <=> Ahead(r)
        /\ Behind(r)' <=> Behind(r)
        /\ Marked(r)' <=> Marked(r)
    BY <2>1, IdleBetween DEF Becomes, Ahead, Behind, Marked, Is, Todo
  <2> QED
    BY <2>1, <2>2, <2>3, CountStays
<1>8. ASSUME ReadFollowUp(r) PROVE CountExact'
  <2>1. /\ \A q \in Request \ {r} : Kept(q, {})
        /\ Becomes(r, (Todo(r) \ {"readFollowUp"}) \cup {"writeFollowUp"}, request[r].owes)
    BY <1>8, <1>a, <1>b, ReadFollowUpMoves
  <2>2. Live' = Live
    BY <1>8, <1>a, TableStays DEF ReadFollowUp
  <2> QED
    BY <1>8, <2>1, <2>2, CountStays DEF ReadFollowUp, Becomes, Ahead, Behind, Marked, Is, Todo
<1>9. ASSUME WriteFollowUp(r) PROVE CountExact'
  <2>1. /\ \A q \in Request \ {r} : Kept(q, {})
        /\ \/ /\ Is(r, "delete")
              /\ Becomes(r, Todo(r) \ {"writeFollowUp"}, request[r].owes \ {"followUp"})
           \/ Todo(r) = {"writeFollowUp"} /\ request'[r] = Idle
    BY <1>9, <1>a, WriteFollowUpMoves
  <2>2. /\ Live' = Live /\ touchpointCount' = touchpointCount
        /\ "touchpoints" \in unsure => "touchpoints" \in unsure'
    BY <1>9, <1>a, TableStays DEF WriteFollowUp, Settle
  <2>3. /\ Ahead(r)' <=> Ahead(r)
        /\ Behind(r)' <=> Behind(r)
        /\ Marked(r)' <=> Marked(r)
    BY <2>1, IdleBetween DEF Becomes, Ahead, Behind, Marked, Is, Todo
  <2> QED
    BY <2>1, <2>2, <2>3, CountStays
<1>10. ASSUME CutShort(r) PROVE CountExact'
  <2>1. (\A q \in Request \ {r} : Kept(q, {})) /\ request'[r] = Idle
    BY <1>10, <1>a, CutMoves
  <2>2. /\ unsure' = unsure \cup request[r].owes
        /\ Live' = Live /\ touchpointCount' = touchpointCount
    BY <1>10, <1>a, TableStays DEF CutShort
  <2>3. ~Ahead(r)' /\ ~Behind(r)' /\ ~Marked(r)'
    BY <2>1, IdleBetween
  <2>4. "touchpoints" \notin unsure' => ~Ahead(r) /\ ~Behind(r) /\ ~Marked(r)
    BY <1>a, <2>2, BetweenOwes
  <2> QED
    BY <2>1, <2>2, <2>3, <2>4, CountStays
<1> QED
  BY <1>1, <1>2, <1>3, <1>4, <1>5, <1>6, <1>7, <1>8, <1>9, <1>10 DEF Step

-----------------------------------------------------------------------------
(***************************************************************************)
(* The three columns together.                                             *)
(***************************************************************************)

Explained == FollowUpExact /\ LastExact /\ CountExact

\* When nobody owes the count, nobody is between a row and the count.
LEMMA ExplainedSuffices ==
  ASSUME Typed, Explained
  PROVE  ColumnsExplained
<1> SUFFICES ASSUME NEW c \in Column, Settled(c) PROVE Exact(c)
  BY DEF ColumnsExplained, Settled
<1>1. CASE c = "followUp"
  BY <1>1 DEF Explained, FollowUpExact, Exact
<1>2. CASE c = "last"
  BY <1>2 DEF Explained, LastExact, Exact
<1>3. CASE c = "touchpoints"
  <2>1. \A r \in Request : ~Ahead(r) /\ ~Behind(r) /\ ~Marked(r)
    BY <1>3, BetweenOwes, ProgressTyped DEF Settled
  <2>2. CountedAhead = {} /\ NotYetCounted = {} /\ NotYetDiscounted = {}
    BY <2>1 DEF CountedAhead, NotYetCounted, NotYetDiscounted
  <2>3. touchpointCount + Cardinality({}) =
            Cardinality(Live) + Cardinality({}) + Cardinality({})
    BY <1>3, <2>2 DEF Explained, CountExact, Settled
  <2>4. touchpointCount \in Int /\ Cardinality(Live) \in Int /\ Cardinality({}) = 0
    BY LoggedFinite, FS_EmptySet DEF Typed, ColumnsTyped
  <2>5. touchpointCount = Cardinality(Live)
    BY <2>3, <2>4
  <2> QED
    BY <1>3, <2>5 DEF Exact
<1> QED
  BY <1>1, <1>2, <1>3 DEF Column

LEMMA InitExplained == Init => Explained
<1> SUFFICES ASSUME Init PROVE Explained
  OBVIOUS
<1>1. \A r \in Request : request[r].todo = {}
  BY IdleFits DEF Init
<1>2. Live = {} /\ Dues = {}
  BY DEF Init, Live, Dues
<1>3. FollowUpExact
  BY <1>1, <1>2 DEF Init, FollowUpExact, Reread, Todo, EarliestDue
<1>4. LastExact
  BY <1>1, <1>2 DEF Init, LastExact, LastKnown, Todo, Latest
<1>5. CountedAhead = {} /\ NotYetCounted = {} /\ NotYetDiscounted = {}
  BY <1>1 DEF CountedAhead, NotYetCounted, NotYetDiscounted, Ahead, Behind, Marked, Todo
<1>6. CountExact
  BY <1>2, <1>5, FS_EmptySet DEF Init, CountExact
<1> QED
  BY <1>3, <1>4, <1>6 DEF Explained

LEMMA NextExplained == Typed /\ Explained /\ [Next]_vars => Explained'
<1> SUFFICES ASSUME Typed, Explained, [Next]_vars PROVE Explained'
  OBVIOUS
<1>1. CASE UNCHANGED vars
  <2>1. Live' = Live /\ Latest' = Latest /\ EarliestDue' = EarliestDue
    BY <1>1, DuesStay DEF vars, Live
  <2>2. FollowUpExact' /\ LastExact'
    BY <1>1, <2>1
    DEF vars, Explained, FollowUpExact, LastExact, LastKnown, Reread, Settled, Todo, Is
  <2>3. /\ CountedAhead' = CountedAhead /\ NotYetCounted' = NotYetCounted
        /\ NotYetDiscounted' = NotYetDiscounted
    BY <1>1 DEF vars, CountedAhead, NotYetCounted, NotYetDiscounted, Ahead, Behind, Marked,
                Todo, Is
  <2>4. CountExact'
    BY <1>1, <2>1, <2>3 DEF vars, Explained, CountExact
  <2> QED
    BY <2>2, <2>4 DEF Explained
<1>2. ASSUME NEW r \in Request, NEW a \in Activity,
             CreateActivity(r, a) \/ UpdateActivity(r, a) \/ DeleteActivity(r, a)
      PROVE  Explained'
  <2>1. /\ \A q \in Request \ {r} : Kept(q, {})
        /\ Is(r, "idle") /\ request[r].owes = {}
        /\ request'[r].kind = "create" => request'[r].todo = {"row", "count"}
        /\ request'[r].kind # "create" => request'[r].todo = {"row"}
        /\ UNCHANGED <<table, columns, unsure>>
    BY <1>2, BeginSays
  <2>2. /\ ~Reread(r)' /\ LastKnown(r)'
        /\ ~Ahead(r)' /\ ~Behind(r)' /\ ~Marked(r)'
        /\ ~Ahead(r) /\ ~Behind(r) /\ ~Marked(r)
    BY <2>1 DEF Reread, LastKnown, Ahead, Behind, Marked, Is, Todo
  <2>3. Live' = Live /\ Latest' = Latest /\ EarliestDue' = EarliestDue
    BY <2>1, DuesStay DEF Live
  <2> QED
    BY <2>1, <2>2, <2>3, FollowUpStays, LastStays, CountStays DEF Explained
<1>3. ASSUME NEW r \in Request, Step(r) PROVE Explained'
  BY <1>3, StepFollowUp, StepLast, StepCount DEF Explained
<1> QED
  BY <1>1, <1>2, <1>3 DEF Next

\* However the statements of the requests interleave and wherever they stop, a
\* column that nobody still has to bring up to date summarises the rows exactly,
\* unless it was last written by a recalculation that had been overtaken, an
\* activity was deleted twice, or a request was cut short.
THEOREM TheColumnsAreExplained == Spec => []ColumnsExplained
<1>1. Spec => [](Typed /\ Explained)
  BY InitTyped, NextTyped, InitExplained, NextExplained, PTL DEF Spec
<1>2. Typed /\ Explained => ColumnsExplained
  BY ExplainedSuffices
<1> QED
  BY <1>1, <1>2, PTL

HIDE DEF table, columns

-----------------------------------------------------------------------------
(***************************************************************************)
(* Webhooks.                                                               *)
(***************************************************************************)

\* A request that is served has one of five lists of statements to write, and
\* the tokens these name were drawn.
StatementsLeft ==
    \A r \in Request :
        \/ webhookRequest[r] = Hooks!Idle
        \/ /\ webhookRequest[r].todo \in
                {{"delete"}, {"replace"}, {"drop"}, {"drop", "set"}, {"set"}}
           /\ webhookRequest[r].webhook \in Webhook
           /\ webhookRequest[r].old <= drawn /\ webhookRequest[r].new <= drawn
           /\ Hooks!ToDo(r, "replace") \/ Hooks!ToDo(r, "set") => webhookRequest[r].new # 0

RowsAreInserted == \A w \in Webhook : Hooks!Exists(w) => w \in allocated

\* No two rows hold one token.
TokensDiffer ==
    /\ \A w \in Webhook : token[w] <= drawn
    /\ \A w, v \in Webhook : Hooks!Exists(w) /\ token[w] = token[v] => w = v

\* A token drawn to replace another is in no row yet, and no other request has it.
NewIsUnused ==
    \A r \in Request : Hooks!ToDo(r, "replace") =>
        /\ \A w \in Webhook : token[w] # webhookRequest[r].new
        /\ \A q \in Request :
            /\ webhookRequest[q].old # webhookRequest[r].new
            /\ Hooks!ToDo(q, "replace") /\ q # r
                   => webhookRequest[q].new # webhookRequest[r].new

\* A token read from one row is in no other, and in none once its key is to go.
OldIsGone ==
    \A r \in Request, w \in Webhook :
        Hooks!Exists(w) /\ token[w] = webhookRequest[r].old =>
            w = webhookRequest[r].webhook /\ ~Hooks!ToDo(r, "drop")

\* The token of a row has its key, or lost it, or a request is to set it.
KeyIsPending ==
    \A w \in Webhook : Hooks!Exists(w) =>
        \/ token[w] \in keys \cup lost
        \/ \E r \in Request : /\ Hooks!ToDo(r, "set")
                              /\ webhookRequest[r].new = token[w]
                              /\ webhookRequest[r].webhook = w

TokensSound == StatementsLeft /\ TokensDiffer /\ NewIsUnused /\ OldIsGone

HooksSound == Hooks!TypeOK /\ RowsAreInserted /\ TokensSound /\ KeyIsPending

\* What a request becomes when it has written a statement, or stops.
Shortened(r) ==
    \/ webhookRequest'[r] = Hooks!Idle
    \/ /\ webhookRequest'[r].webhook = webhookRequest[r].webhook
       /\ webhookRequest'[r].old = webhookRequest[r].old
       /\ webhookRequest'[r].new = webhookRequest[r].new
       /\ \/ webhookRequest'[r].todo = {"drop"} /\ webhookRequest[r].todo # {}
          \/ webhookRequest'[r].todo = {"set"} /\ Hooks!ToDo(r, "set")

Others(r) ==
    \A q \in Request : q # r => webhookRequest'[q] = webhookRequest[q]

\* A request goes on, and is idle once it has nothing left to write.
LEMMA HooksMove ==
  ASSUME Hooks!TypeOK, NEW r \in Request, NEW p \in Hooks!Progress, Hooks!Go(r, p)
  PROVE  /\ Others(r)
         /\ webhookRequest'[r] = IF p.todo = {} THEN Hooks!Idle ELSE p
         /\ webhookRequest' \in [Request -> Hooks!Progress]
<1>1. Hooks!Idle \in Hooks!Progress
  BY CrmAssumption DEF Hooks!Idle, Hooks!Serving, Hooks!Progress
<1>2. webhookRequest' = [webhookRequest EXCEPT ![r] = IF p.todo = {} THEN Hooks!Idle ELSE p]
  BY DEF Hooks!Go
<1> DEFINE i == IF p.todo = {} THEN Hooks!Idle ELSE p
<1>3. i \in Hooks!Progress
  BY <1>1
<1> HIDE DEF i
<1>4. webhookRequest' = [webhookRequest EXCEPT ![r] = i]
  BY <1>2 DEF i
<1>5. webhookRequest \in [Request -> Hooks!Progress]
  BY DEF Hooks!TypeOK
<1>6. Others(r) /\ webhookRequest'[r] = i /\ webhookRequest' \in [Request -> Hooks!Progress]
  BY <1>3, <1>4, <1>5 DEF Others
<1> QED
  BY <1>6 DEF i

LEMMA HooksBegin ==
  ASSUME Hooks!TypeOK, NEW r \in Request, NEW p \in Hooks!Progress, Hooks!Begin(r, p)
  PROVE  /\ Others(r)
         /\ webhookRequest[r] = Hooks!Idle
         /\ webhookRequest'[r] = p
         /\ webhookRequest' \in [Request -> Hooks!Progress]
  BY DEF Hooks!TypeOK, Hooks!Begin, Others

\* Less to write, and rows that are gone, leave the tokens in order.
LEMMA ShortenedSound ==
  ASSUME Hooks!TypeOK, TokensSound, NEW r \in Request, Others(r), Shortened(r),
         drawn' = drawn, \A w \in Webhook : token'[w] \in {token[w], 0},
         \A w \in Webhook : Hooks!ToDo(r, "drop")' /\ ~Hooks!ToDo(r, "drop") =>
             token'[w] # webhookRequest[r].old \/ token'[w] = 0
  PROVE  TokensSound'
<1>1. StatementsLeft'
  BY DEF TokensSound, StatementsLeft, Others, Shortened, Hooks!ToDo, Hooks!Idle, Hooks!Serving
<1>2. TokensDiffer'
  BY DEF TokensSound, TokensDiffer, Hooks!Exists, Hooks!TypeOK
<1>3. NewIsUnused'
  BY DEF TokensSound, StatementsLeft, NewIsUnused, Others, Shortened, Hooks!ToDo,
         Hooks!Idle, Hooks!Serving
<1>4. OldIsGone'
  BY DEF TokensSound, OldIsGone, Hooks!Exists, Others, Shortened, Hooks!ToDo,
         Hooks!Idle, Hooks!Serving
<1> QED
  BY <1>1, <1>2, <1>3, <1>4 DEF TokensSound

\* A key that is written leaves the rest of the request to write.
LEMMA HooksDone ==
  ASSUME Hooks!TypeOK, StatementsLeft, NEW r \in Request, NEW stmt \in {"drop", "set"},
         Hooks!ToDo(r, stmt), Hooks!Done(r, stmt)
  PROVE  /\ Others(r) /\ Shortened(r)
         /\ webhookRequest' \in [Request -> Hooks!Progress]
         /\ Hooks!ToDo(r, "drop")' => Hooks!ToDo(r, "drop")
         /\ stmt = "drop" /\ Hooks!ToDo(r, "set") =>
                /\ Hooks!ToDo(r, "set")'
                /\ webhookRequest'[r].new = webhookRequest[r].new
                /\ webhookRequest'[r].webhook = webhookRequest[r].webhook
<1> DEFINE p == [webhookRequest[r] EXCEPT !.todo = @ \ {stmt}]
<1>1. /\ webhookRequest[r] \in Hooks!Progress
      /\ webhookRequest[r].todo \in {{"drop"}, {"drop", "set"}, {"set"}}
  BY DEF StatementsLeft, Hooks!ToDo, Hooks!Idle, Hooks!Serving, Hooks!TypeOK
<1>2. /\ p \in Hooks!Progress
      /\ p.todo = webhookRequest[r].todo \ {stmt}
      /\ p.webhook = webhookRequest[r].webhook
      /\ p.old = webhookRequest[r].old /\ p.new = webhookRequest[r].new
  BY <1>1 DEF Hooks!Progress
<1>3. Hooks!Go(r, p)
  BY DEF Hooks!Done
<1> HIDE DEF p
<1>4. /\ Others(r)
      /\ webhookRequest'[r] = IF p.todo = {} THEN Hooks!Idle ELSE p
      /\ webhookRequest' \in [Request -> Hooks!Progress]
  BY <1>2, <1>3, HooksMove
<1>5. p.todo \in {{}, {"drop"}, {"set"}} /\ (p.todo = {"drop"} => stmt = "set")
  BY <1>1, <1>2
<1>6. Shortened(r)
  BY <1>1, <1>2, <1>4, <1>5 DEF Shortened, Hooks!ToDo
<1> QED
  BY <1>1, <1>2, <1>4, <1>5, <1>6 DEF Hooks!ToDo, Hooks!Idle, Hooks!Serving

LEMMA HooksInit == Hooks!Init => HooksSound
<1> SUFFICES ASSUME Hooks!Init PROVE HooksSound
  OBVIOUS
<1> USE CrmAssumption DEF Hooks!Init, Hooks!Idle, Hooks!Serving
<1>1. Hooks!TypeOK
  BY DEF Hooks!TypeOK, Hooks!Progress
<1>2. TokensSound
  BY DEF TokensSound, StatementsLeft, TokensDiffer, NewIsUnused, OldIsGone,
         Hooks!Exists, Hooks!ToDo
<1>3. RowsAreInserted /\ KeyIsPending
  BY DEF RowsAreInserted, KeyIsPending, Hooks!Exists
<1> QED
  BY <1>1, <1>2, <1>3 DEF HooksSound

LEMMA HooksStep == HooksSound /\ [Hooks!Next]_hooks => HooksSound'
<1> SUFFICES ASSUME HooksSound, [Hooks!Next]_hooks PROVE HooksSound'
  OBVIOUS
<1> USE CrmAssumption
<1>0. Hooks!TypeOK /\ RowsAreInserted /\ TokensSound /\ KeyIsPending
  BY DEF HooksSound
<1>1. ASSUME NEW w \in Webhook, Hooks!UpdateWebhook(w) PROVE HooksSound'
  <2>1. Hooks!TypeOK'
    BY <1>0, <1>1 DEF Hooks!UpdateWebhook, Hooks!TypeOK, RowsAreInserted
  <2>2. RowsAreInserted' /\ TokensSound' /\ KeyIsPending'
    BY <1>0, <1>1
       DEF Hooks!UpdateWebhook, RowsAreInserted, TokensSound, StatementsLeft, TokensDiffer,
       NewIsUnused, OldIsGone, KeyIsPending, Hooks!Exists, Hooks!ToDo
  <2> QED
    BY <2>1, <2>2 DEF HooksSound
<1>2. ASSUME NEW r \in Request, NEW w \in Webhook, Hooks!CreateWebhook(r, w)
      PROVE  HooksSound'
  <2> DEFINE p == Hooks!Serving(w, 0, {"set"}, drawn + 1)
  <2>1. p \in Hooks!Progress /\ drawn' = drawn + 1 /\ drawn + 1 \in 1..MaxToken
    BY <1>0, <1>2 DEF Hooks!CreateWebhook, Hooks!Progress, Hooks!Serving, Hooks!TypeOK
  <2>2. /\ Others(r) /\ webhookRequest[r] = Hooks!Idle /\ webhookRequest'[r] = p
        /\ webhookRequest' \in [Request -> Hooks!Progress]
    <3> HIDE DEF p
    <3>1. Hooks!Begin(r, p)
      BY <1>2 DEF Hooks!CreateWebhook, p
    <3> QED
      BY <1>0, <2>1, <3>1, HooksBegin
  <2>3. Hooks!TypeOK' /\ RowsAreInserted'
    BY <1>0, <1>2, <2>1, <2>2
       DEF Hooks!CreateWebhook, Hooks!TypeOK, RowsAreInserted, Hooks!Exists
  <2>4. \A v \in Webhook : token'[v] = IF v = w THEN drawn + 1 ELSE token[v]
    BY <1>0, <1>2 DEF Hooks!CreateWebhook, Hooks!TypeOK
  <2>5. StatementsLeft'
    BY <1>0, <2>1, <2>2, <2>3
       DEF TokensSound, StatementsLeft, Others, Hooks!Serving, Hooks!ToDo,
       Hooks!TypeOK, Hooks!Progress
  <2>6. TokensDiffer'
    BY <1>0, <2>1, <2>3, <2>4 DEF TokensSound, TokensDiffer, Hooks!Exists, Hooks!TypeOK
  <2>7. NewIsUnused'
    BY <1>0, <2>1, <2>2, <2>3, <2>4 DEF TokensSound, StatementsLeft, NewIsUnused, Others,
       Hooks!Serving, Hooks!Idle, Hooks!ToDo, Hooks!TypeOK, Hooks!Progress
  <2>8. OldIsGone'
    BY <1>0, <2>1, <2>2, <2>3, <2>4 DEF TokensSound, StatementsLeft, OldIsGone, Others,
       Hooks!Serving, Hooks!Idle, Hooks!Exists, Hooks!ToDo, Hooks!TypeOK, Hooks!Progress
  <2>9. KeyIsPending'
    BY <1>0, <1>2, <2>2, <2>4 DEF KeyIsPending, Hooks!CreateWebhook, Others,
       Hooks!Serving, Hooks!Idle, Hooks!Exists, Hooks!ToDo
  <2> QED
    BY <2>3, <2>5, <2>6, <2>7, <2>8, <2>9 DEF HooksSound, TokensSound
<1>3. ASSUME NEW r \in Request, NEW w \in Webhook, Hooks!DeleteWebhook(r, w)
      PROVE  HooksSound'
  <2> DEFINE p == Hooks!Serving(w, token[w], {"delete"}, 0)
  <2>1. p \in Hooks!Progress
    BY <1>0 DEF Hooks!Progress, Hooks!Serving, Hooks!TypeOK
  <2>2. /\ Others(r) /\ webhookRequest[r] = Hooks!Idle /\ webhookRequest'[r] = p
        /\ webhookRequest' \in [Request -> Hooks!Progress]
    <3> HIDE DEF p
    <3>1. Hooks!Begin(r, p)
      BY <1>3 DEF Hooks!DeleteWebhook, p
    <3> QED
      BY <1>0, <2>1, <3>1, HooksBegin
  <2>3. Hooks!TypeOK' /\ RowsAreInserted'
    BY <1>0, <1>3, <2>2
       DEF Hooks!DeleteWebhook, Hooks!rows, Hooks!TypeOK, RowsAreInserted, Hooks!Exists
  <2>4. UNCHANGED <<allocated, token, inactive, keys, drawn, lost>>
    BY <1>3 DEF Hooks!DeleteWebhook, Hooks!rows
  <2>5. StatementsLeft' /\ TokensDiffer'
    BY <1>0, <2>2, <2>3, <2>4 DEF TokensSound, StatementsLeft, TokensDiffer, Others,
       Hooks!Serving, Hooks!ToDo, Hooks!Exists, Hooks!TypeOK, Hooks!Progress
  <2>6. NewIsUnused'
    BY <1>0, <2>2, <2>4 DEF TokensSound, NewIsUnused, Others, Hooks!Serving, Hooks!ToDo
  <2>7. OldIsGone'
    BY <1>0, <2>2, <2>4 DEF TokensSound, TokensDiffer, OldIsGone, Others, Hooks!Serving,
       Hooks!ToDo, Hooks!Exists
  <2>8. KeyIsPending'
    BY <1>0, <2>2, <2>4 DEF KeyIsPending, Others, Hooks!Idle, Hooks!Serving,
       Hooks!Exists, Hooks!ToDo
  <2> QED
    BY <2>3, <2>5, <2>6, <2>7, <2>8 DEF HooksSound, TokensSound
<1>4. ASSUME NEW r \in Request, NEW w \in Webhook, Hooks!RegenerateToken(r, w)
      PROVE  HooksSound'
  <2> DEFINE p == Hooks!Serving(w, token[w], {"replace"}, drawn + 1)
  <2>1. p \in Hooks!Progress /\ drawn' = drawn + 1 /\ drawn + 1 \in 1..MaxToken
    BY <1>0, <1>4 DEF Hooks!RegenerateToken, Hooks!Progress, Hooks!Serving, Hooks!TypeOK
  <2>2. /\ Others(r) /\ webhookRequest[r] = Hooks!Idle /\ webhookRequest'[r] = p
        /\ webhookRequest' \in [Request -> Hooks!Progress]
    <3> HIDE DEF p
    <3>1. Hooks!Begin(r, p)
      BY <1>4 DEF Hooks!RegenerateToken, p
    <3> QED
      BY <1>0, <2>1, <3>1, HooksBegin
  <2>3. Hooks!TypeOK' /\ RowsAreInserted'
    BY <1>0, <1>4, <2>1, <2>2
       DEF Hooks!RegenerateToken, Hooks!rows, Hooks!TypeOK, RowsAreInserted, Hooks!Exists
  <2>4. UNCHANGED <<allocated, token, inactive, keys, lost>>
    BY <1>4 DEF Hooks!RegenerateToken, Hooks!rows
  <2>5. StatementsLeft' /\ TokensDiffer'
    BY <1>0, <2>1, <2>2, <2>3, <2>4 DEF TokensSound, StatementsLeft, TokensDiffer, Others,
       Hooks!Serving, Hooks!ToDo, Hooks!Exists, Hooks!TypeOK, Hooks!Progress
  <2>6. NewIsUnused'
    BY <1>0, <2>1, <2>2, <2>3, <2>4 DEF TokensSound, StatementsLeft, TokensDiffer, NewIsUnused,
       Others, Hooks!Serving, Hooks!Idle, Hooks!ToDo, Hooks!TypeOK, Hooks!Progress
  <2>7. OldIsGone'
    BY <1>0, <2>2, <2>4 DEF TokensSound, TokensDiffer, OldIsGone, Others, Hooks!Serving,
       Hooks!ToDo, Hooks!Exists
  <2>8. KeyIsPending'
    BY <1>0, <2>2, <2>4 DEF KeyIsPending, Others, Hooks!Idle, Hooks!Serving,
       Hooks!Exists, Hooks!ToDo
  <2> QED
    BY <2>3, <2>5, <2>6, <2>7, <2>8 DEF HooksSound, TokensSound
<1>5. ASSUME NEW r \in Request, Hooks!DeleteRow(r) PROVE HooksSound'
  <2> DEFINE w == webhookRequest[r].webhook
             p == IF Hooks!Exists(w) THEN [webhookRequest[r] EXCEPT !.todo = {"drop"}]
                  ELSE Hooks!Idle
  <2>1. /\ webhookRequest[r] \in Hooks!Progress
        /\ webhookRequest[r].todo = {"delete"} /\ w \in Webhook
    BY <1>0, <1>5 DEF Hooks!DeleteRow, TokensSound, StatementsLeft, Hooks!ToDo, Hooks!Idle,
       Hooks!Serving, Hooks!TypeOK
  <2>2. p \in Hooks!Progress
    BY <2>1 DEF Hooks!Progress, Hooks!Idle, Hooks!Serving
  <2>3. Hooks!Go(r, p)
    BY <1>5 DEF Hooks!DeleteRow
  <2>4. /\ Others(r) /\ webhookRequest' \in [Request -> Hooks!Progress]
        /\ webhookRequest'[r] = IF p.todo = {} THEN Hooks!Idle ELSE p
    <3> HIDE DEF p
    <3> QED
      BY <1>0, <2>2, <2>3, HooksMove
  <2>5. Shortened(r)
    BY <2>1, <2>4 DEF Shortened, Hooks!Progress
  <2>6. /\ \A v \in Webhook : token'[v] = IF v = w THEN 0 ELSE token[v]
        /\ UNCHANGED <<allocated, keys, drawn, lost>> /\ inactive' = inactive \ {w}
    BY <1>0, <1>5 DEF Hooks!DeleteRow, Hooks!TypeOK
  <2>7. Hooks!TypeOK' /\ RowsAreInserted'
    <3>1. token' \in [Webhook -> 0..MaxToken]
      BY <1>0, <1>5, <2>1 DEF Hooks!DeleteRow, Hooks!TypeOK
    <3>2. Hooks!TypeOK'
      BY <1>0, <2>4, <2>6, <3>1 DEF Hooks!TypeOK
    <3>3. RowsAreInserted'
      BY <1>0, <2>6 DEF RowsAreInserted, Hooks!Exists
    <3> QED
      BY <3>2, <3>3
  <2>8. TokensSound'
    <3>1. \A v \in Webhook : token'[v] \in {token[v], 0}
      BY <2>6
    <3>2. \A v \in Webhook : token'[v] # webhookRequest[r].old \/ token'[v] = 0
      BY <1>0, <2>6 DEF TokensSound, OldIsGone, Hooks!Exists
    <3> QED
      BY <1>0, <2>4, <2>5, <2>6, <3>1, <3>2, ShortenedSound
  <2>9. KeyIsPending'
    BY <1>0, <2>1, <2>4, <2>6 DEF KeyIsPending, Others, Hooks!Exists, Hooks!ToDo
  <2> QED
    BY <2>7, <2>8, <2>9 DEF HooksSound
<1>6. ASSUME NEW r \in Request, Hooks!ReplaceToken(r) PROVE HooksSound'
  <2> DEFINE w == webhookRequest[r].webhook
             p == IF Hooks!Exists(w) THEN [webhookRequest[r] EXCEPT !.todo = {"drop", "set"}]
                  ELSE Hooks!Idle
  <2>1. /\ webhookRequest[r] \in Hooks!Progress
        /\ webhookRequest[r].todo = {"replace"} /\ w \in Webhook
        /\ webhookRequest[r].new # 0
    BY <1>0, <1>6 DEF Hooks!ReplaceToken, TokensSound, StatementsLeft, Hooks!ToDo, Hooks!Idle,
       Hooks!Serving, Hooks!TypeOK
  <2>2. p \in Hooks!Progress
    BY <2>1 DEF Hooks!Progress, Hooks!Idle, Hooks!Serving
  <2>3. Hooks!Go(r, p)
    BY <1>6 DEF Hooks!ReplaceToken
  <2>4. /\ Others(r) /\ webhookRequest' \in [Request -> Hooks!Progress]
        /\ webhookRequest'[r] = IF p.todo = {} THEN Hooks!Idle ELSE p
    <3> HIDE DEF p
    <3> QED
      BY <1>0, <2>2, <2>3, HooksMove
  <2>5. UNCHANGED <<allocated, inactive, keys, drawn, lost>>
    BY <1>6 DEF Hooks!ReplaceToken
  <2>6. ASSUME ~Hooks!Exists(w) PROVE HooksSound'
    <3>1. webhookRequest'[r] = Hooks!Idle /\ token' = token
      BY <1>6, <2>4, <2>6 DEF Hooks!ReplaceToken, Hooks!Idle, Hooks!Serving
    <3>2. Hooks!TypeOK' /\ RowsAreInserted'
      BY <1>0, <2>4, <2>5, <3>1 DEF Hooks!TypeOK, RowsAreInserted, Hooks!Exists
    <3>3. TokensSound'
      BY <1>0, <2>4, <2>5, <3>1, ShortenedSound
         DEF Shortened, Hooks!ToDo, Hooks!Idle, Hooks!Serving
    <3>4. KeyIsPending'
      BY <1>0, <2>1, <2>4, <2>5, <3>1 DEF KeyIsPending, Others, Hooks!Exists, Hooks!ToDo
    <3> QED
      BY <3>2, <3>3, <3>4 DEF HooksSound
  <2>7. ASSUME Hooks!Exists(w) PROVE HooksSound'
    <3>0. Others(r)
      BY <2>4
    <3>1. /\ webhookRequest'[r].webhook = w /\ webhookRequest'[r].todo = {"drop", "set"}
          /\ webhookRequest'[r].old = webhookRequest[r].old
          /\ webhookRequest'[r].new = webhookRequest[r].new
      BY <2>1, <2>4, <2>7 DEF Hooks!Progress
    <3>2. \A v \in Webhook : token'[v] = IF v = w THEN webhookRequest[r].new ELSE token[v]
      BY <1>0, <1>6, <2>7 DEF Hooks!ReplaceToken, Hooks!TypeOK
    <3>3. Hooks!TypeOK' /\ RowsAreInserted'
      BY <1>0, <1>6, <2>1, <2>4, <2>5, <2>7, <3>2
         DEF Hooks!ReplaceToken, Hooks!TypeOK, RowsAreInserted, Hooks!Exists, Hooks!Progress
    <3>4. StatementsLeft'
      <4>1. webhookRequest[r].old <= drawn /\ webhookRequest[r].new <= drawn
        BY <1>0, <2>1 DEF TokensSound, StatementsLeft, Hooks!Idle, Hooks!Serving
      <4>2. webhookRequest'[r].old <= drawn' /\ webhookRequest'[r].new <= drawn'
        BY <2>5, <3>1, <4>1
      <4>3. \A q \in Request : q # r => webhookRequest'[q] = webhookRequest[q]
        BY <3>0 DEF Others
      <4> QED
        BY <1>0, <2>1, <2>5, <3>1, <4>2, <4>3 DEF TokensSound, StatementsLeft, Hooks!ToDo
    <3>5. TokensDiffer'
      BY <1>0, <2>1, <2>5, <3>2 DEF TokensSound, StatementsLeft, TokensDiffer, NewIsUnused,
         Hooks!Exists, Hooks!ToDo, Hooks!Idle, Hooks!Serving
    <3>6. NewIsUnused'
      <4> SUFFICES ASSUME NEW q \in Request, Hooks!ToDo(q, "replace")'
                   PROVE  /\ \A v \in Webhook : token'[v] # webhookRequest'[q].new
                          /\ \A x \in Request :
                              /\ webhookRequest'[x].old # webhookRequest'[q].new
                              /\ Hooks!ToDo(x, "replace")' /\ x # q
                                     => webhookRequest'[x].new # webhookRequest'[q].new
        BY DEF NewIsUnused
      <4>1. q # r /\ webhookRequest'[q] = webhookRequest[q] /\ Hooks!ToDo(q, "replace")
        BY <3>0, <3>1 DEF Others, Hooks!ToDo
      <4>2. \A x \in Request : webhookRequest'[x].old = webhookRequest[x].old
                              /\ webhookRequest'[x].new = webhookRequest[x].new
        BY <3>0, <3>1 DEF Others
      <4>3. \A x \in Request : Hooks!ToDo(x, "replace")' => Hooks!ToDo(x, "replace")
        BY <3>0, <3>1 DEF Others, Hooks!ToDo
      <4>4. webhookRequest[r].new # webhookRequest[q].new
        BY <1>0, <2>1, <4>1 DEF TokensSound, NewIsUnused, Hooks!ToDo
      <4> QED
        BY <1>0, <3>2, <4>1, <4>2, <4>3, <4>4 DEF TokensSound, NewIsUnused
    <3>7. OldIsGone'
      <4> SUFFICES ASSUME NEW q \in Request, NEW v \in Webhook,
                          Hooks!Exists(v)', token'[v] = webhookRequest'[q].old
                   PROVE  v = webhookRequest'[q].webhook /\ ~Hooks!ToDo(q, "drop")'
        BY DEF OldIsGone
      <4>1. webhookRequest'[q].old = webhookRequest[q].old
        BY <3>0, <3>1 DEF Others
      <4>2. v # w /\ token'[v] = token[v]
        BY <1>0, <2>1, <3>2, <4>1 DEF TokensSound, NewIsUnused, Hooks!ToDo
      <4>3. v = webhookRequest[q].webhook /\ ~Hooks!ToDo(q, "drop")
        BY <1>0, <4>1, <4>2 DEF TokensSound, OldIsGone, Hooks!Exists
      <4> QED
        BY <2>4, <4>2, <4>3 DEF Others, Hooks!ToDo
    <3>8. KeyIsPending'
      <4> SUFFICES ASSUME NEW v \in Webhook, Hooks!Exists(v)'
                   PROVE  \/ token'[v] \in keys \cup lost
                          \/ \E q \in Request : /\ Hooks!ToDo(q, "set")'
                                                /\ webhookRequest'[q].new = token'[v]
                                                /\ webhookRequest'[q].webhook = v
        BY <2>5 DEF KeyIsPending
      <4>1. CASE v = w
        BY <3>1, <3>2, <4>1 DEF Hooks!ToDo
      <4>2. CASE v # w
        BY <1>0, <2>1, <3>0, <3>2, <4>2 DEF KeyIsPending, Others, Hooks!Exists, Hooks!ToDo
      <4> QED
        BY <4>1, <4>2
    <3> QED
      BY <3>3, <3>4, <3>5, <3>6, <3>7, <3>8 DEF HooksSound, TokensSound
  <2> QED
    BY <2>6, <2>7
<1>7. ASSUME NEW r \in Request, Hooks!DropKey(r) PROVE HooksSound'
  <2>1. /\ Others(r) /\ Shortened(r) /\ webhookRequest' \in [Request -> Hooks!Progress]
        /\ Hooks!ToDo(r, "set") =>
               /\ Hooks!ToDo(r, "set")'
               /\ webhookRequest'[r].new = webhookRequest[r].new
               /\ webhookRequest'[r].webhook = webhookRequest[r].webhook
    BY <1>0, <1>7, HooksDone DEF Hooks!DropKey, TokensSound
  <2>2. UNCHANGED <<allocated, token, inactive, drawn, lost>>
    BY <1>7 DEF Hooks!DropKey, Hooks!rows
  <2>3. Hooks!TypeOK' /\ RowsAreInserted'
    BY <1>0, <1>7, <2>1, <2>2 DEF Hooks!DropKey, Hooks!TypeOK, RowsAreInserted, Hooks!Exists
  <2>4. TokensSound'
    BY <1>0, <1>7, <2>1, <2>2, ShortenedSound DEF Hooks!DropKey
  <2>5. \A v \in Webhook : Hooks!Exists(v) => token[v] # webhookRequest[r].old
    BY <1>0, <1>7 DEF Hooks!DropKey, TokensSound, OldIsGone
  <2>6. KeyIsPending'
    BY <1>0, <1>7, <2>1, <2>2, <2>5
       DEF Hooks!DropKey, KeyIsPending, Others, Hooks!Exists, Hooks!ToDo
  <2> QED
    BY <2>3, <2>4, <2>6 DEF HooksSound
<1>8. ASSUME NEW r \in Request, Hooks!SetKey(r) PROVE HooksSound'
  <2>1. /\ Others(r) /\ Shortened(r) /\ webhookRequest' \in [Request -> Hooks!Progress]
        /\ Hooks!ToDo(r, "drop")' => Hooks!ToDo(r, "drop")
    BY <1>0, <1>8, HooksDone DEF Hooks!SetKey, TokensSound
  <2>2. UNCHANGED <<allocated, token, inactive, drawn, lost>>
    BY <1>8 DEF Hooks!SetKey, Hooks!rows
  <2>3. webhookRequest[r].new \in 1..MaxToken
    BY <1>0, <1>8 DEF Hooks!SetKey, TokensSound, StatementsLeft, Hooks!ToDo, Hooks!Idle,
       Hooks!Serving, Hooks!TypeOK, Hooks!Progress
  <2>4. Hooks!TypeOK' /\ RowsAreInserted'
    BY <1>0, <1>8, <2>1, <2>2, <2>3
       DEF Hooks!SetKey, Hooks!TypeOK, RowsAreInserted, Hooks!Exists
  <2>5. TokensSound'
    BY <1>0, <2>1, <2>2, ShortenedSound
  <2>6. KeyIsPending'
    BY <1>0, <1>8, <2>1, <2>2 DEF Hooks!SetKey, KeyIsPending, Others, Hooks!Exists, Hooks!ToDo
  <2> QED
    BY <2>4, <2>5, <2>6 DEF HooksSound
<1>9. ASSUME NEW r \in Request, Hooks!CutShort(r) PROVE HooksSound'
  <2>1. Hooks!Idle \in Hooks!Progress /\ Hooks!Idle.todo = {}
    BY DEF Hooks!Idle, Hooks!Serving, Hooks!Progress
  <2>2. /\ Others(r) /\ webhookRequest'[r] = Hooks!Idle
        /\ webhookRequest' \in [Request -> Hooks!Progress]
    <3>1. Hooks!Go(r, Hooks!Idle)
      BY <1>9 DEF Hooks!CutShort
    <3> QED
      BY <1>0, <2>1, <3>1, HooksMove
  <2>3. /\ UNCHANGED <<allocated, token, inactive, keys, drawn>>
        /\ lost' = IF Hooks!ToDo(r, "set") THEN lost \cup {webhookRequest[r].new} ELSE lost
    BY <1>9 DEF Hooks!CutShort, Hooks!rows
  <2>4. Hooks!ToDo(r, "set") => webhookRequest[r].new \in 1..MaxToken
    BY <1>0 DEF TokensSound, StatementsLeft, Hooks!ToDo, Hooks!Idle,
       Hooks!Serving, Hooks!TypeOK, Hooks!Progress
  <2>5. Hooks!TypeOK' /\ RowsAreInserted'
    BY <1>0, <2>2, <2>3, <2>4 DEF Hooks!TypeOK, RowsAreInserted, Hooks!Exists
  <2>6. TokensSound'
    BY <1>0, <2>1, <2>2, <2>3, ShortenedSound DEF Shortened, Hooks!ToDo
  <2>7. KeyIsPending'
    BY <1>0, <2>2, <2>3 DEF KeyIsPending, Others, Hooks!Exists, Hooks!ToDo
  <2> QED
    BY <2>5, <2>6, <2>7 DEF HooksSound
<1>10. ASSUME UNCHANGED hooks PROVE HooksSound'
  BY <1>0, <1>10
     DEF hooks, HooksSound, Hooks!TypeOK, RowsAreInserted, TokensSound, StatementsLeft,
     TokensDiffer, NewIsUnused, OldIsGone, KeyIsPending, Hooks!Exists, Hooks!ToDo
<1> QED
  BY <1>1, <1>2, <1>3, <1>4, <1>5, <1>6, <1>7, <1>8, <1>9, <1>10 DEF Hooks!Next

LEMMA HooksResolve == HooksSound => LiveTokensResolve
  BY DEF HooksSound, KeyIsPending, LiveTokensResolve, Hooks!LiveTokensResolve, Hooks!Answered

-----------------------------------------------------------------------------
(***************************************************************************)
(* Branches.                                                               *)
(***************************************************************************)

\* A deactivation that has counted, and that no other has overtaken since,
\* leaves a branch besides its own.
Spared ==
    \A r \in Request : Offices!At(r, "deactivate") /\ r \notin raced
        => \E b, c \in active : b # c

OfficesSound ==
    /\ Offices!TypeOK
    /\ IsFiniteSet(active)
    /\ Spared
    /\ Offices!BranchRemains

\* Of more than one branch, two differ.
LEMMA TwoRemain ==
  ASSUME NEW S, IsFiniteSet(S), ~(Cardinality(S) <= 1)
  PROVE  \E b, c \in S : b # c
<1>1. S # {}
  BY FS_EmptySet
<1>2. PICK b \in S : TRUE
  BY <1>1
<1>3. S # {b}
  BY FS_Singleton
<1> QED
  BY <1>2, <1>3

\* A module that is instantiated counts as this one does.
LEMMA OfficesCount ==
  ASSUME NEW S
  PROVE  Offices!Cardinality(S) = Cardinality(S)
  BY DEF Offices!Cardinality, Cardinality

\* A request that moves; the others are where they were.
LEMMA OfficesMove ==
  ASSUME Offices!TypeOK, NEW r \in Request, NEW p, Offices!Go(r, p)
  PROVE  \A q \in Request : branchRequest'[q] = IF q = r THEN p ELSE branchRequest[q]
  BY DEF Offices!TypeOK, Offices!Go

LEMMA OfficesInit == Offices!Init => OfficesSound
<1> SUFFICES ASSUME Offices!Init PROVE OfficesSound
  OBVIOUS
<1>1. Offices!TypeOK
  BY DEF Offices!Init, Offices!TypeOK
<1>2. IsFiniteSet(active)
  BY FS_EmptySet DEF Offices!Init
<1>3. Spared
  BY DEF Offices!Init, Spared, Offices!At, Offices!Idle
<1>4. Offices!BranchRemains
  BY DEF Offices!Init, Offices!BranchRemains
<1> QED
  BY <1>1, <1>2, <1>3, <1>4 DEF OfficesSound

LEMMA OfficesStep == OfficesSound /\ [Offices!Next]_offices => OfficesSound'
<1> SUFFICES ASSUME OfficesSound, [Offices!Next]_offices PROVE OfficesSound'
  OBVIOUS
<1> USE DEF OfficesSound
<1>1. ASSUME NEW b \in Branch, NEW isHeadOffice \in BOOLEAN,
             Offices!CreateBranch(b, isHeadOffice)
      PROVE  OfficesSound'
  <2>1. active \subseteq active' /\ IsFiniteSet(active')
    BY <1>1, FS_AddElement DEF Offices!CreateBranch
  <2>2. Offices!TypeOK'
    BY <1>1 DEF Offices!CreateBranch, Offices!TypeOK
  <2>3. Spared'
    BY <1>1, <2>1 DEF Offices!CreateBranch, Spared, Offices!At
  <2>4. Offices!BranchRemains'
    BY <1>1 DEF Offices!CreateBranch, Offices!BranchRemains
  <2> QED
    BY <2>1, <2>2, <2>3, <2>4
<1>2. ASSUME NEW b \in Branch, NEW isHeadOffice \in BOOLEAN,
             Offices!UpdateBranch(b, isHeadOffice)
      PROVE  OfficesSound'
  <2>1. Offices!TypeOK'
    BY <1>2 DEF Offices!UpdateBranch, Offices!TypeOK
  <2>2. Spared' /\ Offices!BranchRemains'
    BY <1>2 DEF Offices!UpdateBranch, Spared, Offices!At, Offices!BranchRemains
  <2> QED
    BY <1>2, <2>1, <2>2 DEF Offices!UpdateBranch
<1>3. ASSUME NEW r \in Request, NEW b \in Branch, Offices!DeactivateBranch(r, b)
      PROVE  OfficesSound'
  <2> DEFINE p == <<IF b \in headOffice THEN "count" ELSE "unguarded", b>>
  <2>0. Offices!Go(r, p)
    BY <1>3 DEF Offices!DeactivateBranch
  <2>1. \A q \in Request : branchRequest'[q] = IF q = r THEN p ELSE branchRequest[q]
    <3> HIDE DEF p
    <3> QED
      BY <2>0, OfficesMove
  <2>2. Offices!TypeOK'
    BY <1>3 DEF Offices!DeactivateBranch, Offices!TypeOK, Offices!Go
  <2>3. Spared'
    BY <1>3, <2>1 DEF Offices!DeactivateBranch, Spared, Offices!At
  <2> QED
    BY <1>3, <2>2, <2>3 DEF Offices!DeactivateBranch, Offices!BranchRemains
<1>4. ASSUME NEW r \in Request, Offices!CountActive(r) PROVE OfficesSound'
  <2> DEFINE p == IF Cardinality(active) <= 1 THEN Offices!Idle
                  ELSE <<"deactivate", branchRequest[r][2]>>
  <2>0. Offices!Go(r, p)
    BY <1>4, OfficesCount DEF Offices!CountActive
  <2>1. \A q \in Request : branchRequest'[q] = IF q = r THEN p ELSE branchRequest[q]
    <3> HIDE DEF p
    <3> QED
      BY <2>0, OfficesMove
  <2>2. branchRequest[r] \in {"count", "deactivate", "unguarded"} \X Branch
    BY <1>4 DEF Offices!CountActive, Offices!At, Offices!TypeOK, Offices!Idle
  <2>3. Offices!TypeOK'
    BY <1>4, <2>2 DEF Offices!CountActive, Offices!TypeOK, Offices!Go
  <2>4. Spared'
    <3> SUFFICES ASSUME NEW q \in Request, Offices!At(q, "deactivate")', q \notin raced'
                 PROVE  \E b, c \in active : b # c
      BY <1>4 DEF Spared, Offices!CountActive
    <3>1. CASE q = r
      <4>1. ~(Cardinality(active) <= 1)
        BY <2>1, <3>1 DEF Offices!At, Offices!Idle
      <4> QED
        BY <4>1, TwoRemain
    <3>2. CASE q # r
      BY <1>4, <2>1, <3>2 DEF Offices!CountActive, Spared, Offices!At
    <3> QED
      BY <3>1, <3>2
  <2> QED
    BY <1>4, <2>3, <2>4 DEF Offices!CountActive, Offices!BranchRemains
<1>5. ASSUME NEW r \in Request, Offices!Deactivate(r) PROVE OfficesSound'
  <2>1. \A q \in Request : branchRequest'[q] = IF q = r THEN Offices!Idle ELSE branchRequest[q]
    BY <1>5, OfficesMove DEF Offices!Deactivate
  <2>2. Offices!TypeOK'
    BY <1>5 DEF Offices!Deactivate, Offices!TypeOK, Offices!Go
  <2>3. IsFiniteSet(active')
    BY <1>5, FS_Subset DEF Offices!Deactivate
  <2>4. Spared'
    BY <1>5, <2>1 DEF Offices!Deactivate, Spared, Offices!At, Offices!Idle
  <2>5. Offices!BranchRemains'
    <3>1. CASE Offices!At(r, "deactivate") /\ r \notin raced
      BY <1>5, <3>1 DEF Offices!Deactivate, Spared, Offices!BranchRemains
    <3>2. CASE ~(Offices!At(r, "deactivate") /\ r \notin raced)
      BY <1>5, <3>2 DEF Offices!Deactivate, Offices!BranchRemains
    <3> QED
      BY <3>1, <3>2
  <2> QED
    BY <2>2, <2>3, <2>4, <2>5
<1>6. ASSUME UNCHANGED offices PROVE OfficesSound'
  BY <1>6 DEF offices, Offices!TypeOK, Spared, Offices!At, Offices!BranchRemains
<1> HIDE DEF OfficesSound
<1> QED
  BY <1>1, <1>2, <1>3, <1>4, <1>5, <1>6 DEF Offices!Next

-----------------------------------------------------------------------------
(***************************************************************************)
(* Lead assignment.                                                        *)
(***************************************************************************)

LEMMA RoutingCount ==
  ASSUME NEW S
  PROVE  Routing!Cardinality(S) = Cardinality(S)
  BY DEF Routing!Cardinality, Cardinality

\* How many members of a finite set of numbers are below one of them tells it
\* from the others, and is below the size of the set.
LEMMA RanksDiffer ==
  ASSUME NEW S, S \subseteq Nat, IsFiniteSet(S), NEW a \in S, NEW c \in S, a < c
  PROVE  /\ Cardinality({b \in S : b < a}) \in Nat
         /\ Cardinality({b \in S : b < c}) \in Nat
         /\ Cardinality({b \in S : b < a}) < Cardinality({b \in S : b < c})
<1> DEFINE A == {b \in S : b < a}
           C == {b \in S : b < c}
<1>0. a \in Nat /\ c \in Nat /\ \A b \in S : b \in Nat
  OBVIOUS
<1>1. A \subseteq C /\ C \subseteq S /\ a \in C /\ a \notin A
  <2>1. \A b \in S : b < a => b < c
    BY <1>0
  <2>2. ~(a < a)
    BY <1>0
  <2> QED
    BY <2>1, <2>2
<1> HIDE DEF A, C
<1>2. IsFiniteSet(C)
  BY <1>1, FS_Subset
<1>3. IsFiniteSet(A) /\ Cardinality(A) <= Cardinality(C)
      /\ (Cardinality(C) = Cardinality(A) => C = A)
  BY <1>1, <1>2, FS_Subset
<1>4. A # C
  BY <1>1
<1>5. Cardinality(A) \in Nat /\ Cardinality(C) \in Nat
  BY <1>2, <1>3, FS_CardinalityType
<1>6. Cardinality(A) < Cardinality(C)
  BY <1>3, <1>4, <1>5
<1> QED
  BY <1>5, <1>6 DEF A, C

\* The place a number falls on is always taken by a member of the set.
LEMMA PlaceIsMember ==
  ASSUME NEW S, S \subseteq Nat, IsFiniteSet(S), S # {}, NEW n \in Nat
  PROVE  Routing!Place(S, n) \in S
<1> DEFINE Below(a) == {b \in S : b < a}
           N == Cardinality(S)
           T == 0..(N - 1)
           rank == [a \in S |-> Cardinality(Below(a))]
<1>1. N \in Nat \ {0}
  BY FS_EmptySet, FS_CardinalityType
<1>2. ASSUME NEW a \in S PROVE Cardinality(Below(a)) \in T
  <2>1. Below(a) \subseteq S /\ a \notin Below(a)
    OBVIOUS
  <2> HIDE DEF Below
  <2>2. Cardinality(Below(a)) <= N /\ Cardinality(Below(a)) # N /\ IsFiniteSet(Below(a))
    BY <2>1, FS_Subset
  <2>3. Cardinality(Below(a)) \in Nat
    BY <2>2, FS_CardinalityType
  <2> QED
    BY <1>1, <2>2, <2>3
<1>3. rank \in [S -> T]
  BY <1>2
<1>4. ASSUME NEW a \in S, NEW c \in S, rank[a] = rank[c] PROVE a = c
  <2>1. a \in Nat /\ c \in Nat
    OBVIOUS
  <2>2. Cardinality(Below(a)) = Cardinality(Below(c))
    BY <1>4
  <2>3. ~(a < c)
    <3>1. a < c => Cardinality(Below(a)) < Cardinality(Below(c))
                   /\ Cardinality(Below(a)) \in Nat
      BY RanksDiffer
    <3> HIDE DEF Below
    <3> QED
      BY <2>2, <3>1
  <2>4. ~(c < a)
    <3>1. c < a => Cardinality(Below(c)) < Cardinality(Below(a))
                   /\ Cardinality(Below(c)) \in Nat
      BY RanksDiffer
    <3> HIDE DEF Below
    <3> QED
      BY <2>2, <3>1
  <2> QED
    BY <2>1, <2>3, <2>4
<1>5. rank \in Injection(S, T)
  BY <1>3, <1>4 DEF Injection, IsInjective
<1>6. IsFiniteSet(T) /\ Cardinality(T) = N
  BY <1>1, FS_Interval
<1>7. rank \in Surjection(S, T)
  <2> HIDE DEF T, N, rank
  <2> QED
    BY <1>5, <1>6, FS_Injection DEF N
<1>8. n % N \in T
  BY <1>1
<1>9. PICK a \in S : rank[a] = n % N
  BY <1>7, <1>8 DEF Surjection
<1>10. Cardinality(Below(a)) = n % N
  BY <1>9
<1> QED
  BY <1>10, RoutingCount DEF Routing!Place

\* A job of a lead stays in its queue with attempts and stalls to spare, until it
\* has failed for good.
LeadJobOpen(j) ==
    Routing!Is(j, "none") \/ Routing!Is(j, "waiting") \/ Routing!Is(j, "active") =>
        leadQueue[j].failures < AssignAttempts /\ leadQueue[j].stalls <= MaxStalls

LEMMA RoutingMoved ==
  ASSUME Routing!QueueTypeOK, NEW j \in Lead, LeadJobOpen(j),
         Routing!Add(j) \/ Routing!Take(j) \/ Routing!Complete(j)
  PROVE  /\ Routing!QueueTypeOK' /\ LeadJobOpen(j)'
         /\ \A i \in Lead : i # j => leadQueue'[i] = leadQueue[i]
         /\ Routing!Retries(j)' = Routing!Retries(j)
         /\ Routing!Add(j) => Routing!Is(j, "waiting")'
         /\ Routing!Take(j) => Routing!Is(j, "active")'
         /\ Routing!Complete(j) => Routing!Is(j, "completed")'
<1> PICK s \in {"waiting", "active", "completed"} :
        /\ leadQueue' = [leadQueue EXCEPT ![j].state = s]
        /\ Routing!Add(j) => s = "waiting"
        /\ Routing!Take(j) => s = "active"
        /\ Routing!Complete(j) => s = "completed"
  BY DEF Routing!Add, Routing!Take, Routing!Complete, Routing!Is, Routing!Move
<1>1. /\ leadQueue \in [Lead -> Routing!Entry] /\ leadQueue[j] \in Routing!Entry
      /\ leadQueue[j].failures < AssignAttempts /\ leadQueue[j].stalls <= MaxStalls
  BY
     DEF Routing!QueueTypeOK, LeadJobOpen, Routing!Add, Routing!Take, Routing!Complete, Routing!Is
<1>2. /\ leadQueue' \in [Lead -> Routing!Entry]
      /\ \A i \in Lead : i # j => leadQueue'[i] = leadQueue[i]
      /\ leadQueue'[j].state = s
      /\ leadQueue'[j].failures = leadQueue[j].failures
      /\ leadQueue'[j].stalls = leadQueue[j].stalls
  BY <1>1 DEF Routing!Entry
<1> QED
  BY <1>1, <1>2 DEF Routing!QueueTypeOK, LeadJobOpen, Routing!Retries, Routing!Is

LEMMA RoutingRepeated ==
  ASSUME Routing!QueueTypeOK, NEW j \in Lead, LeadJobOpen(j),
         Routing!FailAttempt(j) \/ Routing!Stall(j)
  PROVE  /\ Routing!QueueTypeOK' /\ LeadJobOpen(j)'
         /\ \A i \in Lead : i # j => leadQueue'[i] = leadQueue[i]
         /\ Routing!Retries(j)' = Routing!Retries(j) + 1
         /\ Routing!Is(j, "active")
         /\ Routing!Is(j, "waiting")' \/ Routing!Is(j, "failed")'
<1>1. /\ leadQueue \in [Lead -> Routing!Entry] /\ leadQueue[j] \in Routing!Entry
      /\ leadQueue[j].failures < AssignAttempts /\ leadQueue[j].stalls <= MaxStalls
  BY DEF Routing!QueueTypeOK, LeadJobOpen, Routing!FailAttempt, Routing!Stall, Routing!Is
<1>2. CASE Routing!FailAttempt(j)
  <2> DEFINE s == IF leadQueue[j].failures + 1 < AssignAttempts THEN "waiting" ELSE "failed"
             d == [leadQueue[j] EXCEPT !.failures = @ + 1]
             e == [d EXCEPT !.state = s]
  <2>0. leadQueue' = [leadQueue EXCEPT ![j] = e]
    BY <1>1, <1>2 DEF Routing!FailAttempt
  <2>1. /\ leadQueue' \in [Lead -> Routing!Entry]
        /\ \A i \in Lead : i # j => leadQueue'[i] = leadQueue[i]
        /\ leadQueue'[j].state = s
        /\ leadQueue'[j].failures = leadQueue[j].failures + 1
        /\ leadQueue'[j].stalls = leadQueue[j].stalls
    <3>1. s \in {"waiting", "failed"}
      OBVIOUS
    <3> HIDE DEF s
    <3>2. /\ d \in Routing!Entry
          /\ d.failures = leadQueue[j].failures + 1 /\ d.stalls = leadQueue[j].stalls
      BY <1>1, CrmAssumption DEF Routing!Entry
    <3> HIDE DEF d
    <3>3. /\ e \in Routing!Entry /\ e.state = s
          /\ e.failures = d.failures /\ e.stalls = d.stalls
      BY <3>1, <3>2 DEF Routing!Entry
    <3> HIDE DEF e
    <3> QED
      BY <1>1, <2>0, <3>2, <3>3
  <2>2. leadQueue[j].failures \in Nat /\ leadQueue[j].stalls \in Nat
    BY <1>1 DEF Routing!Entry
  <2> QED
    BY <1>1, <1>2, <2>1, <2>2, CrmAssumption
       DEF Routing!FailAttempt, Routing!QueueTypeOK, LeadJobOpen, Routing!Retries, Routing!Is
<1>3. CASE Routing!Stall(j)
  <2> DEFINE s == IF leadQueue[j].stalls < MaxStalls THEN "waiting" ELSE "failed"
             d == [leadQueue[j] EXCEPT !.stalls = @ + 1]
             e == [d EXCEPT !.state = s]
  <2>0. leadQueue' = [leadQueue EXCEPT ![j] = e]
    BY <1>1, <1>3 DEF Routing!Stall
  <2>1. /\ leadQueue' \in [Lead -> Routing!Entry]
        /\ \A i \in Lead : i # j => leadQueue'[i] = leadQueue[i]
        /\ leadQueue'[j].state = s
        /\ leadQueue'[j].stalls = leadQueue[j].stalls + 1
        /\ leadQueue'[j].failures = leadQueue[j].failures
    <3>1. s \in {"waiting", "failed"}
      OBVIOUS
    <3> HIDE DEF s
    <3>2. /\ d \in Routing!Entry
          /\ d.stalls = leadQueue[j].stalls + 1 /\ d.failures = leadQueue[j].failures
      BY <1>1, CrmAssumption DEF Routing!Entry
    <3> HIDE DEF d
    <3>3. /\ e \in Routing!Entry /\ e.state = s
          /\ e.stalls = d.stalls /\ e.failures = d.failures
      BY <3>1, <3>2 DEF Routing!Entry
    <3> HIDE DEF e
    <3> QED
      BY <1>1, <2>0, <3>2, <3>3
  <2>2. leadQueue[j].failures \in Nat /\ leadQueue[j].stalls \in Nat
    BY <1>1 DEF Routing!Entry
  <2> QED
    BY <1>1, <1>3, <2>1, <2>2, CrmAssumption
       DEF Routing!Stall, Routing!QueueTypeOK, LeadJobOpen, Routing!Retries, Routing!Is
<1> QED
  BY <1>2, <1>3

\* A run has chosen nobody before it draws, draws from agents it has read, and has
\* one of them from then on.
ChosenByDraw(j) ==
    /\ Routing!At(j, "config") \/ Routing!At(j, "agents") \/ Routing!At(j, "draw")
           => chosen[j] = Routing!NoAgent
    /\ Routing!At(j, "draw") => agents[j] # {}
    /\ Routing!At(j, "assign") \/ Routing!At(j, "announce") => chosen[j] \in Agent

\* The agent drawn is the owner until a request names another, and is then told.
OwnerIsTold(j) ==
    chosen[j] # Routing!NoAgent /\ j \notin moved =>
        /\ Routing!At(j, "announce") => owner[j] = chosen[j]
        /\ Routing!At(j, "end") \/ Routing!Is(j, "completed") => owner[j] \in announced[j]

\* A run tells an agent at its end, so one that is not there has told nobody.
ToldPerRun(j) ==
    /\ IsFiniteSet(announced[j])
    /\ Cardinality(announced[j]) <= Routing!Retries(j) + 1
    /\ Routing!Is(j, "none") => announced[j] = {}
    /\ Routing!Is(j, "waiting") \/ (Routing!Is(j, "active") /\ step[j] # "end")
           => Cardinality(announced[j]) <= Routing!Retries(j)

LeadSound(j) ==
    LeadJobOpen(j) /\ IsFiniteSet(agents[j])
    /\ ChosenByDraw(j) /\ OwnerIsTold(j) /\ ToldPerRun(j)

RoutingSound ==
    Routing!TypeOK /\ IsFiniteSet(eligible) /\ \A j \in Lead : LeadSound(j)

\* What a step leaves of a lead it is not about.
LeadKept(j) ==
    /\ leadQueue'[j] = leadQueue[j] /\ step'[j] = step[j]
    /\ agents'[j] = agents[j] /\ chosen'[j] = chosen[j]
    /\ owner'[j] = owner[j] /\ announced'[j] = announced[j]
    /\ j \in moved' <=> j \in moved

LEMMA LeadKeptSound ==
  ASSUME NEW j, LeadSound(j), LeadKept(j)
  PROVE  LeadSound(j)'
  BY DEF LeadSound, LeadKept, LeadJobOpen, ChosenByDraw, OwnerIsTold, ToldPerRun,
     Routing!At, Routing!Is, Routing!Retries

LEMMA RoutingInit == Routing!Init => RoutingSound
<1> SUFFICES ASSUME Routing!Init PROVE RoutingSound
  OBVIOUS
<1> USE CrmAssumption DEF Routing!Init, Routing!QueueInit, Routing!NoAgent
<1>1. Routing!TypeOK
  <2>1. [state |-> "none", failures |-> 0, stalls |-> 0] \in Routing!Entry
    BY DEF Routing!Entry
  <2>2. Routing!QueueTypeOK
    BY <2>1 DEF Routing!QueueTypeOK
  <2> QED
    BY <2>2 DEF Routing!TypeOK
<1>2. IsFiniteSet(eligible)
  BY FS_EmptySet
<1>3. ASSUME NEW j \in Lead PROVE LeadSound(j)
  <2>1. IsFiniteSet({}) /\ Cardinality({}) = 0
    BY FS_EmptySet
  <2>2. leadQueue[j].state = "none" /\ Routing!Retries(j) = 0
    BY DEF Routing!Retries
  <2>3. LeadJobOpen(j)
    BY DEF LeadJobOpen
  <2>4. ChosenByDraw(j) /\ OwnerIsTold(j) /\ ToldPerRun(j)
    BY <2>1, <2>2 DEF ChosenByDraw, OwnerIsTold, ToldPerRun, Routing!At, Routing!Is
  <2> QED
    BY <2>1, <2>3, <2>4 DEF LeadSound
<1> QED
  BY <1>1, <1>2, <1>3 DEF RoutingSound

LEMMA RetriesType ==
  ASSUME Routing!QueueTypeOK, NEW j \in Lead
  PROVE  Routing!Retries(j) \in Nat
<1>1. leadQueue[j] \in Routing!Entry
  BY DEF Routing!QueueTypeOK
<1> QED
  BY <1>1, CrmAssumption DEF Routing!Entry, Routing!Retries

\* A step about one lead that keeps it and the types.
LEMMA OneLead ==
  ASSUME RoutingSound, NEW j \in Lead, Routing!TypeOK', IsFiniteSet(eligible'),
         LeadSound(j)', \A i \in Lead : i # j => LeadKept(i)
  PROVE  RoutingSound'
  BY LeadKeptSound DEF RoutingSound

LEMMA RoutingStep == RoutingSound /\ [Routing!Next]_routing => RoutingSound'
<1> SUFFICES ASSUME RoutingSound, [Routing!Next]_routing PROVE RoutingSound'
  OBVIOUS
<1>0. /\ Routing!TypeOK /\ Routing!QueueTypeOK /\ IsFiniteSet(eligible)
      /\ \A j \in Lead : LeadSound(j)
  BY DEF RoutingSound, Routing!TypeOK
<1>a. \A j \in Lead : Routing!Retries(j) \in Nat
  BY <1>0, RetriesType
<1>1. ASSUME Routing!UpsertConfig PROVE RoutingSound'
  <2>1. Routing!TypeOK' /\ eligible' = eligible
    BY <1>0, <1>1 DEF Routing!UpsertConfig, Routing!worker, Routing!TypeOK, Routing!QueueTypeOK
  <2>2. \A j \in Lead : LeadKept(j)
    BY <1>1 DEF Routing!UpsertConfig, Routing!worker, LeadKept
  <2> QED
    BY <1>0, <2>1, <2>2, LeadKeptSound DEF RoutingSound
<1>2. ASSUME NEW a \in Agent, Routing!ChangeEligible(a) PROVE RoutingSound'
  <2>1. Routing!TypeOK'
    BY <1>0, <1>2
       DEF Routing!ChangeEligible, Routing!worker, Routing!TypeOK, Routing!QueueTypeOK
  <2>2. IsFiniteSet(eligible')
    BY <1>0, <1>2, FS_AddElement, FS_RemoveElement DEF Routing!ChangeEligible
  <2>3. \A j \in Lead : LeadKept(j)
    BY <1>2 DEF Routing!ChangeEligible, Routing!worker, LeadKept
  <2> QED
    BY <1>0, <2>1, <2>2, <2>3, LeadKeptSound DEF RoutingSound
<1>3. ASSUME NEW j \in Lead, Routing!LeadCreated(j) PROVE RoutingSound'
  <2>1. /\ Routing!QueueTypeOK' /\ LeadJobOpen(j)' /\ Routing!Retries(j)' = Routing!Retries(j)
        /\ \A i \in Lead : i # j => leadQueue'[i] = leadQueue[i]
        /\ Routing!Is(j, "none") /\ Routing!Is(j, "waiting")'
    BY <1>0, <1>3, RoutingMoved DEF Routing!LeadCreated, Routing!Add, LeadSound
  <2>2. UNCHANGED <<step, agents, chosen, enabled, eligible, counter, owner, announced, moved>>
    BY <1>3 DEF Routing!LeadCreated
  <2>3. Routing!TypeOK'
    BY <1>0, <2>1, <2>2 DEF Routing!TypeOK
  <2>4. LeadSound(j)'
    <3>1. announced[j] = {} /\ Cardinality({}) = 0 /\ IsFiniteSet({})
      BY <1>0, <2>1, FS_EmptySet DEF LeadSound, ToldPerRun
    <3>2. ToldPerRun(j)'
      BY <1>a, <2>1, <2>2, <3>1 DEF ToldPerRun, Routing!Is
    <3>3. ChosenByDraw(j)' /\ OwnerIsTold(j)'
      BY <2>1 DEF ChosenByDraw, OwnerIsTold, Routing!At, Routing!Is
    <3> QED
      BY <1>0, <2>1, <2>2, <3>2, <3>3 DEF LeadSound
  <2>5. \A i \in Lead : i # j => LeadKept(i)
    BY <2>1, <2>2 DEF LeadKept
  <2> QED
    BY <1>0, <2>2, <2>3, <2>4, <2>5, OneLead
<1>4. ASSUME NEW j \in Lead, Routing!TakeLead(j) PROVE RoutingSound'
  <2>1. /\ Routing!QueueTypeOK' /\ LeadJobOpen(j)' /\ Routing!Retries(j)' = Routing!Retries(j)
        /\ \A i \in Lead : i # j => leadQueue'[i] = leadQueue[i]
        /\ Routing!Is(j, "waiting") /\ Routing!Is(j, "active")'
    BY <1>0, <1>4, RoutingMoved DEF Routing!TakeLead, Routing!Take, LeadSound
  <2>2. /\ UNCHANGED <<agents, enabled, eligible, counter, owner, announced, moved>>
        /\ step' = [step EXCEPT ![j] = "config"]
        /\ chosen' = [chosen EXCEPT ![j] = Routing!NoAgent]
    BY <1>4 DEF Routing!TakeLead, Routing!Goto
  <2>3. Routing!TypeOK' /\ step'[j] = "config" /\ chosen'[j] = Routing!NoAgent
    BY <1>0, <2>1, <2>2 DEF Routing!TypeOK
  <2>4. LeadSound(j)'
    <3>1. ToldPerRun(j)'
      BY <1>0, <1>a, <2>1, <2>2 DEF LeadSound, ToldPerRun, Routing!Is
    <3>2. ChosenByDraw(j)' /\ OwnerIsTold(j)'
      BY <2>1, <2>3 DEF ChosenByDraw, OwnerIsTold, Routing!At
    <3> QED
      BY <1>0, <2>1, <2>2, <3>1, <3>2 DEF LeadSound
  <2>5. \A i \in Lead : i # j => LeadKept(i)
    BY <1>0, <2>1, <2>2 DEF LeadKept, Routing!TypeOK
  <2> QED
    BY <1>0, <2>2, <2>3, <2>4, <2>5, OneLead
<1>5. ASSUME NEW j \in Lead, Routing!FindConfig(j) PROVE RoutingSound'
  <2>1. /\ UNCHANGED <<leadQueue, agents, chosen, enabled, eligible, counter, owner,
                       announced, moved>>
        /\ Routing!At(j, "config")
        /\ step' = [step EXCEPT ![j] = IF enabled THEN "agents" ELSE "end"]
    BY <1>5 DEF Routing!FindConfig, Routing!Goto
  <2>2. Routing!TypeOK' /\ step'[j] \in {"agents", "end"}
    BY <1>0, <2>1 DEF Routing!TypeOK, Routing!QueueTypeOK
  <2>3. LeadSound(j)'
    <3>1. LeadJobOpen(j)' /\ IsFiniteSet(agents'[j]) /\ ToldPerRun(j)'
      BY <1>0, <1>a, <2>1 DEF LeadSound, LeadJobOpen, ToldPerRun, Routing!At, Routing!Is,
         Routing!Retries
    <3>2. chosen'[j] = Routing!NoAgent
      BY <1>0, <2>1 DEF LeadSound, ChosenByDraw
    <3>3. ChosenByDraw(j)' /\ OwnerIsTold(j)'
      BY <2>2, <3>2 DEF ChosenByDraw, OwnerIsTold, Routing!At
    <3> QED
      BY <3>1, <3>3 DEF LeadSound
  <2>4. \A i \in Lead : i # j => LeadKept(i)
    BY <1>0, <2>1 DEF LeadKept, Routing!TypeOK
  <2> QED
    BY <1>0, <2>1, <2>2, <2>3, <2>4, OneLead
<1>6. ASSUME NEW j \in Lead, Routing!FindEligibleAgents(j) PROVE RoutingSound'
  <2>1. /\ UNCHANGED <<leadQueue, chosen, enabled, eligible, counter, owner, announced, moved>>
        /\ Routing!At(j, "agents")
        /\ agents' = [agents EXCEPT ![j] = eligible]
        /\ step' = [step EXCEPT ![j] = IF eligible = {} THEN "end" ELSE "draw"]
    BY <1>6 DEF Routing!FindEligibleAgents, Routing!Goto
  <2>2. Routing!TypeOK'
    BY <1>0, <2>1 DEF Routing!TypeOK, Routing!QueueTypeOK
  <2>3. agents'[j] = eligible /\ step'[j] = IF eligible = {} THEN "end" ELSE "draw"
    BY <1>0, <2>1 DEF Routing!TypeOK
  <2>4. LeadSound(j)'
    <3>1. LeadJobOpen(j)' /\ ToldPerRun(j)'
      BY <1>0, <1>a, <2>1 DEF LeadSound, LeadJobOpen, ToldPerRun, Routing!At, Routing!Is,
         Routing!Retries
    <3>2. chosen'[j] = Routing!NoAgent
      BY <1>0, <2>1 DEF LeadSound, ChosenByDraw
    <3>3. ChosenByDraw(j)' /\ OwnerIsTold(j)'
      BY <2>3, <3>2 DEF ChosenByDraw, OwnerIsTold, Routing!At
    <3> QED
      BY <1>0, <2>3, <3>1, <3>3 DEF LeadSound
  <2>5. \A i \in Lead : i # j => LeadKept(i)
    BY <1>0, <2>1 DEF LeadKept, Routing!TypeOK
  <2> QED
    BY <1>0, <2>1, <2>2, <2>4, <2>5, OneLead
<1>7. ASSUME NEW j \in Lead, Routing!Draw(j) PROVE RoutingSound'
  <2> DEFINE a == Routing!Place(agents[j], counter)
  <2>1. /\ UNCHANGED <<leadQueue, agents, enabled, eligible, owner, announced, moved>>
        /\ Routing!At(j, "draw") /\ counter' = counter + 1
        /\ chosen' = [chosen EXCEPT ![j] = a]
        /\ step' = [step EXCEPT ![j] = "assign"]
    BY <1>7 DEF Routing!Draw, Routing!Goto
  <2>2. a \in agents[j] /\ agents[j] \subseteq Agent
    <3>1. /\ agents[j] # {} /\ agents[j] \subseteq Agent /\ IsFiniteSet(agents[j])
          /\ counter \in Nat
      BY <1>0, <2>1 DEF LeadSound, ChosenByDraw, Routing!TypeOK
    <3>2. agents[j] \subseteq Nat
      BY <3>1, CrmAssumption
    <3> QED
      BY <3>1, <3>2, PlaceIsMember
  <2> HIDE DEF a
  <2>3. Routing!TypeOK' /\ step'[j] = "assign" /\ chosen'[j] \in Agent
    BY <1>0, <2>1, <2>2 DEF Routing!TypeOK, Routing!QueueTypeOK
  <2>4. LeadSound(j)'
    <3>1. LeadJobOpen(j)' /\ IsFiniteSet(agents'[j]) /\ ToldPerRun(j)'
      BY <1>0, <1>a, <2>1 DEF LeadSound, LeadJobOpen, ToldPerRun, Routing!At, Routing!Is,
         Routing!Retries
    <3>2. ChosenByDraw(j)' /\ OwnerIsTold(j)'
      BY <2>1, <2>3 DEF ChosenByDraw, OwnerIsTold, Routing!At, Routing!Is
    <3> QED
      BY <3>1, <3>2 DEF LeadSound
  <2>5. \A i \in Lead : i # j => LeadKept(i)
    BY <1>0, <2>1 DEF LeadKept, Routing!TypeOK
  <2> QED
    BY <1>0, <2>1, <2>3, <2>4, <2>5, OneLead
<1>8. ASSUME NEW j \in Lead, Routing!AssignOwner(j) PROVE RoutingSound'
  <2>1. /\ UNCHANGED <<leadQueue, agents, chosen, enabled, eligible, counter, announced>>
        /\ Routing!At(j, "assign") /\ moved' = moved \ {j}
        /\ owner' = [owner EXCEPT ![j] = chosen[j]]
        /\ step' = [step EXCEPT ![j] = "announce"]
    BY <1>8 DEF Routing!AssignOwner, Routing!Goto
  <2>2. /\ Routing!TypeOK'
        /\ step'[j] = "announce" /\ owner'[j] = chosen'[j]
    BY <1>0, <2>1 DEF Routing!TypeOK, Routing!QueueTypeOK
  <2>3. LeadSound(j)'
    <3>1. LeadJobOpen(j)' /\ IsFiniteSet(agents'[j]) /\ ToldPerRun(j)'
      BY <1>0, <1>a, <2>1 DEF LeadSound, LeadJobOpen, ToldPerRun, Routing!At, Routing!Is,
         Routing!Retries
    <3>2. chosen'[j] \in Agent
      BY <1>0, <2>1 DEF LeadSound, ChosenByDraw
    <3>3. ChosenByDraw(j)' /\ OwnerIsTold(j)'
      BY <2>1, <2>2, <3>2 DEF ChosenByDraw, OwnerIsTold, Routing!At, Routing!Is
    <3> QED
      BY <3>1, <3>3 DEF LeadSound
  <2>4. \A i \in Lead : i # j => LeadKept(i)
    BY <1>0, <2>1 DEF LeadKept, Routing!TypeOK
  <2> QED
    BY <1>0, <2>1, <2>2, <2>3, <2>4, OneLead
<1>9. ASSUME NEW j \in Lead, Routing!AnnounceAssigned(j) PROVE RoutingSound'
  <2>1. /\ UNCHANGED <<leadQueue, agents, chosen, enabled, eligible, counter, owner, moved>>
        /\ Routing!At(j, "announce")
        /\ announced' = [announced EXCEPT ![j] = @ \cup {chosen[j]}]
        /\ step' = [step EXCEPT ![j] = "end"]
    BY <1>9 DEF Routing!AnnounceAssigned, Routing!Goto
  <2>2. /\ announced'[j] = announced[j] \cup {chosen[j]} /\ step'[j] = "end"
        /\ IsFiniteSet(announced[j])
    BY <1>0, <2>1 DEF Routing!TypeOK, LeadSound, ToldPerRun
  <2>3. Routing!TypeOK'
    <3>1. chosen[j] \in Agent
      BY <1>0, <2>1 DEF LeadSound, ChosenByDraw
    <3> QED
      BY <1>0, <2>1, <3>1 DEF Routing!TypeOK, Routing!QueueTypeOK
  <2>4. LeadSound(j)'
    <3>1. /\ IsFiniteSet(announced'[j]) /\ Cardinality(announced[j]) \in Nat
          /\ Cardinality(announced'[j]) \in
                 {Cardinality(announced[j]), Cardinality(announced[j]) + 1}
      BY <2>2, FS_AddElement, FS_CardinalityType
    <3>2. Cardinality(announced[j]) <= Routing!Retries(j)
      BY <1>0, <2>1 DEF LeadSound, ToldPerRun, Routing!At
    <3>3. Routing!Retries(j)' = Routing!Retries(j) /\ Routing!Is(j, "active")'
      BY <2>1 DEF Routing!Retries, Routing!At, Routing!Is
    <3>4. ToldPerRun(j)'
      BY <1>a, <2>2, <3>1, <3>2, <3>3 DEF ToldPerRun, Routing!Is
    <3>5. ChosenByDraw(j)' /\ LeadJobOpen(j)' /\ IsFiniteSet(agents'[j])
      BY <1>0, <2>1, <2>2 DEF LeadSound, LeadJobOpen, ChosenByDraw, Routing!At, Routing!Is
    <3>6. OwnerIsTold(j)'
      BY <1>0, <2>1, <2>2 DEF LeadSound, OwnerIsTold, Routing!At, Routing!Is
    <3> QED
      BY <3>4, <3>5, <3>6 DEF LeadSound
  <2>5. \A i \in Lead : i # j => LeadKept(i)
    BY <1>0, <2>1 DEF LeadKept, Routing!TypeOK
  <2> QED
    BY <1>0, <2>1, <2>3, <2>4, <2>5, OneLead
<1>10. ASSUME NEW j \in Lead, Routing!CompleteLead(j) PROVE RoutingSound'
  <2>1. /\ Routing!QueueTypeOK' /\ LeadJobOpen(j)' /\ Routing!Retries(j)' = Routing!Retries(j)
        /\ \A i \in Lead : i # j => leadQueue'[i] = leadQueue[i]
        /\ Routing!At(j, "end") /\ Routing!Is(j, "completed")'
    BY <1>0, <1>10, RoutingMoved DEF Routing!CompleteLead, LeadSound
  <2>2. UNCHANGED <<step, agents, chosen, enabled, eligible, counter, owner, announced, moved>>
    BY <1>10 DEF Routing!CompleteLead
  <2>3. Routing!TypeOK'
    BY <1>0, <2>1, <2>2 DEF Routing!TypeOK
  <2>4. LeadSound(j)'
    <3>1. ToldPerRun(j)'
      BY <1>0, <2>1, <2>2 DEF LeadSound, ToldPerRun, Routing!Is
    <3>2. ChosenByDraw(j)' /\ OwnerIsTold(j)'
      BY <1>0, <2>1, <2>2 DEF LeadSound, ChosenByDraw, OwnerIsTold, Routing!At, Routing!Is
    <3> QED
      BY <1>0, <2>1, <2>2, <3>1, <3>2 DEF LeadSound
  <2>5. \A i \in Lead : i # j => LeadKept(i)
    BY <2>1, <2>2 DEF LeadKept
  <2> QED
    BY <1>0, <2>2, <2>3, <2>4, <2>5, OneLead
<1>11. ASSUME NEW j \in Lead, Routing!AttemptFails(j) \/ Routing!WorkerStops(j)
       PROVE  RoutingSound'
  <2>1. /\ Routing!QueueTypeOK' /\ LeadJobOpen(j)'
        /\ Routing!Retries(j)' = Routing!Retries(j) + 1
        /\ \A i \in Lead : i # j => leadQueue'[i] = leadQueue[i]
        /\ Routing!Is(j, "active") /\ (Routing!Is(j, "waiting")' \/ Routing!Is(j, "failed")')
    BY <1>0, <1>11, RoutingRepeated DEF Routing!AttemptFails, Routing!WorkerStops, LeadSound
  <2>2. UNCHANGED <<step, agents, chosen, enabled, eligible, counter, owner, announced, moved>>
    BY <1>11 DEF Routing!AttemptFails, Routing!WorkerStops
  <2>3. Routing!TypeOK'
    BY <1>0, <2>1, <2>2 DEF Routing!TypeOK
  <2>4. LeadSound(j)'
    <3>1. ToldPerRun(j)'
      <4>1. IsFiniteSet(announced[j]) /\ Cardinality(announced[j]) \in Nat
        BY <1>0, FS_CardinalityType DEF LeadSound, ToldPerRun
      <4> QED
        BY <1>0, <1>a, <2>1, <2>2, <4>1 DEF LeadSound, ToldPerRun, Routing!Is
    <3>2. ChosenByDraw(j)' /\ OwnerIsTold(j)'
      BY <2>1 DEF ChosenByDraw, OwnerIsTold, Routing!At, Routing!Is
    <3> QED
      BY <1>0, <2>1, <2>2, <3>1, <3>2 DEF LeadSound
  <2>5. \A i \in Lead : i # j => LeadKept(i)
    BY <2>1, <2>2 DEF LeadKept
  <2> QED
    BY <1>0, <2>2, <2>3, <2>4, <2>5, OneLead
<1>12. ASSUME NEW j \in Lead, NEW a \in Agent, Routing!UpdateLead(j, a) PROVE RoutingSound'
  <2>1. /\ UNCHANGED <<leadQueue, step, agents, chosen, enabled, eligible, counter, announced>>
        /\ owner' = [owner EXCEPT ![j] = a] /\ moved' = moved \cup {j}
    BY <1>12 DEF Routing!UpdateLead, Routing!worker
  <2>2. Routing!TypeOK'
    BY <1>0, <2>1 DEF Routing!TypeOK, Routing!QueueTypeOK
  <2>3. LeadSound(j)'
    BY <1>0, <2>1 DEF LeadSound, LeadJobOpen, ChosenByDraw, OwnerIsTold, ToldPerRun,
       Routing!At, Routing!Is, Routing!Retries
  <2>4. \A i \in Lead : i # j => LeadKept(i)
    BY <1>0, <2>1 DEF LeadKept, Routing!TypeOK
  <2> QED
    BY <1>0, <2>1, <2>2, <2>3, <2>4, OneLead
<1>13. ASSUME UNCHANGED routing PROVE RoutingSound'
  <2>1. Routing!TypeOK' /\ eligible' = eligible
    BY <1>0, <1>13 DEF routing, Routing!TypeOK, Routing!QueueTypeOK
  <2>2. \A j \in Lead : LeadKept(j)
    BY <1>13 DEF routing, LeadKept
  <2> QED
    BY <1>0, <2>1, <2>2, LeadKeptSound DEF RoutingSound
<1> QED
  BY <1>1, <1>2, <1>3, <1>4, <1>5, <1>6, <1>7, <1>8, <1>9, <1>10, <1>11, <1>12, <1>13
     DEF Routing!Next

LEMMA RoutingAccounts == RoutingSound => AssignmentAccountedFor
<1> SUFFICES ASSUME RoutingSound PROVE AssignmentAccountedFor
  OBVIOUS
<1>1. Routing!OwnerAnnounced
  BY DEF RoutingSound, LeadSound, OwnerIsTold, Routing!OwnerAnnounced
<1>2. Routing!RepeatsBounded
  BY RoutingCount DEF RoutingSound, LeadSound, ToldPerRun, Routing!RepeatsBounded
<1> QED
  BY <1>1, <1>2 DEF AssignmentAccountedFor, Routing!AssignmentAccountedFor

-----------------------------------------------------------------------------
(***************************************************************************)
(* Task mail.                                                              *)
(***************************************************************************)

MailStatus == {"sending", "sent", "failed"}

\* The last row is the one an attempt marks, and the others stay as they are.
LEMMA LastRowMarked ==
  ASSUME NEW s \in Seq(MailStatus), s # <<>>, NEW v \in MailStatus
  PROVE  LET t == Notices!Front(s) \o <<v>>
         IN  /\ t \in Seq(MailStatus) /\ Len(t) = Len(s) /\ t # <<>>
             /\ \A i \in 1..Len(t) : t[i] = IF i = Len(t) THEN v ELSE s[i]
<1> DEFINE f == Notices!Front(s)
           t == f \o <<v>>
<1>1. Len(s) \in Nat \ {0}
  OBVIOUS
<1>2. f = SubSeq(s, 1, Len(s) - 1)
  BY DEF Notices!Front
<1> HIDE DEF f
<1>3. /\ f \in Seq(MailStatus) /\ Len(f) = Len(s) - 1
      /\ \A i \in 1..Len(f) : f[i] = s[i]
  <2> DEFINE n == Len(s) - 1
  <2>1. n \in Nat
    BY <1>1
  <2>2. \A i \in 1..n : s[i] \in MailStatus /\ s[1 + i - 1] = s[i]
    BY <1>1
  <2>3. f = SubSeq(s, 1, n)
    BY <1>2
  <2> HIDE DEF n
  <2>4. n \in Int /\ n - 1 + 1 = n /\ (~(1 <= n) => n = 0)
    BY <2>1
  <2>5. /\ f \in Seq(MailStatus) /\ Len(f) = n
        /\ \A i \in 1..n : f[i] = s[1 + i - 1]
    BY <2>2, <2>3, <2>4, SubSeqProperties
  <2> QED
    BY <2>2, <2>5 DEF n
<1>4. t \in Seq(MailStatus) /\ Len(t) = Len(s)
  BY <1>1, <1>3
<1>5. \A i \in 1..Len(t) : t[i] = IF i = Len(t) THEN v ELSE s[i]
  BY <1>1, <1>3, <1>4
<1>6. t # <<>>
  BY <1>1, <1>4
<1> QED
  BY <1>4, <1>5, <1>6 DEF f

LEMMA NoticesRead ==
  ASSUME NEW s \in Seq(MailStatus), NEW v
  PROVE  /\ Notices!Contains(s, v) <=> \E i \in 1..Len(s) : s[i] = v
         /\ Notices!Last(s) = s[Len(s)]
  BY DEF Notices!Contains, Notices!Last

\* A mail stays in its queue with attempts and stalls to spare, until it has failed for good.
MailJobOpen(j) ==
    Notices!Is(j, "none") \/ Notices!Is(j, "waiting") \/ Notices!Is(j, "active") =>
        mailQueue[j].failures < MailAttempts /\ mailQueue[j].stalls <= MaxStalls

LEMMA NoticesMoved ==
  ASSUME Notices!QueueTypeOK, NEW j \in Mail, MailJobOpen(j),
         Notices!Add(j) \/ Notices!Take(j) \/ Notices!Complete(j)
  PROVE  /\ Notices!QueueTypeOK' /\ MailJobOpen(j)'
         /\ \A i \in Mail : i # j => mailQueue'[i] = mailQueue[i]
         /\ Notices!Retries(j)' = Notices!Retries(j)
         /\ Notices!Add(j) => Notices!Is(j, "waiting")'
         /\ Notices!Take(j) => Notices!Is(j, "active")'
         /\ Notices!Complete(j) => Notices!Is(j, "completed")'
<1> PICK s \in {"waiting", "active", "completed"} :
        /\ mailQueue' = [mailQueue EXCEPT ![j].state = s]
        /\ Notices!Add(j) => s = "waiting"
        /\ Notices!Take(j) => s = "active"
        /\ Notices!Complete(j) => s = "completed"
  BY DEF Notices!Add, Notices!Take, Notices!Complete, Notices!Is, Notices!Move
<1>1. /\ mailQueue \in [Mail -> Notices!Entry] /\ mailQueue[j] \in Notices!Entry
      /\ mailQueue[j].failures < MailAttempts /\ mailQueue[j].stalls <= MaxStalls
  BY
     DEF Notices!QueueTypeOK, MailJobOpen, Notices!Add, Notices!Take, Notices!Complete, Notices!Is
<1>2. /\ mailQueue' \in [Mail -> Notices!Entry]
      /\ \A i \in Mail : i # j => mailQueue'[i] = mailQueue[i]
      /\ mailQueue'[j].state = s
      /\ mailQueue'[j].failures = mailQueue[j].failures
      /\ mailQueue'[j].stalls = mailQueue[j].stalls
  BY <1>1 DEF Notices!Entry
<1> QED
  BY <1>1, <1>2 DEF Notices!QueueTypeOK, MailJobOpen, Notices!Retries, Notices!Is

LEMMA NoticesRepeated ==
  ASSUME Notices!QueueTypeOK, NEW j \in Mail, MailJobOpen(j),
         Notices!FailAttempt(j) \/ Notices!Stall(j)
  PROVE  /\ Notices!QueueTypeOK' /\ MailJobOpen(j)'
         /\ \A i \in Mail : i # j => mailQueue'[i] = mailQueue[i]
         /\ Notices!Retries(j)' = Notices!Retries(j) + 1
         /\ Notices!Is(j, "active")
         /\ Notices!Is(j, "waiting")' \/ Notices!Is(j, "failed")'
<1>1. /\ mailQueue \in [Mail -> Notices!Entry] /\ mailQueue[j] \in Notices!Entry
      /\ mailQueue[j].failures < MailAttempts /\ mailQueue[j].stalls <= MaxStalls
  BY DEF Notices!QueueTypeOK, MailJobOpen, Notices!FailAttempt, Notices!Stall, Notices!Is
<1>2. CASE Notices!FailAttempt(j)
  <2> DEFINE s == IF mailQueue[j].failures + 1 < MailAttempts THEN "waiting" ELSE "failed"
             d == [mailQueue[j] EXCEPT !.failures = @ + 1]
             e == [d EXCEPT !.state = s]
  <2>0. mailQueue' = [mailQueue EXCEPT ![j] = e]
    BY <1>1, <1>2 DEF Notices!FailAttempt
  <2>1. /\ mailQueue' \in [Mail -> Notices!Entry]
        /\ \A i \in Mail : i # j => mailQueue'[i] = mailQueue[i]
        /\ mailQueue'[j].state = s
        /\ mailQueue'[j].failures = mailQueue[j].failures + 1
        /\ mailQueue'[j].stalls = mailQueue[j].stalls
    <3>1. s \in {"waiting", "failed"}
      OBVIOUS
    <3> HIDE DEF s
    <3>2. /\ d \in Notices!Entry
          /\ d.failures = mailQueue[j].failures + 1 /\ d.stalls = mailQueue[j].stalls
      BY <1>1, CrmAssumption DEF Notices!Entry
    <3> HIDE DEF d
    <3>3. /\ e \in Notices!Entry /\ e.state = s
          /\ e.failures = d.failures /\ e.stalls = d.stalls
      BY <3>1, <3>2 DEF Notices!Entry
    <3> HIDE DEF e
    <3> QED
      BY <1>1, <2>0, <3>2, <3>3
  <2>2. mailQueue[j].failures \in Nat /\ mailQueue[j].stalls \in Nat
    BY <1>1 DEF Notices!Entry
  <2> QED
    BY <1>1, <1>2, <2>1, <2>2, CrmAssumption
       DEF Notices!FailAttempt, Notices!QueueTypeOK, MailJobOpen, Notices!Retries, Notices!Is
<1>3. CASE Notices!Stall(j)
  <2> DEFINE s == IF mailQueue[j].stalls < MaxStalls THEN "waiting" ELSE "failed"
             d == [mailQueue[j] EXCEPT !.stalls = @ + 1]
             e == [d EXCEPT !.state = s]
  <2>0. mailQueue' = [mailQueue EXCEPT ![j] = e]
    BY <1>1, <1>3 DEF Notices!Stall
  <2>1. /\ mailQueue' \in [Mail -> Notices!Entry]
        /\ \A i \in Mail : i # j => mailQueue'[i] = mailQueue[i]
        /\ mailQueue'[j].state = s
        /\ mailQueue'[j].stalls = mailQueue[j].stalls + 1
        /\ mailQueue'[j].failures = mailQueue[j].failures
    <3>1. s \in {"waiting", "failed"}
      OBVIOUS
    <3> HIDE DEF s
    <3>2. /\ d \in Notices!Entry
          /\ d.stalls = mailQueue[j].stalls + 1 /\ d.failures = mailQueue[j].failures
      BY <1>1, CrmAssumption DEF Notices!Entry
    <3> HIDE DEF d
    <3>3. /\ e \in Notices!Entry /\ e.state = s
          /\ e.stalls = d.stalls /\ e.failures = d.failures
      BY <3>1, <3>2 DEF Notices!Entry
    <3> HIDE DEF e
    <3> QED
      BY <1>1, <2>0, <3>2, <3>3
  <2>2. mailQueue[j].failures \in Nat /\ mailQueue[j].stalls \in Nat
    BY <1>1 DEF Notices!Entry
  <2> QED
    BY <1>1, <1>3, <2>1, <2>2, CrmAssumption
       DEF Notices!Stall, Notices!QueueTypeOK, MailJobOpen, Notices!Retries, Notices!Is
<1> QED
  BY <1>2, <1>3

\* A mail is handed over by an attempt that has added a row, and never twice.
MailRecorded(j) ==
    /\ handed[j] <= Len(outbound[j])
    /\ Notices!At(j, "send") => handed[j] < Len(outbound[j])
    /\ Notices!At(j, "mark") \/ Notices!At(j, "note") => outbound[j] # <<>>
    /\ Notices!At(j, "mark") => handed[j] > 0

\* Only a mail that was handed over is marked sent.
MailMarked(j) ==
    /\ \A i \in 1..Len(outbound[j]) : outbound[j][i] = "sent" => handed[j] > 0
    /\ Notices!Is(j, "completed")
           => outbound[j] # <<>> /\ outbound[j][Len(outbound[j])] = "sent"

\* An attempt that has not come to the provider has handed nothing over.
MailRepeated(j) ==
    /\ handed[j] <= Notices!Retries(j) + 1
    /\ Notices!Is(j, "none") => handed[j] = 0
    /\ Notices!Is(j, "waiting") \/ Notices!At(j, "record") \/ Notices!At(j, "send")
           => handed[j] <= Notices!Retries(j)

\* A call queues its mail last, and one that stores its row after the deletion
\* finds the task deleted when it reads it.
CallInOrder(j) ==
    /\ call[j] # <<"done">> => Notices!Is(j, "none")
    /\ call[j] \in {"store", "read", "enqueue"} \X Task \X User => call[j][2] \in taskIds
    /\ j \in late =>
        /\ Notices!Is(j, "none")
        /\ \/ call[j] = <<"done">>
           \/ /\ call[j] \in {"read"} \X Task \X User
              /\ call[j][2] \in deletedTasks

MailSound(j) ==
    MailJobOpen(j) /\ MailRecorded(j) /\ MailMarked(j) /\ MailRepeated(j) /\ CallInOrder(j)

NoticesSound == Notices!TypeOK /\ \A j \in Mail : MailSound(j)

\* What a step leaves of a mail it is not about; tasks are added and deleted.
MailKept(j) ==
    /\ mailQueue'[j] = mailQueue[j] /\ call'[j] = call[j] /\ run'[j] = run[j]
    /\ outbound'[j] = outbound[j] /\ handed'[j] = handed[j]
    /\ j \in late' <=> j \in late
    /\ taskIds \subseteq taskIds' /\ deletedTasks \subseteq deletedTasks'

LEMMA MailKeptSound ==
  ASSUME NEW j, MailSound(j), MailKept(j)
  PROVE  MailSound(j)'
  BY DEF MailSound, MailKept, MailJobOpen, MailRecorded, MailMarked, MailRepeated, CallInOrder,
     Notices!At, Notices!Is, Notices!Retries

LEMMA NoticesInit == Notices!Init => NoticesSound
<1> SUFFICES ASSUME Notices!Init PROVE NoticesSound
  OBVIOUS
<1> USE CrmAssumption DEF Notices!Init, Notices!QueueInit
<1>1. Notices!TypeOK
  <2>1. [state |-> "none", failures |-> 0, stalls |-> 0] \in Notices!Entry
    BY DEF Notices!Entry
  <2>2. Notices!QueueTypeOK
    BY <2>1 DEF Notices!QueueTypeOK
  <2> QED
    BY <2>2 DEF Notices!TypeOK
<1>2. ASSUME NEW j \in Mail PROVE MailSound(j)
  <2>1. /\ mailQueue[j].state = "none" /\ Notices!Retries(j) = 0
        /\ call[j] = <<"none">> /\ outbound[j] = <<>> /\ handed[j] = 0 /\ late = {}
    BY DEF Notices!Retries
  <2>2. MailJobOpen(j)
    BY DEF MailJobOpen
  <2> HIDE DEF Notices!Init, Notices!QueueInit
  <2>3. MailRecorded(j) /\ MailMarked(j) /\ MailRepeated(j)
    BY <2>1 DEF MailRecorded, MailMarked, MailRepeated, Notices!At, Notices!Is
  <2>4. CallInOrder(j)
    BY <2>1 DEF CallInOrder, Notices!Is
  <2> QED
    BY <2>2, <2>3, <2>4 DEF MailSound
<1> QED
  BY <1>1, <1>2 DEF NoticesSound

LEMMA NoticesRetriesType ==
  ASSUME Notices!QueueTypeOK, NEW j \in Mail
  PROVE  Notices!Retries(j) \in Nat
<1>1. mailQueue[j] \in Notices!Entry
  BY DEF Notices!QueueTypeOK
<1> QED
  BY <1>1, CrmAssumption DEF Notices!Entry, Notices!Retries

\* A step about one mail that keeps it and the types.
LEMMA OneMail ==
  ASSUME NoticesSound, NEW j \in Mail, Notices!TypeOK',
         MailSound(j)', \A i \in Mail : i # j => MailKept(i)
  PROVE  NoticesSound'
  BY MailKeptSound DEF NoticesSound

\* A call stands still, or is at one of three steps about a task and a user.
LEMMA CallType ==
  ASSUME Notices!TypeOK, NEW j \in Mail,
         NEW s \in {"store", "read", "enqueue"}, Notices!CallAt(j, s)
  PROVE  /\ call[j] = <<s, call[j][2], call[j][3]>>
         /\ call[j][2] \in Task /\ call[j][3] \in User
         /\ call[j] \in {"store", "read", "enqueue"} \X Task \X User
         /\ call[j] # <<"done">>
<1>1. \/ call[j] = <<"none">> \/ call[j] = <<"done">>
      \/ call[j] \in {"store", "read", "enqueue"} \X Task \X User
  BY DEF Notices!TypeOK
<1>2. call[j][1] = s
  BY DEF Notices!CallAt
<1>3. call[j] # <<"none">> /\ call[j] # <<"done">>
  BY <1>2
<1> QED
  BY <1>1, <1>2, <1>3

\* The calls, while the worker stands still.
LEMMA CallSteps ==
  ASSUME NoticesSound, NEW j \in Mail,
         \/ \E t \in Task, u \in User : Notices!AddAssignee(j, t, u)
         \/ Notices!StoreAssignee(j) \/ Notices!ReadTask(j)
         \/ Notices!EnqueueNotice(j) \/ Notices!LoseNotice(j)
  PROVE  NoticesSound'
<1>0. Notices!TypeOK /\ Notices!QueueTypeOK /\ MailSound(j)
  BY DEF NoticesSound, Notices!TypeOK
<1>1. ASSUME NEW t \in Task, NEW u \in User, Notices!AddAssignee(j, t, u)
      PROVE  NoticesSound'
  <2>1. /\ UNCHANGED <<taskIds, deletedTasks, assignees, mailQueue, run, outbound, handed, late>>
        /\ call[j] = <<"none">> /\ call' = [call EXCEPT ![j] = <<"store", t, u>>]
        /\ t \in taskIds
    BY <1>1 DEF Notices!AddAssignee, Notices!taskTable, Notices!worker, Notices!LiveTasks
  <2>2. Notices!TypeOK' /\ call'[j] = <<"store", t, u>>
    BY <1>0, <2>1 DEF Notices!TypeOK, Notices!QueueTypeOK
  <2>3. CallInOrder(j)'
    <3>1. Notices!Is(j, "none")
      BY <1>0, <2>1 DEF MailSound, CallInOrder
    <3>2. j \notin late
      BY <1>0, <2>1 DEF MailSound, CallInOrder
    <3> QED
      BY <2>1, <2>2, <3>1, <3>2 DEF CallInOrder, Notices!Is
  <2>4. MailSound(j)'
    BY <1>0, <2>1, <2>3 DEF MailSound, MailJobOpen, MailRecorded, MailMarked, MailRepeated,
       Notices!At, Notices!Is, Notices!Retries
  <2>5. \A i \in Mail : i # j => MailKept(i)
    BY <1>0, <2>1 DEF MailKept, Notices!TypeOK
  <2> QED
    BY <2>2, <2>4, <2>5, OneMail
<1>2. ASSUME Notices!StoreAssignee(j) PROVE NoticesSound'
  <2>1. /\ UNCHANGED <<taskIds, deletedTasks, mailQueue, run, outbound, handed>>
        /\ Notices!CallAt(j, "store")
        /\ assignees' = assignees \cup {<<call[j][2], call[j][3]>>}
        /\ late' = IF call[j][2] \in deletedTasks THEN late \cup {j} ELSE late
        /\ call' = [call EXCEPT ![j] = <<"read", call[j][2], call[j][3]>>]
    BY <1>2 DEF Notices!StoreAssignee, Notices!worker, Notices!Continue
  <2>2. /\ call[j] = <<"store", call[j][2], call[j][3]>> /\ call[j] # <<"done">>
        /\ call[j][2] \in taskIds /\ call[j][3] \in User /\ call[j][2] \in Task
    BY <1>0, <2>1, CallType DEF MailSound, CallInOrder
  <2>3. Notices!TypeOK' /\ call'[j] = <<"read", call[j][2], call[j][3]>>
    BY <1>0, <2>1, <2>2 DEF Notices!TypeOK, Notices!QueueTypeOK
  <2>4. CallInOrder(j)'
    <3>1. Notices!Is(j, "none")
      BY <1>0, <2>2 DEF MailSound, CallInOrder
    <3>2. j \notin late
      BY <1>0, <2>2 DEF MailSound, CallInOrder
    <3> QED
      BY <2>1, <2>2, <2>3, <3>1, <3>2 DEF CallInOrder, Notices!Is
  <2>5. MailSound(j)'
    BY <1>0, <2>1, <2>4 DEF MailSound, MailJobOpen, MailRecorded, MailMarked, MailRepeated,
       Notices!At, Notices!Is, Notices!Retries
  <2>6. \A i \in Mail : i # j => MailKept(i)
    BY <1>0, <2>1 DEF MailKept, Notices!TypeOK
  <2> QED
    BY <2>3, <2>5, <2>6, OneMail
<1>3. ASSUME Notices!ReadTask(j) \/ Notices!LoseNotice(j) PROVE NoticesSound'
  <2>1. /\ UNCHANGED <<taskIds, deletedTasks, assignees, mailQueue, run, outbound, handed, late>>
        /\ Notices!CallAt(j, "read") \/ Notices!CallAt(j, "enqueue")
        /\ \/ call' = [call EXCEPT ![j] = <<"done">>]
           \/ /\ call[j][2] \in taskIds \ deletedTasks /\ Notices!CallAt(j, "read")
              /\ call' = [call EXCEPT ![j] = <<"enqueue", call[j][2], call[j][3]>>]
    BY <1>3 DEF Notices!ReadTask, Notices!LoseNotice, Notices!taskTable, Notices!worker,
       Notices!Continue, Notices!Return, Notices!LiveTasks
  <2>2. call[j] # <<"done">> /\ call[j][3] \in User /\ call[j][2] \in Task
    BY <1>0, <2>1, CallType
  <2>3. Notices!TypeOK'
    <3> DEFINE p == <<"enqueue", call[j][2], call[j][3]>>
               Calls == {<<"none">>, <<"done">>} \cup
                            {"store", "read", "enqueue"} \X Task \X User
    <3>1. p \in Calls /\ <<"done">> \in Calls /\ call \in [Mail -> Calls]
      BY <1>0, <2>2 DEF Notices!TypeOK
    <3>2. call' = [call EXCEPT ![j] = <<"done">>] \/ call' = [call EXCEPT ![j] = p]
      BY <2>1
    <3>3. call' \in [Mail -> Calls]
      <4> HIDE DEF p, Calls
      <4> QED
        BY <3>1, <3>2
    <3> QED
      BY <1>0, <2>1, <3>3 DEF Notices!TypeOK, Notices!QueueTypeOK
  <2>4. \/ call'[j] = <<"done">>
        \/ /\ call[j][2] \in taskIds \ deletedTasks
           /\ call'[j] = <<"enqueue", call[j][2], call[j][3]>>
    BY <1>0, <2>1 DEF Notices!TypeOK
  <2>5. CallInOrder(j)'
    <3>1. Notices!Is(j, "none")
      BY <1>0, <2>2 DEF MailSound, CallInOrder
    <3>2. call'[j] # <<"done">> => j \notin late
      BY <1>0, <2>2, <2>4 DEF MailSound, CallInOrder
    <3> QED
      BY <2>1, <2>4, <3>1, <3>2 DEF CallInOrder, Notices!Is
  <2>6. MailSound(j)'
    BY <1>0, <2>1, <2>5 DEF MailSound, MailJobOpen, MailRecorded, MailMarked, MailRepeated,
       Notices!At, Notices!Is, Notices!Retries
  <2>7. \A i \in Mail : i # j => MailKept(i)
    BY <1>0, <2>1 DEF MailKept, Notices!TypeOK
  <2> QED
    BY <2>3, <2>6, <2>7, OneMail
<1>4. ASSUME Notices!EnqueueNotice(j) PROVE NoticesSound'
  <2>1. /\ UNCHANGED <<taskIds, deletedTasks, assignees, run, outbound, handed, late>>
        /\ Notices!CallAt(j, "enqueue") /\ Notices!Add(j)
        /\ call' = [call EXCEPT ![j] = <<"done">>]
    BY <1>4 DEF Notices!EnqueueNotice, Notices!taskTable, Notices!Return
  <2>2. /\ Notices!QueueTypeOK' /\ MailJobOpen(j)' /\ Notices!Retries(j)' = Notices!Retries(j)
        /\ \A i \in Mail : i # j => mailQueue'[i] = mailQueue[i]
        /\ Notices!Is(j, "none") /\ Notices!Is(j, "waiting")'
    BY <1>0, <2>1, NoticesMoved DEF Notices!Add, MailSound
  <2>3. call[j] = <<"enqueue", call[j][2], call[j][3]>>
    BY <1>0, <2>1, CallType
  <2>4. j \notin late
    BY <1>0, <2>3 DEF MailSound, CallInOrder
  <2>5. Notices!TypeOK' /\ call'[j] = <<"done">>
    BY <1>0, <2>1, <2>2 DEF Notices!TypeOK
  <2>6. MailSound(j)'
    <3>1. CallInOrder(j)'
      BY <2>1, <2>4, <2>5 DEF CallInOrder
    <3>2. handed[j] = 0 /\ Notices!Retries(j) \in Nat /\ outbound[j] \in Seq(MailStatus)
      BY <1>0, <2>2, NoticesRetriesType DEF MailSound, MailRepeated, Notices!TypeOK, MailStatus
    <3>3. MailRepeated(j)' /\ MailRecorded(j)'
      BY <2>1, <2>2, <3>2 DEF MailRepeated, MailRecorded, Notices!Is, Notices!At
    <3>4. MailMarked(j)'
      BY <1>0, <2>1, <2>2 DEF MailSound, MailMarked, Notices!Is
    <3> QED
      BY <2>2, <3>1, <3>3, <3>4 DEF MailSound
  <2>7. \A i \in Mail : i # j => MailKept(i)
    BY <1>0, <2>1, <2>2 DEF MailKept, Notices!TypeOK
  <2> QED
    BY <2>5, <2>6, <2>7, OneMail
<1> QED
  BY <1>1, <1>2, <1>3, <1>4

\* The worker, while the calls stand still.
LEMMA WorkerSteps ==
  ASSUME NoticesSound, NEW j \in Mail,
         \/ Notices!TakeMail(j) \/ Notices!RecordAttempt(j) \/ Notices!HandOver(j)
         \/ Notices!Refused(j) \/ Notices!MarkSent(j) \/ Notices!MarkFails(j)
         \/ Notices!NoteFailure(j) \/ Notices!RecordFails(j) \/ Notices!WorkerStops(j)
  PROVE  NoticesSound'
<1>0. Notices!TypeOK /\ Notices!QueueTypeOK /\ MailSound(j)
  BY DEF NoticesSound, Notices!TypeOK
<1>a. /\ Notices!Retries(j) \in Nat /\ handed[j] \in Nat /\ outbound[j] \in Seq(MailStatus)
      /\ Len(outbound[j]) \in Nat
  BY <1>0, NoticesRetriesType DEF Notices!TypeOK, MailStatus
<1>b. /\ UNCHANGED <<taskIds, deletedTasks, assignees, call, late>>
  BY DEF Notices!TakeMail, Notices!RecordAttempt, Notices!HandOver, Notices!Refused,
     Notices!MarkSent, Notices!MarkFails, Notices!NoteFailure, Notices!RecordFails,
     Notices!WorkerStops, Notices!taskTable
\* A job that was in the queue is not one that a call still has to add.
<1>c. ASSUME ~Notices!Is(j, "none") PROVE CallInOrder(j)'
  BY <1>0, <1>b, <1>c DEF MailSound, CallInOrder
<1>1. ASSUME Notices!TakeMail(j) PROVE NoticesSound'
  <2>1. /\ Notices!QueueTypeOK' /\ MailJobOpen(j)' /\ Notices!Retries(j)' = Notices!Retries(j)
        /\ \A i \in Mail : i # j => mailQueue'[i] = mailQueue[i]
        /\ Notices!Is(j, "waiting") /\ Notices!Is(j, "active")'
    BY <1>0, <1>1, NoticesMoved DEF Notices!TakeMail, Notices!Take, MailSound
  <2>2. UNCHANGED <<outbound, handed>> /\ run' = [run EXCEPT ![j] = "record"]
    BY <1>1 DEF Notices!TakeMail, Notices!Then
  <2>3. Notices!TypeOK' /\ run'[j] = "record"
    BY <1>0, <1>b, <2>1, <2>2 DEF Notices!TypeOK
  <2>4. MailRecorded(j)' /\ MailMarked(j)' /\ MailRepeated(j)'
    BY <1>0, <2>1, <2>2, <2>3 DEF MailSound, MailRecorded, MailMarked, MailRepeated,
       Notices!At, Notices!Is
  <2>5. CallInOrder(j)'
    BY <1>c, <2>1 DEF Notices!Is
  <2>6. \A i \in Mail : i # j => MailKept(i)
    BY <1>0, <1>b, <2>1, <2>2 DEF MailKept, Notices!TypeOK
  <2> QED
    BY <2>1, <2>3, <2>4, <2>5, <2>6, OneMail DEF MailSound
<1>2. ASSUME Notices!RecordAttempt(j) PROVE NoticesSound'
  <2>1. /\ UNCHANGED <<mailQueue, handed>> /\ Notices!At(j, "record")
        /\ outbound' = [outbound EXCEPT ![j] = Append(@, "sending")]
        /\ run' = [run EXCEPT ![j] = "send"]
    BY <1>2 DEF Notices!RecordAttempt, Notices!Then
  <2> DEFINE t == Append(outbound[j], "sending")
  <2>2. /\ t \in Seq(MailStatus) /\ Len(t) = Len(outbound[j]) + 1 /\ t # <<>>
        /\ \A i \in 1..Len(t) : t[i] = "sent"
               => i \in 1..Len(outbound[j]) /\ outbound[j][i] = "sent"
    BY <1>a DEF MailStatus
  <2>3. outbound' = [outbound EXCEPT ![j] = t]
    BY <2>1
  <2> HIDE DEF t
  <2>4. Notices!TypeOK' /\ run'[j] = "send" /\ outbound'[j] = t
    BY <1>0, <1>b, <2>1, <2>2, <2>3 DEF Notices!TypeOK, Notices!QueueTypeOK, MailStatus
  <2>5. MailJobOpen(j)' /\ MailRepeated(j)'
    BY <1>0, <2>1
       DEF MailSound, MailJobOpen, MailRepeated, Notices!At, Notices!Is, Notices!Retries
  <2>6. MailRecorded(j)' /\ MailMarked(j)'
    BY <1>0, <1>a, <2>1, <2>2, <2>4
       DEF MailSound, MailRecorded, MailMarked, Notices!At, Notices!Is
  <2>7. CallInOrder(j)'
    BY <1>c, <2>1 DEF Notices!At, Notices!Is
  <2>8. \A i \in Mail : i # j => MailKept(i)
    BY <1>0, <1>b, <2>1, <2>3 DEF MailKept, Notices!TypeOK
  <2> QED
    BY <2>4, <2>5, <2>6, <2>7, <2>8, OneMail DEF MailSound
<1>3. ASSUME Notices!HandOver(j) \/ Notices!Refused(j) PROVE NoticesSound'
  <2>1. PICK stmt \in {"mark", "note"}, n \in {handed[j], handed[j] + 1} :
            /\ UNCHANGED <<mailQueue, outbound>> /\ Notices!At(j, "send")
            /\ handed' = [handed EXCEPT ![j] = n]
            /\ run' = [run EXCEPT ![j] = stmt]
            /\ stmt = "mark" => n = handed[j] + 1
    <3>1. CASE Notices!HandOver(j)
      BY <3>1 DEF Notices!HandOver, Notices!Then
    <3>2. CASE Notices!Refused(j)
      <4>1. handed' = [handed EXCEPT ![j] = handed[j]]
        BY <1>0, <3>2 DEF Notices!Refused, Notices!TypeOK
      <4> QED
        BY <3>2, <4>1 DEF Notices!Refused, Notices!Then
    <3> QED
      BY <1>3, <3>1, <3>2
  <2>2. Notices!TypeOK' /\ run'[j] = stmt /\ handed'[j] = n /\ n \in Nat
    BY <1>0, <1>a, <1>b, <2>1 DEF Notices!TypeOK, Notices!QueueTypeOK
  <2>3. MailJobOpen(j)' /\ MailRepeated(j)'
    BY <1>0, <1>a, <2>1, <2>2
       DEF MailSound, MailJobOpen, MailRepeated, Notices!At, Notices!Is, Notices!Retries
  <2>4. MailRecorded(j)' /\ MailMarked(j)'
    <3>1. handed[j] < Len(outbound[j])
      BY <1>0, <2>1 DEF MailSound, MailRecorded
    <3>2. outbound[j] # <<>>
      BY <1>a, <3>1
    <3> QED
      BY <1>0, <1>a, <2>1, <2>2, <3>1, <3>2
         DEF MailSound, MailRecorded, MailMarked, Notices!At, Notices!Is
  <2>5. CallInOrder(j)'
    BY <1>c, <2>1 DEF Notices!At, Notices!Is
  <2>6. \A i \in Mail : i # j => MailKept(i)
    BY <1>0, <1>b, <2>1 DEF MailKept, Notices!TypeOK
  <2> QED
    BY <2>2, <2>3, <2>4, <2>5, <2>6, OneMail DEF MailSound
\* A row that is marked, or not, while the mail is at "mark" or at "note".
<1>4. ASSUME NEW v \in MailStatus, outbound[j] # <<>>, Notices!MarkRow(j, v)
      PROVE  /\ outbound' \in [Mail -> Seq(MailStatus)]
             /\ \A i \in Mail : i # j => outbound'[i] = outbound[i]
             /\ Len(outbound'[j]) = Len(outbound[j]) /\ outbound'[j] # <<>>
             /\ outbound'[j][Len(outbound'[j])] = v
             /\ \A i \in 1..Len(outbound'[j]) :
                    outbound'[j][i] = IF i = Len(outbound'[j]) THEN v ELSE outbound[j][i]
  <2> DEFINE t == Notices!Front(outbound[j]) \o <<v>>
  <2>1. /\ t \in Seq(MailStatus) /\ Len(t) = Len(outbound[j]) /\ t # <<>>
        /\ \A i \in 1..Len(t) : t[i] = IF i = Len(t) THEN v ELSE outbound[j][i]
    BY <1>a, <1>4, LastRowMarked
  <2>2. outbound' = [outbound EXCEPT ![j] = t]
    BY <1>4 DEF Notices!MarkRow
  <2> HIDE DEF t
  <2>3. outbound \in [Mail -> Seq(MailStatus)]
    BY <1>0 DEF Notices!TypeOK, MailStatus
  <2>4. /\ outbound' \in [Mail -> Seq(MailStatus)] /\ outbound'[j] = t
        /\ \A i \in Mail : i # j => outbound'[i] = outbound[i]
    BY <2>1, <2>2, <2>3
  <2>5. Len(t) \in 1..Len(t)
    BY <1>a, <1>4, <2>1
  <2> QED
    BY <2>1, <2>4, <2>5
<1>5. ASSUME Notices!MarkSent(j) PROVE NoticesSound'
  <2>1. /\ Notices!QueueTypeOK' /\ MailJobOpen(j)' /\ Notices!Retries(j)' = Notices!Retries(j)
        /\ \A i \in Mail : i # j => mailQueue'[i] = mailQueue[i]
        /\ Notices!At(j, "mark") /\ Notices!Is(j, "completed")'
    BY <1>0, <1>5, NoticesMoved DEF Notices!MarkSent, MailSound
  <2>2. UNCHANGED <<run, handed>> /\ Notices!MarkRow(j, "sent")
    BY <1>5 DEF Notices!MarkSent
  <2>3. outbound[j] # <<>> /\ handed[j] > 0 /\ "sent" \in MailStatus
    BY <1>0, <2>1 DEF MailSound, MailRecorded, MailStatus
  <2>4. /\ outbound' \in [Mail -> Seq(MailStatus)]
        /\ \A i \in Mail : i # j => outbound'[i] = outbound[i]
        /\ Len(outbound'[j]) = Len(outbound[j]) /\ outbound'[j] # <<>>
        /\ outbound'[j][Len(outbound'[j])] = "sent"
    BY <1>4, <2>2, <2>3
  <2>5. Notices!TypeOK'
    BY <1>0, <1>b, <2>1, <2>2, <2>4 DEF Notices!TypeOK, MailStatus
  <2>6. MailRecorded(j)' /\ MailMarked(j)' /\ MailRepeated(j)'
    BY <1>0, <1>a, <2>1, <2>2, <2>3, <2>4 DEF MailSound, MailRecorded, MailMarked, MailRepeated,
       Notices!At, Notices!Is
  <2>7. CallInOrder(j)'
    BY <1>c, <2>1 DEF Notices!At, Notices!Is
  <2>8. \A i \in Mail : i # j => MailKept(i)
    BY <1>0, <1>b, <2>1, <2>2, <2>4 DEF MailKept, Notices!TypeOK
  <2> QED
    BY <2>1, <2>5, <2>6, <2>7, <2>8, OneMail DEF MailSound
<1>6. ASSUME Notices!MarkFails(j) PROVE NoticesSound'
  <2>1. /\ UNCHANGED <<mailQueue, handed>> /\ Notices!At(j, "mark")
        /\ run' = [run EXCEPT ![j] = "note"]
        /\ outbound' = outbound \/ Notices!MarkRow(j, "sent")
    BY <1>6 DEF Notices!MarkFails, Notices!Then
  <2>2. outbound[j] # <<>> /\ handed[j] > 0 /\ "sent" \in MailStatus
    BY <1>0, <2>1 DEF MailSound, MailRecorded, MailStatus
  <2>3. /\ outbound' \in [Mail -> Seq(MailStatus)]
        /\ \A i \in Mail : i # j => outbound'[i] = outbound[i]
        /\ Len(outbound'[j]) = Len(outbound[j]) /\ outbound'[j] # <<>>
    BY <1>0, <1>4, <2>1, <2>2 DEF Notices!TypeOK, MailStatus
  <2>4. Notices!TypeOK' /\ run'[j] = "note"
    BY <1>0, <1>b, <2>1, <2>3 DEF Notices!TypeOK, Notices!QueueTypeOK, MailStatus
  <2>5. MailJobOpen(j)' /\ MailRepeated(j)'
    BY <1>0, <2>1, <2>4
       DEF MailSound, MailJobOpen, MailRepeated, Notices!At, Notices!Is, Notices!Retries
  <2>6. MailRecorded(j)' /\ MailMarked(j)'
    BY <1>0, <1>a, <2>1, <2>2, <2>3, <2>4
       DEF MailSound, MailRecorded, MailMarked, Notices!At, Notices!Is
  <2>7. CallInOrder(j)'
    BY <1>c, <2>1 DEF Notices!At, Notices!Is
  <2>8. \A i \in Mail : i # j => MailKept(i)
    BY <1>0, <1>b, <2>1, <2>3 DEF MailKept, Notices!TypeOK
  <2> QED
    BY <2>4, <2>5, <2>6, <2>7, <2>8, OneMail DEF MailSound
<1>7. ASSUME Notices!NoteFailure(j) \/ Notices!RecordFails(j) \/ Notices!WorkerStops(j)
      PROVE  NoticesSound'
  <2>1. /\ Notices!QueueTypeOK' /\ MailJobOpen(j)'
        /\ Notices!Retries(j)' = Notices!Retries(j) + 1
        /\ \A i \in Mail : i # j => mailQueue'[i] = mailQueue[i]
        /\ Notices!Is(j, "active") /\ (Notices!Is(j, "waiting")' \/ Notices!Is(j, "failed")')
    BY <1>0, <1>7, NoticesRepeated
       DEF Notices!NoteFailure, Notices!RecordFails, Notices!WorkerStops, MailSound
  <2>2. /\ UNCHANGED <<run, handed>>
        /\ outbound' = outbound \/ (Notices!At(j, "note") /\ Notices!MarkRow(j, "failed"))
    BY <1>7 DEF Notices!NoteFailure, Notices!RecordFails, Notices!WorkerStops
  <2>3. ASSUME Notices!At(j, "note"), Notices!MarkRow(j, "failed")
        PROVE  /\ outbound' \in [Mail -> Seq(MailStatus)]
               /\ \A i \in Mail : i # j => outbound'[i] = outbound[i]
               /\ Len(outbound'[j]) = Len(outbound[j])
               /\ \A i \in 1..Len(outbound'[j]) :
                      outbound'[j][i] = "sent" => outbound[j][i] = "sent"
    <3>1. outbound[j] # <<>> /\ "failed" \in MailStatus
      BY <1>0, <2>3 DEF MailSound, MailRecorded, MailStatus
    <3>2. \A i \in 1..Len(outbound'[j]) :
              outbound'[j][i] = IF i = Len(outbound'[j]) THEN "failed" ELSE outbound[j][i]
      BY <1>4, <2>3, <3>1
    <3> QED
      BY <1>4, <2>3, <3>1, <3>2
  <2>4. /\ outbound' \in [Mail -> Seq(MailStatus)]
        /\ \A i \in Mail : i # j => outbound'[i] = outbound[i]
        /\ Len(outbound'[j]) = Len(outbound[j])
        /\ \A i \in 1..Len(outbound'[j]) :
               outbound'[j][i] = "sent" => outbound[j][i] = "sent"
    BY <1>0, <2>2, <2>3 DEF Notices!TypeOK, MailStatus
  <2>5. Notices!TypeOK'
    BY <1>0, <1>b, <2>1, <2>2, <2>4 DEF Notices!TypeOK, MailStatus
  <2>6. MailRecorded(j)' /\ MailRepeated(j)'
    BY <1>0, <1>a, <2>1, <2>2, <2>4
       DEF MailSound, MailRecorded, MailRepeated, Notices!At, Notices!Is
  <2>7. MailMarked(j)'
    BY <1>0, <1>a, <2>1, <2>2, <2>4 DEF MailSound, MailMarked, Notices!Is
  <2>8. CallInOrder(j)'
    BY <1>c, <2>1 DEF Notices!Is
  <2>9. \A i \in Mail : i # j => MailKept(i)
    BY <1>0, <1>b, <2>1, <2>2, <2>4 DEF MailKept, Notices!TypeOK
  <2> QED
    BY <2>1, <2>5, <2>6, <2>7, <2>8, <2>9, OneMail DEF MailSound
<1> QED
  BY <1>1, <1>2, <1>3, <1>5, <1>6, <1>7

LEMMA NoticesStep == NoticesSound /\ [Notices!Next]_notices => NoticesSound'
<1> SUFFICES ASSUME NoticesSound, [Notices!Next]_notices PROVE NoticesSound'
  OBVIOUS
<1>0. Notices!TypeOK /\ \A j \in Mail : MailSound(j)
  BY DEF NoticesSound
<1>1. ASSUME NEW t \in Task,
             \/ \E users \in SUBSET User : Notices!CreateTask(t, users)
             \/ Notices!DeleteTask(t)
             \/ \E u \in User : Notices!RemoveAssignee(t, u)
      PROVE  NoticesSound'
  <2>1. /\ UNCHANGED <<call, mailQueue, run, outbound, handed, late>>
        /\ taskIds \subseteq taskIds' /\ deletedTasks \subseteq deletedTasks'
    BY <1>1 DEF Notices!CreateTask, Notices!DeleteTask, Notices!RemoveAssignee, Notices!worker
  <2>2. /\ taskIds' \subseteq Task /\ deletedTasks' \subseteq taskIds'
        /\ assignees' \subseteq taskIds' \X User
    BY <1>0, <1>1 DEF Notices!CreateTask, Notices!DeleteTask, Notices!RemoveAssignee,
       Notices!LiveTasks, Notices!TypeOK
  <2>3. Notices!TypeOK'
    BY <1>0, <2>1, <2>2 DEF Notices!TypeOK, Notices!QueueTypeOK
  <2>4. \A j \in Mail : MailKept(j)
    BY <2>1 DEF MailKept
  <2> QED
    BY <1>0, <2>3, <2>4, MailKeptSound DEF NoticesSound
<1>2. ASSUME UNCHANGED notices PROVE NoticesSound'
  <2>1. Notices!TypeOK'
    BY <1>0, <1>2 DEF notices, Notices!TypeOK, Notices!QueueTypeOK
  <2>2. \A j \in Mail : MailKept(j)
    BY <1>2 DEF notices, MailKept
  <2> QED
    BY <1>0, <2>1, <2>2, MailKeptSound DEF NoticesSound
<1> QED
  BY <1>1, <1>2, CallSteps, WorkerSteps DEF Notices!Next

LEMMA NoticesAccount == NoticesSound => MailAccountedFor
<1> SUFFICES ASSUME NoticesSound PROVE MailAccountedFor
  OBVIOUS
<1> USE DEF NoticesSound, MailSound
<1>1. \A j \in Mail : outbound[j] \in Seq(MailStatus)
  BY DEF Notices!TypeOK, MailStatus
<1>2. Notices!HandedIsRecorded
  BY DEF MailRecorded, Notices!HandedIsRecorded
<1>3. Notices!SentWasHanded
  BY <1>1, NoticesRead DEF MailMarked, Notices!SentWasHanded
<1>4. Notices!RepeatsBounded
  BY DEF MailRepeated, Notices!RepeatsBounded
<1>5. Notices!NoLateNotice
  BY DEF CallInOrder, Notices!NoLateNotice, Notices!TypeOK
<1> QED
  BY <1>2, <1>3, <1>4, <1>5 DEF MailAccountedFor, Notices!MailAccountedFor

-----------------------------------------------------------------------------
(***************************************************************************)
(* The components together.                                                *)
(***************************************************************************)

CrmSound ==
    Typed /\ Explained /\ HooksSound /\ OfficesSound /\ RoutingSound /\ NoticesSound

\* The component in focus takes a step of its own, the others stand still.
LEMMA CrmMoves ==
  ASSUME [CrmNext]_crmVars
  PROVE  /\ [Next]_vars /\ [Hooks!Next]_hooks /\ [Offices!Next]_offices
         /\ [Routing!Next]_routing /\ [Notices!Next]_notices
  BY DEF CrmNext, crmVars, vars, hooks, offices, routing, notices

LEMMA CrmSoundInit == CrmInit => CrmSound
  BY InitTyped, InitExplained, HooksInit, OfficesInit, RoutingInit, NoticesInit
     DEF CrmInit, CrmSound

LEMMA CrmSoundStep == CrmSound /\ [CrmNext]_crmVars => CrmSound'
  BY CrmMoves, NextTyped, NextExplained, HooksStep, OfficesStep, RoutingStep, NoticesStep
     DEF CrmSound

LEMMA CrmIsSound == CrmSpec => []CrmSound
  BY CrmSoundInit, CrmSoundStep, PTL DEF CrmSpec

\* The process serves each component by that component's own handlers and workers:
\* whatever holds of one of them alone holds of it in the process.
THEOREM CrmImplementsItsComponents ==
    CrmSpec => Spec /\ Hooks!Spec /\ Offices!Spec /\ Routing!Spec /\ Notices!Spec
<1>1. CrmInit => Init /\ Hooks!Init /\ Offices!Init /\ Routing!Init /\ Notices!Init
  BY DEF CrmInit
<1>2. [CrmNext]_crmVars =>
          /\ [Next]_vars /\ [Hooks!Next]_(Hooks!vars) /\ [Offices!Next]_(Offices!vars)
          /\ [Routing!Next]_(Routing!vars) /\ [Notices!Next]_(Notices!vars)
  BY CrmMoves DEF hooks, Hooks!vars, Hooks!rows, offices, Offices!vars, routing, Routing!vars,
     Routing!worker, notices, Notices!vars, Notices!taskTable, Notices!worker
<1> QED
  BY <1>1, <1>2, PTL DEF CrmSpec, Spec, Hooks!Spec, Offices!Spec, Routing!Spec, Notices!Spec

\* Rows, keys, jobs and whatever a request or a worker remembers keep their types,
\* with no token beyond those drawn and no job beyond its attempts.
THEOREM EveryTypeCorrect == CrmSpec => []TypesOK
<1>1. CrmSound => TypesOK
  BY TypedSuffices
     DEF CrmSound, TypesOK, HooksSound, OfficesSound, RoutingSound, NoticesSound
<1> QED
  BY <1>1, CrmIsSound, PTL

\* The columns of a lead, as proved of LeadActivities alone, while the other
\* components run.
THEOREM ColumnsExplainedInCrm == CrmSpec => []ColumnsExplained
<1>1. CrmSound => ColumnsExplained
  BY ExplainedSuffices DEF CrmSound
<1> QED
  BY <1>1, CrmIsSound, PTL

\* For any number of webhooks and requests, and however creations, deletions and
\* regenerated tokens overlap: the token that a webhook's row holds has its key in
\* Redis once the requests about it are answered, unless one stopped before it set it.
THEOREM TheLiveTokensResolve == CrmSpec => []LiveTokensResolve
<1>1. CrmSound => LiveTokensResolve
  BY HooksResolve DEF CrmSound
<1> QED
  BY <1>1, CrmIsSound, PTL

\* The guard of deactivateBranch leaves a tenant without an active branch only when
\* the branch was not its head office, or another deactivation came in between.
THEOREM TheBranchRemains == CrmSpec => []BranchRemains
<1>1. CrmSound => BranchRemains
  BY DEF CrmSound, OfficesSound, BranchRemains
<1> QED
  BY <1>1, CrmIsSound, PTL

\* However often the job of a lead is retried or stalls: a run that completes has
\* told the owner it set, and no more agents were told than the job had runs.
THEOREM TheAssignmentIsAccountedFor == CrmSpec => []AssignmentAccountedFor
<1>1. CrmSound => AssignmentAccountedFor
  BY RoutingAccounts DEF CrmSound
<1> QED
  BY <1>1, CrmIsSound, PTL

\* However often a mail is retried or its worker stops: it is never handed over
\* without a row, nor marked sent without having been handed over, leaves at most
\* once per run, and is not queued for a task deleted before the assignment.
THEOREM TheMailIsAccountedFor == CrmSpec => []MailAccountedFor
<1>1. CrmSound => MailAccountedFor
  BY NoticesAccount DEF CrmSound
<1> QED
  BY <1>1, CrmIsSound, PTL

-----------------------------------------------------------------------------
(***************************************************************************)
(* The process itself, in which the components take their steps in any     *)
(* order, and which has every behaviour above but for the focus.           *)
(***************************************************************************)

together == <<vars, hooks, offices, routing, notices>>

LEMMA InterleavedMoves ==
  ASSUME [InterleavedNext]_together
  PROVE  /\ [Next]_vars /\ [Hooks!Next]_hooks /\ [Offices!Next]_offices
         /\ [Routing!Next]_routing /\ [Notices!Next]_notices
  BY DEF InterleavedNext, together, vars, hooks, offices, routing, notices

\* However the components' steps interleave, each behaves as it does alone.
THEOREM InterleavedImplementsItsComponents ==
    Interleaved => Spec /\ Hooks!Spec /\ Offices!Spec /\ Routing!Spec /\ Notices!Spec
<1>1. [InterleavedNext]_together =>
          /\ [Next]_vars /\ [Hooks!Next]_(Hooks!vars) /\ [Offices!Next]_(Offices!vars)
          /\ [Routing!Next]_(Routing!vars) /\ [Notices!Next]_(Notices!vars)
  BY InterleavedMoves DEF hooks, Hooks!vars, Hooks!rows, offices, Offices!vars, routing,
     Routing!vars, Routing!worker, notices, Notices!vars, Notices!taskTable, Notices!worker
<1> QED
  BY <1>1, PTL DEF Interleaved, together, Spec, Hooks!Spec, Offices!Spec, Routing!Spec,
     Notices!Spec

\* And the process keeps what each of them promises.
THEOREM InterleavedIsSound ==
    Interleaved => [](/\ TypesOK /\ ColumnsExplained /\ LiveTokensResolve /\ BranchRemains
                      /\ AssignmentAccountedFor /\ MailAccountedFor)
<1>1. /\ Init /\ Hooks!Init /\ Offices!Init /\ Routing!Init /\ Notices!Init
      => CrmSound
  BY InitTyped, InitExplained, HooksInit, OfficesInit, RoutingInit, NoticesInit DEF CrmSound
<1>2. CrmSound /\ [InterleavedNext]_together => CrmSound'
  BY InterleavedMoves, NextTyped, NextExplained, HooksStep, OfficesStep, RoutingStep,
     NoticesStep DEF CrmSound
<1>3. CrmSound => /\ TypesOK /\ ColumnsExplained /\ LiveTokensResolve /\ BranchRemains
                  /\ AssignmentAccountedFor /\ MailAccountedFor
  <2>1. CrmSound => TypesOK
    BY TypedSuffices
       DEF CrmSound, TypesOK, HooksSound, OfficesSound, RoutingSound, NoticesSound
  <2>2. CrmSound => BranchRemains
    BY DEF CrmSound, OfficesSound, BranchRemains
  <2> QED
    BY <2>1, <2>2, ExplainedSuffices, HooksResolve, RoutingAccounts, NoticesAccount DEF CrmSound
<1> QED
  BY <1>1, <1>2, <1>3, PTL DEF Interleaved, together
=============================================================================
