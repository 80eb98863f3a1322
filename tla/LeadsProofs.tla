----------------------------- MODULE LeadsProofs ----------------------------
(***************************************************************************)
(* For any leads, contacts, e-mails and finitely many requests: what Leads *)
(* promises of duplicates, conversions, origins and announcements.         *)
(***************************************************************************)
EXTENDS Leads, FiniteSetTheorems, TLAPS

\* What a request remembers suits the step it is at.
Fits(p) ==
    /\ p \in Progress
    /\ p.step \in {"lead", "origin"} => p.contact \in Contact
    /\ p.step \in {"origin", "event", "target", "convert"} => p.lead \in Lead

RequestsFit == request \in [Request -> Progress] /\ \A r \in Request : Fits(request[r])

\* A lead on its way to be announced is inserted.
InsertedLeads ==
    \A r \in Request : request[r].step \in {"origin", "event"} => request[r].lead \in leads

Typed == TypeOK /\ RequestsFit /\ InsertedLeads

LEMMA ServingFits ==
  ASSUME NEW step \in Step, NEW l \in Lead \cup {NoLead}, NEW c \in Contact \cup {NoContact},
         NEW e \in Email \cup {NoEmail}, NEW new \in BOOLEAN,
         step \in {"lead", "origin"} => c \in Contact,
         step \in {"origin", "event", "target", "convert"} => l \in Lead
  PROVE  Fits(Serving(step, l, c, e, new))
  BY DEF Fits, Serving, Progress

LEMMA IdleFits == Fits(Idle) /\ Idle.step = "idle" /\ Idle.lead = NoLead /\ Idle.email = NoEmail
  BY DEF Fits, Idle, Serving, Progress, Step

\* Only r moves, to the progress p.
LEMMA BeginMoves ==
  ASSUME RequestsFit, NEW r \in Request, NEW p, Fits(p), Begin(r, p)
  PROVE  /\ RequestsFit'
         /\ request'[r] = p
         /\ \A q \in Request \ {r} : request'[q] = request[q]
<1>1. /\ request' \in [Request -> Progress]
      /\ request'[r] = p
      /\ \A q \in Request \ {r} : request'[q] = request[q]
  BY DEF RequestsFit, Fits, Begin
<1>2. \A q \in Request : request'[q] = p \/ request'[q] = request[q]
  BY <1>1
<1> QED
  BY <1>1, <1>2 DEF RequestsFit

LEMMA FinishMoves ==
  ASSUME RequestsFit, NEW r \in Request, Finish(r)
  PROVE  /\ RequestsFit'
         /\ request'[r] = Idle
         /\ \A q \in Request \ {r} : request'[q] = request[q]
  BY BeginMoves, IdleFits DEF Finish

-----------------------------------------------------------------------------
(***************************************************************************)
(* Types.                                                                  *)
(***************************************************************************)

LEMMA InitTyped == Init => Typed
<1> SUFFICES ASSUME Init PROVE Typed
  OBVIOUS
<1>1. RequestsFit /\ InsertedLeads
  BY IdleFits DEF Init, RequestsFit, InsertedLeads, Fits
<1>2. TypeOK
  BY <1>1 DEF Init, TypeOK, RequestsFit
<1> QED
  BY <1>1, <1>2 DEF Typed

\* Where a request goes, the tables being left alone or only growing.
LEMMA CreateTyped ==
  ASSUME Typed, NEW r \in Request, CreateNext(r)
  PROVE  Typed'
<1> USE DEF Typed
<1>1. ASSUME CreateLead(r) PROVE Typed'
  <2>1. Fits(Serving("contact", NoLead, NoContact, NoEmail, FALSE))
    BY ServingFits DEF Step
  <2>2. RequestsFit' /\ InsertedLeads'
    BY <1>1, <2>1, BeginMoves DEF CreateLead, InsertedLeads, Serving, leadTable
  <2> QED
    BY <1>1, <2>2 DEF CreateLead, TypeOK, RequestsFit, contactTable, leadTable
<1>2. ASSUME NEW e \in Email, FindByEmail(r, e) PROVE Typed'
  <2>1. PICK step \in {"contact", "lead"}, c \in Contact \cup {NoContact}, f \in Email \cup {NoEmail} :
            /\ step = "lead" => c \in Contact
            /\ Begin(r, Serving(step, NoLead, c, f, FALSE))
    BY <1>2 DEF FindByEmail, TypeOK, WithEmail, LiveContacts
  <2>2. Fits(Serving(step, NoLead, c, f, FALSE))
    BY <2>1, ServingFits DEF Step
  <2>3. RequestsFit' /\ InsertedLeads'
    BY <1>2, <2>1, <2>2, BeginMoves DEF FindByEmail, InsertedLeads, Serving, leadTable
  <2> QED
    BY <1>2, <2>3 DEF FindByEmail, TypeOK, RequestsFit, contactTable, leadTable
<1>3. ASSUME NEW c \in Contact, CreateContact(r, c) PROVE Typed'
  <2>1. Fits(Serving("lead", NoLead, c, NoEmail, TRUE))
    BY ServingFits DEF Step
  <2>2. RequestsFit' /\ InsertedLeads'
    BY <1>3, <2>1, BeginMoves DEF CreateContact, InsertedLeads, Serving, leadTable
  <2>3. request[r].email \in Email \cup {NoEmail}
    BY DEF RequestsFit, Progress
  <2> QED
    BY <1>3, <2>2, <2>3 DEF CreateContact, TypeOK, RequestsFit, leadTable
<1>4. ASSUME NEW l \in Lead, InsertLead(r, l) PROVE Typed'
  <2>1. PICK step \in {"origin", "event"} :
            Begin(r, Serving(step, l, request[r].contact, NoEmail, FALSE))
    BY <1>4 DEF InsertLead
  <2>2. request[r].contact \in Contact
    BY <1>4 DEF InsertLead, At, RequestsFit, Fits
  <2>3. Fits(Serving(step, l, request[r].contact, NoEmail, FALSE))
    BY <2>2, ServingFits DEF Step
  <2>4. RequestsFit' /\ InsertedLeads'
    BY <1>4, <2>1, <2>3, BeginMoves DEF InsertLead, InsertedLeads, Serving
  <2> QED
    BY <1>4, <2>2, <2>4 DEF InsertLead, TypeOK, RequestsFit, contactTable
<1>5. ASSUME SetOriginLeadId(r) PROVE Typed'
  <2>1. request[r].lead \in Lead /\ request[r].lead \in leads /\ request[r].contact \in Contact
    BY <1>5 DEF SetOriginLeadId, At, RequestsFit, Fits, InsertedLeads
  <2>2. Fits(Serving("event", request[r].lead, NoContact, NoEmail, FALSE))
    BY <2>1, ServingFits DEF Step
  <2>3. RequestsFit' /\ InsertedLeads'
    BY <1>5, <2>1, <2>2, BeginMoves DEF SetOriginLeadId, InsertedLeads, Serving, leadTable
  <2> QED
    BY <1>5, <2>1, <2>3 DEF SetOriginLeadId, TypeOK, RequestsFit, leadTable
<1>6. ASSUME EmitCreated(r) PROVE Typed'
  <2>1. request[r].lead \in leads
    BY <1>6 DEF EmitCreated, At, InsertedLeads
  <2>2. RequestsFit' /\ InsertedLeads'
    BY <1>6, IdleFits, FinishMoves DEF EmitCreated, InsertedLeads, leadTable
  <2> QED
    BY <1>6, <2>1, <2>2 DEF EmitCreated, TypeOK, RequestsFit, contactTable, leadTable
<1> QED
  BY <1>1, <1>2, <1>3, <1>4, <1>5, <1>6 DEF CreateNext

LEMMA ConvertTyped ==
  ASSUME Typed, NEW r \in Request, ConvertNext(r) \/ Crash(r)
  PROVE  Typed'
<1> USE DEF Typed
<1>1. ASSUME NEW l \in Lead, ConvertLead(r, l) PROVE Typed'
  <2>1. contactOf[l] \in Contact \cup {NoContact}
    BY DEF TypeOK
  <2>2. Fits(Serving("convert", l, contactOf[l], NoEmail, FALSE))
    BY <2>1, ServingFits DEF Step
  <2>3. RequestsFit' /\ InsertedLeads'
    BY <1>1, <2>2, BeginMoves DEF ConvertLead, InsertedLeads, Serving, leadTable
  <2> QED
    BY <1>1, <2>3 DEF ConvertLead, TypeOK, RequestsFit, contactTable, leadTable
<1>2. ASSUME NEW l \in Lead, NEW c \in Contact, ConvertLeadTo(r, l, c) PROVE Typed'
  <2>1. Fits(Serving("target", l, c, NoEmail, FALSE))
    BY ServingFits DEF Step
  <2>2. RequestsFit' /\ InsertedLeads'
    BY <1>2, <2>1, BeginMoves DEF ConvertLeadTo, InsertedLeads, Serving, leadTable
  <2> QED
    BY <1>2, <2>2 DEF ConvertLeadTo, TypeOK, RequestsFit, contactTable, leadTable
<1>3. ASSUME CheckTarget(r) PROVE Typed'
  <2>1. Fits([request[r] EXCEPT !.step = "convert"])
        /\ [request[r] EXCEPT !.step = "convert"].step = "convert"
    BY <1>3 DEF CheckTarget, At, RequestsFit, Fits, Progress, Step
  <2>2. RequestsFit' /\ InsertedLeads'
    <3>1. CASE request[r].contact \in LiveContacts
      BY <1>3, <2>1, <3>1, BeginMoves DEF CheckTarget, InsertedLeads, leadTable
    <3>2. CASE request[r].contact \notin LiveContacts
      BY <1>3, <3>2, FinishMoves, IdleFits DEF CheckTarget, InsertedLeads, leadTable
    <3> QED
      BY <3>1, <3>2
  <2> QED
    BY <1>3, <2>2 DEF CheckTarget, TypeOK, RequestsFit, contactTable, leadTable
<1>4. ASSUME Convert(r) PROVE Typed'
  <2>1. request[r].lead \in Lead /\ request[r].contact \in Contact \cup {NoContact}
    BY <1>4 DEF Convert, At, RequestsFit, Fits, Progress
  <2>2. RequestsFit' /\ InsertedLeads'
    BY <1>4, FinishMoves, IdleFits DEF Convert, InsertedLeads
  <2> QED
    BY <1>4, <2>1, <2>2 DEF Convert, TypeOK, RequestsFit, contactTable
<1>5. ASSUME Crash(r) PROVE Typed'
  <2>1. RequestsFit' /\ InsertedLeads'
    BY <1>5, FinishMoves, IdleFits DEF Crash, InsertedLeads, leadTable
  <2> QED
    BY <1>5, <2>1 DEF Crash, TypeOK, RequestsFit, contactTable, leadTable
<1> QED
  BY <1>1, <1>2, <1>3, <1>4, <1>5 DEF ConvertNext

LEMMA EditTyped == Typed /\ EditNext => Typed'
<1> SUFFICES ASSUME Typed, EditNext PROVE Typed'
  OBVIOUS
<1> USE DEF Typed, TypeOK, RequestsFit, InsertedLeads
<1>1. ASSUME NEW l \in Lead, DeleteLead(l) PROVE Typed'
  BY <1>1 DEF DeleteLead, LiveLeads, contactTable
<1>2. ASSUME NEW c \in Contact, DeleteContact(c) PROVE Typed'
  BY <1>2 DEF DeleteContact, LiveContacts, leadTable
<1>3. ASSUME NEW c \in Contact, NEW e \in Email \cup {NoEmail}, NewContact(c, e) PROVE Typed'
  BY <1>3 DEF NewContact, leadTable
<1>4. ASSUME NEW c \in Contact, NEW e \in Email \cup {NoEmail}, UpdateContact(c, e) PROVE Typed'
  BY <1>4 DEF UpdateContact, leadTable
<1> QED
  BY <1>1, <1>2, <1>3, <1>4 DEF EditNext

LEMMA StutterTyped == Typed /\ UNCHANGED vars => Typed'
  BY DEF Typed, TypeOK, RequestsFit, InsertedLeads, vars, contactTable, leadTable

\* Types, and that a lead on its way to be announced is inserted.
THEOREM TypedAlways == Spec => []Typed
<1>1. Typed /\ [Next]_vars => Typed'
  BY CreateTyped, ConvertTyped, EditTyped, StutterTyped DEF Next
<1> QED
  BY <1>1, InitTyped, PTL DEF Spec

\* Whatever the requests write and remember, in any order, is of the type of
\* its column, and only inserted leads are announced.
THEOREM TypeCorrect == Spec => []TypeOK
<1>1. Typed => TypeOK
  BY DEF Typed
<1> QED
  BY <1>1, TypedAlways, PTL

-----------------------------------------------------------------------------
(***************************************************************************)
(* Announcements.                                                          *)
(***************************************************************************)

LEMMA OnlyRMoves ==
  ASSUME Typed, NEW r \in Request, CreateNext(r) \/ ConvertNext(r) \/ Crash(r)
  PROVE  \A q \in Request \ {r} : request'[q] = request[q]
  BY DEF Typed, RequestsFit, CreateNext, CreateLead, FindByEmail, CreateContact, InsertLead,
         SetOriginLeadId, EmitCreated, ConvertNext, ConvertLead, ConvertLeadTo, CheckTarget,
         Convert, Crash, Begin, Finish

LEMMA CreateAnnounces ==
  ASSUME Typed, NEW r \in Request, CreateNext(r), NEW l \in Lead, Unannounced(l)'
  PROVE  Unannounced(l)
<1>1. l \in leads' /\ l \notin events'
      /\ \A q \in Request : request'[q].lead = l => request'[q].step \notin {"origin", "event"}
  BY DEF Unannounced
<1>2. \A q \in Request \ {r} : request'[q] = request[q]
  BY OnlyRMoves
<1>3. request \in [Request -> Progress]
  BY DEF Typed, RequestsFit
<1>4. SUFFICES ASSUME l \in leads, l \notin events,
                      request[r].lead = l => request[r].step \notin {"origin", "event"}
               PROVE  Unannounced(l)
  <2>1. CASE CreateLead(r) \/ \E e \in Email : FindByEmail(r, e)
    BY <1>1, <2>1, <1>4 DEF CreateLead, FindByEmail, At, leadTable
  <2>2. CASE \E c \in Contact : CreateContact(r, c)
    BY <1>1, <2>2, <1>4 DEF CreateContact, At, leadTable
  <2>3. ASSUME NEW k \in Lead, InsertLead(r, k) PROVE l # k
    <3>1. request'[r].lead = k /\ request'[r].step \in {"origin", "event"}
      BY <2>3, <1>3 DEF InsertLead, Begin, Serving
    <3> QED
      BY <3>1, <1>1
  <2>4. CASE \E k \in Lead : InsertLead(r, k)
    BY <1>1, <2>3, <2>4, <1>4 DEF InsertLead, At
  <2>5. ASSUME SetOriginLeadId(r) PROVE request[r].lead # l
    <3>1. request'[r].lead = request[r].lead /\ request'[r].step = "event"
      BY <2>5, <1>3 DEF SetOriginLeadId, Begin, Serving
    <3> QED
      BY <3>1, <1>1
  <2>6. CASE SetOriginLeadId(r)
    BY <1>1, <2>5, <2>6, <1>4 DEF SetOriginLeadId, leadTable
  <2>7. CASE EmitCreated(r)
    BY <1>1, <2>7, <1>4 DEF EmitCreated, leadTable
  <2> QED
    BY <2>1, <2>2, <2>4, <2>6, <2>7 DEF CreateNext
<1> QED
  BY <1>1, <1>2, <1>4 DEF Unannounced

LEMMA ConvertAnnounces ==
  ASSUME Typed, NEW r \in Request, ConvertNext(r), NEW l \in Lead, Unannounced(l)'
  PROVE  Unannounced(l)
<1>1. \A q \in Request \ {r} : request'[q] = request[q]
  BY OnlyRMoves
<1>2. leads' = leads /\ events' = events /\ request[r].step \notin {"origin", "event"}
  BY DEF ConvertNext, ConvertLead, ConvertLeadTo, CheckTarget, Convert, At, leadTable
<1> QED
  BY <1>1, <1>2 DEF Unannounced

LEMMA EditAnnounces ==
  ASSUME EditNext \/ UNCHANGED vars, NEW l \in Lead, Unannounced(l)'
  PROVE  Unannounced(l)
<1>1. leads' = leads /\ events' = events /\ request' = request
  BY DEF EditNext, DeleteLead, DeleteContact, NewContact, UpdateContact, vars, leadTable
<1> QED
  BY <1>1 DEF Unannounced

\* Only a crash leaves a lead inserted that nobody is about to announce,
\* however many creations, conversions and deletions overlap.
THEOREM CrashAloneSilences == Spec => OnlyACrashSilences
<1>1. ASSUME Typed, [Next]_vars, NEW l \in Lead, Unannounced(l)', ~Unannounced(l)
      PROVE  \E r \in Request : Crash(r)
  BY <1>1, CreateAnnounces, ConvertAnnounces, EditAnnounces DEF Next
<1>2. Typed /\ [Next]_vars
        => [\A l \in Lead : Unannounced(l)' /\ ~Unannounced(l)
                => \E r \in Request : Crash(r)]_vars
  BY <1>1
<1> QED
  BY <1>2, TypedAlways, PTL DEF Spec, OnlyACrashSilences

-----------------------------------------------------------------------------
(***************************************************************************)
(* Origins.                                                                *)
(***************************************************************************)

\* A request about to stamp a contact has the only claim on its lead.
StampsSound ==
    /\ \A r \in Request : At(r, "origin") =>
          /\ contactOf[request[r].lead] = request[r].contact \/ conversions[request[r].lead] > 0
          /\ \A c \in Contact : origin[c] # request[r].lead
    /\ \A r, s \in Request :
          At(r, "origin") /\ At(s, "origin") /\ request[r].lead = request[s].lead => r = s

OriginInv == OriginTraceable /\ StampsSound

\* Steps that link no lead, stamp no contact and start no stamping.
LEMMA OriginKept ==
  ASSUME Typed, OriginInv,
         UNCHANGED <<origin, contactOf, conversions>>, leads \subseteq leads',
         \A q \in Request : request'[q].step = "origin" => request'[q] = request[q]
  PROVE  OriginInv'
  BY DEF Typed, TypeOK, OriginInv, OriginTraceable, StampsSound, At

LEMMA InsertLeadOrigin ==
  ASSUME Typed, OriginInv, NEW r \in Request, NEW l \in Lead, InsertLead(r, l)
  PROVE  OriginInv'
<1>1. /\ request'[r].step = "origin" => request'[r].lead = l /\ request'[r].contact = request[r].contact
      /\ \A q \in Request \ {r} : request'[q] = request[q]
  BY DEF InsertLead, Typed, RequestsFit, Begin, Serving
<1>2. /\ l \notin leads /\ leads' = leads \cup {l}
      /\ contactOf' = [contactOf EXCEPT ![l] = request[r].contact]
      /\ UNCHANGED <<origin, conversions>>
  BY DEF InsertLead, contactTable
<1>3. \A c \in Contact : origin[c] # l
  BY <1>2, NullAssumption DEF OriginInv, OriginTraceable
<1>4. \A q \in Request : request[q].step = "origin" => request[q].lead \in leads /\ request[q].lead # l
  BY <1>2 DEF Typed, InsertedLeads
<1>5. OriginTraceable'
  BY <1>2, <1>3 DEF OriginInv, OriginTraceable, Typed, TypeOK
<1>6. StampsSound'
  BY <1>1, <1>2, <1>3, <1>4 DEF OriginInv, StampsSound, Typed, TypeOK, At
<1> QED
  BY <1>5, <1>6 DEF OriginInv

LEMMA SetOriginOrigin ==
  ASSUME Typed, OriginInv, NEW r \in Request, SetOriginLeadId(r)
  PROVE  OriginInv'
<1> DEFINE l == request[r].lead
           c == request[r].contact
<1>1. /\ request'[r].step = "event"
      /\ \A q \in Request \ {r} : request'[q] = request[q]
  BY DEF SetOriginLeadId, Typed, RequestsFit, Begin, Serving
<1>2. /\ l \in leads /\ l \in Lead /\ c \in Contact
      /\ origin' = [origin EXCEPT ![c] = l]
      /\ UNCHANGED <<leads, contactOf, conversions>>
  BY DEF SetOriginLeadId, Typed, RequestsFit, InsertedLeads, Fits, At, leadTable
<1>3. /\ contactOf[l] = c \/ conversions[l] > 0
      /\ \A d \in Contact : origin[d] # l
      /\ \A q \in Request : At(q, "origin") /\ request[q].lead = l => q = r
  BY DEF SetOriginLeadId, OriginInv, StampsSound
<1>4. OriginTraceable'
  BY <1>2, <1>3 DEF OriginInv, OriginTraceable, Typed, TypeOK
<1>5. StampsSound'
  BY <1>1, <1>2, <1>3 DEF OriginInv, StampsSound, Typed, TypeOK, At
<1> QED
  BY <1>4, <1>5 DEF OriginInv

LEMMA ConvertOrigin ==
  ASSUME Typed, OriginInv, NEW r \in Request, Convert(r)
  PROVE  OriginInv'
<1>1. /\ request'[r].step = "idle"
      /\ \A q \in Request \ {r} : request'[q] = request[q]
  BY FinishMoves, IdleFits DEF Convert, Typed
<1>2. request[r].lead \in Lead
  BY DEF Convert, Typed, RequestsFit, Fits, At
<1>3. /\ \A k \in Lead : conversions'[k] > 0 \/ (contactOf'[k] = contactOf[k] /\ conversions'[k] = conversions[k])
      /\ UNCHANGED <<origin, leads>>
  BY <1>2 DEF Convert, Typed, TypeOK, contactTable
<1>4. \A q \in Request : request[q].step = "origin" => request[q].lead \in Lead
  BY DEF Typed, RequestsFit, Fits
<1>5. OriginTraceable'
  BY <1>3 DEF OriginInv, OriginTraceable, Typed, TypeOK
<1>6. StampsSound'
  BY <1>1, <1>3, <1>4 DEF OriginInv, StampsSound, Typed, TypeOK, At
<1> QED
  BY <1>5, <1>6 DEF OriginInv

LEMMA StepOrigin == Typed /\ OriginInv /\ [Next]_vars => OriginInv'
<1> SUFFICES ASSUME Typed, OriginInv, [Next]_vars PROVE OriginInv'
  OBVIOUS
<1>1. ASSUME NEW r \in Request,
             \/ CreateLead(r) \/ CheckTarget(r) \/ EmitCreated(r) \/ Crash(r)
             \/ \E e \in Email : FindByEmail(r, e)
             \/ \E c \in Contact : CreateContact(r, c)
             \/ \E l \in Lead : ConvertLead(r, l)
             \/ \E l \in Lead, c \in Contact : ConvertLeadTo(r, l, c)
      PROVE  OriginInv'
  <2>1. UNCHANGED <<origin, contactOf, conversions, leads>>
    BY <1>1 DEF CreateLead, CheckTarget, EmitCreated, Crash, FindByEmail, CreateContact,
                ConvertLead, ConvertLeadTo, contactTable, leadTable
  <2>2. request'[r].step # "origin"
    BY <1>1 DEF Typed, RequestsFit, Progress, CreateLead, CheckTarget, EmitCreated, Crash, FindByEmail,
                CreateContact, ConvertLead, ConvertLeadTo, Begin, Finish, Serving, Idle
  <2>3. \A q \in Request \ {r} : request'[q] = request[q]
    BY <1>1, OnlyRMoves DEF CreateNext, ConvertNext
  <2> QED
    BY <2>1, <2>2, <2>3, OriginKept
<1>2. CASE EditNext \/ UNCHANGED vars
  <2>1. UNCHANGED <<origin, contactOf, conversions, leads, request>>
    BY <1>2 DEF EditNext, DeleteLead, DeleteContact, NewContact, UpdateContact,
                vars, contactTable, leadTable
  <2> QED
    BY <2>1, OriginKept
<1> QED
  BY <1>1, <1>2, InsertLeadOrigin, SetOriginOrigin, ConvertOrigin DEF Next, CreateNext, ConvertNext

\* A stamped contact is the one its lead was created with, until converted,
\* and no two contacts claim the same lead, however creations overlap.
THEOREM OriginTraceableAlways == Spec => []OriginTraceable
<1>1. Init => OriginInv
  BY DEF Init, OriginInv, OriginTraceable, StampsSound, At, Idle, Serving
<1>2. OriginInv => OriginTraceable
  BY DEF OriginInv
<1> QED
  BY <1>1, <1>2, StepOrigin, TypedAlways, PTL DEF Spec

-----------------------------------------------------------------------------
(***************************************************************************)
(* Bounds.                                                                 *)
(***************************************************************************)

LEMMA Smaller ==
  ASSUME NEW S, NEW T \in SUBSET S, IsFiniteSet(S)
  PROVE  /\ IsFiniteSet(T)
         /\ Cardinality(T) \in Nat /\ Cardinality(S) \in Nat
         /\ Cardinality(T) <= Cardinality(S)
  BY FS_Subset, FS_CardinalityType

Converting(l) == {r \in Request : request[r].lead = l /\ request[r].step \in {"target", "convert"}}

LEMMA ConvertingFinite ==
  ASSUME NEW l
  PROVE  /\ IsFiniteSet(Converting(l)) /\ Cardinality(Converting(l)) \in Nat
         /\ Cardinality(Converting(l)) <= Cardinality(Request) /\ Cardinality(Request) \in Nat
  BY Smaller, RequestAssumption DEF Converting

LEMMA ConversionsByLead ==
  ConversionsBounded <=>
    \A l \in Lead : conversions[l] + Cardinality(Converting(l)) <= Cardinality(Request)
  BY DEF ConversionsBounded, Converting

\* No request starts to convert l, and none converts it.
LEMMA FewerConverting ==
  ASSUME Typed, ConversionsBounded, NEW l \in Lead, conversions'[l] = conversions[l],
         Converting(l)' \subseteq Converting(l)
  PROVE  conversions'[l] + Cardinality(Converting(l)') <= Cardinality(Request)
<1>1. Cardinality(Converting(l)') <= Cardinality(Converting(l))
      /\ Cardinality(Converting(l)') \in Nat
  BY ConvertingFinite, Smaller
<1>2. conversions[l] \in Nat /\ conversions[l] + Cardinality(Converting(l)) <= Cardinality(Request)
  BY ConversionsByLead DEF Typed, TypeOK
<1> QED
  BY <1>1, <1>2, ConvertingFinite

LEMMA BeginsToConvert ==
  ASSUME Typed, ConversionsBounded, NEW r \in Request, NEW k \in Lead,
         ConvertLead(r, k) \/ \E c \in Contact : ConvertLeadTo(r, k, c), NEW l \in Lead
  PROVE  conversions'[l] + Cardinality(Converting(l)') <= Cardinality(Request)
<1>1. conversions[k] = 0 /\ conversions' = conversions
  BY DEF ConvertLead, ConvertLeadTo, leadTable
<1>2. CASE l = k
  <2>1. Cardinality(Converting(l)') \in Nat /\ Cardinality(Converting(l)') <= Cardinality(Request)
    <3>1. Converting(l)' \in SUBSET Request
      BY DEF Converting
    <3> QED
      BY <3>1, Smaller, RequestAssumption
  <2> QED
    BY <1>1, <1>2, <2>1, ConvertingFinite
<1>3. CASE l # k
  <2>1. request'[r].lead = k
    BY DEF ConvertLead, ConvertLeadTo, Begin, Serving, Typed, RequestsFit
  <2>2. \A q \in Request \ {r} : request'[q] = request[q]
    BY OnlyRMoves DEF ConvertNext
  <2>3. Converting(l)' \subseteq Converting(l)
    BY <1>3, <2>1, <2>2 DEF Converting
  <2> QED
    BY <1>1, <2>3, FewerConverting
<1> QED
  BY <1>2, <1>3

LEMMA Converts ==
  ASSUME Typed, ConversionsBounded, NEW r \in Request, Convert(r), NEW l \in Lead
  PROVE  conversions'[l] + Cardinality(Converting(l)') <= Cardinality(Request)
<1>1. /\ request'[r].step = "idle"
      /\ \A q \in Request \ {r} : request'[q] = request[q]
  BY FinishMoves, IdleFits DEF Convert, Typed
<1>2. Converting(l)' = Converting(l) \ {r}
  BY <1>1 DEF Converting
<1>3. CASE l = request[r].lead
  <2>1. conversions'[l] = conversions[l] + 1 /\ conversions[l] \in Nat
    BY <1>3 DEF Convert, Typed, TypeOK
  <2>2. r \in Converting(l)
    BY <1>3 DEF Convert, At, Converting
  <2>3. Cardinality(Converting(l)') = Cardinality(Converting(l)) - 1
    BY <1>2, <2>2, ConvertingFinite, FS_RemoveElement
  <2>4. conversions[l] + Cardinality(Converting(l)) <= Cardinality(Request)
    BY ConversionsByLead
  <2> QED
    BY <2>1, <2>3, <2>4, ConvertingFinite
<1>4. CASE l # request[r].lead
  BY <1>2, <1>4, FewerConverting DEF Convert, Typed, TypeOK
<1> QED
  BY <1>3, <1>4

LEMMA StepConversions == Typed /\ ConversionsBounded /\ [Next]_vars => ConversionsBounded'
<1> SUFFICES ASSUME Typed, ConversionsBounded, [Next]_vars, NEW l \in Lead
             PROVE  conversions'[l] + Cardinality(Converting(l)') <= Cardinality(Request)
  BY DEF ConversionsBounded, Converting
<1>1. ASSUME NEW r \in Request, CreateNext(r) \/ CheckTarget(r) \/ Crash(r)
      PROVE  conversions' = conversions /\ Converting(l)' \subseteq Converting(l)
  <2>1. conversions' = conversions
    BY <1>1 DEF CreateNext, CreateLead, FindByEmail, CreateContact, InsertLead, SetOriginLeadId,
                EmitCreated, CheckTarget, Crash, leadTable
  <2>2. \A q \in Request \ {r} : request'[q] = request[q]
    BY <1>1, OnlyRMoves DEF ConvertNext
  <2>3. request'[r].step \in {"target", "convert"}
          => request'[r].lead = request[r].lead /\ request[r].step \in {"target", "convert"}
    <3>1. CASE CreateNext(r) \/ Crash(r)
      BY <3>1 DEF Typed, RequestsFit, CreateNext, CreateLead, FindByEmail, CreateContact, InsertLead,
                  SetOriginLeadId, EmitCreated, Crash, Begin, Finish, Serving, Idle
    <3>2. CASE CheckTarget(r)
      BY <3>2 DEF Typed, RequestsFit, Progress, CheckTarget, At, Begin, Finish, Serving, Idle
    <3> QED
      BY <1>1, <3>1, <3>2
  <2> QED
    BY <2>1, <2>2, <2>3 DEF Converting
<1>2. CASE EditNext \/ UNCHANGED vars
  <2>1. UNCHANGED <<conversions, request>>
    BY <1>2 DEF EditNext, DeleteLead, DeleteContact, NewContact, UpdateContact, vars, leadTable
  <2>2. Converting(l)' = Converting(l)
    BY <2>1 DEF Converting
  <2> QED
    BY <2>1, <2>2, FewerConverting
<1> QED
  BY <1>1, <1>2, FewerConverting, BeginsToConvert, Converts DEF Next, ConvertNext

\* A lead is never converted more often than requests overlap.
THEOREM ConversionsBoundedAlways == Spec => []ConversionsBounded
<1>1. ASSUME Init PROVE ConversionsBounded
  <2>1. \A l \in Lead : conversions[l] = 0
    BY <1>1 DEF Init
  <2> QED
    BY <2>1, ConversionsByLead, ConvertingFinite
<1> QED
  BY <1>1, StepConversions, TypedAlways, PTL DEF Spec

-----------------------------------------------------------------------------
Automatic(e) == WithEmail(e) \cap automatic
Looking(e) == {r \in Request : At(r, "contact") /\ request[r].email = e}

LEMMA CountsFinite ==
  ASSUME Typed, NEW e
  PROVE  /\ IsFiniteSet(Automatic(e)) /\ Cardinality(Automatic(e)) \in Nat
         /\ IsFiniteSet(Looking(e)) /\ Cardinality(Looking(e)) \in Nat
         /\ Cardinality(Looking(e)) <= Cardinality(Request) /\ Cardinality(Request) \in Nat
<1>1. Automatic(e) \in SUBSET Contact /\ Looking(e) \in SUBSET Request
  BY DEF Automatic, WithEmail, LiveContacts, Looking, Typed, TypeOK
<1> QED
  BY <1>1, Smaller, RequestAssumption, ContactAssumption

LEMMA DuplicatesByEmail ==
  DuplicatesBounded <=>
    \A e \in Email : Cardinality(Automatic(e)) + Cardinality(Looking(e)) <= Cardinality(Request)
  BY DEF DuplicatesBounded, Automatic, Looking

\* Neither a contact created for e nor a request about to create one comes in.
LEMMA FewerDuplicates ==
  ASSUME Typed, DuplicatesBounded, NEW e \in Email,
         Automatic(e)' \subseteq Automatic(e), Looking(e)' \subseteq Looking(e)
  PROVE  Cardinality(Automatic(e)') + Cardinality(Looking(e)') <= Cardinality(Request)
<1>1. /\ Cardinality(Automatic(e)') <= Cardinality(Automatic(e)) /\ Cardinality(Automatic(e)') \in Nat
      /\ Cardinality(Looking(e)') <= Cardinality(Looking(e)) /\ Cardinality(Looking(e)') \in Nat
  BY CountsFinite, Smaller
<1>2. Cardinality(Automatic(e)) + Cardinality(Looking(e)) <= Cardinality(Request)
  BY DuplicatesByEmail
<1> QED
  BY <1>1, <1>2, CountsFinite

LEMMA LooksForContact ==
  ASSUME Typed, DuplicatesBounded, NEW r \in Request, NEW f \in Email, FindByEmail(r, f),
         NEW e \in Email
  PROVE  Cardinality(Automatic(e)') + Cardinality(Looking(e)') <= Cardinality(Request)
<1>1. Automatic(e)' = Automatic(e)
  BY DEF FindByEmail, contactTable, Automatic, WithEmail, LiveContacts
<1>2. \A q \in Request \ {r} : request'[q] = request[q]
  BY OnlyRMoves DEF CreateNext
<1>3. CASE e = f /\ WithEmail(f) = {}
  <2>1. Cardinality(Automatic(e)') = 0
    BY <1>1, <1>3, FS_EmptySet DEF Automatic
  <2>2. Looking(e)' \in SUBSET Request
    BY DEF Looking
  <2> QED
    BY <2>1, <2>2, Smaller, RequestAssumption
<1>4. CASE ~(e = f /\ WithEmail(f) = {})
  <2>1. request'[r].step = "contact" => request'[r].email # e
    BY <1>4 DEF FindByEmail, Begin, Serving, Typed, RequestsFit
  <2>2. Looking(e)' \subseteq Looking(e)
    BY <1>2, <2>1 DEF Looking, At
  <2> QED
    BY <1>1, <2>2, FewerDuplicates
<1> QED
  BY <1>3, <1>4

LEMMA CreatesContact ==
  ASSUME Typed, DuplicatesBounded, NEW r \in Request, NEW c \in Contact, CreateContact(r, c),
         NEW e \in Email
  PROVE  Cardinality(Automatic(e)') + Cardinality(Looking(e)') <= Cardinality(Request)
<1>1. /\ request'[r].step = "lead"
      /\ \A q \in Request \ {r} : request'[q] = request[q]
  <2>1. request'[r].step = "lead"
    BY DEF CreateContact, Begin, Serving, Typed, RequestsFit
  <2> QED
    BY <2>1, OnlyRMoves DEF CreateNext
<1>2. Looking(e)' = Looking(e) \ {r}
  BY <1>1 DEF Looking, At
<1>3. /\ c \notin contacts /\ contacts' = contacts \cup {c} /\ deletedContacts' = deletedContacts
      /\ email' = [email EXCEPT ![c] = request[r].email] /\ automatic' = automatic \cup {c}
  BY DEF CreateContact
<1>4. Automatic(e)' \subseteq Automatic(e) \cup {c}
  BY <1>3 DEF Automatic, WithEmail, LiveContacts, Typed, TypeOK
<1>5. CASE request[r].email = e
  <2>1. r \in Looking(e)
    BY <1>5 DEF CreateContact, Looking
  <2>2. Cardinality(Looking(e)') = Cardinality(Looking(e)) - 1
    BY <1>2, <2>1, CountsFinite, FS_RemoveElement
  <2>3. /\ IsFiniteSet(Automatic(e) \cup {c})
        /\ Cardinality(Automatic(e) \cup {c}) <= Cardinality(Automatic(e)) + 1
    <3>1. IsFiniteSet(Automatic(e)) /\ Cardinality(Automatic(e)) \in Nat
      BY CountsFinite
    <3> QED
      BY <3>1, FS_AddElement
  <2>4. /\ Cardinality(Automatic(e)') <= Cardinality(Automatic(e) \cup {c})
        /\ Cardinality(Automatic(e)') \in Nat /\ Cardinality(Automatic(e) \cup {c}) \in Nat
    BY <1>4, <2>3, Smaller
  <2>5. Cardinality(Automatic(e)) + Cardinality(Looking(e)) <= Cardinality(Request)
    BY DuplicatesByEmail
  <2> QED
    BY <2>2, <2>3, <2>4, <2>5, CountsFinite
<1>6. CASE request[r].email # e
  <2>1. Automatic(e)' \subseteq Automatic(e)
    BY <1>3, <1>4, <1>6 DEF Automatic, WithEmail, Typed, TypeOK
  <2> QED
    BY <1>2, <2>1, FewerDuplicates
<1> QED
  BY <1>5, <1>6

LEMMA StepDuplicates == Typed /\ DuplicatesBounded /\ [Next]_vars => DuplicatesBounded'
<1> SUFFICES ASSUME Typed, DuplicatesBounded, [Next]_vars, NEW e \in Email
             PROVE  Cardinality(Automatic(e)') + Cardinality(Looking(e)') <= Cardinality(Request)
  BY DEF DuplicatesBounded, Automatic, Looking
<1>1. ASSUME NEW r \in Request,
             \/ CreateLead(r) \/ SetOriginLeadId(r) \/ EmitCreated(r) \/ ConvertNext(r) \/ Crash(r)
             \/ \E l \in Lead : InsertLead(r, l)
      PROVE  Automatic(e)' = Automatic(e) /\ Looking(e)' \subseteq Looking(e)
  <2>1. UNCHANGED <<contacts, deletedContacts, email, automatic>>
    BY <1>1 DEF CreateLead, InsertLead, SetOriginLeadId, EmitCreated, ConvertNext, ConvertLead,
                ConvertLeadTo, CheckTarget, Convert, Crash, contactTable
  <2>2. \A q \in Request \ {r} : request'[q] = request[q]
    BY <1>1, OnlyRMoves DEF CreateNext
  <2>3. request'[r].step = "contact" => request'[r].email = NoEmail
    BY <1>1 DEF Typed, RequestsFit, Progress, CreateLead, InsertLead, SetOriginLeadId, EmitCreated,
                ConvertNext, ConvertLead, ConvertLeadTo, CheckTarget, Convert, Crash,
                Begin, Finish, Serving, Idle
  <2> QED
    BY <2>1, <2>2, <2>3, NullAssumption DEF Automatic, WithEmail, LiveContacts, Looking, At
<1>2. CASE EditNext \/ UNCHANGED vars
  <2>1. Looking(e)' = Looking(e)
    BY <1>2 DEF EditNext, DeleteLead, DeleteContact, NewContact, UpdateContact, vars, Looking, At
  <2>2. Automatic(e)' \subseteq Automatic(e)
    BY <1>2 DEF EditNext, DeleteLead, DeleteContact, NewContact, UpdateContact, vars, contactTable,
                Automatic, WithEmail, LiveContacts, Typed, TypeOK
  <2> QED
    BY <2>1, <2>2, FewerDuplicates
<1> QED
  BY <1>1, <1>2, FewerDuplicates, LooksForContact, CreatesContact DEF Next, CreateNext

\* An e-mail never has more contacts made for it than requests overlap.
THEOREM DuplicatesBoundedAlways == Spec => []DuplicatesBounded
<1>1. ASSUME Init PROVE DuplicatesBounded
  <2>1. \A e \in Email : Automatic(e) = {} /\ Looking(e) = {}
    BY <1>1 DEF Init, Automatic, WithEmail, LiveContacts, Looking, At, Idle, Serving
  <2>2. Cardinality(Request) \in Nat
    BY RequestAssumption, FS_CardinalityType
  <2> QED
    BY <2>1, <2>2, DuplicatesByEmail, FS_EmptySet
<1> QED
  BY <1>1, StepDuplicates, TypedAlways, PTL DEF Spec
=============================================================================
