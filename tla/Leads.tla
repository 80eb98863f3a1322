------------------------------- MODULE Leads --------------------------------
(***************************************************************************)
(* The leads and contacts of one tenant: creating a lead finds or creates  *)
(* its contact, converting it settles the contact.                         *)
(*                                                                         *)
(* No handler uses a transaction and no unique key covers an e-mail, so    *)
(* every statement is a step of its own.  A refusal that writes nothing    *)
(* ends the request.  Rows are only ever marked deleted.                   *)
(***************************************************************************)
EXTENDS Naturals, FiniteSets

CONSTANTS
    Lead,      \* ids the Lead table may allocate
    Contact,   \* ids the Contact table may allocate
    Email,
    Request,   \* requests served at the same time
    NoLead, NoContact, NoEmail

ASSUME NullAssumption ==
    NoLead \notin Lead /\ NoContact \notin Contact /\ NoEmail \notin Email

ASSUME RequestAssumption == IsFiniteSet(Request)

ASSUME ContactAssumption == IsFiniteSet(Contact)

VARIABLES
    contacts,         \* ids of the contacts there are
    deletedContacts,  \* those whose deletedAt is set
    email,            \* email[c]: e-mail of the contact
    origin,           \* origin[c]: originLeadId of the contact
    automatic,        \* contacts with the e-mail that createLead gave them (no column)
    leads,            \* ids of the leads there are
    deletedLeads,     \* those whose deletedAt is set
    contactOf,        \* contactOf[l]: contactId of the lead
    conversions,      \* conversions[l]: how often convertedAt was set
    events,           \* leads announced by crm.lead.created
    request           \* request[r]: how far r has come and what it remembers

contactTable == <<contacts, deletedContacts, email, origin, automatic>>
leadTable == <<leads, deletedLeads, contactOf, conversions>>
vars == <<contactTable, leadTable, events, request>>

Step == {"idle",
         "contact", "lead", "origin", "event",  \* creating a lead
         "target", "convert"}                   \* converting one

Progress == [step : Step, lead : Lead \cup {NoLead}, contact : Contact \cup {NoContact},
             email : Email \cup {NoEmail}, isNewContact : BOOLEAN]

Serving(step, l, c, e, new) ==
    [step |-> step, lead |-> l, contact |-> c, email |-> e, isNewContact |-> new]

Idle == Serving("idle", NoLead, NoContact, NoEmail, FALSE)

TypeOK ==
    /\ contacts \subseteq Contact
    /\ deletedContacts \subseteq contacts /\ automatic \subseteq contacts
    /\ email \in [Contact -> Email \cup {NoEmail}]
    /\ origin \in [Contact -> Lead \cup {NoLead}]
    /\ leads \subseteq Lead /\ deletedLeads \subseteq leads
    /\ contactOf \in [Lead -> Contact \cup {NoContact}]
    /\ conversions \in [Lead -> Nat]
    /\ events \subseteq leads
    /\ request \in [Request -> Progress]

At(r, step) == request[r].step = step
Begin(r, progress) == request' = [request EXCEPT ![r] = progress]
Finish(r) == Begin(r, Idle)

LiveContacts == contacts \ deletedContacts
LiveLeads == leads \ deletedLeads
WithEmail(e) == {c \in LiveContacts : email[c] = e}

Init ==
    /\ contacts = {}
    /\ deletedContacts = {}
    /\ email = [c \in Contact |-> NoEmail]
    /\ origin = [c \in Contact |-> NoLead]
    /\ automatic = {}
    /\ leads = {}
    /\ deletedLeads = {}
    /\ contactOf = [l \in Lead |-> NoContact]
    /\ conversions = [l \in Lead |-> 0]
    /\ events = {}
    /\ request = [r \in Request |-> Idle]

-----------------------------------------------------------------------------
(***************************************************************************)
(* POST /leads.                                                            *)
(***************************************************************************)

\* Without an e-mail there is nothing to look for.
CreateLead(r) ==
    /\ At(r, "idle")
    /\ Begin(r, Serving("contact", NoLead, NoContact, NoEmail, FALSE))
    /\ UNCHANGED <<contactTable, leadTable, events>>

\* Mutant: what the look-up returns is not used.
FindByEmailBlind(r, e) ==
    /\ At(r, "idle")
    /\ Begin(r, Serving("contact", NoLead, NoContact, e, FALSE))
    /\ UNCHANGED <<contactTable, leadTable, events>>

\* findFirst: any of the contacts with that e-mail.
FindByEmail(r, e) ==
    /\ At(r, "idle")
    /\ IF WithEmail(e) = {}
       THEN Begin(r, Serving("contact", NoLead, NoContact, e, FALSE))
       ELSE \E c \in WithEmail(e) : Begin(r, Serving("lead", NoLead, c, NoEmail, FALSE))
    /\ UNCHANGED <<contactTable, leadTable, events>>

CreateContact(r, c) ==
    /\ At(r, "contact")
    /\ c \in Contact \ contacts
    /\ contacts' = contacts \cup {c}
    /\ email' = [email EXCEPT ![c] = request[r].email]
    /\ automatic' = automatic \cup {c}
    /\ Begin(r, Serving("lead", NoLead, c, NoEmail, TRUE))
    /\ UNCHANGED <<deletedContacts, origin, leadTable, events>>

\* Mutant: the handler returns early for a contact it found.
InsertLeadQuiet(r, l) ==
    /\ At(r, "lead")
    /\ l \in Lead \ leads
    /\ leads' = leads \cup {l}
    /\ contactOf' = [contactOf EXCEPT ![l] = request[r].contact]
    /\ IF request[r].isNewContact
       THEN Begin(r, Serving("origin", l, request[r].contact, NoEmail, FALSE))
       ELSE Finish(r)
    /\ UNCHANGED <<contactTable, deletedLeads, conversions, events>>

InsertLead(r, l) ==
    /\ At(r, "lead")
    /\ l \in Lead \ leads
    /\ leads' = leads \cup {l}
    /\ contactOf' = [contactOf EXCEPT ![l] = request[r].contact]
    /\ Begin(r, Serving(IF request[r].isNewContact THEN "origin" ELSE "event",
                        l, request[r].contact, NoEmail, FALSE))
    /\ UNCHANGED <<contactTable, deletedLeads, conversions, events>>

SetOriginLeadId(r) ==
    /\ At(r, "origin")
    /\ origin' = [origin EXCEPT ![request[r].contact] = request[r].lead]
    /\ Begin(r, Serving("event", request[r].lead, NoContact, NoEmail, FALSE))
    /\ UNCHANGED <<contacts, deletedContacts, email, automatic, leadTable, events>>

EmitCreated(r) ==
    /\ At(r, "event")
    /\ events' = events \cup {request[r].lead}
    /\ Finish(r)
    /\ UNCHANGED <<contactTable, leadTable>>

-----------------------------------------------------------------------------
(***************************************************************************)
(* POST /leads/:id/convert.                                                *)
(***************************************************************************)

\* Mutant: convertedAt is not looked at.
ConvertLeadAgain(r, l) ==
    /\ At(r, "idle")
    /\ l \in LiveLeads
    /\ Begin(r, Serving("convert", l, contactOf[l], NoEmail, FALSE))
    /\ UNCHANGED <<contactTable, leadTable, events>>

\* A lead always has a contact, so none is created here.
ConvertLead(r, l) ==
    /\ At(r, "idle")
    /\ l \in LiveLeads
    /\ conversions[l] = 0
    /\ Begin(r, Serving("convert", l, contactOf[l], NoEmail, FALSE))
    /\ UNCHANGED <<contactTable, leadTable, events>>

ConvertLeadTo(r, l, c) ==
    /\ At(r, "idle")
    /\ l \in LiveLeads
    /\ conversions[l] = 0
    /\ Begin(r, Serving("target", l, c, NoEmail, FALSE))
    /\ UNCHANGED <<contactTable, leadTable, events>>

CheckTarget(r) ==
    /\ At(r, "target")
    /\ IF request[r].contact \in LiveContacts
       THEN Begin(r, [request[r] EXCEPT !.step = "convert"])
       ELSE Finish(r)
    /\ UNCHANGED <<contactTable, leadTable, events>>

\* Mutant: the contact converted to is stamped as well.
ConvertStamps(r) ==
    /\ At(r, "convert")
    /\ contactOf' = [contactOf EXCEPT ![request[r].lead] = request[r].contact]
    /\ conversions' = [conversions EXCEPT ![request[r].lead] = @ + 1]
    /\ origin' = [origin EXCEPT ![request[r].contact] = request[r].lead]
    /\ Finish(r)
    /\ UNCHANGED <<contacts, deletedContacts, email, automatic, leads, deletedLeads, events>>

\* By id alone: convertedAt and deletedAt are not looked at again.
Convert(r) ==
    /\ At(r, "convert")
    /\ contactOf' = [contactOf EXCEPT ![request[r].lead] = request[r].contact]
    /\ conversions' = [conversions EXCEPT ![request[r].lead] = @ + 1]
    /\ Finish(r)
    /\ UNCHANGED <<contactTable, leads, deletedLeads, events>>

-----------------------------------------------------------------------------
(***************************************************************************)
(* DELETE /leads/:id; POST, PATCH and DELETE of /contacts.  The look-up    *)
(* before the write is in one step with it: a row that another request     *)
(* deletes between the two stays deleted, and no look-up returns it.       *)
(***************************************************************************)

DeleteLead(l) ==
    /\ l \in LiveLeads
    /\ deletedLeads' = deletedLeads \cup {l}
    /\ UNCHANGED <<contactTable, leads, contactOf, conversions, events, request>>

\* Nothing is looked up: a contact is created whatever its e-mail.
NewContact(c, e) ==
    /\ c \in Contact \ contacts
    /\ contacts' = contacts \cup {c}
    /\ email' = [email EXCEPT ![c] = e]
    /\ UNCHANGED <<deletedContacts, origin, automatic, leadTable, events, request>>

UpdateContact(c, e) ==
    /\ c \in LiveContacts
    /\ email' = [email EXCEPT ![c] = e]
    /\ automatic' = automatic \ {c}
    /\ UNCHANGED <<contacts, deletedContacts, origin, leadTable, events, request>>

\* The leads of the contact keep it.
DeleteContact(c) ==
    /\ c \in LiveContacts
    /\ deletedContacts' = deletedContacts \cup {c}
    /\ UNCHANGED <<contacts, email, origin, automatic, leadTable, events, request>>

\* The process serving r stops, or a statement of it fails.
Crash(r) ==
    /\ ~At(r, "idle")
    /\ Finish(r)
    /\ UNCHANGED <<contactTable, leadTable, events>>

-----------------------------------------------------------------------------
CreateNext(r) ==
    \/ CreateLead(r)
    \/ \E e \in Email : FindByEmail(r, e)
    \/ \E c \in Contact : CreateContact(r, c)
    \/ \E l \in Lead : InsertLead(r, l)
    \/ SetOriginLeadId(r)
    \/ EmitCreated(r)

ConvertNext(r) ==
    \/ \E l \in Lead : ConvertLead(r, l)
    \/ \E l \in Lead, c \in Contact : ConvertLeadTo(r, l, c)
    \/ CheckTarget(r)
    \/ Convert(r)

EditNext ==
    \/ \E l \in Lead : DeleteLead(l)
    \/ \E c \in Contact : DeleteContact(c)
    \/ \E c \in Contact, e \in Email \cup {NoEmail} : NewContact(c, e) \/ UpdateContact(c, e)

Next ==
    \/ EditNext
    \/ \E r \in Request : CreateNext(r) \/ ConvertNext(r) \/ Crash(r)

Spec == Init /\ [][Next]_vars

-----------------------------------------------------------------------------
(***************************************************************************)
(* Properties.                                                             *)
(***************************************************************************)

\* A lead with a known e-mail is linked to the contact that has it
\* (lead.service.ts:65-68): duplicates come only from requests that looked
\* before the first of them had created the contact.
DuplicatesBounded ==
    \A e \in Email :
        Cardinality(WithEmail(e) \cap automatic)
            + Cardinality({r \in Request : At(r, "contact") /\ request[r].email = e})
        <= Cardinality(Request)

\* A lead is converted once (lead.service.ts:187), but for the requests that
\* read it before the first conversion was written.
ConversionsBounded ==
    \A l \in Lead :
        conversions[l]
            + Cardinality({r \in Request : request[r].lead = l
                                           /\ request[r].step \in {"target", "convert"}})
        <= Cardinality(Request)

\* The lead a contact comes from was created with it, and stays with it until
\* converted (lead.service.ts:109-112, 221); two contacts never claim the same
\* lead, whatever the look-ups of overlapping requests found.
OriginTraceable ==
    /\ \A c \in Contact :
          origin[c] # NoLead =>
              /\ origin[c] \in leads
              /\ contactOf[origin[c]] = c \/ conversions[origin[c]] > 0
    /\ \A c, d \in Contact : origin[c] = origin[d] /\ c # d => origin[c] = NoLead

\* A lead that is not announced is one whose creation is still under way, or
\* was cut off by a crash (lead.service.ts:107-125).
Unannounced(l) ==
    /\ l \in leads \ events
    /\ \A r \in Request : request[r].lead = l => request[r].step \notin {"origin", "event"}

OnlyACrashSilences ==
    [][\A l \in Lead : Unannounced(l)' /\ ~Unannounced(l) => \E r \in Request : Crash(r)]_vars
=============================================================================
