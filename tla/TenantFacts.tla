----------------------------- MODULE TenantFacts -----------------------------
(***************************************************************************)
(* What the statements of the template, the seeds and the migrations have  *)
(* to do with each other.  No constant of an instance occurs in these      *)
(* facts: they are about the SQL of the repository, and TLC computes them. *)
(***************************************************************************)
EXTENDS TenantSchema

\* What a tenant that is active has at least, however old it is.
Oldest == Old(3)

SlugsBefore(statements, n) == UNION {statements[i].slugs : i \in 1 .. n - 1}

\* The template refers to, and works on, what it has made before, and makes
\* nothing twice.  It inserts no rows.
ASSUME TemplateFact ==
    /\ Len(Template) \in Nat \ {0} /\ DOMAIN Template = 1 .. Len(Template)
    /\ \A n \in DOMAIN Template :
           /\ Template[n].needs \subseteq Before(Template, n)
           /\ Template[n].on = "" \/ <<Template[n].on>> \in Before(Template, n)
           /\ Template[n].makes # {} /\ Template[n].makes \cap Before(Template, n) = {}
           /\ Template[n].slugs = {} /\ Template[n].roles = {} /\ Template[n].grants = {}

\* Older tenants have at least what Oldest says and nothing the template
\* does not make.
ASSUME OldFact ==
    /\ 3 \in 1 .. Len(Features) /\ MadeBy(TaskTables) \subseteq Everything
    /\ \A age \in 1 .. Len(Features) :
           /\ Oldest.objects \subseteq Old(age).objects /\ Old(age).objects \subseteq Everything
           /\ Oldest.grants \subseteq Old(age).grants
           /\ Old(age).grants \subseteq CoreRoles \X Old(age).slugs

\* A statement of a migration is guarded when it makes anything, needs what
\* the migration builds on or has made, and grants only to core roles what
\* the migration has inserted.  What it shares with the template needs no
\* more there than here.
ASSUME MigrationFact ==
    \A key \in Key :
        LET statements == Migrations[key] IN
        /\ Len(statements) \in Nat /\ DOMAIN statements = 1 .. Len(statements)
        /\ \A n \in DOMAIN statements :
               LET st == statements[n]
                   made == Before(statements, n)
               IN /\ st.guarded \/ st.makes = {}
                  /\ st.makes \subseteq Everything
                  /\ st.needs \subseteq made \cup UNION {MadeBy(Features[i]) : i \in BuildsOn[key]}
                  /\ st.on = "" \/ <<st.on>> \in Oldest.objects \cup made
                  /\ st.roles = {}
                  /\ st.grants \subseteq CoreRoles \X SlugsBefore(statements, n)
                  /\ \A i \in DOMAIN Template :
                         Template[i].makes \subseteq st.makes
                         => Template[i].needs \subseteq Oldest.objects \cup made

\* The migrations together make of the oldest tenant what the template is,
\* and give its roles what the routes demand and the READMEs document.
ASSUME UpgradeFact ==
    LET given == Oldest.grants \cup UNION {GivenBy(Migrations[key]) : key \in Key} IN
    /\ Everything \subseteq Oldest.objects \cup UNION {MadeBy(Migrations[key]) : key \in Key}
    /\ {"owner"} \X Demanded \subseteq given
    /\ \A x \in DOMAIN Documented : {x} \X Documented[x] \subseteq given
=============================================================================
