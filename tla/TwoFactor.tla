----------------------------- MODULE TwoFactor -----------------------------
(***************************************************************************)
(* Two-factor authentication of the auth service: the three columns of the *)
(* user row (enabled, secret, backup codes) and the handlers that rewrite  *)
(* them.                                                                   *)
(*                                                                         *)
(* Every handler reads the row, judges the code it was given against what  *)
(* it read, and then overwrites all three columns: between the two         *)
(* another request may have done the same.  A handler that refuses, and a  *)
(* login completed with a TOTP code, write nothing and have no action; the *)
(* tokens a completed login mints are the subject of RefreshRotation.      *)
(***************************************************************************)
EXTENDS Naturals, FiniteSets

CONSTANTS
    User,
    Secret,       \* TOTP secrets that can be generated
    Batch,        \* batches of backup codes that can be generated
    CodeCount,    \* BACKUP_CODE_COUNT
    Request,      \* requests served at the same time
    NoUser, NoSecret, NoCode

\* The codes of a batch are told apart by their position in it.
Code == [batch : Batch, n : 1 .. CodeCount]

CodesOf(b) == [batch : {b}, n : 1 .. CodeCount]

VARIABLES
    twoFactor,  \* twoFactor[u]: the three columns
    issued,     \* the pairs of secret and batch handed out to a user
    proven,     \* the secrets a user has shown a TOTP code of
    accepted,   \* accepted[c]: logins let in with backup code c
    request     \* request[r]: how far r has come and the row it read

vars == <<twoFactor, issued, proven, accepted, request>>

Row == [enabled : BOOLEAN, secret : Secret \cup {NoSecret}, codes : SUBSET Code]

Columns(e, s, C) == [enabled |-> e, secret |-> s, codes |-> C]

Off == Columns(FALSE, NoSecret, {})

Issue == [user : User, secret : Secret, batch : Batch]
Proof == [user : User, secret : Secret]

Step == {"idle", "setup", "confirm", "disable", "consume", "regenerate"}

Progress == [step : Step, user : User \cup {NoUser}, read : Row,
             code : Code \cup {NoCode}]

Serving(step, u, row, c) == [step |-> step, user |-> u, read |-> row, code |-> c]

Idle == Serving("idle", NoUser, Off, NoCode)

TypeOK ==
    /\ twoFactor \in [User -> Row]
    /\ issued \subseteq Issue
    /\ proven \subseteq Proof
    /\ accepted \in [Code -> Nat]
    /\ request \in [Request -> Progress]

At(r, step) == request[r].step = step
Begin(r, progress) == request' = [request EXCEPT ![r] = progress]
Finish(r) == Begin(r, Idle)
Read(r) == request[r].read

UsedSecrets == {i.secret : i \in issued}
UsedBatches == {i.batch : i \in issued}

\* set2FA writes the three columns whatever they hold by now.
Set2FA(r, row) == twoFactor' = [twoFactor EXCEPT ![request[r].user] = row]

Init ==
    /\ twoFactor = [u \in User |-> Off]
    /\ issued = {}
    /\ proven = {}
    /\ accepted = [c \in Code |-> 0]
    /\ request = [r \in Request |-> Idle]

-----------------------------------------------------------------------------
BeginSetup(r, u) ==
    /\ At(r, "idle")
    /\ ~twoFactor[u].enabled
    /\ Begin(r, Serving("setup", u, twoFactor[u], NoCode))
    /\ UNCHANGED <<twoFactor, issued, proven, accepted>>

\* A fresh secret and fresh codes replace what was there; 2FA stays off
\* until a code of the secret is shown.
StoreSetup(r, s, b) ==
    /\ At(r, "setup")
    /\ s \notin UsedSecrets /\ b \notin UsedBatches
    /\ Set2FA(r, Columns(FALSE, s, CodesOf(b)))
    /\ issued' = issued \cup {[user |-> request[r].user, secret |-> s, batch |-> b]}
    /\ Finish(r)
    /\ UNCHANGED <<proven, accepted>>

\* The code is checked against the secret just read.
ConfirmSetup(r, u) ==
    /\ At(r, "idle")
    /\ ~twoFactor[u].enabled
    /\ twoFactor[u].secret # NoSecret
    /\ proven' = proven \cup {[user |-> u, secret |-> twoFactor[u].secret]}
    /\ Begin(r, Serving("confirm", u, twoFactor[u], NoCode))
    /\ UNCHANGED <<twoFactor, issued, accepted>>

\* Mutation: the handler switches on whatever secret the row holds by now.
EnableCurrent(r) ==
    /\ At(r, "confirm")
    /\ Set2FA(r, [twoFactor[request[r].user] EXCEPT !.enabled = TRUE])
    /\ Finish(r)
    /\ UNCHANGED <<issued, proven, accepted>>

Enable(r) ==
    /\ At(r, "confirm")
    /\ Set2FA(r, Columns(TRUE, Read(r).secret, Read(r).codes))
    /\ Finish(r)
    /\ UNCHANGED <<issued, proven, accepted>>

\* A TOTP code or a backup code confirms the intent; the latter is not
\* consumed.
Disable(r, u) ==
    /\ At(r, "idle")
    /\ twoFactor[u].enabled
    /\ Begin(r, Serving("disable", u, twoFactor[u], NoCode))
    /\ UNCHANGED <<twoFactor, issued, proven, accepted>>

\* Mutation: the backup codes outlive the secret.
ClearSecretOnly(r) ==
    /\ At(r, "disable")
    /\ Set2FA(r, Columns(FALSE, NoSecret, Read(r).codes))
    /\ Finish(r)
    /\ UNCHANGED <<issued, proven, accepted>>

Clear(r) ==
    /\ At(r, "disable")
    /\ Set2FA(r, Off)
    /\ Finish(r)
    /\ UNCHANGED <<issued, proven, accepted>>

\* The second step of a login, with a backup code of the row just read.
VerifyLogin(r, u, c) ==
    /\ At(r, "idle")
    /\ twoFactor[u].enabled
    /\ twoFactor[u].secret # NoSecret
    /\ c \in twoFactor[u].codes
    /\ Begin(r, Serving("consume", u, twoFactor[u], c))
    /\ UNCHANGED <<twoFactor, issued, proven, accepted>>

\* The codes written back are those read, less the one used.  Only then is
\* the login let in.
ConsumeCode(r) ==
    /\ At(r, "consume")
    /\ Set2FA(r, Columns(TRUE, Read(r).secret, Read(r).codes \ {request[r].code}))
    /\ accepted' = [accepted EXCEPT ![request[r].code] = @ + 1]
    /\ Finish(r)
    /\ UNCHANGED <<issued, proven>>

\* A TOTP code of the secret just read authorises it.
RegenerateBackupCodes(r, u) ==
    /\ At(r, "idle")
    /\ twoFactor[u].enabled
    /\ twoFactor[u].secret # NoSecret
    /\ proven' = proven \cup {[user |-> u, secret |-> twoFactor[u].secret]}
    /\ Begin(r, Serving("regenerate", u, twoFactor[u], NoCode))
    /\ UNCHANGED <<twoFactor, issued, accepted>>

StoreCodes(r, b) ==
    /\ At(r, "regenerate")
    /\ b \notin UsedBatches
    /\ Set2FA(r, Columns(TRUE, Read(r).secret, CodesOf(b)))
    /\ issued' = issued \cup
           {[user |-> request[r].user, secret |-> Read(r).secret, batch |-> b]}
    /\ Finish(r)
    /\ UNCHANGED <<proven, accepted>>

\* The process serving r stops, or a statement fails.
Crash(r) ==
    /\ ~At(r, "idle")
    /\ Finish(r)
    /\ UNCHANGED <<twoFactor, issued, proven, accepted>>

ReadStep(r) ==
    \E u \in User :
        \/ BeginSetup(r, u)
        \/ ConfirmSetup(r, u)
        \/ Disable(r, u)
        \/ \E c \in Code : VerifyLogin(r, u, c)
        \/ RegenerateBackupCodes(r, u)

WriteStep(r) ==
    \/ \E s \in Secret, b \in Batch : StoreSetup(r, s, b)
    \/ Enable(r)
    \/ Clear(r)
    \/ ConsumeCode(r)
    \/ \E b \in Batch : StoreCodes(r, b)

Next == \E r \in Request : ReadStep(r) \/ WriteStep(r) \/ Crash(r)

Spec == Init /\ [][Next]_vars

-----------------------------------------------------------------------------
(***************************************************************************)
(* Properties.                                                             *)
(***************************************************************************)

ProvenRow(u, row) == row.enabled => [user |-> u, secret |-> row.secret] \in proven

\* Two-factor authentication is never on with a secret the user has not
\* shown a code of: whatever setups, confirmations and disablings overlap,
\* nobody is locked out behind a secret that no device holds
\* (two-factor.service.ts:58, "NOT active until confirmSetup succeeds").
OnlyProvenSecrets == \A u \in User : ProvenRow(u, twoFactor[u])

OneBatch(u, row) ==
    row.codes # {} => \E i \in issued :
        i.user = u /\ i.secret = row.secret /\ row.codes \subseteq CodesOf(i.batch)

\* The backup codes in the row are codes of one batch, handed out to this
\* user for the secret in the row: overlapping rewrites of the three columns
\* never mix two enrolments.
CodesBelongToSecret == \A u \in User : OneBatch(u, twoFactor[u])

\* Backup codes are "single-use" (two-factor.service.ts:43): a code lets in
\* one login.
BackupCodesSingleUse == \A c \in Code : accepted[c] <= 1
=============================================================================
