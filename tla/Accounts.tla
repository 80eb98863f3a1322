------------------------------- MODULE Accounts -------------------------------
(***************************************************************************)
(* The handlers of the auth service that rewrite a user row: login,        *)
(* lockout and reset of the password, and the second factor.  They touch   *)
(* different columns and none looks at what the others do, so a behaviour  *)
(* exercises one side, chosen at first, while the other stands still.      *)
(***************************************************************************)
EXTENDS PasswordLogin

CONSTANTS
    Enrolled,     \* users who may set up a second factor
    Secret, Batch, CodeCount, NoSecret, NoCode

\* The nulls of the nullable columns are no values of them.
ASSUME AccountsAssumption ==
    /\ CodeCount \in Nat \ {0}
    /\ NoUser \notin Enrolled /\ NoSecret \notin Secret
    /\ NoCode \notin [batch : Batch, n : 1 .. CodeCount]

VARIABLES
    focus,  \* the side this behaviour exercises
    twoFactor, issued, proven, accepted, factorRequest

Factor == INSTANCE TwoFactor WITH User <- Enrolled, request <- factorRequest

factor == <<twoFactor, issued, proven, accepted, factorRequest>>
accountVars == <<vars, factor, focus>>

AccountsInit ==
    /\ Init /\ Factor!Init
    /\ focus \in {"password", "second factor"}

AccountsNext ==
    /\ UNCHANGED focus
    /\ \/ focus = "password" /\ Next /\ UNCHANGED factor
       \/ focus = "second factor" /\ Factor!Next /\ UNCHANGED vars

AccountsSpec == AccountsInit /\ [][AccountsNext]_accountVars

\* The service itself: both sides go on, in any order.
Interleaved ==
    /\ Init /\ Factor!Init
    /\ [][\/ Next /\ UNCHANGED factor
          \/ Factor!Next /\ UNCHANGED vars]_<<vars, factor>>

\* Both sides keep their variables in their types.
TypesOK == TypeOK /\ Factor!TypeOK

OnlyProvenSecrets == Factor!OnlyProvenSecrets
CodesBelongToSecret == Factor!CodesBelongToSecret
=============================================================================
