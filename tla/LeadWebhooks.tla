---------------------------- MODULE LeadWebhooks ----------------------------
(***************************************************************************)
(* The webhooks of one tenant: each row holds a token, and a key in Redis  *)
(* maps the token to the tenant.  A post to a webhook finds the key first, *)
(* then the row, and is refused without either.                            *)
(*                                                                         *)
(* Row and key are written one after the other.  Tokens are random: 1, 2   *)
(* and so on, in the order they are drawn.                                 *)
(***************************************************************************)
EXTENDS Naturals, FiniteSets

CONSTANTS
    Webhook,   \* ids the LeadWebhook table may allocate
    Request,   \* requests served at the same time
    MaxToken   \* tokens drawn in all

VARIABLES
    allocated,  \* webhooks inserted so far
    token,      \* token[w]: token of the row, 0 when there is none
    inactive,   \* rows whose isActive is off
    keys,       \* tokens with a key in Redis
    drawn,      \* tokens drawn so far
    request,    \* request[r]: what r has read and still has to write
    lost        \* tokens whose key a stop or a failure of Redis left unset (no key)

rows == <<allocated, token, inactive>>
vars == <<rows, keys, drawn, request, lost>>

Progress ==
    [webhook : Webhook \cup {0}, old : 0..MaxToken,
     todo : SUBSET {"delete", "replace", "drop", "set"}, new : 0..MaxToken]

Serving(w, old, todo, new) == [webhook |-> w, old |-> old, todo |-> todo, new |-> new]

Idle == Serving(0, 0, {}, 0)

TypeOK ==
    /\ allocated \subseteq Webhook /\ inactive \subseteq allocated
    /\ token \in [Webhook -> 0..MaxToken]
    /\ keys \subseteq 1..MaxToken /\ lost \subseteq 1..MaxToken
    /\ drawn \in 0..MaxToken
    /\ request \in [Request -> Progress]

Init ==
    /\ allocated = {} /\ inactive = {} /\ keys = {} /\ lost = {}
    /\ token = [w \in Webhook |-> 0]
    /\ drawn = 0
    /\ request = [r \in Request |-> Idle]

-----------------------------------------------------------------------------

Begin(r, p) == request[r] = Idle /\ request' = [request EXCEPT ![r] = p]
ToDo(r, stmt) == stmt \in request[r].todo

Go(r, p) == request' = [request EXCEPT ![r] = IF p.todo = {} THEN Idle ELSE p]
Done(r, stmt) == Go(r, [request[r] EXCEPT !.todo = @ \ {stmt}])

Exists(w) == token[w] # 0

CreateWebhook(r, w) ==
    /\ w \notin allocated /\ drawn < MaxToken
    /\ allocated' = allocated \cup {w}
    /\ drawn' = drawn + 1
    /\ token' = [token EXCEPT ![w] = drawn + 1]
    /\ Begin(r, Serving(w, 0, {"set"}, drawn + 1))
    /\ UNCHANGED <<inactive, keys, lost>>

\* Each of these handlers first finds the row, or is refused.
UpdateWebhook(w) ==
    /\ Exists(w)
    /\ inactive' = inactive \ {w} \/ inactive' = inactive \cup {w}
    /\ UNCHANGED <<allocated, token, keys, drawn, request, lost>>

DeleteWebhook(r, w) ==
    /\ Exists(w)
    /\ Begin(r, Serving(w, token[w], {"delete"}, 0))
    /\ UNCHANGED <<rows, keys, drawn, lost>>

RegenerateToken(r, w) ==
    /\ Exists(w) /\ drawn < MaxToken
    /\ drawn' = drawn + 1
    /\ Begin(r, Serving(w, token[w], {"replace"}, drawn + 1))
    /\ UNCHANGED <<rows, keys, lost>>

DeleteRow(r) ==
    LET w == request[r].webhook
    IN  /\ ToDo(r, "delete")
        /\ IF Exists(w) THEN Go(r, [request[r] EXCEPT !.todo = {"drop"}]) ELSE Go(r, Idle)
        /\ token' = [token EXCEPT ![w] = 0]
        /\ inactive' = inactive \ {w}
        /\ UNCHANGED <<allocated, keys, drawn, lost>>

\* The row is named by its id: another token may have replaced the one read.
ReplaceToken(r) ==
    LET w == request[r].webhook
    IN  /\ ToDo(r, "replace")
        /\ IF Exists(w)
           THEN /\ token' = [token EXCEPT ![w] = request[r].new]
                /\ Go(r, [request[r] EXCEPT !.todo = {"drop", "set"}])
           ELSE UNCHANGED token /\ Go(r, Idle)
        /\ UNCHANGED <<allocated, inactive, keys, drawn, lost>>

\* Mutant: the key dropped is that of the token the row holds by then.
DropKeyOfRow(r) ==
    /\ ToDo(r, "drop")
    /\ keys' = keys \ {token[request[r].webhook]}
    /\ Done(r, "drop")
    /\ UNCHANGED <<rows, drawn, lost>>

DropKey(r) ==
    /\ ToDo(r, "drop")
    /\ keys' = keys \ {request[r].old}
    /\ Done(r, "drop")
    /\ UNCHANGED <<rows, drawn, lost>>

SetKey(r) ==
    /\ ToDo(r, "set")
    /\ keys' = keys \cup {request[r].new}
    /\ Done(r, "set")
    /\ UNCHANGED <<rows, drawn, lost>>

\* A write fails or the process stops.
CutShort(r) ==
    /\ request[r] # Idle
    /\ lost' = IF ToDo(r, "set") THEN lost \cup {request[r].new} ELSE lost
    /\ Go(r, Idle)
    /\ UNCHANGED <<rows, keys, drawn>>

Next ==
    \/ \E w \in Webhook : UpdateWebhook(w)
    \/ \E r \in Request :
        \/ \E w \in Webhook : CreateWebhook(r, w) \/ DeleteWebhook(r, w) \/ RegenerateToken(r, w)
        \/ DeleteRow(r) \/ ReplaceToken(r) \/ DropKey(r) \/ SetKey(r) \/ CutShort(r)

Spec == Init /\ [][Next]_vars

-----------------------------------------------------------------------------

Answered(w) == \A r \in Request : request[r].webhook # w

\* However creations, deletions and new tokens overlap, the token a row holds has
\* its key once the requests that concern the row are answered, unless one of
\* them stopped before it set that key.
LiveTokensResolve ==
    \A w \in Webhook : Exists(w) /\ Answered(w) => token[w] \in keys \cup lost
=============================================================================
