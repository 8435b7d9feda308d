--------------------------- MODULE ClientRegistry ---------------------------
(***************************************************************************)
(* The registry of OAuth clients of one tenant (oauth_store.py), the       *)
(* routes by which its administrators keep it (routers/admin_oauth.py),    *)
(* and the two ways in which the token endpoint reads it before it grants  *)
(* client_credentials (_client_auth of routers/oauth.py).                  *)
(*                                                                         *)
(* Every call of the store is one transaction.  A route makes one or two,  *)
(* and requests interleave between them.  Names, scopes and the trusted    *)
(* flag are left out, and so is the tenant gate, which is TenantGate's.    *)
(***************************************************************************)
EXTENDS Naturals, FiniteSets

CONSTANTS
    Client,       \* the client ids ever drawn
    Secret,       \* the secrets ever drawn
    Worker,       \* threads that serve requests
    Cap,          \* oauth_max_clients_per_tenant
    None          \* no client, no secret, a field that a PUT does not carry

AuthMethods == {"client_secret_basic", "none"}
GrantTypes == {"authorization_code", "client_credentials"}

Stage == {"idle", "insert", "update", "rotate", "authenticate"}

VARIABLES
    rows,         \* the table: for each registered client the secret whose hash is
                  \* stored, the auth method, the grant types, whether it has a redirect_uri
    dead,         \* client ids that were registered once
    shown,        \* shown[c]: secrets that a response has shown for c
    stage, id, body,   \* each request: its next call, its client, its arguments
    granted       \* history: how the row stood that each service token was granted on

vars == <<rows, dead, shown, stage, id, body, granted>>

Registered == DOMAIN rows
Drawn == UNION {shown[c] : c \in Client}

Init ==
    /\ rows = [c \in {} |-> {}]
    /\ dead = {}
    /\ shown = [c \in Client |-> {}]
    /\ stage = [w \in Worker |-> "idle"]
    /\ id = [w \in Worker |-> None]
    /\ body = [w \in Worker |-> None]
    /\ granted = {}

Finish(w) ==
    /\ stage' = [stage EXCEPT ![w] = "idle"]
    /\ id' = [id EXCEPT ![w] = None]
    /\ body' = [body EXCEPT ![w] = None]

Proceed(w, s, c, b) ==
    /\ stage' = [stage EXCEPT ![w] = s]
    /\ id' = [id EXCEPT ![w] = c]
    /\ body' = [body EXCEPT ![w] = b]

-----------------------------------------------------------------------------
\* _validate of a new client: every field has a value, its default if it is missing.
NewBody == {b \in [method : AuthMethods, grants : (SUBSET GrantTypes) \ {{}}, uris : BOOLEAN] :
    /\ ~(b.method = "none" /\ "client_credentials" \in b.grants)
    /\ "authorization_code" \in b.grants => b.uris}

\* _validate of a PUT: the fields it carries are checked among themselves, the others
\* count as a confidential client's; redirect_uris may be emptied.
ChangedBody == {b \in [method : AuthMethods \cup {None},
                       grants : ((SUBSET GrantTypes) \ {{}}) \cup {None},
                       uris : BOOLEAN \cup {None}] :
    ~(b.method = "none" /\ b.grants # None /\ "client_credentials" \in b.grants)}

\* create_client: count_for and the cap, then _validate.
CreateClient(w) ==
    /\ stage[w] = "idle"
    /\ Cardinality(Registered) < Cap
    /\ \E b \in NewBody : Proceed(w, "insert", None, b)
    /\ UNCHANGED <<rows, dead, shown, granted>>

\* OAuthClientStore.create: a confidential client gets a secret, shown in the response.
Insert(w) ==
    /\ stage[w] = "insert"
    /\ \E c \in Client \ (Registered \cup dead), s \in Secret \cup {None} :
        /\ (s = None) <=> (body[w].method = "none")
        /\ s \notin Drawn
        /\ rows' = [d \in Registered \cup {c} |->
                       IF d = c THEN [secret |-> s, method |-> body[w].method,
                                      grants |-> body[w].grants, uris |-> body[w].uris]
                       ELSE rows[d]]
        /\ shown' = [shown EXCEPT ![c] = @ \cup ({s} \ {None})]
    /\ Finish(w)
    /\ UNCHANGED <<dead, granted>>

\* update_client: get_for, and _validate without a look at the row.
UpdateClient(w, c) ==
    /\ stage[w] = "idle"
    /\ c \in Registered
    /\ \E b \in ChangedBody : Proceed(w, "update", c, b)
    /\ UNCHANGED <<rows, dead, shown, granted>>

\* OAuthClientStore.update: the fields given, of the row if it is still there (if it is
\* not, the response has nothing to tell and the request is a 500).  secret_hash stays.
Update(w) ==
    LET new(field, old) == IF field = None THEN old ELSE field
    IN  /\ stage[w] = "update"
        /\ rows' = [d \in Registered |->
                IF d = id[w] THEN [secret |-> rows[d].secret,
                                   method |-> new(body[w].method, rows[d].method),
                                   grants |-> new(body[w].grants, rows[d].grants),
                                   uris |-> new(body[w].uris, rows[d].uris)]
                ELSE rows[d]]
        /\ Finish(w)
        /\ UNCHANGED <<dead, shown, granted>>

\* rotate_secret: get_for, refused for a client that is public by then.
RotateSecret(w, c) ==
    /\ stage[w] = "idle"
    /\ c \in Registered /\ rows[c].method # "none"
    /\ Proceed(w, "rotate", c, None)
    /\ UNCHANGED <<rows, dead, shown, granted>>

\* OAuthClientStore.rotate_secret; of a client deleted meanwhile the secret shown is null.
Rotate(w) ==
    /\ stage[w] = "rotate"
    /\ \/ /\ id[w] \in Registered
          /\ \E s \in Secret :
              /\ s \notin Drawn
              /\ rows' = [rows EXCEPT ![id[w]].secret = s]
              /\ shown' = [shown EXCEPT ![id[w]] = @ \cup {s}]
       \/ id[w] \notin Registered /\ UNCHANGED <<rows, shown>>
    /\ Finish(w)
    /\ UNCHANGED <<dead, granted>>

\* delete_client is one call.
DeleteClient(c) ==
    /\ c \in Registered
    /\ rows' = [d \in Registered \ {c} |-> rows[d]]
    /\ dead' = dead \cup {c}
    /\ UNCHANGED <<shown, stage, id, body, granted>>

-----------------------------------------------------------------------------
\* grant_type=client_credentials.  _client_auth reads the row with verify_secret when a
\* secret is given, and with get when none is; only the first authenticates.
ClientCredentials(w, c, s) ==
    /\ stage[w] = "idle"
    /\ s \in shown[c] \cup {None}
    /\ Proceed(w, "authenticate", c, s)
    /\ UNCHANGED <<rows, dead, shown, granted>>

Authenticate(w) ==
    LET c == id[w]
        confidential == body[w] # None /\ c \in Registered /\ rows[c].secret = body[w]
    IN  /\ stage[w] = "authenticate"
        /\ \/ /\ confidential /\ "client_credentials" \in rows[c].grants
              /\ granted' = granted \cup {rows[c].method}
           \/ /\ ~(confidential /\ "client_credentials" \in rows[c].grants)
              /\ UNCHANGED granted
        /\ Finish(w)
        /\ UNCHANGED <<rows, dead, shown>>

\* The store cannot be reached.
Fail(w) ==
    /\ stage[w] # "idle"
    /\ Finish(w)
    /\ UNCHANGED <<rows, dead, shown, granted>>

Next ==
    \/ \E w \in Worker :
        \/ CreateClient(w) \/ Insert(w) \/ Update(w) \/ Rotate(w)
        \/ \E c \in Client :
            \/ UpdateClient(w, c) \/ RotateSecret(w, c)
            \/ \E s \in Secret \cup {None} : ClientCredentials(w, c, s)
        \/ Authenticate(w) \/ Fail(w)
    \/ \E c \in Client : DeleteClient(c)

Spec == Init /\ [][Next]_vars

-----------------------------------------------------------------------------
\* The comment of _validate (routers/admin_oauth.py, line 82): "A public client (auth
\* method none) can't use client_credentials."  No service token is granted to a client
\* whose row says that it is public.
PublicGetsNoServiceToken == "none" \notin granted
=============================================================================
