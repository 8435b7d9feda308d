---------------------------- MODULE OAuthGrants ----------------------------
(***************************************************************************)
(* The grants of the OAuth server (routers/oauth.py over oauth_codes.py    *)
(* and oauth_consent.py) of one user in one tenant: authorization codes,   *)
(* refresh tokens and their rotation, service tokens, and the tenant gate  *)
(* every response passes (TenantGate).                                     *)
(*                                                                         *)
(* The clients are registered once and for all here, so that what the      *)
(* authorization endpoints read (the client, a consent, which no route     *)
(* takes back) only grows and one authorization is one step.  At the token *)
(* endpoint every call to Redis and to the gate is a step of its own.      *)
(***************************************************************************)
EXTENDS TenantGate, FiniteSets

CONSTANTS
    Client,    \* registered clients
    Trusted,   \* those that need no consent
    Scope,     \* the scopes all of them may ask for
    Offline,   \* the scope offline_access
    Requested, \* the sets of scopes that are asked for
    Grant,     \* the codes and refresh tokens ever drawn (bound on how many)
    NoClient, NoGrant

ASSUME GrantAssumption ==
    /\ Trusted \subseteq Client
    /\ Requested \subseteq (SUBSET Scope) \ {{}}
    /\ NoClient \notin Client /\ NoGrant \notin Grant

VARIABLES
    live,       \* grants whose key exists in Redis
    payload,    \* payload[g]: what is stored under it
    consent,    \* consent[c]: scopes remembered for client c
    approved,   \* history: approved[c], every scope the user ever approved for c
    used,       \* history: used[g], responses made from g
    stage,      \* stage[w]: the call worker w makes next at the token endpoint
    op,         \* op[w]: the grant type
    client,     \* client[w]: the client that authenticated
    presented,  \* presented[w]: the grant it presents
    scope,      \* scope[w]: the scope of the response
    started,    \* started[w]: when the request came, for one that is served
    served      \* served[w]: the last request was given a token

store == <<live, payload, consent>>
history == <<approved, used>>
request == <<stage, op, client, presented, scope, started, served>>
vars == <<gate, store, history, request>>

Payload == [kind : {"code", "refresh"}, client : Client \cup {NoClient}, scope : SUBSET Scope]
Unissued == [kind |-> "code", client |-> NoClient, scope |-> {}]
Fresh == {g \in Grant : payload[g] = Unissued}
Op == {"code", "refresh", "service"}
Stage == {"idle", "peek", "first", "consume", "final"}

Init ==
    /\ GateInit
    /\ live = {}
    /\ payload = [g \in Grant |-> Unissued]
    /\ consent = [c \in Client |-> {}]
    /\ approved = [c \in Client |-> {}]
    /\ used = [g \in Grant |-> 0]
    /\ stage = [w \in Worker |-> "idle"]
    /\ op = [w \in Worker |-> "code"]
    /\ client = [w \in Worker |-> NoClient]
    /\ presented = [w \in Worker |-> NoGrant]
    /\ scope = [w \in Worker |-> {}]
    /\ started = [w \in Worker |-> 0]
    /\ served = [w \in Worker |-> FALSE]

-----------------------------------------------------------------------------
IssueCode(c, s) ==
    \E g \in Fresh :
        /\ live' = live \cup {g}
        /\ payload' = [payload EXCEPT ![g] = [kind |-> "code", client |-> c, scope |-> s]]

\* authorize and authorize_prepare: a code at once for a trusted client, or one whose
\* remembered consent covers every scope granted.
Authorize(c, s) ==
    /\ (c \in Trusted \/ s \subseteq consent[c])
    /\ IssueCode(c, s)
    /\ UNCHANGED <<gate, consent, history, request>>

\* authorize_decision: the user approves, and may have it remembered (a consent that
\* cannot be stored is forgotten).
Decide(c, s) ==
    /\ approved' = [approved EXCEPT ![c] = @ \cup s]
    /\ consent' \in {consent, [consent EXCEPT ![c] = @ \cup s]}
    /\ IssueCode(c, s)
    /\ UNCHANGED <<gate, used, request>>

Expire(g) ==
    /\ g \in live
    /\ live' = live \ {g}
    /\ UNCHANGED <<gate, payload, consent, history, request>>

-----------------------------------------------------------------------------
Goto(w, s) == stage' = [stage EXCEPT ![w] = s]

\* The request is answered, with a token or a refusal.
Finish(w, token) ==
    /\ Goto(w, "idle")
    /\ served' = [served EXCEPT ![w] = token]
    /\ started' = IF token THEN started ELSE [started EXCEPT ![w] = 0]
    /\ op' = [op EXCEPT ![w] = "code"]
    /\ client' = [client EXCEPT ![w] = NoClient]
    /\ presented' = [presented EXCEPT ![w] = NoGrant]
    /\ scope' = [scope EXCEPT ![w] = {}]
    /\ HangUp(w)

\* The call of the gate that a stage waits for.
Call(w) == ask' = [ask EXCEPT ![w] = "enter"] /\ UNCHANGED <<asked, why>>

\* token: the client authenticates and presents a grant it holds, or a service
\* identity asks for a token of its own.
Token(w, o, c, g) ==
    /\ stage[w] = "idle"
    /\ o = "service" <=> g = NoGrant
    /\ g # NoGrant => payload[g].kind = o /\ payload[g] # Unissued
    /\ Goto(w, CASE o = "code" -> "consume" [] o = "refresh" -> "peek" [] o = "service" -> "first")
    /\ IF o = "service" THEN Call(w) ELSE UNCHANGED call
    /\ op' = [op EXCEPT ![w] = o]
    /\ client' = [client EXCEPT ![w] = c]
    /\ presented' = [presented EXCEPT ![w] = g]
    /\ started' = [started EXCEPT ![w] = now]
    /\ served' = [served EXCEPT ![w] = FALSE]
    /\ scope' = [scope EXCEPT ![w] = IF o = "service" THEN Scope ELSE {}]
    /\ UNCHANGED <<registry, now, verdict, store, history>>

\* Deliberately wrong: rotation goes first and the gate is asked afterwards.
PeekSkipping(w) ==
    /\ stage[w] = "peek"
    /\ Goto(w, "consume") /\ UNCHANGED call
    /\ UNCHANGED <<registry, now, verdict, store, history, op, client, presented, scope, started,
                   served>>

\* peek_refresh: the gate is asked before rotation for a token of this client.
Peek(w) ==
    /\ stage[w] = "peek"
    /\ IF presented[w] \in live /\ payload[presented[w]].client = client[w]
       THEN Goto(w, "first") /\ Call(w)
       ELSE Goto(w, "consume") /\ UNCHANGED call
    /\ UNCHANGED <<registry, now, verdict, store, history, op, client, presented, scope, started,
                   served>>

\* _require_live_tenant before rotation, and before a service token.
FirstCheck(w) ==
    /\ stage[w] = "first"
    /\ \/ /\ ask[w] = "refuse"
          /\ Finish(w, FALSE)
       \/ /\ ask[w] = "admit"
          /\ IF op[w] = "service" THEN Goto(w, "final") /\ Call(w)
             ELSE Goto(w, "consume") /\ UNCHANGED call
          /\ UNCHANGED <<op, client, presented, scope, started, served>>
    /\ UNCHANGED <<registry, now, verdict, store, history>>

\* Deliberately wrong: a refresh is given whatever scope it asks for.
NarrowedNot(w) ==
    LET held == payload[presented[w]].scope
    IN  IF op[w] = "code" THEN {held} ELSE (SUBSET Scope) \ {{}}

\* A refresh may narrow the scope, never to nothing; a code's is taken as it is.
Narrowed(w) ==
    LET held == payload[presented[w]].scope
    IN  IF op[w] = "code" THEN {held} ELSE (SUBSET held) \ {{}}

\* Deliberately wrong: GET, and the key is left to expire.
ConsumeKeeping(w) ==
    /\ stage[w] = "consume"
    /\ presented[w] \in live /\ payload[presented[w]].client = client[w]
    /\ \E s \in Narrowed(w) : scope' = [scope EXCEPT ![w] = s]
    /\ Goto(w, "final") /\ Call(w)
    /\ UNCHANGED <<registry, now, verdict, store, history, op, client, presented, started, served>>

\* consume_code, consume_refresh: one GETDEL.  Whatever it returns is gone, for a
\* client it was not issued to (or a wrong redirect_uri or code_verifier), too.
Consume(w) ==
    LET g == presented[w]
    IN  /\ stage[w] = "consume"
        /\ live' = live \ {g}
        /\ \/ /\ g \in live /\ payload[g].client = client[w]
              /\ \E s \in Narrowed(w) : scope' = [scope EXCEPT ![w] = s]
              /\ Goto(w, "final") /\ Call(w)
              /\ UNCHANGED <<op, client, presented, started, served>>
           \/ /\ g \in live /\ payload[g].client = client[w] => op[w] = "code"
              /\ Finish(w, FALSE)
        /\ UNCHANGED <<registry, now, verdict, payload, consent, history>>

\* Deliberately wrong: the response is made whatever the gate says.
RespondUngated(w) ==
    /\ stage[w] = "final"
    /\ Finish(w, TRUE)
    /\ UNCHANGED <<registry, now, verdict, store, history>>

\* Deliberately wrong: the refresh token is bound to no client.
RespondUnbound(w) ==
    /\ stage[w] = "final" /\ ask[w] = "admit"
    /\ \E f \in Fresh :
        /\ live' = live \cup {f}
        /\ payload' = [payload EXCEPT ![f] =
              [kind |-> "refresh", client |-> NoClient, scope |-> scope[w]]]
    /\ Finish(w, TRUE)
    /\ UNCHANGED <<registry, now, verdict, consent, history>>

\* _token_response: the gate again, then the tokens, with a refresh token when the
\* scope has offline_access.
Respond(w) ==
    LET g == presented[w]
    IN  /\ stage[w] = "final"
        /\ \/ /\ ask[w] = "refuse"
              /\ UNCHANGED <<live, payload, used>>
              /\ Finish(w, FALSE)
           \/ /\ ask[w] = "admit"
              /\ used' = IF g = NoGrant THEN used ELSE [used EXCEPT ![g] = @ + 1]
              /\ IF op[w] # "service" /\ Offline \in scope[w]
                 THEN \E f \in Fresh :
                        /\ live' = live \cup {f}
                        /\ payload' = [payload EXCEPT ![f] =
                              [kind |-> "refresh", client |-> client[w], scope |-> scope[w]]]
                 ELSE UNCHANGED <<live, payload>>
              /\ Finish(w, TRUE)
        /\ UNCHANGED <<registry, now, verdict, consent, approved>>

TokenEndpoint(w) ==
    \/ \E o \in Op, c \in Client, g \in Grant \cup {NoGrant} : Token(w, o, c, g)
    \/ Peek(w) \/ FirstCheck(w) \/ Consume(w) \/ Respond(w)

Next ==
    \/ \E c \in Client, s \in Requested : Authorize(c, s) \/ Decide(c, s)
    \/ \E g \in Grant : Expire(g)
    \/ \E w \in Worker :
        \/ TokenEndpoint(w)
        \/ GateStep(w) /\ UNCHANGED <<store, history, request>>
    \/ (Tick \/ Switch) /\ UNCHANGED <<store, history, request>>

Spec == Init /\ [][Next]_vars

-----------------------------------------------------------------------------
TypeOK ==
    /\ GateTypeOK
    /\ live \in SUBSET Grant
    /\ payload \in [Grant -> Payload]
    /\ consent \in [Client -> SUBSET Scope]
    /\ approved \in [Client -> SUBSET Scope]
    /\ used \in [Grant -> Nat]
    /\ stage \in [Worker -> Stage]
    /\ op \in [Worker -> Op]
    /\ client \in [Worker -> Client \cup {NoClient}]
    /\ presented \in [Worker -> Grant \cup {NoGrant}]
    /\ scope \in [Worker -> SUBSET Scope]
    /\ started \in [Worker -> Nat]
    /\ served \in [Worker -> BOOLEAN]
    /\ \A g \in live : payload[g].client # NoClient
    /\ \A w \in Worker : stage[w] # "idle" =>
          client[w] # NoClient /\ (op[w] # "service" => presented[w] # NoGrant)

\* The request that has taken grant g out of Redis and has yet to be answered.
Claims(w, g) == stage[w] = "final" /\ presented[w] = g

StatusOf(g) ==
    IF payload[g] = Unissued THEN "fresh"
    ELSE IF g \in live THEN "live"
    ELSE IF \E w \in Worker : Claims(w, g) THEN "claimed"
    ELSE "over"

\* The docstrings of consume_code and consume_refresh, and the narrowing of a refresh:
\* the endpoints implement a ledger in which a code or refresh token is claimed by one
\* request, answered at most once, and followed by a token of the same client with no
\* scope more, however many requests present it at a time and whatever the gate says.
Ledger == INSTANCE GrantLedger WITH
    status <- [g \in Grant |-> StatusOf(g)],
    owner <- [g \in Grant |-> payload[g].client],
    allowed <- [g \in Grant |-> payload[g].scope],
    answered <- used
ImplementsGrantLedger == Ledger!Spec

\* A code is exchanged once, a refresh token rotated once, however many requests
\* present it at a time.
GrantedOnce == \A g \in Grant : used[g] <= 1

\* No grant holds a scope its user has not approved for its client, through whatever
\* chain of codes and rotations it came (a refresh narrows, never widens).
ScopesApproved ==
    \A g \in live : payload[g].client \in Trusted
                    \/ payload[g].scope \subseteq approved[payload[g].client]

\* The comment of token: the gate is asked before rotation.  A refresh token is
\* consumed for its own client only once the tenant has been admitted.
RotationStep ==
    \A w \in Worker :
        /\ stage[w] = "consume" /\ op[w] = "refresh" /\ stage'[w] # "consume"
        /\ presented[w] \in live /\ payload[presented[w]].client = client[w]
        => ask[w] = "admit"
RotationAfterAdmission == [][RotationStep]_vars

\* The comment above TENANT_GATE: a suspended tenant's clients can renew no longer.
\* Of the requests that come AdmitTtl after the suspension none is given a token.
SuspendedGetNothing ==
    state = "suspended" => \A w \in Worker :
        served[w] => started[w] <= since \/ started[w] < since + AdmitTtl
=============================================================================
