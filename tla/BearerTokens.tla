---------------------------- MODULE BearerTokens ----------------------------
(***************************************************************************)
(* How this service honours a bearer token of http_bridge: bridge_auth.py  *)
(* verifies it, either locally (signature, expiry and the shared denylist  *)
(* of token_revocation.py) or by asking the bridge, and remembers what it  *)
(* heard for CacheTtl seconds.  Requests run on threads of their own and   *)
(* share the cache; time passes between any two of their steps.            *)
(*                                                                         *)
(* The bridge revokes a token by a key in the denylist that lives as long  *)
(* as the token would have.  The clocks of the bridge, of Redis and of     *)
(* this process are one clock here.                                        *)
(***************************************************************************)
EXTENDS Integers, FiniteSets

CONSTANTS
    Jti,          \* tokens, by their jti
    Expiry,       \* Expiry[j]: the exp claim
    CacheTtl,     \* cache_ttl, and ttl of the introspection cache
    MaxEntries,   \* max_cache_entries
    FailOpen,     \* AUTH_REVOCATION_FAIL_OPEN
    MaxTime,      \* bound on the clock
    Worker,       \* threads that serve requests
    NoJti, NoEntry, Never

ASSUME TimeAssumption ==
    /\ IsFiniteSet(Jti)
    /\ Expiry \in [Jti -> Nat]
    /\ CacheTtl \in Nat
    /\ MaxEntries \in Nat \ {0}
    /\ FailOpen \in BOOLEAN
    /\ MaxTime \in Nat

ASSUME NoneAssumption ==
    /\ NoJti \notin Jti
    /\ NoEntry \notin [revoked : BOOLEAN, until : Nat]
    /\ Never \notin Nat

VARIABLES
    local,       \* the deployment shares the bridge's JWT secret
    now,         \* the clock
    revokedAt,   \* revokedAt[j]: when the bridge revoked j
    cache,       \* cache[j]: what is remembered about j, and until when
    stage,       \* stage[w]: what worker w does next
    token,       \* token[w]: the token it looks at
    since,       \* since[w]: when its request arrived
    at,          \* at[w]: the local now of _check (of verify when not local)
    heard,       \* heard[w]: what its lookup returned
    answer       \* answer[w]: how its last request was answered

world == <<local, now, revokedAt>>
request == <<stage, token, since, at, heard, answer>>
vars == <<world, cache, request>>

Entry == [revoked : BOOLEAN, until : Nat]
Stage == {"idle", "check", "lookup", "store"}
Entries(c) == {j \in Jti : c[j] # NoEntry}

\* The denylist key auth:revoked:j exists; the token would still be valid.
Denied(j) == revokedAt[j] # Never /\ now < Expiry[j]

Init ==
    /\ local \in BOOLEAN
    /\ now = 0
    /\ revokedAt = [j \in Jti |-> Never]
    /\ cache = [j \in Jti |-> NoEntry]
    /\ stage = [w \in Worker |-> "idle"]
    /\ token = [w \in Worker |-> NoJti]
    /\ since = [w \in Worker |-> 0]
    /\ at = [w \in Worker |-> 0]
    /\ heard = [w \in Worker |-> FALSE]
    /\ answer = [w \in Worker |-> "none"]

\* Deliberately wrong: an honoured request forgets what it was about, too.
AnswerForgetful(w, refused) ==
    /\ stage' = [stage EXCEPT ![w] = "idle"]
    /\ heard' = [heard EXCEPT ![w] = FALSE]
    /\ answer' = [answer EXCEPT ![w] = IF refused THEN "refused" ELSE "honoured"]
    /\ token' = [token EXCEPT ![w] = NoJti]
    /\ since' = [since EXCEPT ![w] = 0]
    /\ at' = [at EXCEPT ![w] = 0]

\* The verdict of the request.  What a refused one was about is forgotten.
Answer(w, refused) ==
    /\ stage' = [stage EXCEPT ![w] = "idle"]
    /\ heard' = [heard EXCEPT ![w] = FALSE]
    /\ IF refused
       THEN /\ answer' = [answer EXCEPT ![w] = "refused"]
            /\ token' = [token EXCEPT ![w] = NoJti]
            /\ since' = [since EXCEPT ![w] = 0]
            /\ at' = [at EXCEPT ![w] = 0]
       ELSE /\ answer' = [answer EXCEPT ![w] = "honoured"]
            /\ UNCHANGED <<token, since, at>>

-----------------------------------------------------------------------------
Tick ==
    /\ now < MaxTime
    /\ now' = now + 1
    /\ UNCHANGED <<local, revokedAt, cache, request>>

\* The bridge signs a session out.
Revoke(j) ==
    /\ revokedAt[j] = Never
    /\ now < Expiry[j]
    /\ revokedAt' = [revokedAt EXCEPT ![j] = now]
    /\ UNCHANGED <<local, now, cache, request>>

\* verify: a local verification looks at the signature and at exp first, and refuses
\* a token past its exp on the spot.
Arrive(w, j) ==
    /\ stage[w] = "idle"
    /\ IF local /\ now > Expiry[j]
       THEN Answer(w, TRUE)
       ELSE /\ stage' = [stage EXCEPT ![w] = "check"]
            /\ token' = [token EXCEPT ![w] = j]
            /\ since' = [since EXCEPT ![w] = now]
            /\ at' = [at EXCEPT ![w] = 0]
            /\ answer' = [answer EXCEPT ![w] = "none"]
            /\ UNCHANGED heard
    /\ UNCHANGED <<world, cache>>

\* The cache is consulted under its lock: a live entry is the answer.
Check(w) ==
    LET hit == cache[token[w]]
        live == hit # NoEntry /\ hit.until > now
    IN  /\ stage[w] = "check"
        /\ \/ /\ live /\ hit.revoked
              /\ Answer(w, TRUE)
           \/ /\ live => ~hit.revoked
              /\ at' = [at EXCEPT ![w] = now]
              /\ stage' = [stage EXCEPT ![w] = IF live THEN "idle" ELSE "lookup"]
              /\ answer' = [answer EXCEPT ![w] = IF live THEN "honoured" ELSE "none"]
              /\ UNCHANGED <<token, since, heard>>
        /\ UNCHANGED <<world, cache>>

\* An answer of the source, taken at this moment: the denylist, or the bridge's
\* introspection, for which an expired token is not active either.
Lookup(w) ==
    LET j == token[w]
        revoked == IF local THEN Denied(j) ELSE revokedAt[j] # Never \/ now > Expiry[j]
    IN  /\ stage[w] = "lookup"
        /\ IF CacheTtl > 0 /\ (local \/ ~revoked)
           THEN /\ heard' = [heard EXCEPT ![w] = revoked]
                /\ stage' = [stage EXCEPT ![w] = "store"]
                /\ UNCHANGED <<token, since, at, answer>>
           ELSE Answer(w, revoked)
        /\ UNCHANGED <<world, cache>>

\* Deliberately wrong: no answer is taken for a good one.
LookupFailsOpen(w) ==
    /\ stage[w] = "lookup"
    /\ Answer(w, FALSE)
    /\ UNCHANGED <<world, cache>>

\* The source cannot be asked: nothing is remembered, and the token is refused
\* unless the deployment says otherwise (it cannot for introspection).
LookupFails(w) ==
    /\ stage[w] = "lookup"
    /\ Answer(w, ~(local /\ FailOpen))
    /\ UNCHANGED <<world, cache>>

\* The entries of the cache c that are alive at time t.
Alive(c, t) == [j \in Jti |-> IF c[j] # NoEntry /\ c[j].until <= t THEN NoEntry ELSE c[j]]

\* Deliberately wrong: the limit is looked at one entry too late.
RoomLate(c, t) ==
    IF Cardinality(Entries(c)) <= MaxEntries THEN c
    ELSE IF Cardinality(Entries(Alive(c, t))) < MaxEntries THEN Alive(c, t)
    ELSE [j \in Jti |-> NoEntry]

\* _prune_locked, when the cache is full: the dead entries go, and all of them if
\* that is not enough.
Room(c, t) ==
    IF Cardinality(Entries(c)) < MaxEntries THEN c
    ELSE IF Cardinality(Entries(Alive(c, t))) < MaxEntries THEN Alive(c, t)
    ELSE [j \in Jti |-> NoEntry]

\* Deliberately wrong: the entry lives CacheTtl from now, not from the check.
StoreFromNow(w) ==
    LET room == IF local THEN Room(cache, at[w]) ELSE cache
    IN  /\ stage[w] = "store"
        /\ cache' = [room EXCEPT ![token[w]] =
                        [revoked |-> heard[w], until |-> now + CacheTtl]]
        /\ Answer(w, heard[w])
        /\ UNCHANGED world

\* The verdict is remembered until at[w] + CacheTtl, whatever another request has
\* stored meanwhile.  The introspection cache has no limit.
Store(w) ==
    LET room == IF local THEN Room(cache, at[w]) ELSE cache
    IN  /\ stage[w] = "store"
        /\ cache' = [room EXCEPT ![token[w]] =
                        [revoked |-> heard[w], until |-> at[w] + CacheTtl]]
        /\ Answer(w, heard[w])
        /\ UNCHANGED world

Next ==
    \/ Tick
    \/ \E j \in Jti : Revoke(j)
    \/ \E w \in Worker :
        \/ \E j \in Jti : Arrive(w, j)
        \/ Check(w) \/ Lookup(w) \/ LookupFails(w) \/ Store(w)

Spec == Init /\ [][Next]_vars

-----------------------------------------------------------------------------
TypeOK ==
    /\ local \in BOOLEAN
    /\ now \in Nat
    /\ revokedAt \in [Jti -> Nat \cup {Never}]
    /\ cache \in [Jti -> Entry \cup {NoEntry}]
    /\ stage \in [Worker -> Stage]
    /\ token \in [Worker -> Jti \cup {NoJti}]
    /\ \A w \in Worker : stage[w] # "idle" \/ answer[w] = "honoured" => token[w] \in Jti
    /\ since \in [Worker -> Nat]
    /\ at \in [Worker -> Nat]
    /\ heard \in [Worker -> BOOLEAN]
    /\ answer \in [Worker -> {"none", "honoured", "refused"}]

Honoured(w) == answer[w] = "honoured"

\* The docstring of token_revocation.py: a signed-out token keeps working for at
\* most CacheTtl seconds.  A request that consults the cache later than that is
\* refused, whatever lookups overlap and whichever verdict is stored last; the one
\* exception is a token that has expired by the time of the answer, whose
\* denylist key is gone with it.
SignOutBound ==
    ~FailOpen => \A w \in Worker :
        Honoured(w) /\ revokedAt[token[w]] # Never =>
            \/ at[w] <= revokedAt[token[w]]
            \/ at[w] < revokedAt[token[w]] + CacheTtl
            \/ now >= Expiry[token[w]]

\* An expired token is honoured only in flight, or, when the bridge is asked,
\* for as long as its answer is remembered.
ExpiryBound ==
    \A w \in Worker : Honoured(w) =>
        \/ since[w] <= Expiry[token[w]]
        \/ ~local /\ since[w] < Expiry[token[w]] + CacheTtl

\* The verdicts remembered never outgrow max_cache_entries (_prune_locked).
CacheBounded == local => Cardinality(Entries(cache)) <= MaxEntries
=============================================================================
