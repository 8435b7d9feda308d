------------------------- MODULE ServiceCredentials -------------------------
(***************************************************************************)
(* The key:secret credentials of the file doors (service_cred.py behind    *)
(* routers/service_cred.py): their owners create, rotate and revoke them,  *)
(* a removal from a tenant purges them, and a door verifies one at login   *)
(* and asks after it, without the secret, whenever a session minted from   *)
(* it is refreshed.                                                        *)
(*                                                                         *)
(* Every store method is a transaction of its own at the database's        *)
(* default isolation (read committed): a statement sees what others have   *)
(* committed when it starts.  One statement is one step, and a method's    *)
(* last statement is its commit.  No route sets an expiry or an address    *)
(* pin, so the rows here have neither.                                     *)
(***************************************************************************)
EXTENDS Naturals, FiniteSets

CONSTANTS
    User, Tenant,
    Scope,          \* ALL_SCOPES
    DefaultScope,   \* "webdav"
    ScopeSets,      \* what bodies ask for (bound)
    KeyId, Secret,  \* ids and secrets that may be generated; none comes twice
    Max,            \* SERVICE_CRED_MAX_PER_USER
    Worker,         \* threads that serve requests
    None            \* no row, key, secret, user, tenant, session or request

ASSUME CredentialAssumption ==
    /\ IsFiniteSet(KeyId)
    /\ DefaultScope \in Scope
    /\ ScopeSets \subseteq SUBSET Scope
    /\ Max \in Nat

Row == [owner : User, tenant : Tenant, scopes : SUBSET Scope, secret : Secret]
Session == [key : KeyId, tenant : Tenant, scope : Scope, generation : Secret]

\* A request: whose it is, the key it names, the tenant and scopes it asks for,
\* and the secret presented at a login or held by the session to refresh.
Job == [op : {"create", "rotate", "replace", "login", "refresh"}, user : User \cup {None},
        key : KeyId \cup {None}, tenant : Tenant \cup {None},
        scopes : SUBSET Scope, secret : Secret \cup {None}]

ASSUME NoneAssumption ==
    None \notin User \cup Tenant \cup KeyId \cup Secret \cup Row \cup Session \cup Job

Stage == {"idle",
          "count",    \* count_for
          "insert",   \* create: INSERT and commit
          "own",      \* rotate: _owned
          "update",   \* rotate in place: UPDATE and commit
          "copy",     \* rotate to a new id: INSERT ... SELECT
          "drop",     \* rotate to a new id: DELETE and commit
          "select",   \* check: SELECT and the tests on the row
          "touch"}    \* check: UPDATE last_used_at, commit and answer

VARIABLES
    cred,        \* cred[k]: the row of key k
    home,        \* home[s]: the key that secret s was generated for
    session,     \* a session the door has minted from a key
    stage, job,  \* the request of each worker
    read,        \* read[w]: the secret w's check found; its tag is the generation
    copied,      \* copied[w]: the row w's INSERT ... SELECT wrote, uncommitted
    mark,        \* history: mark[w], what happened before or under w's request
    surplus      \* history: surplus[u], keys u got by crowded and overtaken requests

store == <<cred, home>>
request == <<stage, job, read, copied>>
history == <<mark, surplus>>
vars == <<store, session, request, history>>

Mark == {"late",       \* the secret of a check had ended when the check arrived
         "crowded",    \* another key of the owner was committed since the count
         "overtaken"}  \* the row that was copied went before the copy's commit

Keys(u) == {k \in KeyId : cred[k] # None /\ cred[k].owner = u}
FreshKey == {k \in KeyId : cred[k] = None /\ \A s \in Secret : home[s] # k}
FreshSecret == {s \in Secret : home[s] = None}

\* normalize_scopes: nothing asked for is the common default.
Normal(S) == IF S = {} THEN {DefaultScope} ELSE S

\* Key k exists and s is its secret.
Holds(k, s) == cred[k] # None /\ cred[k].secret = s

Init ==
    /\ cred = [k \in KeyId |-> None]
    /\ home = [s \in Secret |-> None]
    /\ session = None
    /\ stage = [w \in Worker |-> "idle"]
    /\ job = [w \in Worker |-> None]
    /\ read = [w \in Worker |-> None]
    /\ copied = [w \in Worker |-> None]
    /\ mark = [w \in Worker |-> {}]
    /\ surplus = [u \in User |-> 0]

Goto(w, s) == stage' = [stage EXCEPT ![w] = s]

\* Deliberately wrong: the worker is given back with the request still on it.
AnsweredHolding(w) ==
    /\ Goto(w, "idle")
    /\ read' = [read EXCEPT ![w] = None]
    /\ copied' = [copied EXCEPT ![w] = None]
    /\ UNCHANGED job

\* The request is answered, whether it succeeded or not.
Answered(w) ==
    /\ Goto(w, "idle")
    /\ job' = [job EXCEPT ![w] = None]
    /\ read' = [read EXCEPT ![w] = None]
    /\ copied' = [copied EXCEPT ![w] = None]

\* The marks once the rows are c: another key of the user has come under a create,
\* or the row that a rotation has copied has gone.
MarksAfter(c) ==
    [w \in Worker |-> mark[w] \cup
        {m \in Mark :
            \/ /\ m = "crowded" /\ stage[w] = "insert"
               /\ \E k \in KeyId : cred[k] = None /\ c[k] # None /\ c[k].owner = job[w].user
            \/ /\ m = "overtaken" /\ stage[w] = "drop"
               /\ cred[job[w].key] # None /\ c[job[w].key] = None}]

Raced(w) == mark[w] \cap {"crowded", "overtaken"} # {}

\* Worker w commits the new row r under the fresh key k and is answered; the rows
\* of the keys in gone go in the same transaction.
CommitNew(w, k, r, gone) ==
    LET c == [i \in KeyId |-> IF i = k THEN r ELSE IF i \in gone THEN None ELSE cred[i]]
    IN  /\ cred' = c
        /\ home' = [home EXCEPT ![r.secret] = k]
        /\ mark' = [MarksAfter(c) EXCEPT ![w] = {}]
        /\ surplus' = IF Raced(w) THEN [surplus EXCEPT ![r.owner] = @ + 1] ELSE surplus
        /\ Answered(w)
        /\ UNCHANGED session

\* The rows of the keys in gone are deleted, by a request that is one statement.
Withdraw(gone) ==
    LET c == [k \in KeyId |-> IF k \in gone THEN None ELSE cred[k]]
    IN  /\ cred' = c
        /\ mark' = MarksAfter(c)
        /\ UNCHANGED <<home, session, request, surplus>>

-----------------------------------------------------------------------------
Arrive(w, j, s, marks) ==
    /\ stage[w] = "idle"
    /\ Goto(w, s)
    /\ job' = [job EXCEPT ![w] = j]
    /\ mark' = [mark EXCEPT ![w] = marks]
    /\ UNCHANGED <<store, session, read, copied, surplus>>

Request(o, u, k, t, S, s) ==
    [op |-> o, user |-> u, key |-> k, tenant |-> t, scopes |-> S, secret |-> s]

\* create_credential, for the caller and the tenant its bearer token names.
Create(w, u, t, S) ==
    Arrive(w, Request("create", u, None, t, Normal(S), None), "count", {})

\* rotate_credential, in place or (new_key_id) to a key with an id of its own.
Rotate(w, o, u, k) ==
    /\ \E s \in Secret : home[s] = k
    /\ Arrive(w, Request(o, u, k, None, {}, None), "own", {})

\* internal_verify: the door presents a key and a secret once handed out for it,
\* for its own scope in the tenant it serves.
Login(w, s, t, d) ==
    /\ home[s] # None
    /\ Arrive(w, Request("login", None, home[s], t, {d}, s), "select",
              IF Holds(home[s], s) THEN {} ELSE {"late"})

\* internal_status: the door is about to refresh the session it holds.
Refresh(w) ==
    /\ session # None
    /\ Arrive(w, Request("refresh", None, session.key, session.tenant, {session.scope},
                         session.generation), "select",
              IF Holds(session.key, session.generation) THEN {} ELSE {"late"})

-----------------------------------------------------------------------------
\* Deliberately wrong: an off-by-one in the comparison.
CountOffByOne(w) ==
    /\ stage[w] = "count"
    /\ IF Cardinality(Keys(job[w].user)) > Max THEN Answered(w)
       ELSE Goto(w, "insert") /\ UNCHANGED <<job, read, copied>>
    /\ mark' = [mark EXCEPT ![w] = {}]
    /\ UNCHANGED <<store, session, surplus>>

\* count_for: the keys of the user in every tenant; 409 at the limit.
Count(w) ==
    /\ stage[w] = "count"
    /\ IF Cardinality(Keys(job[w].user)) >= Max THEN Answered(w)
       ELSE Goto(w, "insert") /\ UNCHANGED <<job, read, copied>>
    /\ mark' = [mark EXCEPT ![w] = {}]
    /\ UNCHANGED <<store, session, surplus>>

Insert(w) ==
    /\ stage[w] = "insert"
    /\ \E k \in FreshKey, s \in FreshSecret :
        CommitNew(w, k, [owner |-> job[w].user, tenant |-> job[w].tenant,
                         scopes |-> job[w].scopes, secret |-> s], {})

-----------------------------------------------------------------------------
Owned(w) == cred[job[w].key] # None /\ cred[job[w].key].owner = job[w].user

\* _owned: 404 for a key the caller does not hold.
Own(w) ==
    /\ stage[w] = "own"
    /\ IF ~Owned(w) THEN Answered(w)
       ELSE /\ Goto(w, IF job[w].op = "rotate" THEN "update" ELSE "copy")
            /\ UNCHANGED <<job, read, copied>>
    /\ UNCHANGED <<store, session, history>>

\* rotate in place.  When the row has gone since, the UPDATE finds none; the new
\* secret is handed out all the same.
Update(w) ==
    /\ stage[w] = "update"
    /\ IF ~Owned(w) THEN UNCHANGED store
       ELSE \E s \in FreshSecret :
              /\ cred' = [cred EXCEPT ![job[w].key].secret = s]
              /\ home' = [home EXCEPT ![s] = job[w].key]
    /\ Answered(w)
    /\ UNCHANGED <<session, history>>

\* Deliberately wrong: the fresh row is written from what _owned has read, whether
\* or not the key is still there.
CopyStale(w) ==
    /\ stage[w] = "copy"
    /\ Goto(w, "drop")
    /\ copied' = [copied EXCEPT ![w] =
         IF Owned(w) THEN cred[job[w].key]
         ELSE [owner |-> job[w].user, tenant |-> CHOOSE t \in Tenant : TRUE,
               scopes |-> {DefaultScope}, secret |-> None]]
    /\ UNCHANGED <<store, session, job, read, history>>

\* rotate to a new id: the INSERT reads the row once more and copies what it finds.
Copy(w) ==
    /\ stage[w] = "copy"
    /\ Goto(w, "drop")
    /\ copied' = [copied EXCEPT ![w] = IF Owned(w) THEN cred[job[w].key] ELSE None]
    /\ UNCHANGED <<store, session, job, read, history>>

\* The old row is deleted, if it is still there, and the copy comes to light with
\* it.  A copy of nothing is handed out like any other.
Drop(w) ==
    /\ stage[w] = "drop"
    /\ IF copied[w] = None
       THEN /\ Answered(w)
            /\ mark' = [mark EXCEPT ![w] = {}]
            /\ UNCHANGED <<store, session, surplus>>
       ELSE \E k \in FreshKey, s \in FreshSecret :
              CommitNew(w, k, [copied[w] EXCEPT !.secret = s], {job[w].key})

\* revoke_credential: only a key of the caller's own.
Revoke(u, k) == k \in Keys(u) /\ Withdraw({k})

\* revoke_all_for_tenant, the end of remove_user.
Purge(u, t) ==
    LET gone == {k \in Keys(u) : cred[k].tenant = t}
    IN  gone # {} /\ Withdraw(gone)

-----------------------------------------------------------------------------
\* Deliberately wrong: the generation is told from the key alone, which a rotation
\* in place does not change.
SelectByKey(w) ==
    LET row == cred[job[w].key]
    IN  /\ stage[w] = "select"
        /\ row # None /\ row.tenant = job[w].tenant /\ job[w].scopes \subseteq row.scopes
        /\ job[w].op = "login" => row.secret = job[w].secret
        /\ Goto(w, "touch")
        /\ read' = [read EXCEPT ![w] = job[w].secret]
        /\ UNCHANGED <<store, session, job, copied, history>>

\* check, when every test on the row passes.
Select(w) ==
    LET row == cred[job[w].key]
    IN  /\ stage[w] = "select"
        /\ row # None /\ row.tenant = job[w].tenant /\ job[w].scopes \subseteq row.scopes
        /\ job[w].op = "login" => row.secret = job[w].secret
        /\ Goto(w, "touch")
        /\ read' = [read EXCEPT ![w] = row.secret]
        /\ UNCHANGED <<store, session, job, copied, history>>

\* The door's answer to a credential that is good: a login mints a session that
\* carries the generation, a refresh compares it with the session's.
Honoured(w) == stage[w] = "touch" /\ read[w] = job[w].secret

Touch(w) ==
    /\ Honoured(w)
    /\ session' = IF job[w].op = "refresh" THEN session
                  ELSE [key |-> job[w].key, tenant |-> job[w].tenant,
                        scope |-> CHOOSE d \in Scope : job[w].scopes = {d},
                        generation |-> read[w]]
    /\ Answered(w)
    /\ mark' = [mark EXCEPT ![w] = {}]
    /\ UNCHANGED <<store, surplus>>

\* A refresh that finds another generation, or that is refused: the session ends.
EndSession(w) ==
    /\ stage[w] \in {"select", "touch"} /\ job[w].op = "refresh" /\ ~Honoured(w)
    /\ session' = IF session # None /\ session.generation = job[w].secret THEN None ELSE session
    /\ Answered(w)
    /\ mark' = [mark EXCEPT ![w] = {}]
    /\ UNCHANGED <<store, surplus>>

\* A request is refused, or the database fails under it: its transaction is rolled
\* back.
Abort(w) ==
    /\ stage[w] # "idle"
    /\ Answered(w)
    /\ mark' = [mark EXCEPT ![w] = {}]
    /\ UNCHANGED <<store, session, surplus>>

-----------------------------------------------------------------------------
NextArrival(w) ==
    \/ \E u \in User, t \in Tenant, S \in ScopeSets : Create(w, u, t, S)
    \/ \E o \in {"rotate", "replace"}, u \in User, k \in KeyId : Rotate(w, o, u, k)
    \/ \E s \in Secret, t \in Tenant, d \in Scope : Login(w, s, t, d)
    \/ Refresh(w)

NextStatement(w) ==
    \/ Count(w) \/ Insert(w)
    \/ Own(w) \/ Update(w) \/ Copy(w) \/ Drop(w)
    \/ Select(w) \/ Touch(w) \/ EndSession(w) \/ Abort(w)

Next ==
    \/ \E w \in Worker : NextArrival(w) \/ NextStatement(w)
    \/ \E u \in User, k \in KeyId : Revoke(u, k)
    \/ \E u \in User, t \in Tenant : Purge(u, t)

Spec == Init /\ [][Next]_vars

-----------------------------------------------------------------------------
TypeOK ==
    /\ cred \in [KeyId -> Row \cup {None}]
    /\ home \in [Secret -> KeyId \cup {None}]
    /\ session \in Session \cup {None}
    /\ stage \in [Worker -> Stage]
    /\ job \in [Worker -> Job \cup {None}]
    /\ \A w \in Worker : stage[w] = "idle" <=> job[w] = None
    /\ read \in [Worker -> Secret \cup {None}]
    /\ copied \in [Worker -> Row \cup {None}]
    /\ mark \in [Worker -> SUBSET Mark]
    /\ surplus \in [User -> Nat]

\* secret_generation: a secret that had been rotated away, or whose key was revoked
\* or purged, before the door asked is honoured neither at a login nor at the
\* refresh of a session minted from it.
EndedSecretsRefused == \A w \in Worker : Honoured(w) => "late" \notin mark[w]

\* create_credential counts and then inserts, and rotate copies and then deletes:
\* a user has more keys than the limit only by requests that raced one another.
CapExceededOnlyByRaces == \A u \in User : Cardinality(Keys(u)) <= Max + surplus[u]

\* The INSERT ... SELECT of rotate: a rotation brings a key that is gone back under
\* a new id only if it went while the copy was already written and uncommitted.
CopyOutlivesKey ==
    \A w \in Worker :
        stage[w] = "drop" /\ cred' # cred /\ cred[job[w].key] = None /\ stage'[w] = "idle"
          => "overtaken" \in mark[w]
CopyOutlivesKeyOnlyByRace == [][CopyOutlivesKey]_vars
=============================================================================
