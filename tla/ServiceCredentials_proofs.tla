----------------------- MODULE ServiceCredentials_proofs -----------------------
(***************************************************************************)
(* Proofs about ServiceCredentials, for any users, tenants, keys, limit    *)
(* and number of overlapping requests.                                     *)
(***************************************************************************)
EXTENDS ServiceCredentials, FiniteSetTheorems, TLAPS

\* What a request carries at each stage beside its types.
Carries(w) ==
    /\ stage[w] \in {"count", "insert"} =>
         job[w].op = "create" /\ job[w].user \in User /\ job[w].tenant \in Tenant
    /\ stage[w] \in {"own", "update", "copy", "drop"} =>
         /\ job[w].op \in {"rotate", "replace"} /\ job[w].user \in User
         /\ job[w].key \in KeyId
         /\ \E s \in Secret : home[s] = job[w].key
    /\ stage[w] \in {"select", "touch"} =>
         /\ job[w].op \in {"login", "refresh"} /\ job[w].key \in KeyId
         /\ job[w].tenant \in Tenant /\ job[w].secret \in Secret
         /\ \E d \in Scope : job[w].scopes = {d}
         /\ home[job[w].secret] # None
    /\ stage[w] = "touch" => read[w] \in Secret

\* A secret that the door remembers was handed out once.
SessionMinted == session # None => home[session.generation] # None

TypeInv == TypeOK /\ (\A w \in Worker : Carries(w)) /\ SessionMinted

LEMMA TypeInit == Init => TypeInv
  BY NoneAssumption DEF Init, TypeInv, TypeOK, Carries, SessionMinted, Stage

\* The end of a request.
LEMMA AnsweredOne ==
    ASSUME TypeInv, NEW w \in Worker, Answered(w)
    PROVE  /\ stage' \in [Worker -> Stage] /\ job' \in [Worker -> Job \cup {None}]
           /\ read' \in [Worker -> Secret \cup {None}]
           /\ copied' \in [Worker -> Row \cup {None}]
           /\ stage'[w] = "idle" /\ job'[w] = None
           /\ \A v \in Worker \ {w} :
                stage'[v] = stage[v] /\ job'[v] = job[v] /\ read'[v] = read[v]
                /\ copied'[v] = copied[v]
  BY DEF Answered, Goto, TypeInv, TypeOK, Stage

LEMMA GotoOne ==
    ASSUME TypeInv, NEW w \in Worker, NEW s \in Stage, Goto(w, s)
    PROVE  /\ stage' \in [Worker -> Stage] /\ stage'[w] = s
           /\ \A v \in Worker \ {w} : stage'[v] = stage[v]
  BY DEF Goto, TypeInv, TypeOK

\* A request that the step leaves alone carries what it carried, as long as no
\* secret is forgotten.
LEMMA CarriesStays ==
    ASSUME TypeInv, NEW v \in Worker,
           stage'[v] = stage[v], job'[v] = job[v], read'[v] = read[v],
           \A s \in Secret : home[s] # None => home'[s] = home[s]
    PROVE  Carries(v)'
  <1>1. Carries(v)
    BY DEF TypeInv
  <1>2. stage[v] \in {"own", "update", "copy", "drop"} => \E s \in Secret : home'[s] = job'[v].key
    <2> SUFFICES ASSUME stage[v] \in {"own", "update", "copy", "drop"}
                 PROVE  \E s \in Secret : home'[s] = job'[v].key
      OBVIOUS
    <2>1. job[v].key \in KeyId /\ \E s \in Secret : home[s] = job[v].key
      BY <1>1 DEF Carries
    <2> QED BY <2>1, NoneAssumption
  <1> QED BY <1>1, <1>2 DEF Carries

\* A commit of a new row: the rows are those of c, and only r's fresh secret is new.
LEMMA Commits ==
    ASSUME TypeInv, NEW w \in Worker, NEW k \in FreshKey, NEW r \in Row, NEW gone,
           r.secret \in FreshSecret, CommitNew(w, k, r, gone)
    PROVE  /\ cred' = [i \in KeyId |-> IF i = k THEN r ELSE IF i \in gone THEN None ELSE cred[i]]
           /\ cred' \in [KeyId -> Row \cup {None}]
           /\ home' \in [Secret -> KeyId \cup {None}]
           /\ mark' \in [Worker -> SUBSET Mark]
           /\ surplus' \in [User -> Nat]
           /\ \A s \in Secret : home[s] # None => home'[s] = home[s]
           /\ \A u \in User : surplus[u] <= surplus'[u]
           /\ Raced(w) => surplus'[r.owner] = surplus[r.owner] + 1
           /\ Answered(w) /\ session' = session
  <1> DEFINE c == [i \in KeyId |-> IF i = k THEN r ELSE IF i \in gone THEN None ELSE cred[i]]
  <1>1. /\ cred' = c /\ home' = [home EXCEPT ![r.secret] = k]
        /\ mark' = [MarksAfter(c) EXCEPT ![w] = {}]
        /\ surplus' = IF Raced(w) THEN [surplus EXCEPT ![r.owner] = @ + 1] ELSE surplus
        /\ Answered(w) /\ session' = session
    BY DEF CommitNew
  <1>2. k \in KeyId /\ r.secret \in Secret /\ home[r.secret] = None /\ r.owner \in User
    BY DEF FreshKey, FreshSecret, Row
  <1>3. c \in [KeyId -> Row \cup {None}]
    BY DEF TypeInv, TypeOK
  <1>4. MarksAfter(c) \in [Worker -> SUBSET Mark]
    BY DEF MarksAfter, TypeInv, TypeOK
  <1>5. mark' \in [Worker -> SUBSET Mark]
    BY <1>1, <1>4
  <1>6. /\ surplus' \in [User -> Nat]
        /\ \A u \in User : surplus[u] <= surplus'[u]
        /\ Raced(w) => surplus'[r.owner] = surplus[r.owner] + 1
    <2>1. surplus \in [User -> Nat]
      BY DEF TypeInv, TypeOK
    <2> QED BY <1>1, <1>2, <2>1
  <1>7. /\ home' \in [Secret -> KeyId \cup {None}]
        /\ \A s \in Secret : home[s] # None => home'[s] = home[s]
    BY <1>1, <1>2 DEF TypeInv, TypeOK
  <1> QED BY <1>1, <1>3, <1>5, <1>6, <1>7

\* Rows that go take nothing else with them, and leave their marks.
LEMMA Withdrawal ==
    ASSUME TypeInv, NEW gone, Withdraw(gone)
    PROVE  /\ cred' = [k \in KeyId |-> IF k \in gone THEN None ELSE cred[k]]
           /\ cred' \in [KeyId -> Row \cup {None}]
           /\ mark' \in [Worker -> SUBSET Mark]
           /\ mark' = MarksAfter(cred')
           /\ UNCHANGED <<home, session, request, surplus>>
  BY DEF Withdraw, MarksAfter, TypeInv, TypeOK

\* What the request of a worker is when it arrives.
LEMMA Arrives ==
    ASSUME TypeInv, NEW w \in Worker, NextArrival(w)
    PROVE  /\ stage[w] = "idle" /\ UNCHANGED <<store, session, read, copied, surplus>>
           /\ \E j \in Job, s \in {"count", "own", "select"}, m \in SUBSET {"late"} :
                /\ Arrive(w, j, s, m)
                /\ s = "count" => j.op = "create" /\ j.user \in User /\ j.tenant \in Tenant
                /\ s = "own" => /\ j.op \in {"rotate", "replace"} /\ j.user \in User
                                /\ j.key \in KeyId /\ \E x \in Secret : home[x] = j.key
                /\ s = "select" => /\ j.op \in {"login", "refresh"} /\ j.key \in KeyId
                                   /\ j.tenant \in Tenant /\ j.secret \in Secret
                                   /\ \E d \in Scope : j.scopes = {d}
                                   /\ home[j.secret] # None
                                   /\ "late" \in m => ~Holds(j.key, j.secret)
  <1>1. CASE \E u \in User, t \in Tenant, S \in ScopeSets : Create(w, u, t, S)
    <2>1. PICK u \in User, t \in Tenant, S \in ScopeSets : Create(w, u, t, S)
      BY <1>1
    <2> DEFINE j == Request("create", u, None, t, Normal(S), None)
    <2>2. Normal(S) \in SUBSET Scope
      BY CredentialAssumption DEF Normal
    <2>3. j \in Job /\ j.op = "create" /\ j.user \in User /\ j.tenant \in Tenant
      BY <2>2 DEF Request, Job
    <2>4. Arrive(w, j, "count", {})
      BY <2>1 DEF Create
    <2> QED BY <2>3, <2>4 DEF Arrive
  <1>2. CASE \E o \in {"rotate", "replace"}, u \in User, k \in KeyId : Rotate(w, o, u, k)
    <2>1. PICK o \in {"rotate", "replace"}, u \in User, k \in KeyId : Rotate(w, o, u, k)
      BY <1>2
    <2> DEFINE j == Request(o, u, k, None, {}, None)
    <2>2. /\ j \in Job /\ j.op \in {"rotate", "replace"} /\ j.user \in User
          /\ j.key \in KeyId /\ j.key = k
      BY DEF Request, Job
    <2>3. Arrive(w, j, "own", {}) /\ \E x \in Secret : home[x] = j.key
      BY <2>1, <2>2 DEF Rotate
    <2> QED BY <2>2, <2>3 DEF Arrive
  <1>3. CASE \E s \in Secret, t \in Tenant, d \in Scope : Login(w, s, t, d)
    <2>1. PICK s \in Secret, t \in Tenant, d \in Scope : Login(w, s, t, d)
      BY <1>3
    <2> DEFINE j == Request("login", None, home[s], t, {d}, s)
               m == IF Holds(home[s], s) THEN {} ELSE {"late"}
    <2>2. home[s] # None /\ Arrive(w, j, "select", m)
      BY <2>1 DEF Login
    <2>3. home[s] \in KeyId
      BY <2>2 DEF TypeInv, TypeOK
    <2>4. /\ j \in Job /\ j.op = "login" /\ j.key = home[s] /\ j.tenant = t
          /\ j.secret = s /\ j.scopes = {d}
      BY <2>3 DEF Request, Job
    <2>5. m \in SUBSET {"late"} /\ ("late" \in m => ~Holds(j.key, j.secret))
      BY <2>4
    <2> HIDE DEF j, m
    <2> QED BY <2>2, <2>3, <2>4, <2>5 DEF Arrive
  <1>4. CASE Refresh(w)
    <2> DEFINE j == Request("refresh", None, session.key, session.tenant, {session.scope},
                            session.generation)
               m == IF Holds(session.key, session.generation) THEN {} ELSE {"late"}
    <2>1. session # None /\ Arrive(w, j, "select", m)
      BY <1>4 DEF Refresh
    <2>2. session \in Session /\ home[session.generation] # None
      BY <2>1 DEF TypeInv, TypeOK, SessionMinted
    <2>3. /\ j \in Job /\ j.op = "refresh" /\ j.key = session.key /\ j.key \in KeyId
          /\ j.tenant \in Tenant /\ j.secret = session.generation /\ j.secret \in Secret
          /\ session.scope \in Scope /\ j.scopes = {session.scope}
      BY <2>2 DEF Request, Job, Session
    <2>4. m \in SUBSET {"late"} /\ ("late" \in m => ~Holds(j.key, j.secret))
      BY <2>3
    <2> HIDE DEF j, m
    <2> QED BY <2>1, <2>2, <2>3, <2>4 DEF Arrive
  <1> QED BY <1>1, <1>2, <1>3, <1>4 DEF NextArrival

\* A rotation that deletes the old row commits the copy under a fresh secret, or
\* nothing at all.
LEMMA Drops ==
    ASSUME TypeInv, NEW w \in Worker, Drop(w)
    PROVE  /\ stage[w] = "drop"
           /\ \/ /\ copied[w] = None /\ Answered(w) /\ mark' = [mark EXCEPT ![w] = {}]
                 /\ UNCHANGED <<store, session, surplus>>
              \/ /\ copied[w] \in Row
                 /\ \E k \in FreshKey, r \in Row :
                      /\ r.secret \in FreshSecret /\ r.owner = copied[w].owner
                      /\ CommitNew(w, k, r, {job[w].key})
  <1>1. CASE copied[w] = None
    BY <1>1 DEF Drop
  <1>2. CASE copied[w] # None
    <2>1. copied[w] \in Row
      BY <1>2 DEF TypeInv, TypeOK
    <2>2. PICK k \in FreshKey, s \in FreshSecret :
             CommitNew(w, k, [copied[w] EXCEPT !.secret = s], {job[w].key})
      BY <1>2 DEF Drop
    <2> DEFINE r == [copied[w] EXCEPT !.secret = s]
    <2>3. r \in Row /\ r.secret = s /\ r.owner = copied[w].owner
      BY <2>1 DEF Row, FreshSecret
    <2> HIDE DEF r
    <2> QED BY <1>2, <2>1, <2>2, <2>3 DEF Drop, r
  <1> QED BY <1>1, <1>2

\* A creation commits a row of its caller's under a fresh secret.
LEMMA Inserts ==
    ASSUME TypeInv, NEW w \in Worker, Insert(w)
    PROVE  /\ stage[w] = "insert"
           /\ \E k \in FreshKey, r \in Row :
                /\ r.secret \in FreshSecret /\ r.owner = job[w].user
                /\ CommitNew(w, k, r, {})
  <1>1. stage[w] = "insert"
    BY DEF Insert
  <1>2. PICK k \in FreshKey, s \in FreshSecret :
          CommitNew(w, k, [owner |-> job[w].user, tenant |-> job[w].tenant,
                           scopes |-> job[w].scopes, secret |-> s], {})
    BY DEF Insert
  <1> DEFINE r == [owner |-> job[w].user, tenant |-> job[w].tenant,
                   scopes |-> job[w].scopes, secret |-> s]
  <1>3. job[w] \in Job /\ job[w].user \in User /\ job[w].tenant \in Tenant
    BY <1>1 DEF TypeInv, TypeOK, Carries
  <1>4. r \in Row /\ r.secret = s /\ r.owner = job[w].user
    BY <1>3 DEF Row, Job, FreshSecret
  <1> QED BY <1>1, <1>2, <1>4

\* A rotation in place gives the row a fresh secret and changes nothing else.
LEMMA Updates ==
    ASSUME TypeInv, NEW w \in Worker, Update(w)
    PROVE  /\ stage[w] = "update" /\ Answered(w) /\ UNCHANGED <<session, history>>
           /\ cred' \in [KeyId -> Row \cup {None}] /\ home' \in [Secret -> KeyId \cup {None}]
           /\ \A s \in Secret : home[s] # None => home'[s] = home[s]
           /\ \A k \in KeyId : /\ (cred'[k] = None) <=> (cred[k] = None)
                               /\ cred[k] # None => cred'[k].owner = cred[k].owner
                               /\ \/ cred'[k] = cred[k]
                                  \/ cred'[k].secret \in FreshSecret
  <1>1. stage[w] = "update" /\ Answered(w) /\ UNCHANGED <<session, history>>
    BY DEF Update
  <1>2. job[w].key \in KeyId
    BY <1>1 DEF TypeInv, Carries
  <1>3. CASE ~Owned(w)
    BY <1>1, <1>3 DEF Update, store, TypeInv, TypeOK
  <1>4. CASE Owned(w)
    <2>1. PICK s \in FreshSecret : /\ cred' = [cred EXCEPT ![job[w].key].secret = s]
                                   /\ home' = [home EXCEPT ![s] = job[w].key]
      BY <1>4 DEF Update
    <2>2. cred[job[w].key] \in Row /\ s \in Secret /\ home[s] = None
      BY <1>2, <1>4 DEF Owned, TypeInv, TypeOK, FreshSecret
    <2> DEFINE r == [cred[job[w].key] EXCEPT !.secret = s]
    <2>3. r \in Row /\ r.secret = s /\ r.owner = cred[job[w].key].owner
      BY <2>2 DEF Row
    <2>4. cred \in [KeyId -> Row \cup {None}] /\ home \in [Secret -> KeyId \cup {None}]
      BY DEF TypeInv, TypeOK
    <2>5. cred' = [cred EXCEPT ![job[w].key] = r]
      BY <2>1
    <2>6. r # None
      BY <2>3, NoneAssumption
    <2> HIDE DEF r
    <2>7. \A k \in KeyId : cred'[k] = IF k = job[w].key THEN r ELSE cred[k]
      BY <2>4, <2>5
    <2>8. cred' \in [KeyId -> Row \cup {None}]
      BY <2>3, <2>4, <2>5
    <2>9. /\ home' \in [Secret -> KeyId \cup {None}]
          /\ \A x \in Secret : home[x] # None => home'[x] = home[x]
      BY <1>2, <2>1, <2>2, <2>4
    <2>10. cred[job[w].key] # None
      BY <1>4 DEF Owned
    <2> QED BY <1>1, <2>3, <2>6, <2>7, <2>8, <2>9, <2>10
  <1> QED BY <1>3, <1>4

\* A request that is answered leaves every other what it was.
LEMMA AnsweredTyped ==
    ASSUME TypeInv, NEW w \in Worker, Answered(w),
           cred' \in [KeyId -> Row \cup {None}], home' \in [Secret -> KeyId \cup {None}],
           mark' \in [Worker -> SUBSET Mark], surplus' \in [User -> Nat],
           session' \in Session \cup {None}, SessionMinted',
           \A s \in Secret : home[s] # None => home'[s] = home[s]
    PROVE  TypeInv'
  <1>1. TypeOK'
    <2>1. \A v \in Worker : stage[v] = "idle" <=> job[v] = None
      BY DEF TypeInv, TypeOK
    <2>2. \A v \in Worker : stage'[v] = "idle" <=> job'[v] = None
      BY <2>1, AnsweredOne
    <2> QED BY <2>2, AnsweredOne DEF TypeOK
  <1>2. ASSUME NEW v \in Worker PROVE Carries(v)'
    <2>1. CASE v = w
      BY <2>1, AnsweredOne DEF Carries
    <2>2. CASE v # w
      BY <2>2, AnsweredOne, CarriesStays
    <2> QED BY <2>1, <2>2
  <1> QED BY <1>1, <1>2 DEF TypeInv

\* A request that goes on to its next statement and commits nothing.
LEMMA GoesOn ==
    ASSUME TypeInv, NEW w \in Worker, NEW s \in Stage \ {"idle"}, stage[w] # "idle",
           Goto(w, s), UNCHANGED <<store, session, job, surplus>>,
           mark' \in [Worker -> SUBSET Mark],
           read' \in [Worker -> Secret \cup {None}], copied' \in [Worker -> Row \cup {None}],
           \A v \in Worker \ {w} : read'[v] = read[v],
           Carries(w)'
    PROVE  TypeInv'
  <1>1. TypeOK'
    <2>1. \A v \in Worker : stage[v] = "idle" <=> job[v] = None
      BY DEF TypeInv, TypeOK
    <2>2. \A v \in Worker : stage'[v] = "idle" <=> job'[v] = None
      BY <2>1, GotoOne
    <2> QED BY <2>2, GotoOne DEF TypeOK, TypeInv, store
  <1>2. ASSUME NEW v \in Worker \ {w} PROVE Carries(v)'
    <2>1. stage'[v] = stage[v] /\ job'[v] = job[v] /\ read'[v] = read[v]
      BY GotoOne
    <2>2. \A x \in Secret : home[x] # None => home'[x] = home[x]
      BY DEF store
    <2> QED BY <2>1, <2>2, CarriesStays
  <1>3. SessionMinted'
    BY DEF TypeInv, SessionMinted, store
  <1> QED BY <1>1, <1>2, <1>3 DEF TypeInv

\* Whatever a step does, requests and rows keep their types.
LEMMA TypeStep == TypeInv /\ [Next]_vars => TypeInv'
  <1> SUFFICES ASSUME TypeInv, [Next]_vars PROVE TypeInv'
    OBVIOUS
  <1> USE DEF Stage
  <1>0. /\ cred \in [KeyId -> Row \cup {None}] /\ home \in [Secret -> KeyId \cup {None}]
        /\ session \in Session \cup {None} /\ read \in [Worker -> Secret \cup {None}]
        /\ copied \in [Worker -> Row \cup {None}] /\ mark \in [Worker -> SUBSET Mark]
        /\ surplus \in [User -> Nat] /\ SessionMinted
    BY DEF TypeInv, TypeOK
  <1>a. ASSUME NEW w \in Worker
        PROVE  [mark EXCEPT ![w] = {}] \in [Worker -> SUBSET Mark]
    BY <1>0
  <1>b. ASSUME NEW w \in Worker, Answered(w), UNCHANGED <<store, session, surplus>>,
               mark' = mark \/ mark' = [mark EXCEPT ![w] = {}]
        PROVE  TypeInv'
    <2>1. SessionMinted' /\ \A s \in Secret : home[s] # None => home'[s] = home[s]
      BY <1>0, <1>b DEF SessionMinted, store
    <2>2. mark' \in [Worker -> SUBSET Mark]
      BY <1>0, <1>a, <1>b
    <2> QED BY <1>0, <1>b, <2>1, <2>2, AnsweredTyped DEF store
  <1>c. ASSUME NEW w \in Worker, NEW k \in FreshKey, NEW r \in Row, NEW gone,
               r.secret \in FreshSecret, CommitNew(w, k, r, gone)
        PROVE  TypeInv'
    <2>1. /\ cred' \in [KeyId -> Row \cup {None}] /\ home' \in [Secret -> KeyId \cup {None}]
          /\ mark' \in [Worker -> SUBSET Mark] /\ surplus' \in [User -> Nat]
          /\ Answered(w) /\ session' = session
          /\ \A s \in Secret : home[s] # None => home'[s] = home[s]
      BY <1>c, Commits
    <2>2. session' \in Session \cup {None} /\ SessionMinted'
      <3>1. session # None => session.generation \in Secret
        BY <1>0 DEF Session
      <3> QED BY <1>0, <2>1, <3>1 DEF SessionMinted
    <2> QED BY <2>1, <2>2, AnsweredTyped
  <1>1. ASSUME NEW w \in Worker, NextArrival(w) PROVE TypeInv'
    <2>1. PICK j \in Job, s \in {"count", "own", "select"}, m \in SUBSET {"late"} :
            /\ Arrive(w, j, s, m)
            /\ s = "count" => j.op = "create" /\ j.user \in User /\ j.tenant \in Tenant
            /\ s = "own" => /\ j.op \in {"rotate", "replace"} /\ j.user \in User
                            /\ j.key \in KeyId /\ \E x \in Secret : home[x] = j.key
            /\ s = "select" => /\ j.op \in {"login", "refresh"} /\ j.key \in KeyId
                               /\ j.tenant \in Tenant /\ j.secret \in Secret
                               /\ \E d \in Scope : j.scopes = {d}
                               /\ home[j.secret] # None
      BY <1>1, Arrives
    <2>2. /\ stage' = [stage EXCEPT ![w] = s] /\ job' = [job EXCEPT ![w] = j]
          /\ mark' = [mark EXCEPT ![w] = m]
          /\ UNCHANGED <<store, session, read, copied, surplus>>
      BY <2>1 DEF Arrive, Goto
    <2>3. /\ stage \in [Worker -> Stage] /\ job \in [Worker -> Job \cup {None}]
          /\ \A v \in Worker : stage[v] = "idle" <=> job[v] = None
      BY DEF TypeInv, TypeOK
    <2>4. stage'[w] = s /\ job'[w] = j
          /\ \A v \in Worker \ {w} : stage'[v] = stage[v] /\ job'[v] = job[v]
      BY <2>2, <2>3
    <2>5. j # None /\ m \in SUBSET Mark
      BY NoneAssumption DEF Mark
    <2>6. TypeOK'
      <3>1. \A v \in Worker : stage'[v] = "idle" <=> job'[v] = None
        BY <2>3, <2>4, <2>5
      <3>2. mark' \in [Worker -> SUBSET Mark]
        BY <1>0, <2>2, <2>5
      <3>3. stage' \in [Worker -> Stage] /\ job' \in [Worker -> Job \cup {None}]
        BY <2>2, <2>3
      <3> QED BY <1>0, <2>2, <3>1, <3>2, <3>3 DEF TypeOK, store
    <2>7. Carries(w)'
      BY <2>1, <2>2, <2>4 DEF Carries, store
    <2>8. ASSUME NEW v \in Worker \ {w} PROVE Carries(v)'
      <3>1. /\ stage'[v] = stage[v] /\ job'[v] = job[v] /\ read'[v] = read[v]
            /\ \A x \in Secret : home[x] # None => home'[x] = home[x]
        BY <2>2, <2>4 DEF store
      <3> QED BY <3>1, CarriesStays
    <2>9. SessionMinted'
      BY <1>0, <2>2 DEF SessionMinted, store
    <2> QED BY <2>6, <2>7, <2>8, <2>9 DEF TypeInv
  <1>2. ASSUME NEW w \in Worker, Count(w) PROVE TypeInv'
    <2>1. /\ stage[w] = "count" /\ mark' = [mark EXCEPT ![w] = {}]
          /\ UNCHANGED <<store, session, surplus>>
          /\ Answered(w) \/ (Goto(w, "insert") /\ UNCHANGED <<job, read, copied>>)
      BY <1>2 DEF Count
    <2>2. CASE Goto(w, "insert") /\ UNCHANGED <<job, read, copied>>
      <3>1. Carries(w)
        BY DEF TypeInv
      <3>2. Carries(w)'
        BY <2>1, <2>2, <3>1, GotoOne DEF Carries
      <3> QED BY <1>0, <1>a, <2>1, <2>2, <3>2, GoesOn
    <2> QED BY <1>b, <2>1, <2>2
  <1>3. ASSUME NEW w \in Worker, Insert(w) PROVE TypeInv'
    BY <1>3, <1>c, Inserts
  <1>4. ASSUME NEW w \in Worker, Own(w) PROVE TypeInv'
    <2>1. /\ stage[w] = "own" /\ UNCHANGED <<store, session, history>>
          /\ \/ Answered(w)
             \/ /\ UNCHANGED <<job, read, copied>>
                /\ \E s \in {"update", "copy"} : Goto(w, s)
      BY <1>4 DEF Own
    <2>2. CASE UNCHANGED <<job, read, copied>> /\ \E s \in {"update", "copy"} : Goto(w, s)
      <3>1. PICK s \in {"update", "copy"} : Goto(w, s)
        BY <2>2
      <3>2. Carries(w)
        BY DEF TypeInv
      <3>3. Carries(w)'
        BY <2>1, <2>2, <3>1, <3>2, GotoOne DEF Carries, store
      <3> QED BY <1>0, <2>1, <2>2, <3>1, <3>3, GoesOn DEF history
    <2> QED BY <1>b, <2>1, <2>2 DEF history
  <1>5. ASSUME NEW w \in Worker, Update(w) PROVE TypeInv'
    <2>1. /\ Answered(w) /\ UNCHANGED <<session, history>>
          /\ cred' \in [KeyId -> Row \cup {None}] /\ home' \in [Secret -> KeyId \cup {None}]
          /\ \A s \in Secret : home[s] # None => home'[s] = home[s]
      BY <1>5, Updates
    <2>2. SessionMinted'
      <3>1. session # None => session.generation \in Secret
        BY <1>0 DEF Session
      <3> QED BY <1>0, <2>1, <3>1 DEF SessionMinted
    <2> QED BY <1>0, <2>1, <2>2, AnsweredTyped DEF history
  <1>6. ASSUME NEW w \in Worker, Copy(w) PROVE TypeInv'
    <2>1. /\ stage[w] = "copy" /\ Goto(w, "drop")
          /\ copied' = [copied EXCEPT ![w] = IF Owned(w) THEN cred[job[w].key] ELSE None]
          /\ UNCHANGED <<store, session, job, read, history>>
      BY <1>6 DEF Copy
    <2>2. Carries(w)
      BY DEF TypeInv
    <2>3. copied' \in [Worker -> Row \cup {None}]
      BY <1>0, <2>1, <2>2 DEF Carries
    <2>4. Carries(w)'
      BY <2>1, <2>2, GotoOne DEF Carries, store
    <2> QED BY <1>0, <2>1, <2>3, <2>4, GoesOn DEF history
  <1>7. ASSUME NEW w \in Worker, Drop(w) PROVE TypeInv'
    BY <1>7, <1>b, <1>c, Drops
  <1>8. ASSUME NEW w \in Worker, Select(w) PROVE TypeInv'
    <2>1. /\ stage[w] = "select" /\ cred[job[w].key] # None /\ Goto(w, "touch")
          /\ read' = [read EXCEPT ![w] = cred[job[w].key].secret]
          /\ UNCHANGED <<store, session, job, copied, history>>
      BY <1>8 DEF Select
    <2>2. Carries(w)
      BY DEF TypeInv
    <2>3. cred[job[w].key].secret \in Secret
      BY <1>0, <2>1, <2>2 DEF Carries, Row
    <2>4. Carries(w)'
      BY <1>0, <2>1, <2>2, <2>3, GotoOne DEF Carries, store
    <2> QED BY <1>0, <2>1, <2>3, <2>4, GoesOn DEF history
  <1>9. ASSUME NEW w \in Worker, Touch(w) PROVE TypeInv'
    <2> DEFINE sn == [key |-> job[w].key, tenant |-> job[w].tenant,
                      scope |-> CHOOSE d \in Scope : job[w].scopes = {d},
                      generation |-> read[w]]
    <2>1. /\ stage[w] = "touch" /\ read[w] = job[w].secret
          /\ session' = IF job[w].op = "refresh" THEN session ELSE sn
          /\ Answered(w) /\ mark' = [mark EXCEPT ![w] = {}]
          /\ UNCHANGED <<store, surplus>>
      BY <1>9 DEF Touch, Honoured
    <2>2. Carries(w)
      BY DEF TypeInv
    <2>3. (CHOOSE d \in Scope : job[w].scopes = {d}) \in Scope
      BY <2>1, <2>2 DEF Carries
    <2>4. sn \in Session /\ home[sn.generation] # None
      BY <2>1, <2>2, <2>3 DEF Carries, Session
    <2> HIDE DEF sn
    <2>5. session' \in Session \cup {None} /\ SessionMinted'
      BY <1>0, <2>1, <2>4 DEF SessionMinted, store
    <2>6. \A s \in Secret : home[s] # None => home'[s] = home[s]
      BY <2>1 DEF store
    <2> QED BY <1>0, <1>a, <2>1, <2>5, <2>6, AnsweredTyped DEF store
  <1>10. ASSUME NEW w \in Worker, EndSession(w) PROVE TypeInv'
    <2>1. /\ session' = session \/ session' = None
          /\ Answered(w) /\ mark' = [mark EXCEPT ![w] = {}]
          /\ UNCHANGED <<store, surplus>>
      BY <1>10 DEF EndSession
    <2>2. session' \in Session \cup {None} /\ SessionMinted'
      BY <1>0, <2>1 DEF SessionMinted, store
    <2>3. \A s \in Secret : home[s] # None => home'[s] = home[s]
      BY <2>1 DEF store
    <2> QED BY <1>0, <1>a, <2>1, <2>2, <2>3, AnsweredTyped DEF store
  <1>11. ASSUME NEW w \in Worker, Abort(w) PROVE TypeInv'
    BY <1>11, <1>b DEF Abort
  <1>12. ASSUME NEW gone, Withdraw(gone) PROVE TypeInv'
    <2>1. /\ cred' \in [KeyId -> Row \cup {None}] /\ mark' \in [Worker -> SUBSET Mark]
          /\ UNCHANGED <<home, session, request, surplus>>
      BY <1>12, Withdrawal
    <2> QED BY <2>1 DEF TypeInv, TypeOK, Carries, SessionMinted, request
  <1>13. CASE UNCHANGED vars
    BY <1>13 DEF TypeInv, TypeOK, Carries, SessionMinted, vars, store, request, history
  <1> QED
    BY <1>1, <1>2, <1>3, <1>4, <1>5, <1>6, <1>7, <1>8, <1>9, <1>10, <1>11, <1>12, <1>13
       DEF Next, NextStatement, Revoke, Purge

\* Every reachable state is typed, and a request at work has a job.
THEOREM TypeCorrect == Spec => []TypeOK
  <1>1. TypeInv => TypeOK
    BY DEF TypeInv
  <1> QED BY <1>1, TypeInit, TypeStep, PTL DEF Spec

-----------------------------------------------------------------------------
\* What a step of another request does to the request of v: it may leave a mark.
Kept(v) ==
    /\ stage'[v] = stage[v] /\ job'[v] = job[v] /\ read'[v] = read[v] /\ copied'[v] = copied[v]
    /\ mark[v] \subseteq mark'[v]
    /\ "late" \in mark'[v] => "late" \in mark[v]
    /\ stage[v] = "insert" /\ "crowded" \notin mark'[v] =>
         \A k \in KeyId : cred[k] = None /\ cred'[k] # None => cred'[k].owner # job[v].user
    /\ stage[v] = "drop" /\ "overtaken" \notin mark'[v] =>
         (cred[job[v].key] # None => cred'[job[v].key] # None)

\* The marks of a change of the rows are those of its overtaken requests.
LEMMA MarksKept ==
    ASSUME TypeInv, NEW v \in Worker, cred' \in [KeyId -> Row \cup {None}],
           stage'[v] = stage[v], job'[v] = job[v], read'[v] = read[v], copied'[v] = copied[v],
           mark'[v] = MarksAfter(cred')[v]
    PROVE  Kept(v)
  <1>1. mark'[v] = mark[v] \cup
        {m \in Mark :
            \/ /\ m = "crowded" /\ stage[v] = "insert"
               /\ \E k \in KeyId : cred[k] = None /\ cred'[k] # None /\ cred'[k].owner = job[v].user
            \/ /\ m = "overtaken" /\ stage[v] = "drop"
               /\ cred[job[v].key] # None /\ cred'[job[v].key] = None}
    BY DEF MarksAfter
  <1>2. "crowded" \in Mark /\ "overtaken" \in Mark
    BY DEF Mark
  <1> QED BY <1>1, <1>2 DEF Kept

\* No key comes to light but the one a commit brings.
NothingNew == \A k \in KeyId : cred[k] = None => cred'[k] = None

LEMMA StoreKept ==
    ASSUME TypeInv, NEW w \in Worker,
           \A v \in Worker \ {w} :
                /\ stage'[v] = stage[v] /\ job'[v] = job[v] /\ read'[v] = read[v]
                /\ copied'[v] = copied[v] /\ mark'[v] = mark[v],
           \A k \in KeyId : (cred'[k] = None) <=> (cred[k] = None)
    PROVE  \A v \in Worker \ {w} : Kept(v)
  <1> SUFFICES ASSUME NEW v \in Worker \ {w} PROVE Kept(v)
    OBVIOUS
  <1>1. stage[v] = "drop" => job[v].key \in KeyId
    BY DEF TypeInv, Carries
  <1> QED BY <1>1 DEF Kept

LEMMA CommitKept ==
    ASSUME TypeInv, NEW w \in Worker, NEW k \in FreshKey, NEW r \in Row, NEW gone,
           r.secret \in FreshSecret, CommitNew(w, k, r, gone)
    PROVE  \A v \in Worker \ {w} : Kept(v)
  <1> SUFFICES ASSUME NEW v \in Worker \ {w} PROVE Kept(v)
    OBVIOUS
  <1>1. /\ cred' = [i \in KeyId |-> IF i = k THEN r ELSE IF i \in gone THEN None ELSE cred[i]]
        /\ cred' \in [KeyId -> Row \cup {None}] /\ Answered(w)
    BY Commits
  <1>2. mark' = [MarksAfter(cred') EXCEPT ![w] = {}]
    BY DEF CommitNew
  <1>3. mark'[v] = MarksAfter(cred')[v]
    BY <1>2 DEF MarksAfter
  <1> QED BY <1>1, <1>3, AnsweredOne, MarksKept

\* A request moves by its own statements only, and the others see what they mark.
LEMMA Witnessed ==
    ASSUME TypeInv, [Next]_vars, NEW v \in Worker
    PROVE  Kept(v) \/ NextArrival(v) \/ NextStatement(v)
  <1>1. ASSUME NEW w \in Worker \ {v}, Answered(w), UNCHANGED store,
               mark' = mark \/ mark' = [mark EXCEPT ![w] = {}]
        PROVE  Kept(v)
    <2>1. \A x \in Worker \ {w} : mark'[x] = mark[x]
      BY <1>1 DEF TypeInv, TypeOK
    <2> QED BY <1>1, <2>1, AnsweredOne, StoreKept DEF store
  <1>2. ASSUME NEW w \in Worker \ {v}, NEW s \in Stage, Goto(w, s),
               UNCHANGED <<store, job>>,
               read' = read \/ \E x \in Secret \cup {None} : read' = [read EXCEPT ![w] = x],
               copied' = copied \/ \E x : copied' = [copied EXCEPT ![w] = x],
               mark' = mark \/ mark' = [mark EXCEPT ![w] = {}]
        PROVE  Kept(v)
    <2>1. \A x \in Worker \ {w} : mark'[x] = mark[x] /\ read'[x] = read[x] /\ copied'[x] = copied[x]
      BY <1>2 DEF TypeInv, TypeOK
    <2> QED BY <1>2, <2>1, GotoOne, StoreKept DEF store
  <1>3. ASSUME NEW w \in Worker \ {v}, NextArrival(w) PROVE Kept(v)
    <2>1. PICK j \in Job, s \in {"count", "own", "select"}, m \in SUBSET {"late"} :
            Arrive(w, j, s, m)
      BY <1>3, Arrives
    <2>2. /\ stage' = [stage EXCEPT ![w] = s] /\ job' = [job EXCEPT ![w] = j]
          /\ mark' = [mark EXCEPT ![w] = m] /\ UNCHANGED <<store, read, copied>>
      BY <2>1 DEF Arrive, Goto
    <2>3. \A x \in Worker \ {w} :
             /\ stage'[x] = stage[x] /\ job'[x] = job[x] /\ read'[x] = read[x]
             /\ copied'[x] = copied[x] /\ mark'[x] = mark[x]
      BY <2>2 DEF TypeInv, TypeOK
    <2> QED BY <2>2, <2>3, StoreKept DEF store
  <1>4. ASSUME NEW w \in Worker \ {v}, NextStatement(w) PROVE Kept(v)
    <2> USE DEF Stage
    <2>1. CASE Count(w)
      BY <1>1, <1>2, <2>1 DEF Count
    <2>2. CASE Insert(w)
      BY <2>2, Inserts, CommitKept
    <2>3. CASE Own(w)
      <3>1. /\ UNCHANGED <<store, session, history>>
            /\ \/ Answered(w)
               \/ /\ UNCHANGED <<job, read, copied>>
                  /\ \E s \in {"update", "copy"} : Goto(w, s)
        BY <2>3 DEF Own
      <3> QED BY <1>1, <1>2, <3>1 DEF history
    <2>4. CASE Update(w)
      <3>1. /\ Answered(w) /\ mark' = mark
            /\ \A k \in KeyId : (cred'[k] = None) <=> (cred[k] = None)
        BY <2>4, Updates DEF history
      <3> QED BY <3>1, AnsweredOne, StoreKept
    <2>5. CASE Copy(w)
      BY <1>2, <2>5 DEF Copy, history
    <2>6. CASE Drop(w)
      BY <1>1, <2>6, Drops, CommitKept
    <2>7. CASE Select(w)
      <3>1. /\ stage[w] = "select" /\ cred[job[w].key] # None /\ Goto(w, "touch")
            /\ read' = [read EXCEPT ![w] = cred[job[w].key].secret]
            /\ UNCHANGED <<store, session, job, copied, history>>
        BY <2>7 DEF Select
      <3>2. cred[job[w].key].secret \in Secret
        BY <3>1 DEF TypeInv, TypeOK, Carries, Row
      <3> QED BY <1>2, <3>1, <3>2 DEF history
    <2>8. CASE Touch(w)
      BY <1>1, <2>8 DEF Touch
    <2>9. CASE EndSession(w)
      BY <1>1, <2>9 DEF EndSession
    <2>10. CASE Abort(w)
      BY <1>1, <2>10 DEF Abort
    <2> QED BY <1>4, <2>1, <2>2, <2>3, <2>4, <2>5, <2>6, <2>7, <2>8, <2>9, <2>10 DEF NextStatement
  <1>5. ASSUME NEW gone, Withdraw(gone) PROVE Kept(v)
    <2>1. /\ cred' \in [KeyId -> Row \cup {None}] /\ mark' = MarksAfter(cred')
          /\ UNCHANGED request
      BY <1>5, Withdrawal
    <2> QED BY <2>1, MarksKept DEF request
  <1>6. CASE UNCHANGED vars
    BY <1>6 DEF vars, store, request, history, Kept
  <1> QED BY <1>3, <1>4, <1>5, <1>6 DEF Next, Revoke, Purge

\* What a step may do to the rows: either no key is new, or one request commits one.
LEMMA RowsMove ==
    ASSUME TypeInv, [Next]_vars
    PROVE  /\ cred' \in [KeyId -> Row \cup {None}]
           /\ \A s \in Secret : home[s] # None => home'[s] = home[s]
           /\ \A k \in KeyId : cred[k] # None /\ cred'[k] # None =>
                /\ cred'[k].owner = cred[k].owner
                /\ cred'[k] = cred[k] \/ cred'[k].secret \in FreshSecret
           /\ \A k \in KeyId : cred[k] = None /\ cred'[k] # None => cred'[k].secret \in FreshSecret
           /\ \/ NothingNew /\ UNCHANGED surplus
              \/ \E w \in Worker, k \in FreshKey, r \in Row :
                    /\ r.secret \in FreshSecret
                    /\ \/ Insert(w) /\ stage[w] = "insert" /\ r.owner = job[w].user
                          /\ CommitNew(w, k, r, {})
                       \/ Drop(w) /\ stage[w] = "drop" /\ copied[w] \in Row
                          /\ r.owner = copied[w].owner /\ CommitNew(w, k, r, {job[w].key})
  <1> DEFINE Moved ==
           /\ cred' \in [KeyId -> Row \cup {None}]
           /\ \A s \in Secret : home[s] # None => home'[s] = home[s]
           /\ \A k \in KeyId : cred[k] # None /\ cred'[k] # None =>
                /\ cred'[k].owner = cred[k].owner
                /\ cred'[k] = cred[k] \/ cred'[k].secret \in FreshSecret
           /\ \A k \in KeyId : cred[k] = None /\ cred'[k] # None => cred'[k].secret \in FreshSecret
  <1>1. ASSUME UNCHANGED <<store, surplus>>
        PROVE  Moved /\ NothingNew /\ UNCHANGED surplus
    BY <1>1 DEF store, NothingNew, TypeInv, TypeOK
  <1>2. ASSUME NEW w \in Worker, NEW k \in FreshKey, NEW r \in Row, NEW gone,
               r.secret \in FreshSecret, CommitNew(w, k, r, gone)
        PROVE  Moved
    <2>1. /\ cred' = [i \in KeyId |-> IF i = k THEN r ELSE IF i \in gone THEN None ELSE cred[i]]
          /\ cred' \in [KeyId -> Row \cup {None}]
          /\ \A s \in Secret : home[s] # None => home'[s] = home[s]
      BY <1>2, Commits
    <2>2. cred[k] = None
      BY DEF FreshKey
    <2> QED BY <1>2, <2>1, <2>2
  <1>3. ASSUME NEW gone, Withdraw(gone)
        PROVE  Moved /\ NothingNew /\ UNCHANGED surplus
    BY <1>3, Withdrawal DEF NothingNew
  <1>4. ASSUME NEW w \in Worker, Update(w)
        PROVE  Moved /\ NothingNew /\ UNCHANGED surplus
    BY <1>4, Updates DEF NothingNew, history
  <1>5. ASSUME NEW w \in Worker, Insert(w)
        PROVE  Moved /\ \E k \in FreshKey, r \in Row :
                  /\ r.secret \in FreshSecret
                  /\ stage[w] = "insert" /\ r.owner = job[w].user /\ CommitNew(w, k, r, {})
    BY <1>2, <1>5, Inserts
  <1>6. ASSUME NEW w \in Worker, Drop(w)
        PROVE  \/ Moved /\ NothingNew /\ UNCHANGED surplus
               \/ Moved /\ \E k \in FreshKey, r \in Row :
                    /\ r.secret \in FreshSecret
                    /\ stage[w] = "drop" /\ copied[w] \in Row /\ r.owner = copied[w].owner
                    /\ CommitNew(w, k, r, {job[w].key})
    BY <1>1, <1>2, <1>6, Drops
  <1>7. ASSUME NEW w \in Worker, NextArrival(w)
        PROVE  Moved /\ NothingNew /\ UNCHANGED surplus
    BY <1>1, <1>7, Arrives
  <1>8. ASSUME NEW w \in Worker,
               \/ Count(w) \/ Own(w) \/ Copy(w) \/ Select(w)
               \/ Touch(w) \/ EndSession(w) \/ Abort(w)
        PROVE  Moved /\ NothingNew /\ UNCHANGED surplus
    BY <1>1, <1>8 DEF Count, Own, Copy, Select, Touch, EndSession, Abort, history
  <1>9. CASE UNCHANGED vars
    BY <1>1, <1>9 DEF vars, history
  <1> HIDE DEF Moved
  <1>10. CASE \E w \in Worker : NextArrival(w) \/ NextStatement(w)
    <2>1. PICK w \in Worker : NextArrival(w) \/ NextStatement(w)
      BY <1>10
    <2>2. Moved
      BY <1>4, <1>5, <1>6, <1>7, <1>8, <2>1 DEF NextStatement
    <2>3. CASE Insert(w)
      BY <1>5, <2>2, <2>3 DEF Moved
    <2>4. CASE Drop(w)
      BY <1>6, <2>2, <2>4 DEF Moved
    <2>5. CASE NextArrival(w) \/ (NextStatement(w) /\ ~Insert(w) /\ ~Drop(w))
      <3>1. NothingNew /\ UNCHANGED surplus
        BY <1>4, <1>7, <1>8, <2>5 DEF NextStatement
      <3> QED BY <2>2, <3>1 DEF Moved
    <2> QED BY <2>1, <2>3, <2>4, <2>5
  <1>11. CASE \E gone : Withdraw(gone)
    BY <1>3, <1>11 DEF Moved
  <1> QED BY <1>9, <1>10, <1>11 DEF Next, Revoke, Purge, Moved

-----------------------------------------------------------------------------
\* A check whose secret had ended when it came finds no row that holds it, and what
\* it has read is another secret.
Outdated(w) ==
    "late" \in mark[w] =>
        /\ stage[w] = "select" => ~Holds(job[w].key, job[w].secret)
        /\ stage[w] = "touch" => read[w] # job[w].secret
LateInv == \A w \in Worker : Outdated(w)

LEMMA LateInit == Init => LateInv
  BY DEF Init, LateInv, Outdated

LEMMA LateStep == TypeInv /\ LateInv /\ [Next]_vars => LateInv'
  <1> SUFFICES ASSUME TypeInv, LateInv, [Next]_vars, NEW v \in Worker PROVE Outdated(v)'
    BY DEF LateInv
  <1>1. ASSUME NEW k \in KeyId, NEW s \in Secret, home[s] # None, ~Holds(k, s)
        PROVE  ~Holds(k, s)'
    BY <1>1, RowsMove DEF Holds, FreshSecret
  <1>2. Carries(v) /\ Outdated(v)
    BY DEF TypeInv, LateInv
  <1>3. CASE Kept(v)
    BY <1>1, <1>2, <1>3 DEF Kept, Outdated, Carries, Holds
  <1>4. ASSUME Answered(v) PROVE Outdated(v)'
    BY <1>4, AnsweredOne DEF Outdated
  <1>5. CASE NextArrival(v)
    <2>1. PICK j \in Job, s \in {"count", "own", "select"}, m \in SUBSET {"late"} :
            /\ Arrive(v, j, s, m)
            /\ s = "select" /\ "late" \in m => ~Holds(j.key, j.secret)
      BY <1>5, Arrives
    <2>2. stage'[v] = s /\ job'[v] = j /\ mark'[v] = m /\ UNCHANGED store
      BY <2>1 DEF Arrive, Goto, TypeInv, TypeOK
    <2> QED BY <2>1, <2>2 DEF Outdated, Holds, store
  <1>6. CASE NextStatement(v)
    <2> USE DEF Stage
    <2>1. CASE Count(v)
      BY <1>4, <2>1, GotoOne DEF Count, Outdated
    <2>2. CASE Insert(v)
      BY <1>4, <2>2, Inserts, Commits
    <2>3. CASE Own(v)
      <3>1. Answered(v) \/ \E s \in {"update", "copy"} : Goto(v, s)
        BY <2>3 DEF Own
      <3> QED BY <1>4, <3>1, GotoOne DEF Outdated
    <2>4. CASE Update(v)
      BY <1>4, <2>4, Updates
    <2>5. CASE Copy(v)
      BY <2>5, GotoOne DEF Copy, Outdated
    <2>6. CASE Drop(v)
      BY <1>4, <2>6, Drops, Commits
    <2>7. CASE Select(v)
      <3>1. /\ stage[v] = "select" /\ cred[job[v].key] # None /\ Goto(v, "touch")
            /\ read' = [read EXCEPT ![v] = cred[job[v].key].secret]
            /\ UNCHANGED <<job, mark>>
        BY <2>7 DEF Select, history
      <3>2. read'[v] = cred[job[v].key].secret
        BY <3>1 DEF TypeInv, TypeOK
      <3> QED BY <1>2, <3>1, <3>2, GotoOne DEF Outdated, Holds
    <2>8. CASE Touch(v) \/ EndSession(v) \/ Abort(v)
      BY <1>4, <2>8 DEF Touch, EndSession, Abort
    <2> QED BY <1>6, <2>1, <2>2, <2>3, <2>4, <2>5, <2>6, <2>7, <2>8 DEF NextStatement
  <1> QED BY <1>3, <1>5, <1>6, Witnessed

\* An ended secret opens no session and keeps none open, whatever creations,
\* rotations and revocations overlap the check.
THEOREM EndedRefused == Spec => []EndedSecretsRefused
  <1>1. LateInv => EndedSecretsRefused
    BY DEF LateInv, Outdated, EndedSecretsRefused, Honoured
  <1> QED BY <1>1, TypeInit, TypeStep, LateInit, LateStep, PTL DEF Spec

-----------------------------------------------------------------------------
\* What a rotation has copied is its caller's row, which is still there unless the
\* request was overtaken.
Copies(w) ==
    stage[w] = "drop" /\ copied[w] # None =>
        /\ copied[w].owner = job[w].user
        /\ "overtaken" \notin mark[w] =>
             cred[job[w].key] # None /\ cred[job[w].key].owner = job[w].user
CopyInv == \A w \in Worker : Copies(w)

LEMMA CopyInit == Init => CopyInv
  BY DEF Init, CopyInv, Copies

LEMMA CopyStep == TypeInv /\ CopyInv /\ [Next]_vars => CopyInv'
  <1> SUFFICES ASSUME TypeInv, CopyInv, [Next]_vars, NEW v \in Worker PROVE Copies(v)'
    BY DEF CopyInv
  <1>1. Carries(v) /\ Copies(v)
    BY DEF TypeInv, CopyInv
  <1>2. CASE Kept(v)
    <2>1. SUFFICES ASSUME stage[v] = "drop", copied[v] # None
                   PROVE  Copies(v)'
      BY <1>2 DEF Kept, Copies
    <2>2. job[v].key \in KeyId /\ copied[v].owner = job[v].user
      BY <1>1, <2>1 DEF Carries, Copies
    <2>3. "overtaken" \notin mark'[v] =>
             cred[job[v].key] # None /\ cred'[job[v].key] # None
             /\ cred[job[v].key].owner = job[v].user
      BY <1>1, <1>2, <2>1 DEF Kept, Copies
    <2>4. cred[job[v].key] # None /\ cred'[job[v].key] # None =>
             cred'[job[v].key].owner = cred[job[v].key].owner
      BY <2>2, RowsMove
    <2> QED BY <1>2, <2>2, <2>3, <2>4 DEF Kept, Copies
  <1>3. ASSUME stage'[v] # "drop" PROVE Copies(v)'
    BY <1>3 DEF Copies
  <1>4. ASSUME Answered(v) PROVE Copies(v)'
    BY <1>3, <1>4, AnsweredOne
  <1>5. CASE NextArrival(v)
    <2>1. PICK j \in Job, s \in {"count", "own", "select"}, m \in SUBSET {"late"} :
            Arrive(v, j, s, m)
      BY <1>5, Arrives
    <2>2. stage'[v] = s
      BY <2>1 DEF Arrive, Goto, TypeInv, TypeOK
    <2> QED BY <1>3, <2>2
  <1>6. CASE NextStatement(v)
    <2> USE DEF Stage
    <2>1. CASE Count(v)
      BY <1>3, <1>4, <2>1, GotoOne DEF Count
    <2>2. CASE Insert(v)
      BY <1>4, <2>2, Inserts, Commits
    <2>3. CASE Own(v)
      <3>1. Answered(v) \/ \E s \in {"update", "copy"} : Goto(v, s)
        BY <2>3 DEF Own
      <3> QED BY <1>3, <1>4, <3>1, GotoOne
    <2>4. CASE Update(v)
      BY <1>4, <2>4, Updates
    <2>5. CASE Copy(v)
      <3>1. /\ stage'[v] = "drop" /\ UNCHANGED <<cred, job>>
            /\ copied' = [copied EXCEPT ![v] = IF Owned(v) THEN cred[job[v].key] ELSE None]
        BY <2>5, GotoOne DEF Copy, store
      <3>2. copied'[v] = IF Owned(v) THEN cred[job[v].key] ELSE None
        BY <3>1 DEF TypeInv, TypeOK
      <3> QED BY <3>1, <3>2 DEF Owned, Copies
    <2>6. CASE Drop(v)
      BY <1>4, <2>6, Drops, Commits
    <2>7. CASE Select(v)
      BY <1>3, <2>7, GotoOne DEF Select
    <2>8. CASE Touch(v) \/ EndSession(v) \/ Abort(v)
      BY <1>4, <2>8 DEF Touch, EndSession, Abort
    <2> QED BY <1>6, <2>1, <2>2, <2>3, <2>4, <2>5, <2>6, <2>7, <2>8 DEF NextStatement
  <1> QED BY <1>2, <1>5, <1>6, Witnessed

\* A rotation brings a key that is gone back under a new id only if it went while
\* the copy was written and not yet committed.
THEOREM CopyOutlives == Spec => CopyOutlivesKeyOnlyByRace
  <1>1. TypeInv /\ CopyInv /\ [Next]_vars => [CopyOutlivesKey]_vars
    <2> SUFFICES ASSUME TypeInv, CopyInv, Next, NEW w \in Worker, stage[w] = "drop",
                        cred' # cred, cred[job[w].key] = None, stage'[w] = "idle"
                 PROVE  "overtaken" \in mark[w]
      BY DEF CopyOutlivesKey
    <2>1. ~Kept(w)
      BY DEF Kept
    <2>2. ~NextArrival(w)
      BY Arrives
    <2>3. NextStatement(w)
      BY <2>1, <2>2, Witnessed
    <2>4. Drop(w) \/ Abort(w)
      BY <2>3 DEF NextStatement, Count, Insert, Own, Update, Copy, Select, Touch, Honoured, EndSession
    <2>5. ~Abort(w)
      BY DEF Abort, store
    <2>6. copied[w] # None
      BY <2>4, <2>5 DEF Drop, store
    <2> QED BY <2>6 DEF CopyInv, Copies
  <1> QED BY <1>1, TypeInit, TypeStep, CopyInit, CopyStep, PTL DEF Spec, CopyOutlivesKeyOnlyByRace

-----------------------------------------------------------------------------
\* A creation that has counted and was not crowded since has room for its key.
Room(w) ==
    stage[w] = "insert" /\ "crowded" \notin mark[w] =>
        Cardinality(Keys(job[w].user)) < Max + surplus[job[w].user]
CapInv == CapExceededOnlyByRaces /\ \A w \in Worker : Room(w)

LEMMA FiniteKeys == ASSUME NEW u PROVE IsFiniteSet(Keys(u)) /\ Cardinality(Keys(u)) \in Nat
  BY CredentialAssumption, FS_Subset, FS_CardinalityType DEF Keys

LEMMA CapInit == Init => CapInv
  <1> SUFFICES ASSUME Init PROVE CapInv
    OBVIOUS
  <1>1. \A u \in User : Keys(u) = {}
    BY DEF Init, Keys
  <1>2. \A u \in User : surplus[u] = 0
    BY DEF Init
  <1>3. CapExceededOnlyByRaces
    <2> SUFFICES ASSUME NEW u \in User PROVE Cardinality(Keys(u)) <= Max + surplus[u]
      BY DEF CapExceededOnlyByRaces
    <2>1. Keys(u) = {} /\ surplus[u] = 0
      BY <1>1, <1>2
    <2>2. Cardinality(Keys(u)) = 0
      BY <2>1, FS_EmptySet
    <2> QED BY <2>1, <2>2, CredentialAssumption
  <1>4. \A w \in Worker : Room(w)
    BY DEF Init, Room
  <1> QED BY <1>3, <1>4 DEF CapInv

\* A user who gets no key has no more than before.
LEMMA NoMoreKeys ==
    ASSUME TypeInv, [Next]_vars, NEW u \in User,
           \A k \in KeyId : cred[k] = None /\ cred'[k] # None => cred'[k].owner # u
    PROVE  Cardinality(Keys(u)') <= Cardinality(Keys(u)) /\ Cardinality(Keys(u)') \in Nat
  <1>1. Keys(u)' \subseteq Keys(u)
    BY RowsMove DEF Keys
  <1> QED BY <1>1, FiniteKeys, FS_Subset, FS_CardinalityType

LEMMA CapStep == TypeInv /\ CopyInv /\ CapInv /\ [Next]_vars => CapInv'
  <1> SUFFICES ASSUME TypeInv, CopyInv, CapInv, [Next]_vars PROVE CapInv'
    OBVIOUS
  <1>1. surplus \in [User -> Nat] /\ Max \in Nat
    BY CredentialAssumption DEF TypeInv, TypeOK
  <1>2. \A u \in User : surplus'[u] \in Nat /\ surplus[u] <= surplus'[u]
    <2>1. CASE UNCHANGED surplus
      BY <1>1, <2>1
    <2>2. ASSUME NEW w \in Worker, NEW k \in FreshKey, NEW r \in Row, NEW gone,
                 r.secret \in FreshSecret, CommitNew(w, k, r, gone)
          PROVE  \A u \in User : surplus'[u] \in Nat /\ surplus[u] <= surplus'[u]
      BY <2>2, Commits
    <2> QED BY <2>1, <2>2, RowsMove
  <1>3. ASSUME NEW u \in User,
               \A k \in KeyId : cred[k] = None /\ cred'[k] # None => cred'[k].owner # u
        PROVE  Cardinality(Keys(u)') <= Max + surplus'[u]
    <2>1. Cardinality(Keys(u)) <= Max + surplus[u] /\ Cardinality(Keys(u)) \in Nat
      BY FiniteKeys DEF CapInv, CapExceededOnlyByRaces
    <2>2. Cardinality(Keys(u)') <= Cardinality(Keys(u)) /\ Cardinality(Keys(u)') \in Nat
      BY <1>3, NoMoreKeys
    <2> QED BY <1>1, <1>2, <2>1, <2>2
  <1>4. ASSUME NEW w \in Worker, NEW k \in FreshKey, NEW r \in Row, NEW gone,
               r.secret \in FreshSecret, CommitNew(w, k, r, gone),
               \/ stage[w] = "insert" /\ r.owner = job[w].user
               \/ /\ stage[w] = "drop" /\ copied[w] \in Row /\ r.owner = copied[w].owner
                  /\ gone = {job[w].key}
        PROVE  \A u \in User : Cardinality(Keys(u)') <= Max + surplus'[u]
    <2> SUFFICES ASSUME NEW u \in User
                 PROVE  Cardinality(Keys(u)') <= Max + surplus'[u]
      OBVIOUS
    <2>1. /\ cred' = [i \in KeyId |-> IF i = k THEN r ELSE IF i \in gone THEN None ELSE cred[i]]
          /\ Raced(w) => surplus'[r.owner] = surplus[r.owner] + 1
      BY <1>4, Commits
    <2>2. k \in KeyId /\ cred[k] = None /\ r # None
      BY NoneAssumption DEF FreshKey
    <2>3. CASE u # r.owner
      <3>1. \A i \in KeyId : cred[i] = None /\ cred'[i] # None => cred'[i].owner # u
        BY <2>1, <2>3
      <3> QED BY <1>3, <3>1
    <2>4. CASE u = r.owner
      <3>1. Keys(u)' = (Keys(u) \ gone) \cup {k} /\ k \notin Keys(u)
        BY <2>1, <2>2, <2>4 DEF Keys
      <3>2. /\ Cardinality(Keys(u)) \in Nat /\ IsFiniteSet(Keys(u))
            /\ Cardinality(Keys(u)) <= Max + surplus[u]
        BY FiniteKeys DEF CapInv, CapExceededOnlyByRaces
      <3>3. /\ IsFiniteSet(Keys(u) \ gone) /\ Cardinality(Keys(u) \ gone) \in Nat
            /\ Cardinality(Keys(u) \ gone) <= Cardinality(Keys(u))
        <4>1. Keys(u) \ gone \subseteq Keys(u)
          OBVIOUS
        <4> QED BY <3>2, <4>1, FS_Subset, FS_CardinalityType
      <3>4. Cardinality(Keys(u)') = Cardinality(Keys(u) \ gone) + 1
        BY <3>1, <3>3, FS_AddElement
      <3>5. CASE Raced(w)
        BY <1>1, <2>1, <2>4, <3>2, <3>3, <3>4, <3>5
      <3>6. CASE ~Raced(w) /\ stage[w] = "insert" /\ r.owner = job[w].user
        <4>1. Cardinality(Keys(u)) < Max + surplus[u]
          BY <2>4, <3>6 DEF CapInv, Room, Raced
        <4> QED BY <1>1, <1>2, <3>2, <3>3, <3>4, <4>1
      <3>7. CASE ~Raced(w) /\ stage[w] = "drop" /\ copied[w] \in Row
                 /\ r.owner = copied[w].owner /\ gone = {job[w].key}
        <4>1. /\ cred[job[w].key] # None /\ cred[job[w].key].owner = u
              /\ job[w].key \in KeyId
          BY <2>4, <3>7, NoneAssumption DEF CopyInv, Copies, Raced, TypeInv, Carries
        <4>2. job[w].key \in Keys(u)
          BY <4>1 DEF Keys
        <4>3. Cardinality(Keys(u) \ gone) = Cardinality(Keys(u)) - 1
          BY <3>2, <3>7, <4>2, FS_RemoveElement
        <4> QED BY <1>1, <1>2, <3>2, <3>4, <4>3
      <3> QED BY <1>4, <3>5, <3>6, <3>7
    <2> QED BY <2>3, <2>4
  <1>5. CapExceededOnlyByRaces'
    <2>1. CASE NothingNew
      <3>1. \A u \in User : Cardinality(Keys(u)') <= Max + surplus'[u]
        BY <1>3, <2>1 DEF NothingNew
      <3> QED BY <3>1 DEF CapExceededOnlyByRaces
    <2>2. CASE \E w \in Worker, k \in FreshKey, r \in Row :
                    /\ r.secret \in FreshSecret
                    /\ \/ Insert(w) /\ stage[w] = "insert" /\ r.owner = job[w].user
                          /\ CommitNew(w, k, r, {})
                       \/ Drop(w) /\ stage[w] = "drop" /\ copied[w] \in Row
                          /\ r.owner = copied[w].owner /\ CommitNew(w, k, r, {job[w].key})
      <3>1. \A u \in User : Cardinality(Keys(u)') <= Max + surplus'[u]
        BY <1>4, <2>2
      <3> QED BY <3>1 DEF CapExceededOnlyByRaces
    <2> QED BY <2>1, <2>2, RowsMove
  <1>6. ASSUME NEW v \in Worker PROVE Room(v)'
    <2> SUFFICES ASSUME stage'[v] = "insert", "crowded" \notin mark'[v]
                 PROVE  (Cardinality(Keys(job[v].user)) < Max + surplus[job[v].user])'
      BY DEF Room
    <2>0. ASSUME NEW u \in User, job'[v].user = u, Cardinality(Keys(u)') < Max + surplus'[u]
          PROVE  (Cardinality(Keys(job[v].user)) < Max + surplus[job[v].user])'
      <3>1. Keys(job[v].user)' = Keys(u)'
        BY <2>0 DEF Keys
      <3> QED BY <2>0, <3>1
    <2>1. CASE Kept(v)
      <3>1. /\ stage[v] = "insert" /\ "crowded" \notin mark[v] /\ job'[v] = job[v]
            /\ \A k \in KeyId : cred[k] = None /\ cred'[k] # None => cred'[k].owner # job[v].user
        BY <2>1 DEF Kept
      <3>2. PICK u \in User : u = job[v].user
        BY <3>1 DEF TypeInv, Carries
      <3>3. Cardinality(Keys(u)) < Max + surplus[u] /\ Cardinality(Keys(u)) \in Nat
        BY <3>1, <3>2, FiniteKeys DEF CapInv, Room
      <3>4. Cardinality(Keys(u)') <= Cardinality(Keys(u)) /\ Cardinality(Keys(u)') \in Nat
        BY <3>1, <3>2, NoMoreKeys
      <3>5. Cardinality(Keys(u)') < Max + surplus'[u]
        BY <1>1, <1>2, <3>3, <3>4
      <3> QED BY <2>0, <3>1, <3>2, <3>5
    <2>2. CASE NextArrival(v)
      <3>1. PICK j \in Job, s \in {"count", "own", "select"}, m \in SUBSET {"late"} :
              Arrive(v, j, s, m)
        BY <2>2, Arrives
      <3>2. stage'[v] = s
        BY <3>1 DEF Arrive, Goto, TypeInv, TypeOK
      <3> QED BY <3>2
    <2>3. CASE NextStatement(v)
      <3> USE DEF Stage
      <3>1. ~Answered(v)
        BY AnsweredOne
      <3>2. CASE Count(v)
        <4>1. /\ stage[v] = "count" /\ UNCHANGED <<store, surplus, job>>
              /\ ~(Cardinality(Keys(job[v].user)) >= Max)
          BY <3>1, <3>2 DEF Count
        <4>2. PICK u \in User : u = job[v].user
          BY <4>1 DEF TypeInv, Carries
        <4>3. Keys(u)' = Keys(u)
          BY <4>1 DEF Keys, store
        <4>4. Cardinality(Keys(u)') < Max + surplus'[u]
          BY <1>1, <4>1, <4>2, <4>3, FiniteKeys
        <4> QED BY <2>0, <4>1, <4>2, <4>4
      <3>3. CASE Insert(v)
        BY <3>1, <3>3, Inserts DEF CommitNew
      <3>4. CASE Own(v)
        <4>1. Answered(v) \/ \E s \in {"update", "copy"} : Goto(v, s)
          BY <3>4 DEF Own
        <4> QED BY <3>1, <4>1, GotoOne
      <3>5. CASE Update(v)
        BY <3>1, <3>5, Updates
      <3>6. CASE Copy(v)
        BY <3>6, GotoOne DEF Copy
      <3>7. CASE Drop(v)
        BY <3>1, <3>7, Drops DEF CommitNew
      <3>8. CASE Select(v)
        BY <3>8, GotoOne DEF Select
      <3>9. CASE Touch(v) \/ EndSession(v) \/ Abort(v)
        BY <3>1, <3>9 DEF Touch, EndSession, Abort
      <3> QED BY <2>3, <3>2, <3>3, <3>4, <3>5, <3>6, <3>7, <3>8, <3>9 DEF NextStatement
    <2> QED BY <2>1, <2>2, <2>3, Witnessed
  <1> QED BY <1>5, <1>6 DEF CapInv

\* A user has more keys than the limit only by creations that were crowded and
\* rotations that were overtaken, for any limit and any number of requests.
THEOREM Capped == Spec => []CapExceededOnlyByRaces
  <1>1. CapInv => CapExceededOnlyByRaces
    BY DEF CapInv
  <1> QED
    BY <1>1, TypeInit, TypeStep, CopyInit, CopyStep, CapInit, CapStep, PTL DEF Spec

-----------------------------------------------------------------------------
\* No two requests under way are for one user; those of different users, and
\* revocations and purges of anybody's keys, overlap at will.
OneRequestEach ==
    \A v, w \in Worker :
        v # w /\ stage[v] # "idle" /\ stage[w] # "idle" /\ job[v].user # None
            => job[v].user # job[w].user

\* SERVICE_CRED_MAX_PER_USER, without exception.
WithinMax == \A u \in User : Cardinality(Keys(u)) <= Max

\* What the limit rests on then: a creation past its count has room for its key, and
\* a rotation replaces its key or, when a withdrawal was faster, refills the gap.
Place(w) ==
    /\ stage[w] = "insert" => Cardinality(Keys(job[w].user)) < Max
    /\ stage[w] = "drop" /\ copied[w] # None =>
         job[w].key \in Keys(job[w].user) \/ Cardinality(Keys(job[w].user)) < Max
PlaceInv == WithinMax /\ \A w \in Worker : Place(w)

\* A user who loses a key and gets none has fewer than before.
LEMMA FewerKeys ==
    ASSUME TypeInv, [Next]_vars, NEW u \in User, NEW k \in Keys(u), cred'[k] = None,
           \A i \in KeyId : cred[i] = None /\ cred'[i] # None => cred'[i].owner # u
    PROVE  Cardinality(Keys(u)') < Cardinality(Keys(u))
  <1>1. Keys(u)' \subseteq Keys(u) \ {k}
    BY RowsMove DEF Keys
  <1>2. /\ IsFiniteSet(Keys(u) \ {k}) /\ Cardinality(Keys(u) \ {k}) = Cardinality(Keys(u)) - 1
        /\ Cardinality(Keys(u)) \in Nat
    BY FiniteKeys, FS_RemoveElement
  <1>3. Cardinality(Keys(u)') <= Cardinality(Keys(u) \ {k}) /\ Cardinality(Keys(u)') \in Nat
    BY <1>1, <1>2, FS_Subset, FS_CardinalityType
  <1> QED BY <1>2, <1>3

\* Who gets a key by the step of another request is somebody else.
LEMMA ForOthers ==
    ASSUME TypeInv, CopyInv, OneRequestEach, [Next]_vars, NEW v \in Worker, Kept(v),
           stage[v] \in {"insert", "drop"}
    PROVE  \A k \in KeyId : cred[k] = None /\ cred'[k] # None => cred'[k].owner # job[v].user
  <1>1. job[v].user \in User /\ job[v].user # None
    BY NoneAssumption DEF TypeInv, Carries
  <1>2. ASSUME NEW w \in Worker, NEW k \in FreshKey, NEW r \in Row, NEW gone,
               r.secret \in FreshSecret, CommitNew(w, k, r, gone),
               stage[w] \in {"insert", "drop"}, r.owner = job[w].user
        PROVE  \A i \in KeyId : cred[i] = None /\ cred'[i] # None => cred'[i].owner # job[v].user
    <2>1. v # w
      BY <1>2, Commits, AnsweredOne DEF Kept
    <2>2. r.owner # job[v].user
      BY <1>1, <1>2, <2>1 DEF OneRequestEach
    <2>3. cred' = [i \in KeyId |-> IF i = k THEN r ELSE IF i \in gone THEN None ELSE cred[i]]
      BY <1>2, Commits
    <2> QED BY <2>2, <2>3
  <1>3. CASE NothingNew
    BY <1>3 DEF NothingNew
  <1>4. CASE ~NothingNew
    <2>1. PICK w \in Worker, k \in FreshKey, r \in Row :
                /\ r.secret \in FreshSecret
                /\ \/ stage[w] = "insert" /\ r.owner = job[w].user /\ CommitNew(w, k, r, {})
                   \/ stage[w] = "drop" /\ copied[w] \in Row /\ r.owner = copied[w].owner
                      /\ CommitNew(w, k, r, {job[w].key})
      BY <1>4, RowsMove
    <2>2. stage[w] = "drop" /\ copied[w] \in Row => copied[w].owner = job[w].user
      BY NoneAssumption DEF CopyInv, Copies
    <2> QED BY <1>2, <2>1, <2>2
  <1> QED BY <1>3, <1>4

LEMMA PlaceStep == TypeInv /\ CopyInv /\ PlaceInv /\ OneRequestEach /\ [Next]_vars => PlaceInv'
  <1> SUFFICES ASSUME TypeInv, CopyInv, PlaceInv, OneRequestEach, [Next]_vars PROVE PlaceInv'
    OBVIOUS
  <1>1. Max \in Nat
    BY CredentialAssumption
  <1>2. ASSUME NEW u \in User,
               \A k \in KeyId : cred[k] = None /\ cred'[k] # None => cred'[k].owner # u
        PROVE  Cardinality(Keys(u)') <= Max
    <2>1. Cardinality(Keys(u)) <= Max /\ Cardinality(Keys(u)) \in Nat
      BY FiniteKeys DEF PlaceInv, WithinMax
    <2>2. Cardinality(Keys(u)') <= Cardinality(Keys(u)) /\ Cardinality(Keys(u)') \in Nat
      BY <1>2, NoMoreKeys
    <2> QED BY <1>1, <2>1, <2>2
  <1>3. ASSUME NEW w \in Worker, NEW k \in FreshKey, NEW r \in Row, NEW gone,
               r.secret \in FreshSecret, CommitNew(w, k, r, gone), r.owner = job[w].user,
               \/ stage[w] = "insert"
               \/ stage[w] = "drop" /\ copied[w] # None /\ gone = {job[w].key}
        PROVE  \A u \in User : Cardinality(Keys(u)') <= Max
    <2> SUFFICES ASSUME NEW u \in User PROVE Cardinality(Keys(u)') <= Max
      OBVIOUS
    <2>1. cred' = [i \in KeyId |-> IF i = k THEN r ELSE IF i \in gone THEN None ELSE cred[i]]
      BY <1>3, Commits
    <2>2. k \in KeyId /\ cred[k] = None /\ r # None
      BY NoneAssumption DEF FreshKey
    <2>3. CASE u # r.owner
      <3>1. \A i \in KeyId : cred[i] = None /\ cred'[i] # None => cred'[i].owner # u
        BY <2>1, <2>3
      <3> QED BY <1>2, <3>1
    <2>4. CASE u = r.owner
      <3>1. Keys(u)' = (Keys(u) \ gone) \cup {k} /\ k \notin Keys(u)
        BY <2>1, <2>2, <2>4 DEF Keys
      <3>2. /\ Cardinality(Keys(u)) \in Nat /\ IsFiniteSet(Keys(u))
            /\ Cardinality(Keys(u)) <= Max
        BY FiniteKeys DEF PlaceInv, WithinMax
      <3>3. /\ IsFiniteSet(Keys(u) \ gone) /\ Cardinality(Keys(u) \ gone) \in Nat
            /\ Cardinality(Keys(u) \ gone) <= Cardinality(Keys(u))
        <4>1. Keys(u) \ gone \subseteq Keys(u)
          OBVIOUS
        <4> QED BY <3>2, <4>1, FS_Subset, FS_CardinalityType
      <3>4. Cardinality(Keys(u)') = Cardinality(Keys(u) \ gone) + 1
        BY <3>1, <3>3, FS_AddElement
      <3>5. job[w].user = u
        BY <1>3, <2>4
      <3>6. CASE Cardinality(Keys(u)) < Max
        BY <1>1, <3>2, <3>3, <3>4, <3>6
      <3>7. CASE gone = {job[w].key} /\ job[w].key \in Keys(u)
        <4>1. Cardinality(Keys(u) \ gone) = Cardinality(Keys(u)) - 1
          BY <3>2, <3>7, FS_RemoveElement
        <4> QED BY <1>1, <3>2, <3>4, <4>1
      <3>8. Place(w)
        BY DEF PlaceInv
      <3> QED BY <1>3, <3>5, <3>6, <3>7, <3>8 DEF Place
    <2> QED BY <2>3, <2>4
  <1>4. WithinMax'
    <2>1. CASE NothingNew
      <3>1. \A u \in User : Cardinality(Keys(u)') <= Max
        BY <1>2, <2>1 DEF NothingNew
      <3> QED BY <3>1 DEF WithinMax
    <2>2. CASE ~NothingNew
      <3>1. PICK w \in Worker, k \in FreshKey, r \in Row :
                /\ r.secret \in FreshSecret
                /\ \/ stage[w] = "insert" /\ r.owner = job[w].user /\ CommitNew(w, k, r, {})
                   \/ stage[w] = "drop" /\ copied[w] \in Row /\ r.owner = copied[w].owner
                      /\ CommitNew(w, k, r, {job[w].key})
        BY <2>2, RowsMove
      <3>2. stage[w] = "drop" /\ copied[w] \in Row =>
               copied[w] # None /\ copied[w].owner = job[w].user
        BY NoneAssumption DEF CopyInv, Copies
      <3>3. \A u \in User : Cardinality(Keys(u)') <= Max
        BY <1>3, <3>1, <3>2
      <3> QED BY <3>3 DEF WithinMax
    <2> QED BY <2>1, <2>2
  <1>5. ASSUME NEW v \in Worker, Kept(v) PROVE Place(v)'
    <2> SUFFICES ASSUME stage[v] \in {"insert", "drop"} PROVE Place(v)'
      BY <1>5 DEF Kept, Place
    <2>1. job'[v] = job[v] /\ stage'[v] = stage[v] /\ copied'[v] = copied[v] /\ Place(v)
      BY <1>5 DEF Kept, PlaceInv
    <2>2. PICK u \in User : u = job[v].user
      BY DEF TypeInv, Carries
    <2>3. Keys(job[v].user)' = Keys(u)'
      BY <2>1, <2>2 DEF Keys
    <2>4. \A k \in KeyId : cred[k] = None /\ cred'[k] # None => cred'[k].owner # u
      BY <1>5, <2>2, ForOthers
    <2>5. /\ Cardinality(Keys(u)') <= Cardinality(Keys(u))
          /\ Cardinality(Keys(u)') \in Nat /\ Cardinality(Keys(u)) \in Nat
          /\ Cardinality(Keys(u)) <= Max
      BY <2>4, NoMoreKeys, FiniteKeys DEF PlaceInv, WithinMax
    <2>6. CASE Cardinality(Keys(u)) < Max
      <3>1. Cardinality(Keys(u)') < Max
        BY <1>1, <2>5, <2>6
      <3>2. (Cardinality(Keys(job[v].user)) < Max)'
        BY <2>3, <3>1
      <3> QED BY <3>2 DEF Place
    <2>7. CASE stage[v] = "drop" /\ copied[v] # None /\ job[v].key \in Keys(u)
      <3>1. CASE cred'[job[v].key] = None
        <4>1. Cardinality(Keys(u)') < Cardinality(Keys(u))
          BY <2>4, <2>7, <3>1, FewerKeys
        <4>2. Cardinality(Keys(u)') < Max
          BY <1>1, <2>5, <4>1
        <4>3. (Cardinality(Keys(job[v].user)) < Max)'
          BY <2>3, <4>2
        <4> QED BY <2>1, <2>7, <4>3 DEF Place
      <3>2. CASE cred'[job[v].key] # None
        <4>1. job[v].key \in Keys(u)'
          BY <2>7, <3>2, RowsMove DEF Keys
        <4>2. job'[v].key \in Keys(job[v].user)'
          BY <2>1, <2>3, <4>1
        <4> QED BY <2>1, <2>7, <4>2 DEF Place
      <3> QED BY <3>1, <3>2
    <2>8. CASE stage[v] = "drop" /\ copied[v] = None
      BY <2>1, <2>8 DEF Place
    <2> QED BY <2>1, <2>2, <2>6, <2>7, <2>8 DEF Place
  <1>6. ASSUME NEW v \in Worker, stage'[v] \notin {"insert", "drop"} PROVE Place(v)'
    BY <1>6 DEF Place
  <1>7. ASSUME NEW v \in Worker, NextArrival(v) PROVE Place(v)'
    <2>1. PICK j \in Job, s \in {"count", "own", "select"}, m \in SUBSET {"late"} :
            Arrive(v, j, s, m)
      BY <1>7, Arrives
    <2>2. stage'[v] = s
      BY <2>1 DEF Arrive, Goto, TypeInv, TypeOK
    <2> QED BY <1>6, <2>2
  <1>8. ASSUME NEW v \in Worker, NextStatement(v) PROVE Place(v)'
    <2> USE DEF Stage
    <2>1. ASSUME Answered(v) PROVE Place(v)'
      BY <1>6, <2>1, AnsweredOne
    <2>2. CASE Count(v)
      <3> SUFFICES ASSUME ~Answered(v) PROVE Place(v)'
        BY <2>1
      <3>1. /\ stage[v] = "count" /\ UNCHANGED <<store, job>> /\ Goto(v, "insert")
            /\ ~(Cardinality(Keys(job[v].user)) >= Max)
        BY <2>2 DEF Count
      <3>2. PICK u \in User : u = job[v].user
        BY <3>1 DEF TypeInv, Carries
      <3>3. Keys(job[v].user)' = Keys(u)
        BY <3>1, <3>2 DEF Keys, store
      <3>4. (Cardinality(Keys(job[v].user)) < Max)'
        BY <1>1, <3>1, <3>2, <3>3, FiniteKeys
      <3>5. stage'[v] = "insert"
        BY <3>1, GotoOne
      <3> QED BY <3>4, <3>5 DEF Place
    <2>3. CASE Insert(v)
      BY <2>1, <2>3, Inserts DEF CommitNew
    <2>4. CASE Own(v)
      <3>1. Answered(v) \/ \E s \in {"update", "copy"} : Goto(v, s)
        BY <2>4 DEF Own
      <3> QED BY <1>6, <2>1, <3>1, GotoOne
    <2>5. CASE Update(v)
      BY <2>1, <2>5, Updates
    <2>6. CASE Copy(v)
      <3>1. /\ stage'[v] = "drop" /\ UNCHANGED <<cred, job>> /\ stage[v] = "copy"
            /\ copied' = [copied EXCEPT ![v] = IF Owned(v) THEN cred[job[v].key] ELSE None]
        BY <2>6, GotoOne DEF Copy, store
      <3>2. copied'[v] # None => Owned(v) /\ job[v].key \in KeyId
        BY <3>1 DEF TypeInv, TypeOK, Carries
      <3>3. copied'[v] # None => job[v].key \in Keys(job[v].user)
        BY <3>2 DEF Owned, Keys
      <3>4. Keys(job[v].user)' = Keys(job[v].user)
        BY <3>1 DEF Keys
      <3> QED BY <3>1, <3>3, <3>4 DEF Place
    <2>7. CASE Drop(v)
      BY <2>1, <2>7, Drops DEF CommitNew
    <2>8. CASE Select(v)
      BY <1>6, <2>8, GotoOne DEF Select
    <2>9. CASE Touch(v) \/ EndSession(v) \/ Abort(v)
      BY <2>1, <2>9 DEF Touch, EndSession, Abort
    <2> QED BY <1>8, <2>2, <2>3, <2>4, <2>5, <2>6, <2>7, <2>8, <2>9 DEF NextStatement
  <1>9. \A v \in Worker : Place(v)'
    BY <1>5, <1>7, <1>8, Witnessed
  <1> QED BY <1>4, <1>9 DEF PlaceInv

\* Where the requests of one user do not overlap, nobody ever holds more keys than
\* the limit, whatever is revoked or purged meanwhile: the races that the limit loses
\* to are those of a user with themselves.
THEOREM CappedApart == Spec /\ []OneRequestEach => []WithinMax
  <1>1. Init => PlaceInv
    <2> SUFFICES ASSUME Init PROVE PlaceInv
      OBVIOUS
    <2>1. \A u \in User : Keys(u) = {}
      BY DEF Init, Keys
    <2>2. ASSUME NEW u \in User PROVE Cardinality(Keys(u)) <= Max
      <3>1. Keys(u) = {}
        BY <2>1
      <3>2. Cardinality(Keys(u)) = 0
        BY <3>1, FS_EmptySet
      <3> QED BY <3>2, CredentialAssumption
    <2>3. \A w \in Worker : Place(w)
      BY DEF Init, Place
    <2> QED BY <2>2, <2>3 DEF PlaceInv, WithinMax
  <1>2. PlaceInv => WithinMax
    BY DEF PlaceInv
  <1> QED
    BY <1>1, <1>2, TypeInit, TypeStep, CopyInit, CopyStep, PlaceStep, PTL DEF Spec

\* An ended secret never comes back: whatever a step commits, a secret that was once
\* handed out and that opens a key no more does not open it again.
EndedForGood ==
    \A k \in KeyId, s \in Secret : home[s] # None /\ ~Holds(k, s) => ~Holds(k, s)'

THEOREM EndedForever == Spec => [][EndedForGood]_vars
  <1>1. TypeInv /\ [Next]_vars => [EndedForGood]_vars
    BY RowsMove DEF EndedForGood, Holds, FreshSecret
  <1> QED BY <1>1, TypeInit, TypeStep, PTL DEF Spec
=============================================================================
