------------------------ MODULE BearerTokens_proofs ------------------------
(***************************************************************************)
(* Proofs about BearerTokens, for every number of tokens and requests,     *)
(* every expiry, every cache lifetime and capacity.                        *)
(***************************************************************************)
EXTENDS BearerTokens, FiniteSetTheorems, TLAPS

LEMMA TypeInit == Init => TypeOK
  BY NoneAssumption DEF Init, TypeOK, Stage

\* Making room keeps the cache a cache.
LEMMA RoomType ==
    ASSUME NEW c \in [Jti -> Entry \cup {NoEntry}], NEW t \in Nat
    PROVE  /\ Room(c, t) \in [Jti -> Entry \cup {NoEntry}]
           /\ \A j \in Jti : Room(c, t)[j] \in {c[j], NoEntry}
  BY DEF Room, Alive

LEMMA AnswerType ==
    ASSUME TypeOK, NEW w \in Worker, NEW refused \in BOOLEAN, Answer(w, refused),
           token[w] \in Jti \/ refused
    PROVE  /\ stage' \in [Worker -> Stage] /\ token' \in [Worker -> Jti \cup {NoJti}]
           /\ since' \in [Worker -> Nat] /\ at' \in [Worker -> Nat]
           /\ heard' \in [Worker -> BOOLEAN]
           /\ answer' \in [Worker -> {"none", "honoured", "refused"}]
           /\ \A v \in Worker : stage'[v] # "idle" \/ answer'[v] = "honoured" => token'[v] \in Jti
  BY DEF Answer, TypeOK, Stage

LEMMA TypeStep == TypeOK /\ [Next]_vars => TypeOK'
  <1> SUFFICES ASSUME TypeOK, [Next]_vars PROVE TypeOK'
    OBVIOUS
  <1> USE TimeAssumption, NoneAssumption
  <1>1. CASE Tick
    BY <1>1 DEF Tick, TypeOK, request
  <1>2. ASSUME NEW j \in Jti, Revoke(j) PROVE TypeOK'
    BY <1>2 DEF Revoke, TypeOK, request
  <1>3. ASSUME NEW w \in Worker, NEW j \in Jti, Arrive(w, j) PROVE TypeOK'
    <2>1. UNCHANGED <<world, cache>>
      BY <1>3 DEF Arrive
    <2>2. CASE Answer(w, TRUE)
      BY <2>1, <2>2, AnswerType DEF TypeOK, world
    <2>3. CASE ~Answer(w, TRUE)
      <3>1. /\ stage' = [stage EXCEPT ![w] = "check"] /\ token' = [token EXCEPT ![w] = j]
            /\ since' = [since EXCEPT ![w] = now] /\ at' = [at EXCEPT ![w] = 0]
            /\ answer' = [answer EXCEPT ![w] = "none"] /\ heard' = heard
        BY <1>3, <2>3 DEF Arrive
      <3> QED BY <2>1, <3>1 DEF TypeOK, world, Stage
    <2> QED BY <2>2, <2>3
  <1>4. ASSUME NEW w \in Worker, Check(w) PROVE TypeOK'
    <2>1. UNCHANGED <<world, cache>> /\ token[w] \in Jti
      BY <1>4 DEF Check, TypeOK
    <2>2. CASE Answer(w, TRUE)
      BY <2>1, <2>2, AnswerType DEF TypeOK, world
    <2>3. CASE ~Answer(w, TRUE)
      <3>1. PICK s \in {"idle", "lookup"}, a \in {"honoured", "none"} :
               /\ stage' = [stage EXCEPT ![w] = s] /\ at' = [at EXCEPT ![w] = now]
               /\ answer' = [answer EXCEPT ![w] = a]
               /\ UNCHANGED <<token, since, heard>>
        BY <1>4, <2>3 DEF Check
      <3> QED BY <2>1, <3>1 DEF TypeOK, world, Stage
    <2> QED BY <2>2, <2>3
  <1>5. ASSUME NEW w \in Worker, Lookup(w) PROVE TypeOK'
    <2>1. UNCHANGED <<world, cache>> /\ token[w] \in Jti
      BY <1>5 DEF Lookup, TypeOK
    <2>2. PICK r \in BOOLEAN :
            \/ /\ heard' = [heard EXCEPT ![w] = r]
               /\ stage' = [stage EXCEPT ![w] = "store"]
               /\ UNCHANGED <<token, since, at, answer>>
            \/ Answer(w, r)
      BY <1>5, <2>1 DEF Lookup, Denied, TypeOK
    <2>3. CASE Answer(w, r)
      BY <2>1, <2>3, AnswerType DEF TypeOK, world
    <2>4. CASE ~Answer(w, r)
      BY <2>1, <2>2, <2>4 DEF TypeOK, world, Stage
    <2> QED BY <2>3, <2>4
  <1>6. ASSUME NEW w \in Worker, LookupFails(w) PROVE TypeOK'
    <2>1. UNCHANGED <<world, cache>> /\ token[w] \in Jti
      BY <1>6 DEF LookupFails, TypeOK
    <2>2. PICK r \in BOOLEAN : Answer(w, r)
      BY <1>6 DEF LookupFails
    <2> QED BY <2>1, <2>2, AnswerType DEF TypeOK, world
  <1>7. ASSUME NEW w \in Worker, Store(w) PROVE TypeOK'
    <2>1. token[w] \in Jti /\ heard[w] \in BOOLEAN /\ at[w] \in Nat /\ UNCHANGED world
      BY <1>7 DEF Store, TypeOK
    <2>2. (IF local THEN Room(cache, at[w]) ELSE cache) \in [Jti -> Entry \cup {NoEntry}]
      BY <2>1, RoomType DEF TypeOK
    <2>3. [revoked |-> heard[w], until |-> at[w] + CacheTtl] \in Entry
      BY <2>1 DEF Entry
    <2>4. cache' \in [Jti -> Entry \cup {NoEntry}]
      BY <1>7, <2>2, <2>3 DEF Store
    <2>5. Answer(w, heard[w])
      BY <1>7 DEF Store
    <2> QED BY <2>1, <2>4, <2>5, AnswerType DEF TypeOK, world
  <1>8. CASE UNCHANGED vars
    BY <1>8 DEF vars, world, request, TypeOK
  <1> QED
    BY <1>1, <1>2, <1>3, <1>4, <1>5, <1>6, <1>7, <1>8 DEF Next

THEOREM TypeCorrect == Spec => []TypeOK
  BY TypeInit, TypeStep, PTL DEF Spec

-----------------------------------------------------------------------------
\* "j is not revoked" may have been heard by a request that checked at time t.
Fresh(j, t) ==
    \/ revokedAt[j] = Never
    \/ t <= revokedAt[j]
    \/ now >= Expiry[j]

SignOutInv ==
    /\ TypeOK
    /\ \A w \in Worker : at[w] <= now
    /\ \A j \in Jti : cache[j] # NoEntry => cache[j].until <= now + CacheTtl
    /\ \A j \in Jti : cache[j] # NoEntry /\ ~cache[j].revoked => Fresh(j, cache[j].until - CacheTtl)
    /\ \A w \in Worker : stage[w] = "store" /\ ~heard[w] => Fresh(token[w], at[w])
    /\ \A w \in Worker : Honoured(w) =>
          Fresh(token[w], at[w]) \/ at[w] < revokedAt[token[w]] + CacheTtl

\* Time and the bridge keep a fresh verdict fresh.
LEMMA FreshStays ==
    ASSUME TypeOK, Tick \/ (\E i \in Jti : Revoke(i)) \/ UNCHANGED world,
           NEW j \in Jti, NEW t \in Int, t <= now, Fresh(j, t)
    PROVE  Fresh(j, t)'
  <1>1. CASE Tick
    BY <1>1, TimeAssumption, NoneAssumption DEF Tick, Fresh, TypeOK
  <1>2. ASSUME NEW i \in Jti, Revoke(i) PROVE Fresh(j, t)'
    BY <1>2, TimeAssumption, NoneAssumption DEF Revoke, Fresh, TypeOK
  <1>3. CASE UNCHANGED world
    BY <1>3 DEF world, Fresh
  <1> QED BY <1>1, <1>2, <1>3

LEMMA SignOutStep ==
    ASSUME ~FailOpen, SignOutInv, [Next]_vars
    PROVE  SignOutInv'
  <1> USE TimeAssumption, NoneAssumption
  <1> DEFINE Past(w) == at[w] <= now
             Short(j) == cache[j] # NoEntry => cache[j].until <= now + CacheTtl
             Kept(j) == cache[j] # NoEntry /\ ~cache[j].revoked => Fresh(j, cache[j].until - CacheTtl)
             Stored(w) == stage[w] = "store" /\ ~heard[w] => Fresh(token[w], at[w])
             Good(w) == Honoured(w) =>
                          Fresh(token[w], at[w]) \/ at[w] < revokedAt[token[w]] + CacheTtl
  <1>1. /\ TypeOK /\ TypeOK'
        /\ \A w \in Worker : Past(w) /\ Stored(w) /\ Good(w)
        /\ \A j \in Jti : Short(j) /\ Kept(j)
    BY TypeStep DEF SignOutInv
  <1>2. SUFFICES /\ \A w \in Worker : Past(w)' /\ Stored(w)' /\ Good(w)'
                 /\ \A j \in Jti : Short(j)' /\ Kept(j)'
    BY <1>1 DEF SignOutInv
  \* What a step that leaves the cache and the requests alone preserves.
  <1>3. ASSUME Tick \/ (\E i \in Jti : Revoke(i)) \/ UNCHANGED vars
        PROVE  /\ \A w \in Worker : Past(w)' /\ Stored(w)' /\ Good(w)'
               /\ \A j \in Jti : Short(j)' /\ Kept(j)'
    <2>1. /\ UNCHANGED <<cache, request>> /\ now <= now'
          /\ Tick \/ (\E i \in Jti : Revoke(i)) \/ UNCHANGED world
      BY <1>3, <1>1 DEF Tick, Revoke, vars, world, TypeOK
    <2>2. ASSUME NEW w \in Worker PROVE Past(w)' /\ Stored(w)' /\ Good(w)'
      <3>1. stage'[w] = stage[w] /\ token'[w] = token[w] /\ at'[w] = at[w] /\ heard'[w] = heard[w]
            /\ answer'[w] = answer[w] /\ at[w] \in Nat /\ at[w] <= now
        BY <2>1, <1>1 DEF request, TypeOK
      <3>2. Past(w)'
        BY <3>1, <2>1, <1>1 DEF TypeOK
      <3>3. Stored(w)'
        <4>1. SUFFICES ASSUME stage[w] = "store", ~heard[w] PROVE Fresh(token[w], at[w])'
          BY <3>1
        <4>2. token[w] \in Jti /\ Fresh(token[w], at[w])
          BY <4>1, <1>1 DEF TypeOK
        <4> QED BY <4>2, <3>1, <2>1, <1>1, FreshStays
      <3>4. Good(w)'
        <4>1. SUFFICES ASSUME Honoured(w)
                       PROVE  Fresh(token[w], at[w])' \/ at[w] < revokedAt'[token[w]] + CacheTtl
          BY <3>1 DEF Honoured
        <4>2. token[w] \in Jti
          BY <4>1, <1>1 DEF Honoured, TypeOK
        <4>3. CASE Fresh(token[w], at[w])
          BY <4>2, <4>3, <3>1, <2>1, <1>1, FreshStays
        <4>4. CASE ~Fresh(token[w], at[w])
          <5>1. revokedAt[token[w]] # Never /\ at[w] < revokedAt[token[w]] + CacheTtl
            BY <4>1, <4>4, <1>1 DEF Fresh
          <5>2. revokedAt'[token[w]] = revokedAt[token[w]]
            BY <5>1, <4>2, <1>3, <1>1 DEF Tick, Revoke, vars, world, TypeOK
          <5> QED BY <5>1, <5>2
        <4> QED BY <4>3, <4>4
      <3> QED BY <3>2, <3>3, <3>4
    <2>3. ASSUME NEW j \in Jti PROVE Short(j)' /\ Kept(j)'
      <3>1. SUFFICES ASSUME cache[j] # NoEntry PROVE Short(j)' /\ Kept(j)'
        BY <2>1
      <3>2. cache[j].until \in Nat /\ cache[j].until - CacheTtl \in Int /\ cache' = cache
            /\ now \in Nat /\ now' \in Nat
        BY <3>1, <2>1, <1>1 DEF TypeOK, Entry
      <3>3. cache[j].until - CacheTtl <= now
        BY <3>1, <3>2, <1>1
      <3>4. Short(j)'
        BY <3>1, <3>2, <2>1, <1>1
      <3>5. Kept(j)'
        BY <3>1, <3>2, <3>3, <2>1, <1>1, FreshStays
      <3> QED BY <3>4, <3>5
    <2> QED BY <2>2, <2>3
  \* The steps of one request.  Its answer is good, or it is refused.
  <1>4. ASSUME NEW w \in Worker, UNCHANGED world, at'[w] <= now,
               Stored(w)', Good(w)',
               \A v \in Worker \ {w} : /\ stage'[v] = stage[v] /\ token'[v] = token[v]
                                       /\ at'[v] = at[v] /\ heard'[v] = heard[v]
                                       /\ answer'[v] = answer[v]
        PROVE  \A v \in Worker : Past(v)' /\ Stored(v)' /\ Good(v)'
    BY <1>1, <1>4 DEF world, Fresh, Honoured
  <1>5. ASSUME NEW w \in Worker, NEW r \in BOOLEAN, Answer(w, r), UNCHANGED world,
               r \/ Fresh(token[w], at[w]) \/ at[w] < revokedAt[token[w]] + CacheTtl
        PROVE  \A v \in Worker : Past(v)' /\ Stored(v)' /\ Good(v)'
    <2>1. at'[w] <= now
      BY <1>5, <1>1 DEF Answer, TypeOK
    <2>2. Stored(w)' /\ Good(w)'
      BY <1>5, <1>1 DEF Answer, TypeOK, Honoured, Fresh, world
    <2>3. \A v \in Worker \ {w} : /\ stage'[v] = stage[v] /\ token'[v] = token[v]
                                  /\ at'[v] = at[v] /\ heard'[v] = heard[v]
                                  /\ answer'[v] = answer[v]
      BY <1>5, <1>1 DEF Answer, TypeOK
    <2> QED BY <1>5, <2>1, <2>2, <2>3, <1>4
  <1>6. ASSUME UNCHANGED world, UNCHANGED cache
        PROVE  \A j \in Jti : Short(j)' /\ Kept(j)'
    BY <1>1, <1>6 DEF world, Fresh
  <1>7. ASSUME NEW w \in Worker, NEW j \in Jti, Arrive(w, j)
        PROVE  \A v \in Worker : Past(v)' /\ Stored(v)' /\ Good(v)'
    <2>1. CASE Answer(w, TRUE)
      BY <2>1, <1>7, <1>5 DEF Arrive
    <2>2. CASE ~Answer(w, TRUE)
      <3>1. /\ UNCHANGED world /\ stage' = [stage EXCEPT ![w] = "check"]
            /\ token' = [token EXCEPT ![w] = j] /\ at' = [at EXCEPT ![w] = 0]
            /\ answer' = [answer EXCEPT ![w] = "none"] /\ heard' = heard
        BY <2>2, <1>7 DEF Arrive
      <3>2. at'[w] <= now /\ stage'[w] = "check" /\ answer'[w] = "none"
        BY <3>1, <1>1 DEF TypeOK
      <3>3. Stored(w)' /\ Good(w)'
        BY <3>2 DEF Honoured
      <3>4. \A v \in Worker \ {w} : /\ stage'[v] = stage[v] /\ token'[v] = token[v]
                                    /\ at'[v] = at[v] /\ heard'[v] = heard[v]
                                    /\ answer'[v] = answer[v]
        BY <3>1, <1>1 DEF TypeOK
      <3> QED BY <3>1, <3>2, <3>3, <3>4, <1>4
    <2> QED BY <2>1, <2>2
  <1>8. ASSUME NEW w \in Worker, Check(w)
        PROVE  \A v \in Worker : Past(v)' /\ Stored(v)' /\ Good(v)'
    <2>1. CASE Answer(w, TRUE)
      BY <2>1, <1>8, <1>5 DEF Check
    <2>2. CASE ~Answer(w, TRUE)
      <3> DEFINE hit == cache[token[w]]
      <3>1. /\ at' = [at EXCEPT ![w] = now] /\ UNCHANGED <<token, since, heard>>
            /\ \/ /\ hit # NoEntry /\ hit.until > now /\ ~hit.revoked
                  /\ stage' = [stage EXCEPT ![w] = "idle"]
                  /\ answer' = [answer EXCEPT ![w] = "honoured"]
               \/ /\ stage' = [stage EXCEPT ![w] = "lookup"]
                  /\ answer' = [answer EXCEPT ![w] = "none"]
        BY <2>2, <1>8 DEF Check
      <3>2. token[w] \in Jti /\ UNCHANGED world /\ at'[w] = now
        BY <3>1, <1>8, <1>1 DEF Check, TypeOK
      <3>3. Good(w)'
        <4>1. SUFFICES ASSUME answer'[w] = "honoured"
                       PROVE  Fresh(token[w], now) \/ now < revokedAt[token[w]] + CacheTtl
          BY <3>1, <3>2 DEF Honoured, Fresh, world
        <4>2. hit # NoEntry /\ hit.until > now /\ ~hit.revoked
          BY <4>1, <3>1, <1>1 DEF TypeOK
        <4>3. Fresh(token[w], hit.until - CacheTtl) /\ hit.until \in Nat /\ now \in Nat
          BY <4>2, <3>2, <1>1 DEF TypeOK, Entry
        <4>4. revokedAt[token[w]] \in Nat \cup {Never}
          BY <3>2, <1>1 DEF TypeOK
        <4> QED BY <4>2, <4>3, <4>4 DEF Fresh
      <3>4. Stored(w)' /\ at'[w] <= now
        BY <3>1, <3>2, <1>1 DEF TypeOK
      <3>5. \A v \in Worker \ {w} : /\ stage'[v] = stage[v] /\ token'[v] = token[v]
                                    /\ at'[v] = at[v] /\ heard'[v] = heard[v]
                                    /\ answer'[v] = answer[v]
        BY <3>1, <1>1 DEF TypeOK
      <3> QED BY <3>2, <3>3, <3>4, <3>5, <1>4
    <2> QED BY <2>1, <2>2
  <1>9. ASSUME NEW w \in Worker, Lookup(w)
        PROVE  \A v \in Worker : Past(v)' /\ Stored(v)' /\ Good(v)'
    <2> DEFINE r == IF local THEN Denied(token[w])
                    ELSE revokedAt[token[w]] # Never \/ now > Expiry[token[w]]
    <2>1. UNCHANGED world /\ token[w] \in Jti /\ r \in BOOLEAN
      BY <1>9, <1>1 DEF Lookup, TypeOK, Denied
    <2>2. r \/ Fresh(token[w], at[w])
      BY <2>1, <1>1 DEF Denied, Fresh, TypeOK
    <2>3. CASE Answer(w, r)
      BY <2>1, <2>2, <2>3, <1>5
    <2>4. CASE ~Answer(w, r)
      <3>1. /\ heard' = [heard EXCEPT ![w] = r] /\ stage' = [stage EXCEPT ![w] = "store"]
            /\ UNCHANGED <<token, since, at, answer>>
        BY <2>4, <1>9 DEF Lookup
      <3>2. Stored(w)'
        BY <3>1, <2>1, <2>2, <1>1 DEF Fresh, world, TypeOK
      <3>3. Good(w)' /\ at'[w] <= now
        BY <3>1, <2>1, <1>1 DEF Honoured, Fresh, world
      <3>4. \A v \in Worker \ {w} : /\ stage'[v] = stage[v] /\ token'[v] = token[v]
                                    /\ at'[v] = at[v] /\ heard'[v] = heard[v]
                                    /\ answer'[v] = answer[v]
        BY <3>1, <1>1 DEF TypeOK
      <3> QED BY <2>1, <3>2, <3>3, <3>4, <1>4
    <2> QED BY <2>3, <2>4
  <1>10. ASSUME NEW w \in Worker, LookupFails(w)
         PROVE  \A v \in Worker : Past(v)' /\ Stored(v)' /\ Good(v)'
    BY <1>10, <1>5 DEF LookupFails
  <1>11. ASSUME NEW w \in Worker, Store(w)
         PROVE  /\ \A v \in Worker : Past(v)' /\ Stored(v)' /\ Good(v)'
                /\ \A j \in Jti : Short(j)' /\ Kept(j)'
    <2>1. /\ UNCHANGED world /\ Answer(w, heard[w]) /\ heard[w] \in BOOLEAN
          /\ token[w] \in Jti /\ at[w] \in Nat /\ at[w] <= now /\ now \in Nat
          /\ stage[w] = "store"
      BY <1>11, <1>1 DEF Store, TypeOK
    <2>2. heard[w] \/ Fresh(token[w], at[w])
      BY <2>1, <1>1
    <2> DEFINE room == IF local THEN Room(cache, at[w]) ELSE cache
               entry == [revoked |-> heard[w], until |-> at[w] + CacheTtl]
    <2>3. /\ room \in [Jti -> Entry \cup {NoEntry}]
          /\ \A j \in Jti : room[j] \in {cache[j], NoEntry}
      BY <2>1, <1>1, RoomType DEF TypeOK
    <2>4. cache' = [room EXCEPT ![token[w]] = entry]
      BY <1>11 DEF Store
    <2>5. ASSUME NEW j \in Jti PROVE Short(j)' /\ Kept(j)'
      <3>1. CASE j = token[w]
        <4>1. cache'[j] = entry
          BY <3>1, <2>3, <2>4
        <4>2. entry.until = at[w] + CacheTtl /\ entry.revoked = heard[w]
              /\ entry.until - CacheTtl = at[w]
          BY <2>1
        <4> QED BY <4>1, <4>2, <3>1, <2>1, <2>2 DEF world, Fresh
      <3>2. CASE j # token[w]
        <4>1. cache'[j] \in {cache[j], NoEntry}
          BY <3>2, <2>3, <2>4
        <4> QED BY <4>1, <2>1, <1>1 DEF world, Fresh
      <3> QED BY <3>1, <3>2
    <2> QED BY <2>1, <2>2, <2>5, <1>5
  <1>12. ASSUME NEW w \in Worker,
                (\E j \in Jti : Arrive(w, j)) \/ Check(w) \/ Lookup(w) \/ LookupFails(w)
         PROVE  \A j \in Jti : Short(j)' /\ Kept(j)'
    BY <1>12, <1>6 DEF Arrive, Check, Lookup, LookupFails
  <1> QED
    BY <1>3, <1>7, <1>8, <1>9, <1>10, <1>11, <1>12 DEF Next

\* A deployment that fails closed honours a signed-out token for at most CacheTtl
\* after the sign-out, for every schedule of lookups and stores.
THEOREM SignOut ==
    ASSUME ~FailOpen
    PROVE  Spec => []SignOutBound
  <1>1. Init => SignOutInv
    BY TypeInit, TimeAssumption DEF Init, SignOutInv, Honoured
  <1>2. SignOutInv /\ [Next]_vars => SignOutInv'
    BY SignOutStep
  <1>3. SignOutInv => SignOutBound
    BY DEF SignOutInv, SignOutBound, Fresh
  <1> QED BY <1>1, <1>2, <1>3, PTL DEF Spec

-----------------------------------------------------------------------------
\* What the requests and the cache know about a token's expiry.
InTime(w) ==
    /\ stage[w] # "idle" \/ Honoured(w) => since[w] <= now
    /\ stage[w] \in {"lookup", "store"} => since[w] <= at[w] /\ at[w] <= now
    /\ local /\ stage[w] # "idle" => since[w] <= Expiry[token[w]]
    /\ ~local /\ stage[w] = "store" /\ ~heard[w] => at[w] <= Expiry[token[w]]
    /\ Honoured(w) => \/ since[w] <= Expiry[token[w]]
                      \/ ~local /\ since[w] < Expiry[token[w]] + CacheTtl

ExpiryInv ==
    /\ TypeOK
    /\ \A w \in Worker : InTime(w)
    /\ ~local => \A j \in Jti : cache[j] # NoEntry /\ ~cache[j].revoked =>
                               cache[j].until <= Expiry[j] + CacheTtl

LEMMA AnswerInTime ==
    ASSUME TypeOK, \A v \in Worker : InTime(v), UNCHANGED world,
           NEW w \in Worker, NEW r \in BOOLEAN, Answer(w, r),
           ~r => /\ token[w] \in Jti /\ since[w] <= now
                 /\ \/ since[w] <= Expiry[token[w]]
                    \/ ~local /\ since[w] < Expiry[token[w]] + CacheTtl
    PROVE  \A v \in Worker : InTime(v)'
  <1>1. /\ stage' = [stage EXCEPT ![w] = "idle"] /\ heard' = [heard EXCEPT ![w] = FALSE]
        /\ r => answer' = [answer EXCEPT ![w] = "refused"]
        /\ ~r => UNCHANGED <<token, since, at>>
        /\ now' = now /\ local' = local
    BY DEF Answer, world
  <1>2. stage'[w] = "idle" /\ (r => answer'[w] = "refused")
    BY <1>1 DEF TypeOK
  <1>3. InTime(w)'
    BY <1>1, <1>2 DEF InTime, Honoured
  <1>4. ASSUME NEW v \in Worker \ {w} PROVE InTime(v)'
    <2>1. /\ stage'[v] = stage[v] /\ token'[v] = token[v] /\ since'[v] = since[v]
          /\ at'[v] = at[v] /\ heard'[v] = heard[v] /\ answer'[v] = answer[v]
      BY DEF Answer, TypeOK
    <2> QED BY <1>1, <2>1 DEF InTime, Honoured
  <1> QED BY <1>3, <1>4

LEMMA ExpiryStep == ExpiryInv /\ [Next]_vars => ExpiryInv'
  <1> SUFFICES ASSUME ExpiryInv, [Next]_vars PROVE ExpiryInv'
    OBVIOUS
  <1> USE TimeAssumption, NoneAssumption
  <1> DEFINE Lasts(j) == ~local => (cache[j] # NoEntry /\ ~cache[j].revoked =>
                                      cache[j].until <= Expiry[j] + CacheTtl)
             Others(w) == \A v \in Worker \ {w} :
                            /\ stage'[v] = stage[v] /\ token'[v] = token[v]
                            /\ since'[v] = since[v] /\ at'[v] = at[v]
                            /\ heard'[v] = heard[v] /\ answer'[v] = answer[v]
  <1>1. TypeOK /\ TypeOK' /\ (\A w \in Worker : InTime(w)) /\ (\A j \in Jti : Lasts(j))
    BY TypeStep DEF ExpiryInv
  <1>2. SUFFICES (\A w \in Worker : InTime(w)') /\ (\A j \in Jti : Lasts(j)')
    BY <1>1 DEF ExpiryInv
  <1>3. ASSUME Tick \/ (\E i \in Jti : Revoke(i)) \/ UNCHANGED vars
        PROVE  (\A w \in Worker : InTime(w)') /\ (\A j \in Jti : Lasts(j)')
    <2>1. UNCHANGED <<local, cache, request>> /\ now <= now'
      BY <1>3, <1>1 DEF Tick, Revoke, vars, world, TypeOK
    <2>2. ASSUME NEW w \in Worker PROVE InTime(w)'
      BY <1>1, <2>1 DEF InTime, Honoured, request, TypeOK
    <2> QED BY <1>1, <2>1, <2>2
  <1>4. ASSUME NEW w \in Worker, UNCHANGED world, InTime(w)', Others(w)
        PROVE  \A v \in Worker : InTime(v)'
    <2>1. ASSUME NEW v \in Worker \ {w} PROVE InTime(v)'
      BY <1>1, <1>4, <2>1 DEF InTime, Honoured, world
    <2> QED BY <1>4, <2>1
  <1>5. ASSUME NEW w \in Worker, NEW j \in Jti, Arrive(w, j) PROVE \A v \in Worker : InTime(v)'
    <2>1. UNCHANGED world
      BY <1>5 DEF Arrive
    <2>2. CASE Answer(w, TRUE)
      BY <1>1, <2>1, <2>2, AnswerInTime
    <2>3. CASE ~Answer(w, TRUE)
      <3>0. ~(local /\ now > Expiry[j])
        BY <1>5, <2>3 DEF Arrive
      <3>1. /\ stage' = [stage EXCEPT ![w] = "check"] /\ token' = [token EXCEPT ![w] = j]
            /\ since' = [since EXCEPT ![w] = now] /\ at' = [at EXCEPT ![w] = 0]
            /\ answer' = [answer EXCEPT ![w] = "none"] /\ heard' = heard
        BY <1>5, <2>3 DEF Arrive
      <3>2. stage'[w] = "check" /\ token'[w] = j /\ since'[w] = now /\ answer'[w] = "none"
        BY <3>1, <1>1 DEF TypeOK
      <3>3. InTime(w)'
        BY <3>0, <3>1, <3>2, <2>1, <1>1 DEF InTime, Honoured, world, TypeOK
      <3>4. Others(w)
        BY <3>1, <1>1 DEF TypeOK
      <3> QED BY <2>1, <3>3, <3>4, <1>4
    <2> QED BY <2>2, <2>3
  <1>6. ASSUME NEW w \in Worker, Check(w) PROVE \A v \in Worker : InTime(v)'
    <2>1. UNCHANGED world /\ token[w] \in Jti /\ stage[w] = "check"
      BY <1>6, <1>1 DEF Check, TypeOK
    <2>2. CASE Answer(w, TRUE)
      BY <1>1, <2>1, <2>2, AnswerInTime
    <2>3. CASE ~Answer(w, TRUE)
      <3> DEFINE hit == cache[token[w]]
      <3>1. /\ at' = [at EXCEPT ![w] = now] /\ UNCHANGED <<token, since, heard>>
            /\ \/ /\ hit # NoEntry /\ hit.until > now /\ ~hit.revoked
                  /\ stage' = [stage EXCEPT ![w] = "idle"]
                  /\ answer' = [answer EXCEPT ![w] = "honoured"]
               \/ /\ stage' = [stage EXCEPT ![w] = "lookup"]
                  /\ answer' = [answer EXCEPT ![w] = "none"]
        BY <2>3, <1>6 DEF Check
      <3>2. /\ since[w] <= now /\ since[w] \in Nat /\ now \in Nat /\ Expiry[token[w]] \in Nat
            /\ local => since[w] <= Expiry[token[w]]
        BY <2>1, <1>1 DEF InTime, TypeOK
      <3>3. /\ at'[w] = now /\ now' = now /\ local' = local
            /\ since'[w] = since[w] /\ token'[w] = token[w]
        BY <3>1, <2>1, <1>1 DEF TypeOK, world
      <3>4. CASE stage' = [stage EXCEPT ![w] = "lookup"] /\ answer' = [answer EXCEPT ![w] = "none"]
        <4>1. stage'[w] = "lookup" /\ answer'[w] = "none"
          BY <3>4, <1>1 DEF TypeOK
        <4>2. InTime(w)'
          BY <3>2, <3>3, <4>1 DEF InTime, Honoured
        <4>3. Others(w)
          BY <3>1, <3>4, <1>1 DEF TypeOK
        <4> QED BY <2>1, <4>2, <4>3, <1>4
      <3>5. CASE /\ hit # NoEntry /\ hit.until > now /\ ~hit.revoked
                 /\ stage' = [stage EXCEPT ![w] = "idle"]
                 /\ answer' = [answer EXCEPT ![w] = "honoured"]
        <4>1. stage'[w] = "idle" /\ answer'[w] = "honoured"
          BY <3>5, <1>1 DEF TypeOK
        <4>2. ~local => since[w] < Expiry[token[w]] + CacheTtl
          BY <3>5, <3>2, <2>1, <1>1 DEF TypeOK, Entry
        <4>3. InTime(w)'
          BY <3>2, <3>3, <4>1, <4>2 DEF InTime, Honoured
        <4>4. Others(w)
          BY <3>1, <3>5, <1>1 DEF TypeOK
        <4> QED BY <2>1, <4>3, <4>4, <1>4
      <3> QED BY <3>1, <3>4, <3>5
    <2> QED BY <2>2, <2>3
  <1>7. ASSUME NEW w \in Worker, Lookup(w) PROVE \A v \in Worker : InTime(v)'
    <2> DEFINE r == IF local THEN Denied(token[w])
                    ELSE revokedAt[token[w]] # Never \/ now > Expiry[token[w]]
    <2>1. UNCHANGED world /\ token[w] \in Jti /\ r \in BOOLEAN /\ stage[w] = "lookup"
      BY <1>7, <1>1 DEF Lookup, TypeOK, Denied
    <2>2. /\ since[w] <= at[w] /\ at[w] <= now /\ since[w] \in Nat /\ at[w] \in Nat /\ now \in Nat
          /\ Expiry[token[w]] \in Nat /\ (local => since[w] <= Expiry[token[w]])
      BY <2>1, <1>1 DEF InTime, TypeOK
    <2>3. ~local /\ ~r => at[w] <= Expiry[token[w]]
      BY <2>2
    <2>4. CASE Answer(w, r)
      BY <1>1, <2>1, <2>2, <2>3, <2>4, AnswerInTime
    <2>5. CASE ~Answer(w, r)
      <3>1. /\ heard' = [heard EXCEPT ![w] = r] /\ stage' = [stage EXCEPT ![w] = "store"]
            /\ UNCHANGED <<token, since, at, answer>>
        BY <2>5, <1>7 DEF Lookup
      <3>2. stage'[w] = "store" /\ heard'[w] = r /\ now' = now /\ local' = local
        BY <3>1, <2>1, <1>1 DEF TypeOK, world
      <3>3. InTime(w)'
        BY <3>1, <3>2, <2>1, <2>2, <2>3, <1>1 DEF InTime, Honoured
      <3>4. Others(w)
        BY <3>1, <1>1 DEF TypeOK
      <3> QED BY <2>1, <3>3, <3>4, <1>4
    <2> QED BY <2>4, <2>5
  <1>8. ASSUME NEW w \in Worker, LookupFails(w) PROVE \A v \in Worker : InTime(v)'
    <2>1. UNCHANGED world /\ token[w] \in Jti /\ stage[w] = "lookup"
          /\ Answer(w, ~(local /\ FailOpen))
      BY <1>8, <1>1 DEF LookupFails, TypeOK
    <2>2. since[w] <= now /\ (local => since[w] <= Expiry[token[w]])
      BY <2>1, <1>1 DEF InTime, TypeOK
    <2> QED BY <1>1, <2>1, <2>2, AnswerInTime DEF TypeOK
  <1>9. ASSUME NEW w \in Worker, Store(w)
        PROVE  (\A v \in Worker : InTime(v)') /\ (\A j \in Jti : Lasts(j)')
    <2>1. /\ UNCHANGED world /\ Answer(w, heard[w]) /\ heard[w] \in BOOLEAN
          /\ token[w] \in Jti /\ stage[w] = "store" /\ Expiry[token[w]] \in Nat
          /\ since[w] \in Nat /\ at[w] \in Nat /\ now \in Nat
      BY <1>9, <1>1 DEF Store, TypeOK
    <2>2. /\ since[w] <= at[w] /\ at[w] <= now /\ (local => since[w] <= Expiry[token[w]])
          /\ ~local /\ ~heard[w] => at[w] <= Expiry[token[w]]
      BY <2>1, <1>1 DEF InTime
    <2>3. \A v \in Worker : InTime(v)'
      BY <1>1, <2>1, <2>2, AnswerInTime
    <2> DEFINE room == IF local THEN Room(cache, at[w]) ELSE cache
               entry == [revoked |-> heard[w], until |-> at[w] + CacheTtl]
    <2>4. /\ room \in [Jti -> Entry \cup {NoEntry}]
          /\ \A j \in Jti : room[j] \in {cache[j], NoEntry}
      BY <2>1, <1>1, RoomType DEF TypeOK
    <2>5. cache' = [room EXCEPT ![token[w]] = entry]
      BY <1>9 DEF Store
    <2>6. ASSUME NEW j \in Jti PROVE Lasts(j)'
      <3>1. CASE j = token[w]
        <4>1. cache'[j] = entry
          BY <3>1, <2>4, <2>5
        <4> QED BY <4>1, <3>1, <2>1, <2>2 DEF world
      <3>2. CASE j # token[w]
        <4>1. cache'[j] \in {cache[j], NoEntry}
          BY <3>2, <2>4, <2>5
        <4> QED BY <4>1, <2>1, <1>1 DEF world
      <3> QED BY <3>1, <3>2
    <2> QED BY <2>3, <2>6
  <1>10. ASSUME NEW w \in Worker,
                (\E j \in Jti : Arrive(w, j)) \/ Check(w) \/ Lookup(w) \/ LookupFails(w)
         PROVE  \A j \in Jti : Lasts(j)'
    <2>1. cache' = cache /\ local' = local
      BY <1>10 DEF Arrive, Check, Lookup, LookupFails, world
    <2> QED BY <2>1, <1>1
  <1> QED
    BY <1>3, <1>5, <1>6, <1>7, <1>8, <1>9, <1>10 DEF Next

\* However requests overlap, a token verified locally is honoured only by a request
\* that came before it expired, and one the bridge vouched for not CacheTtl later.
THEOREM Expires == Spec => []ExpiryBound
  <1>1. Init => ExpiryInv
    BY TypeInit, TimeAssumption DEF Init, ExpiryInv, InTime, Honoured
  <1>2. ExpiryInv => ExpiryBound
    BY DEF ExpiryInv, ExpiryBound, InTime
  <1> QED BY <1>1, <1>2, ExpiryStep, PTL DEF Spec

-----------------------------------------------------------------------------
CacheInv == TypeOK /\ CacheBounded

\* Making room leaves room for one more.
LEMMA RoomMade ==
    ASSUME NEW c \in [Jti -> Entry \cup {NoEntry}], NEW t \in Nat
    PROVE  Cardinality(Entries(Room(c, t))) < MaxEntries
  <1>1. Entries([j \in Jti |-> NoEntry]) = {}
    BY DEF Entries
  <1>2. Cardinality({}) = 0
    BY FS_EmptySet
  <1> QED BY <1>1, <1>2, TimeAssumption DEF Room

LEMMA OneMore ==
    ASSUME NEW S, IsFiniteSet(S), NEW x
    PROVE  IsFiniteSet(S \cup {x}) /\ Cardinality(S \cup {x}) <= Cardinality(S) + 1
  <1>1. Cardinality(S) \in Nat
    BY FS_CardinalityType
  <1>2. IsFiniteSet(S \cup {x})
    BY FS_AddElement
  <1>3. Cardinality(S \cup {x}) = IF x \in S THEN Cardinality(S) ELSE Cardinality(S) + 1
    BY FS_AddElement
  <1> QED BY <1>1, <1>2, <1>3

\* The cache of verdicts never outgrows max_cache_entries, however many requests
\* prune and store in it.
THEOREM Bounded == Spec => []CacheBounded
  <1> USE TimeAssumption, NoneAssumption
  <1>1. Init => CacheInv
    <2>1. Init => Entries(cache) = {}
      BY DEF Init, Entries
    <2> QED BY <2>1, TypeInit, FS_EmptySet DEF CacheInv, CacheBounded
  <1>2. CacheInv /\ [Next]_vars => CacheInv'
    <2> SUFFICES ASSUME CacheInv, [Next]_vars PROVE CacheInv'
      OBVIOUS
    <2>1. TypeOK /\ TypeOK'
      BY TypeStep DEF CacheInv
    <2>2. ASSUME UNCHANGED <<local, cache>> PROVE CacheBounded'
      BY <2>2 DEF CacheInv, CacheBounded, Entries
    <2>3. ASSUME NEW w \in Worker, Store(w), local' PROVE Cardinality(Entries(cache')) <= MaxEntries
      <3> DEFINE room == Room(cache, at[w])
      <3>1. local /\ token[w] \in Jti /\ at[w] \in Nat /\ room \in [Jti -> Entry \cup {NoEntry}]
        BY <2>1, <2>3, RoomType DEF Store, TypeOK, world
      <3>2. Cardinality(Entries(room)) < MaxEntries
        BY <2>1, <3>1, RoomMade DEF TypeOK
      <3>3. IsFiniteSet(Entries(room)) /\ Cardinality(Entries(room)) \in Nat
        <4>1. Entries(room) \subseteq Jti
          BY DEF Entries
        <4> QED BY <4>1, FS_Subset, FS_CardinalityType
      <3>4. PICK e : cache' = [room EXCEPT ![token[w]] = e]
        BY <2>3, <3>1 DEF Store
      <3>5. Entries(cache') \subseteq Entries(room) \cup {token[w]}
        BY <3>1, <3>4 DEF Entries
      <3>6. /\ IsFiniteSet(Entries(room) \cup {token[w]})
            /\ Cardinality(Entries(room) \cup {token[w]}) <= Cardinality(Entries(room)) + 1
        BY <3>3, OneMore
      <3>7. /\ Cardinality(Entries(cache')) <= Cardinality(Entries(room) \cup {token[w]})
            /\ Cardinality(Entries(cache')) \in Nat
            /\ Cardinality(Entries(room) \cup {token[w]}) \in Nat
        BY <3>5, <3>6, FS_Subset, FS_CardinalityType
      <3> QED BY <3>2, <3>3, <3>6, <3>7
    <2>4. ASSUME NEW w \in Worker, Store(w) PROVE CacheBounded'
      BY <2>3, <2>4 DEF CacheBounded
    <2>5. ASSUME NEW w \in Worker,
                 (\E j \in Jti : Arrive(w, j)) \/ Check(w) \/ Lookup(w) \/ LookupFails(w)
          PROVE  UNCHANGED <<local, cache>>
      BY <2>5 DEF Arrive, Check, Lookup, LookupFails, world
    <2>6. ASSUME Tick \/ (\E j \in Jti : Revoke(j)) \/ UNCHANGED vars
          PROVE  UNCHANGED <<local, cache>>
      BY <2>6 DEF Tick, Revoke, vars, world
    <2> QED BY <2>1, <2>2, <2>4, <2>5, <2>6 DEF Next, CacheInv
  <1>3. CacheInv => CacheBounded
    BY DEF CacheInv
  <1> QED BY <1>1, <1>2, <1>3, PTL DEF Spec

-----------------------------------------------------------------------------
\* Where the bridge is asked, its "active" is older than the sign-out or wrong for as
\* long as it is remembered; a failure of the bridge refuses, and so does its "no".
Early(j, t) == revokedAt[j] = Never \/ t <= revokedAt[j]

AskedBound ==
    ~local => \A w \in Worker : Honoured(w) =>
        Early(token[w], at[w]) \/ at[w] < revokedAt[token[w]] + CacheTtl

Remembered(j) ==
    cache[j] # NoEntry =>
        /\ ~cache[j].revoked /\ Early(j, cache[j].until - CacheTtl)
        /\ cache[j].until - CacheTtl <= now

Told(w) == stage[w] = "store" => ~heard[w] /\ Early(token[w], at[w])

AskedInv ==
    ~local =>
        /\ AskedBound
        /\ \A w \in Worker : at[w] <= now /\ Told(w)
        /\ \A j \in Jti : Remembered(j)

\* Time and the bridge leave what was early early.
LEMMA EarlyStays ==
    ASSUME TypeOK, Tick \/ (\E i \in Jti : Revoke(i)),
           NEW j \in Jti, NEW t \in Int, t <= now
    PROVE  /\ Early(j, t) => Early(j, t)'
           /\ revokedAt[j] # Never => revokedAt'[j] = revokedAt[j]
           /\ now <= now'
  <1>1. CASE Tick
    BY <1>1 DEF Tick, Early, TypeOK
  <1>2. ASSUME NEW i \in Jti, Revoke(i) PROVE Early(j, t) => Early(j, t)'
    BY <1>2, NoneAssumption DEF Revoke, Early, TypeOK
  <1>3. ASSUME NEW i \in Jti, Revoke(i)
        PROVE  (revokedAt[j] # Never => revokedAt'[j] = revokedAt[j]) /\ now <= now'
    BY <1>3 DEF Revoke, TypeOK
  <1> QED BY <1>1, <1>2, <1>3

LEMMA AskedStep == TypeOK /\ AskedInv /\ [Next]_vars => AskedInv'
  <1> SUFFICES ASSUME TypeOK, AskedInv, [Next]_vars, ~local' PROVE AskedInv'
    BY DEF AskedInv
  <1> USE TimeAssumption, NoneAssumption
  <1> DEFINE Good(w) == Honoured(w) =>
                          Early(token[w], at[w]) \/ at[w] < revokedAt[token[w]] + CacheTtl
             Request(w) == at[w] <= now /\ Told(w) /\ Good(w)
  <1>1. local' = local
    BY DEF Next, vars, world, Tick, Revoke, Arrive, Check, Lookup, LookupFails, Store
  <1>2. /\ \A w \in Worker : Request(w)
        /\ \A j \in Jti : Remembered(j)
    BY <1>1 DEF AskedInv, AskedBound
  <1>3. SUFFICES (\A w \in Worker : Request(w)') /\ (\A j \in Jti : Remembered(j)')
    BY DEF AskedInv, AskedBound
  <1>4. ASSUME Tick \/ (\E i \in Jti : Revoke(i))
        PROVE  (\A w \in Worker : Request(w)') /\ (\A j \in Jti : Remembered(j)')
    <2>1. UNCHANGED <<cache, request>>
      BY <1>4 DEF Tick, Revoke
    <2>2. ASSUME NEW w \in Worker PROVE Request(w)'
      <3>1. /\ stage'[w] = stage[w] /\ token'[w] = token[w] /\ at'[w] = at[w]
            /\ heard'[w] = heard[w] /\ answer'[w] = answer[w] /\ at[w] \in Nat /\ at[w] <= now
            /\ Told(w) /\ Good(w)
        BY <1>2, <2>1 DEF request, TypeOK
      <3>2. at'[w] <= now'
        BY <1>4, <3>1 DEF Tick, Revoke, TypeOK
      <3>3. stage[w] = "store" \/ Honoured(w) => token[w] \in Jti
        BY DEF TypeOK, Honoured
      <3>4. stage[w] = "store" \/ Honoured(w) =>
              /\ Early(token[w], at[w]) => Early(token[w], at[w])'
              /\ revokedAt[token[w]] # Never => revokedAt'[token[w]] = revokedAt[token[w]]
        <4>1. SUFFICES ASSUME stage[w] = "store" \/ Honoured(w), NEW j \in Jti, j = token[w]
                       PROVE  /\ Early(token[w], at[w]) => Early(token[w], at[w])'
                              /\ revokedAt[token[w]] # Never
                                   => revokedAt'[token[w]] = revokedAt[token[w]]
          BY <3>3
        <4>2. /\ Early(j, at[w]) => Early(j, at[w])'
              /\ revokedAt[j] # Never => revokedAt'[j] = revokedAt[j]
          BY <1>4, <3>1, EarlyStays DEF Early
        <4> QED BY <3>1, <4>1, <4>2 DEF Early
      <3>5. Told(w)'
        BY <3>1, <3>4 DEF Told
      <3>6. Good(w)'
        <4>1. SUFFICES ASSUME Honoured(w)
                       PROVE  Early(token[w], at[w])'
                              \/ at[w] < revokedAt'[token[w]] + CacheTtl
          BY <3>1 DEF Honoured
        <4>2. CASE Early(token[w], at[w])
          BY <3>4, <4>1, <4>2
        <4>3. CASE ~Early(token[w], at[w])
          BY <3>1, <3>4, <4>1, <4>3 DEF Early
        <4> QED BY <4>2, <4>3
      <3> QED BY <3>2, <3>5, <3>6
    <2>3. ASSUME NEW j \in Jti, cache[j] # NoEntry PROVE Remembered(j)'
      <3>1. /\ ~cache[j].revoked /\ Early(j, cache[j].until - CacheTtl)
            /\ cache[j].until - CacheTtl <= now /\ cache[j].until - CacheTtl \in Int
        BY <1>2, <2>3 DEF Remembered, TypeOK, Entry
      <3>2. Early(j, cache[j].until - CacheTtl)' /\ now <= now'
        BY <1>4, <2>1, <3>1, EarlyStays DEF Early
      <3>3. now \in Nat /\ now' \in Nat
        BY TypeStep DEF TypeOK
      <3> QED BY <2>1, <3>1, <3>2, <3>3 DEF Remembered
    <2> QED BY <2>1, <2>2, <2>3 DEF Remembered
  \* The steps of one request: the others and the clock stay.
  <1>5. ASSUME NEW w \in Worker, UNCHANGED world, Request(w)',
               \A v \in Worker \ {w} : /\ stage'[v] = stage[v] /\ token'[v] = token[v]
                                       /\ at'[v] = at[v] /\ heard'[v] = heard[v]
                                       /\ answer'[v] = answer[v]
        PROVE  \A v \in Worker : Request(v)'
    BY <1>2, <1>5 DEF world, Early, Told, Honoured
  <1>6. ASSUME NEW w \in Worker, NEW r \in BOOLEAN, Answer(w, r), UNCHANGED world,
               r \/ Early(token[w], at[w])
        PROVE  \A v \in Worker : Request(v)'
    <2>1. at'[w] <= now' /\ Told(w)'
      BY <1>2, <1>6 DEF Answer, TypeOK, world, Told
    <2>2. Good(w)'
      BY <1>6 DEF Answer, TypeOK, Honoured, Early, world
    <2>3. \A v \in Worker \ {w} : /\ stage'[v] = stage[v] /\ token'[v] = token[v]
                                  /\ at'[v] = at[v] /\ heard'[v] = heard[v]
                                  /\ answer'[v] = answer[v]
      BY <1>6 DEF Answer, TypeOK
    <2> QED BY <1>5, <1>6, <2>1, <2>2, <2>3
  <1>7. ASSUME UNCHANGED <<world, cache>> PROVE \A j \in Jti : Remembered(j)'
    BY <1>2, <1>7 DEF world, Early, Remembered
  <1>8. ASSUME NEW w \in Worker, NEW j \in Jti, Arrive(w, j) PROVE \A v \in Worker : Request(v)'
    <2>1. CASE Answer(w, TRUE)
      BY <1>6, <1>8, <2>1 DEF Arrive
    <2>2. CASE ~Answer(w, TRUE)
      <3>1. /\ UNCHANGED world /\ stage' = [stage EXCEPT ![w] = "check"]
            /\ token' = [token EXCEPT ![w] = j] /\ at' = [at EXCEPT ![w] = 0]
            /\ answer' = [answer EXCEPT ![w] = "none"] /\ heard' = heard
        BY <2>2, <1>8 DEF Arrive
      <3>2. at'[w] = 0 /\ 0 <= now' /\ stage'[w] = "check" /\ answer'[w] = "none"
        BY <3>1 DEF TypeOK, world
      <3>3. \A v \in Worker \ {w} : /\ stage'[v] = stage[v] /\ token'[v] = token[v]
                                    /\ at'[v] = at[v] /\ heard'[v] = heard[v]
                                    /\ answer'[v] = answer[v]
        BY <3>1 DEF TypeOK
      <3> QED BY <1>5, <3>1, <3>2, <3>3 DEF Told, Honoured
    <2> QED BY <2>1, <2>2
  <1>9. ASSUME NEW w \in Worker, Check(w) PROVE \A v \in Worker : Request(v)'
    <2>1. CASE Answer(w, TRUE)
      BY <1>6, <1>9, <2>1 DEF Check
    <2>2. CASE ~Answer(w, TRUE)
      <3> DEFINE hit == cache[token[w]]
      <3>1. /\ at' = [at EXCEPT ![w] = now] /\ UNCHANGED <<token, since, heard>>
            /\ \/ /\ hit # NoEntry /\ hit.until > now
                  /\ stage' = [stage EXCEPT ![w] = "idle"]
                  /\ answer' = [answer EXCEPT ![w] = "honoured"]
               \/ /\ stage' = [stage EXCEPT ![w] = "lookup"]
                  /\ answer' = [answer EXCEPT ![w] = "none"]
        BY <2>2, <1>9 DEF Check
      <3>2. token[w] \in Jti /\ UNCHANGED world /\ at'[w] = now /\ now' = now
        BY <3>1, <1>9 DEF Check, TypeOK, world
      <3>3. Good(w)'
        <4>1. SUFFICES ASSUME answer'[w] = "honoured"
                       PROVE  Early(token[w], now) \/ now < revokedAt[token[w]] + CacheTtl
          BY <3>1, <3>2 DEF Honoured, Early, world
        <4>2. hit # NoEntry /\ hit.until > now
          BY <4>1, <3>1 DEF TypeOK
        <4>3. Early(token[w], hit.until - CacheTtl) /\ hit.until \in Nat /\ now \in Nat
          BY <1>2, <4>2, <3>2 DEF TypeOK, Entry, Remembered
        <4>4. revokedAt[token[w]] \in Nat \cup {Never}
          BY <3>2 DEF TypeOK
        <4> QED BY <4>2, <4>3, <4>4 DEF Early
      <3>4. stage'[w] # "store" /\ at'[w] <= now'
        BY <3>1, <3>2 DEF TypeOK
      <3>5. \A v \in Worker \ {w} : /\ stage'[v] = stage[v] /\ token'[v] = token[v]
                                    /\ at'[v] = at[v] /\ heard'[v] = heard[v]
                                    /\ answer'[v] = answer[v]
        BY <3>1 DEF TypeOK
      <3>6. Told(w)'
        BY <3>4 DEF Told
      <3> QED BY <1>5, <3>2, <3>3, <3>4, <3>5, <3>6
    <2> QED BY <2>1, <2>2
  <1>10. ASSUME NEW w \in Worker, Lookup(w) PROVE \A v \in Worker : Request(v)'
    <2> DEFINE r == revokedAt[token[w]] # Never \/ now > Expiry[token[w]]
    <2>1. /\ UNCHANGED world
          /\ \/ Answer(w, r)
             \/ /\ ~r /\ heard' = [heard EXCEPT ![w] = r]
                /\ stage' = [stage EXCEPT ![w] = "store"]
                /\ UNCHANGED <<token, since, at, answer>>
      BY <1>1, <1>10 DEF Lookup
    <2>2. r \in BOOLEAN /\ (r \/ Early(token[w], at[w]))
      BY DEF Early
    <2>3. CASE Answer(w, r)
      BY <1>6, <2>1, <2>2, <2>3
    <2>4. CASE ~Answer(w, r)
      <3>1. /\ ~r /\ heard'[w] = r /\ Early(token[w], at[w]) /\ UNCHANGED <<token, at, answer>>
        BY <2>1, <2>2, <2>4 DEF TypeOK
      <3>2. Told(w)'
        BY <2>1, <3>1 DEF Told, Early, world
      <3>3. Good(w)' /\ at'[w] <= now'
        BY <1>2, <2>1, <3>1 DEF Honoured, Early, world
      <3>4. \A v \in Worker \ {w} : /\ stage'[v] = stage[v] /\ token'[v] = token[v]
                                    /\ at'[v] = at[v] /\ heard'[v] = heard[v]
                                    /\ answer'[v] = answer[v]
        BY <2>1, <2>4 DEF TypeOK
      <3> QED BY <1>5, <2>1, <3>2, <3>3, <3>4
    <2> QED BY <2>3, <2>4
  <1>11. ASSUME NEW w \in Worker, LookupFails(w) PROVE \A v \in Worker : Request(v)'
    BY <1>1, <1>6, <1>11 DEF LookupFails
  <1>12. ASSUME NEW w \in Worker, Store(w)
         PROVE  (\A v \in Worker : Request(v)') /\ (\A j \in Jti : Remembered(j)')
    <2>1. /\ UNCHANGED world /\ Answer(w, heard[w]) /\ heard[w] \in BOOLEAN
          /\ token[w] \in Jti /\ at[w] \in Nat /\ at[w] <= now /\ now \in Nat
          /\ stage[w] = "store" /\ ~heard[w] /\ Early(token[w], at[w])
      BY <1>2, <1>12 DEF Store, TypeOK, Told
    <2> DEFINE entry == [revoked |-> heard[w], until |-> at[w] + CacheTtl]
    <2>2. cache' = [cache EXCEPT ![token[w]] = entry]
      BY <1>1, <1>12 DEF Store
    <2>3. ASSUME NEW j \in Jti PROVE Remembered(j)'
      <3>1. CASE j = token[w]
        <4>1. cache'[j] = entry
          BY <3>1, <2>2 DEF TypeOK
        <4>2. entry.until - CacheTtl = at[w] /\ entry.revoked = heard[w]
          BY <2>1
        <4> QED BY <4>1, <4>2, <3>1, <2>1 DEF world, Early, Remembered
      <3>2. CASE j # token[w]
        <4>1. cache'[j] = cache[j]
          BY <3>2, <2>2 DEF TypeOK
        <4> QED BY <4>1, <2>1, <1>2 DEF world, Early, Remembered
      <3> QED BY <3>1, <3>2
    <2> QED BY <1>6, <2>1, <2>3
  <1>13. ASSUME NEW w \in Worker,
                (\E j \in Jti : Arrive(w, j)) \/ Check(w) \/ Lookup(w) \/ LookupFails(w)
         PROVE  \A j \in Jti : Remembered(j)'
    BY <1>7, <1>13 DEF Arrive, Check, Lookup, LookupFails
  <1>14. CASE UNCHANGED vars
    BY <1>2, <1>14 DEF vars, world, request, Early, Told, Honoured, Remembered
  <1> QED
    BY <1>4, <1>8, <1>9, <1>10, <1>11, <1>12, <1>13, <1>14 DEF Next

\* A service that asks the bridge honours a signed-out token for at most CacheTtl after
\* the sign-out, whatever AUTH_REVOCATION_FAIL_OPEN says and although the token expires.
THEOREM SignOutAsked == Spec => []AskedBound
  <1>1. Init => AskedInv
    BY TypeInit, TimeAssumption DEF Init, AskedInv, AskedBound, Told, Remembered, Honoured
  <1>2. AskedInv => AskedBound
    BY DEF AskedInv, AskedBound
  <1> QED BY <1>1, <1>2, TypeInit, TypeStep, AskedStep, PTL DEF Spec
=============================================================================
