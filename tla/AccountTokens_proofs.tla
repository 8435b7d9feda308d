------------------------ MODULE AccountTokens_proofs ------------------------
(***************************************************************************)
(* Proofs about AccountTokens, for every number of accounts, spellings,    *)
(* tokens and overlapping requests.                                        *)
(***************************************************************************)
EXTENDS AccountTokens, TLAPS

\* The disjuncts of Next, with the routes that only admit a request together.
Admission(w) ==
    \/ \E a \in Address :
        SendInvite(w, a) \/ ResetRequest(w, a) \/ Welcome(w, a) \/ ChangePassword(w, a)
    \/ \E t \in Token : InviteAccept(w, t) \/ ResetConfirm(w, t)

\* A route admits a request for an address or for a token, never for neither.
LEMMA AdmissionArrives ==
    ASSUME TypeOK, NEW w \in Worker, Admission(w)
    PROVE  \/ \E o \in SendingOp, a \in Address : Arrive(w, o, a, None, "issue")
           \/ \E a \in Address : Arrive(w, "change_password", a, None, "audit")
           \/ \E o \in SettingOp, t \in Token : Arrive(w, o, None, t, "peek")
  <1>1. ASSUME NEW a \in Address PROVE Owner[a] \in Address
    BY AddressAssumption
  <1> QED
    BY <1>1, AddressAssumption DEF Admission, SendInvite, ResetRequest, Welcome,
       ChangePassword, InviteAccept, ResetConfirm, Op, SendingOp, SettingOp

LEMMA TypeInit == Init => TypeOK
  BY DEF Init, TypeOK, Kind, Stage, Op, SendingOp, SettingOp

LEMMA TypeStep == TypeOK /\ [Next]_vars => TypeOK'
  <1> SUFFICES ASSUME TypeOK, [Next]_vars PROVE TypeOK'
    OBVIOUS
  <1> USE NoneAssumption DEF TypeOK, SendingOp, SettingOp
  <1>1. ASSUME NEW w \in Worker, Admission(w) PROVE TypeOK'
    <2>1. CASE \/ \E o \in SendingOp, a \in Address :
                    Arrive(w, o, a, None, "issue")
               \/ \E a \in Address : Arrive(w, "change_password", a, None, "audit")
      BY <2>1 DEF Arrive, Go, redis, history, Stage, Op
    <2>2. CASE \E o \in SettingOp, t \in Token :
                 Arrive(w, o, None, t, "peek")
      BY <2>2 DEF Arrive, Go, redis, history, Stage, Op
    <2> QED BY <1>1, <2>1, <2>2, AdmissionArrives
  <1>2. ASSUME NEW w \in Worker, Issue(w) PROVE TypeOK'
    BY <1>2 DEF Issue, Go, Stage, Kind, Issued
  <1>3. ASSUME NEW w \in Worker, Mail(w) PROVE TypeOK'
    BY <1>3 DEF Mail, Finish, Go, redis, Stage
  <1>4. ASSUME NEW w \in Worker, Peek(w) PROVE TypeOK'
    <2>1. addr[carried[w]] \in Address \cup {None} /\ carried[w] \in Token
      BY <1>4 DEF Peek
    <2> QED BY <1>4, <2>1 DEF Peek, Go, redis, history, Stage
  <1>5. ASSUME NEW w \in Worker, Audit(w) PROVE TypeOK'
    BY <1>5 DEF Audit, Go, redis, history, Stage
  <1>6. ASSUME NEW w \in Worker, SetPassword(w) PROVE TypeOK'
    <2>1. CASE Finish(w, "ok")
      BY <1>6, <2>1 DEF SetPassword, Finish, Go, redis, history, Stage
    <2>2. CASE ~Finish(w, "ok")
      BY <1>6, <2>2 DEF SetPassword, Go, redis, history, Stage
    <2> QED BY <2>1, <2>2
  <1>7. ASSUME NEW w \in Worker, Find(w) PROVE TypeOK'
    BY <1>7 DEF Find, Go, redis, history, Stage
  <1>8. ASSUME NEW w \in Worker, Wipe(w) PROVE TypeOK'
    <2>1. Finish(w, "ok") \/ Finish(w, "error")
      BY <1>8 DEF Wipe
    <2>2. completed' \in [Token -> 0 .. 2]
      BY <1>8 DEF Wipe
    <2>3. /\ live' \in SUBSET live /\ index' \in [Address -> SUBSET Token]
          /\ UNCHANGED <<kind, addr, delivered, overlapped, contested>>
      BY <1>8 DEF Wipe
    <2>4. /\ stage' = [stage EXCEPT ![w] = "idle"] /\ op' = op
          /\ answer' = [answer EXCEPT ![w] = "ok"] \/ answer' = [answer EXCEPT ![w] = "error"]
          /\ who' = [who EXCEPT ![w] = None] /\ carried' = [carried EXCEPT ![w] = None]
          /\ found' = [found EXCEPT ![w] = {}] /\ recorded' = [recorded EXCEPT ![w] = FALSE]
      BY <2>1 DEF Finish, Go
    <2>5. \A v \in Worker \ {w} : /\ stage'[v] = stage[v] /\ op'[v] = op[v] /\ who'[v] = who[v]
                                 /\ carried'[v] = carried[v] /\ answer'[v] = answer[v]
      BY <2>4
    <2>6. /\ stage' \in [Worker -> Stage] /\ stage'[w] = "idle"
          /\ answer' \in [Worker -> {"none", "ok", "error"}]
          /\ who' \in [Worker -> Address \cup {None}]
          /\ carried' \in [Worker -> Token \cup {None}]
          /\ found' \in [Worker -> SUBSET Token] /\ recorded' \in [Worker -> BOOLEAN]
      BY <2>4 DEF Stage
    <2> QED BY <2>2, <2>3, <2>4, <2>5, <2>6
  <1>9. ASSUME NEW w \in Worker, Fail(w) PROVE TypeOK'
    BY <1>9 DEF Fail, Finish, Go, redis, history, Stage
  <1>10. ASSUME NEW t \in Token, Expire(t) PROVE TypeOK'
    BY <1>10 DEF Expire, history, request
  <1>11. CASE UNCHANGED vars
    BY <1>11 DEF vars, redis, history, request
  <1> QED
    BY <1>1, <1>2, <1>3, <1>4, <1>5, <1>6, <1>7, <1>8, <1>9, <1>10, <1>11 DEF Next, Admission

THEOREM TypeCorrect == Spec => []TypeOK
  BY TypeInit, TypeStep, PTL DEF Spec

-----------------------------------------------------------------------------
\* What the two calls of a revocation see of an index: whatever is in it and
\* alive was found, or was issued after the finding.
IndexInv ==
    /\ TypeOK
    /\ LiveTokensIndexed
    /\ \A a \in Address : \A t \in index[a] : addr[t] = a
    /\ \A w \in Worker : stage[w] = "wipe" =>
         index[who[w]] \cap live \subseteq found[w] \cup overlapped

LEMMA IndexStep == IndexInv /\ [Next]_vars => IndexInv'
  <1> SUFFICES ASSUME IndexInv, [Next]_vars PROVE IndexInv'
    OBVIOUS
  <1> DEFINE Seen(w) == stage[w] = "wipe" =>
                          index[who[w]] \cap live \subseteq found[w] \cup overlapped
  <1> DEFINE Own(a) == \A t \in index[a] : addr[t] = a
  <1>1. /\ TypeOK' /\ TypeOK /\ LiveTokensIndexed /\ \A w \in Worker : Seen(w)
        /\ \A a \in Address : Own(a)
    BY TypeStep DEF IndexInv
  <1>10. \A a \in Address : Own(a)'
    <2>1. ASSUME NEW w \in Worker, Issue(w) PROVE \A a \in Address : Own(a)'
      <3>1. PICK t \in Token \ Issued : /\ addr' = [addr EXCEPT ![t] = who[w]]
                                        /\ index' = [index EXCEPT ![who[w]] = @ \cup {t}]
        BY <2>1 DEF Issue
      <3>2. addr[t] = None /\ who[w] \in Address /\ addr'[t] = who[w]
        BY <3>1, <2>1, <1>1 DEF Issued, Issue, TypeOK
      <3>3. \A a \in Address : index'[a] = index[a] \/ (a = who[w] /\ index'[a] = index[a] \cup {t})
        BY <3>1, <1>1 DEF TypeOK
      <3>4. \A a \in Address : t \notin index[a]
        BY <3>2, <1>1, NoneAssumption
      <3>5. ASSUME NEW a \in Address, NEW s \in index'[a] PROVE addr'[s] = a
        BY <3>1, <3>2, <3>3, <3>4, <1>1 DEF TypeOK
      <3> QED BY <3>5
    <2>2. ASSUME NEW w \in Worker, Wipe(w) PROVE \A a \in Address : Own(a)'
      BY <2>2, <1>1 DEF Wipe, TypeOK
    <2>3. CASE UNCHANGED <<addr, index>>
      BY <2>3, <1>1
    <2>4. ASSUME NEW w \in Worker, Admission(w) PROVE UNCHANGED <<addr, index>>
      BY <2>4, <1>1, AdmissionArrives DEF Arrive, redis
    <2>5. ASSUME NEW w \in Worker,
                 Mail(w) \/ Peek(w) \/ Audit(w) \/ SetPassword(w) \/ Find(w) \/ Fail(w)
          PROVE  UNCHANGED <<addr, index>>
      BY <2>5 DEF Mail, Peek, Audit, SetPassword, Find, Fail, redis
    <2>6. ASSUME NEW t \in Token, Expire(t) PROVE UNCHANGED <<addr, index>>
      BY <2>6 DEF Expire
    <2>7. CASE UNCHANGED vars
      BY <2>7, <2>3 DEF vars, redis
    <2> QED
      BY <2>1, <2>2, <2>3, <2>4, <2>5, <2>6, <2>7 DEF Next, Admission
  <1>2. SUFFICES LiveTokensIndexed' /\ \A w \in Worker : Seen(w)'
    BY <1>1, <1>10 DEF IndexInv
  \* A step of w that leaves Redis alone and does not enter "wipe".
  <1>3. ASSUME NEW w \in Worker, stage'[w] # "wipe", UNCHANGED <<live, addr, index, overlapped>>,
               \A v \in Worker \ {w} : stage'[v] = stage[v] /\ who'[v] = who[v] /\ found'[v] = found[v]
        PROVE  LiveTokensIndexed' /\ \A v \in Worker : Seen(v)'
    BY <1>1, <1>3 DEF LiveTokensIndexed
  <1>4. ASSUME NEW w \in Worker, Admission(w) \/ Mail(w) \/ Peek(w) \/ Audit(w) \/ SetPassword(w)
                                   \/ Fail(w)
        PROVE  LiveTokensIndexed' /\ \A v \in Worker : Seen(v)'
    <2>1. /\ stage'[w] # "wipe" /\ UNCHANGED <<live, addr, index, overlapped>>
          /\ \A v \in Worker \ {w} : stage'[v] = stage[v] /\ who'[v] = who[v] /\ found'[v] = found[v]
      <3>1. CASE Admission(w)
        BY <3>1, <1>1, AdmissionArrives DEF Arrive, Go, redis, history, TypeOK
      <3>2. CASE Mail(w) \/ Peek(w) \/ Audit(w) \/ SetPassword(w) \/ Fail(w)
        BY <3>2, <1>1 DEF Mail, Peek, Audit, SetPassword, Fail, Finish, Go, redis, history, TypeOK
      <3> QED BY <1>4, <3>1, <3>2
    <2> QED BY <2>1, <1>3
  <1>5. ASSUME NEW w \in Worker, Issue(w)
        PROVE  LiveTokensIndexed' /\ \A v \in Worker : Seen(v)'
    <2>1. PICK t \in Token \ Issued :
            /\ live' = live \cup {t}
            /\ addr' = [addr EXCEPT ![t] = who[w]]
            /\ index' = [index EXCEPT ![who[w]] = @ \cup {t}]
            /\ overlapped' = IF \E v \in Worker : stage[v] = "wipe" /\ who[v] = who[w]
                             THEN overlapped \cup {t} ELSE overlapped
      BY <1>5 DEF Issue
    <2>2. /\ who[w] \in Address /\ stage[w] = "issue" /\ who' = who /\ found' = found
          /\ stage' = [stage EXCEPT ![w] = "mail"]
      BY <1>5, <1>1 DEF Issue, Go, TypeOK
    <2>3. t \notin live /\ \A s \in live : addr'[s] = addr[s] /\ addr[s] \in Address
      BY <1>1, <2>1, <2>2 DEF TypeOK, Issued
    <2>4. LiveTokensIndexed'
      <3>1. addr'[t] = who[w] /\ t \in index'[who[w]]
        BY <1>1, <2>1, <2>2 DEF TypeOK
      <3>2. \A s \in live : s \in index'[addr[s]] \/ s \in overlapped'
        BY <1>1, <2>1, <2>2, <2>3 DEF LiveTokensIndexed, TypeOK
      <3> QED BY <2>1, <2>3, <3>1, <3>2 DEF LiveTokensIndexed
    <2>5. ASSUME NEW v \in Worker PROVE Seen(v)'
      <3>1. SUFFICES ASSUME stage[v] = "wipe"
                     PROVE  index'[who[v]] \cap live' \subseteq found[v] \cup overlapped'
        BY <1>1, <2>2 DEF TypeOK
      <3>2. who[v] \in Address /\ Seen(v)
        BY <1>1, <3>1 DEF TypeOK
      <3>3. CASE who[v] = who[w]
        BY <3>1, <3>2, <3>3, <2>1, <2>2, <1>1 DEF TypeOK
      <3>4. CASE who[v] # who[w]
        <4>1. index'[who[v]] = index[who[v]]
          BY <3>2, <3>4, <2>1, <2>2, <1>1 DEF TypeOK
        <4>2. t \notin index[who[v]]
          BY <3>2, <2>1, <1>1, NoneAssumption DEF Issued
        <4> QED
          BY <4>1, <4>2, <3>1, <3>2, <2>1, <1>1
      <3> QED BY <3>3, <3>4
    <2> QED BY <2>4, <2>5
  <1>6. ASSUME NEW w \in Worker, Find(w)
        PROVE  LiveTokensIndexed' /\ \A v \in Worker : Seen(v)'
    BY <1>6, <1>1 DEF Find, Go, redis, history, TypeOK, LiveTokensIndexed
  <1>7. ASSUME NEW w \in Worker, Wipe(w)
        PROVE  LiveTokensIndexed' /\ \A v \in Worker : Seen(v)'
    <2>1. /\ live' = live \ found[w] /\ addr' = addr /\ overlapped' = overlapped
          /\ index' = [index EXCEPT ![who[w]] = {}]
          /\ stage[w] = "wipe" /\ who[w] \in Address /\ stage'[w] = "idle"
          /\ \A v \in Worker \ {w} : stage'[v] = stage[v] /\ who'[v] = who[v] /\ found'[v] = found[v]
      BY <1>7, <1>1 DEF Wipe, Finish, Go, TypeOK
    <2>2. \A a \in Address : index'[a] \subseteq index[a]
      BY <2>1, <1>1 DEF TypeOK
    <2>3. \A v \in Worker : Seen(v)'
      BY <2>1, <2>2, <1>1 DEF TypeOK
    <2>4. ASSUME NEW t \in live' PROVE t \in index'[addr'[t]] \/ t \in overlapped'
      <3>1. t \in live /\ t \notin found[w] /\ addr[t] \in Address
        BY <2>1, <1>1 DEF TypeOK
      <3>2. CASE addr[t] = who[w]
        BY <3>1, <3>2, <2>1, <1>1 DEF LiveTokensIndexed
      <3>3. CASE addr[t] # who[w]
        BY <3>1, <3>3, <2>1, <1>1 DEF LiveTokensIndexed, TypeOK
      <3> QED BY <3>2, <3>3
    <2> QED BY <2>3, <2>4 DEF LiveTokensIndexed
  <1>8. ASSUME NEW t \in Token, Expire(t)
        PROVE  LiveTokensIndexed' /\ \A v \in Worker : Seen(v)'
    BY <1>8, <1>1 DEF Expire, history, request, LiveTokensIndexed
  <1>9. CASE UNCHANGED vars
    BY <1>9, <1>1 DEF vars, redis, history, request, LiveTokensIndexed
  <1> QED
    BY <1>4, <1>5, <1>6, <1>7, <1>8, <1>9 DEF Next, Admission

\* A live token that is not indexed was issued between the two calls of a
\* revocation of its own address.
THEOREM Indexed == Spec => []IndexInv
  <1>1. Init => IndexInv
    BY TypeInit DEF Init, IndexInv, LiveTokensIndexed
  <1> QED BY <1>1, IndexStep, PTL DEF Spec

THEOREM IndexedTokens == Spec => []LiveTokensIndexed
  <1>1. IndexInv => LiveTokensIndexed
    BY DEF IndexInv
  <1> QED BY <1>1, Indexed, PTL

\* A password that is set by a link, and answered so, ends every token of its
\* spelling that did not overlap a revocation.
THEOREM SetEnds == Spec => AnsweredSetEndsTokens
  <1>1. ASSUME IndexInv, [Next]_vars PROVE SetEndsTokens
    <2>1. SUFFICES ASSUME NEW w \in Worker, stage[w] = "wipe", answer'[w] = "ok",
                          NEW t \in live', addr[t] = who[w]
                   PROVE  t \in overlapped
      BY DEF SetEndsTokens
    <2>2. TypeOK /\ answer[w] = "none"
      BY <1>1, <2>1 DEF IndexInv, TypeOK
    <2>3. ASSUME NEW v \in Worker, Admission(v) \/ Issue(v) \/ Mail(v) \/ Peek(v) \/ Audit(v)
                                     \/ SetPassword(v) \/ Find(v) \/ Fail(v)
          PROVE  FALSE
      <3>1. v # w => answer'[w] = answer[w]
        <4>1. CASE Admission(v)
          BY <4>1, <2>2, AdmissionArrives DEF Arrive, TypeOK
        <4>2. CASE ~Admission(v)
          BY <4>2, <2>3, <2>2 DEF Issue, Mail, Peek, Audit, SetPassword, Find, Fail, Finish, TypeOK
        <4> QED BY <4>1, <4>2
      <3>2. v = w => Fail(v)
        BY <2>1, <2>3, <2>2, AdmissionArrives DEF Arrive, Issue, Mail, Peek, Audit, SetPassword, Find
      <3>3. Fail(w) => answer'[w] = "error"
        BY <2>2 DEF Fail, Finish, TypeOK
      <3> QED BY <3>1, <3>2, <3>3, <2>1, <2>2, <2>3
    <2>4. ~UNCHANGED vars /\ \A s \in Token : ~Expire(s)
      BY <2>1, <2>2 DEF vars, request, Expire
    <2>5. PICK v \in Worker : Wipe(v)
      BY <1>1, <2>3, <2>4 DEF Next, Admission
    <2>6. v = w
      BY <2>1, <2>2, <2>5 DEF Wipe, Finish, TypeOK
    <2>7. /\ live' = live \ found[w] /\ addr' = addr
          /\ t \in live /\ t \notin found[w] /\ who[w] \in Address
      BY <2>1, <2>2, <2>5, <2>6 DEF Wipe, TypeOK
    <2> QED
      BY <1>1, <2>1, <2>7 DEF IndexInv, LiveTokensIndexed
  <1> QED BY <1>1, Indexed, PTL DEF Spec, AnsweredSetEndsTokens

-----------------------------------------------------------------------------
\* Why a token serves one request that is answered ok: whoever uses it holds its address, so the wipe that
\* ends the first request takes it; two that use it together have contested it.
Spent(t) == completed[t] > 0 /\ t \notin contested \cup overlapped

ReplayInv ==
    /\ IndexInv
    /\ ReplayOnlyByOverlap
    /\ \A w \in Worker, t \in Token : Using(w, t) => who[w] = addr[t]
    /\ \A v, w \in Worker, t \in Token : Using(v, t) /\ Using(w, t) /\ v # w => t \in contested
    /\ \A t \in Token : Spent(t) =>
         t \notin live /\ addr[t] # None /\ \A w \in Worker : ~Using(w, t)

\* A step after which nobody uses a token that was not using it before, and which
\* answers nobody, keeps the invariant.
LEMMA NobodyNewReplays ==
    ASSUME ReplayInv, IndexInv',
           UNCHANGED <<addr, completed, overlapped, contested>>, live' \subseteq live,
           \A w \in Worker, t \in Token : Using(w, t)' => Using(w, t) /\ who'[w] = who[w]
    PROVE  ReplayInv'
  BY DEF ReplayInv, ReplayOnlyByOverlap, Spent

LEMMA ReplayStep == ReplayInv /\ [Next]_vars => ReplayInv'
  <1> SUFFICES ASSUME ReplayInv, [Next]_vars PROVE ReplayInv'
    OBVIOUS
  <1>1. IndexInv /\ IndexInv' /\ TypeOK /\ TypeOK'
    BY IndexStep DEF ReplayInv, IndexInv
  <1>2. ASSUME NEW w \in Worker, Admission(w) PROVE ReplayInv'
    <2>1. PICK o \in Op, a \in Address \cup {None}, t \in Token \cup {None},
               s \in {"issue", "audit", "peek"} :
            Arrive(w, o, a, t, s) /\ (o \in SettingOp => s = "peek")
      BY <1>2, <1>1, AdmissionArrives DEF Op, SendingOp, SettingOp
    <2>2. \A v \in Worker, u \in Token : Using(v, u)' => Using(v, u) /\ who'[v] = who[v]
      BY <2>1, <1>1 DEF Arrive, Go, Using, TypeOK
    <2> QED BY <2>1, <2>2, <1>1, NobodyNewReplays DEF Arrive, redis, history
  <1>3. ASSUME NEW w \in Worker, Issue(w) PROVE ReplayInv'
    <2>1. PICK t \in Token \ Issued :
            /\ live' = live \cup {t}
            /\ addr' = [addr EXCEPT ![t] = who[w]]
            /\ carried' = [carried EXCEPT ![w] = t]
            /\ overlapped' = IF \E v \in Worker : stage[v] = "wipe" /\ who[v] = who[w]
                             THEN overlapped \cup {t} ELSE overlapped
      BY <1>3 DEF Issue
    <2>2. /\ UNCHANGED <<completed, contested, who, op>>
          /\ stage[w] = "issue" /\ stage' = [stage EXCEPT ![w] = "mail"]
          /\ who[w] \in Address /\ addr[t] = None /\ addr'[t] = who[w]
          /\ \A u \in Token \ {t} : addr'[u] = addr[u]
      BY <1>3, <2>1, <1>1 DEF Issue, Go, TypeOK, Issued
    <2>3. \A v \in Worker, u \in Token : Using(v, u)' => Using(v, u)
      BY <2>1, <2>2, <1>1 DEF Using, TypeOK
    <2>4. \A v \in Worker : ~Using(v, t)
      BY <2>2, <1>1 DEF ReplayInv, Using, TypeOK
    <2>5. ~Spent(t) /\ overlapped \subseteq overlapped'
      BY <2>1, <2>2 DEF ReplayInv
    <2>6. \A u \in Token : Spent(u)' => Spent(u)
      BY <2>2, <2>5 DEF Spent
    <2>7. who[w] # None
      BY <2>2, NoneAssumption
    <2>8. ASSUME NEW u \in Token, Spent(u)'
          PROVE  u \notin live' /\ addr'[u] # None /\ \A v \in Worker : ~Using(v, u)'
      <3>1. Spent(u) /\ u # t
        BY <2>5, <2>6, <2>8
      <3> QED BY <3>1, <2>1, <2>2, <2>3 DEF ReplayInv
    <2>9. ReplayOnlyByOverlap'
      BY <2>2, <2>5 DEF ReplayInv, ReplayOnlyByOverlap
    <2>10. \A v \in Worker, u \in Token : Using(v, u)' => who'[v] = addr'[u]
      BY <2>2, <2>3, <2>4 DEF ReplayInv
    <2>11. \A v, x \in Worker, u \in Token : Using(v, u)' /\ Using(x, u)' /\ v # x => u \in contested'
      BY <2>2, <2>3 DEF ReplayInv
    <2> QED BY <2>8, <2>9, <2>10, <2>11, <1>1 DEF ReplayInv
  <1>4. ASSUME NEW w \in Worker, Mail(w) \/ Fail(w) PROVE ReplayInv'
    <2>1. Finish(w, "ok") \/ Finish(w, "error")
      BY <1>4 DEF Mail, Fail
    <2>2. \A v \in Worker, t \in Token : Using(v, t)' => Using(v, t) /\ who'[v] = who[v]
      BY <2>1, <1>1 DEF Finish, Go, Using, TypeOK
    <2> QED BY <1>4, <2>2, <1>1, NobodyNewReplays DEF Mail, Fail, redis, history
  <1>5. ASSUME NEW w \in Worker, Peek(w) PROVE ReplayInv'
    <2> DEFINE t == carried[w]
    <2>1. /\ stage[w] = "peek" /\ t \in live /\ t \in Token
          /\ UNCHANGED <<live, addr, completed, overlapped, op, carried>>
          /\ contested' = IF \E v \in Worker : Using(v, t) THEN contested \cup {t} ELSE contested
          /\ who' = [who EXCEPT ![w] = addr[t]]
      BY <1>5, <1>1 DEF Peek, redis, TypeOK
    <2>2. /\ stage'[w] \in {"set", "audit"}
          /\ \A v \in Worker \ {w} : stage'[v] = stage[v] /\ who'[v] = who[v]
          /\ who'[w] = addr[t]
      BY <1>5, <2>1, <1>1 DEF Peek, Go, TypeOK
    <2>3. \A v \in Worker, u \in Token : Using(v, u)' => Using(v, u) \/ (v = w /\ u = t)
      BY <2>1, <2>2 DEF Using
    <2>4. \A u \in Token : ~Using(w, u)
      BY <2>1 DEF Using
    <2>5. ~Spent(t) /\ \A u \in Token : Spent(u)' => Spent(u)
      BY <2>1 DEF ReplayInv, Spent
    <2>6. \A u \in Token : Spent(u)' =>
            u \notin live' /\ addr'[u] # None /\ \A v \in Worker : ~Using(v, u)'
      BY <2>1, <2>3, <2>5 DEF ReplayInv
    <2>7. \A v \in Worker, u \in Token : Using(v, u)' => who'[v] = addr'[u]
      BY <2>1, <2>2, <2>3, <2>4 DEF ReplayInv
    <2>8. \A v, x \in Worker, u \in Token : Using(v, u)' /\ Using(x, u)' /\ v # x => u \in contested'
      BY <2>1, <2>3 DEF ReplayInv
    <2>9. ReplayOnlyByOverlap'
      BY <2>1 DEF ReplayInv, ReplayOnlyByOverlap
    <2> QED BY <2>6, <2>7, <2>8, <2>9, <1>1 DEF ReplayInv
  <1>6. ASSUME NEW w \in Worker, Audit(w) \/ SetPassword(w) \/ Find(w) PROVE ReplayInv'
    <2>1. \A v \in Worker, t \in Token : Using(v, t)' => Using(v, t) /\ who'[v] = who[v]
      BY <1>6, <1>1 DEF Audit, SetPassword, Find, Finish, Go, Using, TypeOK
    <2> QED BY <1>6, <2>1, <1>1, NobodyNewReplays DEF Audit, SetPassword, Find, redis, history
  <1>7. ASSUME NEW w \in Worker, Wipe(w) PROVE ReplayInv'
    <2>0. PICK t \in Token : t = carried[w] /\ Using(w, t)
      BY <1>7, <1>1 DEF Wipe, Using, TypeOK, SendingOp, SettingOp
    <2>1. /\ stage[w] = "wipe" /\ live' = live \ found[w]
          /\ UNCHANGED <<addr, overlapped, contested>>
          /\ \/ completed' = [completed EXCEPT ![t] = IF @ = 0 THEN 1 ELSE 2]
             \/ completed' = completed
          /\ Finish(w, "ok") \/ Finish(w, "error")
      BY <1>7, <2>0 DEF Wipe
    <2>2. Using(w, t)
      BY <2>0
    <2>3. \A v \in Worker, u \in Token :
            Using(v, u)' => Using(v, u) /\ who'[v] = who[v] /\ v # w
      BY <2>1, <1>1 DEF Finish, Go, Using, TypeOK
    <2>4. CASE completed' = completed
      BY <2>1, <2>3, <2>4, <1>1, NobodyNewReplays
    <2>5. CASE completed' = [completed EXCEPT ![t] = IF @ = 0 THEN 1 ELSE 2]
      <3>1. /\ \A u \in Token \ {t} : completed'[u] = completed[u]
            /\ completed'[t] = IF completed[t] = 0 THEN 1 ELSE 2
        BY <2>5, <2>2, <1>1 DEF TypeOK
      <3>2. \A v \in Worker, u \in Token : Using(v, u)' => who'[v] = addr'[u]
        BY <2>1, <2>3 DEF ReplayInv
      <3>3. \A v, x \in Worker, u \in Token :
              Using(v, u)' /\ Using(x, u)' /\ v # x => u \in contested'
        BY <2>1, <2>3 DEF ReplayInv
      <3>4. ASSUME t \notin contested \cup overlapped
            PROVE  /\ completed[t] = 0 /\ t \notin live' /\ addr[t] # None
                   /\ \A v \in Worker : ~Using(v, t)'
        <4>1. ~Spent(t) /\ completed[t] \in 0 .. 2
          BY <2>2, <1>1 DEF ReplayInv, TypeOK
        <4>2. who[w] = addr[t] /\ who[w] # None
          BY <2>1, <2>2, <1>1 DEF ReplayInv, TypeOK
        <4>3. t \notin live'
          BY <3>4, <4>2, <2>1, <2>2, <1>1 DEF IndexInv, LiveTokensIndexed
        <4>4. \A v \in Worker : ~Using(v, t)'
          BY <3>4, <2>2, <2>3 DEF ReplayInv
        <4> QED BY <3>4, <4>1, <4>2, <4>3, <4>4 DEF Spent
      <3>5. ReplayOnlyByOverlap'
        BY <2>1, <2>2, <3>1, <3>4 DEF ReplayInv, ReplayOnlyByOverlap
      <3>6. ASSUME NEW u \in Token, Spent(u)'
            PROVE  u \notin live' /\ addr'[u] # None /\ \A v \in Worker : ~Using(v, u)'
        <4>1. CASE u = t
          BY <4>1, <3>4, <3>6, <2>1 DEF Spent
        <4>2. CASE u # t
          <5>1. Spent(u)
            BY <4>2, <3>1, <3>6, <2>1 DEF Spent
          <5> QED BY <5>1, <2>1, <2>3 DEF ReplayInv
        <4> QED BY <4>1, <4>2
      <3> QED BY <3>2, <3>3, <3>5, <3>6, <1>1 DEF ReplayInv
    <2> QED BY <2>1, <2>4, <2>5
  <1>8. ASSUME NEW t \in Token, Expire(t) PROVE ReplayInv'
    <2>1. /\ live' \subseteq live /\ UNCHANGED <<addr, completed, overlapped, contested>>
          /\ UNCHANGED <<stage, op, carried, who>>
      BY <1>8 DEF Expire, history, request
    <2> QED BY <2>1, <1>1, NobodyNewReplays DEF Using
  <1>9. CASE UNCHANGED vars
    <2>1. /\ live' = live /\ UNCHANGED <<addr, completed, overlapped, contested>>
          /\ UNCHANGED <<stage, op, carried, who>>
      BY <1>9 DEF vars, redis, history, request
    <2> QED BY <2>1, <1>1, NobodyNewReplays DEF Using
  <1> QED
    BY <1>2, <1>3, <1>4, <1>5, <1>6, <1>7, <1>8, <1>9 DEF Next, Admission

\* What is accounted for stays so.
THEOREM Replay == Spec => []ReplayInv
  <1>1. Init => ReplayInv
    <2>1. Init => IndexInv
      BY TypeInit DEF Init, IndexInv, LiveTokensIndexed
    <2> QED BY <2>1 DEF Init, ReplayInv, ReplayOnlyByOverlap, Spent, Using
  <1> QED BY <1>1, ReplayStep, PTL DEF Spec

\* A token serves two requests that are answered ok only if both had found it live, or
\* if it was issued under a revocation of its address.
THEOREM ReplayNeedsOverlap == Spec => []ReplayOnlyByOverlap
  <1>1. ReplayInv => ReplayOnlyByOverlap
    BY DEF ReplayInv
  <1> QED BY <1>1, Replay, PTL

-----------------------------------------------------------------------------
\* No request is about to look up a token that another one is using, and none is about
\* to issue one for a spelling that another is about to wipe.  All else may overlap.
Apart ==
    \A v, w \in Worker :
        /\ stage[w] = "peek" => ~Using(v, carried[w])
        /\ stage[w] = "issue" /\ stage[v] = "wipe" => who[v] # who[w]

Unexcused == contested = {} /\ overlapped = {}

LEMMA UnexcusedStep == ReplayInv /\ Apart /\ Unexcused /\ [Next]_vars => Unexcused'
  <1> SUFFICES ASSUME ReplayInv, Apart, Unexcused, [Next]_vars PROVE Unexcused'
    OBVIOUS
  <1>1. ASSUME NEW w \in Worker, Issue(w) PROVE Unexcused'
    <2>1. contested' = contested
      BY <1>1 DEF Issue
    <2>2. ASSUME NEW v \in Worker, stage[v] = "wipe", who[v] = who[w] PROVE FALSE
      BY <1>1, <2>2 DEF Issue, Apart
    <2>3. overlapped' = overlapped
      BY <1>1, <2>2 DEF Issue
    <2> QED BY <2>1, <2>3 DEF Unexcused
  <1>2. ASSUME NEW w \in Worker, Peek(w) PROVE Unexcused'
    <2>1. overlapped' = overlapped
      BY <1>2 DEF Peek
    <2>2. contested' = contested
      BY <1>2 DEF Peek, Apart
    <2> QED BY <2>1, <2>2 DEF Unexcused
  <1>3. ASSUME NEW w \in Worker, Admission(w) PROVE Unexcused'
    BY <1>3, AdmissionArrives DEF Arrive, history, Unexcused, ReplayInv, IndexInv
  <1>4. ASSUME NEW w \in Worker, \/ Mail(w) \/ Audit(w) \/ SetPassword(w)
                                 \/ Find(w) \/ Wipe(w) \/ Fail(w)
        PROVE  Unexcused'
    <2>1. CASE Mail(w) \/ Wipe(w)
      BY <2>1 DEF Mail, Wipe, Unexcused
    <2>2. CASE Audit(w) \/ SetPassword(w) \/ Find(w) \/ Fail(w)
      BY <2>2 DEF Audit, SetPassword, Find, Fail, history, Unexcused
    <2> QED BY <1>4, <2>1, <2>2
  <1>5. ASSUME NEW t \in Token, Expire(t) PROVE Unexcused'
    BY <1>5 DEF Expire, history, Unexcused
  <1>6. CASE UNCHANGED vars
    BY <1>6 DEF vars, history, Unexcused
  <1> QED BY <1>1, <1>2, <1>3, <1>4, <1>5, <1>6 DEF Next, Admission

\* What the comment of invite_accept says of a successful set, "the token still cannot be
\* replayed", is true where those two overlaps do not happen: once a request with it has
\* been answered ok a token is gone and no request holds it, so that it sets nothing any
\* more; and a revocation can find every token that is live.  A set whose revocation
\* fails is not answered ok: its token stays live, and may set a second password.
OverOnceAnswered ==
    /\ \A t \in Token : completed[t] > 0 =>
          completed[t] = 1 /\ t \notin live /\ \A w \in Worker : ~Using(w, t)
    /\ \A t \in live : t \in index[addr[t]]

THEOREM OverOnceAnsweredApart == Spec /\ []Apart => []OverOnceAnswered
  <1>1. Init => Unexcused
    BY DEF Init, Unexcused
  <1>2. ReplayInv /\ Unexcused => OverOnceAnswered
    BY DEF ReplayInv, IndexInv, TypeOK, ReplayOnlyByOverlap, LiveTokensIndexed, Unexcused,
           OverOnceAnswered, Spent
  <1> QED BY <1>1, <1>2, UnexcusedStep, Replay, PTL DEF Spec

\* And then SPECIFICATION.md section 5.2, step 2, holds without exception: a password
\* set by a link leaves no live token of its spelling.
SetEndsAll ==
    \A w \in Worker :
        stage[w] = "wipe" /\ answer'[w] = "ok" => \A t \in live' : addr[t] # who[w]

THEOREM SetEndsAllApart == Spec /\ []Apart => [][SetEndsAll]_vars
  <1>1. Init => Unexcused
    BY DEF Init, Unexcused
  <1>2. SetEndsTokens /\ Unexcused => SetEndsAll
    BY DEF SetEndsTokens, SetEndsAll, Unexcused
  <1> QED
    BY <1>1, <1>2, UnexcusedStep, Replay, SetEnds, PTL DEF Spec, AnsweredSetEndsTokens

-----------------------------------------------------------------------------
\* A password is reset or changed only after its record is acknowledged.
THEOREM Recorded == Spec => []ResetsRecorded
  <1>1. Init => ResetsRecorded
    BY DEF Init, ResetsRecorded
  <1>2. ASSUME TypeOK, ResetsRecorded, [Next]_vars PROVE ResetsRecorded'
    <2>1. ASSUME NEW v \in Worker, Admission(v) PROVE ResetsRecorded'
      BY <2>1, <1>2, AdmissionArrives DEF Arrive, Go, ResetsRecorded, TypeOK
    <2>2. ASSUME NEW v \in Worker, Issue(v) \/ Mail(v) \/ Fail(v) PROVE ResetsRecorded'
      BY <2>2, <1>2 DEF Issue, Mail, Fail, Finish, Go, ResetsRecorded, TypeOK
    <2>3. ASSUME NEW v \in Worker, Peek(v) \/ Audit(v) PROVE ResetsRecorded'
      BY <2>3, <1>2 DEF Peek, Audit, Go, ResetsRecorded, TypeOK
    <2>4. ASSUME NEW v \in Worker, SetPassword(v) \/ Find(v) \/ Wipe(v) PROVE ResetsRecorded'
      BY <2>4, <1>2 DEF SetPassword, Find, Wipe, Finish, Go, ResetsRecorded, TypeOK
    <2>5. ASSUME NEW t \in Token, Expire(t) PROVE ResetsRecorded'
      BY <2>5, <1>2 DEF Expire, request, ResetsRecorded
    <2>6. CASE UNCHANGED vars
      BY <2>6, <1>2 DEF vars, request, ResetsRecorded
    <2> QED BY <1>2, <2>1, <2>2, <2>3, <2>4, <2>5, <2>6 DEF Next, Admission
  <1> QED BY <1>1, <1>2, TypeCorrect, PTL DEF Spec
=============================================================================
