-------------------------- MODULE OAuthGrants_proofs --------------------------
(***************************************************************************)
(* Proofs about OAuthGrants and the TenantGate it extends, for any         *)
(* clients, scopes and grants, any number of overlapping requests and any  *)
(* times to live.                                                          *)
(***************************************************************************)
EXTENDS OAuthGrants, TLAPS

\* What a request carries at each stage beside its types.
Shape ==
    \A w \in Worker :
        /\ stage[w] = "idle" => ask[w] = "none"
        /\ stage[w] = "peek" => op[w] = "refresh"
        /\ stage[w] = "consume" => op[w] # "service"
        /\ op[w] = "service" => presented[w] = NoGrant

TypeInv == TypeOK /\ Shape

LEMMA TypeInit == Init => TypeInv
  BY GrantAssumption, TtlAssumption
  DEF Init, TypeInv, TypeOK, Shape, GateInit, GateTypeOK, State, Reason, Ask, Op, Stage, Unissued, Payload

\* A request that is answered keeps the types, whatever its last call left in Redis.
LEMMA FinishTypes ==
    ASSUME TypeInv, NEW w \in Worker, NEW token \in BOOLEAN, Finish(w, token),
           UNCHANGED <<registry, now, verdict, consent, approved>>,
           live' \in SUBSET Grant, payload' \in [Grant -> Payload], used' \in [Grant -> Nat],
           \A g \in live' : payload'[g].client # NoClient
    PROVE  TypeInv'
  <1>1. /\ ask' = [ask EXCEPT ![w] = "none"] /\ asked' = [asked EXCEPT ![w] = 0]
        /\ why' = [why EXCEPT ![w] = "unknown"] /\ stage' = [stage EXCEPT ![w] = "idle"]
        /\ served' = [served EXCEPT ![w] = token] /\ op' = [op EXCEPT ![w] = "code"]
        /\ client' = [client EXCEPT ![w] = NoClient]
        /\ presented' = [presented EXCEPT ![w] = NoGrant]
        /\ scope' = [scope EXCEPT ![w] = {}]
    BY DEF Finish, Goto, HangUp
  <1>2. started' \in [Worker -> Nat]
    BY DEF Finish, TypeInv, TypeOK
  <1>3. GateTypeOK'
    BY <1>1 DEF TypeInv, TypeOK, GateTypeOK, registry, Ask, Reason
  <1>4. TypeOK'
    BY <1>1, <1>2, <1>3 DEF TypeInv, TypeOK, Op, Stage
  <1>5. Shape'
    BY <1>1 DEF TypeInv, TypeOK, GateTypeOK, Shape
  <1> QED BY <1>4, <1>5 DEF TypeInv

\* A new code or refresh token is not one that lives.
LEMMA IssueTypes ==
    ASSUME TypeInv, NEW f \in Fresh, NEW p \in Payload, p.client # NoClient,
           live' = live \cup {f}, payload' = [payload EXCEPT ![f] = p]
    PROVE  /\ live' \in SUBSET Grant /\ payload' \in [Grant -> Payload]
           /\ \A g \in live' : payload'[g].client # NoClient
           /\ f \in Grant /\ f \notin live /\ payload[f] = Unissued
           /\ payload'[f] = p /\ \A g \in Grant \ {f} : payload'[g] = payload[g]
  BY DEF Fresh, Unissued, TypeInv, TypeOK

\* Each call of the gate.
LEMMA GateTypes ==
    ASSUME TypeInv, NEW w \in Worker, GateStep(w), UNCHANGED <<store, history, request>>
    PROVE  TypeInv'
  <1> USE DEF registry, Ask, Reason
  <1>1. stage[w] # "idle"
    BY DEF TypeInv, Shape, GateStep, Enter, Lookup, StoreVerdict
  <1>2. GateTypeOK' /\ \A v \in Worker : v # w => ask'[v] = ask[v]
    <2>1. CASE Enter(w)
      <3>1. CASE verdict # NoVerdict /\ now < verdict.until
        <4>1. verdict.why \in Reason
          BY <3>1 DEF TypeInv, TypeOK, GateTypeOK, Verdict
        <4>2. /\ asked' = [asked EXCEPT ![w] = now] /\ why' = [why EXCEPT ![w] = verdict.why]
              /\ ask' \in {[ask EXCEPT ![w] = "admit"], [ask EXCEPT ![w] = "refuse"]}
              /\ UNCHANGED <<state, since, now, verdict>>
          BY <2>1, <3>1 DEF Enter, Conclude
        <4> QED BY <4>1, <4>2 DEF TypeInv, TypeOK, GateTypeOK
      <3>2. CASE ~(verdict # NoVerdict /\ now < verdict.until)
        BY <2>1, <3>2 DEF Enter, TypeInv, TypeOK, GateTypeOK
      <3> QED BY <3>1, <3>2
    <2>2. CASE Lookup(w)
      BY <2>2 DEF Lookup, TypeInv, TypeOK, GateTypeOK
    <2>3. CASE StoreVerdict(w)
      <3>1. /\ ask' \in {[ask EXCEPT ![w] = "admit"], [ask EXCEPT ![w] = "refuse"]}
            /\ why' = [why EXCEPT ![w] = why[w]]
            /\ verdict' \in {[why |-> why[w], until |-> asked[w] + AdmitTtl],
                             [why |-> why[w], until |-> asked[w] + RefuseTtl]}
            /\ UNCHANGED <<state, since, now, asked>>
        BY <2>3 DEF StoreVerdict, Conclude
      <3>2. why[w] \in Reason /\ asked[w] \in Nat
        BY DEF TypeInv, TypeOK, GateTypeOK
      <3>3. verdict' \in Verdict
        BY <3>1, <3>2, TtlAssumption DEF Verdict
      <3> QED BY <3>1, <3>3 DEF TypeInv, TypeOK, GateTypeOK
    <2> QED BY <2>1, <2>2, <2>3 DEF GateStep
  <1>3. TypeOK'
    BY <1>2 DEF TypeInv, TypeOK, store, history, request
  <1>4. Shape'
    BY <1>1, <1>2 DEF TypeInv, Shape, request
  <1> QED BY <1>3, <1>4 DEF TypeInv

LEMMA TypeStep == TypeInv /\ [Next]_vars => TypeInv'
  <1> SUFFICES ASSUME TypeInv, [Next]_vars PROVE TypeInv'
    OBVIOUS
  <1> USE DEF registry, call, gate, store, history, request
  <1>1. /\ live \in SUBSET Grant /\ payload \in [Grant -> Payload] /\ used \in [Grant -> Nat]
        /\ \A g \in live : payload[g].client # NoClient
        /\ NoClient \notin Client /\ NoGrant \notin Grant
        /\ stage \in [Worker -> Stage] /\ scope \in [Worker -> SUBSET Scope]
    BY GrantAssumption DEF TypeInv, TypeOK
  <1>2. ASSUME NEW c \in Client, NEW s \in Requested, Authorize(c, s) \/ Decide(c, s)
        PROVE  TypeInv'
    <2>1. [kind |-> "code", client |-> c, scope |-> s] \in Payload
      BY GrantAssumption DEF Payload
    <2>2. PICK f \in Fresh :
            /\ live' = live \cup {f}
            /\ payload' = [payload EXCEPT ![f] = [kind |-> "code", client |-> c, scope |-> s]]
      BY <1>2 DEF Authorize, Decide, IssueCode
    <2>3. /\ live' \in SUBSET Grant /\ payload' \in [Grant -> Payload]
          /\ \A g \in live' : payload'[g].client # NoClient
      BY <1>1, <2>1, <2>2, IssueTypes
    <2>4. consent' \in [Client -> SUBSET Scope] /\ approved' \in [Client -> SUBSET Scope]
      BY <1>2, GrantAssumption DEF Authorize, Decide, TypeInv, TypeOK
    <2>5. UNCHANGED <<gate, request, used>>
      BY <1>2 DEF Authorize, Decide
    <2> QED BY <2>3, <2>4, <2>5 DEF TypeInv, TypeOK, GateTypeOK, Shape
  <1>3. ASSUME NEW g \in Grant, Expire(g) PROVE TypeInv'
    BY <1>3 DEF Expire, TypeInv, TypeOK, GateTypeOK, Shape
  <1>4. ASSUME NEW w \in Worker, NEW o \in Op, NEW c \in Client, NEW g \in Grant \cup {NoGrant},
               Token(w, o, c, g)
        PROVE  TypeInv'
    <2>1. stage' \in {[stage EXCEPT ![w] = "consume"], [stage EXCEPT ![w] = "peek"],
                      [stage EXCEPT ![w] = "first"]}
          /\ (o = "code" => stage' = [stage EXCEPT ![w] = "consume"])
          /\ (o = "refresh" => stage' = [stage EXCEPT ![w] = "peek"])
          /\ (o = "service" => stage' = [stage EXCEPT ![w] = "first"])
      BY <1>4 DEF Token, Goto, Op
    <2>2. /\ ask' \in {ask, [ask EXCEPT ![w] = "enter"]} /\ UNCHANGED <<asked, why>>
          /\ op' = [op EXCEPT ![w] = o] /\ client' = [client EXCEPT ![w] = c]
          /\ presented' = [presented EXCEPT ![w] = g] /\ started' = [started EXCEPT ![w] = now]
          /\ served' = [served EXCEPT ![w] = FALSE]
          /\ scope' \in {[scope EXCEPT ![w] = Scope], [scope EXCEPT ![w] = {}]}
          /\ UNCHANGED <<registry, now, verdict, store, history>>
          /\ o = "service" <=> g = NoGrant
      BY <1>4 DEF Token, Call
    <2>3. GateTypeOK'
      BY <2>2 DEF TypeInv, TypeOK, GateTypeOK, Ask
    <2>4. now \in Nat
      BY DEF TypeInv, TypeOK, GateTypeOK
    <2>5. TypeOK'
      BY <1>1, <2>1, <2>2, <2>3, <2>4 DEF TypeInv, TypeOK, Stage
    <2>6. Shape'
      BY <1>1, <2>1, <2>2 DEF TypeInv, TypeOK, GateTypeOK, Shape, Op, Stage
    <2> QED BY <2>5, <2>6 DEF TypeInv
  <1>5. ASSUME NEW w \in Worker, Peek(w) PROVE TypeInv'
    <2>1. /\ stage' \in {[stage EXCEPT ![w] = "first"], [stage EXCEPT ![w] = "consume"]}
          /\ stage[w] = "peek"
          /\ ask' \in {ask, [ask EXCEPT ![w] = "enter"]} /\ UNCHANGED <<asked, why>>
          /\ UNCHANGED <<registry, now, verdict, store, history, op, client, presented, scope,
                         started, served>>
      BY <1>5 DEF Peek, Goto, Call
    <2>2. GateTypeOK'
      BY <2>1 DEF TypeInv, TypeOK, GateTypeOK, Ask
    <2>3. TypeOK'
      BY <1>1, <2>1, <2>2 DEF TypeInv, TypeOK, Stage
    <2>4. Shape'
      BY <1>1, <2>1 DEF TypeInv, TypeOK, GateTypeOK, Shape, Stage
    <2> QED BY <2>3, <2>4 DEF TypeInv
  <1>6. ASSUME NEW w \in Worker, FirstCheck(w) PROVE TypeInv'
    <2>1. CASE Finish(w, FALSE)
      BY <1>1, <1>6, <2>1, FinishTypes DEF FirstCheck
    <2>2. CASE ~Finish(w, FALSE)
      <3>1. /\ \/ op[w] = "service" /\ stage' = [stage EXCEPT ![w] = "final"]
               \/ op[w] # "service" /\ stage' = [stage EXCEPT ![w] = "consume"]
            /\ stage[w] = "first"
            /\ ask' \in {ask, [ask EXCEPT ![w] = "enter"]} /\ UNCHANGED <<asked, why>>
            /\ UNCHANGED <<registry, now, verdict, store, history, op, client, presented, scope,
                           started, served>>
        BY <1>6, <2>2 DEF FirstCheck, Goto, Call
      <3>2. GateTypeOK'
        BY <3>1 DEF TypeInv, TypeOK, GateTypeOK, Ask
      <3>3. TypeOK'
        BY <1>1, <3>1, <3>2 DEF TypeInv, TypeOK, Stage
      <3>4. Shape'
        BY <1>1, <3>1 DEF TypeInv, TypeOK, GateTypeOK, Shape, Stage
      <3> QED BY <3>3, <3>4 DEF TypeInv
    <2> QED BY <2>1, <2>2
  <1>7. ASSUME NEW w \in Worker, Consume(w) PROVE TypeInv'
    <2>1. live' = live \ {presented[w]} /\ stage[w] = "consume"
          /\ UNCHANGED <<registry, now, verdict, payload, consent, history>>
      BY <1>7 DEF Consume
    <2>2. CASE Finish(w, FALSE)
      BY <1>1, <2>1, <2>2, FinishTypes
    <2>3. CASE ~Finish(w, FALSE)
      <3>1. presented[w] \in live
        BY <1>7, <2>3 DEF Consume
      <3>2. PICK s \in Narrowed(w) : scope' = [scope EXCEPT ![w] = s]
        BY <1>7, <2>3 DEF Consume
      <3>3. s \in SUBSET Scope
        BY <1>1, <3>1 DEF Narrowed, Payload
      <3>4. /\ stage' = [stage EXCEPT ![w] = "final"] /\ ask' = [ask EXCEPT ![w] = "enter"]
            /\ UNCHANGED <<asked, why, op, client, presented, started, served>>
        BY <1>7, <2>3 DEF Consume, Goto, Call
      <3>5. GateTypeOK'
        BY <2>1, <3>4 DEF TypeInv, TypeOK, GateTypeOK, Ask
      <3>6. TypeOK'
        BY <1>1, <2>1, <3>2, <3>3, <3>4, <3>5 DEF TypeInv, TypeOK, Stage
      <3>7. Shape'
        BY <1>1, <2>1, <3>4 DEF TypeInv, TypeOK, GateTypeOK, Shape
      <3> QED BY <3>6, <3>7 DEF TypeInv
    <2> QED BY <2>2, <2>3
  <1>8. ASSUME NEW w \in Worker, Respond(w) PROVE TypeInv'
    <2>1. PICK token \in BOOLEAN : Finish(w, token)
      BY <1>8 DEF Respond
    <2>2. used' \in [Grant -> Nat] /\ UNCHANGED <<registry, now, verdict, consent, approved>>
      <3>1. used' = used \/ used' = [used EXCEPT ![presented[w]] = @ + 1]
        BY <1>8 DEF Respond
      <3>2. UNCHANGED <<registry, now, verdict, consent, approved>>
        BY <1>8 DEF Respond
      <3> QED BY <1>1, <3>1, <3>2
    <2>3. CASE UNCHANGED <<live, payload>>
      BY <1>1, <2>1, <2>2, <2>3, FinishTypes
    <2>4. CASE ~UNCHANGED <<live, payload>>
      <3>1. PICK f \in Fresh :
              /\ live' = live \cup {f}
              /\ payload' = [payload EXCEPT ![f] =
                    [kind |-> "refresh", client |-> client[w], scope |-> scope[w]]]
        BY <1>8, <2>4 DEF Respond
      <3>2. /\ [kind |-> "refresh", client |-> client[w], scope |-> scope[w]] \in Payload
            /\ client[w] # NoClient
        BY <1>8 DEF Respond, TypeInv, TypeOK, Payload
      <3>3. /\ live' \in SUBSET Grant /\ payload' \in [Grant -> Payload]
            /\ \A g \in live' : payload'[g].client # NoClient
        BY <3>1, <3>2, IssueTypes
      <3> QED BY <2>1, <2>2, <3>3, FinishTypes
    <2> QED BY <2>3, <2>4
  <1>9. ASSUME NEW w \in Worker, GateStep(w), UNCHANGED <<store, history, request>>
        PROVE  TypeInv'
    BY <1>9, GateTypes
  <1>10. CASE Tick /\ UNCHANGED <<store, history, request>>
    BY <1>10, TtlAssumption DEF Tick, TypeInv, TypeOK, GateTypeOK, Shape
  <1>11. CASE Switch /\ UNCHANGED <<store, history, request>>
    BY <1>11 DEF Switch, State, TypeInv, TypeOK, GateTypeOK, Shape
  <1>12. CASE UNCHANGED vars
    BY <1>12 DEF vars, TypeInv, TypeOK, GateTypeOK, Shape
  <1> QED
    BY <1>2, <1>3, <1>4, <1>5, <1>6, <1>7, <1>8, <1>9, <1>10, <1>11, <1>12 DEF Next, TokenEndpoint

\* Every reachable state is typed, and a refresh is the only request that peeks.
THEOREM TypeCorrect == Spec => []TypeOK
  <1>1. TypeInv => TypeOK
    BY DEF TypeInv
  <1> QED BY <1>1, TypeInit, TypeStep, PTL DEF Spec

-----------------------------------------------------------------------------
\* What a step of the endpoint means for the gate and the clock: a request stays where
\* it is, calls the gate, arrives, is refused, or is served on an admission.
Stays(w) == /\ ask'[w] = ask[w] /\ asked'[w] = asked[w] /\ why'[w] = why[w]
            /\ started'[w] = started[w] /\ served'[w] = served[w]
Calls(w) == /\ ask'[w] = "enter" /\ asked'[w] = asked[w]
            /\ started'[w] = started[w] /\ served'[w] = served[w]
Arrives(w) == /\ ask'[w] \in {"none", "enter"} /\ asked'[w] = asked[w]
              /\ started'[w] = now /\ served'[w] = FALSE
Refused(w) == /\ ask'[w] = "none" /\ asked'[w] = 0
              /\ started'[w] = 0 /\ served'[w] = FALSE
Served(w) == /\ ask[w] = "admit" /\ ask'[w] = "none" /\ asked'[w] = 0
             /\ started'[w] = started[w] /\ served'[w] = TRUE
Moves(w) == Stays(w) \/ Calls(w) \/ Arrives(w) \/ Refused(w) \/ Served(w)

GateMoves ==
    \/ \E w \in Worker : GateStep(w) /\ UNCHANGED <<store, history, request>>
    \/ (Tick \/ Switch) /\ UNCHANGED <<store, history, request>>

LEMMA FinishMoves ==
    ASSUME TypeInv, NEW w \in Worker, NEW token \in BOOLEAN, Finish(w, token),
           token => ask[w] = "admit"
    PROVE  \A v \in Worker : Moves(v)
  <1>1. /\ ask' = [ask EXCEPT ![w] = "none"] /\ asked' = [asked EXCEPT ![w] = 0]
        /\ why' = [why EXCEPT ![w] = "unknown"] /\ served' = [served EXCEPT ![w] = token]
    BY DEF Finish, HangUp
  <1>2. \/ token /\ started' = started
        \/ ~token /\ started' = [started EXCEPT ![w] = 0]
    BY DEF Finish
  <1>3. ASSUME NEW v \in Worker, v # w PROVE Stays(v)
    BY <1>1, <1>2, <1>3 DEF Stays, TypeInv, TypeOK, GateTypeOK
  <1>4. Refused(w) \/ Served(w)
    BY <1>1, <1>2 DEF Refused, Served, TypeInv, TypeOK, GateTypeOK
  <1> QED BY <1>3, <1>4 DEF Moves

LEMMA RequestMoves ==
    ASSUME TypeInv, [Next]_vars
    PROVE  GateMoves \/ (UNCHANGED <<registry, now, verdict>> /\ \A v \in Worker : Moves(v))
  <1> USE DEF registry, call, gate, store, history, request
  <1>1. ASSUME NEW c \in Client, NEW s \in Requested, Authorize(c, s) \/ Decide(c, s)
        PROVE  UNCHANGED <<registry, now, verdict>> /\ \A v \in Worker : Moves(v)
    BY <1>1 DEF Authorize, Decide, Moves, Stays
  <1>2. ASSUME NEW g \in Grant, Expire(g)
        PROVE  UNCHANGED <<registry, now, verdict>> /\ \A v \in Worker : Moves(v)
    BY <1>2 DEF Expire, Moves, Stays
  <1>3. ASSUME NEW w \in Worker, NEW o \in Op, NEW c \in Client, NEW g \in Grant \cup {NoGrant},
               Token(w, o, c, g)
        PROVE  UNCHANGED <<registry, now, verdict>> /\ \A v \in Worker : Moves(v)
    <2>1. /\ ask' \in {ask, [ask EXCEPT ![w] = "enter"]} /\ UNCHANGED <<asked, why>>
          /\ started' = [started EXCEPT ![w] = now] /\ served' = [served EXCEPT ![w] = FALSE]
          /\ stage[w] = "idle"
      BY <1>3 DEF Token, Call
    <2>2. ask[w] = "none"
      BY <2>1 DEF TypeInv, Shape
    <2>3. Arrives(w) /\ \A v \in Worker : v # w => Stays(v)
      BY <2>1, <2>2 DEF Arrives, Stays, TypeInv, TypeOK, GateTypeOK
    <2> QED BY <1>3, <2>3 DEF Token, Moves
  <1>4. ASSUME NEW w \in Worker, Peek(w)
        PROVE  UNCHANGED <<registry, now, verdict>> /\ \A v \in Worker : Moves(v)
    <2>1. /\ ask' \in {ask, [ask EXCEPT ![w] = "enter"]}
          /\ UNCHANGED <<asked, why, started, served>>
      BY <1>4 DEF Peek, Call
    <2>2. \A v \in Worker : Stays(v) \/ Calls(v)
      BY <2>1 DEF Calls, Stays, TypeInv, TypeOK, GateTypeOK
    <2> QED BY <1>4, <2>2 DEF Peek, Moves
  <1>5. ASSUME NEW w \in Worker, FirstCheck(w)
        PROVE  UNCHANGED <<registry, now, verdict>> /\ \A v \in Worker : Moves(v)
    <2>1. CASE Finish(w, FALSE)
      BY <1>5, <2>1, FinishMoves DEF FirstCheck
    <2>2. CASE ~Finish(w, FALSE)
      <3>1. /\ ask' \in {ask, [ask EXCEPT ![w] = "enter"]}
            /\ UNCHANGED <<asked, why, started, served>>
        BY <1>5, <2>2 DEF FirstCheck, Call
      <3>2. \A v \in Worker : Stays(v) \/ Calls(v)
        BY <3>1 DEF Calls, Stays, TypeInv, TypeOK, GateTypeOK
      <3> QED BY <1>5, <3>2 DEF FirstCheck, Moves
    <2> QED BY <2>1, <2>2
  <1>6. ASSUME NEW w \in Worker, Consume(w)
        PROVE  UNCHANGED <<registry, now, verdict>> /\ \A v \in Worker : Moves(v)
    <2>1. CASE Finish(w, FALSE)
      BY <1>6, <2>1, FinishMoves DEF Consume
    <2>2. CASE ~Finish(w, FALSE)
      <3>1. ask' = [ask EXCEPT ![w] = "enter"] /\ UNCHANGED <<asked, why, started, served>>
        BY <1>6, <2>2 DEF Consume, Call
      <3>2. \A v \in Worker : Stays(v) \/ Calls(v)
        BY <3>1 DEF Calls, Stays, TypeInv, TypeOK, GateTypeOK
      <3> QED BY <1>6, <3>2 DEF Consume, Moves
    <2> QED BY <2>1, <2>2
  <1>7. ASSUME NEW w \in Worker, Respond(w)
        PROVE  UNCHANGED <<registry, now, verdict>> /\ \A v \in Worker : Moves(v)
    <2>1. Finish(w, FALSE) \/ (Finish(w, TRUE) /\ ask[w] = "admit")
      BY <1>7 DEF Respond
    <2>2. \A v \in Worker : Moves(v)
      BY <2>1, FinishMoves
    <2> QED BY <1>7, <2>2 DEF Respond
  <1>8. ASSUME UNCHANGED vars
        PROVE  UNCHANGED <<registry, now, verdict>> /\ \A v \in Worker : Moves(v)
    BY <1>8 DEF vars, Moves, Stays
  <1> QED
    BY <1>1, <1>2, <1>3, <1>4, <1>5, <1>6, <1>7, <1>8 DEF Next, TokenEndpoint, GateMoves

-----------------------------------------------------------------------------
\* How long the gate goes by what it read.
Ttl(reason) == IF Admits(reason) THEN AdmitTtl ELSE RefuseTtl

\* A state that is the tenant's no longer was read before it changed.
Outdated(reason) == reason \in State \ {state}

AskedInTime(w) == asked[w] <= since \/ asked[w] < since + Ttl(why[w])

ClockInv ==
    /\ since <= now
    /\ verdict # NoVerdict =>
          /\ verdict.until <= now + Ttl(verdict.why)
          /\ Outdated(verdict.why) => verdict.until <= since + Ttl(verdict.why)
    /\ \A w \in Worker :
          /\ asked[w] <= now
          /\ ask[w] = "store" /\ Outdated(why[w]) => asked[w] <= since
          /\ ask[w] \in {"admit", "refuse"} =>
                /\ ask[w] = "admit" <=> why[w] = "live"
                /\ Outdated(why[w]) => AskedInTime(w)

LEMMA ClockInit == Init => ClockInv
  BY DEF Init, GateInit, ClockInv

LEMMA ClockStep == TypeInv /\ ClockInv /\ [Next]_vars => ClockInv'
  <1> SUFFICES ASSUME TypeInv, ClockInv, [Next]_vars PROVE ClockInv'
    OBVIOUS
  <1> USE DEF registry, State
  <1>1. /\ state \in State /\ since \in Nat /\ now \in Nat /\ ask \in [Worker -> Ask]
        /\ asked \in [Worker -> Nat] /\ why \in [Worker -> Reason]
        /\ AdmitTtl \in Nat /\ RefuseTtl \in Nat
        /\ verdict # NoVerdict => verdict.why \in Reason /\ verdict.until \in Nat
        /\ \A r \in Reason : Ttl(r) \in Nat
    BY TtlAssumption DEF TypeInv, TypeOK, GateTypeOK, Verdict, Ttl
  <1>2. ASSUME NEW w \in Worker, Enter(w) PROVE ClockInv'
    <2>1. /\ UNCHANGED <<state, since, now, verdict>> /\ asked'[w] = now
          /\ \A v \in Worker \ {w} : asked'[v] = asked[v]
      BY <1>1, <1>2 DEF Enter
    <2>2. /\ \A v \in Worker \ {w} : ask'[v] = ask[v] /\ why'[v] = why[v]
          /\ \/ ask'[w] = "lookup"
             \/ /\ verdict # NoVerdict /\ now < verdict.until
                /\ ask'[w] = (IF Admits(verdict.why) THEN "admit" ELSE "refuse")
                /\ why'[w] = verdict.why
      BY <1>1, <1>2 DEF Enter, Conclude
    <2>3. asked'[w] <= now' /\ (ask'[w] = "store" => FALSE)
      BY <1>1, <2>1, <2>2
    <2>4. ask'[w] \in {"admit", "refuse"} =>
             /\ ask'[w] = "admit" <=> why'[w] = "live"
             /\ Outdated(why[w])' => AskedInTime(w)'
      <3>1. CASE ask'[w] = "lookup"
        BY <3>1
      <3>2. CASE ask'[w] # "lookup"
        <4>1. ask'[w] = "admit" <=> why'[w] = "live"
          BY <2>2, <3>2 DEF Admits
        <4>2. ASSUME Outdated(why[w])' PROVE AskedInTime(w)'
          <5>1. verdict.until <= since + Ttl(verdict.why) /\ now < verdict.until
            BY <2>1, <2>2, <3>2, <4>2 DEF ClockInv, Outdated
          <5>2. now < since + Ttl(verdict.why)
            BY <1>1, <2>2, <3>2, <5>1
          <5> QED BY <2>1, <2>2, <3>2, <5>2 DEF AskedInTime, Ttl
        <4> QED BY <4>1, <4>2
      <3> QED BY <3>1, <3>2
    <2> QED BY <2>1, <2>2, <2>3, <2>4 DEF ClockInv, Outdated, AskedInTime, Ttl
  <1>3. ASSUME NEW w \in Worker, Lookup(w) PROVE ClockInv'
    <2>1. /\ UNCHANGED <<state, since, now, verdict, asked>> /\ ask'[w] = "store"
          /\ why'[w] \in {state, "unknown"}
          /\ \A v \in Worker \ {w} : ask'[v] = ask[v] /\ why'[v] = why[v]
      BY <1>1, <1>3 DEF Lookup
    <2> QED BY <2>1 DEF ClockInv, Outdated, AskedInTime, Ttl
  <1>4. ASSUME NEW w \in Worker, StoreVerdict(w) PROVE ClockInv'
    <2>1. /\ UNCHANGED <<state, since, now, asked>> /\ ask[w] = "store" /\ why' = why
          /\ ask'[w] = (IF Admits(why[w]) THEN "admit" ELSE "refuse")
          /\ \A v \in Worker \ {w} : ask'[v] = ask[v]
      BY <1>1, <1>4 DEF StoreVerdict, Conclude
    <2>2. verdict'.why = why[w] /\ verdict'.until = asked[w] + Ttl(why[w])
      BY <1>4 DEF StoreVerdict, Ttl
    <2>3. Ttl(why[w]) \in Nat /\ asked[w] \in Nat /\ why[w] \in Reason
      BY <1>1
    <2>4. /\ asked[w] + Ttl(why[w]) <= now + Ttl(why[w])
          /\ Outdated(why[w]) => asked[w] + Ttl(why[w]) <= since + Ttl(why[w])
      BY <1>1, <2>1, <2>3 DEF ClockInv
    <2>5. /\ ask'[w] = "admit" <=> why'[w] = "live"
          /\ Outdated(why[w])' => AskedInTime(w)'
          /\ ask'[w] # "store"
      BY <2>1 DEF ClockInv, Admits, Outdated, AskedInTime
    <2>6. /\ verdict'.until <= now' + Ttl(verdict'.why)
          /\ Outdated(verdict.why)' => verdict'.until <= since' + Ttl(verdict'.why)
      BY <2>1, <2>2, <2>4 DEF Outdated
    <2> QED BY <2>1, <2>5, <2>6 DEF ClockInv, Outdated, AskedInTime, Ttl
  <1>5. CASE Tick
    <2>1. UNCHANGED <<state, since, verdict, ask, asked, why>> /\ now' = now + 1
      BY <1>5 DEF Tick, call
    <2>2. verdict # NoVerdict => verdict.until <= now' + Ttl(verdict.why)
      BY <1>1, <2>1 DEF ClockInv
    <2>3. since <= now' /\ \A w \in Worker : asked[w] <= now'
      BY <1>1, <2>1 DEF ClockInv
    <2> QED BY <2>1, <2>2, <2>3 DEF ClockInv, Outdated, AskedInTime, Ttl
  <1>6. CASE Switch
    <2>1. UNCHANGED <<now, verdict, ask, asked, why>> /\ since' = now
      BY <1>6 DEF Switch, call
    <2>2. since' <= now' /\ \A w \in Worker : asked[w] <= since'
      BY <1>1, <2>1 DEF ClockInv
    <2>3. verdict # NoVerdict => verdict.until <= since' + Ttl(verdict.why)
      BY <2>1 DEF ClockInv
    <2> QED BY <2>1, <2>2, <2>3 DEF ClockInv, AskedInTime, Ttl
  <1>7. CASE UNCHANGED <<registry, now, verdict>> /\ \A v \in Worker : Moves(v)
    <2>1. ASSUME NEW v \in Worker
          PROVE  /\ asked'[v] <= now'
                 /\ ask'[v] \in {"store", "admit", "refuse"} =>
                      ask'[v] = ask[v] /\ asked'[v] = asked[v] /\ why'[v] = why[v]
      BY <1>1, <1>7 DEF Moves, Stays, Calls, Arrives, Refused, Served, ClockInv
    <2> QED BY <1>7, <2>1 DEF ClockInv, Outdated, AskedInTime, Ttl
  <1> QED
    BY <1>2, <1>3, <1>4, <1>5, <1>6, <1>7, RequestMoves DEF GateMoves, GateStep

\* Whatever verdicts overwrite each other, a tenant is refused once a suspension is
\* older than the time to live of what was read before.
THEOREM Suspended == Spec => []SuspensionBites
  <1>1. ClockInv => SuspensionBites
    BY DEF ClockInv, SuspensionBites, Outdated, AskedInTime, State, Ttl, Admits
  <1> QED BY <1>1, TypeInit, TypeStep, ClockInit, ClockStep, PTL DEF Spec

\* A resumed tenant is let in again within the time to live of a refusal.
THEOREM Resumed == Spec => []ResumptionBites
  <1>1. ClockInv => ResumptionBites
    BY DEF ClockInv, ResumptionBites, Outdated, AskedInTime, State, Ttl, Admits
  <1> QED BY <1>1, TypeInit, TypeStep, ClockInit, ClockStep, PTL DEF Spec

-----------------------------------------------------------------------------
\* A request is older than what the gate does for it.
ServeInv ==
    \A w \in Worker :
        /\ started[w] <= now
        /\ ask[w] \notin {"none", "enter"} => started[w] <= asked[w]
        /\ served[w] /\ state = "suspended" =>
              started[w] <= since \/ started[w] < since + AdmitTtl

LEMMA ServeInit == Init => ServeInv
  BY DEF Init, GateInit, ServeInv

LEMMA ServeStep == TypeInv /\ ClockInv /\ ServeInv /\ [Next]_vars => ServeInv'
  <1> SUFFICES ASSUME TypeInv, ClockInv, ServeInv, [Next]_vars PROVE ServeInv'
    OBVIOUS
  <1> USE DEF registry
  <1>1. /\ state \in State /\ since \in Nat /\ now \in Nat /\ ask \in [Worker -> Ask]
        /\ asked \in [Worker -> Nat] /\ started \in [Worker -> Nat] /\ AdmitTtl \in Nat
        /\ since <= now
    BY TtlAssumption DEF TypeInv, TypeOK, GateTypeOK, ClockInv
  <1>2. ASSUME NEW w \in Worker, GateStep(w), UNCHANGED request PROVE ServeInv'
    <2>1. /\ UNCHANGED <<state, since, now, started, served>>
          /\ \A v \in Worker \ {w} : ask'[v] = ask[v] /\ asked'[v] = asked[v]
      BY <1>1, <1>2 DEF GateStep, Enter, Lookup, StoreVerdict, Conclude, request
    <2>2. started[w] <= asked'[w]
      <3>1. CASE Enter(w)
        BY <1>1, <3>1 DEF Enter, ServeInv
      <3>2. CASE Lookup(w) \/ StoreVerdict(w)
        BY <1>1, <3>2 DEF Lookup, StoreVerdict, ServeInv
      <3> QED BY <1>2, <3>1, <3>2 DEF GateStep
    <2> QED BY <2>1, <2>2 DEF ServeInv
  <1>3. ASSUME Tick, UNCHANGED request PROVE ServeInv'
    <2>1. UNCHANGED <<state, since, ask, asked, started, served>> /\ now' = now + 1
      BY <1>3 DEF Tick, call, request
    <2>2. \A w \in Worker : started[w] <= now'
      BY <1>1, <2>1 DEF ServeInv
    <2> QED BY <2>1, <2>2 DEF ServeInv
  <1>4. ASSUME Switch, UNCHANGED request PROVE ServeInv'
    BY <1>4 DEF Switch, call, request, ServeInv
  <1>5. ASSUME UNCHANGED <<registry, now, verdict>>, \A v \in Worker : Moves(v) PROVE ServeInv'
    <2> SUFFICES ASSUME NEW v \in Worker
                 PROVE  /\ started'[v] <= now
                        /\ ask'[v] \notin {"none", "enter"} => started'[v] <= asked'[v]
                        /\ served'[v] /\ state = "suspended" =>
                              started'[v] <= since \/ started'[v] < since + AdmitTtl
      BY <1>5 DEF ServeInv
    <2>1. CASE Stays(v) \/ Calls(v)
      BY <2>1 DEF Stays, Calls, ServeInv
    <2>2. CASE Arrives(v) \/ Refused(v)
      BY <1>1, <2>2 DEF Arrives, Refused
    <2>3. CASE Served(v)
      <3>1. started[v] <= asked[v] /\ started[v] <= now
        BY <2>3 DEF Served, ServeInv
      <3>2. why[v] = "live" /\ (Outdated(why[v]) => AskedInTime(v))
        BY <2>3 DEF Served, ClockInv
      <3>3. state = "suspended" => asked[v] <= since \/ asked[v] < since + AdmitTtl
        BY <3>2 DEF Outdated, AskedInTime, State, Ttl, Admits
      <3>4. started[v] \in Nat /\ asked[v] \in Nat
        BY <1>1
      <3> QED BY <1>1, <2>3, <3>1, <3>3, <3>4 DEF Served
    <2> QED BY <1>5, <2>1, <2>2, <2>3 DEF Moves
  <1> QED BY <1>2, <1>3, <1>4, <1>5, RequestMoves DEF GateMoves

\* A request that comes AdmitTtl after the suspension or later gets no token.
THEOREM Nothing == Spec => []SuspendedGetNothing
  <1>1. ServeInv => SuspendedGetNothing
    BY DEF ServeInv, SuspendedGetNothing
  <1> QED BY <1>1, TypeInit, TypeStep, ClockInit, ClockStep, ServeInit, ServeStep, PTL DEF Spec

-----------------------------------------------------------------------------
\* A grant is drawn, lives, is claimed by one request and used, in this order.
GrantInv ==
    \A g \in Grant :
        /\ used[g] \in {0, 1}
        /\ g \in Fresh => g \notin live /\ used[g] = 0 /\ \A w \in Worker : presented[w] # g
        /\ g \in live => used[g] = 0 /\ \A w \in Worker : ~Claims(w, g)
        /\ \A w \in Worker : Claims(w, g) =>
              used[g] = 0 /\ \A v \in Worker : Claims(v, g) => v = w

\* Every scope that is stored, or taken to a response, has been approved.
ScopeInv ==
    /\ \A c \in Client : consent[c] \subseteq approved[c]
    /\ \A g \in Grant \ Fresh :
          /\ payload[g].client \in Client
          /\ payload[g].client \in Trusted \/ payload[g].scope \subseteq approved[payload[g].client]
    /\ \A w \in Worker : stage[w] = "final" /\ op[w] # "service" =>
          client[w] \in Trusted \/ scope[w] \subseteq approved[client[w]]

\* A token of its own client reaches the rotation only on an admission.
AdmittedInv == \A w \in Worker :
    /\ stage[w] = "consume" /\ op[w] = "refresh"
    /\ presented[w] \in live /\ payload[presented[w]].client = client[w]
    => ask[w] = "admit"

LEMMA GrantInit == Init => GrantInv /\ ScopeInv /\ AdmittedInv
  BY GrantAssumption
  DEF Init, GrantInv, ScopeInv, AdmittedInv, Claims, Fresh

GInv == GrantInv /\ ScopeInv /\ AdmittedInv

\* The gate, the clock and the operator leave all of this alone.
LEMMA Aside ==
    ASSUME GInv, UNCHANGED <<store, history, stage, op, client, presented, scope>>,
           \A w \in Worker : ask[w] = "admit" => ask'[w] = "admit"
    PROVE  GInv'
  <1> USE DEF store, history
  <1>1. GrantInv'
    BY DEF GInv, GrantInv, Claims, Fresh
  <1>2. ScopeInv'
    BY DEF GInv, ScopeInv, Fresh
  <1>3. AdmittedInv'
    BY DEF GInv, AdmittedInv
  <1> QED BY <1>1, <1>2, <1>3 DEF GInv

\* A grant that is drawn, for a client that may have its scopes, while the grant that
\* it replaces, if any, is used up.
LEMMA Drawn ==
    ASSUME TypeInv, GInv, NEW f \in Fresh, NEW p \in Payload, p.client # NoClient,
           live' = live \cup {f}, payload' = [payload EXCEPT ![f] = p],
           \A c \in Client : approved[c] \subseteq approved'[c],
           p.client \in Trusted \/ p.scope \subseteq approved'[p.client]
    PROVE  /\ Fresh' = Fresh \ {f}
           /\ \A g \in Grant \ Fresh' :
                 /\ payload'[g].client \in Client
                 /\ payload'[g].client \in Trusted
                    \/ payload'[g].scope \subseteq approved'[payload'[g].client]
           /\ \A g \in Grant \ Fresh : payload'[g] = payload[g] /\ (g \in live' <=> g \in live)
  <1>1. /\ f \in Grant /\ payload \in [Grant -> Payload] /\ live \in SUBSET Grant
        /\ payload'[f] = p /\ \A g \in Grant \ {f} : payload'[g] = payload[g]
        /\ p # Unissued
    BY IssueTypes DEF Fresh, TypeInv, TypeOK, Unissued
  <1>2. Fresh' = Fresh \ {f}
    BY <1>1 DEF Fresh
  <1>3. ASSUME NEW g \in Grant \ Fresh
        PROVE  /\ payload[g].client \in Client
               /\ payload[g].client \in Trusted
                  \/ payload[g].scope \subseteq approved'[payload[g].client]
    BY <1>3 DEF GInv, ScopeInv
  <1>4. p.client \in Client
    BY DEF Payload
  <1> QED BY <1>1, <1>2, <1>3, <1>4

\* What is left of a request that is answered.
LEMMA FinishRequest ==
    ASSUME TypeInv, NEW w \in Worker, NEW token, Finish(w, token)
    PROVE  /\ stage'[w] = "idle" /\ presented'[w] = NoGrant
           /\ \A v \in Worker \ {w} :
                /\ stage'[v] = stage[v] /\ op'[v] = op[v] /\ client'[v] = client[v]
                /\ presented'[v] = presented[v] /\ scope'[v] = scope[v] /\ ask'[v] = ask[v]
  BY DEF Finish, Goto, HangUp, TypeInv, TypeOK, GateTypeOK

\* If it took nothing else along, the grants are as they were, but for what it claimed.
LEMMA FinishGrants ==
    ASSUME TypeInv, GrantInv, NEW w \in Worker, NEW token, Finish(w, token),
           live' \subseteq live, UNCHANGED <<payload, used>>
    PROVE  GrantInv'
  <1>1. ASSUME NEW v \in Worker, NEW g \in Grant
        PROVE  /\ stage'[v] = "final" /\ presented'[v] = g => Claims(v, g)
               /\ presented'[v] = g => presented[v] = g
    BY FinishRequest, GrantAssumption DEF Claims
  <1>2. ASSUME NEW g \in Grant
        PROVE  /\ used[g] \in {0, 1}
               /\ payload[g] = Unissued =>
                     g \notin live' /\ used[g] = 0 /\ \A v \in Worker : presented'[v] # g
               /\ g \in live' => used[g] = 0 /\ \A v \in Worker : ~(stage'[v] = "final" /\ presented'[v] = g)
               /\ \A v \in Worker : stage'[v] = "final" /\ presented'[v] = g =>
                     used[g] = 0 /\ \A u \in Worker : stage'[u] = "final" /\ presented'[u] = g => u = v
    BY <1>1 DEF GrantInv, Fresh
  <1> QED BY <1>2 DEF GrantInv, Claims, Fresh

LEMMA GStep == TypeInv /\ GInv /\ [Next]_vars => GInv'
  <1> SUFFICES ASSUME TypeInv, GInv, [Next]_vars PROVE GInv'
    OBVIOUS
  <1>1. /\ live \in SUBSET Grant /\ payload \in [Grant -> Payload] /\ used \in [Grant -> Nat]
        /\ consent \in [Client -> SUBSET Scope] /\ approved \in [Client -> SUBSET Scope]
        /\ stage \in [Worker -> Stage] /\ op \in [Worker -> Op] /\ ask \in [Worker -> Ask]
        /\ client \in [Worker -> Client \cup {NoClient}] /\ scope \in [Worker -> SUBSET Scope]
        /\ presented \in [Worker -> Grant \cup {NoGrant}]
        /\ NoClient \notin Client /\ NoGrant \notin Grant
    BY GrantAssumption DEF TypeInv, TypeOK, GateTypeOK
  <1>2. ASSUME NEW c \in Client, NEW s \in Requested, Authorize(c, s) \/ Decide(c, s)
        PROVE  GInv'
    <2>1. UNCHANGED <<used, request, ask>>
      BY <1>2 DEF Authorize, Decide, gate, call, history
    <2>2. /\ \A d \in Client : approved[d] \subseteq approved'[d] /\ consent'[d] \subseteq approved'[d]
          /\ c \in Trusted \/ s \subseteq approved'[c]
      BY <1>1, <1>2 DEF Authorize, Decide, history, GInv, ScopeInv
    <2>3. PICK f \in Fresh :
            /\ live' = live \cup {f}
            /\ payload' = [payload EXCEPT ![f] = [kind |-> "code", client |-> c, scope |-> s]]
      BY <1>2 DEF Authorize, Decide, IssueCode
    <2>4. /\ [kind |-> "code", client |-> c, scope |-> s] \in Payload /\ c # NoClient
      BY GrantAssumption DEF Payload
    <2>5. /\ Fresh' = Fresh \ {f}
          /\ \A g \in Grant \ Fresh' :
                 /\ payload'[g].client \in Client
                 /\ payload'[g].client \in Trusted
                    \/ payload'[g].scope \subseteq approved'[payload'[g].client]
          /\ \A g \in Grant \ Fresh : payload'[g] = payload[g] /\ (g \in live' <=> g \in live)
      BY <2>2, <2>3, <2>4, Drawn
    <2>6. GrantInv'
      BY <2>1, <2>3, <2>5 DEF GInv, GrantInv, Claims, request
    <2>7. ScopeInv'
      BY <1>1, <2>1, <2>2, <2>5 DEF GInv, ScopeInv, TypeInv, TypeOK, request
    <2>8. \A w \in Worker : presented[w] \in live' => presented[w] \in Grant \ Fresh
      BY <1>1, <2>3 DEF GInv, GrantInv, Fresh
    <2>9. AdmittedInv'
      BY <2>1, <2>5, <2>8 DEF GInv, AdmittedInv, request
    <2> QED BY <2>6, <2>7, <2>9 DEF GInv
  <1>3. ASSUME NEW g \in Grant, Expire(g) PROVE GInv'
    <2>1. live' = live \ {g} /\ UNCHANGED <<payload, consent, history, request, ask>>
      BY <1>3 DEF Expire, gate, call
    <2> QED
      BY <2>1 DEF GInv, GrantInv, ScopeInv, AdmittedInv, Claims, Fresh, request, history
  <1>4. ASSUME NEW w \in Worker, NEW o \in Op, NEW c \in Client, NEW g \in Grant \cup {NoGrant},
               Token(w, o, c, g)
        PROVE  GInv'
    <2>1. /\ stage'[w] \in {"consume", "peek", "first"} /\ (stage'[w] = "consume" => op'[w] = "code")
          /\ presented'[w] = g /\ (g \in Grant => g \notin Fresh)
          /\ \A v \in Worker \ {w} :
                /\ stage'[v] = stage[v] /\ op'[v] = op[v] /\ client'[v] = client[v]
                /\ presented'[v] = presented[v] /\ scope'[v] = scope[v] /\ ask'[v] = ask[v]
          /\ UNCHANGED <<store, history>>
      BY <1>1, <1>4 DEF Token, Goto, Call, call, Fresh, Op
    <2>2. GrantInv'
      BY <1>1, <2>1 DEF GInv, GrantInv, Claims, Fresh, store, history
    <2>3. ScopeInv'
      BY <2>1 DEF GInv, ScopeInv, Fresh, store, history
    <2>4. AdmittedInv'
      BY <2>1 DEF GInv, AdmittedInv, store
    <2> QED BY <2>2, <2>3, <2>4 DEF GInv
  <1>5. ASSUME NEW w \in Worker, Peek(w) PROVE GInv'
    <2>1. /\ \/ stage'[w] = "first"
             \/ /\ stage'[w] = "consume"
                /\ ~(presented[w] \in live /\ payload[presented[w]].client = client[w])
          /\ \A v \in Worker \ {w} : stage'[v] = stage[v] /\ ask'[v] = ask[v]
          /\ UNCHANGED <<store, history, op, client, presented, scope>>
      BY <1>1, <1>5 DEF Peek, Goto, Call, call
    <2>2. GrantInv'
      BY <2>1 DEF GInv, GrantInv, Claims, Fresh, store, history
    <2>3. ScopeInv'
      BY <2>1 DEF GInv, ScopeInv, Fresh, store, history
    <2>4. AdmittedInv'
      BY <2>1 DEF GInv, AdmittedInv, store
    <2> QED BY <2>2, <2>3, <2>4 DEF GInv
  <1>6. ASSUME NEW w \in Worker, FirstCheck(w) PROVE GInv'
    <2>1. UNCHANGED <<store, history>>
      BY <1>6 DEF FirstCheck
    <2>2. CASE Finish(w, FALSE)
      <3>1. GrantInv'
        BY <2>1, <2>2, FinishGrants DEF GInv, store, history
      <3>2. ScopeInv'
        BY <2>1, <2>2, FinishRequest DEF GInv, ScopeInv, Fresh, store, history
      <3>3. AdmittedInv'
        BY <2>1, <2>2, FinishRequest DEF GInv, AdmittedInv, store
      <3> QED BY <3>1, <3>2, <3>3 DEF GInv
    <2>3. CASE ~Finish(w, FALSE)
      <3>1. /\ \/ op[w] = "service" /\ stage'[w] = "final"
               \/ stage'[w] = "consume" /\ ask'[w] = "admit"
            /\ \A v \in Worker \ {w} : stage'[v] = stage[v] /\ ask'[v] = ask[v]
            /\ UNCHANGED <<op, client, presented, scope>>
        BY <1>1, <1>6, <2>3 DEF FirstCheck, Goto, Call, call
      <3>2. \A g \in Grant : ~Claims(w, g)'
        BY <1>1, <3>1 DEF Claims, TypeInv, Shape
      <3>3. GrantInv'
        BY <2>1, <3>1, <3>2 DEF GInv, GrantInv, Claims, Fresh, store, history
      <3>4. ScopeInv'
        BY <2>1, <3>1 DEF GInv, ScopeInv, Fresh, store, history
      <3>5. AdmittedInv'
        BY <2>1, <3>1 DEF GInv, AdmittedInv, store
      <3> QED BY <3>3, <3>4, <3>5 DEF GInv
    <2> QED BY <2>2, <2>3
  <1>7. ASSUME NEW w \in Worker, Consume(w) PROVE GInv'
    <2>1. PICK g \in Grant : g = presented[w]
      BY <1>1, <1>7 DEF Consume, TypeInv, TypeOK, Shape
    <2>2. /\ live' = live \ {g} /\ stage[w] = "consume"
          /\ UNCHANGED <<payload, consent, used, approved>>
      BY <1>7, <2>1 DEF Consume, history
    <2>3. CASE Finish(w, FALSE)
      <3>1. GrantInv'
        BY <2>2, <2>3, FinishGrants DEF GInv
      <3>2. ScopeInv'
        BY <2>2, <2>3, FinishRequest DEF GInv, ScopeInv, Fresh
      <3>3. AdmittedInv'
        BY <2>2, <2>3, FinishRequest DEF GInv, AdmittedInv
      <3> QED BY <3>1, <3>2, <3>3 DEF GInv
    <2>4. CASE ~Finish(w, FALSE)
      <3>1. g \in live /\ payload[g].client = client[w]
        BY <1>7, <2>1, <2>4 DEF Consume
      <3>2. PICK s \in Narrowed(w) : scope' = [scope EXCEPT ![w] = s]
        BY <1>7, <2>4 DEF Consume
      <3>3. s \subseteq payload[g].scope
        BY <2>1, <3>2 DEF Narrowed
      <3>4. /\ stage'[w] = "final" /\ scope'[w] = s
            /\ \A v \in Worker \ {w} : /\ stage'[v] = stage[v] /\ ask'[v] = ask[v]
                                       /\ scope'[v] = scope[v]
            /\ UNCHANGED <<op, client, presented>>
        BY <1>1, <1>7, <2>4, <3>2 DEF Consume, Goto, Call
      <3>5. g \notin Fresh /\ used[g] = 0 /\ \A v \in Worker : ~Claims(v, g)
        BY <3>1 DEF GInv, GrantInv
      <3>6. GrantInv'
        BY <2>1, <2>2, <3>4, <3>5 DEF GInv, GrantInv, Claims, Fresh
      <3>7. ScopeInv'
        BY <2>2, <3>1, <3>3, <3>4, <3>5 DEF GInv, ScopeInv, Fresh
      <3>8. AdmittedInv'
        BY <2>2, <3>4 DEF GInv, AdmittedInv
      <3> QED BY <3>6, <3>7, <3>8 DEF GInv
    <2> QED BY <2>3, <2>4
  <1>8. ASSUME NEW w \in Worker, Respond(w) PROVE GInv'
    <2>1. PICK token \in BOOLEAN : Finish(w, token)
      BY <1>8 DEF Respond
    <2>2. UNCHANGED <<consent, approved>> /\ stage[w] = "final"
      BY <1>8 DEF Respond
    <2>3. \A g \in Grant : used'[g] = used[g] \/ (Claims(w, g) /\ used'[g] = used[g] + 1)
      BY <1>1, <1>8 DEF Respond, Claims
    <2>4. \A g \in Grant : Claims(w, g) => /\ g \notin live /\ g \notin Fresh /\ used[g] = 0
                                           /\ \A v \in Worker \ {w} : ~Claims(v, g)
      BY DEF GInv, GrantInv, Claims
    <2>5. CASE UNCHANGED <<live, payload>>
      <3>1. GrantInv'
        BY <1>1, <2>1, <2>3, <2>4, <2>5, FinishRequest DEF GInv, GrantInv, Claims, Fresh
      <3>2. ScopeInv'
        BY <2>1, <2>2, <2>5, FinishRequest DEF GInv, ScopeInv, Fresh
      <3>3. AdmittedInv'
        BY <2>1, <2>5, FinishRequest DEF GInv, AdmittedInv
      <3> QED BY <3>1, <3>2, <3>3 DEF GInv
    <2>6. CASE ~UNCHANGED <<live, payload>>
      <3>1. op[w] # "service"
        BY <1>8, <2>6 DEF Respond
      <3>2. PICK f \in Fresh :
              /\ live' = live \cup {f}
              /\ payload' = [payload EXCEPT ![f] =
                    [kind |-> "refresh", client |-> client[w], scope |-> scope[w]]]
        BY <1>8, <2>6 DEF Respond
      <3>3. /\ [kind |-> "refresh", client |-> client[w], scope |-> scope[w]] \in Payload
            /\ client[w] # NoClient
        BY <1>8 DEF Respond, TypeInv, TypeOK, Payload
      <3>4. client[w] \in Trusted \/ scope[w] \subseteq approved[client[w]]
        BY <2>2, <3>1 DEF GInv, ScopeInv
      <3>5. /\ Fresh' = Fresh \ {f}
            /\ \A g \in Grant \ Fresh' :
                 /\ payload'[g].client \in Client
                 /\ payload'[g].client \in Trusted
                    \/ payload'[g].scope \subseteq approved'[payload'[g].client]
            /\ \A g \in Grant \ Fresh : payload'[g] = payload[g] /\ (g \in live' <=> g \in live)
        BY <2>2, <3>2, <3>3, <3>4, Drawn
      <3>6. GrantInv'
        <4>1. /\ used[f] = 0 /\ \A v \in Worker : presented[v] # f
          BY <3>2 DEF GInv, GrantInv, Fresh
        <4> QED
          BY <1>1, <2>1, <2>3, <2>4, <3>2, <3>5, <4>1, FinishRequest DEF GInv, GrantInv, Claims
      <3>7. ScopeInv'
        BY <1>1, <2>1, <2>2, <3>5, FinishRequest DEF GInv, ScopeInv
      <3>8. \A v \in Worker : presented[v] \in live' => presented[v] \in Grant \ Fresh
        BY <1>1, <3>2 DEF GInv, GrantInv, Fresh
      <3>9. AdmittedInv'
        BY <2>1, <3>5, <3>8, FinishRequest DEF GInv, AdmittedInv
      <3> QED BY <3>6, <3>7, <3>9 DEF GInv
    <2> QED BY <2>5, <2>6
  <1>9. ASSUME NEW w \in Worker, GateStep(w), UNCHANGED <<store, history, request>>
        PROVE  GInv'
    <2>1. \A v \in Worker : ask[v] = "admit" => ask'[v] = "admit"
      BY <1>1, <1>9 DEF GateStep, Enter, Lookup, StoreVerdict, Conclude
    <2> QED BY <1>9, <2>1, Aside DEF request
  <1>10. CASE (Tick \/ Switch) /\ UNCHANGED <<store, history, request>>
    <2>1. ask' = ask
      BY <1>10 DEF Tick, Switch, call
    <2> QED BY <1>10, <2>1, Aside DEF request
  <1>11. CASE UNCHANGED vars
    BY <1>11, Aside DEF vars, request, gate, call
  <1> QED
    BY <1>2, <1>3, <1>4, <1>5, <1>6, <1>7, <1>8, <1>9, <1>10, <1>11 DEF Next, TokenEndpoint

\* A refresh token of its own client is consumed on an admission only.
THEOREM Rotation == Spec => RotationAfterAdmission
  <1>1. GInv => RotationStep
    BY DEF GInv, AdmittedInv, RotationStep
  <1>2. TypeInv /\ GInv /\ [Next]_vars => RotationStep
    BY <1>1
  <1> QED
    BY <1>2, TypeInit, TypeStep, GrantInit, GStep, PTL DEF Spec, GInv, RotationAfterAdmission

-----------------------------------------------------------------------------
\* What a claim takes to its response: the client is the one the grant was issued to,
\* and the scope is part of the grant's.
ClaimInv ==
    \A w \in Worker, g \in Grant : Claims(w, g) =>
        client[w] = payload[g].client /\ scope[w] \subseteq payload[g].scope

LEMMA ClaimInit == Init => ClaimInv
  BY DEF Init, ClaimInv, Claims

\* A step that takes no new claim and leaves what has been issued leaves the claims good.
LEMMA ClaimsKept ==
    ASSUME TypeInv, GInv, ClaimInv,
           \A g \in Grant \ Fresh : payload'[g] = payload[g],
           \A v \in Worker : stage'[v] = "final" /\ presented'[v] \in Grant =>
               /\ stage[v] = "final" /\ presented'[v] = presented[v]
               /\ client'[v] = client[v] /\ scope'[v] = scope[v]
    PROVE  ClaimInv'
  <1>1. ASSUME NEW v \in Worker, NEW g \in Grant, Claims(v, g)' 
        PROVE  client'[v] = payload'[g].client /\ scope'[v] \subseteq payload'[g].scope
    <2>1. Claims(v, g) /\ client'[v] = client[v] /\ scope'[v] = scope[v]
      BY <1>1 DEF Claims
    <2>2. g \in Grant \ Fresh
      BY <2>1 DEF GInv, GrantInv, Claims
    <2> QED BY <2>1, <2>2 DEF ClaimInv
  <1> QED BY <1>1 DEF ClaimInv

LEMMA ClaimStep == TypeInv /\ GInv /\ ClaimInv /\ [Next]_vars => ClaimInv'
  <1> SUFFICES ASSUME TypeInv, GInv, ClaimInv, [Next]_vars PROVE ClaimInv'
    OBVIOUS
  <1>1. /\ payload \in [Grant -> Payload] /\ stage \in [Worker -> Stage]
        /\ client \in [Worker -> Client \cup {NoClient}] /\ scope \in [Worker -> SUBSET Scope]
        /\ presented \in [Worker -> Grant \cup {NoGrant}] /\ NoGrant \notin Grant
    BY GrantAssumption DEF TypeInv, TypeOK
  <1>2. CASE UNCHANGED <<request, payload>>
    BY <1>2, ClaimsKept DEF request
  <1>3. ASSUME NEW c \in Client, NEW s \in Requested, Authorize(c, s) \/ Decide(c, s)
        PROVE  ClaimInv'
    <2>1. UNCHANGED request /\ \A g \in Grant \ Fresh : payload'[g] = payload[g]
      BY <1>1, <1>3 DEF Authorize, Decide, IssueCode, Fresh
    <2> QED BY <2>1, ClaimsKept DEF request
  <1>4. ASSUME NEW w \in Worker, NEW token, Finish(w, token),
               \A g \in Grant \ Fresh : payload'[g] = payload[g]
        PROVE  ClaimInv'
    BY <1>4, FinishRequest, ClaimsKept
  <1>5. ASSUME NEW w \in Worker, NEW o \in Op, NEW c \in Client, NEW g \in Grant \cup {NoGrant},
               Token(w, o, c, g)
        PROVE  ClaimInv'
    <2>1. /\ stage'[w] # "final" /\ UNCHANGED payload
          /\ \A v \in Worker \ {w} : /\ stage'[v] = stage[v] /\ client'[v] = client[v]
                                     /\ presented'[v] = presented[v] /\ scope'[v] = scope[v]
      BY <1>1, <1>5 DEF Token, Goto, Op, store
    <2> QED BY <2>1, ClaimsKept
  <1>6. ASSUME NEW w \in Worker, Peek(w) PROVE ClaimInv'
    <2>1. /\ stage'[w] # "final" /\ UNCHANGED <<payload, client, presented, scope>>
          /\ \A v \in Worker \ {w} : stage'[v] = stage[v]
      BY <1>1, <1>6 DEF Peek, Goto, store
    <2> QED BY <2>1, ClaimsKept
  <1>7. ASSUME NEW w \in Worker, FirstCheck(w) PROVE ClaimInv'
    <2>1. CASE Finish(w, FALSE)
      BY <1>4, <1>7, <2>1 DEF FirstCheck, store
    <2>2. CASE ~Finish(w, FALSE)
      <3>1. /\ stage'[w] = "final" => presented[w] = NoGrant
            /\ UNCHANGED <<payload, client, presented, scope>>
            /\ \A v \in Worker \ {w} : stage'[v] = stage[v]
        BY <1>1, <1>7, <2>2 DEF FirstCheck, Goto, store, TypeInv, Shape
      <3> QED BY <1>1, <3>1, ClaimsKept
    <2> QED BY <2>1, <2>2
  <1>8. ASSUME NEW w \in Worker, Consume(w) PROVE ClaimInv'
    <2>1. CASE Finish(w, FALSE)
      BY <1>4, <1>8, <2>1 DEF Consume
    <2>2. CASE ~Finish(w, FALSE)
      <3>1. PICK s \in Narrowed(w) : scope' = [scope EXCEPT ![w] = s]
        BY <1>8, <2>2 DEF Consume
      <3>2. s \subseteq payload[presented[w]].scope
        BY <3>1 DEF Narrowed
      <3>3. /\ payload[presented[w]].client = client[w] /\ scope'[w] = s
            /\ UNCHANGED <<payload, client, presented>>
            /\ \A v \in Worker \ {w} : stage'[v] = stage[v] /\ scope'[v] = scope[v]
        BY <1>1, <1>8, <2>2, <3>1 DEF Consume, Goto
      <3> QED BY <3>2, <3>3 DEF ClaimInv, Claims
    <2> QED BY <2>1, <2>2
  <1>9. ASSUME NEW w \in Worker, Respond(w) PROVE ClaimInv'
    <2>1. \A g \in Grant \ Fresh : payload'[g] = payload[g]
      BY <1>1, <1>9 DEF Respond, Fresh
    <2> QED BY <1>4, <1>9, <2>1 DEF Respond
  <1>10. ASSUME NEW g \in Grant, Expire(g) PROVE ClaimInv'
    BY <1>2, <1>10 DEF Expire
  <1>11. CASE UNCHANGED vars
    BY <1>2, <1>11 DEF vars, store
  <1> QED
    BY <1>2, <1>3, <1>5, <1>6, <1>7, <1>8, <1>9, <1>10, <1>11 DEF Next, TokenEndpoint, store

-----------------------------------------------------------------------------
\* How far each grant has come, told from what changes.
LEMMA StatusKept ==
    ASSUME NEW g \in Grant, g \in Fresh' <=> g \in Fresh, g \in live' <=> g \in live,
           \A v \in Worker : Claims(v, g)' <=> Claims(v, g)
    PROVE  StatusOf(g)' = StatusOf(g)
  BY DEF StatusOf, Fresh

\* A step that leaves what is stored, and that takes and ends no claim, is nothing to
\* the ledger.
LEMMA LedgerAside ==
    ASSUME UNCHANGED <<live, payload, history>>,
           \A g \in Grant, v \in Worker : Claims(v, g)' <=> Claims(v, g)
    PROVE  UNCHANGED <<[g \in Grant |-> StatusOf(g)], [g \in Grant |-> payload[g].client],
                       [g \in Grant |-> payload[g].scope], approved, used>>
  <1>1. \A g \in Grant : StatusOf(g)' = StatusOf(g)
    BY StatusKept DEF Fresh
  <1> QED BY <1>1 DEF history

LEMMA LedgerStep ==
    ASSUME TypeInv, GInv, ClaimInv, [Next]_vars
    PROVE  [Ledger!Next]_<<[g \in Grant |-> StatusOf(g)], [g \in Grant |-> payload[g].client],
                           [g \in Grant |-> payload[g].scope], approved, used>>
  <1> DEFINE Stat == [g \in Grant |-> StatusOf(g)]
             Own == [g \in Grant |-> payload[g].client]
             Has == [g \in Grant |-> payload[g].scope]
  <1>1. /\ live \in SUBSET Grant /\ payload \in [Grant -> Payload] /\ used \in [Grant -> Nat]
        /\ approved \in [Client -> SUBSET Scope] /\ op \in [Worker -> Op]
        /\ stage \in [Worker -> Stage] /\ presented \in [Worker -> Grant \cup {NoGrant}]
        /\ NoClient \notin Client /\ NoGrant \notin Grant /\ Requested \subseteq SUBSET Scope
    BY GrantAssumption DEF TypeInv, TypeOK
  <1>2. ASSUME NEW c \in Client, NEW s \in Requested, Authorize(c, s) \/ Decide(c, s)
        PROVE  Ledger!Next
    <2>1. PICK f \in Fresh :
            /\ live' = live \cup {f}
            /\ payload' = [payload EXCEPT ![f] = [kind |-> "code", client |-> c, scope |-> s]]
      BY <1>2 DEF Authorize, Decide, IssueCode
    <2>2. f \in Grant /\ Fresh' = Fresh \ {f}
      BY <1>1, <2>1, GrantAssumption DEF Fresh, Unissued
    <2>3. \A g \in Grant, v \in Worker : Claims(v, g)' <=> Claims(v, g)
      BY <1>2 DEF Authorize, Decide, Claims, request
    <2>4. StatusOf(f) = "fresh" /\ StatusOf(f)' = "live"
      BY <2>1, <2>2 DEF StatusOf, Fresh
    <2>5. \A g \in Grant \ {f} : StatusOf(g)' = StatusOf(g)
      BY <2>1, <2>2, <2>3, StatusKept
    <2>6. Stat' = [Stat EXCEPT ![f] = "live"] /\ Stat[f] = "fresh"
      BY <2>2, <2>4, <2>5
    <2>7. Own' = [Own EXCEPT ![f] = c] /\ Has' = [Has EXCEPT ![f] = s]
      BY <1>1, <2>1, <2>2
    <2>8. /\ approved' \in {approved, [approved EXCEPT ![c] = @ \cup s]} /\ used' = used
          /\ c \in Trusted \/ s \subseteq approved'[c]
      BY <1>1, <1>2 DEF Authorize, Decide, history, GInv, ScopeInv
    <2>9. Ledger!Bind(f, c, s)
      BY <2>7 DEF Ledger!Bind
    <2>10. Ledger!Issue(f)
      BY <1>1, <2>6, <2>8, <2>9 DEF Ledger!Issue
    <2> QED BY <2>2, <2>10 DEF Ledger!Next
  <1>3. ASSUME NEW g \in Grant, StatusOf(g) \in {"live", "claimed"}, StatusOf(g)' = "over",
               \A h \in Grant \ {g} : StatusOf(h)' = StatusOf(h), UNCHANGED <<payload, history>>
        PROVE  Ledger!Next
    <2>1. Stat' = [Stat EXCEPT ![g] = "over"] /\ Stat[g] \in {"live", "claimed"}
      BY <1>3
    <2>2. Ledger!Void(g)
      BY <1>3, <2>1 DEF Ledger!Void, history
    <2> QED BY <2>2 DEF Ledger!Next
  <1>4. ASSUME NEW g \in Grant, Expire(g) PROVE Ledger!Next
    <2>1. g \in live /\ live' = live \ {g} /\ UNCHANGED <<payload, history, request>>
      BY <1>4 DEF Expire
    <2>2. \A v \in Worker, h \in Grant : Claims(v, h)' <=> Claims(v, h)
      BY <2>1 DEF Claims, request
    <2>3. g \notin Fresh /\ Fresh' = Fresh /\ \A v \in Worker : ~Claims(v, g)
      BY <2>1 DEF GInv, GrantInv, Fresh
    <2>4. StatusOf(g) = "live" /\ StatusOf(g)' = "over"
      BY <2>1, <2>2, <2>3 DEF StatusOf, Fresh
    <2>5. \A h \in Grant \ {g} : StatusOf(h)' = StatusOf(h)
      BY <2>1, <2>2, <2>3, StatusKept
    <2> QED BY <1>3, <2>1, <2>4, <2>5
  <1>5. ASSUME NEW w \in Worker, Consume(w) PROVE [Ledger!Next]_<<Stat, Own, Has, approved, used>>
    <2>1. PICK g \in Grant : g = presented[w]
      BY <1>1, <1>5 DEF Consume, TypeInv, TypeOK, Shape
    <2>2. live' = live \ {g} /\ stage[w] = "consume" /\ UNCHANGED <<payload, history>>
      BY <1>5, <2>1 DEF Consume
    <2>3. /\ \A v \in Worker, h \in Grant : v # w => (Claims(v, h)' <=> Claims(v, h))
          /\ \A h \in Grant : ~Claims(w, h)
      BY <1>1, <1>5, FinishRequest DEF Consume, Goto, Claims
    <2>4. /\ Finish(w, FALSE) => \A h \in Grant : ~Claims(w, h)'
          /\ ~Finish(w, FALSE) => g \in live /\ Claims(w, g)' /\ \A h \in Grant \ {g} : ~Claims(w, h)'
      BY <1>1, <1>5, <2>1, FinishRequest DEF Consume, Goto, Claims
    <2>5. Fresh' = Fresh /\ \A h \in Grant \ {g} : StatusOf(h)' = StatusOf(h)
      <3>1. Fresh' = Fresh
        BY <2>2 DEF Fresh
      <3>2. \A h \in Grant \ {g} : \A v \in Worker : Claims(v, h)' <=> Claims(v, h)
        BY <2>3, <2>4
      <3> QED BY <2>2, <3>1, <3>2, StatusKept
    <2>6. CASE g \notin live
      <3>1. \A h \in Grant, v \in Worker : Claims(v, h)' <=> Claims(v, h)
        BY <2>3, <2>4, <2>6
      <3> QED BY <2>2, <2>6, <3>1, LedgerAside
    <2>7. CASE g \in live
      <3>1. g \notin Fresh /\ \A v \in Worker : ~Claims(v, g)
        BY <2>7 DEF GInv, GrantInv
      <3>2. StatusOf(g) = "live"
        BY <2>7, <3>1 DEF StatusOf, Fresh
      <3>3. CASE Finish(w, FALSE)
        <4>1. StatusOf(g)' = "over"
          BY <2>2, <2>3, <2>4, <2>5, <3>1, <3>3 DEF StatusOf, Fresh
        <4> QED BY <1>3, <2>2, <2>5, <3>2, <4>1
      <3>4. CASE ~Finish(w, FALSE)
        <4>1. StatusOf(g)' = "claimed"
          BY <2>2, <2>4, <2>5, <3>1, <3>4 DEF StatusOf, Fresh
        <4>2. Stat' = [Stat EXCEPT ![g] = "claimed"] /\ Stat[g] = "live"
          BY <2>5, <3>2, <4>1
        <4>3. Ledger!Claim(g)
          BY <2>2, <4>2 DEF Ledger!Claim, history
        <4> QED BY <4>3 DEF Ledger!Next
      <3> QED BY <3>3, <3>4
    <2> QED BY <2>6, <2>7
  <1>6. ASSUME NEW w \in Worker, Respond(w) PROVE [Ledger!Next]_<<Stat, Own, Has, approved, used>>
    <2>1. /\ \A v \in Worker, h \in Grant : v # w => (Claims(v, h)' <=> Claims(v, h))
          /\ \A h \in Grant : ~Claims(w, h)'
      BY <1>1, <1>6, FinishRequest DEF Respond, Claims
    <2>2. CASE presented[w] = NoGrant
      <3>1. UNCHANGED <<live, payload, used, approved>>
        BY <1>6, <2>2 DEF Respond, TypeInv, TypeOK
      <3>2. \A h \in Grant, v \in Worker : Claims(v, h)' <=> Claims(v, h)
        BY <1>1, <2>1, <2>2 DEF Claims
      <3> QED BY <3>1, <3>2, LedgerAside DEF history
    <2>3. ASSUME NEW g \in Grant, g = presented[w]
          PROVE  Ledger!Next
      <3>1. /\ Claims(w, g) /\ \A h \in Grant \ {g} : ~Claims(w, h)
            /\ g \notin live /\ g \notin Fresh /\ \A v \in Worker \ {w} : ~Claims(v, g)
        BY <1>6, <2>3 DEF Respond, Claims, GInv, GrantInv
      <3>2. StatusOf(g) = "claimed"
        BY <3>1 DEF StatusOf, Fresh
      <3>3. \A v \in Worker : \A h \in Grant \ {g} : Claims(v, h)' <=> Claims(v, h)
        BY <2>1, <3>1
      <3>4. \A v \in Worker : ~Claims(v, g)'
        BY <2>1, <3>1
      <3>5. CASE UNCHANGED <<live, payload>>
        <4>1. Fresh' = Fresh
          BY <3>5 DEF Fresh
        <4>2. StatusOf(g)' = "over"
          BY <3>1, <3>4, <3>5, <4>1 DEF StatusOf, Fresh
        <4>3. \A h \in Grant \ {g} : StatusOf(h)' = StatusOf(h)
          BY <3>3, <3>5, <4>1, StatusKept
        <4>4. CASE used' = used
          BY <1>3, <1>6, <3>2, <3>5, <4>2, <4>3, <4>4 DEF Respond, history
        <4>5. CASE used' = [used EXCEPT ![g] = @ + 1]
          <5>1. Stat' = [Stat EXCEPT ![g] = "over"] /\ Stat[g] = "claimed"
            BY <3>2, <4>2, <4>3
          <5>2. Ledger!Redeem(g)
            BY <1>6, <3>5, <4>5, <5>1 DEF Ledger!Redeem, Respond
          <5> QED BY <5>2 DEF Ledger!Next
        <4> QED BY <1>1, <1>6, <2>3, <4>4, <4>5 DEF Respond
      <3>6. CASE ~UNCHANGED <<live, payload>>
        <4>1. PICK f \in Fresh :
                /\ live' = live \cup {f}
                /\ payload' = [payload EXCEPT ![f] =
                      [kind |-> "refresh", client |-> client[w], scope |-> scope[w]]]
          BY <1>6, <3>6 DEF Respond
        <4>2. used' = [used EXCEPT ![g] = @ + 1] /\ approved' = approved
          BY <1>1, <1>6, <2>3, <3>6 DEF Respond
        <4>3. f \in Grant /\ f # g /\ Fresh' = Fresh \ {f} /\ client[w] # NoClient
          <5>1. client[w] # NoClient
            BY <1>6 DEF Respond, TypeInv, TypeOK
          <5> QED BY <1>1, <3>1, <4>1, <5>1 DEF Fresh, Unissued
        <4>4. client[w] = payload[g].client /\ scope[w] \in SUBSET payload[g].scope
          BY <3>1 DEF ClaimInv
        <4>5. StatusOf(f) = "fresh" /\ StatusOf(f)' = "live" /\ StatusOf(g)' = "over"
          BY <3>1, <3>4, <4>1, <4>3 DEF StatusOf, Fresh
        <4>6. \A h \in Grant \ {f, g} : StatusOf(h)' = StatusOf(h)
          BY <3>3, <4>1, <4>3, StatusKept
        <4>7. /\ Stat' = [[Stat EXCEPT ![g] = "over"] EXCEPT ![f] = "live"]
              /\ Stat[f] = "fresh" /\ Stat[g] = "claimed"
          BY <3>2, <4>3, <4>5, <4>6
        <4>8. /\ Own' = [Own EXCEPT ![f] = Own[g]] /\ Has' = [Has EXCEPT ![f] = scope[w]]
              /\ scope[w] \in SUBSET Has[g]
          BY <1>1, <4>1, <4>3, <4>4
        <4>9. Ledger!Bind(f, Own[g], scope[w])
          BY <4>8 DEF Ledger!Bind
        <4>10. Ledger!Redeem(g)
          BY <4>2, <4>3, <4>7, <4>8, <4>9 DEF Ledger!Redeem
        <4> QED BY <4>10 DEF Ledger!Next
      <3> QED BY <3>5, <3>6
    <2> QED BY <1>1, <2>2, <2>3
  <1>7. ASSUME UNCHANGED <<live, payload, history>>,
               \A g \in Grant, v \in Worker : Claims(v, g)' <=> Claims(v, g)
        PROVE  UNCHANGED <<Stat, Own, Has, approved, used>>
    BY <1>7, LedgerAside
  <1>8. ASSUME NEW w \in Worker, NEW o \in Op, NEW c \in Client, NEW g \in Grant \cup {NoGrant},
               Token(w, o, c, g)
        PROVE  UNCHANGED <<Stat, Own, Has, approved, used>>
    BY <1>1, <1>7, <1>8 DEF Token, Goto, Op, Claims, store, history
  <1>9. ASSUME NEW w \in Worker, Peek(w) PROVE UNCHANGED <<Stat, Own, Has, approved, used>>
    BY <1>1, <1>7, <1>9 DEF Peek, Goto, Claims, store, history
  <1>10. ASSUME NEW w \in Worker, FirstCheck(w)
         PROVE  UNCHANGED <<Stat, Own, Has, approved, used>>
    <2>1. CASE Finish(w, FALSE)
      BY <1>1, <1>7, <1>10, <2>1, FinishRequest DEF FirstCheck, Claims, store, history
    <2>2. CASE ~Finish(w, FALSE)
      <3>1. /\ stage'[w] = "final" => presented[w] = NoGrant
            /\ stage[w] # "final" /\ UNCHANGED <<live, payload, history, presented>>
            /\ \A v \in Worker \ {w} : stage'[v] = stage[v]
        BY <1>1, <1>10, <2>2 DEF FirstCheck, Goto, store, TypeInv, Shape
      <3> QED BY <1>1, <1>7, <3>1 DEF Claims
    <2> QED BY <2>1, <2>2
  <1>11. CASE UNCHANGED <<store, history, request>>
    BY <1>7, <1>11 DEF store, request, Claims
  <1>12. CASE UNCHANGED vars
    BY <1>11, <1>12 DEF vars
  <1> QED
    BY <1>2, <1>4, <1>5, <1>6, <1>8, <1>9, <1>10, <1>11, <1>12 DEF Next, TokenEndpoint

\* The token endpoint implements the ledger of grants.
THEOREM Implements == Spec => ImplementsGrantLedger
  <1>1. Init => Ledger!Init
    BY DEF Init, Ledger!Init, StatusOf, Fresh, Unissued
  <1>2. TypeInv /\ GInv /\ ClaimInv /\ [Next]_vars
        => [Ledger!Next]_<<[g \in Grant |-> StatusOf(g)], [g \in Grant |-> payload[g].client],
                           [g \in Grant |-> payload[g].scope], approved, used>>
    BY LedgerStep
  <1> QED
    BY <1>1, <1>2, TypeInit, TypeStep, GrantInit, GStep, ClaimInit, ClaimStep, PTL
    DEF Spec, GInv, ImplementsGrantLedger, Ledger!Spec

-----------------------------------------------------------------------------
\* What the ledger keeps: a grant is answered only as it ends, and everything issued
\* is within what the user has approved for its client.
LedgerInv ==
    /\ approved \in [Client -> SUBSET Scope]
    /\ used \in [Grant -> {0, 1}]
    /\ \A g \in Grant :
        /\ StatusOf(g) # "over" => used[g] = 0
        /\ StatusOf(g) # "fresh" =>
              /\ payload[g].client \in Client
              /\ payload[g].client \in Trusted
                 \/ payload[g].scope \subseteq approved[payload[g].client]

\* The ledger's own steps, with nothing said of the endpoint's, preserve it.
LEMMA LedgerKeeps ==
    ASSUME LedgerInv,
           [Ledger!Next]_<<[g \in Grant |-> StatusOf(g)], [g \in Grant |-> payload[g].client],
                           [g \in Grant |-> payload[g].scope], approved, used>>
    PROVE  LedgerInv'
  <1> DEFINE Stat == [g \in Grant |-> StatusOf(g)]
             Own == [g \in Grant |-> payload[g].client]
             Has == [g \in Grant |-> payload[g].scope]
  <1>1. \A g \in Grant : Stat[g] = StatusOf(g) /\ Own[g] = payload[g].client
                         /\ Has[g] = payload[g].scope
    OBVIOUS
  <1>2. \A g \in Grant : Stat'[g] = StatusOf(g)' /\ Own'[g] = payload'[g].client
                         /\ Has'[g] = payload'[g].scope
    OBVIOUS
  <1> DEFINE Inv(st, ow, ha, ap, us) ==
               /\ ap \in [Client -> SUBSET Scope]
               /\ us \in [Grant -> {0, 1}]
               /\ \A g \in Grant :
                    /\ st[g] # "over" => us[g] = 0
                    /\ st[g] # "fresh" =>
                          /\ ow[g] \in Client
                          /\ ow[g] \in Trusted \/ ha[g] \subseteq ap[ow[g]]
  <1>3. Inv(Stat, Own, Has, approved, used)
    BY <1>1 DEF LedgerInv
  <1>4. /\ Stat = [g \in Grant |-> Stat[g]] /\ Own = [g \in Grant |-> Own[g]]
        /\ Has = [g \in Grant |-> Has[g]]
    OBVIOUS
  <1>5. ASSUME NEW f \in Grant, Ledger!Issue(f)
        PROVE  Inv(Stat', Own', Has', approved', used')
    <2>1. PICK c \in Client, s \in SUBSET Scope :
          /\ Stat[f] = "fresh" /\ Stat' = [Stat EXCEPT ![f] = "live"]
          /\ Own' = [Own EXCEPT ![f] = c] /\ Has' = [Has EXCEPT ![f] = s] /\ used' = used
          /\ approved' \in {approved, [approved EXCEPT ![c] = @ \cup s]}
          /\ c \in Trusted \/ s \subseteq approved'[c]
      BY <1>5 DEF Ledger!Issue, Ledger!Bind
    <2> HIDE DEF Stat, Own, Has
    <2>2. /\ approved' \in [Client -> SUBSET Scope]
          /\ \A d \in Client : approved[d] \subseteq approved'[d]
      BY <1>3, <2>1
    <2> QED BY <1>3, <1>4, <2>1, <2>2
  <1>6. ASSUME NEW g \in Grant, Ledger!Claim(g) \/ Ledger!Void(g)
        PROVE  Inv(Stat', Own', Has', approved', used')
    <2>1. /\ Stat[g] \in {"live", "claimed"} /\ UNCHANGED <<Own, Has, approved, used>>
          /\ Stat' \in {[Stat EXCEPT ![g] = "claimed"], [Stat EXCEPT ![g] = "over"]}
      BY <1>6 DEF Ledger!Claim, Ledger!Void
    <2> HIDE DEF Stat, Own, Has
    <2> QED BY <1>3, <1>4, <2>1
  <1>7. ASSUME NEW g \in Grant, Ledger!Redeem(g)
        PROVE  Inv(Stat', Own', Has', approved', used')
    <2>1. /\ Stat[g] = "claimed" /\ used' = [used EXCEPT ![g] = @ + 1] /\ approved' = approved
          /\ \/ Stat' = [Stat EXCEPT ![g] = "over"] /\ UNCHANGED <<Own, Has>>
             \/ \E f \in Grant, s \in SUBSET Has[g] :
                   /\ Stat[f] = "fresh"
                   /\ Stat' = [[Stat EXCEPT ![g] = "over"] EXCEPT ![f] = "live"]
                   /\ Own' = [Own EXCEPT ![f] = Own[g]] /\ Has' = [Has EXCEPT ![f] = s]
      BY <1>7 DEF Ledger!Redeem, Ledger!Bind
    <2> HIDE DEF Stat, Own, Has
    <2>2. used[g] = 0 /\ used' \in [Grant -> {0, 1}]
      BY <1>3, <2>1
    <2>3. CASE Stat' = [Stat EXCEPT ![g] = "over"] /\ UNCHANGED <<Own, Has>>
      BY <1>3, <1>4, <2>1, <2>2, <2>3
    <2>4. ASSUME NEW f \in Grant, NEW s \in SUBSET Has[g], Stat[f] = "fresh",
                 Stat' = [[Stat EXCEPT ![g] = "over"] EXCEPT ![f] = "live"],
                 Own' = [Own EXCEPT ![f] = Own[g]], Has' = [Has EXCEPT ![f] = s]
          PROVE  Inv(Stat', Own', Has', approved', used')
      BY <1>3, <1>4, <2>1, <2>2, <2>4
    <2> QED BY <2>1, <2>3, <2>4
  <1>8. Ledger!Next \/ UNCHANGED <<Stat, Own, Has, approved, used>>
    OBVIOUS
  <1>9. Inv(Stat', Own', Has', approved', used')
    <2> HIDE DEF Stat, Own, Has, Inv
    <2>1. CASE UNCHANGED <<Stat, Own, Has, approved, used>>
      BY <1>3, <2>1
    <2>2. CASE Ledger!Next
      BY <1>5, <1>6, <1>7, <2>2 DEF Ledger!Next
    <2> QED BY <1>8, <2>1, <2>2
  <1> QED BY <1>2, <1>9 DEF LedgerInv

\* The ledger alone answers no grant twice and lets no chain of grants outgrow what
\* the user has approved.
THEOREM LedgerSound == ImplementsGrantLedger => []Ledger!Sound
  <1>1. Ledger!Init => LedgerInv
    BY DEF Ledger!Init, LedgerInv
  <1>2. LedgerInv => Ledger!Sound
    BY DEF LedgerInv, Ledger!Sound
  <1> QED BY <1>1, <1>2, LedgerKeeps, PTL DEF ImplementsGrantLedger, Ledger!Spec

\* A code is exchanged once and a refresh token rotated once, however many requests
\* present it at a time: the ledger answers each grant once.
THEOREM Once == Spec => []GrantedOnce
  <1>1. Ledger!Sound => GrantedOnce
    BY DEF Ledger!Sound, GrantedOnce
  <1> QED BY <1>1, Implements, LedgerSound, PTL

\* No chain of codes and rotations comes by a scope that was not approved: the ledger
\* issues within what is approved, and hands on within what it has issued.
THEOREM Approved == Spec => []ScopesApproved
  <1>1. TypeInv /\ GInv /\ Ledger!Sound => ScopesApproved
    BY DEF TypeInv, TypeOK, GInv, GrantInv, StatusOf, Fresh, Ledger!Sound, ScopesApproved
  <1> QED
    BY <1>1, Implements, LedgerSound, TypeInit, TypeStep, GrantInit, GStep, PTL DEF Spec, GInv
=============================================================================
