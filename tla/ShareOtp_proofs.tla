--------------------------- MODULE ShareOtp_proofs ---------------------------
(***************************************************************************)
(* Proofs about ShareOtp, for any number of overlapping requests, any      *)
(* limits, windows and weight.                                             *)
(***************************************************************************)
EXTENDS ShareOtp, TLAPS

\* One request at most owes a counter its expiry: the one whose INCR found none.
OneDue == \A v, w \in due : stage[v] = stage[w] => v = w

\* A counter that is not there has no expiry.
NoKeyNoExpiry == \A b \in Bucket : count[b] = 0 => ttl[b] = 0

TypeInv == TypeOK /\ OneDue /\ NoKeyNoExpiry

LEMMA TypeInit == Init => TypeInv
  BY ConstantsAssumption DEF Init, TypeInv, TypeOK, OneDue, NoKeyNoExpiry, Bucket, Code, None, Stage

\* What a request that ends leaves behind.
LEMMA FinishKeeps ==
    ASSUME TypeInv, NEW w \in Worker, Finish(w)
    PROVE  /\ stage' \in [Worker -> Stage] /\ stage'[w] = "idle"
           /\ carried' \in [Worker -> Code \cup {None}] /\ left' \in [Worker -> 0 .. Weight]
           /\ left'[w] = 0 /\ due' \subseteq due /\ w \notin due'
           /\ \A v \in Worker \ {w} : /\ stage'[v] = stage[v] /\ carried'[v] = carried[v]
                                      /\ left'[v] = left[v]
  BY ConstantsAssumption DEF TypeInv, NoKeyNoExpiry, TypeOK, Finish, Go, Stage

\* The answer of rate_ok: the request goes on or ends, and owes no expiry.
LEMMA DecideKeeps ==
    ASSUME TypeInv, NEW w \in Worker, NEW b \in Bucket, NEW ok \in BOOLEAN,
           stage[w] = b, Decide(w, b, ok)
    PROVE  /\ stage' \in [Worker -> Stage] /\ carried' \in [Worker -> Code \cup {None}]
           /\ left' \in [Worker -> 0 .. Weight] /\ due' = due \ {w}
           /\ left'[w] > 0 <=> stage'[w] = "attempt"
           /\ stage'[w] \in {"idle", "issue", "compare", "attempt"}
           /\ \A v \in Worker \ {w} : /\ stage'[v] = stage[v] /\ carried'[v] = carried[v]
                                      /\ left'[v] = left[v]
  <1>1. left[w] \in 0 .. Weight /\ (left[w] > 0 <=> b = "attempt")
    BY DEF TypeInv, NoKeyNoExpiry, TypeOK
  <1>2. CASE left[w] > 1
    <2>1. /\ left' = [left EXCEPT ![w] = @ - 1] /\ due' = due \ {w}
          /\ UNCHANGED <<stage, carried>>
      BY <1>1, <1>2 DEF Decide
    <2> QED BY <1>1, <1>2, <2>1, ConstantsAssumption DEF TypeInv, NoKeyNoExpiry, TypeOK, Bucket
  <1>3. CASE left[w] <= 1 /\ ok
    <2>1. /\ stage' = [stage EXCEPT ![w] = IF b = "send" THEN "issue" ELSE "compare"]
          /\ left' = [left EXCEPT ![w] = 0] /\ due' = due \ {w} /\ carried' = carried
      BY <1>1, <1>3 DEF Decide, Go
    <2> QED BY <2>1, ConstantsAssumption DEF TypeInv, NoKeyNoExpiry, TypeOK, Stage
  <1>4. CASE left[w] <= 1 /\ ~ok
    <2>1. Finish(w) /\ due' = due \ {w}
      BY <1>1, <1>4 DEF Decide, Finish
    <2> QED BY <2>1, FinishKeeps
  <1> QED BY <1>1, <1>2, <1>3, <1>4

LEMMA TypeStep == TypeInv /\ [Next]_vars => TypeInv'
  <1> SUFFICES ASSUME TypeInv, [Next]_vars PROVE TypeInv'
    OBVIOUS
  <1> USE ConstantsAssumption
  <1>1. TypeOK /\ OneDue /\ NoKeyNoExpiry
    BY DEF TypeInv
  <1>2. None \notin Code /\ Code \subseteq Nat
    BY DEF None, Code
  <1>3. ASSUME NEW w \in Worker, Challenge(w) PROVE TypeInv'
    <2>1. /\ stage[w] = "idle" /\ stage' = [stage EXCEPT ![w] = "send"]
          /\ UNCHANGED <<redis, admitted, codes, carried, left, due>>
      BY <1>3 DEF Challenge, Go
    <2>2. w \notin due /\ left[w] = 0
      BY <1>1, <2>1 DEF TypeOK, Bucket
    <2> QED BY <1>1, <2>1, <2>2 DEF TypeInv, NoKeyNoExpiry, TypeOK, OneDue, redis, codes, Stage
  <1>4. ASSUME NEW w \in Worker, NEW c \in Code \cup {None}, Verify(w, c) PROVE TypeInv'
    <2>1. /\ stage[w] = "idle" /\ stage' = [stage EXCEPT ![w] = "attempt"]
          /\ carried' = [carried EXCEPT ![w] = c]
          /\ left' = [left EXCEPT ![w] = 1] \/ left' = [left EXCEPT ![w] = Weight]
          /\ UNCHANGED <<redis, admitted, codes, due>>
      BY <1>4 DEF Verify, Go
    <2>2. w \notin due
      BY <1>1, <2>1 DEF TypeOK, Bucket
    <2>3. /\ left' \in [Worker -> 0 .. Weight] /\ left'[w] > 0
          /\ \A v \in Worker \ {w} : left'[v] = left[v]
      BY <1>1, <2>1 DEF TypeOK
    <2> QED BY <1>1, <2>1, <2>2, <2>3 DEF TypeInv, NoKeyNoExpiry, TypeOK, OneDue, redis, codes, Stage
  <1>5. ASSUME NEW w \in Worker, NEW b \in Bucket, Incr(w, b) PROVE TypeInv'
    <2>1. /\ stage[w] = b /\ w \notin due
          /\ count' = [count EXCEPT ![b] = IF @ > Limit[b] THEN @ ELSE @ + 1]
          /\ admitted' = IF Admits(w, b) THEN admitted + 1 ELSE admitted
          /\ UNCHANGED <<ttl, stored, life, codes>>
      BY <1>5 DEF Incr
    <2>2. /\ count' \in [Bucket -> Nat] /\ \A d \in Bucket : count'[d] <= Limit[d] + 1
          /\ count'[b] > 0 /\ \A d \in Bucket : count'[d] >= count[d]
          /\ admitted' \in Nat
      BY <1>1, <2>1 DEF TypeOK
    <2>3. CASE count[b] = 0 /\ due' = due \cup {w} /\ UNCHANGED <<stage, carried, left>>
      <3>1. ttl[b] = 0
        BY <1>1, <2>3 DEF NoKeyNoExpiry
      <3>2. \A v \in due : stage[v] # b
        BY <1>1, <2>3 DEF TypeOK
      <3>3. OneDue'
        BY <1>1, <2>1, <2>3, <3>2 DEF OneDue
      <3>4. \A v \in due' : stage'[v] \in Bucket /\ count'[stage'[v]] > 0 /\ ttl'[stage'[v]] = 0
        BY <1>1, <2>1, <2>2, <2>3, <3>1 DEF TypeOK
      <3> QED BY <1>1, <2>1, <2>2, <2>3, <3>3, <3>4 DEF TypeInv, NoKeyNoExpiry, TypeOK, codes
    <2>4. CASE count[b] > 0 /\ Decide(w, b, count[b] < Limit[b])
      <3>1. /\ stage' \in [Worker -> Stage] /\ carried' \in [Worker -> Code \cup {None}]
            /\ left' \in [Worker -> 0 .. Weight] /\ due' = due
            /\ left'[w] > 0 <=> stage'[w] = "attempt"
            /\ stage'[w] \in {"idle", "issue", "compare", "attempt"}
            /\ \A v \in Worker \ {w} : /\ stage'[v] = stage[v] /\ carried'[v] = carried[v]
                                       /\ left'[v] = left[v]
        <4>1. due \ {w} = due
          BY <2>1
        <4>2. Decide(w, b, TRUE) \/ Decide(w, b, FALSE)
          BY <2>4 DEF Decide
        <4> QED BY <2>1, <4>1, <4>2, DecideKeeps
      <3>2. \A v \in due' : /\ v \in Worker \ {w}
                            /\ stage'[v] \in Bucket /\ count'[stage'[v]] > 0 /\ ttl'[stage'[v]] = 0
        BY <1>1, <2>1, <2>2, <3>1 DEF TypeOK
      <3>3. OneDue'
        BY <1>1, <3>1, <3>2 DEF OneDue
      <3> QED BY <1>1, <2>1, <2>2, <3>1, <3>2, <3>3 DEF TypeInv, NoKeyNoExpiry, TypeOK, codes
    <2> QED BY <1>5, <2>3, <2>4 DEF Incr
  <1>6. ASSUME NEW w \in Worker, NEW b \in Bucket, SetExpiry(w, b) PROVE TypeInv'
    <2>1. /\ stage[w] = b /\ w \in due /\ ttl' = [ttl EXCEPT ![b] = Window[b]]
          /\ Decide(w, b, TRUE)
          /\ UNCHANGED <<count, stored, life, admitted, codes>>
      BY <1>6 DEF SetExpiry
    <2>2. /\ stage' \in [Worker -> Stage] /\ carried' \in [Worker -> Code \cup {None}]
          /\ left' \in [Worker -> 0 .. Weight] /\ due' = due \ {w}
          /\ left'[w] > 0 <=> stage'[w] = "attempt"
          /\ stage'[w] \in {"idle", "issue", "compare", "attempt"}
          /\ \A v \in Worker \ {w} : /\ stage'[v] = stage[v] /\ carried'[v] = carried[v]
                                     /\ left'[v] = left[v]
      BY <2>1, DecideKeeps
    <2>3. /\ ttl' \in [Bucket -> Nat] /\ \A d \in Bucket : ttl'[d] <= Window[d]
          /\ \A d \in Bucket \ {b} : ttl'[d] = ttl[d]
      BY <1>1, <2>1 DEF TypeOK
    <2>4. \A v \in due' : /\ v \in due /\ v \in Worker \ {w} /\ stage[v] # b
      BY <1>1, <2>1, <2>2 DEF OneDue, TypeOK
    <2>5. \A v \in due' : stage'[v] \in Bucket /\ count'[stage'[v]] > 0 /\ ttl'[stage'[v]] = 0
      BY <1>1, <2>1, <2>2, <2>3, <2>4 DEF TypeOK
    <2>6. OneDue'
      BY <1>1, <2>2, <2>4 DEF OneDue
    <2> QED BY <1>1, <2>1, <2>2, <2>3, <2>5, <2>6 DEF TypeInv, NoKeyNoExpiry, TypeOK, codes
  <1>7. ASSUME NEW w \in Worker, Issue(w) PROVE TypeInv'
    <2> DEFINE c == drawn + 1
    <2>1. /\ stage[w] = "issue" /\ c \in Code /\ stored' = c /\ life' = CodeLife /\ drawn' = c
          /\ carried' = [carried EXCEPT ![w] = c] /\ stage' = [stage EXCEPT ![w] = "mail"]
          /\ excused' = excused \cup Crossing(c)
          /\ UNCHANGED <<count, ttl, left, due, admitted, newest>>
      BY <1>7 DEF Issue, Store, Go
    <2>2. Crossing(c) \subseteq Code
      BY <1>1, <2>1 DEF Crossing, Unmailed, TypeOK
    <2>3. w \notin due /\ left[w] = 0
      BY <1>1, <2>1 DEF TypeOK, Bucket
    <2>4. c \in 0 .. Codes /\ c # None
      BY <1>2, <2>1 DEF Code
    <2>5. OneDue'
      BY <1>1, <2>1, <2>3 DEF OneDue
    <2>6. /\ carried' \in [Worker -> Code \cup {None}] /\ stage' \in [Worker -> Stage]
          /\ carried'[w] = c /\ stage'[w] = "mail"
          /\ \A v \in Worker \ {w} : carried'[v] = carried[v] /\ stage'[v] = stage[v]
      BY <1>1, <2>1 DEF TypeOK, Stage
    <2> HIDE DEF c
    <2> QED BY <1>1, <2>1, <2>2, <2>3, <2>4, <2>5, <2>6 DEF TypeInv, NoKeyNoExpiry, TypeOK
  <1>8. ASSUME NEW w \in Worker, Finish(w), stored' = stored, life' = life,
               UNCHANGED <<count, ttl, admitted, drawn, excused>>,
               newest' \in Code \cup {None}
        PROVE  TypeInv'
    <2>1. /\ stage' \in [Worker -> Stage] /\ stage'[w] = "idle"
          /\ carried' \in [Worker -> Code \cup {None}] /\ left' \in [Worker -> 0 .. Weight]
          /\ left'[w] = 0 /\ due' \subseteq due /\ w \notin due'
          /\ \A v \in Worker \ {w} : /\ stage'[v] = stage[v] /\ carried'[v] = carried[v]
                                     /\ left'[v] = left[v]
      BY <1>8, FinishKeeps
    <2>2. OneDue'
      BY <1>1, <2>1 DEF OneDue, TypeOK
    <2> QED BY <1>1, <1>8, <2>1, <2>2 DEF TypeInv, NoKeyNoExpiry, TypeOK
  <1>9. ASSUME NEW w \in Worker, LinkCapped(w) \/ Mail(w) \/ MintToken(w) \/ Fail(w)
        PROVE  TypeInv'
    <2>1. /\ Finish(w) /\ stored' = stored /\ life' = life
          /\ UNCHANGED <<count, ttl, admitted, drawn, excused>>
      BY <1>9 DEF LinkCapped, Mail, MintToken, Fail, redis, codes
    <2>2. newest' \in Code \cup {None}
      BY <1>1, <1>9 DEF LinkCapped, Mail, MintToken, Fail, codes, TypeOK
    <2> QED BY <1>8, <2>1, <2>2
  <1>10. ASSUME NEW w \in Worker, Compare(w) PROVE TypeInv'
    <2>1. CASE Finish(w)
      <3>1. /\ stored' = stored /\ life' = life /\ newest' = newest
            /\ UNCHANGED <<count, ttl, admitted, drawn, excused>>
        BY <1>10 DEF Compare, redis, codes
      <3> QED BY <1>1, <1>8, <2>1, <3>1 DEF TypeOK
    <2>2. CASE ~Finish(w)
      <3>1. /\ carried[w] # None /\ stage[w] = "compare"
            /\ stage' = [stage EXCEPT ![w] = "burn"]
            /\ UNCHANGED <<redis, admitted, codes, carried, left, due>>
        BY <1>10, <2>2 DEF Compare, Go
      <3>2. w \notin due /\ left[w] = 0
        BY <1>1, <3>1 DEF TypeOK, Bucket
      <3> QED BY <1>1, <3>1, <3>2 DEF TypeInv, NoKeyNoExpiry, TypeOK, OneDue, redis, codes, Stage
    <2> QED BY <2>1, <2>2
  <1>11. ASSUME NEW w \in Worker, Burn(w) PROVE TypeInv'
    <2>1. /\ stage[w] = "burn" /\ stage' = [stage EXCEPT ![w] = "token"]
          /\ stored' = None /\ life' = 0 /\ excused' = excused \cup {carried[w]}
          /\ UNCHANGED <<count, ttl, carried, left, due, admitted, drawn, newest>>
      BY <1>11 DEF Burn, Go
    <2>2. w \notin due /\ left[w] = 0 /\ carried[w] # None
      BY <1>1, <2>1 DEF TypeOK, Bucket
    <2>3. excused' \in SUBSET Code
      BY <1>1, <2>1, <2>2 DEF TypeOK
    <2> QED BY <1>1, <2>1, <2>2, <2>3 DEF TypeInv, NoKeyNoExpiry, TypeOK, OneDue, Stage
  <1>12. CASE Tick
    <2>1. /\ count' = [b \in Bucket |-> IF ttl[b] = 1 THEN 0 ELSE count[b]]
          /\ ttl' = [b \in Bucket |-> IF ttl[b] = 0 THEN 0 ELSE ttl[b] - 1]
          /\ admitted' = IF ttl["attempt"] = 1 THEN 0 ELSE admitted
          /\ life' = IF life = 0 THEN 0 ELSE life - 1
          /\ stored' = IF life = 1 THEN None ELSE stored
          /\ excused' = IF life = 1 THEN excused \cup {stored} ELSE excused
          /\ UNCHANGED <<stage, carried, left, due, drawn, newest>>
      BY <1>12 DEF Tick, request
    <2>2. /\ count' \in [Bucket -> Nat] /\ ttl' \in [Bucket -> Nat]
          /\ \A b \in Bucket : count'[b] <= Limit[b] + 1 /\ ttl'[b] <= Window[b]
          /\ \A b \in Bucket : ttl[b] = 0 => count'[b] = count[b] /\ ttl'[b] = 0
      BY <1>1, <2>1 DEF TypeOK
    <2>3. stored' \in Code \cup {None} /\ life' \in 0 .. CodeLife /\ (stored' = None <=> life' = 0)
      BY <1>1, <2>1 DEF TypeOK
    <2>4. excused' \in SUBSET Code
      BY <1>1, <2>1 DEF TypeOK
    <2>5. \A v \in due' : stage'[v] \in Bucket /\ count'[stage'[v]] > 0 /\ ttl'[stage'[v]] = 0
      BY <1>1, <2>1, <2>2 DEF TypeOK
    <2> QED BY <1>1, <2>1, <2>2, <2>3, <2>4, <2>5 DEF TypeInv, NoKeyNoExpiry, TypeOK, OneDue
  <1>13. CASE UNCHANGED vars
    BY <1>1, <1>13 DEF vars, redis, request, codes, TypeInv, NoKeyNoExpiry, TypeOK, OneDue
  <1> QED
    BY <1>3, <1>4, <1>5, <1>6, <1>7, <1>9, <1>10, <1>11, <1>12, <1>13 DEF Next, Step

\* The variables keep their types, and a request that owes an expiry has a counter.
THEOREM TypeCorrect == Spec => []TypeOK
  <1>1. TypeInv => TypeOK
    BY DEF TypeInv
  <1> QED BY <1>1, TypeInit, TypeStep, PTL DEF Spec

-----------------------------------------------------------------------------
\* Only a submission's INCR below the limit raises what is spent or admitted, and only
\* the end of the window, which takes both, lowers either.
THEOREM Implements == Spec => ImplementsBudget
  <1> DEFINE bar == IF count["attempt"] > Limit["attempt"] THEN Limit["attempt"]
                    ELSE count["attempt"]
  <1>1. Init => Budget!Init
    BY ConstantsAssumption DEF Init, Budget!Init, Bucket
  <1>2. ASSUME TypeInv, [Next]_vars PROVE [Budget!Next]_<<bar, admitted>>
    <2>1. /\ "attempt" \in Bucket /\ Limit["attempt"] \in Nat \ {0}
          /\ count \in [Bucket -> Nat] /\ ttl \in [Bucket -> Nat] /\ admitted \in Nat
      BY <1>2, ConstantsAssumption DEF TypeInv, TypeOK, Bucket
    <2>2. CASE UNCHANGED <<count, admitted>>
      BY <2>2
    <2>3. ASSUME NEW w \in Worker, NEW b \in Bucket, Incr(w, b)
          PROVE  [Budget!Next]_<<bar, admitted>>
      <3>1. /\ count' = [count EXCEPT ![b] = IF @ > Limit[b] THEN @ ELSE @ + 1]
            /\ admitted' = IF Admits(w, b) THEN admitted + 1 ELSE admitted
        BY <2>3 DEF Incr
      <3>2. CASE b # "attempt"
        BY <2>1, <3>1, <3>2 DEF Admits
      <3>3. CASE b = "attempt" /\ count[b] < Limit[b]
        <4>1. bar < Limit["attempt"] /\ bar' = bar + 1 /\ admitted' \in {admitted, admitted + 1}
          BY <2>1, <3>1, <3>3
        <4> QED BY <4>1 DEF Budget!Next, Budget!Charge
      <3>4. CASE b = "attempt" /\ ~(count[b] < Limit[b])
        <4>1. bar' = bar /\ admitted' = admitted
          BY <2>1, <3>1, <3>4 DEF Admits
        <4> QED BY <4>1
      <3> QED BY <3>2, <3>3, <3>4
    <2>4. CASE Tick
      <3>1. /\ count' = [b \in Bucket |-> IF ttl[b] = 1 THEN 0 ELSE count[b]]
            /\ admitted' = IF ttl["attempt"] = 1 THEN 0 ELSE admitted
        BY <2>4 DEF Tick
      <3>2. CASE ttl["attempt"] = 1
        <4>1. bar' = 0 /\ admitted' = 0
          BY <2>1, <3>1, <3>2
        <4> QED BY <4>1 DEF Budget!Next, Budget!EndWindow
      <3>3. CASE ttl["attempt"] # 1
        <4>1. bar' = bar /\ admitted' = admitted
          BY <2>1, <3>1, <3>3
        <4> QED BY <4>1
      <3> QED BY <3>2, <3>3
    <2>5. ASSUME NEW w \in Worker, NEW b \in Bucket, SetExpiry(w, b)
          PROVE  UNCHANGED <<count, admitted>>
      BY <2>5 DEF SetExpiry
    <2>6. ASSUME NEW w \in Worker,
                 \/ Challenge(w) \/ LinkCapped(w) \/ Issue(w) \/ Mail(w) \/ Compare(w)
                 \/ Burn(w) \/ MintToken(w) \/ Fail(w)
                 \/ \E c \in Code \cup {None} : Verify(w, c)
          PROVE  UNCHANGED <<count, admitted>>
      BY <2>6 DEF Challenge, LinkCapped, Issue, Mail, Compare, Burn, MintToken, Fail, Verify, redis
    <2>7. CASE UNCHANGED vars
      BY <2>7 DEF vars, redis
    <2> QED BY <1>2, <2>2, <2>3, <2>4, <2>5, <2>6, <2>7 DEF Next, Step
  <1> QED BY <1>1, <1>2, TypeInit, TypeStep, PTL DEF Spec, ImplementsBudget, Budget!Spec

\* Within a window no more submissions are admitted to the compare than the limit allows,
\* because the budget admits none that it has not charged.  One admitted just before the
\* end of a window may be compared in the next.
THEOREM WithinBudget == Spec => [](admitted <= Limit["attempt"])
  <1> DEFINE bar == IF count["attempt"] > Limit["attempt"] THEN Limit["attempt"]
                    ELSE count["attempt"]
             Kept == bar \in Nat /\ admitted \in Nat /\ Budget!Sound
  <1>1. Budget!Init => Kept
    BY ConstantsAssumption DEF Budget!Init, Budget!Sound, Bucket
  <1>2. Kept /\ [Budget!Next]_<<bar, admitted>> => Kept'
    <2> SUFFICES ASSUME Kept, [Budget!Next]_<<bar, admitted>> PROVE Kept'
      OBVIOUS
    <2>1. Limit["attempt"] \in Nat
      BY ConstantsAssumption DEF Bucket
    <2>2. CASE Budget!Charge
      BY <2>1, <2>2 DEF Budget!Charge, Budget!Sound
    <2>3. CASE Budget!EndWindow
      BY <2>1, <2>3 DEF Budget!EndWindow, Budget!Sound
    <2>4. CASE UNCHANGED <<bar, admitted>>
      BY <2>4 DEF Budget!Sound
    <2> QED BY <2>2, <2>3, <2>4 DEF Budget!Next
  <1>3. Kept => admitted <= Limit["attempt"]
    BY ConstantsAssumption DEF Budget!Sound, Bucket
  <1> QED BY <1>1, <1>2, <1>3, Implements, PTL DEF ImplementsBudget, Budget!Spec

-----------------------------------------------------------------------------
\* Why the newest code works: nothing takes a code out of the store but its use, its
\* expiry, and calls that cross, and each of these excuses it.
Live(c) == c = stored \/ c \in excused

CodeInv ==
    /\ TypeInv
    /\ stored <= drawn /\ newest <= drawn /\ \A w \in Worker : carried[w] <= drawn
    /\ \A w \in Unmailed : Live(carried[w])
    /\ Unmailed = {} /\ newest # None => Live(newest)
    /\ \A w \in Burning : stored \in {None, carried[w]} \cup excused
    /\ \A w \in Worker : stage[w] = "token" => stored # carried[w]

\* A step that stores and deletes no code, and after which no request is at a mail, a
\* DELETE or a token that was not there before.
LEMMA CodeIdle ==
    ASSUME CodeInv, TypeInv', UNCHANGED <<stored, drawn, excused>>, newest' = newest,
           \A v \in Worker : carried'[v] <= drawn,
           Unmailed' = Unmailed, \A v \in Unmailed : carried'[v] = carried[v],
           \A v \in Burning' : v \in Burning /\ carried'[v] = carried[v],
           \A v \in Worker : stage'[v] = "token" => stage[v] = "token" /\ carried'[v] = carried[v]
    PROVE  CodeInv'
  BY DEF CodeInv, Live

\* The same of a request that ends; if it was at its mail, no mail vouches for a code.
LEMMA CodeFinish ==
    ASSUME CodeInv, TypeInv', NEW w \in Worker, Finish(w), UNCHANGED <<stored, drawn, excused>>,
           newest' \in Nat,
           \/ newest' = newest /\ w \notin Unmailed
           \/ newest' = None
           \/ newest' = carried[w] /\ w \in Unmailed
    PROVE  CodeInv'
  <1>1. /\ TypeInv /\ stage'[w] = "idle" /\ carried'[w] \in {carried[w], None}
        /\ \A v \in Worker \ {w} : stage'[v] = stage[v] /\ carried'[v] = carried[v]
    BY DEF CodeInv, TypeInv, TypeOK, Finish, Go
  <1>2. Unmailed' = Unmailed \ {w} /\ Burning' = Burning \ {w}
    BY <1>1 DEF Unmailed, Burning
  <1>3. None <= drawn /\ \A v \in Worker : carried'[v] <= drawn'
    BY <1>1 DEF CodeInv, TypeInv, TypeOK, None
  <1>4. stored' <= drawn' /\ newest' <= drawn'
    BY <1>3 DEF CodeInv
  <1>5. \A v \in Unmailed' : Live(carried[v])' /\ carried'[v] = carried[v]
    BY <1>1, <1>2 DEF CodeInv, Live, Unmailed
  <1>6. Unmailed' = {} /\ newest' # None => Live(newest)'
    BY <1>2 DEF CodeInv, Live
  <1>7. \A v \in Burning' : stored' \in {None, carried'[v]} \cup excused'
    BY <1>1, <1>2 DEF CodeInv, Burning
  <1>8. \A v \in Worker : stage'[v] = "token" => stored' # carried'[v]
    BY <1>1 DEF CodeInv
  <1> QED BY <1>3, <1>4, <1>5, <1>6, <1>7, <1>8 DEF CodeInv, Live

LEMMA CodeStep == CodeInv /\ [Next]_vars => CodeInv'
  <1> SUFFICES ASSUME CodeInv, [Next]_vars PROVE CodeInv'
    OBVIOUS
  <1>1. TypeInv /\ TypeInv' /\ TypeOK
    BY TypeStep DEF CodeInv, TypeInv
  <1>2. /\ Code \subseteq Nat /\ None \in Nat /\ None \notin Code /\ drawn \in Nat
        /\ None <= drawn
    BY <1>1, ConstantsAssumption DEF Code, None, TypeOK
  <1>3. ASSUME NEW w \in Worker, Challenge(w) \/ (\E c \in Code \cup {None} : Verify(w, c))
        PROVE  CodeInv'
    <2>1. /\ UNCHANGED <<stored, drawn, excused>> /\ newest' = newest /\ stage[w] = "idle"
          /\ stage'[w] \in {"send", "attempt"}
          /\ \A v \in Worker \ {w} : stage'[v] = stage[v] /\ carried'[v] = carried[v]
          /\ carried'[w] <= drawn
      BY <1>1, <1>3 DEF Challenge, Verify, Go, redis, codes, TypeOK, CodeInv
    <2>2. /\ Unmailed' = Unmailed /\ \A v \in Unmailed : carried'[v] = carried[v]
          /\ \A v \in Burning' : v \in Burning /\ carried'[v] = carried[v]
      BY <2>1 DEF Unmailed, Burning
    <2>3. \A v \in Worker : carried'[v] <= drawn
      BY <2>1 DEF CodeInv
    <2> QED BY <1>1, <2>1, <2>2, <2>3, CodeIdle
  <1>4. ASSUME NEW w \in Worker, NEW b \in Bucket, Incr(w, b) \/ SetExpiry(w, b)
        PROVE  CodeInv'
    <2>1. UNCHANGED <<stored, drawn, excused>> /\ newest' = newest /\ stage[w] = b
      BY <1>4 DEF Incr, SetExpiry, codes
    <2>2. CASE UNCHANGED <<stage, carried>>
      BY <1>1, <2>1, <2>2, CodeIdle DEF Unmailed, Burning, CodeInv
    <2>3. CASE Finish(w)
      <3>1. w \notin Unmailed /\ newest' \in Nat
        BY <1>1, <1>2, <2>1 DEF Unmailed, Bucket, TypeOK
      <3> QED BY <1>1, <2>1, <2>3, <3>1, CodeFinish
    <2>4. CASE ~Finish(w) /\ ~UNCHANGED <<stage, carried>>
      <3>1. /\ carried' = carried /\ stage'[w] \in {"issue", "compare"}
            /\ \A v \in Worker \ {w} : stage'[v] = stage[v]
        BY <1>1, <1>4, <2>4 DEF Incr, SetExpiry, Decide, Go, TypeOK
      <3>2. Unmailed' = Unmailed /\ Burning' = Burning
        BY <2>1, <3>1 DEF Unmailed, Burning, Bucket
      <3> QED BY <1>1, <2>1, <3>1, <3>2, CodeIdle DEF CodeInv
    <2> QED BY <2>2, <2>3, <2>4
  <1>5. ASSUME NEW w \in Worker, LinkCapped(w) \/ Mail(w) \/ MintToken(w) \/ Fail(w)
        PROVE  CodeInv'
    <2>1. Finish(w) /\ UNCHANGED <<stored, drawn, excused>>
      BY <1>5 DEF LinkCapped, Mail, MintToken, Fail, redis, codes
    <2>2. /\ newest' \in Nat
          /\ \/ newest' = newest /\ w \notin Unmailed
             \/ newest' = None
             \/ newest' = carried[w] /\ w \in Unmailed
      BY <1>1, <1>2, <1>5 DEF LinkCapped, Mail, MintToken, Fail, codes, Unmailed, TypeOK
    <2> QED BY <1>1, <2>1, <2>2, CodeFinish
  <1>6. ASSUME NEW w \in Worker, Issue(w) PROVE CodeInv'
    <2>1. PICK c \in Code :
            /\ c = drawn + 1 /\ stage[w] = "issue" /\ stored' = c /\ drawn' = c
            /\ carried' = [carried EXCEPT ![w] = c] /\ stage' = [stage EXCEPT ![w] = "mail"]
            /\ excused' = excused \cup Crossing(c) /\ newest' = newest
      BY <1>6 DEF Issue, Store, Go
    <2>2. /\ carried'[w] = c /\ stage'[w] = "mail"
          /\ \A v \in Worker \ {w} : carried'[v] = carried[v] /\ stage'[v] = stage[v]
      BY <1>1, <2>1 DEF TypeOK
    <2>3. Unmailed' = Unmailed \cup {w} /\ Burning' = Burning /\ w \notin Unmailed \cup Burning
      BY <2>1, <2>2 DEF Unmailed, Burning
    <2>4. \A v \in Unmailed : carried'[v] = carried[v] /\ carried[v] \in excused'
      BY <2>1, <2>2, <2>3 DEF Crossing, Unmailed
    <2>5. \A v \in Burning' : c \in excused'
      BY <2>1, <2>3 DEF Crossing
    <2>6. \A v \in Worker : carried[v] \in Nat /\ carried[v] <= drawn /\ carried[v] # c
      <3>1. \A v \in Worker : carried[v] \in Code \cup {None} /\ carried[v] <= drawn
        BY <1>1 DEF CodeInv, TypeOK
      <3>2. ASSUME NEW n \in Nat, n <= drawn PROVE n # drawn + 1
        BY <1>2, <3>2
      <3> QED BY <1>2, <2>1, <3>1, <3>2
    <2>7. stored' <= drawn' /\ newest' <= drawn' /\ \A v \in Worker : carried'[v] <= drawn'
      <3>1. newest \in Nat
        BY <1>1, <1>2 DEF TypeOK
      <3> QED BY <1>2, <2>1, <2>2, <2>6, <3>1 DEF CodeInv
    <2>8. \A v \in Worker : stage'[v] = "token" => stored' # carried'[v]
      BY <2>1, <2>2, <2>6
    <2>9. \A v \in Unmailed' : Live(carried[v])'
      BY <2>1, <2>2, <2>3, <2>4 DEF Live
    <2> QED BY <1>1, <2>1, <2>3, <2>5, <2>7, <2>8, <2>9 DEF CodeInv
  <1>7. ASSUME NEW w \in Worker, Compare(w) PROVE CodeInv'
    <2>1. UNCHANGED <<stored, drawn, excused>> /\ newest' = newest /\ stage[w] = "compare"
      BY <1>7 DEF Compare, redis, codes
    <2>2. CASE Finish(w)
      <3>1. w \notin Unmailed /\ newest' \in Nat
        BY <1>1, <1>2, <2>1 DEF Unmailed, TypeOK
      <3> QED BY <1>1, <2>1, <2>2, <3>1, CodeFinish
    <2>3. CASE ~Finish(w)
      <3>1. /\ carried[w] = stored /\ carried' = carried /\ stage'[w] = "burn"
            /\ \A v \in Worker \ {w} : stage'[v] = stage[v]
        BY <1>1, <1>7, <2>3 DEF Compare, Go, TypeOK
      <3>2. Unmailed' = Unmailed /\ Burning' = Burning \cup {w}
        BY <2>1, <3>1 DEF Unmailed, Burning
      <3> QED BY <1>1, <2>1, <3>1, <3>2 DEF CodeInv, Live
    <2> QED BY <2>2, <2>3
  <1>8. ASSUME NEW w \in Worker, Burn(w) PROVE CodeInv'
    <2>1. /\ stage[w] = "burn" /\ stored' = None /\ excused' = excused \cup {carried[w]}
          /\ carried' = carried /\ drawn' = drawn /\ newest' = newest /\ stage'[w] = "token"
          /\ \A v \in Worker \ {w} : stage'[v] = stage[v]
      BY <1>1, <1>8 DEF Burn, Go, TypeOK
    <2>2. w \in Burning /\ Unmailed' = Unmailed
      BY <2>1 DEF Unmailed, Burning
    <2>3. stored = None \/ stored \in excused'
      BY <2>1, <2>2 DEF CodeInv
    <2>4. \A v \in Worker : v \in Unmailed => carried[v] # None
      BY <1>1 DEF Unmailed, TypeOK
    <2>5. \A v \in Worker : stage'[v] = "token" => carried[v] # None
      BY <1>1, <2>1 DEF TypeOK
    <2>6. \A v \in Unmailed' : Live(carried[v])'
      BY <2>1, <2>2, <2>3, <2>4 DEF CodeInv, Live, Unmailed
    <2>7. Unmailed' = {} /\ newest' # None => Live(newest)'
      BY <2>1, <2>2, <2>3 DEF CodeInv, Live
    <2>8. stored' <= drawn' /\ newest' <= drawn' /\ \A v \in Worker : carried'[v] <= drawn'
      BY <1>2, <2>1 DEF CodeInv
    <2> QED BY <1>1, <2>1, <2>5, <2>6, <2>7, <2>8 DEF CodeInv
  <1>9. CASE Tick
    <2>1. /\ UNCHANGED <<stage, carried, drawn, newest>> /\ excused \subseteq excused'
          /\ \/ stored' = stored
             \/ stored' = None /\ stored # None /\ stored \in excused'
      BY <1>1, <1>9, <1>2 DEF Tick, request, TypeOK
    <2>2. Unmailed' = Unmailed /\ Burning' = Burning
      BY <2>1 DEF Unmailed, Burning
    <2>3. \A v \in Worker : stage[v] = "token" => carried[v] # None
      BY <1>1 DEF TypeOK
    <2>4. stored' <= drawn'
      BY <1>2, <2>1 DEF CodeInv
    <2>5. \A v \in Unmailed' : Live(carried[v])'
      BY <2>1, <2>2 DEF CodeInv, Live
    <2>6. Unmailed' = {} /\ newest' # None => Live(newest)'
      BY <2>1, <2>2 DEF CodeInv, Live
    <2>7. \A v \in Burning' : stored' \in {None, carried'[v]} \cup excused'
      BY <2>1, <2>2 DEF CodeInv
    <2> QED BY <1>1, <2>1, <2>3, <2>4, <2>5, <2>6, <2>7 DEF CodeInv
  <1>10. CASE UNCHANGED vars
    BY <1>1, <1>10, CodeIdle DEF vars, redis, request, codes, Unmailed, Burning, CodeInv
  <1> QED
    BY <1>3, <1>4, <1>5, <1>6, <1>7, <1>8, <1>9, <1>10 DEF Next, Step

\* The code of the last mail works until it is used or expires, and a code whose token is
\* being minted is dead, unless the calls of two requests crossed.
THEOREM NewestWorks == Spec => []NewestCodeWorks
  <1>1. Init => CodeInv
    <2>1. Init => TypeInv
      BY TypeInit
    <2> QED BY <2>1 DEF Init, CodeInv, Live, Unmailed, Burning, None
  <1>2. CodeInv => NewestCodeWorks
    BY DEF CodeInv, NewestCodeWorks, Live
  <1> QED BY <1>1, <1>2, CodeStep, PTL DEF Spec

-----------------------------------------------------------------------------
\* No challenge is about to store its code while another code is being mailed or
\* deleted.  Submissions, expiries and failures come as they like.
ChallengesApart ==
    \A v, w \in Worker : stage[v] = "issue" => stage[w] \notin {"mail", "burn"}

\* What the two calls of a request say then of what is stored: a mail names the stored
\* code, a DELETE deletes the code that has matched, and the code of the last mail is
\* the one that works, until it is gone.
CodesAgree ==
    /\ \A w \in Unmailed \cup Burning : stored \in {carried[w], None}
    /\ Unmailed = {} /\ newest # None => stored \in {newest, None}

AgreeInv == CodesAgree /\ \A v, w \in Unmailed : v = w

\* A request that ends leaves the others and what is stored as they were.
LEMMA AgreeFinish ==
    ASSUME TypeOK, AgreeInv, NEW w \in Worker, Finish(w), stored' = stored,
           \/ newest' = newest /\ w \notin Unmailed
           \/ newest' = None
           \/ newest' = carried[w] /\ w \in Unmailed
    PROVE  AgreeInv'
  <1>1. /\ stage'[w] = "idle"
        /\ \A v \in Worker \ {w} : stage'[v] = stage[v] /\ carried'[v] = carried[v]
    BY DEF TypeOK, Finish, Go
  <1>2. Unmailed' = Unmailed \ {w} /\ Burning' = Burning \ {w}
    BY <1>1 DEF Unmailed, Burning
  <1>3. ASSUME NEW v \in Unmailed' \cup Burning' PROVE stored' \in {carried'[v], None}
    <2>1. v \in Worker \ {w} /\ v \in Unmailed \cup Burning
      BY <1>2 DEF Unmailed, Burning
    <2> QED BY <1>1, <2>1 DEF AgreeInv, CodesAgree
  <1>4. Unmailed' = {} /\ newest' # None => stored' \in {newest', None}
    BY <1>2 DEF AgreeInv, CodesAgree
  <1> QED BY <1>2, <1>3, <1>4 DEF AgreeInv, CodesAgree

LEMMA AgreeStep == TypeOK /\ ChallengesApart /\ AgreeInv /\ [Next]_vars => AgreeInv'
  <1> SUFFICES ASSUME TypeOK, ChallengesApart, AgreeInv, [Next]_vars PROVE AgreeInv'
    OBVIOUS
  <1>1. ASSUME UNCHANGED newest, Unmailed' = Unmailed, stored' \in {stored, None},
               \A v \in Unmailed : carried'[v] = carried[v],
               \A v \in Burning' : v \in Burning /\ carried'[v] = carried[v]
        PROVE  AgreeInv'
    BY <1>1 DEF AgreeInv, CodesAgree
  <1>2. ASSUME NEW w \in Worker, Challenge(w) \/ (\E c \in Code \cup {None} : Verify(w, c))
        PROVE  AgreeInv'
    <2>1. /\ stored' = stored /\ newest' = newest /\ stage[w] = "idle"
          /\ stage'[w] \in {"send", "attempt"}
          /\ \A v \in Worker \ {w} : stage'[v] = stage[v] /\ carried'[v] = carried[v]
      BY <1>2 DEF Challenge, Verify, Go, redis, codes, TypeOK
    <2>2. /\ Unmailed' = Unmailed /\ \A v \in Unmailed : carried'[v] = carried[v]
          /\ \A v \in Burning' : v \in Burning /\ carried'[v] = carried[v]
      BY <2>1 DEF Unmailed, Burning
    <2> QED BY <1>1, <2>1, <2>2
  <1>3. ASSUME NEW w \in Worker, NEW b \in Bucket, Incr(w, b) \/ SetExpiry(w, b)
        PROVE  AgreeInv'
    <2>1. stored' = stored /\ newest' = newest /\ stage[w] = b
      BY <1>3 DEF Incr, SetExpiry, codes
    <2>2. CASE UNCHANGED <<stage, carried>>
      BY <1>1, <2>1, <2>2 DEF Unmailed, Burning
    <2>3. CASE Finish(w)
      <3>1. w \notin Unmailed
        BY <2>1 DEF Unmailed, Bucket
      <3> QED BY <2>1, <2>3, <3>1, AgreeFinish
    <2>4. CASE ~Finish(w) /\ ~UNCHANGED <<stage, carried>>
      <3>1. /\ carried' = carried /\ stage'[w] \in {"issue", "compare"}
            /\ \A v \in Worker \ {w} : stage'[v] = stage[v]
        BY <1>3, <2>4 DEF Incr, SetExpiry, Decide, Go, TypeOK
      <3>2. Unmailed' = Unmailed /\ Burning' = Burning
        BY <2>1, <3>1 DEF Unmailed, Burning, Bucket
      <3> QED BY <1>1, <2>1, <3>1, <3>2
    <2> QED BY <2>2, <2>3, <2>4
  <1>4. ASSUME NEW w \in Worker, LinkCapped(w) \/ Mail(w) \/ MintToken(w) \/ Fail(w)
        PROVE  AgreeInv'
    <2>1. Finish(w) /\ stored' = stored
      BY <1>4 DEF LinkCapped, Mail, MintToken, Fail, redis
    <2>2. \/ newest' = newest /\ w \notin Unmailed
          \/ newest' = None
          \/ newest' = carried[w] /\ w \in Unmailed
      BY <1>4 DEF LinkCapped, Mail, MintToken, Fail, codes, Unmailed
    <2> QED BY <2>1, <2>2, AgreeFinish
  <1>5. ASSUME NEW w \in Worker, Issue(w) PROVE AgreeInv'
    <2>1. Unmailed = {} /\ Burning = {}
      BY <1>5 DEF Issue, ChallengesApart, Unmailed, Burning
    <2>2. /\ stored' = carried'[w] /\ stage'[w] = "mail" /\ stage[w] = "issue"
          /\ \A v \in Worker \ {w} : stage'[v] = stage[v]
      BY <1>5 DEF Issue, Store, Go, TypeOK
    <2>3. Unmailed' = {w} /\ Burning' = {}
      BY <2>1, <2>2 DEF Unmailed, Burning
    <2> QED BY <2>2, <2>3 DEF AgreeInv, CodesAgree
  <1>6. ASSUME NEW w \in Worker, Compare(w) PROVE AgreeInv'
    <2>1. stored' = stored /\ newest' = newest /\ stage[w] = "compare"
      BY <1>6 DEF Compare, redis, codes
    <2>2. CASE Finish(w)
      <3>1. w \notin Unmailed
        BY <2>1 DEF Unmailed
      <3> QED BY <2>1, <2>2, <3>1, AgreeFinish
    <2>3. CASE ~Finish(w)
      <3>1. /\ carried[w] = stored /\ carried' = carried /\ stage'[w] = "burn"
            /\ \A v \in Worker \ {w} : stage'[v] = stage[v]
        BY <1>6, <2>3 DEF Compare, Go, TypeOK
      <3>2. Unmailed' = Unmailed /\ Burning' = Burning \cup {w}
        BY <2>1, <3>1 DEF Unmailed, Burning
      <3> QED BY <2>1, <3>1, <3>2 DEF AgreeInv, CodesAgree
    <2> QED BY <2>2, <2>3
  <1>7. ASSUME NEW w \in Worker, Burn(w) PROVE AgreeInv'
    <2>1. /\ stored' = None /\ carried' = carried /\ newest' = newest
          /\ stage[w] = "burn" /\ stage'[w] = "token"
          /\ \A v \in Worker \ {w} : stage'[v] = stage[v]
      BY <1>7 DEF Burn, Go, TypeOK
    <2>2. Unmailed' = Unmailed /\ Burning' \subseteq Burning
      BY <2>1 DEF Unmailed, Burning
    <2> QED BY <1>1, <2>1, <2>2
  <1>8. CASE Tick
    <2>1. UNCHANGED <<stage, carried, newest>> /\ stored' \in {stored, None}
      BY <1>8 DEF Tick, request
    <2> QED BY <1>1, <2>1 DEF Unmailed, Burning
  <1>9. CASE UNCHANGED vars
    <2>1. UNCHANGED <<stage, carried, newest, stored>>
      BY <1>9 DEF vars, redis, request, codes
    <2> QED BY <1>1, <2>1 DEF Unmailed, Burning
  <1> QED
    BY <1>2, <1>3, <1>4, <1>5, <1>6, <1>7, <1>8, <1>9 DEF Next, Step

\* The template's advice, use the newest code (lines 145-148), is sound where no
\* challenge stores its code beside another's mail or a DELETE: what is stored is the
\* code of the last mail, and only that code's use or expiry takes it away.
THEOREM NewestWorksApart == Spec /\ []ChallengesApart => []CodesAgree
  <1>1. Init => AgreeInv
    BY DEF Init, AgreeInv, CodesAgree, Unmailed, Burning
  <1>2. TypeInv => TypeOK
    BY DEF TypeInv
  <1>3. AgreeInv => CodesAgree
    BY DEF AgreeInv
  <1> QED BY <1>1, <1>2, <1>3, TypeInit, TypeStep, AgreeStep, PTL DEF Spec
=============================================================================
