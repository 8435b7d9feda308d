--------------------------- MODULE TwoFactor_proofs ---------------------------
(***************************************************************************)
(* Proofs about TwoFactor, for any secrets and codes, any permitted        *)
(* methods and any number of overlapping requests.                         *)
(***************************************************************************)
EXTENDS TwoFactor, TLAPS

\* What a request carries at each stage beside its types.
Shape ==
    \A w \in Worker :
        /\ stage[w] = "mint" => op[w] = "setup"
        /\ stage[w] = "enable" => op[w] \in {"confirm", "renew"}
        /\ stage[w] = "delete" => op[w] = "disable"
        /\ stage[w] = "burn" => code[w] \in Mailed
        /\ code[w] \in given \cup {Wrong}

TypeInv == TypeOK /\ Shape

LEMMA TypeInit == Init => TypeInv
  <1> SUFFICES ASSUME Init PROVE TypeInv
    OBVIOUS
  <1>1. policy \in [allowed : (SUBSET Cap) \cup {Inherit}, require : BOOLEAN]
    BY DEF Init
  <1> QED BY <1>1, CodeAssumption DEF Init, TypeInv, TypeOK, Shape, Stage, Op

\* The end of a request, and its next call.
LEMMA DoneOne ==
    ASSUME TypeInv, NEW w \in Worker, Done(w)
    PROVE  /\ stage' \in [Worker -> Stage] /\ op' \in [Worker -> Op]
           /\ code' \in [Worker -> Code \cup {Wrong}]
           /\ stage'[w] = "idle" /\ op'[w] = "setup" /\ code'[w] = Wrong
           /\ \A v \in Worker \ {w} : stage'[v] = stage[v] /\ op'[v] = op[v] /\ code'[v] = code[v]
  BY DEF Done, TypeInv, TypeOK, Stage, Op

LEMMA GotoOne ==
    ASSUME TypeInv, NEW w \in Worker, NEW s \in Stage, Goto(w, s)
    PROVE  /\ stage' \in [Worker -> Stage] /\ op' = op /\ code' = code /\ stage'[w] = s
           /\ \A v \in Worker \ {w} : stage'[v] = stage[v]
  BY DEF Goto, TypeInv, TypeOK

\* Where a request may go next when it has read what it asks.
LEMMA StatusRead ==
    ASSUME TypeInv, NEW w \in Worker, ReadStatus(w)
    PROVE  /\ stage[w] = "status" /\ UNCHANGED <<rows, history>>
           /\ \/ op[w] = "setup" /\ Pending /\ Goto(w, "secret")
              \/ op[w] = "setup" /\ ~Pending /\ Goto(w, "mint")
              \/ op[w] = "disable" /\ Enabled /\ Goto(w, "secret")
              \/ op[w] = "renew" /\ Enabled /\ Goto(w, "enable")
              \/ Done(w)
  BY DEF ReadStatus

LEMMA SecretRead ==
    ASSUME TypeInv, NEW w \in Worker, ReadSecret(w)
    PROVE  /\ stage[w] = "secret" /\ UNCHANGED <<rows, uses, overlapped>>
           /\ \/ op[w] = "setup" /\ row = NoRow /\ Goto(w, "mint")
              \/ op[w] = "confirm" /\ row # NoRow /\ code[w] = row.secret /\ Goto(w, "enable")
                 /\ row.secret \in proven'
              \/ op[w] = "renew" /\ Goto(w, "status")
              \/ op[w] = "disable" /\ row # NoRow /\ code[w] = row.secret /\ Goto(w, "delete")
              \/ op[w] = "disable" /\ Goto(w, "recovery")
              \/ Done(w)
           /\ given' = given \/ (row # NoRow /\ given' = given \cup {row.secret})
           /\ proven' = proven \/ (row # NoRow /\ proven' = proven \cup {row.secret})
  <1> DEFINE secret == IF row = NoRow THEN NoSecret ELSE row.secret
  <1>1. /\ row # NoRow => row.secret \in Secret /\ secret = row.secret
        /\ row = NoRow => secret = NoSecret
        /\ code[w] \in Code \cup {Wrong}
    BY DEF TypeInv, TypeOK, Row
  <1>2. code[w] = secret => row # NoRow
    BY <1>1, CodeAssumption DEF Code
  <1>3. stage[w] = "secret" /\ UNCHANGED <<rows, uses, overlapped>>
    BY DEF ReadSecret
  <1>4. given' = IF op[w] = "setup" THEN given \cup ({secret} \ {NoSecret}) ELSE given
    BY DEF ReadSecret
  <1>5. proven' = IF op[w] = "confirm" /\ code[w] = secret THEN proven \cup {secret} ELSE proven
    BY DEF ReadSecret
  <1>6. \/ op[w] = "setup" /\ secret = NoSecret /\ Goto(w, "mint")
        \/ op[w] = "confirm" /\ code[w] = secret /\ Goto(w, "enable")
        \/ op[w] = "renew" /\ code[w] = secret /\ Goto(w, "status")
        \/ op[w] = "disable" /\ code[w] = secret /\ Goto(w, "delete")
        \/ op[w] = "disable" /\ code[w] # secret /\ Goto(w, "recovery")
        \/ Done(w)
    BY DEF ReadSecret
  <1>7. secret = NoSecret => row = NoRow
    BY <1>1, CodeAssumption
  <1>8. given' = given \/ (row # NoRow /\ given' = given \cup {row.secret})
    BY <1>1, <1>4
  <1>9. proven' = proven \/ (row # NoRow /\ proven' = proven \cup {row.secret})
    BY <1>1, <1>2, <1>5
  <1> QED BY <1>1, <1>2, <1>3, <1>5, <1>6, <1>7, <1>8, <1>9

\* What the rows of the tables and the history keep when a step changes them.
LEMMA TypeStep == TypeInv /\ [Next]_vars => TypeInv'
  <1> SUFFICES ASSUME TypeInv, [Next]_vars PROVE TypeInv'
    OBVIOUS
  <1> USE DEF rows, requests, history
  <1>1. /\ row \in Row \cup {NoRow} /\ given \subseteq Code /\ proven \subseteq Secret
        /\ uses \in [Recovery \cup Mailed -> Nat] /\ stage \in [Worker -> Stage]
        /\ op \in [Worker -> Op] /\ code \in [Worker -> Code \cup {Wrong}]
        /\ NoRow \notin Row
        /\ row # NoRow => /\ row.secret \in Secret /\ row.enabled \in BOOLEAN
                          /\ row.unused \in SUBSET Recovery
    BY CodeAssumption DEF TypeInv, TypeOK, Row
  <1>2. ASSUME NEW w \in Worker, NEW o \in Op, NEW c \in given \cup {Wrong}, Request(w, o, c)
        PROVE  TypeInv'
    <2>1. FirstCall(o) \in {"status", "secret", "code", "recovery"}
      BY DEF FirstCall, Op
    <2>2. /\ stage' = [stage EXCEPT ![w] = FirstCall(o)] /\ op' = [op EXCEPT ![w] = o]
          /\ code' = [code EXCEPT ![w] = c] /\ overlapped' \in BOOLEAN
          /\ UNCHANGED <<rows, given, proven, uses>>
      BY <1>2 DEF Request, TypeInv, TypeOK
    <2>3. TypeOK'
      BY <1>1, <2>1, <2>2 DEF TypeInv, TypeOK, Stage
    <2>4. Shape'
      BY <1>1, <2>1, <2>2 DEF TypeInv, Shape
    <2> QED BY <2>3, <2>4 DEF TypeInv
  <1>3. ASSUME NEW w \in Worker, ReadStatus(w) PROVE TypeInv'
    <2>1. UNCHANGED <<rows, history>>
      BY <1>3, StatusRead
    <2>2. CASE Done(w)
      BY <2>1, <2>2, DoneOne DEF TypeInv, TypeOK, Shape
    <2>3. CASE ~Done(w)
      <3>1. PICK s \in {"secret", "mint", "enable"} :
               /\ Goto(w, s) /\ (s = "mint" => op[w] = "setup") /\ (s = "enable" => op[w] = "renew")
        BY <1>3, <2>3, StatusRead
      <3>2. s \in Stage
        BY DEF Stage
      <3> QED BY <2>1, <3>1, <3>2, GotoOne DEF TypeInv, TypeOK, Shape
    <2> QED BY <2>2, <2>3
  <1>4. ASSUME NEW w \in Worker, ReadSecret(w) PROVE TypeInv'
    <2>1. /\ UNCHANGED <<rows, uses, overlapped>> /\ given \subseteq given' /\ given' \subseteq Code
          /\ proven' \subseteq Secret
      BY <1>1, <1>4, SecretRead DEF Code
    <2>2. CASE Done(w)
      BY <2>1, <2>2, DoneOne DEF TypeInv, TypeOK, Shape
    <2>3. CASE ~Done(w)
      <3>1. PICK s \in {"mint", "enable", "status", "delete", "recovery"} :
               /\ Goto(w, s) /\ (s = "mint" => op[w] = "setup")
               /\ (s = "enable" => op[w] = "confirm") /\ (s = "delete" => op[w] = "disable")
        BY <1>4, <2>3, SecretRead
      <3>2. s \in Stage
        BY DEF Stage
      <3> QED BY <2>1, <3>1, <3>2, GotoOne DEF TypeInv, TypeOK, Shape
    <2> QED BY <2>2, <2>3
  <1>5. ASSUME NEW w \in Worker, Mint(w) \/ Enable(w) \/ Delete(w) PROVE TypeInv'
    <2>1. Done(w) /\ UNCHANGED <<live, policy, proven, uses, overlapped>>
      BY <1>5 DEF Mint, Enable, Delete
    <2>2. row' \in Row \cup {NoRow} /\ given \subseteq given' /\ given' \subseteq Code
      <3>1. CASE Mint(w)
        BY <1>1, <3>1 DEF Mint, Row, Code
      <3>2. CASE Enable(w)
        <4>1. PICK r \in Recovery \ given :
                /\ row' = IF row = NoRow THEN NoRow ELSE [row EXCEPT !.enabled = TRUE, !.unused = {r}]
                /\ given' = given \cup {r}
          BY <3>2 DEF Enable
        <4> QED BY <1>1, <4>1 DEF Row, Code
      <3>3. CASE Delete(w)
        BY <1>1, <3>3 DEF Delete
      <3> QED BY <1>5, <3>1, <3>2, <3>3
    <2> QED BY <2>1, <2>2, DoneOne DEF TypeInv, TypeOK, Shape
  <1>6. ASSUME NEW w \in Worker, TakeRecovery(w) PROVE TypeInv'
    <2>1. row' \in Row \cup {NoRow} /\ uses' \in [Recovery \cup Mailed -> Nat]
      BY <1>1, <1>6 DEF TakeRecovery, Row
    <2>2. UNCHANGED <<live, policy, given, proven, overlapped>>
      BY <1>6 DEF TakeRecovery
    <2>3. CASE Done(w)
      BY <2>1, <2>2, <2>3, DoneOne DEF TypeInv, TypeOK, Shape
    <2>4. CASE ~Done(w)
      <3>1. op[w] = "disable" /\ Goto(w, "delete")
        BY <1>6, <2>4 DEF TakeRecovery
      <3>2. "delete" \in Stage
        BY DEF Stage
      <3> QED BY <2>1, <2>2, <3>1, <3>2, GotoOne DEF TypeInv, TypeOK, Shape
    <2> QED BY <2>3, <2>4
  <1>7. ASSUME NEW w \in Worker, ReadCode(w) PROVE TypeInv'
    <2>1. UNCHANGED <<rows, history>>
      BY <1>7 DEF ReadCode
    <2>2. CASE Done(w)
      BY <2>1, <2>2, DoneOne DEF TypeInv, TypeOK, Shape
    <2>3. CASE ~Done(w)
      <3>1. code[w] = live /\ Goto(w, "burn") /\ "burn" \in Stage
        BY <1>7, <2>3 DEF ReadCode, Stage
      <3>2. code[w] \in Mailed
        BY <1>1, <3>1, CodeAssumption DEF TypeInv, TypeOK, Code
      <3> QED BY <2>1, <3>1, <3>2, GotoOne DEF TypeInv, TypeOK, Shape
    <2> QED BY <2>2, <2>3
  <1>8. ASSUME NEW w \in Worker, Burn(w) PROVE TypeInv'
    <2>1. /\ Done(w) /\ live' = NoCode /\ uses' = [uses EXCEPT ![code[w]] = @ + 1]
          /\ UNCHANGED <<row, policy, given, proven, overlapped>>
      BY <1>8 DEF Burn
    <2>2. uses' \in [Recovery \cup Mailed -> Nat]
      <3>1. PICK c \in Recovery \cup Mailed : c = code[w]
        BY <1>8 DEF Burn, TypeInv, Shape
      <3>2. uses' = [uses EXCEPT ![c] = uses[c] + 1] /\ uses[c] + 1 \in Nat
        BY <1>1, <2>1, <3>1
      <3> QED BY <1>1, <3>2
    <2> QED BY <2>1, <2>2, DoneOne DEF TypeInv, TypeOK, Shape
  <1>9. CASE Challenge
    BY <1>9 DEF Challenge, TypeInv, TypeOK, Shape, Code
  <1>10. CASE Expire
    BY <1>10 DEF Expire, TypeInv, TypeOK, Shape
  <1>11. ASSUME NEW a \in (SUBSET ALL_METHODS) \cup {Inherit}, NEW r \in BOOLEAN, PutPolicy(a, r)
         PROVE  TypeInv'
    <2>1. policy' \in [allowed : (SUBSET Cap) \cup {Inherit}, require : BOOLEAN]
      BY <1>11 DEF PutPolicy
    <2> QED BY <1>11, <2>1 DEF PutPolicy, TypeInv, TypeOK, Shape
  <1>12. CASE UNCHANGED vars
    BY <1>12 DEF vars, TypeInv, TypeOK, Shape
  <1> QED
    BY <1>2, <1>3, <1>4, <1>5, <1>6, <1>7, <1>8, <1>9, <1>10, <1>11, <1>12 DEF Next

\* Every reachable state is typed, and each stage belongs to its routes.
THEOREM TypeCorrect == Spec => []TypeOK
  <1>1. TypeInv => TypeOK
    BY DEF TypeInv
  <1> QED BY <1>1, TypeInit, TypeStep, PTL DEF Spec

-----------------------------------------------------------------------------
\* What has been accepted is in no row and under no key any more.
UseInv ==
    /\ \A r \in Recovery : uses[r] \in {0, 1} /\ (r \notin given => uses[r] = 0)
    /\ row # NoRow => \A r \in row.unused : r \in given /\ uses[r] = 0
    /\ \A c \in Mailed : c \notin given => uses[c] = 0
    /\ live # NoCode => live \in given /\ uses[live] = 0
    /\ \A w \in Worker : stage[w] = "delete" =>
          code[w] \in given /\ (code[w] \in Recovery => uses[code[w]] = 1)

LEMMA UseInit == Init => UseInv
  BY DEF Init, UseInv

\* A step that accepts nothing and drops nothing.
LEMMA Quiet ==
    ASSUME UseInv, UNCHANGED <<row, live, uses>>, given \subseteq given',
           \A w \in Worker : stage'[w] = "delete" => stage[w] = "delete" /\ code'[w] = code[w]
    PROVE  UseInv'
  BY DEF UseInv

LEMMA UseStep == TypeInv /\ UseInv /\ [Next]_vars => UseInv'
  <1> SUFFICES ASSUME TypeInv, UseInv, [Next]_vars PROVE UseInv'
    OBVIOUS
  <1> USE DEF rows, requests, history
  <1>1. /\ row \in Row \cup {NoRow} /\ given \subseteq Code
        /\ uses \in [Recovery \cup Mailed -> Nat] /\ stage \in [Worker -> Stage]
        /\ op \in [Worker -> Op] /\ code \in [Worker -> Code \cup {Wrong}]
        /\ NoRow \notin Row /\ live \in Mailed \cup {NoCode} /\ NoCode \notin Mailed
        /\ row # NoRow => row.secret \in Secret /\ row.unused \in SUBSET Recovery
        /\ \A w \in Worker : code[w] \in given \cup {Wrong}
        /\ Wrong \notin Secret \cup Recovery \cup Mailed
        /\ Secret \cap Recovery = {} /\ Recovery \cap Mailed = {}
    BY CodeAssumption DEF TypeInv, TypeOK, Shape, Row
  <1>2. ASSUME NEW w \in Worker, NEW o \in Op, NEW c \in given \cup {Wrong}, Request(w, o, c)
        PROVE  UseInv'
    <2>1. FirstCall(o) \in {"status", "secret", "code", "recovery"}
      BY DEF FirstCall, Op
    <2>2. /\ stage' = [stage EXCEPT ![w] = FirstCall(o)] /\ code' = [code EXCEPT ![w] = c]
          /\ UNCHANGED <<rows, given, proven, uses>>
      BY <1>2 DEF Request
    <2>3. \A v \in Worker : stage'[v] = "delete" => stage[v] = "delete" /\ code'[v] = code[v]
      BY <1>1, <2>1, <2>2
    <2> QED BY <2>2, <2>3, Quiet
  <1>3. ASSUME NEW w \in Worker, ReadStatus(w) PROVE UseInv'
    <2>1. CASE Done(w)
      BY <1>3, <2>1, StatusRead, DoneOne, Quiet
    <2>2. CASE ~Done(w)
      <3>1. PICK s \in {"secret", "mint", "enable"} : Goto(w, s)
        BY <1>3, <2>2, StatusRead
      <3>2. s \in Stage
        BY DEF Stage
      <3> QED BY <1>3, <3>1, <3>2, StatusRead, GotoOne, Quiet
    <2> QED BY <2>1, <2>2
  <1>4. ASSUME NEW w \in Worker, ReadSecret(w) PROVE UseInv'
    <2>1. UNCHANGED <<row, live, uses>> /\ given \subseteq given'
      BY <1>4, SecretRead
    <2>2. CASE Done(w)
      BY <2>1, <2>2, DoneOne, Quiet
    <2>3. CASE ~Done(w)
      <3>1. PICK s \in {"mint", "enable", "status", "delete", "recovery"} :
               Goto(w, s) /\ (s = "delete" => row # NoRow /\ code[w] = row.secret)
        BY <1>4, <2>3, SecretRead
      <3>2. s \in Stage
        BY DEF Stage
      <3>3. s = "delete" => code[w] \in given /\ code[w] \notin Recovery
        BY <1>1, <3>1
      <3>4. stage'[w] = s /\ code' = code /\ \A v \in Worker \ {w} : stage'[v] = stage[v]
        BY <3>1, <3>2, GotoOne
      <3> QED BY <2>1, <3>3, <3>4 DEF UseInv
    <2> QED BY <2>2, <2>3
  <1>5. ASSUME NEW w \in Worker, Mint(w) \/ Delete(w) PROVE UseInv'
    <2>1. /\ Done(w) /\ UNCHANGED <<live, uses>> /\ given \subseteq given'
          /\ row' # NoRow => row'.unused = {} \/ (row # NoRow /\ row'.unused = row.unused)
      BY <1>5 DEF Mint, Delete
    <2>2. \A v \in Worker : stage'[v] = "delete" => stage[v] = "delete" /\ code'[v] = code[v]
      BY <2>1, DoneOne
    <2> QED BY <2>1, <2>2 DEF UseInv
  <1>6. ASSUME NEW w \in Worker, Enable(w) PROVE UseInv'
    <2>1. PICK r \in Recovery \ given :
            /\ row' = IF row = NoRow THEN NoRow ELSE [row EXCEPT !.enabled = TRUE, !.unused = {r}]
            /\ given' = given \cup {r}
      BY <1>6 DEF Enable
    <2>2. row' # NoRow => row'.unused = {r}
      BY <1>1, <2>1 DEF Row
    <2>3. Done(w) /\ UNCHANGED <<live, uses>>
      BY <1>6 DEF Enable
    <2>4. \A v \in Worker : stage'[v] = "delete" => stage[v] = "delete" /\ code'[v] = code[v]
      BY <2>3, DoneOne
    <2> QED BY <2>1, <2>2, <2>3, <2>4 DEF UseInv
  <1>7. ASSUME NEW w \in Worker, TakeRecovery(w) PROVE UseInv'
    <2>1. UNCHANGED <<live, given>>
      BY <1>7 DEF TakeRecovery
    <2>2. CASE ~(row # NoRow /\ code[w] \in row.unused)
      BY <1>7, <2>2, DoneOne, Quiet DEF TakeRecovery
    <2>3. CASE row # NoRow /\ code[w] \in row.unused
      <3>1. PICK r \in Recovery : r = code[w] /\ r \in row.unused
        BY <1>1, <2>3
      <3>2. uses[r] = 0 /\ r \in given
        BY <2>3, <3>1 DEF UseInv
      <3>3. row' = [row EXCEPT !.unused = @ \ {r}] /\ uses' = [uses EXCEPT ![r] = 1]
        BY <1>1, <1>7, <2>3, <3>1, <3>2 DEF TakeRecovery
      <3>4. row'.unused = row.unused \ {r}
        BY <1>1, <2>3, <3>3 DEF Row
      <3>5. /\ \A v \in Worker \ {w} : stage'[v] = stage[v] /\ code'[v] = code[v]
            /\ stage'[w] = "delete" => code'[w] = r
        <4>1. CASE Done(w)
          BY <4>1, DoneOne
        <4>2. CASE ~Done(w)
          <5>1. Goto(w, "delete") /\ "delete" \in Stage
            BY <1>7, <2>3, <4>2 DEF TakeRecovery, Stage
          <5> QED BY <3>1, <5>1, GotoOne
        <4> QED BY <4>1, <4>2
      <3>6. /\ \A q \in Recovery : uses'[q] \in {0, 1} /\ (q \notin given' => uses'[q] = 0)
            /\ \A q \in row'.unused : q \in given' /\ uses'[q] = 0
            /\ \A c \in Mailed : uses'[c] = uses[c]
        BY <1>1, <2>1, <2>3, <3>2, <3>3, <3>4 DEF UseInv
      <3>7. \A v \in Worker : stage'[v] = "delete" =>
               code'[v] \in given' /\ (code'[v] \in Recovery => uses'[code'[v]] = 1)
        BY <1>1, <2>1, <3>2, <3>3, <3>5 DEF UseInv
      <3> QED BY <1>1, <2>1, <3>6, <3>7 DEF UseInv
    <2> QED BY <2>2, <2>3
  <1>8. ASSUME NEW w \in Worker, ReadCode(w) PROVE UseInv'
    <2>1. CASE Done(w)
      BY <1>8, <2>1, DoneOne, Quiet DEF ReadCode
    <2>2. CASE ~Done(w)
      <3>1. Goto(w, "burn") /\ "burn" \in Stage
        BY <1>8, <2>2 DEF ReadCode, Stage
      <3> QED BY <1>8, <3>1, GotoOne, Quiet DEF ReadCode
    <2> QED BY <2>1, <2>2
  <1>9. ASSUME NEW w \in Worker, Burn(w) PROVE UseInv'
    <2>1. PICK c \in Mailed : c = code[w] /\ c \in given
      BY <1>1, <1>9 DEF Burn, TypeInv, Shape
    <2>2. /\ Done(w) /\ live' = NoCode /\ UNCHANGED <<row, given>>
          /\ uses' = [uses EXCEPT ![c] = uses[c] + 1]
      BY <1>9, <2>1 DEF Burn
    <2>3. \A d \in (Recovery \cup Mailed) \ {c} : uses'[d] = uses[d]
      BY <1>1, <2>2
    <2>4. \A v \in Worker : stage'[v] = "delete" => stage[v] = "delete" /\ code'[v] = code[v]
      BY <2>2, DoneOne
    <2>5. c \notin Recovery /\ (row # NoRow => row.unused \subseteq Recovery)
      BY <1>1
    <2> QED BY <2>1, <2>2, <2>3, <2>4, <2>5 DEF UseInv
  <1>10. CASE Challenge
    <2>1. PICK c \in Mailed \ given : live' = c /\ given' = given \cup {c}
      BY <1>10 DEF Challenge
    <2>2. uses[c] = 0 /\ UNCHANGED <<row, uses, stage, code>>
      BY <1>10, <2>1 DEF Challenge, UseInv
    <2> QED BY <2>1, <2>2 DEF UseInv
  <1>11. CASE Expire
    BY <1>11 DEF Expire, UseInv
  <1>12. ASSUME NEW a \in (SUBSET ALL_METHODS) \cup {Inherit}, NEW r \in BOOLEAN, PutPolicy(a, r)
         PROVE  UseInv'
    BY <1>12, Quiet DEF PutPolicy
  <1>13. CASE UNCHANGED vars
    BY <1>13, Quiet DEF vars
  <1> QED
    BY <1>2, <1>3, <1>4, <1>5, <1>6, <1>7, <1>8, <1>9, <1>10, <1>11, <1>12, <1>13 DEF Next

\* No recovery code is accepted twice, whatever logins, disablings, renewals and new
\* enrolments overlap.
THEOREM SingleUse == Spec => []RecoverySingleUse
  <1>1. UseInv => RecoverySingleUse
    BY DEF UseInv, RecoverySingleUse
  <1> QED BY <1>1, TypeInit, TypeStep, UseInit, UseStep, PTL DEF Spec

\* What no step does to a complete enrolment.
LEMMA EndsStep == TypeInv /\ UseInv /\ [Next]_vars => EnrolmentEndsStep
  <1> SUFFICES ASSUME TypeInv, UseInv, [Next]_vars, Enabled, ~Enabled'
               PROVE  \E w \in Worker :
                        /\ stage[w] # "idle" /\ stage'[w] = "idle"
                        /\ \/ op[w] = "setup"
                           \/ op[w] = "disable" /\ code[w] \in given
                              /\ (code[w] \in Recovery => uses[code[w]] = 1)
    BY DEF EnrolmentEndsStep
  <1>1. row' # row
    BY DEF Enabled
  <1>2. row \in Row /\ row # NoRow
    BY DEF TypeInv, TypeOK, Enabled
  <1>3. ASSUME NEW w \in Worker, Enable(w) \/ TakeRecovery(w) PROVE FALSE
    <2>1. CASE Enable(w)
      <3>1. PICK r \in Recovery : row' = [row EXCEPT !.enabled = TRUE, !.unused = {r}]
        BY <1>2, <2>1 DEF Enable
      <3>2. row'.enabled = TRUE /\ row' \in Row
        BY <1>2, <3>1 DEF Row
      <3> QED BY <3>2, CodeAssumption DEF Enabled, Row
    <2>2. CASE TakeRecovery(w)
      <3>1. row'.enabled = row.enabled /\ row' \in Row
        BY <1>2, <2>2 DEF TakeRecovery, Row
      <3> QED BY <3>1, CodeAssumption DEF Enabled, Row
    <2> QED BY <1>3, <2>1, <2>2
  <1>4. PICK w \in Worker : Mint(w) \/ Delete(w)
    BY <1>1, <1>3 DEF Next, vars, rows, Request, ReadStatus, ReadSecret, ReadCode, Burn, Challenge,
       Expire, PutPolicy
  <1>5. stage'[w] = "idle"
    BY <1>4, DoneOne DEF Mint, Delete
  <1>6. \/ stage[w] = "mint" /\ op[w] = "setup"
        \/ stage[w] = "delete" /\ op[w] = "disable" /\ code[w] \in given
           /\ (code[w] \in Recovery => uses[code[w]] = 1)
    BY <1>4 DEF Mint, Delete, TypeInv, Shape, UseInv
  <1> QED BY <1>5, <1>6

\* A complete enrolment ends by a setup, or by a disable that was given a code that
\* proved it.
THEOREM Ends == Spec => EnrolmentEnds
  BY TypeInit, TypeStep, UseInit, UseStep, EndsStep, PTL DEF Spec, EnrolmentEnds

-----------------------------------------------------------------------------
\* What holds of the account while its requests do not overlap.
Account ==
    /\ Enabled => row.secret \in proven
    /\ ~Pending => given \cap Secret \subseteq proven
    /\ Pending => given \cap Secret \subseteq proven \cup {row.secret}
    /\ \A c \in Mailed : uses[c] \in {0, 1}

\* What the one request that is under way may still rely on.
Relies(w) ==
    /\ stage[w] = "mint" => ~Pending
    /\ stage[w] = "enable" => row # NoRow /\ row.secret \in proven
    /\ stage[w] \in {"secret", "recovery", "delete"} /\ op[w] = "disable" => Enabled
    /\ stage[w] = "burn" => uses[code[w]] = 0

AloneInv == ~overlapped =>
    /\ \A v, w \in Worker : stage[v] # "idle" /\ stage[w] # "idle" => v = w
    /\ Account
    /\ \A w \in Worker : Relies(w)

LEMMA AloneInit == Init => AloneInv
  BY CodeAssumption DEF Init, AloneInv, Account, Relies, Enabled, Pending

\* The step of the one request under way: only what it does itself matters.
LEMMA Alone ==
    ASSUME TypeInv, AloneInv, ~overlapped, NEW w \in Worker, stage[w] # "idle",
           \A v \in Worker \ {w} : stage'[v] = stage[v],
           Account', stage'[w] = "idle" \/ Relies(w)'
    PROVE  AloneInv'
  <1>1. \A v \in Worker \ {w} : stage'[v] = "idle"
    BY DEF AloneInv
  <1>2. \A v \in Worker : stage'[v] = "idle" => Relies(v)'
    BY DEF Relies
  <1> QED BY <1>1, <1>2 DEF AloneInv

LEMMA AloneStep == TypeInv /\ UseInv /\ AloneInv /\ [Next]_vars => AloneInv'
  <1> SUFFICES ASSUME TypeInv, UseInv, AloneInv, [Next]_vars, ~overlapped' PROVE AloneInv'
    BY DEF AloneInv
  <1> USE DEF rows, requests, history
  <1>1. /\ row \in Row \cup {NoRow} /\ uses \in [Recovery \cup Mailed -> Nat]
        /\ code \in [Worker -> Code \cup {Wrong}] /\ stage \in [Worker -> Stage]
        /\ NoRow \notin Row /\ live \in Mailed \cup {NoCode}
        /\ row # NoRow => /\ row.secret \in Secret /\ row.unused \in SUBSET Recovery
                          /\ row.enabled \in BOOLEAN
        /\ Secret \cap Recovery = {} /\ Secret \cap Mailed = {} /\ Recovery \cap Mailed = {}
        /\ NoCode \notin Code \cup {Wrong}
    BY CodeAssumption DEF TypeInv, TypeOK, Row, Code
  <1>2. ~overlapped
    BY DEF Next, vars, Request, ReadStatus, ReadSecret, Mint, Enable, TakeRecovery, Delete,
       ReadCode, Burn, Challenge, Expire, PutPolicy
  <1>3. Account /\ \A w \in Worker : Relies(w)
    BY <1>2 DEF AloneInv
  <1>4. ASSUME NEW w \in Worker, NEW o \in Op, NEW c \in given \cup {Wrong}, Request(w, o, c)
        PROVE  AloneInv'
    <2>1. /\ FirstCall(o) \in {"status", "secret", "code", "recovery"}
          /\ FirstCall(o) \in {"secret", "recovery"} => o # "disable"
      BY DEF FirstCall, Op
    <2>2. /\ stage'[w] = FirstCall(o) /\ op'[w] = o
          /\ \A v \in Worker \ {w} : stage'[v] = stage[v]
          /\ \A v \in Worker \ {w} : stage[v] = "idle"
          /\ UNCHANGED <<rows, given, proven, uses>>
      BY <1>4 DEF Request, TypeInv, TypeOK
    <2>3. Account'
      BY <1>3, <2>2 DEF Account, Enabled, Pending
    <2>4. \A v \in Worker : Relies(v)'
      BY <2>1, <2>2 DEF Relies
    <2> QED BY <2>2, <2>3, <2>4 DEF AloneInv
  <1>5. ASSUME NEW w \in Worker, ReadStatus(w) PROVE AloneInv'
    <2>1. stage[w] # "idle" /\ UNCHANGED <<rows, history>>
      BY <1>5, StatusRead
    <2>2. Account'
      BY <1>3, <2>1 DEF Account, Enabled, Pending
    <2>3. CASE Done(w)
      BY <1>2, <2>1, <2>2, <2>3, DoneOne, Alone
    <2>4. CASE ~Done(w)
      <3>1. PICK s \in {"secret", "mint", "enable"} :
               /\ Goto(w, s) /\ (s = "mint" => ~Pending) /\ (s = "enable" => Enabled)
               /\ (op[w] = "disable" => Enabled)
        BY <1>5, <2>4, StatusRead
      <3>2. s \in Stage
        BY DEF Stage
      <3>3. Relies(w)'
        BY <1>3, <2>1, <3>1, <3>2, GotoOne DEF Relies, Account, Enabled, Pending
      <3> QED BY <1>2, <2>1, <2>2, <3>1, <3>2, <3>3, GotoOne, Alone
    <2> QED BY <2>3, <2>4
  <1>6. ASSUME NEW w \in Worker, ReadSecret(w) PROVE AloneInv'
    <2>1. stage[w] = "secret" /\ UNCHANGED <<rows, uses, overlapped>>
      BY <1>6, SecretRead
    <2>2. /\ given' = given \/ (row # NoRow /\ given' = given \cup {row.secret})
          /\ proven \subseteq proven'
      BY <1>6, SecretRead
    <2>3. Account'
      BY <1>1, <1>3, <2>1, <2>2 DEF Account, Enabled, Pending
    <2>4. CASE Done(w)
      BY <1>2, <2>1, <2>3, <2>4, DoneOne, Alone
    <2>5. CASE ~Done(w)
      <3>1. PICK s \in {"mint", "enable", "status", "delete", "recovery"} :
               /\ Goto(w, s) /\ (s = "mint" => row = NoRow)
               /\ (s = "enable" => row # NoRow /\ row.secret \in proven')
        BY <1>6, <2>5, SecretRead
      <3>2. s \in Stage
        BY DEF Stage
      <3>3. op[w] = "disable" => Enabled
        BY <1>3, <2>1 DEF Relies
      <3>4. Relies(w)'
        BY <2>1, <3>1, <3>2, <3>3, GotoOne DEF Relies, Enabled, Pending
      <3> QED BY <1>2, <2>1, <2>3, <3>1, <3>2, <3>4, GotoOne, Alone
    <2> QED BY <2>4, <2>5
  <1>7. ASSUME NEW w \in Worker, Mint(w) PROVE AloneInv'
    <2>1. PICK s \in Secret :
            /\ row' = [secret |-> s, enabled |-> FALSE,
                       unused |-> IF row = NoRow THEN {} ELSE row.unused]
            /\ given' = given \cup {s}
      BY <1>7 DEF Mint
    <2>2. stage[w] = "mint" /\ Done(w) /\ UNCHANGED <<proven, uses>>
      BY <1>7 DEF Mint
    <2>3. ~Pending
      BY <1>3, <2>2 DEF Relies
    <2>4. row'.secret = s /\ row'.enabled = FALSE /\ row' \in Row
      BY <1>1, <2>1 DEF Row
    <2>5. Account'
      BY <1>1, <1>3, <2>1, <2>2, <2>3, <2>4 DEF Account, Enabled, Pending
    <2> QED BY <1>2, <2>2, <2>5, DoneOne, Alone
  <1>8. ASSUME NEW w \in Worker, Enable(w) PROVE AloneInv'
    <2>1. stage[w] = "enable" /\ Done(w) /\ UNCHANGED <<proven, uses>>
      BY <1>8 DEF Enable
    <2>2. row # NoRow /\ row.secret \in proven
      BY <1>3, <2>1 DEF Relies
    <2>3. PICK r \in Recovery :
            /\ row' = [row EXCEPT !.enabled = TRUE, !.unused = {r}] /\ given' = given \cup {r}
      BY <1>8, <2>2 DEF Enable
    <2>4. row'.secret = row.secret /\ row'.enabled = TRUE /\ row' \in Row
      BY <1>1, <2>2, <2>3 DEF Row
    <2>5. given' \cap Secret = given \cap Secret
      BY <1>1, <2>3
    <2>6. Account'
      BY <1>1, <1>3, <2>1, <2>2, <2>4, <2>5 DEF Account, Enabled, Pending
    <2> QED BY <1>2, <2>1, <2>6, DoneOne, Alone
  <1>9. ASSUME NEW w \in Worker, TakeRecovery(w) PROVE AloneInv'
    <2>1. stage[w] = "recovery" /\ UNCHANGED <<given, proven>>
      BY <1>9 DEF TakeRecovery
    <2>2. \A c \in Mailed : uses'[c] = uses[c]
      BY <1>1, <1>9 DEF TakeRecovery
    <2>3. \/ row' = row
          \/ row # NoRow /\ row' = [row EXCEPT !.unused = @ \ {code[w]}]
      BY <1>9 DEF TakeRecovery
    <2>4. \/ row' = row
          \/ row # NoRow /\ row' \in Row /\ row'.secret = row.secret /\ row'.enabled = row.enabled
      BY <1>1, <2>3 DEF Row
    <2>5. (Enabled <=> Enabled') /\ (Pending <=> Pending')
      BY <1>1, <2>4 DEF Enabled, Pending
    <2>6. Account'
      BY <1>1, <1>3, <2>1, <2>2, <2>4, <2>5 DEF Account, Enabled, Pending
    <2>7. CASE Done(w)
      BY <1>2, <2>1, <2>6, <2>7, DoneOne, Alone
    <2>8. CASE ~Done(w)
      <3>1. op[w] = "disable" /\ Goto(w, "delete") /\ "delete" \in Stage
        BY <1>9, <2>8 DEF TakeRecovery, Stage
      <3>2. Enabled
        BY <1>3, <2>1, <3>1 DEF Relies
      <3>3. Relies(w)'
        BY <2>5, <3>1, <3>2, GotoOne DEF Relies
      <3> QED BY <1>2, <2>1, <2>6, <3>1, <3>3, GotoOne, Alone
    <2> QED BY <2>7, <2>8
  <1>10. ASSUME NEW w \in Worker, Delete(w) PROVE AloneInv'
    <2>1. /\ stage[w] = "delete" /\ op[w] = "disable" /\ Done(w) /\ row' = NoRow
          /\ UNCHANGED <<given, proven, uses>>
      BY <1>10 DEF Delete, TypeInv, Shape
    <2>2. Enabled
      BY <1>3, <2>1 DEF Relies
    <2>3. Account'
      BY <1>3, <2>1, <2>2 DEF Account, Enabled, Pending
    <2> QED BY <1>2, <2>1, <2>3, DoneOne, Alone
  <1>11. ASSUME NEW w \in Worker, ReadCode(w) PROVE AloneInv'
    <2>1. stage[w] = "code" /\ UNCHANGED <<rows, history>>
      BY <1>11 DEF ReadCode
    <2>2. Account'
      BY <1>3, <2>1 DEF Account, Enabled, Pending
    <2>3. CASE Done(w)
      BY <1>2, <2>1, <2>2, <2>3, DoneOne, Alone
    <2>4. CASE ~Done(w)
      <3>1. code[w] = live /\ Goto(w, "burn") /\ "burn" \in Stage
        BY <1>11, <2>4 DEF ReadCode, Stage
      <3>2. uses[code[w]] = 0
        BY <1>1, <3>1 DEF UseInv
      <3>3. Relies(w)'
        BY <2>1, <3>1, <3>2, GotoOne DEF Relies
      <3> QED BY <1>2, <2>1, <2>2, <3>1, <3>3, GotoOne, Alone
    <2> QED BY <2>3, <2>4
  <1>12. ASSUME NEW w \in Worker, Burn(w) PROVE AloneInv'
    <2>1. PICK c \in Mailed : c = code[w]
      BY <1>12 DEF Burn, TypeInv, Shape
    <2>2. /\ stage[w] = "burn" /\ Done(w) /\ UNCHANGED <<row, given, proven>>
          /\ uses' = [uses EXCEPT ![c] = uses[c] + 1]
      BY <1>12, <2>1 DEF Burn
    <2>3. uses[c] = 0
      BY <1>3, <2>1, <2>2 DEF Relies
    <2>4. Account'
      BY <1>1, <1>3, <2>2, <2>3 DEF Account, Enabled, Pending
    <2> QED BY <1>2, <2>2, <2>4, DoneOne, Alone
  <1>13. CASE Challenge
    <2>1. PICK c \in Mailed : given' = given \cup {c}
      BY <1>13 DEF Challenge
    <2>2. given' \cap Secret = given \cap Secret
      BY <1>1, <2>1
    <2>3. UNCHANGED <<row, requests, proven, uses, overlapped>>
      BY <1>13 DEF Challenge
    <2> QED BY <2>2, <2>3 DEF AloneInv, Account, Relies, Enabled, Pending
  <1>14. CASE Expire
    BY <1>14 DEF Expire, AloneInv, Account, Relies, Enabled, Pending
  <1>15. ASSUME NEW a \in (SUBSET ALL_METHODS) \cup {Inherit}, NEW r \in BOOLEAN, PutPolicy(a, r)
         PROVE  AloneInv'
    BY <1>15 DEF PutPolicy, AloneInv, Account, Relies, Enabled, Pending
  <1>16. CASE UNCHANGED vars
    BY <1>16 DEF vars, AloneInv, Account, Relies, Enabled, Pending
  <1> QED
    BY <1>4, <1>5, <1>6, <1>7, <1>8, <1>9, <1>10, <1>11, <1>12, <1>13, <1>14, <1>15, <1>16
    DEF Next

\* Unless requests overlap, an account is enabled under a proven secret only, and one
\* secret is shown until then.
THEOREM Proven == Spec => []EnrolmentProven
  <1>1. AloneInv => EnrolmentProven
    BY DEF AloneInv, Account, EnrolmentProven
  <1> QED
    BY <1>1, TypeInit, TypeStep, UseInit, UseStep, AloneInit, AloneStep, PTL DEF Spec

\* An accepted mail code is gone, and is accepted once unless requests overlap.
THEOREM Spent == Spec => []MailCodeSpent
  <1>1. TypeInv /\ UseInv /\ AloneInv => MailCodeSpent
    BY CodeAssumption DEF TypeInv, TypeOK, UseInv, AloneInv, Account, MailCodeSpent, Code
  <1> QED
    BY <1>1, TypeInit, TypeStep, UseInit, UseStep, AloneInit, AloneStep, PTL DEF Spec

-----------------------------------------------------------------------------
\* The one overlap that an enrolment cannot stand: a setup about to replace the secret
\* of a row that another request is about to enable.  All others are free.
MintsApart == \A v, w \in Worker : stage[v] = "enable" => stage[w] # "mint"

EnabledProven == Enabled => row.secret \in proven

ProofInv ==
    /\ EnabledProven
    /\ \A w \in Worker : stage[w] = "enable" => row = NoRow \/ row.secret \in proven

\* A step that leaves the secret of the row alone, and that sends no request on to
\* enable it but one whose secret is proven.
LEMMA SecretStays ==
    ASSUME ProofInv, proven \subseteq proven',
           \/ row' = row \/ row' = NoRow
           \/ row # NoRow /\ row'.secret = row.secret /\ row'.enabled = row.enabled,
           \A w \in Worker : stage'[w] = "enable" =>
               stage[w] = "enable" \/ row' = NoRow \/ row'.secret \in proven'
    PROVE  ProofInv'
  BY DEF ProofInv, EnabledProven, Enabled

LEMMA ProofStep == TypeInv /\ MintsApart /\ ProofInv /\ [Next]_vars => ProofInv'
  <1> SUFFICES ASSUME TypeInv, MintsApart, ProofInv, [Next]_vars PROVE ProofInv'
    OBVIOUS
  <1> USE DEF rows, requests, history
  <1>1. /\ row \in Row \cup {NoRow} /\ NoRow \notin Row /\ stage \in [Worker -> Stage]
    BY CodeAssumption DEF TypeInv, TypeOK, Row
  <1>2. ASSUME NEW w \in Worker, NEW o \in Op, NEW c \in given \cup {Wrong}, Request(w, o, c)
        PROVE  ProofInv'
    <2>1. FirstCall(o) # "enable"
      BY DEF FirstCall, Op
    <2>2. \A v \in Worker : stage'[v] = "enable" => stage[v] = "enable"
      BY <1>1, <1>2, <2>1 DEF Request
    <2> QED BY <1>2, <2>2, SecretStays DEF Request
  <1>3. ASSUME NEW w \in Worker, ReadStatus(w) PROVE ProofInv'
    <2>1. UNCHANGED <<row, proven>>
      BY <1>3, StatusRead
    <2>2. CASE Done(w)
      BY <2>1, <2>2, DoneOne, SecretStays
    <2>3. CASE ~Done(w)
      <3>1. PICK s \in {"secret", "mint", "enable"} : Goto(w, s) /\ (s = "enable" => Enabled)
        BY <1>3, <2>3, StatusRead
      <3>2. s \in Stage
        BY DEF Stage
      <3>3. s = "enable" => row.secret \in proven
        BY <3>1 DEF ProofInv, EnabledProven
      <3> QED BY <2>1, <3>1, <3>2, <3>3, GotoOne, SecretStays
    <2> QED BY <2>2, <2>3
  <1>4. ASSUME NEW w \in Worker, ReadSecret(w) PROVE ProofInv'
    <2>1. row' = row /\ proven \subseteq proven'
      BY <1>4, SecretRead
    <2>2. CASE Done(w)
      BY <2>1, <2>2, DoneOne, SecretStays
    <2>3. CASE ~Done(w)
      <3>1. PICK s \in {"mint", "enable", "status", "delete", "recovery"} :
               Goto(w, s) /\ (s = "enable" => row.secret \in proven')
        BY <1>4, <2>3, SecretRead
      <3>2. s \in Stage
        BY DEF Stage
      <3> QED BY <2>1, <3>1, <3>2, GotoOne, SecretStays
    <2> QED BY <2>2, <2>3
  <1>5. ASSUME NEW w \in Worker, Mint(w) PROVE ProofInv'
    <2>1. \A v \in Worker : stage[v] # "enable"
      BY <1>5 DEF Mint, MintsApart
    <2>2. Done(w) /\ row'.enabled = FALSE
      BY <1>5 DEF Mint
    <2>3. \A v \in Worker : stage'[v] # "enable"
      BY <2>1, <2>2, DoneOne
    <2> QED BY <2>2, <2>3 DEF ProofInv, EnabledProven, Enabled
  <1>6. ASSUME NEW w \in Worker, Enable(w) PROVE ProofInv'
    <2>1. stage[w] = "enable" /\ Done(w) /\ proven' = proven
      BY <1>6 DEF Enable
    <2>2. \A v \in Worker : stage'[v] = "enable" => stage[v] = "enable"
      BY <2>1, DoneOne
    <2>3. CASE row = NoRow
      BY <1>6, <2>1, <2>2, <2>3, SecretStays DEF Enable
    <2>4. CASE row # NoRow
      <3>1. row.secret \in proven
        BY <2>1, <2>4 DEF ProofInv
      <3>2. row'.secret = row.secret
        BY <1>1, <1>6, <2>4 DEF Enable, Row
      <3> QED BY <2>1, <3>1, <3>2 DEF ProofInv, EnabledProven
    <2> QED BY <2>3, <2>4
  <1>7. ASSUME NEW w \in Worker, TakeRecovery(w) PROVE ProofInv'
    <2>1. /\ proven' = proven
          /\ row' = row \/ (row # NoRow /\ row'.secret = row.secret /\ row'.enabled = row.enabled)
      BY <1>1, <1>7 DEF TakeRecovery, Row
    <2>2. CASE Done(w)
      BY <2>1, <2>2, DoneOne, SecretStays
    <2>3. CASE ~Done(w)
      <3>1. Goto(w, "delete") /\ "delete" \in Stage
        BY <1>7, <2>3 DEF TakeRecovery, Stage
      <3> QED BY <2>1, <3>1, GotoOne, SecretStays
    <2> QED BY <2>2, <2>3
  <1>8. ASSUME NEW w \in Worker, Delete(w) PROVE ProofInv'
    BY <1>8, DoneOne, SecretStays DEF Delete
  <1>9. ASSUME NEW w \in Worker, ReadCode(w) \/ Burn(w) PROVE ProofInv'
    <2>1. UNCHANGED <<row, proven>> /\ (Done(w) \/ Goto(w, "burn")) /\ "burn" \in Stage
      BY <1>9 DEF ReadCode, Burn, Stage
    <2>2. \A v \in Worker : stage'[v] = "enable" => stage[v] = "enable"
      BY <2>1, DoneOne, GotoOne
    <2> QED BY <2>1, <2>2, SecretStays
  <1>10. CASE Challenge \/ Expire \/ UNCHANGED vars
    <2>1. UNCHANGED <<row, proven, stage>>
      BY <1>10 DEF Challenge, Expire, vars
    <2> QED BY <2>1, SecretStays
  <1>11. ASSUME NEW a \in (SUBSET ALL_METHODS) \cup {Inherit}, NEW r \in BOOLEAN, PutPolicy(a, r)
         PROVE  ProofInv'
    BY <1>11, SecretStays DEF PutPolicy
  <1> QED
    BY <1>2, <1>3, <1>4, <1>5, <1>6, <1>7, <1>8, <1>9, <1>10, <1>11 DEF Next

\* An account is enabled under a proven secret only, whatever logins, renewals,
\* disablings and confirmations overlap, as long as no setup mints under an enable.
THEOREM ProvenApart == Spec /\ []MintsApart => []EnabledProven
  <1>1. Init => ProofInv
    BY DEF Init, ProofInv, EnabledProven, Enabled
  <1>2. ProofInv => EnabledProven
    BY DEF ProofInv
  <1> QED BY <1>1, <1>2, TypeInit, TypeStep, ProofStep, PTL DEF Spec

-----------------------------------------------------------------------------
\* The one overlap that a mailed code cannot stand: two requests that have both read it
\* and are about to delete it.
BurnsApart ==
    \A v, w \in Worker :
        stage[v] = "burn" /\ stage[w] = "burn" /\ code[v] = code[w] => v = w

MailCodeOnce == \A c \in Mailed : uses[c] <= 1

BurnInv ==
    /\ \A c \in Mailed : uses[c] \in {0, 1}
    /\ \A w \in Worker : stage[w] = "burn" => uses[code[w]] = 0

\* A step that accepts no mailed code and sends no request on to delete one.
LEMMA NothingBurnt ==
    ASSUME TypeInv, BurnInv, \A c \in Mailed : uses'[c] = uses[c],
           \A w \in Worker : stage'[w] = "burn" => stage[w] = "burn" /\ code'[w] = code[w]
    PROVE  BurnInv'
  BY DEF BurnInv, TypeInv, Shape

LEMMA BurnStep == TypeInv /\ UseInv /\ BurnsApart /\ BurnInv /\ [Next]_vars => BurnInv'
  <1> SUFFICES ASSUME TypeInv, UseInv, BurnsApart, BurnInv, [Next]_vars PROVE BurnInv'
    OBVIOUS
  <1> USE DEF rows, requests, history
  <1>1. /\ uses \in [Recovery \cup Mailed -> Nat] /\ stage \in [Worker -> Stage]
        /\ code \in [Worker -> Code \cup {Wrong}]
        /\ row # NoRow => row.unused \in SUBSET Recovery
        /\ Recovery \cap Mailed = {} /\ NoCode \notin Code \cup {Wrong}
    BY CodeAssumption DEF TypeInv, TypeOK, Row, Code
  <1>2. ASSUME NEW w \in Worker, NEW o \in Op, NEW c \in given \cup {Wrong}, Request(w, o, c)
        PROVE  BurnInv'
    <2>1. FirstCall(o) # "burn"
      BY DEF FirstCall, Op
    <2>2. \A v \in Worker : stage'[v] = "burn" => stage[v] = "burn" /\ code'[v] = code[v]
      BY <1>1, <1>2, <2>1 DEF Request
    <2> QED BY <1>2, <2>2, NothingBurnt DEF Request
  <1>3. ASSUME NEW w \in Worker, ReadStatus(w) \/ ReadSecret(w) PROVE BurnInv'
    <2>1. uses' = uses
      BY <1>3, StatusRead, SecretRead
    <2>2. Done(w) \/ \E s \in Stage \ {"burn"} : Goto(w, s)
      BY <1>3, StatusRead, SecretRead DEF Stage
    <2>3. \A v \in Worker : stage'[v] = "burn" => stage[v] = "burn" /\ code'[v] = code[v]
      BY <2>2, DoneOne, GotoOne
    <2> QED BY <2>1, <2>3, NothingBurnt
  <1>4. ASSUME NEW w \in Worker, Mint(w) \/ Enable(w) \/ Delete(w) PROVE BurnInv'
    <2>1. Done(w) /\ uses' = uses
      BY <1>4 DEF Mint, Enable, Delete
    <2> QED BY <2>1, DoneOne, NothingBurnt
  <1>5. ASSUME NEW w \in Worker, TakeRecovery(w) PROVE BurnInv'
    <2>1. \A c \in Mailed : uses'[c] = uses[c]
      BY <1>1, <1>5 DEF TakeRecovery
    <2>2. (Done(w) \/ Goto(w, "delete")) /\ "delete" \in Stage
      BY <1>5 DEF TakeRecovery, Stage
    <2>3. \A v \in Worker : stage'[v] = "burn" => stage[v] = "burn" /\ code'[v] = code[v]
      BY <2>2, DoneOne, GotoOne
    <2> QED BY <2>1, <2>3, NothingBurnt
  <1>6. ASSUME NEW w \in Worker, ReadCode(w) PROVE BurnInv'
    <2>1. CASE Done(w)
      BY <1>6, <2>1, DoneOne, NothingBurnt DEF ReadCode
    <2>2. CASE ~Done(w)
      <3>1. Goto(w, "burn") /\ "burn" \in Stage /\ code[w] = live /\ uses' = uses
        BY <1>6, <2>2 DEF ReadCode, Stage
      <3>2. uses[code[w]] = 0
        BY <1>1, <3>1 DEF UseInv
      <3> QED BY <3>1, <3>2, GotoOne DEF BurnInv
    <2> QED BY <2>1, <2>2
  <1>7. ASSUME NEW w \in Worker, Burn(w) PROVE BurnInv'
    <2>1. PICK c \in Mailed : c = code[w] /\ stage[w] = "burn"
      BY <1>7 DEF Burn, TypeInv, Shape
    <2>2. Done(w) /\ uses' = [uses EXCEPT ![c] = 1]
      <3>1. uses[c] = 0
        BY <2>1 DEF BurnInv
      <3>2. Done(w) /\ uses' = [uses EXCEPT ![c] = uses[c] + 1]
        BY <1>7, <2>1 DEF Burn
      <3> QED BY <3>1, <3>2
    <2>3. uses'[c] = 1 /\ \A d \in Mailed \ {c} : uses'[d] = uses[d]
      BY <1>1, <2>2
    <2>4. ASSUME NEW v \in Worker, stage'[v] = "burn" PROVE uses'[code'[v]] = 0
      <3>1. v # w /\ stage[v] = "burn" /\ code'[v] = code[v]
        BY <2>2, <2>4, DoneOne
      <3>2. code[v] \in Mailed \ {c}
        BY <2>1, <3>1 DEF BurnsApart, TypeInv, Shape
      <3> QED BY <2>3, <3>1, <3>2 DEF BurnInv
    <2> QED BY <2>3, <2>4 DEF BurnInv
  <1>8. CASE Challenge \/ Expire \/ UNCHANGED vars
    <2>1. UNCHANGED <<uses, stage, code>>
      BY <1>8 DEF Challenge, Expire, vars
    <2> QED BY <2>1, NothingBurnt
  <1>9. ASSUME NEW a \in (SUBSET ALL_METHODS) \cup {Inherit}, NEW r \in BOOLEAN, PutPolicy(a, r)
        PROVE  BurnInv'
    BY <1>9, NothingBurnt DEF PutPolicy
  <1> QED
    BY <1>2, <1>3, <1>4, <1>5, <1>6, <1>7, <1>8, <1>9 DEF Next

\* A mailed code is accepted once, whatever overlaps, unless two requests stand between
\* the GET and the DELETE of that code at once.
THEOREM SpentApart == Spec /\ []BurnsApart => []MailCodeOnce
  <1>1. Init => BurnInv
    BY DEF Init, BurnInv
  <1>2. BurnInv => MailCodeOnce
    BY DEF BurnInv, MailCodeOnce
  <1> QED
    BY <1>1, <1>2, TypeInit, TypeStep, UseInit, UseStep, BurnStep, PTL DEF Spec
=============================================================================
