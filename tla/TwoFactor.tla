----------------------------- MODULE TwoFactor -----------------------------
(***************************************************************************)
(* Two-factor enrolment of one account and its challenge at login          *)
(* (routers/twofa.py over twofa.py and the short codes of tokens.py).      *)
(*                                                                         *)
(* The account's row in user_2fa, its one live mailed code and the         *)
(* tenant's policy are shared by requests that each take several SQL or    *)
(* Redis calls; one call is one step.  A code read off an authenticator    *)
(* is the secret it is computed from: what totp_verify tells apart within  *)
(* its window of periods.  Every enabling hands out one recovery code here *)
(* (ten in the code).                                                      *)
(***************************************************************************)
EXTENDS Naturals, FiniteSets

CONSTANTS
    Secret,        \* TOTP secrets that may be minted
    Recovery,      \* recovery codes that may be minted
    Mailed,        \* codes that may be mailed
    Cap,           \* MFA_ALLOWED_METHODS, the known ones
    Worker,        \* threads that serve requests
    Wrong,         \* a code that matches nothing
    NoRow, NoSecret, NoCode

ALL_METHODS == {"totp", "email"}

\* NULL in allowed_methods: whatever the deployment permits.
Inherit == {"inherit"}

ASSUME MethodAssumption == Cap \subseteq ALL_METHODS

ASSUME CodeAssumption ==
    /\ Secret \cap Recovery = {} /\ Secret \cap Mailed = {} /\ Recovery \cap Mailed = {}
    /\ Wrong \notin Secret \cup Recovery \cup Mailed
    /\ NoSecret \notin Secret \cup Recovery \cup Mailed \cup {Wrong}
    /\ NoCode \notin Secret \cup Recovery \cup Mailed \cup {Wrong}
    /\ NoRow \notin [secret : Secret, enabled : BOOLEAN, unused : SUBSET Recovery]

VARIABLES
    row,         \* the account's row in user_2fa
    live,        \* its live mailed code (issue_code)
    policy,      \* the tenant's row in tenant_2fa_policy
    given,       \* every secret and code the user has been given
    stage,       \* stage[w]: the call worker w makes next
    op,          \* op[w]: the route it serves
    code,        \* code[w]: the code it was given to check
    proven,      \* secrets whose code has completed an enrolment
    uses,        \* uses[c]: how often c was accepted
    overlapped   \* two requests for the account have been under way at once

rows == <<row, live, policy>>
requests == <<stage, op, code>>
history == <<given, proven, uses, overlapped>>
vars == <<rows, requests, history>>

Row == [secret : Secret, enabled : BOOLEAN, unused : SUBSET Recovery]
Code == Secret \cup Recovery \cup Mailed
Op == {"setup", "confirm", "disable", "renew", "totp", "email", "recovery"}
Stage == {"idle", "status", "secret", "mint", "enable", "recovery", "delete", "code", "burn"}

\* effective_methods: what the tenant permits of what the deployment permits.
Effective == IF policy.allowed = Inherit THEN Cap ELSE Cap \cap policy.allowed
Enabled == row # NoRow /\ row.enabled
Pending == row # NoRow /\ ~row.enabled

Init ==
    /\ row = NoRow
    /\ live = NoCode
    /\ policy = [allowed |-> Inherit, require |-> FALSE]
    /\ given = {}
    /\ stage = [w \in Worker |-> "idle"]
    /\ op = [w \in Worker |-> "setup"]
    /\ code = [w \in Worker |-> Wrong]
    /\ proven = {}
    /\ uses = [c \in Recovery \cup Mailed |-> 0]
    /\ overlapped = FALSE

Goto(w, s) == stage' = [stage EXCEPT ![w] = s] /\ UNCHANGED <<op, code>>

\* The request is answered.
Done(w) ==
    /\ stage' = [stage EXCEPT ![w] = "idle"]
    /\ op' = [op EXCEPT ![w] = "setup"]
    /\ code' = [code EXCEPT ![w] = Wrong]

-----------------------------------------------------------------------------
\* The route's checks: the method must be one the tenant permits; a recovery code
\* always is.  A request refused here changes nothing.
Permitted(o) ==
    /\ o \in {"setup", "totp"} => "totp" \in Effective
    /\ o = "email" => "email" \in Effective

FirstCall(o) ==
    CASE o \in {"setup", "disable"} -> "status"
      [] o \in {"confirm", "renew", "totp"} -> "secret"
      [] o = "email" -> "code"
      [] o = "recovery" -> "recovery"

\* The codes a route can tell from a wrong one.
Tried(o) ==
    CASE o = "setup" -> {}
      [] o \in {"confirm", "renew", "totp"} -> given \cap Secret
      [] o = "disable" -> given \cap (Secret \cup Recovery)
      [] o = "email" -> given \cap Mailed
      [] o = "recovery" -> given \cap Recovery

Request(w, o, c) ==
    /\ stage[w] = "idle"
    /\ Permitted(o)
    /\ c \in Tried(o) \cup {Wrong}
    /\ stage' = [stage EXCEPT ![w] = FirstCall(o)]
    /\ op' = [op EXCEPT ![w] = o]
    /\ code' = [code EXCEPT ![w] = c]
    /\ overlapped' = (overlapped \/ \E v \in Worker : v # w /\ stage[v] # "idle")
    /\ UNCHANGED <<rows, given, proven, uses>>

\* TwoFactorStore.status: setup asks whether an enrolment is pending, disable and
\* regenerate_recovery whether one is complete.
ReadStatus(w) ==
    /\ stage[w] = "status"
    /\ CASE op[w] = "setup" -> Goto(w, IF Pending THEN "secret" ELSE "mint")
         [] op[w] = "disable" /\ Enabled -> Goto(w, "secret")
         [] op[w] = "renew" /\ Enabled -> Goto(w, "enable")
         [] OTHER -> Done(w)
    /\ UNCHANGED <<rows, history>>

\* Deliberately wrong: an enrolment is completed by any code.
ReadSecretUnverified(w) ==
    LET secret == IF row = NoRow THEN NoSecret ELSE row.secret
    IN  /\ stage[w] = "secret"
        /\ IF op[w] = "confirm" /\ secret # NoSecret THEN Goto(w, "enable") ELSE Done(w)
        /\ UNCHANGED <<rows, history>>

\* get_secret, and what is done with it at once: handed out again by setup, compared
\* with the caller's code by the others.
ReadSecret(w) ==
    LET secret == IF row = NoRow THEN NoSecret ELSE row.secret
        match == code[w] = secret
    IN  /\ stage[w] = "secret"
        /\ CASE op[w] = "setup" /\ secret = NoSecret -> Goto(w, "mint")
             [] op[w] = "confirm" /\ match -> Goto(w, "enable")
             [] op[w] = "renew" /\ match -> Goto(w, "status")
             [] op[w] = "disable" -> Goto(w, IF match THEN "delete" ELSE "recovery")
             [] OTHER -> Done(w)
        /\ given' = IF op[w] = "setup" THEN given \cup ({secret} \ {NoSecret}) ELSE given
        /\ proven' = IF op[w] = "confirm" /\ match THEN proven \cup {secret} ELSE proven
        /\ UNCHANGED <<rows, uses, overlapped>>

\* set_pending_secret: a new secret, not enabled; recovery codes stay in the row.
Mint(w) ==
    /\ stage[w] = "mint"
    /\ \E s \in Secret \ given :
        /\ row' = [secret |-> s, enabled |-> FALSE,
                   unused |-> IF row = NoRow THEN {} ELSE row.unused]
        /\ given' = given \cup {s}
    /\ Done(w)
    /\ UNCHANGED <<live, policy, proven, uses, overlapped>>

\* Deliberately wrong: an upsert, which makes a row without a secret.
EnableUpserting(w) ==
    /\ stage[w] = "enable"
    /\ \E r \in Recovery \ given :
        /\ row' = [secret |-> IF row = NoRow THEN NoSecret ELSE row.secret,
                   enabled |-> TRUE, unused |-> {r}]
        /\ given' = given \cup {r}
    /\ Done(w)
    /\ UNCHANGED <<live, policy, proven, uses, overlapped>>

\* enable: an UPDATE, which finds no row when one was deleted meanwhile; the codes
\* are handed out all the same.
Enable(w) ==
    /\ stage[w] = "enable"
    /\ \E r \in Recovery \ given :
        /\ row' = IF row = NoRow THEN NoRow ELSE [row EXCEPT !.enabled = TRUE, !.unused = {r}]
        /\ given' = given \cup {r}
    /\ Done(w)
    /\ UNCHANGED <<live, policy, proven, uses, overlapped>>

\* Deliberately wrong: a matching code is left in the row.
TakeRecoveryKeeping(w) ==
    /\ stage[w] = "recovery"
    /\ IF row # NoRow /\ code[w] \in row.unused
       THEN /\ uses' = [uses EXCEPT ![code[w]] = @ + 1]
            /\ IF op[w] = "disable" THEN Goto(w, "delete") ELSE Done(w)
       ELSE Done(w) /\ UNCHANGED uses
    /\ UNCHANGED <<rows, given, proven, overlapped>>

\* consume_recovery_code: read and marked used under the row's lock.
TakeRecovery(w) ==
    /\ stage[w] = "recovery"
    /\ IF row # NoRow /\ code[w] \in row.unused
       THEN /\ row' = [row EXCEPT !.unused = @ \ {code[w]}]
            /\ uses' = [uses EXCEPT ![code[w]] = @ + 1]
            /\ IF op[w] = "disable" THEN Goto(w, "delete") ELSE Done(w)
       ELSE Done(w) /\ UNCHANGED <<row, uses>>
    /\ UNCHANGED <<live, policy, given, proven, overlapped>>

\* Deliberately wrong: disable deletes the row before any code is looked at.
DeleteFirst(w) ==
    /\ stage[w] \in {"delete", "secret"} /\ op[w] = "disable"
    /\ row' = NoRow
    /\ Done(w)
    /\ UNCHANGED <<live, policy, history>>

Delete(w) ==
    /\ stage[w] = "delete"
    /\ row' = NoRow
    /\ Done(w)
    /\ UNCHANGED <<live, policy, history>>

-----------------------------------------------------------------------------
\* internal_email_challenge: one live code; a new one replaces it.  The mail may not
\* be sent, which is only reported.
Challenge ==
    /\ "email" \in Effective
    /\ \E c \in Mailed \ given :
        /\ live' = c
        /\ given' = given \cup {c}
    /\ UNCHANGED <<row, policy, requests, proven, uses, overlapped>>

Expire ==
    /\ live # NoCode
    /\ live' = NoCode
    /\ UNCHANGED <<row, policy, requests, history>>

\* consume_code: GET and compare ...
ReadCode(w) ==
    /\ stage[w] = "code"
    /\ IF code[w] = live THEN Goto(w, "burn") ELSE Done(w)
    /\ UNCHANGED <<rows, history>>

\* Deliberately wrong: the accepted code is left to expire.
BurnLater(w) ==
    /\ stage[w] = "burn"
    /\ uses' = [uses EXCEPT ![code[w]] = @ + 1]
    /\ Done(w)
    /\ UNCHANGED <<rows, given, proven, overlapped>>

\* ... then DELETE, whatever the key holds by now.
Burn(w) ==
    /\ stage[w] = "burn"
    /\ live' = NoCode
    /\ uses' = [uses EXCEPT ![code[w]] = @ + 1]
    /\ Done(w)
    /\ UNCHANGED <<row, policy, given, proven, overlapped>>

-----------------------------------------------------------------------------
\* put_policy.  A selection beyond the cap, or none where a factor is required, is
\* refused; the whole cap is stored as "inherit".
PutPolicy(allowed, require) ==
    LET chosen == IF allowed = Inherit THEN Cap ELSE allowed
    IN  /\ chosen \subseteq Cap
        /\ require => chosen # {}
        /\ policy' = [allowed |-> IF Cap \subseteq chosen THEN Inherit ELSE chosen,
                      require |-> require]
        /\ UNCHANGED <<row, live, requests, history>>

Next ==
    \/ \E w \in Worker :
        \/ \E o \in Op, c \in given \cup {Wrong} : Request(w, o, c)
        \/ ReadStatus(w) \/ ReadSecret(w) \/ Mint(w) \/ Enable(w)
        \/ TakeRecovery(w) \/ Delete(w) \/ ReadCode(w) \/ Burn(w)
    \/ Challenge \/ Expire
    \/ \E a \in (SUBSET ALL_METHODS) \cup {Inherit}, r \in BOOLEAN : PutPolicy(a, r)

Spec == Init /\ [][Next]_vars

-----------------------------------------------------------------------------
TypeOK ==
    /\ row \in Row \cup {NoRow}
    /\ live \in Mailed \cup {NoCode}
    /\ policy \in [allowed : (SUBSET Cap) \cup {Inherit}, require : BOOLEAN]
    /\ given \subseteq Code
    /\ stage \in [Worker -> Stage]
    /\ op \in [Worker -> Op]
    /\ code \in [Worker -> Code \cup {Wrong}]
    /\ proven \subseteq Secret
    /\ uses \in [Recovery \cup Mailed -> Nat]
    /\ overlapped \in BOOLEAN

\* consume_recovery_code is single-use: whatever logins, disablings, renewals and new
\* enrolments overlap, no recovery code is accepted twice.
RecoverySingleUse == \A r \in Recovery : uses[r] <= 1

\* Unless requests for the account overlap, an account is enabled only under a secret
\* whose code its user has given, and setup shows one secret until then, as its comments
\* say: nobody is locked out by a secret they never had, or had and saw replaced.
EnrolmentProven ==
    ~overlapped =>
        /\ Enabled => row.secret \in proven
        /\ Pending => given \cap Secret \subseteq {row.secret} \cup proven

\* consume_code: an accepted mail code is gone, so only a request that had read it
\* before can accept it again, and none can when requests do not overlap.
MailCodeSpent ==
    \A c \in Mailed :
        /\ uses[c] > 0 => live # c
        /\ ~overlapped => uses[c] <= 1

\* A complete enrolment ends by a disable that was given its secret's code or an unused
\* recovery code, however requests overlap; or by a setup, which asks for no code at all
\* (FreshSecretAfterDisable says what the code's comment claims of that).
EnrolmentEndsStep ==
    Enabled /\ ~Enabled' =>
        \E w \in Worker :
            /\ stage[w] # "idle" /\ stage'[w] = "idle"
            /\ \/ op[w] = "setup"
               \/ op[w] = "disable" /\ code[w] \in given
                  /\ (code[w] \in Recovery => uses[code[w]] = 1)
EnrolmentEnds == [][EnrolmentEndsStep]_vars

\* The comment of setup (routers/twofa.py lines 96-97): "A fresh secret is only minted
\* when there's no pending enrollment (first time, or re-enrolling after disable)"; so
\* the secret of a complete enrolment is never replaced, only deleted by disable.
FreshSecretAfterDisable == [][Enabled /\ row' # NoRow => row'.secret = row.secret]_vars
=============================================================================
