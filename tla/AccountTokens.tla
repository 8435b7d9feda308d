--------------------------- MODULE AccountTokens ---------------------------
(***************************************************************************)
(* The invite and reset tokens (tokens.py) and every path that sets a      *)
(* password with or beside them: the invitation an administrator sends,    *)
(* the welcome mail of a new tenant's administrator, /v1/reset/request,    *)
(* /v1/invite/accept, /v1/reset/confirm and /v1/me/password.               *)
(*                                                                         *)
(* Redis holds the tokens and, per address, an index of them; a request    *)
(* talks to it, to the directory, to the audit service and to the mail     *)
(* server one call at a time, so the calls of two requests interleave.     *)
(* redis-py sends a pipeline as one transaction: Issue and Wipe are each   *)
(* one step, the SMEMBERS before Wipe is another (Find).                   *)
(*                                                                         *)
(* A token is issued under the spelling of the address that the route has: *)
(* an invitation under the spelling the administrator typed, the others    *)
(* under the directory's own.  The directory matches spellings without case, the *)
(* index of Redis does not.                                                *)
(***************************************************************************)
EXTENDS Integers, FiniteSets

CONSTANTS
    Address,      \* spellings of uids
    Canonical,    \* the spellings the directory itself holds
    Owner,        \* Owner[a]: the canonical spelling of a
    Token,        \* the tokens ever drawn (bound on how many are issued)
    Worker,       \* threads that serve these requests
    None          \* no address, no token

ASSUME AddressAssumption ==
    /\ Canonical \subseteq Address
    /\ Owner \in [Address -> Canonical]

ASSUME NoneAssumption == None \notin Address \cup Token

Kind == {"invite", "reset"}
SendingOp == {"send_invite", "reset_request", "welcome"}
SettingOp == {"invite_accept", "reset_confirm"}
Op == SendingOp \cup SettingOp \cup {"change_password"}

Stage == {"idle",
          "issue",    \* tokens.issue
          "mail",     \* mailer.send
          "peek",     \* tokens.peek
          "audit",    \* audit.emit: the write-ahead record
          "set",      \* ldap.set_password
          "find",     \* revoke_all_for: SMEMBERS
          "wipe"}     \* revoke_all_for: the pipeline of DELs

VARIABLES
    live,         \* Redis: tokens whose key exists
    kind, addr,   \* Redis: what the key of a token says
    index,        \* Redis: index[a], the set ldapmgr:byuid:a
    delivered,    \* tokens whose link has reached its addressee
    completed,    \* history: completed[t], requests that set a password with t and
                  \* were answered ok (2: more than one)
    overlapped,   \* history: tokens issued while their address was being wiped
    contested,    \* history: tokens that two requests under way had both found live
    stage, op, who, carried,   \* the request of each worker
    found,        \* found[w]: what w's SMEMBERS returned
    recorded,     \* recorded[w]: the audit service has acknowledged w's record
    answer        \* answer[w]: how w's last request ended

redis == <<live, kind, addr, index>>
history == <<delivered, completed, overlapped, contested>>
request == <<stage, op, who, carried, found, recorded, answer>>
vars == <<redis, history, request>>

Issued == {t \in Token : addr[t] # None}

Init ==
    /\ live = {}
    /\ kind = [t \in Token |-> "invite"]
    /\ addr = [t \in Token |-> None]
    /\ index = [a \in Address |-> {}]
    /\ delivered = {}
    /\ completed = [t \in Token |-> 0]
    /\ overlapped = {} /\ contested = {}
    /\ stage = [w \in Worker |-> "idle"]
    /\ op = [w \in Worker |-> "send_invite"]
    /\ who = [w \in Worker |-> None]
    /\ carried = [w \in Worker |-> None]
    /\ found = [w \in Worker |-> {}]
    /\ recorded = [w \in Worker |-> FALSE]
    /\ answer = [w \in Worker |-> "none"]

Go(w, s) == stage' = [stage EXCEPT ![w] = s]

Finish(w, result) ==
    /\ Go(w, "idle")
    /\ answer' = [answer EXCEPT ![w] = result]
    /\ who' = [who EXCEPT ![w] = None]
    /\ carried' = [carried EXCEPT ![w] = None]
    /\ found' = [found EXCEPT ![w] = {}]
    /\ recorded' = [recorded EXCEPT ![w] = FALSE]
    /\ UNCHANGED op

Arrive(w, o, a, t, s) ==
    /\ stage[w] = "idle"
    /\ Go(w, s)
    /\ op' = [op EXCEPT ![w] = o]
    /\ who' = [who EXCEPT ![w] = a]
    /\ carried' = [carried EXCEPT ![w] = t]
    /\ answer' = [answer EXCEPT ![w] = "none"]
    /\ UNCHANGED <<redis, history, found, recorded>>

-----------------------------------------------------------------------------
\* create_user of a new account, or reinvite: the spelling of the request.
SendInvite(w, a) == Arrive(w, "send_invite", a, None, "issue")

\* reset_request: get_user answers with the directory's spelling.  A throttled
\* request, an unknown address and a failing call all end in the same answer.
ResetRequest(w, a) == Arrive(w, "reset_request", Owner[a], None, "issue")

\* welcome: the tenant's provisioning asks for it, with the address as it knows it.
Welcome(w, a) == Arrive(w, "welcome", Owner[a], None, "issue")

\* Whoever holds a link follows it, as often as they like.
InviteAccept(w, t) == t \in delivered /\ Arrive(w, "invite_accept", None, t, "peek")
ResetConfirm(w, t) == t \in delivered /\ Arrive(w, "reset_confirm", None, t, "peek")

\* change_password: the caller has proved the current password by a bind, and
\* the new one satisfies the policy; a request that does not is only answered.
ChangePassword(w, a) ==
    a \in Canonical /\ Arrive(w, "change_password", a, None, "audit")

-----------------------------------------------------------------------------
\* Deliberately wrong: the token is stored and never indexed.
IssueUnindexed(w) ==
    /\ stage[w] = "issue"
    /\ \E t \in Token \ Issued :
        /\ live' = live \cup {t}
        /\ kind' = [kind EXCEPT ![t] = IF op[w] = "send_invite" THEN "invite" ELSE "reset"]
        /\ addr' = [addr EXCEPT ![t] = who[w]]
        /\ carried' = [carried EXCEPT ![w] = t]
    /\ Go(w, "mail")
    /\ UNCHANGED <<index, history, op, who, found, recorded, answer>>

\* TokenStore.issue: SETEX, SADD and EXPIRE GT in one transaction.  EXPIRE GT
\* leaves a set without an expiry as it is, so the index itself never expires.
Issue(w) ==
    /\ stage[w] = "issue"
    /\ \E t \in Token \ Issued :
        /\ live' = live \cup {t}
        /\ kind' = [kind EXCEPT ![t] = IF op[w] = "send_invite" THEN "invite" ELSE "reset"]
        /\ addr' = [addr EXCEPT ![t] = who[w]]
        /\ index' = [index EXCEPT ![who[w]] = @ \cup {t}]
        /\ carried' = [carried EXCEPT ![w] = t]
        /\ overlapped' = IF \E v \in Worker : stage[v] = "wipe" /\ who[v] = who[w]
                         THEN overlapped \cup {t} ELSE overlapped
    /\ Go(w, "mail")
    /\ UNCHANGED <<delivered, completed, contested, op, who, found, recorded, answer>>

Mail(w) ==
    /\ stage[w] = "mail"
    /\ delivered' = delivered \cup {carried[w]}
    /\ Finish(w, "ok")
    /\ UNCHANGED <<redis, completed, overlapped, contested>>

\* Deliberately wrong: the token is found, and whose it is is not kept.
PeekNobody(w) ==
    /\ stage[w] = "peek"
    /\ carried[w] \in live
    /\ Go(w, IF op[w] = "invite_accept" THEN "set" ELSE "audit")
    /\ UNCHANGED <<redis, history, op, who, carried, found, recorded, answer>>

\* v has found its token t live and has not answered.
Using(v, t) ==
    op[v] \in SettingOp /\ carried[v] = t /\ stage[v] \in {"audit", "set", "find", "wipe"}

\* TokenStore.peek: whose token is it.  invite_accept records nothing.
Peek(w) ==
    LET t == carried[w]
    IN  /\ stage[w] = "peek"
        /\ t \in live
        /\ kind[t] = (IF op[w] = "invite_accept" THEN "invite" ELSE "reset")
        /\ who' = [who EXCEPT ![w] = addr[t]]
        /\ Go(w, IF op[w] = "invite_accept" THEN "set" ELSE "audit")
        /\ contested' = IF \E v \in Worker : Using(v, t) THEN contested \cup {t} ELSE contested
        /\ UNCHANGED <<redis, delivered, completed, overlapped, op, carried, found,
                       recorded, answer>>

\* Deliberately wrong: the answer of the audit service is not looked at.
AuditUnchecked(w) ==
    /\ stage[w] = "audit"
    /\ recorded' \in {recorded, [recorded EXCEPT ![w] = TRUE]}
    /\ Go(w, "set")
    /\ UNCHANGED <<redis, history, op, who, carried, found, answer>>

Audit(w) ==
    /\ stage[w] = "audit"
    /\ recorded' = [recorded EXCEPT ![w] = TRUE]
    /\ Go(w, "set")
    /\ UNCHANGED <<redis, history, op, who, carried, found, answer>>

\* ldap.set_password, applied at the directory: change_password is done, the others
\* go on to revoke_all_for.
SetPassword(w) ==
    /\ stage[w] = "set"
    /\ \/ op[w] = "change_password" /\ Finish(w, "ok")
       \/ /\ op[w] # "change_password"
          /\ Go(w, "find")
          /\ UNCHANGED <<op, who, carried, found, recorded, answer>>
    /\ UNCHANGED <<redis, history>>

\* A call fails or refuses (an unknown or expired token, the password policy, the
\* directory, the audit service, Redis, SMTP): the request ends where it stands.  A
\* set_password or an issue that is applied and whose reply is lost ends so, too.
Fail(w) ==
    /\ stage[w] # "idle"
    /\ Finish(w, "error")
    /\ UNCHANGED <<redis, history>>

-----------------------------------------------------------------------------
\* Deliberately wrong: the token in use is spared, as if it had been consumed.
FindOthers(w) ==
    /\ stage[w] = "find"
    /\ found' = [found EXCEPT ![w] = index[who[w]] \ {carried[w]}]
    /\ Go(w, "wipe")
    /\ UNCHANGED <<redis, history, op, who, carried, recorded, answer>>

\* revoke_all_for: SMEMBERS, then one transaction that deletes what it returned
\* and the index (and whose reply may be lost).
Find(w) ==
    /\ stage[w] = "find"
    /\ found' = [found EXCEPT ![w] = index[who[w]]]
    /\ Go(w, "wipe")
    /\ UNCHANGED <<redis, history, op, who, carried, recorded, answer>>

\* Deliberately wrong: only the token that was used is deleted.
WipeUsedOnly(w) ==
    /\ stage[w] = "wipe"
    /\ live' = live \ {carried[w]}
    /\ index' = [index EXCEPT ![who[w]] = @ \ {carried[w]}]
    /\ completed' = [completed EXCEPT ![carried[w]] = IF @ = 0 THEN 1 ELSE 2]
    /\ Finish(w, "ok")
    /\ UNCHANGED <<kind, addr, delivered, overlapped, contested>>

Wipe(w) ==
    /\ stage[w] = "wipe"
    /\ live' = live \ found[w]
    /\ index' = [index EXCEPT ![who[w]] = {}]
    /\ \/ /\ completed' = [completed EXCEPT ![carried[w]] = IF @ = 0 THEN 1 ELSE 2]
          /\ Finish(w, "ok")
       \/ Finish(w, "error") /\ UNCHANGED completed
    /\ UNCHANGED <<kind, addr, delivered, overlapped, contested>>

\* The TTL of a token's key passes.  The index keeps the dead key's name.
Expire(t) ==
    /\ t \in live
    /\ live' = live \ {t}
    /\ UNCHANGED <<kind, addr, index, history, request>>

Next ==
    \/ \E w \in Worker :
        \/ \E a \in Address :
            SendInvite(w, a) \/ ResetRequest(w, a) \/ Welcome(w, a) \/ ChangePassword(w, a)
        \/ \E t \in Token : InviteAccept(w, t) \/ ResetConfirm(w, t)
        \/ Issue(w) \/ Mail(w) \/ Peek(w) \/ Audit(w) \/ SetPassword(w)
        \/ Find(w) \/ Wipe(w) \/ Fail(w)
    \/ \E t \in Token : Expire(t)

Spec == Init /\ [][Next]_vars

-----------------------------------------------------------------------------
TypeOK ==
    /\ live \in SUBSET Token
    /\ kind \in [Token -> Kind]
    /\ addr \in [Token -> Address \cup {None}]
    /\ index \in [Address -> SUBSET Token]
    /\ delivered \in SUBSET Token
    /\ completed \in [Token -> 0 .. 2]
    /\ overlapped \in SUBSET Token /\ contested \in SUBSET Token
    /\ stage \in [Worker -> Stage]
    /\ op \in [Worker -> Op]
    /\ who \in [Worker -> Address \cup {None}]
    /\ carried \in [Worker -> Token \cup {None}]
    /\ found \in [Worker -> SUBSET Token]
    /\ recorded \in [Worker -> BOOLEAN]
    /\ answer \in [Worker -> {"none", "ok", "error"}]
    /\ \A t \in live : addr[t] # None
    /\ \A w \in Worker : stage[w] # "idle" => answer[w] = "none"
    /\ \A w \in Worker : stage[w] \in {"issue", "audit", "set", "find", "wipe"}
                            => who[w] # None
    /\ \A w \in Worker :
        \/ stage[w] = "idle"
        \/ op[w] \in SendingOp /\ stage[w] = "issue"
        \/ op[w] \in SendingOp /\ stage[w] = "mail" /\ carried[w] # None
        \/ op[w] = "change_password" /\ stage[w] \in {"audit", "set"}
        \/ /\ op[w] \in SettingOp
           /\ stage[w] \in {"peek", "audit", "set", "find", "wipe"} /\ carried[w] # None

\* revoke_all_for finds tokens through the index alone: a live token that is not
\* in it can never be revoked.  Only a token issued between the two calls of a
\* revocation of its own address ends like that.
LiveTokensIndexed ==
    \A t \in live : t \in index[addr[t]] \/ t \in overlapped

\* SPECIFICATION.md section 5.2, step 2: a password set by a link ends every
\* outstanding token issued under the same spelling, the one that was used
\* included, apart from those that overlapped a revocation.
SetEndsTokens ==
    \A w \in Worker :
        stage[w] = "wipe" /\ answer'[w] = "ok"
        => \A t \in live' : addr[t] = who[w] => t \in overlapped
AnsweredSetEndsTokens == [][SetEndsTokens]_vars

\* A password is reset or changed only after the audit service has acknowledged
\* the record of it (the fail-closed write-ahead of reset_confirm and
\* change_password; invite_accept makes none).
ResetsRecorded ==
    \A w \in Worker : stage[w] \in {"set", "find", "wipe"} /\ op[w] # "invite_accept"
                        => recorded[w]

\* The comment of invite_accept: a successful set revokes the token, "so the token
\* still cannot be replayed".  A token serves two requests that are answered ok only if
\* both had found it live before either answered, or if it was issued under a
\* revocation and cannot be revoked.
ReplayOnlyByOverlap ==
    \A t \in Token : completed[t] > 1 => t \in contested \cup overlapped
=============================================================================
