-------------------------- MODULE DirectoryFailover --------------------------
(***************************************************************************)
(* The directory as LdapClient sees it: a writable master, a replica that  *)
(* lags behind it, and the circuit breaker of one instance of the service  *)
(* (failover.py, ldap_client.py).  The requests are the two that matter    *)
(* most to a tenant: granting and revoking its administrators role         *)
(* (routers/admin_roles.py).  Who may call them is the subject of          *)
(* TenantRoles; the read that settles it is like the guard's.              *)
(*                                                                         *)
(* A session is three steps of its request: it lists the endpoints         *)
(* (_endpoints), dials them in turn, and with the answer of a dial tells   *)
(* the breaker and, over a connection, searches or modifies.  Threads      *)
(* share the breaker without a lock.                                       *)
(***************************************************************************)
EXTENDS Naturals, Sequences, FiniteSets

CONSTANTS
    Person,       \* principals
    Nobody,       \* the target of no request
    Worker,       \* threads that serve requests
    Cooldown,     \* failover_cooldown_s, in ticks
    Replicated    \* whether a replica is configured

ASSUME ConstantsAssumption ==
    /\ Nobody \notin Person
    /\ Cooldown \in Nat \ {0}
    /\ Replicated \in BOOLEAN

Server == {"master", "replica"}

Stage == {"idle",
          "guard",    \* list_members of administrators, or is_tenant_member
          "audit",    \* audit.emit
          "write"}    \* remove_member or add_member

VARIABLES
    reachable,    \* the master answers; a dial of the replica may go either way
    held,         \* held[s]: the members of administrators that server s holds
    cooling,      \* ticks until the clock reaches _down_until
    stage, op, target,   \* the request of each worker
    todo,         \* todo[w]: the endpoints w's session has yet to try, as listed
    dialled,      \* dialled[w]: how the dial of the first of them ended
    source,       \* source[w]: the server that answered w's guard
    excused       \* history: workers whose guard no longer holds, because an
                  \* administrator has left since, or because the replica answered it
                  \* and the breaker has closed since its session began

directory == <<reachable, held>>
request == <<stage, op, target, todo, dialled, source>>
vars == <<directory, cooling, request, excused>>

Init ==
    /\ reachable = TRUE
    /\ \E A \in SUBSET Person : A # {} /\ held = [s \in Server |-> A]
    /\ cooling = 0
    /\ stage = [w \in Worker |-> "idle"]
    /\ op = [w \in Worker |-> "none"]
    /\ target = [w \in Worker |-> Nobody]
    /\ todo = [w \in Worker |-> <<>>]
    /\ dialled = [w \in Worker |-> "no"]
    /\ source = [w \in Worker |-> "master"]
    /\ excused = {}

\* CircuitBreaker.is_degraded, and should_try_primary, which is its negation.
Degraded == cooling > 0

-----------------------------------------------------------------------------
Finish(w) ==
    /\ stage' = [stage EXCEPT ![w] = "idle"]
    /\ op' = [op EXCEPT ![w] = "none"]
    /\ target' = [target EXCEPT ![w] = Nobody]
    /\ todo' = [todo EXCEPT ![w] = <<>>]
    /\ dialled' = [dialled EXCEPT ![w] = "no"]
    /\ source' = [source EXCEPT ![w] = "master"]

Arrive(w, o, u, s) ==
    /\ stage[w] = "idle"
    /\ stage' = [stage EXCEPT ![w] = s]
    /\ op' = [op EXCEPT ![w] = o]
    /\ target' = [target EXCEPT ![w] = u]
    /\ excused' = excused \ {w}
    /\ UNCHANGED <<directory, cooling, todo, dialled, source>>

AddMember(w, u) == Arrive(w, "grant", u, "guard")
RemoveMember(w, u) == Arrive(w, "revoke", u, "guard")

\* remove_member compares the role of its path with "administrators" letter by letter,
\* the directory without case: a path that spells it otherwise means the same group
\* and is not asked to pass the guard.
RemoveUnguarded(w, u) == Arrive(w, "unguarded", u, "audit")

-----------------------------------------------------------------------------
\* Workers whose guard the replica may answer, or has answered, and who have not yet
\* listed the endpoints of their write.
OnReplica == {w \in Worker :
    \/ stage[w] = "guard" /\ todo[w] # <<>>
    \/ source[w] = "replica" /\ stage[w] \in {"audit", "write"} /\ todo[w] = <<>>}

\* CircuitBreaker.reset closes the breaker, if it is open, on all of them.
ClosedOn == IF Degraded THEN OnReplica ELSE {}

\* CircuitBreaker.trip, by w: a read goes on with the replica.
Trip(w) ==
    /\ cooling' = Cooldown
    /\ excused' = excused \ {w}

\* _endpoints of a read, in the order in which they are tried.
ReadEndpoints ==
    IF ~Replicated THEN <<"master">>
    ELSE IF Degraded THEN <<"replica", "master">>
    ELSE <<"master", "replica">>

OpenRead(w) ==
    /\ stage[w] = "guard" /\ todo[w] = <<>>
    /\ todo' = [todo EXCEPT ![w] = ReadEndpoints]
    /\ UNCHANGED <<directory, cooling, stage, op, target, dialled, source, excused>>

\* Deliberately wrong: writes are tried whatever the breaker says.
OpenWriteAnyway(w) ==
    /\ stage[w] = "write" /\ todo[w] = <<>>
    /\ todo' = [todo EXCEPT ![w] = <<"master">>]
    /\ UNCHANGED <<directory, cooling, stage, op, target, dialled, source, excused>>

\* Deliberately wrong: a write that is refused trips the breaker again.
OpenWriteTripping(w) ==
    /\ stage[w] = "write" /\ todo[w] = <<>>
    /\ \/ /\ Replicated /\ Degraded
          /\ Finish(w)
          /\ Trip(w)
       \/ /\ ~(Replicated /\ Degraded)
          /\ todo' = [todo EXCEPT ![w] = <<"master">>]
          /\ UNCHANGED <<cooling, stage, op, target, dialled, source, excused>>
    /\ UNCHANGED directory

\* _endpoints of a write: MasterUnavailable, a 503, while the breaker is open.
OpenWrite(w) ==
    /\ stage[w] = "write" /\ todo[w] = <<>>
    /\ \/ /\ Replicated /\ Degraded
          /\ Finish(w)
       \/ /\ ~(Replicated /\ Degraded)
          /\ todo' = [todo EXCEPT ![w] = <<"master">>]
          /\ UNCHANGED <<stage, op, target, dialled, source>>
    /\ UNCHANGED <<directory, cooling, excused>>

Dial(w) ==
    /\ todo[w] # <<>> /\ dialled[w] = "no"
    /\ \E answer \in {"ok", "failed"} :
        /\ Head(todo[w]) = "master" => (answer = "ok") = reachable
        /\ dialled' = [dialled EXCEPT ![w] = answer]
    /\ UNCHANGED <<directory, cooling, stage, op, target, todo, source, excused>>

\* The dial failed: only the master's failure trips the breaker.  With no endpoint
\* left the request ends in an error.
Redial(w) ==
    /\ dialled[w] = "failed"
    /\ \/ Head(todo[w]) = "master" /\ Trip(w)
       \/ Head(todo[w]) = "replica" /\ UNCHANGED <<cooling, excused>>
    /\ \/ /\ Len(todo[w]) > 1
          /\ todo' = [todo EXCEPT ![w] = Tail(@)]
          /\ dialled' = [dialled EXCEPT ![w] = "no"]
          /\ UNCHANGED <<stage, op, target, source>>
       \/ /\ Len(todo[w]) = 1
          /\ Finish(w)
    /\ UNCHANGED directory

-----------------------------------------------------------------------------
\* The last-administrator guard counts the members that the server it reached holds.
\* For a grant the read, is_tenant_member, decides only whether a mail goes out.  Only
\* the master's answer resets the breaker.
GuardLastAdmin(w) ==
    LET server == Head(todo[w])
    IN  /\ stage[w] = "guard" /\ dialled[w] = "ok"
        /\ \/ server = "master" /\ cooling' = 0
              /\ excused' = (excused \cup ClosedOn) \ {w}
           \/ server = "replica" /\ UNCHANGED <<cooling, excused>>
        /\ \/ /\ op[w] = "revoke" /\ Cardinality(held[server]) <= 1
              /\ Finish(w)
           \/ /\ op[w] = "grant" \/ Cardinality(held[server]) > 1
              /\ stage' = [stage EXCEPT ![w] = "audit"]
              /\ todo' = [todo EXCEPT ![w] = <<>>]
              /\ dialled' = [dialled EXCEPT ![w] = "no"]
              /\ source' = [source EXCEPT ![w] = server]
              /\ UNCHANGED <<op, target>>
        /\ UNCHANGED directory

\* Deliberately wrong: the write goes to the endpoints of a read.
AuditThenAnywhere(w) ==
    /\ stage[w] = "audit"
    /\ stage' = [stage EXCEPT ![w] = "write"]
    /\ todo' = [todo EXCEPT ![w] = ReadEndpoints]
    /\ UNCHANGED <<directory, cooling, op, target, dialled, source, excused>>

Audit(w) ==
    /\ stage[w] = "audit"
    /\ stage' = [stage EXCEPT ![w] = "write"]
    /\ UNCHANGED <<directory, cooling, op, target, todo, dialled, source, excused>>

\* MODIFY_DELETE or MODIFY_ADD of one member, at the master, or its refusal
\* (noSuchAttribute, attributeOrValueExists, or the server's own).
Modify(w) ==
    /\ stage[w] = "write" /\ dialled[w] = "ok"
    /\ cooling' = 0
    /\ \/ /\ op[w] \in {"revoke", "unguarded"} /\ target[w] \in held["master"]
          /\ held' = [held EXCEPT !["master"] = @ \ {target[w]}]
          /\ excused' = excused \cup ClosedOn
                              \cup {v \in Worker : stage[v] \in {"audit", "write"}}
       \/ /\ op[w] = "grant"
          /\ held' = [held EXCEPT !["master"] = @ \cup {target[w]}]
          /\ excused' = excused \cup ClosedOn
       \/ /\ excused' = excused \cup ClosedOn
          /\ UNCHANGED held
    /\ Finish(w)
    /\ UNCHANGED reachable

\* The audit service does not acknowledge, the server breaks off, the thread dies.
Fail(w) ==
    /\ stage[w] # "idle"
    /\ Finish(w)
    /\ UNCHANGED <<directory, cooling, excused>>

-----------------------------------------------------------------------------
Tick ==
    /\ Degraded
    /\ cooling' = cooling - 1
    /\ excused' = IF cooling = 1 THEN excused \cup OnReplica ELSE excused
    /\ UNCHANGED <<directory, request>>

\* The master goes down, or comes back.
Flip ==
    /\ reachable' = ~reachable
    /\ UNCHANGED <<held, cooling, request, excused>>

\* The replica catches up.
Replicate ==
    /\ reachable
    /\ held' = [held EXCEPT !["replica"] = held["master"]]
    /\ UNCHANGED <<reachable, cooling, request, excused>>

Next ==
    \/ \E w \in Worker :
        \/ \E u \in Person : AddMember(w, u) \/ RemoveMember(w, u) \/ RemoveUnguarded(w, u)
        \/ OpenRead(w) \/ OpenWrite(w) \/ Dial(w) \/ Redial(w)
        \/ GuardLastAdmin(w) \/ Audit(w) \/ Modify(w) \/ Fail(w)
    \/ Tick \/ Flip \/ Replicate

Spec == Init /\ [][Next]_vars

\* The clock of the breaker runs; nothing else has to happen.
FairSpec == Spec /\ WF_vars(Tick)

-----------------------------------------------------------------------------
TypeOK ==
    /\ reachable \in BOOLEAN
    /\ held \in [Server -> SUBSET Person]
    /\ cooling \in 0 .. Cooldown
    /\ stage \in [Worker -> Stage]
    /\ op \in [Worker -> {"none", "grant", "revoke", "unguarded"}]
    /\ target \in [Worker -> Person \cup {Nobody}]
    /\ todo \in [Worker -> {<<>>, <<"master">>, <<"replica">>,
                            <<"master", "replica">>, <<"replica", "master">>}]
    /\ dialled \in [Worker -> {"no", "ok", "failed"}]
    /\ source \in [Worker -> Server]
    /\ excused \in SUBSET Worker
    /\ \A w \in Worker :
        /\ stage[w] # "idle" => target[w] \in Person
        /\ dialled[w] # "no" => todo[w] # <<>>
        /\ stage[w] \in {"idle", "audit"} => todo[w] = <<>>
        /\ stage[w] = "write" => todo[w] \in {<<>>, <<"master">>}

\* What is left of SPECIFICATION.md lines 130-131, "the last administrator cannot be
\* removed", with a replica that lags.  A removal that leaves nobody never met the guard,
\* because its path spells the role otherwise; or its guard read the replica and the
\* breaker has closed between that read and the write; or another removal came between.
\* While the breaker is open no guarded removal goes through on the replica's word.
LastAdminLost ==
    held["master"] # {} /\ held'["master"] = {}
    => \E w \in Worker :
         /\ stage[w] = "write" /\ stage'[w] = "idle"
         /\ op[w] = "unguarded" \/ (op[w] = "revoke" /\ w \in excused)
LastAdminLostOnlyByLag == [][LastAdminLost]_vars

\* failover.py: "after the cooldown the next operation re-probes the primary".  Once the
\* master stays reachable the breaker closes for good, whatever is asked meanwhile and
\* whatever the replica does.
BreakerCloses == <>[]reachable => <>[](cooling = 0)
=============================================================================
