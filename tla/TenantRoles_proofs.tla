------------------------- MODULE TenantRoles_proofs -------------------------
(***************************************************************************)
(* Proofs about TenantRoles, for every tenant, every number of overlapping *)
(* requests, every set of submitted role sets and every spelling.          *)
(***************************************************************************)
EXTENDS TenantRoles, FiniteSetTheorems, TLAPS

Protected == SystemRoles \cup {Admins}

Step(w) == (NextArrival(w) \/ NextCall(w)) /\ Watched(w)

-----------------------------------------------------------------------------
\* What every admitted request has passed before its first call: the refusals
\* each route makes from the request alone, as far as it recognises the role.
Admitted(w, j, s, a, d) ==
    /\ Arrive(w, j, s, a, d)
    /\ s \in {"target", "known", "guard", "audit"}
    /\ j.literal => a \cap SystemRoles = {}
    /\ j.literal /\ Admins \in d => s = "guard" /\ ~(j.uid = j.actor /\ j.exact)
    /\ ~j.literal => a \cup d \subseteq j.roles /\ s = "audit"
    /\ j.op = "delete_role" /\ j.literal => j.roles \cap Protected = {}
    /\ j.op \in GroupOp => s = "audit"
    /\ s = "target" => j.op \in {"set_user_roles", "remove_user"}
    /\ j.op # "invite_new"

\* Every route admits a request only in that way.
LEMMA ArrivalAdmitted ==
    ASSUME NEW w \in Worker, NextArrival(w)
    PROVE  \E j \in Job, s \in Stage, a \in SUBSET Role, d \in SUBSET Role :
              Admitted(w, j, s, a, d)
  <1> USE DEF GroupOp
  <1>1. PICK actor \in Person :
           \/ \E r \in NewRoles : CreateRole(w, r)
           \/ \E r \in Role : \E l \in Spellings(r \in SystemRoles \cup {Admins}) :
                DeleteRole(w, r, l)
           \/ \E u \in Person :
               \/ \E r \in Role : \E l \in Spellings(r \in SystemRoles) : AddMember(w, u, r, l)
               \/ \E r \in Role : \E l \in Spellings(r \in SystemRoles \cup {Admins}) :
                    \E e \in Spellings(l /\ r = Admins /\ u = actor) :
                      RemoveMember(w, actor, u, r, e, l)
               \/ \E R \in RoleSets : CreateUser(w, u, R) \/ SetUserRoles(w, actor, u, R)
               \/ RemoveUser(w, actor, u)
    BY DEF NextArrival, Callers
  <1>2. ASSUME NEW c PROVE Spellings(c) \subseteq BOOLEAN
    BY RolesAssumption DEF Spellings
  <1>3. ASSUME NEW o \in Op \ GroupOp, NEW p \in Person \cup {None}, NEW u \in Person,
               NEW R \in SUBSET Role, NEW e \in BOOLEAN, NEW l \in BOOLEAN
        PROVE  Request(o, p, u, R, e, l) \in Job
    BY DEF Request, Job
  <1>4. ASSUME NEW o \in GroupOp, NEW R \in SUBSET Role, NEW l \in BOOLEAN
        PROVE  Request(o, None, None, R, TRUE, l) \in Job
    BY DEF Request, Job
  <1>5. {"target", "known", "guard", "audit"} \subseteq Stage
    BY DEF Stage
  <1> DEFINE Goal == \E j \in Job, s \in Stage, a \in SUBSET Role, d \in SUBSET Role :
                        Admitted(w, j, s, a, d)
  <1>6. ASSUME NEW r \in NewRoles, CreateRole(w, r) PROVE Goal
    <2>1. Admitted(w, Request("create_role", None, None, {r}, TRUE, TRUE), "audit", {}, {})
      BY <1>6 DEF CreateRole, Admitted, Request
    <2> QED BY <2>1, <1>4, <1>5, RolesAssumption
  <1>7. ASSUME NEW r \in Role, NEW l \in BOOLEAN, DeleteRole(w, r, l) PROVE Goal
    <2>1. Admitted(w, Request("delete_role", None, None, {r}, TRUE, l), "audit", {}, {})
      BY <1>7 DEF DeleteRole, Admitted, Request, Protected
    <2> QED BY <2>1, <1>4, <1>5
  <1>8. ASSUME NEW u \in Person, NEW r \in Role, NEW l \in BOOLEAN, AddMember(w, u, r, l)
        PROVE  Goal
    <2>1. Admitted(w, Request("add_member", None, u, {r}, TRUE, l), "audit", {r}, {})
      BY <1>8 DEF AddMember, Admitted, Request
    <2>2. Request("add_member", None, u, {r}, TRUE, l) \in Job
      BY <1>3 DEF Op
    <2> QED BY <2>1, <2>2, <1>5
  <1>9. ASSUME NEW u \in Person, NEW r \in Role, NEW e \in BOOLEAN, NEW l \in BOOLEAN,
               RemoveMember(w, actor, u, r, e, l)
        PROVE  Goal
    <2> DEFINE q == Request("remove_member", IF l /\ r = Admins THEN actor ELSE None,
                            u, {r}, e, l)
               t == IF l /\ r = Admins THEN "guard" ELSE "audit"
    <2>1. Admitted(w, q, t, {}, {r})
      BY <1>9 DEF RemoveMember, Admitted, Request
    <2>2. q \in Job
      BY <1>3 DEF Op
    <2>3. t \in Stage
      BY <1>5
    <2> QED BY <2>1, <2>2, <2>3
  <1>10. ASSUME NEW u \in Person, NEW R \in RoleSets, CreateUser(w, u, R) PROVE Goal
    <2>1. Admitted(w, Request("create_user", None, u, R, TRUE, TRUE), "known", {}, {})
      BY <1>10 DEF CreateUser, Admitted, Request
    <2>2. Request("create_user", None, u, R, TRUE, TRUE) \in Job
      BY <1>3, RolesAssumption DEF Op
    <2> QED BY <2>1, <2>2, <1>5
  <1>11. ASSUME NEW u \in Person, NEW R \in RoleSets, SetUserRoles(w, actor, u, R) PROVE Goal
    <2>1. Admitted(w, Request("set_user_roles", actor, u, R, TRUE, TRUE), "target", {}, {})
      BY <1>11 DEF SetUserRoles, Admitted, Request
    <2>2. Request("set_user_roles", actor, u, R, TRUE, TRUE) \in Job
      BY <1>3, RolesAssumption DEF Op
    <2> QED BY <2>1, <2>2, <1>5
  <1>12. ASSUME NEW u \in Person, RemoveUser(w, actor, u) PROVE Goal
    <2>1. Admitted(w, Request("remove_user", actor, u, {}, TRUE, TRUE), "target", {}, {})
      BY <1>12 DEF RemoveUser, Admitted, Request
    <2>2. Request("remove_user", actor, u, {}, TRUE, TRUE) \in Job
      BY <1>3 DEF Op
    <2> QED BY <2>1, <2>2, <1>5
  <1> HIDE DEF Goal
  <1>13. Goal
    BY <1>1, <1>2, <1>6, <1>7, <1>8, <1>9, <1>10, <1>11, <1>12
  <1> QED BY <1>13 DEF Goal

-----------------------------------------------------------------------------
\* The two continuations of create_user carry the same request.
LEMMA InviteOpsAreJobs ==
    ASSUME NEW j \in Job, j.op = "create_user", NEW o \in {"invite_new", "add_existing"}
    PROVE  /\ [j EXCEPT !.op = o] \in Job
           /\ [j EXCEPT !.op = o].op = o
           /\ [j EXCEPT !.op = o].literal = j.literal
           /\ j.roles \in SUBSET Role
           /\ j.uid \in Person
  BY DEF Job, Op, GroupOp

LEMMA JobParts ==
    ASSUME NEW j \in Job
    PROVE  /\ j.op \in Op /\ j.roles \in SUBSET Role
           /\ j.exact \in BOOLEAN /\ j.literal \in BOOLEAN
           /\ j.op \notin GroupOp => j.uid \in Person
  BY DEF Job, Op, GroupOp

LEMMA StaleTyped ==
    ASSUME NEW w \in Worker, Watched(w)
    PROVE  stale' \in [Worker -> SUBSET {"count", "roles"}]
  BY DEF Watched, Relies

LEMMA TypeInit == Init => TypeOK
  BY PersonAssumption DEF Init, TypeOK, Stage

LEMMA TypeStep == TypeOK /\ [Next]_vars => TypeOK'
  <1>1. ASSUME TypeOK, [Next]_vars PROVE TypeOK'
    <2> USE <1>1, RolesAssumption, PersonAssumption DEF TypeOK
    <2>1. ASSUME NEW w \in Worker, NextArrival(w), Watched(w) PROVE TypeOK'
      <3>1. PICK j \in Job, s \in Stage, a \in SUBSET Role, d \in SUBSET Role :
               Arrive(w, j, s, a, d) /\ s \in {"target", "known", "guard", "audit"}
        BY <2>1, ArrivalAdmitted DEF Admitted
      <3>2. stale' \in [Worker -> SUBSET {"count", "roles"}]
        BY <2>1, StaleTyped
      <3> QED BY <3>1, <3>2 DEF Arrive, Proceed, directory
    <2>2. ASSUME NEW w \in Worker, NextCall(w), Watched(w) PROVE TypeOK'
      <3>0. stale' \in [Worker -> SUBSET {"count", "roles"}]
        BY <2>2, StaleTyped
      <3> USE <3>0
      <3>1. CASE LookUpInvitee(w)
        <4>0. job[w] \in Job /\ job[w].op = "create_user" /\ job[w].roles \in SUBSET Role
          BY <3>1, JobParts DEF LookUpInvitee
        <4>1. PICK o \in {"invite_new", "add_existing"}, a \in SUBSET job[w].roles :
                 /\ job' = [job EXCEPT ![w] = [job[w] EXCEPT !.op = o]]
                 /\ Proceed(w, "audit", a, {})
          BY <3>1 DEF LookUpInvitee
        <4>2. [job[w] EXCEPT !.op = o] \in Job
          BY <4>0, InviteOpsAreJobs
        <4> QED
          BY <3>1, <4>0, <4>1, <4>2 DEF LookUpInvitee, Proceed, directory, Stage
      <3>2. CASE LookUpMember(w)
        BY <3>2 DEF LookUpMember, Proceed, directory, Stage, RolesOf
      <3>3. CASE LookUpLeaver(w)
        BY <3>3 DEF LookUpLeaver, Proceed, directory, Stage, RolesOf
      <3>4. CASE CheckInviteRoles(w)
        BY <3>4 DEF CheckInviteRoles, Proceed, directory, Stage
      <3>5. CASE DiffRoles(w)
        BY <3>5, JobParts DEF DiffRoles, Proceed, directory, Stage
      <3>6. CASE GuardLastAdmin(w)
        BY <3>6 DEF GuardLastAdmin, Proceed, directory, Stage
      <3>7. CASE Refuse(w)
        BY <3>7 DEF Refuse, Finish, Proceed, directory, Stage
      <3>8. CASE Audit(w)
        <4>1. job[w] \in Job /\ stage[w] = "audit"
          BY <3>8 DEF Audit
        <4>2. /\ AuditRecord(w) \in SUBSET Change
              /\ FirstWrite(w) \in {"group", "account", "write"}
              /\ FirstWrite(w) # "group" => job[w].uid \in Person
          BY <4>1, JobParts DEF AuditRecord, Change, FirstWrite, Op, GroupOp
        <4> QED BY <3>8, <4>1, <4>2 DEF Audit, Proceed, directory, Stage
      <3>9. CASE WriteGroup(w)
        BY <3>9, JobParts DEF WriteGroup, Finish, Proceed, Stage
      <3>10. CASE WriteAccount(w)
        BY <3>10 DEF WriteAccount, Continue, Finish, Proceed, Stage
      <3>11. CASE WriteGrant(w)
        <4>1. job[w].uid \in Person
          BY <3>11 DEF WriteGrant
        <4>2. members' \in [Role -> SUBSET (Person \cup Service)]
          BY <3>11, <4>1 DEF WriteGrant
        <4> QED BY <3>11, <4>1, <4>2 DEF WriteGrant, Continue, Finish, Proceed, Stage
      <3>12. CASE WriteRevoke(w)
        <4>1. members' \in [Role -> SUBSET (Person \cup Service)]
          BY <3>12 DEF WriteRevoke
        <4> QED BY <3>12, <4>1 DEF WriteRevoke, Continue, Finish, Proceed, Stage
      <3>13. CASE WriteNothing(w)
        BY <3>13 DEF WriteNothing, Finish, Proceed, directory, Stage
      <3>14. CASE WriteFails(w)
        BY <3>14 DEF WriteFails, Finish, Proceed, directory, Stage
      <3>15. CASE Purge(w)
        BY <3>15 DEF Purge, Finish, Proceed, directory, Stage
      <3> QED
        BY <2>2, <3>1, <3>2, <3>3, <3>4, <3>5, <3>6, <3>7, <3>8, <3>9, <3>10, <3>11,
           <3>12, <3>13, <3>14, <3>15 DEF NextCall
    <2>3. CASE UNCHANGED vars
      BY <2>3 DEF vars, directory, request
    <2> QED BY <2>1, <2>2, <2>3 DEF Next
  <1> QED BY <1>1

\* Every variable keeps its type, and an active worker holds a request.
THEOREM TypeCorrect == Spec => []TypeOK
  BY TypeInit, TypeStep, PTL DEF Spec

-----------------------------------------------------------------------------
\* What the routes' refusals, and the record made before the first write, have
\* established by the time a request writes.
SafeRequest(w) ==
    stage[w] # "idle" =>
      /\ job[w].literal => add[w] \cap SystemRoles = {}
      /\ ~job[w].literal => add[w] \cup drop[w] \subseteq job[w].roles
      /\ stage[w] \in {"target", "known"} => job[w].literal
      /\ stage[w] = "target" /\ job[w].op = "create_user" => job[w].roles \cap SystemRoles = {}
      /\ job[w].op \in GroupOp => stage[w] \in {"audit", "group"}
      /\ job[w].op = "delete_role" /\ job[w].literal => job[w].roles \cap Protected = {}
      /\ job[w].op = "invite_new" => drop[w] = {}
      /\ stage[w] = "account" => job[w].op = "invite_new"
      /\ stage[w] \in {"guard", "audit", "write"} /\ job[w].literal /\ Admins \in drop[w]
           => ~(job[w].uid = job[w].actor /\ job[w].exact)
      /\ stage[w] \in {"account", "write"}
           => {"grant"} \X add[w] \subseteq logged[w] /\ {"revoke"} \X drop[w] \subseteq logged[w]
      /\ stage[w] = "group"
           => job[w].op \in GroupOp /\ {job[w].op} \X job[w].roles \subseteq logged[w]

SafeInv == TypeOK /\ \A w \in Worker : SafeRequest(w)

\* A step of one worker leaves the requests of the others alone.
LEMMA OthersStay ==
    ASSUME TypeOK, NEW w \in Worker, NEW v \in Worker, v # w,
           NextArrival(w) \/ NextCall(w)
    PROVE  /\ stage'[v] = stage[v] /\ add'[v] = add[v] /\ drop'[v] = drop[v]
           /\ job'[v] = job[v] /\ logged'[v] = logged[v]
  <1>1. CASE NextArrival(w)
    BY <1>1, ArrivalAdmitted DEF Admitted, Arrive, Proceed, TypeOK
  <1>2. CASE NextCall(w)
    BY <1>2 DEF NextCall, LookUpInvitee, LookUpMember, LookUpLeaver, CheckInviteRoles,
          DiffRoles, GuardLastAdmin, Refuse, Audit, WriteGroup, WriteAccount, WriteGrant,
          WriteRevoke, WriteNothing, WriteFails, Purge, Continue, Finish,
          Proceed, TypeOK
  <1> QED BY <1>1, <1>2

LEMMA OthersKeep ==
    ASSUME TypeOK, NEW w \in Worker, NEW v \in Worker, v # w,
           NextArrival(w) \/ NextCall(w), SafeRequest(v)
    PROVE  SafeRequest(v)'
  BY OthersStay DEF SafeRequest

LEMMA SafeInvInductive == SafeInv /\ [Next]_vars => SafeInv'
  <1> SUFFICES ASSUME SafeInv, TypeOK', [Next]_vars PROVE SafeInv'
    BY TypeStep DEF SafeInv
  <1> USE RolesAssumption
  <1>1. ASSUME NEW w \in Worker, NextArrival(w) PROVE SafeInv'
    <2>1. PICK j \in Job, s \in Stage, a \in SUBSET Role, d \in SUBSET Role :
             Admitted(w, j, s, a, d)
      BY <1>1, ArrivalAdmitted
    <2>2. /\ stage'[w] = s /\ add'[w] = a /\ drop'[w] = d /\ job'[w] = j
      BY <2>1 DEF Admitted, Arrive, Proceed, SafeInv, TypeOK
    <2>3. j.literal \in BOOLEAN
      BY JobParts
    <2>4. SafeRequest(w)'
      BY <2>1, <2>2, <2>3 DEF SafeRequest, Admitted
    <2>5. \A v \in Worker : SafeRequest(v)'
      BY <1>1, <2>4, OthersKeep DEF SafeInv
    <2> QED BY <2>5 DEF SafeInv
  <1>2. ASSUME NEW w \in Worker, NextCall(w) PROVE SafeInv'
    <2> USE DEF SafeInv
    <2>1. SafeRequest(w) /\ TypeOK
      OBVIOUS
    <2>2. SUFFICES SafeRequest(w)'
      BY <1>2, OthersKeep
    <2>3. ASSUME stage'[w] = "idle" PROVE SafeRequest(w)'
      BY <2>3 DEF SafeRequest
    <2>4. CASE Refuse(w) \/ WriteNothing(w) \/ WriteFails(w) \/ Purge(w) \/ WriteGroup(w)
      BY <2>4, <2>3 DEF Refuse, WriteNothing, WriteFails, Purge, WriteGroup, Finish, Proceed,
            TypeOK
    <2>5. CASE LookUpInvitee(w) \/ LookUpMember(w) \/ LookUpLeaver(w) \/ CheckInviteRoles(w)
                 \/ DiffRoles(w) \/ GuardLastAdmin(w)
      <3>1. UNCHANGED logged
        BY <2>5 DEF LookUpInvitee, LookUpMember, LookUpLeaver, CheckInviteRoles, DiffRoles,
              GuardLastAdmin
      <3>2. CASE LookUpInvitee(w)
        <4>1. PICK o \in {"invite_new", "add_existing"}, a \in SUBSET job[w].roles :
                 /\ job' = [job EXCEPT ![w] = [job[w] EXCEPT !.op = o]]
                 /\ Proceed(w, "audit", a, {})
          BY <3>2 DEF LookUpInvitee
        <4>2. job[w] \in Job /\ job[w].op = "create_user" /\ stage[w] = "target"
          BY <3>2, <2>1 DEF LookUpInvitee, TypeOK
        <4>3. /\ stage'[w] = "audit" /\ add'[w] = a /\ drop'[w] = {}
              /\ job'[w].op = o /\ job'[w].literal = job[w].literal
          BY <4>1, <4>2, <2>1, InviteOpsAreJobs DEF Proceed, TypeOK
        <4>4. job[w].roles \cap SystemRoles = {} /\ job[w].literal
          BY <4>2, <2>1 DEF SafeRequest
        <4> QED BY <4>1, <4>3, <4>4 DEF SafeRequest, GroupOp
      <3>3. CASE LookUpMember(w)
        BY <3>3, <3>1, <2>1 DEF LookUpMember, Proceed, SafeRequest, TypeOK, GroupOp
      <3>4. CASE LookUpLeaver(w)
        BY <3>4, <3>1, <2>1 DEF LookUpLeaver, Proceed, SafeRequest, TypeOK, GroupOp
      <3>5. CASE CheckInviteRoles(w)
        BY <3>5, <3>1, <2>1 DEF CheckInviteRoles, Proceed, SafeRequest, TypeOK, GroupOp
      <3>6. CASE DiffRoles(w)
        BY <3>6, <3>1, <2>1 DEF DiffRoles, Proceed, SafeRequest, TypeOK, GroupOp
      <3>7. CASE GuardLastAdmin(w)
        BY <3>7, <3>1, <2>1 DEF GuardLastAdmin, Proceed, SafeRequest, TypeOK
      <3> QED BY <2>5, <3>2, <3>3, <3>4, <3>5, <3>6, <3>7
    <2>6. CASE Audit(w)
      <3>1. /\ stage'[w] = FirstWrite(w) /\ add'[w] = add[w] /\ drop'[w] = drop[w]
            /\ job'[w] = job[w] /\ logged'[w] = AuditRecord(w) /\ stage[w] = "audit"
        BY <2>6, <2>1 DEF Audit, Proceed, TypeOK
      <3>2. CASE job[w].op \in GroupOp
        BY <3>1, <3>2, <2>1 DEF FirstWrite, AuditRecord, SafeRequest, GroupOp
      <3>3. CASE job[w].op \notin GroupOp
        <4>1. FirstWrite(w) \in {"account", "write"}
              /\ (FirstWrite(w) = "account" => job[w].op = "invite_new")
          BY <3>3 DEF FirstWrite, GroupOp
        <4>2. AuditRecord(w) = ({"grant"} \X add[w]) \cup ({"revoke"} \X drop[w])
          BY <3>3 DEF AuditRecord, GroupOp
        <4> QED BY <3>1, <3>3, <4>1, <4>2, <2>1 DEF SafeRequest, GroupOp
      <3> QED BY <3>2, <3>3
    <2>8. CASE WriteAccount(w) \/ WriteGrant(w) \/ WriteRevoke(w)
      <3>1. job[w] \in Job /\ stage[w] \in {"account", "write"}
        BY <2>8, <2>1 DEF WriteAccount, WriteGrant, WriteRevoke, TypeOK
      <3>2. PICK a \in SUBSET add[w], d \in SUBSET drop[w] : Continue(w, a, d) \/ Finish(w)
        BY <2>8 DEF WriteAccount, WriteGrant, WriteRevoke
      <3>3. job[w].op \notin GroupOp
        BY <3>1, <2>1 DEF SafeRequest
      <3>4. CASE Finish(w)
        BY <3>4, <2>3, <2>1 DEF Finish, Proceed, TypeOK
      <3>5. CASE Proceed(w, "write", a, d) /\ UNCHANGED <<job, logged>>
        BY <3>5, <3>1, <3>3, <2>1 DEF Proceed, SafeRequest, TypeOK
      <3>6. CASE Proceed(w, "purge", {}, {}) /\ job[w].op = "remove_user" /\ UNCHANGED <<job, logged>>
        BY <3>6, <3>1, <3>3, <2>1 DEF Proceed, SafeRequest, TypeOK
      <3> QED BY <3>2, <3>4, <3>5, <3>6 DEF Continue
    <2> QED BY <1>2, <2>4, <2>5, <2>6, <2>8 DEF NextCall
  <1>4. CASE UNCHANGED vars
    BY <1>4 DEF vars, directory, request, SafeInv, SafeRequest
  <1> QED BY <1>1, <1>2, <1>4 DEF Next

LEMMA SafeInit == Init => SafeInv
  BY TypeInit DEF Init, SafeInv, SafeRequest

\* What a request has been refused for, it never does later.
THEOREM RequestsSafe == Spec => []SafeInv
  BY SafeInit, SafeInvInductive, PTL DEF Spec

-----------------------------------------------------------------------------
\* A request under way that names the role in a spelling of its own.
Respelled(w, r) == stage[w] # "idle" /\ ~job[w].literal /\ r \in job[w].roles

LEMMA RespelledExposed ==
    ASSUME NEW w \in Worker, NEW r, Respelled(w, r)
    PROVE  r \in Exposed
  BY DEF Respelled, Exposed

\* The four writes of the role groups, each with what its request has passed.
Created(w, r) ==
    /\ stage[w] = "group" /\ <<"create_role", r>> \in logged[w]
    /\ r \notin groups
    /\ groups' = groups \cup {r}
    /\ members' = members

Deleted(w, r) ==
    /\ stage[w] = "group" /\ <<"delete_role", r>> \in logged[w]
    /\ r \in job[w].roles
    /\ r \in groups
    /\ r \in Protected => Respelled(w, r)
    /\ groups' = groups \ {r}
    /\ members' = [members EXCEPT ![r] = {}]

Granted(w, r, u) ==
    /\ stage[w] = "write" /\ job[w].uid = u /\ <<"grant", r>> \in logged[w]
    /\ r \in groups
    /\ r \in SystemRoles => Respelled(w, r)
    /\ u \notin members[r]
    /\ members' = [members EXCEPT ![r] = @ \cup {u}]
    /\ groups' = groups

Revoked(w, r, u) ==
    /\ stage[w] = "write" /\ job[w].uid = u /\ <<"revoke", r>> \in logged[w]
    /\ r \in drop[w] \ drop'[w]
    /\ u \in members[r]
    /\ members' = [members EXCEPT ![r] = @ \ {u}]
    /\ groups' = groups

Kept == groups' = groups /\ members' = members

\* What a step of w does to the role groups.
Effect(w) ==
    \/ Kept
    \/ \E r \in Role :
         \/ Created(w, r) \/ Deleted(w, r)
         \/ \E u \in Person : Granted(w, r, u) \/ Revoked(w, r, u)

LEMMA WorkerEffect ==
    ASSUME SafeInv, NEW w \in Worker, NextArrival(w) \/ NextCall(w)
    PROVE  Effect(w)
  <1>1. CASE NextArrival(w)
    BY <1>1, ArrivalAdmitted DEF Admitted, Arrive, directory, Kept, Effect
  <1>2. CASE NextCall(w)
    <2>1. SafeRequest(w) /\ TypeOK
      BY DEF SafeInv
    <2>2. CASE WriteGroup(w)
      <3>1. job[w] \in Job /\ stage[w] = "group" /\ job[w].roles \in SUBSET Role
        BY <2>1, <2>2, JobParts DEF WriteGroup, TypeOK
      <3>2. PICK r \in job[w].roles :
              \/ /\ job[w].op = "create_role" /\ r \notin groups
                 /\ groups' = groups \cup {r} /\ UNCHANGED members
              \/ /\ job[w].op = "delete_role" /\ r \in groups
                 /\ groups' = groups \ {r} /\ members' = [members EXCEPT ![r] = {}]
        BY <2>2 DEF WriteGroup
      <3>3. r \in Role /\ <<job[w].op, r>> \in logged[w]
        BY <3>1, <3>2, <2>1 DEF SafeRequest
      <3>4. job[w].op = "delete_role" /\ r \in Protected => Respelled(w, r)
        BY <3>1, <3>2, <2>1 DEF SafeRequest, Respelled
      <3> QED BY <3>1, <3>2, <3>3, <3>4 DEF Created, Deleted, Effect
    <2>3. CASE WriteGrant(w)
      <3>1. job[w].uid \in Person /\ stage[w] = "write"
        BY <2>1, <2>3 DEF WriteGrant, TypeOK
      <3>2. PICK r \in add[w] : /\ r \in groups /\ job[w].uid \notin members[r]
                                /\ members' = [members EXCEPT ![r] = @ \cup {job[w].uid}]
                                /\ groups' = groups
        BY <2>3 DEF WriteGrant
      <3>3. r \in Role /\ <<"grant", r>> \in logged[w]
        BY <3>1, <2>1 DEF SafeRequest, TypeOK
      <3>4. r \in SystemRoles => Respelled(w, r)
        BY <3>1, <3>2, <2>1 DEF SafeRequest, Respelled
      <3> QED BY <3>1, <3>2, <3>3, <3>4 DEF Granted, Effect
    <2>4. CASE WriteRevoke(w)
      <3>1. job[w].uid \in Person /\ stage[w] = "write"
        BY <2>1, <2>4 DEF WriteRevoke, TypeOK
      <3>2. PICK r \in drop[w] : /\ job[w].uid \in members[r]
                                 /\ members' = [members EXCEPT ![r] = @ \ {job[w].uid}]
                                 /\ groups' = groups
                                 /\ Continue(w, {}, drop[w] \ {r}) \/ Finish(w)
        BY <2>4 DEF WriteRevoke
      <3>3. r \in Role /\ <<"revoke", r>> \in logged[w]
        BY <3>1, <2>1 DEF SafeRequest, TypeOK
      <3>4. drop'[w] \subseteq drop[w] \ {r}
        BY <3>2, <2>1 DEF Continue, Finish, Proceed, TypeOK
      <3> QED BY <3>1, <3>2, <3>3, <3>4 DEF Revoked, Effect
    <2>5. CASE ~(WriteGroup(w) \/ WriteGrant(w) \/ WriteRevoke(w))
      BY <2>5, <1>2 DEF NextCall, LookUpInvitee, LookUpMember, LookUpLeaver,
            CheckInviteRoles, DiffRoles, GuardLastAdmin, Refuse, Audit, WriteAccount,
            WriteNothing, WriteFails, Purge, directory, Kept, Effect
    <2> QED BY <2>2, <2>3, <2>4, <2>5
  <1> QED BY <1>1, <1>2

LEMMA DirectoryStep ==
    ASSUME SafeInv, [Next]_vars
    PROVE  Kept \/ \E w \in Worker : Step(w) /\ Effect(w)
  BY WorkerEffect DEF Next, Step, vars, directory, Kept

-----------------------------------------------------------------------------
\* No change of the role groups without an acknowledged record of it, however many
\* requests overlap and however they spell the roles.
THEOREM AuditFirst == Spec => WriteAheadAudit
  <1>1. ASSUME SafeInv, [Next]_vars PROVE ChangeRecorded
    <2>1. members \in [Role -> SUBSET (Person \cup Service)]
      BY <1>1 DEF SafeInv, TypeOK
    <2>2. ASSUME NEW w \in Worker, NEW r \in Role, Created(w, r) PROVE ChangeRecorded
      BY <2>1, <2>2 DEF Created, ChangeRecorded
    <2>3. ASSUME NEW w \in Worker, NEW r \in Role, Deleted(w, r) PROVE ChangeRecorded
      BY <2>1, <2>3 DEF Deleted, ChangeRecorded
    <2>4. ASSUME NEW w \in Worker, NEW r \in Role, NEW u \in Person, Granted(w, r, u)
          PROVE  ChangeRecorded
      BY <2>1, <2>4 DEF Granted, ChangeRecorded
    <2>5. ASSUME NEW w \in Worker, NEW r \in Role, NEW u \in Person, Revoked(w, r, u)
          PROVE  ChangeRecorded
      BY <2>1, <2>5 DEF Revoked, ChangeRecorded
    <2>6. CASE Kept
      BY <2>6 DEF Kept, ChangeRecorded
    <2> QED BY <1>1, <2>2, <2>3, <2>4, <2>5, <2>6, DirectoryStep DEF Effect
  <1> QED BY <1>1, RequestsSafe, PTL DEF Spec, WriteAheadAudit

-----------------------------------------------------------------------------
ExposedTyped == Exposed \in SUBSET Role

LEMMA ExposedRoles == SafeInv => ExposedTyped
  BY JobParts DEF SafeInv, TypeOK, Exposed, ExposedTyped

\* The routes implement the ledger: a protected group is deleted, and a system role
\* granted, only while a request under way spells that role otherwise.
THEOREM Implements == Spec => ImplementsLedger
  <1>1. Init => Ledger!Init
    BY RolesAssumption DEF Init, Ledger!Init, Exposed
  <1>2. ASSUME SafeInv, ExposedTyped', [Next]_vars
        PROVE  [Ledger!Next]_<<groups, members, Exposed>>
    <2>0. Exposed' \in SUBSET Role
      BY <1>2 DEF ExposedTyped
    <2>1. ASSUME NEW w \in Worker, NEW r \in Role, Created(w, r) PROVE Ledger!Next
      BY <2>0, <2>1 DEF Created, Ledger!Next, Ledger!Create
    <2>2. ASSUME NEW w \in Worker, NEW r \in Role, Deleted(w, r) PROVE Ledger!Next
      BY <2>0, <2>2, RespelledExposed
         DEF Deleted, Protected, Ledger!Next, Ledger!Delete, Ledger!Protected
    <2>3. ASSUME NEW w \in Worker, NEW r \in Role, NEW u \in Person, Granted(w, r, u)
          PROVE  Ledger!Next
      BY <2>0, <2>3, RespelledExposed DEF Granted, Ledger!Next, Ledger!Grant
    <2>4. ASSUME NEW w \in Worker, NEW r \in Role, NEW u \in Person, Revoked(w, r, u)
          PROVE  Ledger!Next
      BY <2>0, <2>4 DEF Revoked, Ledger!Next, Ledger!Revoke
    <2>5. CASE Kept
      BY <2>0, <2>5 DEF Kept, Ledger!Next
    <2> QED BY <1>2, <2>1, <2>2, <2>3, <2>4, <2>5, DirectoryStep DEF Effect
  <1> QED BY <1>1, <1>2, ExposedRoles, RequestsSafe, PTL DEF Spec, ImplementsLedger, Ledger!Spec

LedgerTypes ==
    /\ groups \in SUBSET Role
    /\ members \in [Role -> SUBSET (Person \cup Service)]

\* A name without a group has no members, whatever is spelled how: a role that is
\* created anew starts with nobody in it.
THEOREM Tidied == Spec => []Ledger!Tidy
  <1> USE DEF Ledger!Tidy, LedgerTypes
  <1> DEFINE Held == LedgerTypes /\ Ledger!Tidy
  <1>1. Ledger!Init => Held
    BY DEF Ledger!Init
  <1>2. Held /\ [Ledger!Next]_<<groups, members, Exposed>> => Held'
    <2> SUFFICES ASSUME Held, [Ledger!Next]_<<groups, members, Exposed>> PROVE Held'
      OBVIOUS
    <2>1. ASSUME NEW r \in Role, Ledger!Create(r) PROVE Held'
      BY <2>1 DEF Ledger!Create
    <2>2. ASSUME NEW r \in Role, Ledger!Delete(r) PROVE Held'
      BY <2>2 DEF Ledger!Delete
    <2>3. ASSUME NEW r \in Role, NEW u \in Person, Ledger!Grant(r, u) PROVE Held'
      BY <2>3 DEF Ledger!Grant
    <2>4. ASSUME NEW r \in Role, NEW u \in Person, Ledger!Revoke(r, u) PROVE Held'
      BY <2>4 DEF Ledger!Revoke
    <2>5. CASE UNCHANGED <<groups, members>>
      BY <2>5
    <2> QED BY <2>1, <2>2, <2>3, <2>4, <2>5 DEF Ledger!Next
  <1>3. Held => Ledger!Tidy
    OBVIOUS
  <1> HIDE DEF Held
  <1> QED BY <1>1, <1>2, <1>3, Implements, PTL DEF ImplementsLedger, Ledger!Spec

\* A protected role that no request ever names in another spelling keeps its group, and
\* a system role the service accounts in it.
THEOREM Intact ==
    ASSUME NEW r \in Protected
    PROVE  Spec /\ [](r \notin Exposed) => []Ledger!Stands(r)
  <1> USE DEF Ledger!Stands, LedgerTypes, Protected
  <1> DEFINE Held == LedgerTypes /\ Ledger!Stands(r)
  <1>0. r \in Role
    BY RolesAssumption
  <1>1. Ledger!Init => Held
    BY DEF Ledger!Init
  <1>2. Held /\ r \notin Exposed /\ [Ledger!Next]_<<groups, members, Exposed>> => Held'
    <2> SUFFICES ASSUME Held, r \notin Exposed, [Ledger!Next]_<<groups, members, Exposed>>
                 PROVE  Held'
      OBVIOUS
    <2>1. ASSUME NEW x \in Role, Ledger!Create(x) PROVE Held'
      BY <2>1 DEF Ledger!Create
    <2>2. ASSUME NEW x \in Role, Ledger!Delete(x) PROVE Held'
      BY <1>0, <2>2 DEF Ledger!Delete, Ledger!Protected
    <2>3. ASSUME NEW x \in Role, NEW u \in Person, Ledger!Grant(x, u) PROVE Held'
      BY <1>0, <2>3 DEF Ledger!Grant
    <2>4. ASSUME NEW x \in Role, NEW u \in Person, Ledger!Revoke(x, u) PROVE Held'
      BY <1>0, <2>4, PersonAssumption DEF Ledger!Revoke
    <2>5. CASE UNCHANGED <<groups, members>>
      BY <2>5
    <2> QED BY <2>1, <2>2, <2>3, <2>4, <2>5 DEF Ledger!Next
  <1>3. Held => Ledger!Stands(r)
    OBVIOUS
  <1> HIDE DEF Held
  <1>4. Spec => Ledger!Init /\ [][Ledger!Next]_<<groups, members, Exposed>>
    BY Implements DEF ImplementsLedger, Ledger!Spec
  <1> HIDE DEF Ledger!Stands
  <1> QED BY <1>1, <1>2, <1>3, <1>4, PTL

-----------------------------------------------------------------------------
\* The last-administrator guard: what it has read still holds at the revocation it is
\* there for, unless another request has taken an administrator away in between.
LEMMA MoreThanOne ==
    ASSUME NEW S \in SUBSET Person, Cardinality(S) > 1, NEW u
    PROVE  S \ {u} # {}
  <1>1. IsFiniteSet(S)
    BY FS_Subset, PersonAssumption
  <1>2. CASE S \subseteq {u}
    <2>1. S = {} \/ S = {u}
      BY <1>2
    <2>2. Cardinality({}) = 0 /\ Cardinality({u}) = 1
      BY FS_EmptySet, FS_Singleton
    <2> QED BY <2>1, <2>2
  <1> QED BY <1>2

\* A request past the guard, with a revocation from the administrators before it.
Removing(w) == stage[w] \in {"audit", "write"} /\ Admins \in drop[w]

CountHolds(w) ==
    Removing(w) /\ job[w].literal /\ "count" \notin stale[w]
      => \A u \in Person : members[Admins] \ {u} # {}

SeatInv ==
    /\ SafeInv
    /\ members[Admins] \in SUBSET Person
    /\ \A w \in Worker : CountHolds(w)

\* How far a step moves the administrators, seen from its worker.
LEMMA SeatsMove ==
    ASSUME NEW w \in Worker, SeatInv, NextArrival(w) \/ NextCall(w)
    PROVE  /\ members'[Admins] \in SUBSET Person
           /\ \/ members[Admins] \subseteq members'[Admins]
              \/ Deleted(w, Admins)
              \/ \E u \in Person : Revoked(w, Admins, u)
  <1>1. /\ members \in [Role -> SUBSET (Person \cup Service)] /\ Admins \in Role
        /\ members[Admins] \in SUBSET Person
    BY RolesAssumption DEF SeatInv, SafeInv, TypeOK
  <1>2. CASE Kept
    BY <1>1, <1>2 DEF Kept
  <1>3. ASSUME NEW r \in Role, Created(w, r) \/ Deleted(w, r)
        PROVE  /\ members'[Admins] \in SUBSET Person
               /\ members[Admins] \subseteq members'[Admins] \/ Deleted(w, Admins)
    BY <1>1, <1>3 DEF Created, Deleted
  <1>4. ASSUME NEW r \in Role, NEW u \in Person, Granted(w, r, u)
        PROVE  /\ members'[Admins] \in SUBSET Person
               /\ members[Admins] \subseteq members'[Admins]
    <2>1. CASE r = Admins
      BY <2>1, <1>1, <1>4 DEF Granted
    <2>2. CASE r # Admins
      BY <2>2, <1>1, <1>4 DEF Granted
    <2> QED BY <2>1, <2>2
  <1>5. ASSUME NEW r \in Role, NEW u \in Person, Revoked(w, r, u)
        PROVE  /\ members'[Admins] \in SUBSET Person
               /\ members[Admins] \subseteq members'[Admins] \/ Revoked(w, Admins, u)
    <2>1. CASE r = Admins
      BY <2>1, <1>1, <1>5 DEF Revoked
    <2>2. CASE r # Admins
      BY <2>2, <1>1, <1>5 DEF Revoked
    <2> QED BY <2>1, <2>2
  <1> QED BY <1>2, <1>3, <1>4, <1>5, WorkerEffect DEF Effect, SeatInv

\* What another step does to what a request relies on.
LEMMA OthersStale ==
    ASSUME TypeOK, NEW w \in Worker, NEW v \in Worker, v # w,
           Step(w), NEW x \in Relies(v), x \notin stale'[v]
    PROVE  x \notin stale[v] /\ x \notin Overtaken(v)
  <1>1. stage'[v] = stage[v] /\ drop'[v] = drop[v] /\ job'[v] = job[v]
    BY OthersStay DEF Step
  <1>2. Relies(v)' = Relies(v)
    BY <1>1 DEF Relies
  <1>3. stale'[v] = Relies(v)' \cap (stale[v] \cup Overtaken(v))
    BY DEF Step, Watched
  <1> QED BY <1>2, <1>3

LEMMA OwnStale ==
    ASSUME NEW w \in Worker, Watched(w), NEW x \in Relies(w)', x \notin stale'[w]
    PROVE  x \notin stale[w]
  <1>1. stale'[w] = Relies(w)' \cap stale[w]
    BY DEF Watched
  <1> QED BY <1>1

\* A worker's own step: the guard's reading holds for the rest of its request.
LEMMA OwnCount ==
    ASSUME NEW w \in Worker, SeatInv, Step(w)
    PROVE  CountHolds(w)'
  <1> SUFFICES ASSUME Removing(w)', job'[w].literal, "count" \notin stale'[w]
               PROVE  \A u \in Person : members'[Admins] \ {u} # {}
    BY DEF CountHolds
  <1>1. TypeOK /\ SafeRequest(w) /\ Admins \in Role /\ members[Admins] \in SUBSET Person
    BY RolesAssumption DEF SeatInv, SafeInv
  <1>2. stage'[w] \in {"audit", "write"} /\ Admins \in drop'[w]
    BY DEF Removing
  <1>3. "count" \notin stale[w]
    BY <1>2, OwnStale DEF Relies, Step
  <1>4. CASE GuardLastAdmin(w)
    <2>1. Cardinality(members[Admins]) > 1 /\ members' = members
      BY <1>4 DEF GuardLastAdmin, directory
    <2> QED BY <2>1, <1>1, MoreThanOne
  <1>5. CASE NextArrival(w)
    <2>1. PICK j \in Job, s \in Stage, a \in SUBSET Role, d \in SUBSET Role :
             Admitted(w, j, s, a, d)
      BY <1>5, ArrivalAdmitted
    <2>2. stage'[w] = s /\ drop'[w] = d /\ job'[w] = j
      BY <2>1, <1>1 DEF Admitted, Arrive, Proceed, TypeOK
    <2> QED BY <2>1, <2>2, <1>2 DEF Admitted
  <1>6. CASE LookUpInvitee(w) \/ LookUpMember(w) \/ LookUpLeaver(w) \/ CheckInviteRoles(w)
               \/ DiffRoles(w)
    <2>1. stage'[w] \in {"known", "target", "guard"} \/ Admins \notin drop'[w]
      BY <1>1, <1>6 DEF LookUpInvitee, LookUpMember, LookUpLeaver, CheckInviteRoles, DiffRoles,
            Proceed, TypeOK
    <2> QED BY <2>1, <1>2
  <1>7. CASE Refuse(w) \/ WriteNothing(w) \/ WriteFails(w) \/ Purge(w) \/ WriteGroup(w)
    BY <1>1, <1>2, <1>7 DEF Refuse, WriteNothing, WriteFails, Purge, WriteGroup, Finish, Proceed,
            TypeOK
  <1>8. CASE WriteAccount(w)
    <2>1. drop[w] = {}
      BY <1>1, <1>8 DEF WriteAccount, SafeRequest
    <2>2. drop'[w] = {}
      BY <1>1, <1>8, <2>1 DEF WriteAccount, Continue, Finish, Proceed, TypeOK
    <2> QED BY <1>2, <2>2
  <1>9. CASE Audit(w) \/ WriteGrant(w) \/ WriteRevoke(w)
    <2>1. /\ stage[w] \in {"audit", "write"} /\ drop'[w] \subseteq drop[w]
      BY <1>1, <1>9 DEF Audit, WriteGrant, WriteRevoke, Continue, Finish, Proceed, TypeOK
    <2>2. job'[w] = job[w]
      BY <1>1, <1>2, <1>9 DEF Audit, WriteGrant, WriteRevoke, Continue, Finish, Proceed, TypeOK
    <2>3. \A u \in Person : members[Admins] \ {u} # {}
      BY <1>2, <1>3, <2>1, <2>2 DEF SeatInv, CountHolds, Removing
    <2>4. members[Admins] \subseteq members'[Admins]
      BY <1>2, <2>1, SeatsMove DEF Step, Deleted, Revoked, SeatInv, Removing
    <2> QED BY <2>3, <2>4
  <1> QED BY <1>4, <1>5, <1>6, <1>7, <1>8, <1>9 DEF Step, NextCall

LEMMA SeatStep == SeatInv /\ [Next]_vars => SeatInv'
  <1> SUFFICES ASSUME SeatInv, [Next]_vars PROVE SeatInv'
    OBVIOUS
  <1>1. SafeInv' /\ TypeOK
    BY SafeInvInductive DEF SeatInv, SafeInv
  <1>2. ASSUME NEW w \in Worker, Step(w) PROVE SeatInv'
    <2>1. members'[Admins] \in SUBSET Person /\ CountHolds(w)'
      BY <1>2, OwnCount, SeatsMove DEF Step
    <2>2. ASSUME NEW v \in Worker, v # w PROVE CountHolds(v)'
      <3> SUFFICES ASSUME Removing(v)', job'[v].literal, "count" \notin stale'[v]
                   PROVE  \A u \in Person : members'[Admins] \ {u} # {}
        BY DEF CountHolds
      <3>1. stage'[v] = stage[v] /\ drop'[v] = drop[v] /\ job'[v] = job[v]
        BY <1>1, <1>2, <2>2, OthersStay DEF Step
      <3>2. Removing(v) /\ "count" \in Relies(v)
        BY <3>1 DEF Removing, Relies
      <3>3. "count" \notin stale[v] /\ "count" \notin Overtaken(v)
        BY <1>1, <1>2, <2>2, <3>2, OthersStale
      <3>4. \A u \in Person : members[Admins] \ {u} # {}
        BY <3>1, <3>2, <3>3 DEF SeatInv, CountHolds
      <3>5. members[Admins] \subseteq members'[Admins]
        BY <3>2, <3>3 DEF Overtaken
      <3> QED BY <3>4, <3>5
    <2> QED BY <1>1, <2>1, <2>2 DEF SeatInv
  <1>3. CASE UNCHANGED vars
    BY <1>1, <1>3 DEF SeatInv, CountHolds, Removing, vars, directory, request
  <1> QED BY <1>2, <1>3 DEF Next, Step

LEMMA SeatInit == Init => SeatInv
  BY SafeInit DEF Init, SeatInv, CountHolds, Removing

\* The administrators group is emptied only by a request that spells the role otherwise,
\* or by one whose count another request has overtaken and whose caller is no
\* administrator any more or has spelled its own uid in another way.
THEOREM LastSeat == Spec => LastSeatGuarded
  <1>1. ASSUME SeatInv, [Next]_vars PROVE LastSeatTaken
    <2> SUFFICES ASSUME members[Admins] # {}, members'[Admins] = {} PROVE LastSeatTaken
      BY DEF LastSeatTaken
    <2>1. PICK w \in Worker : Step(w)
      BY <1>1 DEF Next, Step, vars, directory
    <2>2. CASE Deleted(w, Admins)
      BY <2>2 DEF Deleted, Respelled, Protected, LastSeatTaken
    <2>3. ASSUME NEW u \in Person, Revoked(w, Admins, u) PROVE LastSeatTaken
      <3>1. stage[w] = "write" /\ Admins \in drop[w] \ drop'[w] /\ job[w].uid = u
        BY <2>3 DEF Revoked
      <3>2. members'[Admins] = members[Admins] \ {u}
        BY <1>1, <2>3, RolesAssumption DEF Revoked, SeatInv, SafeInv, TypeOK
      <3>3. job[w].literal /\ "count" \notin stale[w] => FALSE
        BY <1>1, <3>1, <3>2 DEF SeatInv, CountHolds, Removing
      <3>4. job[w] \in Job /\ job[w].exact \in BOOLEAN /\ job[w].literal \in BOOLEAN
        BY <1>1, <3>1, JobParts DEF SeatInv, SafeInv, TypeOK
      <3>5. job[w].literal => ~(job[w].uid = job[w].actor /\ job[w].exact)
        BY <1>1, <3>1 DEF SeatInv, SafeInv, SafeRequest
      <3>6. members[Admins] \subseteq {u}
        BY <3>2
      <3> QED BY <3>1, <3>3, <3>4, <3>5, <3>6 DEF LastSeatTaken
    <2>4. ~(members[Admins] \subseteq members'[Admins])
      OBVIOUS
    <2> QED BY <1>1, <2>1, <2>2, <2>3, <2>4, SeatsMove DEF Step
  <1> QED BY <1>1, SeatInit, SeatStep, PTL DEF Spec, LastSeatGuarded

-----------------------------------------------------------------------------
\* No two requests are past the guard at a time, each with a revocation from the
\* administrators before it.  Any other requests may overlap with it: grants, other
\* edits, and a second removal up to its own reading of the guard.
RemovalsApart == \A v, w \in Worker : Removing(v) /\ Removing(w) => v = w

AdminsSpelled == Admins \notin Exposed

Counted ==
    /\ SeatInv
    /\ members[Admins] # {}
    /\ \A w \in Worker : "count" \notin stale[w]

LEMMA CountedStep ==
    Counted /\ RemovalsApart /\ AdminsSpelled /\ [Next]_vars /\ LastSeatTaken => Counted'
  <1> SUFFICES ASSUME Counted, RemovalsApart, AdminsSpelled, [Next]_vars, LastSeatTaken
               PROVE  Counted'
    OBVIOUS
  <1>0. SeatInv /\ SeatInv' /\ TypeOK /\ \A w \in Worker : SafeRequest(w)
    BY SeatStep DEF Counted, SeatInv, SafeInv
  <1>1. members'[Admins] # {}
    <2> SUFFICES ASSUME members'[Admins] = {} PROVE FALSE
      OBVIOUS
    <2>1. PICK w \in Worker : /\ \/ stage[w] = "write" /\ Admins \in drop[w] \ drop'[w]
                                 \/ stage[w] = "group" /\ Admins \in job[w].roles
                              /\ ~job[w].literal
      BY DEF Counted, LastSeatTaken
    <2>2. Respelled(w, Admins)
      BY <1>0, <2>1 DEF SafeRequest, Respelled
    <2> QED BY <2>2, RespelledExposed DEF AdminsSpelled
  <1>2. ASSUME NEW w \in Worker, Step(w), NEW v \in Worker PROVE "count" \notin stale'[v]
    <2>1. CASE v = w
      BY <1>2, <2>1 DEF Step, Watched, Counted
    <2>2. CASE v # w
      <3> SUFFICES ASSUME "count" \in Overtaken(v) PROVE FALSE
        BY <1>2, <2>2 DEF Step, Watched, Counted
      <3>1. Removing(v) /\ ~(members[Admins] \subseteq members'[Admins])
        BY DEF Overtaken, Relies, Removing
      <3>2. CASE Deleted(w, Admins)
        BY <3>2, RespelledExposed DEF Deleted, Protected, AdminsSpelled
      <3>3. CASE \E u \in Person : Revoked(w, Admins, u)
        BY <2>2, <3>1, <3>3 DEF Revoked, Removing, RemovalsApart
      <3> QED BY <1>0, <1>2, <3>1, <3>2, <3>3, SeatsMove DEF Step
    <2> QED BY <2>1, <2>2
  <1>3. CASE UNCHANGED vars
    BY <1>0, <1>1, <1>3 DEF Counted, vars
  <1> QED BY <1>0, <1>1, <1>2, <1>3 DEF Counted, Next, Step

\* However many requests overlap, somebody can always administer the tenant as long as
\* no request names the administrators role in another spelling and no two removals of
\* an administrator are past the guard at a time.
THEOREM LastAdministratorApart ==
    Spec /\ [](Admins \notin Exposed) /\ []RemovalsApart => []AdministratorsRemain
  <1>1. Counted => AdministratorsRemain
    BY DEF Counted, AdministratorsRemain
  <1>2. Init => Counted
    BY SeatInit DEF Init, Counted
  <1>3. [LastSeatTaken]_vars /\ UNCHANGED vars => LastSeatTaken
    BY DEF LastSeatTaken, vars, directory
  <1>4. [](Admins \notin Exposed) <=> []AdminsSpelled
    BY PTL DEF AdminsSpelled
  <1>5. Counted /\ RemovalsApart /\ AdminsSpelled /\ [Next]_vars /\ [LastSeatTaken]_vars
          => Counted'
    BY <1>3, CountedStep
  <1> QED BY <1>1, <1>2, <1>4, <1>5, LastSeat, PTL DEF Spec, LastSeatGuarded

\* With one administration request at a time, the other spelling is the only way to be
\* left without an administrator.
THEOREM LastAdministrator ==
    ASSUME NEW w \in Worker, Worker = {w}
    PROVE  Spec /\ [](Admins \notin Exposed) => []AdministratorsRemain
  <1>1. RemovalsApart
    BY DEF RemovalsApart
  <1> QED BY <1>1, LastAdministratorApart, PTL

-----------------------------------------------------------------------------
\* An edit of somebody's roles, and a leaver's removal, until another request changes
\* that member's roles: what is still to be written is the difference from the
\* directory.
Diff(w) ==
    LET has == RolesOf(job[w].uid)
    IN  /\ has # {}
        /\ drop[w] \subseteq has
        /\ drop[w] \cap job[w].roles = {}
        /\ (has \ drop[w]) \cup add[w] = job[w].roles

Edit(w) ==
    /\ stage[w] \in {"target", "known", "guard", "audit", "write"}
    /\ job[w].roles # {}
    /\ "roles" \notin stale[w] =>
         /\ stage[w] = "known" => drop[w] = RolesOf(job[w].uid) /\ drop[w] # {}
         /\ stage[w] \in {"guard", "audit", "write"} => Diff(w)

Removal(w) ==
    /\ stage[w] \in {"target", "guard", "audit", "write", "purge"}
    /\ stage[w] \in {"guard", "audit", "write"} => add[w] = {}
    /\ "roles" \notin stale[w] =>
         /\ stage[w] \in {"guard", "audit", "write"} => drop[w] = RolesOf(job[w].uid)
         /\ stage[w] = "purge" => RolesOf(job[w].uid) = {}

EditInv(w) ==
    /\ TypeOK
    /\ stage[w] # "idle" /\ job[w].op = "set_user_roles" => Edit(w)
    /\ stage[w] # "idle" /\ job[w].op = "remove_user" => Removal(w)
    /\ stage[w] = "account" => job[w].op = "invite_new"
    /\ stage[w] = "purge" => job[w].op = "remove_user"

\* Edits and removals start at the look-up of their member.
LEMMA EditArrives ==
    ASSUME NEW w \in Worker, TypeOK, NextArrival(w)
    PROVE  /\ stage'[w] \in {"target", "known", "guard", "audit"}
           /\ job'[w].op = "set_user_roles" => stage'[w] = "target" /\ job'[w].roles # {}
           /\ job'[w].op = "remove_user" => stage'[w] = "target"
  <1>1. ASSUME NEW j, NEW s, NEW a, NEW d, Arrive(w, j, s, a, d)
        PROVE  stage'[w] = s /\ job'[w] = j
    BY <1>1 DEF Arrive, Proceed, TypeOK
  <1>2. PICK actor \in Person :
           \/ \E r \in NewRoles : CreateRole(w, r)
           \/ \E r \in Role : \E l \in Spellings(r \in SystemRoles \cup {Admins}) :
                DeleteRole(w, r, l)
           \/ \E u \in Person :
               \/ \E r \in Role : \E l \in Spellings(r \in SystemRoles) : AddMember(w, u, r, l)
               \/ \E r \in Role : \E l \in Spellings(r \in SystemRoles \cup {Admins}) :
                    \E e \in Spellings(l /\ r = Admins /\ u = actor) :
                      RemoveMember(w, actor, u, r, e, l)
               \/ \E R \in RoleSets : CreateUser(w, u, R) \/ SetUserRoles(w, actor, u, R)
               \/ RemoveUser(w, actor, u)
    BY DEF NextArrival, Callers
  <1>3. ASSUME NEW r, NEW l, CreateRole(w, r) \/ DeleteRole(w, r, l)
        PROVE  stage'[w] = "audit" /\ job'[w].op \in {"create_role", "delete_role"}
    BY <1>1, <1>3 DEF CreateRole, DeleteRole, Request
  <1>4. ASSUME NEW u \in Person, NEW r, NEW l, AddMember(w, u, r, l)
        PROVE  stage'[w] = "audit" /\ job'[w].op = "add_member"
    BY <1>1, <1>4 DEF AddMember, Request
  <1>5. ASSUME NEW u \in Person, NEW r, NEW e, NEW l, RemoveMember(w, actor, u, r, e, l)
        PROVE  stage'[w] \in {"guard", "audit"} /\ job'[w].op = "remove_member"
    BY <1>1, <1>5 DEF RemoveMember, Request
  <1>6. ASSUME NEW u \in Person, NEW R \in RoleSets,
               CreateUser(w, u, R) \/ SetUserRoles(w, actor, u, R)
        PROVE  \/ stage'[w] = "known" /\ job'[w].op = "create_user"
               \/ stage'[w] = "target" /\ job'[w].roles # {} /\ job'[w].op = "set_user_roles"
    BY <1>1, <1>6 DEF CreateUser, SetUserRoles, Request
  <1>7. ASSUME NEW u \in Person, RemoveUser(w, actor, u)
        PROVE  stage'[w] = "target" /\ job'[w].op = "remove_user"
    BY <1>1, <1>7 DEF RemoveUser, Request
  <1> QED BY <1>2, <1>3, <1>4, <1>5, <1>6, <1>7

\* What a write does to the roles of the member, and what it leaves to write.
LEMMA Granting ==
    ASSUME NEW w \in Worker, TypeOK, WriteGrant(w)
    PROVE  /\ stage[w] = "write" /\ groups' = groups
           /\ \E r \in add[w] \cap groups :
                /\ {x \in groups' : job[w].uid \in members'[x]} = RolesOf(job[w].uid) \cup {r}
                /\ Continue(w, add[w] \ {r}, drop[w]) \/ Finish(w)
  <1>1. PICK r \in add[w] :
          /\ r \in groups /\ members' = [members EXCEPT ![r] = @ \cup {job[w].uid}]
          /\ Continue(w, add[w] \ {r}, drop[w]) \/ Finish(w)
    BY DEF WriteGrant
  <1>2. stage[w] = "write" /\ groups' = groups
    BY DEF WriteGrant
  <1>3. \A x \in groups :
          job[w].uid \in members'[x] <=> (x = r \/ job[w].uid \in members[x])
    BY <1>1 DEF TypeOK
  <1>4. {x \in groups' : job[w].uid \in members'[x]} = RolesOf(job[w].uid) \cup {r}
    BY <1>1, <1>2, <1>3 DEF RolesOf
  <1> QED BY <1>1, <1>2, <1>4

LEMMA Revoking ==
    ASSUME NEW w \in Worker, TypeOK, WriteRevoke(w)
    PROVE  /\ stage[w] = "write" /\ groups' = groups /\ add[w] = {}
           /\ \E r \in drop[w] :
                /\ {x \in groups' : job[w].uid \in members'[x]} = RolesOf(job[w].uid) \ {r}
                /\ Continue(w, {}, drop[w] \ {r}) \/ Finish(w)
  <1>1. PICK r \in drop[w] :
          /\ members' = [members EXCEPT ![r] = @ \ {job[w].uid}]
          /\ Continue(w, {}, drop[w] \ {r}) \/ Finish(w)
    BY DEF WriteRevoke
  <1>2. stage[w] = "write" /\ groups' = groups /\ add[w] = {}
    BY DEF WriteRevoke
  <1>3. \A x \in groups :
          job[w].uid \in members'[x] <=> (x # r /\ job[w].uid \in members[x])
    BY <1>1 DEF TypeOK
  <1>4. {x \in groups' : job[w].uid \in members'[x]} = RolesOf(job[w].uid) \ {r}
    BY <1>2, <1>3 DEF RolesOf
  <1> QED BY <1>1, <1>2, <1>4

\* Where a request goes after a write.
LEMMA Continuing ==
    ASSUME NEW w \in Worker, TypeOK, NEW a \in SUBSET Role, NEW d \in SUBSET Role,
           Continue(w, a, d) \/ Finish(w)
    PROVE  \/ stage'[w] = "idle"
           \/ stage'[w] = "write" /\ job' = job /\ add'[w] = a /\ drop'[w] = d
           \/ stage'[w] = "purge" /\ job' = job /\ job[w].op = "remove_user" /\ a \cup d = {}
  BY DEF Continue, Finish, Proceed, TypeOK

\* A worker's own step: nobody else has changed the roles of its member meanwhile.
LEMMA OwnEdit ==
    ASSUME NEW w \in Worker, EditInv(w), Step(w)
    PROVE  EditInv(w)'
  <1> DEFINE j == job[w]
             has == RolesOf(j.uid)
             Fresh == "roles" \notin stale[w]
             Still == "roles" \notin stale'[w]
             Follows ==
               /\ stage'[w] # "idle" /\ job'[w].op = "set_user_roles" => Edit(w)'
               /\ stage'[w] # "idle" /\ job'[w].op = "remove_user" => Removal(w)'
               /\ stage'[w] = "account" => job'[w].op = "invite_new"
               /\ stage'[w] = "purge" => job'[w].op = "remove_user"
  <1>0. TypeOK
    BY DEF EditInv
  <1>16. ASSUME stage'[w] \in {"known", "guard", "audit", "write", "purge"},
                job'[w].op \in {"set_user_roles", "remove_user"}, Still
         PROVE  Fresh
    BY <1>16, OwnStale DEF Relies, Step
  <1>1. TypeOK'
    BY <1>0, TypeStep DEF Next, Step
  <1>2. SUFFICES Follows
    BY <1>1 DEF EditInv
  <1>3. ASSUME stage'[w] = "idle" PROVE Follows
    BY <1>3
  <1>4. ASSUME directory' = directory, NEW u PROVE RolesOf(u)' = RolesOf(u)
    BY <1>4 DEF directory, RolesOf
  <1>5. CASE NextArrival(w)
    BY <1>0, <1>5, EditArrives DEF Edit, Removal
  <1>6. CASE Refuse(w) \/ WriteGroup(w) \/ WriteNothing(w) \/ WriteFails(w) \/ Purge(w)
    BY <1>0, <1>3, <1>6 DEF Refuse, WriteGroup, WriteNothing, WriteFails, Purge, Finish, Proceed, TypeOK
  <1>7. CASE LookUpInvitee(w)
    <2>1. /\ stage'[w] = "audit" /\ job'[w].op \in {"invite_new", "add_existing"}
      BY <1>0, <1>7 DEF LookUpInvitee, Proceed, TypeOK, Job
    <2> QED BY <2>1
  <1>8. CASE LookUpMember(w)
    <2>1. /\ stage'[w] = "known" /\ job' = job /\ drop'[w] = has /\ has # {}
          /\ j.op = "set_user_roles" /\ j.roles # {} /\ stage[w] = "target"
          /\ directory' = directory
      BY <1>0, <1>8 DEF LookUpMember, Proceed, TypeOK, EditInv, Edit, directory
    <2>2. RolesOf(j.uid)' = has
      BY <2>1, <1>4 DEF RolesOf, directory
    <2> QED BY <2>1, <2>2 DEF Edit
  <1>9. CASE LookUpLeaver(w)
    <2>1. /\ stage'[w] \in {"guard", "audit"} /\ job' = job /\ drop'[w] = has /\ add'[w] = {}
          /\ j.op = "remove_user" /\ directory' = directory
      BY <1>0, <1>9 DEF LookUpLeaver, Proceed, TypeOK, directory
    <2>2. RolesOf(j.uid)' = has
      BY <2>1 DEF RolesOf, directory
    <2> QED BY <2>1, <2>2 DEF Removal
  <1>10. CASE CheckInviteRoles(w)
    <2>1. stage'[w] = "target" /\ job' = job /\ j.op = "create_user"
      BY <1>0, <1>10 DEF CheckInviteRoles, Proceed, TypeOK
    <2> QED BY <2>1
  <1>11. CASE DiffRoles(w)
    <2>1. /\ stage[w] = "known" /\ stage'[w] \in {"guard", "audit"} /\ job' = job
          /\ j.op = "set_user_roles" /\ directory' = directory
          /\ add'[w] = j.roles \ drop[w] /\ drop'[w] = drop[w] \ j.roles
      BY <1>0, <1>11 DEF DiffRoles, Proceed, TypeOK, directory, Job
    <2>2. RolesOf(j.uid)' = has
      BY <2>1 DEF RolesOf, directory
    <2>3. j.roles # {} /\ (Still => drop[w] = has /\ has # {})
      BY <1>16, <2>1 DEF EditInv, Edit
    <2>4. Still => Diff(w)'
      BY <2>1, <2>2, <2>3 DEF Diff
    <2> QED BY <2>1, <2>3, <2>4 DEF Edit
  <1>12. CASE GuardLastAdmin(w) \/ Audit(w)
    <2>1. /\ stage[w] \in {"guard", "audit"} /\ job' = job /\ directory' = directory
          /\ add'[w] = add[w] /\ drop'[w] = drop[w]
          /\ \/ stage'[w] = "audit"
             \/ stage'[w] = FirstWrite(w)
      BY <1>0, <1>12 DEF GuardLastAdmin, Audit, Proceed, TypeOK, directory
    <2>2. /\ stage'[w] \in {"audit", "group", "account", "write"}
          /\ stage'[w] = "account" => j.op = "invite_new"
          /\ j.op \in {"set_user_roles", "remove_user"} => stage'[w] \in {"audit", "write"}
      BY <2>1 DEF FirstWrite
    <2>3. RolesOf(j.uid)' = has
      BY <2>1 DEF RolesOf, directory
    <2>4. j.op = "set_user_roles" => j.roles # {} /\ (Still => Diff(w)')
      BY <1>16, <2>1, <2>2, <2>3 DEF EditInv, Edit, Diff
    <2>5. j.op = "remove_user" => add[w] = {} /\ (Still => drop[w] = has)
      BY <1>16, <2>1, <2>2 DEF EditInv, Removal
    <2> QED BY <2>1, <2>2, <2>3, <2>4, <2>5 DEF Edit, Removal
  <1>13. CASE WriteAccount(w)
    <2>1. j.op = "invite_new"
      BY <1>13 DEF WriteAccount, EditInv
    <2>2. \/ stage'[w] = "idle"
          \/ stage'[w] = "write" /\ job' = job
      BY <1>0, <1>13, <2>1, Continuing DEF WriteAccount, TypeOK
    <2> QED BY <1>3, <2>1, <2>2
  <1>14. CASE WriteGrant(w)
    <2>1. PICK r \in add[w] \cap groups :
            /\ stage[w] = "write"
            /\ {x \in groups' : j.uid \in members'[x]} = has \cup {r}
            /\ Continue(w, add[w] \ {r}, drop[w]) \/ Finish(w)
      BY <1>0, <1>14, Granting
    <2>2. CASE stage'[w] = "write" /\ job' = job /\ add'[w] = add[w] \ {r} /\ drop'[w] = drop[w]
      <3>1. RolesOf(j.uid)' = has \cup {r}
        BY <2>1, <2>2 DEF RolesOf
      <3>2. j.op = "set_user_roles" => j.roles # {} /\ (Still => Diff(w)')
        BY <1>16, <2>1, <2>2, <3>1 DEF EditInv, Edit, Diff
      <3>3. j.op # "remove_user"
        BY <2>1 DEF EditInv, Removal
      <3> QED BY <2>2, <3>2, <3>3 DEF Edit
    <2>3. CASE stage'[w] = "purge" /\ job[w].op = "remove_user"
      BY <2>1, <2>3 DEF EditInv, Removal
    <2>4. add[w] \ {r} \in SUBSET Role /\ drop[w] \in SUBSET Role
      BY <1>0 DEF TypeOK
    <2>5. \/ stage'[w] = "idle"
          \/ stage'[w] = "write" /\ job' = job /\ add'[w] = add[w] \ {r} /\ drop'[w] = drop[w]
          \/ stage'[w] = "purge" /\ job[w].op = "remove_user"
      BY <1>0, <2>1, <2>4 DEF Continue, Finish, Proceed, TypeOK
    <2> HIDE DEF Follows
    <2> QED BY <1>3, <2>2, <2>3, <2>5
  <1>15. CASE WriteRevoke(w)
    <2>1. PICK r \in drop[w] :
            /\ stage[w] = "write" /\ add[w] = {}
            /\ {x \in groups' : j.uid \in members'[x]} = has \ {r}
            /\ Continue(w, {}, drop[w] \ {r}) \/ Finish(w)
      BY <1>0, <1>15, Revoking
    <2>2. ASSUME job' = job PROVE RolesOf(j.uid)' = has \ {r}
      BY <2>1, <2>2 DEF RolesOf
    <2>3. CASE stage'[w] = "write" /\ job' = job /\ add'[w] = {} /\ drop'[w] = drop[w] \ {r}
      <3>1. j.op = "set_user_roles" => j.roles # {} /\ (Still => Diff(w)')
        BY <1>16, <2>1, <2>2, <2>3 DEF EditInv, Edit, Diff
      <3>2. j.op = "remove_user" => (Still => drop'[w] = RolesOf(j.uid)')
        BY <1>16, <2>1, <2>2, <2>3 DEF EditInv, Removal
      <3> QED BY <2>3, <3>1, <3>2 DEF Edit, Removal
    <2>4. CASE stage'[w] = "purge" /\ job' = job /\ job[w].op = "remove_user" /\ drop[w] \ {r} = {}
      <3>1. Still => drop[w] = has
        BY <1>16, <2>1, <2>4 DEF EditInv, Removal
      <3>2. Still => RolesOf(j.uid)' = {}
        BY <2>2, <2>4, <3>1
      <3> QED BY <2>4, <3>2 DEF Removal
    <2>5. \/ stage'[w] = "idle"
          \/ stage'[w] = "write" /\ job' = job /\ add'[w] = {} /\ drop'[w] = drop[w] \ {r}
          \/ stage'[w] = "purge" /\ job' = job /\ job[w].op = "remove_user" /\ drop[w] \ {r} = {}
      BY <1>0, <2>1 DEF Continue, Finish, Proceed, TypeOK
    <2> QED BY <1>3, <2>3, <2>4, <2>5
  <1> HIDE DEF Follows
  <1> QED
    BY <1>5, <1>6, <1>7, <1>8, <1>9, <1>10, <1>11, <1>12, <1>13, <1>14, <1>15
       DEF NextCall, Step

\* A step of another worker.
LEMMA OthersEdit ==
    ASSUME TypeOK, NEW w \in Worker, NEW v \in Worker, v # w, Step(v), EditInv(w)
    PROVE  EditInv(w)'
  <1>1. TypeOK'
    BY TypeStep DEF Next, Step
  <1>2. /\ stage'[w] = stage[w] /\ add'[w] = add[w] /\ drop'[w] = drop[w]
        /\ job'[w] = job[w]
    BY OthersStay DEF Step
  <1>3. CASE "roles" \in Relies(w)
    <2>1. ASSUME "roles" \notin stale'[w]
          PROVE  "roles" \notin stale[w] /\ RolesOf(job[w].uid)' = RolesOf(job[w].uid)
      <3>1. "roles" \notin stale[w] /\ "roles" \notin Overtaken(w)
        BY <1>3, <2>1, OthersStale
      <3>2. {r \in groups' : job[w].uid \in members'[r]} = RolesOf(job[w].uid)
        BY <1>3, <3>1 DEF Overtaken
      <3> QED BY <1>2, <3>1, <3>2 DEF RolesOf
    <2> QED BY <1>1, <1>2, <2>1 DEF EditInv, Edit, Removal, Diff
  <1>4. CASE "roles" \notin Relies(w)
    BY <1>1, <1>2, <1>4 DEF EditInv, Edit, Removal, Relies
  <1> QED BY <1>3, <1>4

AllEdits == TypeOK /\ \A w \in Worker : EditInv(w)

LEMMA EditStep == AllEdits /\ [Next]_vars => AllEdits'
  <1> SUFFICES ASSUME AllEdits, [Next]_vars PROVE AllEdits'
    OBVIOUS
  <1>1. TypeOK /\ TypeOK'
    BY TypeStep DEF AllEdits
  <1>2. ASSUME NEW v \in Worker, Step(v), NEW w \in Worker
        PROVE  EditInv(w)'
    <2>1. EditInv(w)
      BY DEF AllEdits
    <2> QED BY <1>1, <1>2, <2>1, OwnEdit, OthersEdit
  <1>3. ASSUME UNCHANGED vars, NEW w \in Worker
        PROVE  EditInv(w)'
    <2>1. UNCHANGED <<directory, request, stale>>
      BY <1>3 DEF vars
    <2>2. EditInv(w)
      BY DEF AllEdits
    <2> QED BY <1>1, <2>1, <2>2 DEF EditInv, Edit, Removal, Diff, RolesOf, directory, request
  <1> QED BY <1>1, <1>2, <1>3 DEF AllEdits, Next, Step

LEMMA EditInit == Init => AllEdits
  BY TypeInit DEF Init, EditInv, AllEdits

\* What a step does to the directory while worker w is at its writes.
LEMMA Writes ==
    ASSUME NEW w \in Worker, Next, stage[w] = "write"
    PROVE  \/ WriteGrant(w) \/ WriteRevoke(w) \/ UNCHANGED directory
           \/ \E v \in Worker \ {w} : Step(v)
  <1>1. CASE NextArrival(w)
    BY <1>1, ArrivalAdmitted DEF Admitted, Arrive
  <1>2. CASE NextCall(w)
    BY <1>2 DEF NextCall, LookUpInvitee, LookUpMember, LookUpLeaver, CheckInviteRoles, DiffRoles,
       GuardLastAdmin, Refuse, Audit, WriteGroup, WriteAccount, WriteNothing, WriteFails, Purge
  <1> QED BY <1>1, <1>2 DEF Next, Step

\* Whatever requests overlap, an edit that makes its last write leaves the member with
\* exactly the roles that were submitted, unless another request has changed the
\* member's roles since they were looked up.
THEOREM Exact == Spec => SetRolesExact
  <1>1. AllEdits /\ [Next]_vars => [ExactAtLastWrite]_vars
    <2> SUFFICES ASSUME AllEdits, Next, NEW w \in Worker, stage[w] = "write",
                        stage'[w] = "idle", job[w].op = "set_user_roles",
                        "roles" \notin stale[w], members' # members,
                        Cardinality(add[w] \cup drop[w]) = 1
                 PROVE  {r \in groups' : job[w].uid \in members'[r]} = job[w].roles
      BY DEF ExactAtLastWrite
    <2>1. TypeOK /\ Diff(w)
      BY DEF AllEdits, EditInv, Edit
    <2>2. \A r \in add[w] \cup drop[w] : add[w] \cup drop[w] = {r}
      <3>1. PICK x : add[w] \cup drop[w] = {x}
        <4>1. IsFiniteSet(add[w] \cup drop[w])
          <5>1. add[w] \cup drop[w] \subseteq Role
            BY <2>1 DEF TypeOK
          <5> QED BY <5>1, FS_Subset, RolesAssumption
        <4> QED BY <4>1, FS_Singleton
      <3> QED BY <3>1
    <2>3. WriteGrant(w) \/ WriteRevoke(w)
      BY <2>1, Writes, OthersStay DEF directory, Step
    <2>4. CASE WriteGrant(w)
      <3>1. PICK r \in add[w] :
              {x \in groups' : job[w].uid \in members'[x]} = RolesOf(job[w].uid) \cup {r}
        BY <2>1, <2>4, Granting
      <3> QED BY <2>1, <2>2, <3>1 DEF Diff
    <2>5. CASE WriteRevoke(w)
      <3>1. PICK r \in drop[w] :
              /\ add[w] = {}
              /\ {x \in groups' : job[w].uid \in members'[x]} = RolesOf(job[w].uid) \ {r}
        BY <2>1, <2>5, Revoking
      <3> QED BY <2>1, <2>2, <3>1 DEF Diff
    <2> QED BY <2>3, <2>4, <2>5
  <1> QED BY <1>1, EditInit, EditStep, PTL DEF Spec, SetRolesExact

\* Until then no step taken during the writes of an edit leaves the member outside the
\* tenant.
THEOREM KeepsMembership == Spec => EditKeepsMembership
  <1>1. AllEdits /\ [Next]_vars => [MemberAfterWrite]_vars
    <2> SUFFICES ASSUME AllEdits, Next, NEW w \in Worker, stage[w] = "write",
                        job[w].op = "set_user_roles", "roles" \notin stale[w] \cup stale'[w]
                 PROVE  \E r \in groups' : job[w].uid \in members'[r]
      BY DEF MemberAfterWrite
    <2>1. TypeOK /\ Diff(w) /\ job[w].roles # {}
      BY DEF AllEdits, EditInv, Edit
    <2>2. CASE WriteGrant(w)
      <3>1. PICK r \in add[w] :
              {x \in groups' : job[w].uid \in members'[x]} = RolesOf(job[w].uid) \cup {r}
        BY <2>1, <2>2, Granting
      <3> QED BY <3>1
    <2>3. CASE WriteRevoke(w)
      <3>1. PICK r \in drop[w] :
              /\ add[w] = {}
              /\ {x \in groups' : job[w].uid \in members'[x]} = RolesOf(job[w].uid) \ {r}
        BY <2>1, <2>3, Revoking
      <3> QED BY <2>1, <3>1 DEF Diff
    <2>4. CASE UNCHANGED directory
      BY <2>1, <2>4 DEF Diff, RolesOf, directory
    <2>5. ASSUME NEW v \in Worker \ {w}, Step(v)
          PROVE  \E r \in groups' : job[w].uid \in members'[r]
      <3>1. "roles" \in Relies(w)
        BY DEF Relies
      <3>2. "roles" \notin Overtaken(w)
        BY <2>1, <2>5, <3>1, OthersStale
      <3>3. {r \in groups' : job[w].uid \in members'[r]} = RolesOf(job[w].uid)
        BY <3>1, <3>2 DEF Overtaken
      <3> QED BY <2>1, <3>3 DEF Diff
    <2> QED BY <2>1, <2>2, <2>3, <2>4, <2>5, Writes
  <1> QED BY <1>1, EditInit, EditStep, PTL DEF Spec, EditKeepsMembership

\* The keys of a leaver are purged only when the leaver is out of every role, so that no
\* new sign-in can mint another, unless the leaver was given one meanwhile.
THEOREM PurgeFollows == Spec => []PurgeFollowsRemoval
  <1>1. AllEdits => PurgeFollowsRemoval
    BY DEF AllEdits, EditInv, Removal, PurgeFollowsRemoval, TenantMembers
  <1> QED BY <1>1, EditInit, EditStep, PTL DEF Spec
=============================================================================
