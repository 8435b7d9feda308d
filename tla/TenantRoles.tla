---------------------------- MODULE TenantRoles ----------------------------
(***************************************************************************)
(* The tenant-administration routes (routers/admin_roles.py and            *)
(* routers/admin_users.py) over the role groups of one tenant.             *)
(*                                                                         *)
(* Every route is a synchronous handler: FastAPI runs it on a thread of    *)
(* its pool, and each call it makes to the directory, the audit service or *)
(* the credential store is a round trip of its own.  A worker is such a    *)
(* thread.  The stage of a worker names the call it makes next, so the     *)
(* steps of two requests interleave exactly at their calls.  A request     *)
(* that is refused, or whose call fails, ends where it stands; the writes  *)
(* it has already made stay.                                               *)
(*                                                                         *)
(* The directory is one server here (no replica), and everything is within *)
(* one tenant: every DN the routes build is below that tenant's ou.        *)
(*                                                                         *)
(* The directory compares uids and role names without case, the routes     *)
(* compare them letter by letter.  A path may therefore name a principal   *)
(* or a role in a spelling that the routes' own tests do not recognise and *)
(* the directory does.                                                     *)
(***************************************************************************)
EXTENDS Integers, FiniteSets

CONSTANTS
    Person,       \* uids below ldap_user_base
    Service,      \* the svc-* accounts of ou=services, never below it
    Role,         \* names a role group may have
    Admins,       \* "administrators"
    SystemRoles,  \* {"file_services"}
    NewRoles,     \* the names that new groups are asked for (bound)
    RoleSets,     \* the role sets that bodies submit (bound)
    Spelling,     \* whether paths may respell names (bound: {TRUE}, never)
    Worker,       \* threads that serve administration requests
    None          \* no request, no principal, no caller

ASSUME RolesAssumption ==
    /\ Admins \in Role
    /\ IsFiniteSet(Role)
    /\ SystemRoles \subseteq Role \ {Admins}
    /\ NewRoles \subseteq Role
    /\ RoleSets \subseteq SUBSET Role
    /\ Spelling \subseteq BOOLEAN

ASSUME PersonAssumption ==
    /\ IsFiniteSet(Person)
    /\ IsFiniteSet(Service)
    /\ Person \cap Service = {}

\* The routes; create_user goes on as _invite_new_user or _add_existing_to_tenant.
Op == {"create_role", "delete_role", "add_member", "remove_member", "create_user",
       "invite_new", "add_existing", "set_user_roles", "remove_user"}

\* What a request carries: the roles in its path or body, and, where a route asks for
\* them, the principal and the caller (the identity its bearer token names, kept by the
\* routes that compare it).  exact says whether the path spells the principal's uid as
\* the identity service does, literal whether it spells the role as the constants ADMINS
\* and SYSTEM_ROLES do.  Roles in a body of create_user or set_user_roles are always
\* literal: they are compared with names read from the directory, and another spelling
\* is an unknown role.
GroupOp == {"create_role", "delete_role"}
Job == [op : GroupOp, actor : {None}, uid : {None}, roles : SUBSET Role,
        exact : BOOLEAN, literal : BOOLEAN]
       \cup
       [op : Op \ GroupOp, actor : Person \cup {None}, uid : Person, roles : SUBSET Role,
        exact : BOOLEAN, literal : BOOLEAN]

Stage == {"idle",
          "target",    \* get_user, user_roles: who is this about
          "known",     \* list_roles: do the named roles exist
          "guard",     \* list_members(administrators): the last-admin guard
          "audit",     \* audit.emit: the write-ahead record
          "account",   \* ldap.create_user
          "group",     \* ldap.create_role, ldap.delete_role
          "write",     \* ldap.add_member, ldap.remove_member
          "purge"}     \* service_cred.revoke_all_for_tenant

\* One entry of an audit record.
Change == {"create_role", "delete_role", "grant", "revoke"} \X Role

VARIABLES
    groups,    \* directory: role groups below the tenant's ou
    members,   \* directory: members[r], the placeholder bind DN left out
    accounts,  \* directory: uids with a global user entry
    stage,     \* stage[w]: the call worker w makes next
    job,       \* job[w]: the request worker w serves
    add,       \* add[w]: roles still to grant
    drop,      \* drop[w]: roles still to revoke
    logged,    \* logged[w]: the changes the audit service has acknowledged
    stale      \* history, stale[w]: what w has read and others have changed since

directory == <<groups, members, accounts>>
request == <<stage, job, add, drop, logged>>
vars == <<directory, request, stale>>

RolesOf(u) == {r \in groups : u \in members[r]}
TenantMembers == {u \in Person : RolesOf(u) # {}}

-----------------------------------------------------------------------------
\* A tenant as it is provisioned: an administrators group with somebody in it,
\* the system roles with the platform's service accounts, and whoever joined.
Init ==
    /\ groups = Role
    /\ members \in [Role -> SUBSET (Person \cup Service)]
    /\ members[Admins] \in (SUBSET Person) \ {{}}
    /\ \A r \in SystemRoles : members[r] = Service
    /\ \A r \in Role \ SystemRoles : members[r] \subseteq Person
    /\ accounts = UNION {members[r] \ Service : r \in Role}
    /\ stage = [w \in Worker |-> "idle"]
    /\ job = [w \in Worker |-> None]
    /\ add = [w \in Worker |-> {}]
    /\ drop = [w \in Worker |-> {}]
    /\ logged = [w \in Worker |-> {}]
    /\ stale = [w \in Worker |-> {}]

\* The request continues with the call of stage s.
Proceed(w, s, a, d) ==
    /\ stage' = [stage EXCEPT ![w] = s]
    /\ add' = [add EXCEPT ![w] = a]
    /\ drop' = [drop EXCEPT ![w] = d]

\* The response is on its way; the worker's locals are gone.
Finish(w) ==
    /\ Proceed(w, "idle", {}, {})
    /\ job' = [job EXCEPT ![w] = None]
    /\ logged' = [logged EXCEPT ![w] = {}]

-----------------------------------------------------------------------------
\* Whom require_tenant_admin lets in: it looks the caller up in the directory once,
\* when the request arrives.
Callers == Person \cap members[Admins]

\* A request arrives.  Whatever a route refuses from the request alone it refuses
\* here, and a refused request changes nothing.
Arrive(w, j, s, a, d) ==
    /\ job' = [job EXCEPT ![w] = j]
    /\ Proceed(w, s, a, d)
    /\ UNCHANGED <<directory, logged>>

Request(o, actor, u, R, exact, literal) ==
    [op |-> o, actor |-> actor, uid |-> u, roles |-> R, exact |-> exact, literal |-> literal]

CreateRole(w, r) ==
    Arrive(w, Request("create_role", None, None, {r}, TRUE, TRUE), "audit", {}, {})

DeleteRole(w, r, literal) ==
    /\ literal => r \notin SystemRoles \cup {Admins}
    /\ Arrive(w, Request("delete_role", None, None, {r}, TRUE, literal), "audit", {}, {})

\* Deliberately wrong: reject_system_roles not called.
AddMemberAnyRole(w, u, r, literal) ==
    Arrive(w, Request("add_member", None, u, {r}, TRUE, literal), "audit", {r}, {})

AddMember(w, u, r, literal) ==
    /\ literal => r \notin SystemRoles
    /\ Arrive(w, Request("add_member", None, u, {r}, TRUE, literal), "audit", {r}, {})

RemoveMember(w, actor, u, r, exact, literal) ==
    LET guarded == literal /\ r = Admins
    IN  /\ literal => r \notin SystemRoles
        /\ guarded => ~(u = actor /\ exact)
        /\ Arrive(w, Request("remove_member", IF guarded THEN actor ELSE None, u, {r},
                             exact, literal),
                  IF guarded THEN "guard" ELSE "audit", {}, {r})

\* UserCreate demands at least one role; the roles are checked at "known".
CreateUser(w, u, R) ==
    /\ R # {}
    /\ Arrive(w, Request("create_user", None, u, R, TRUE, TRUE), "known", {}, {})

\* An empty set of roles is refused whatever the directory holds.
SetUserRoles(w, actor, u, R) ==
    /\ R # {}
    /\ Arrive(w, Request("set_user_roles", actor, u, R, TRUE, TRUE), "target", {}, {})

RemoveUser(w, actor, u) ==
    Arrive(w, Request("remove_user", actor, u, {}, TRUE, TRUE), "target", {}, {})

-----------------------------------------------------------------------------
\* The reads.  Each enabled disjunct is the case in which the checks on what was
\* read pass; the refusals are Refuse.

\* create_user: get_user finds no account and _invite_new_user takes over, or it
\* finds one and _add_existing_to_tenant asks which of the roles it holds already.
LookUpInvitee(w) ==
    LET u == job[w].uid
    IN  /\ stage[w] = "target"
        /\ job[w].op = "create_user"
        /\ \/ /\ u \notin accounts
              /\ job' = [job EXCEPT ![w].op = "invite_new"]
              /\ Proceed(w, "audit", job[w].roles, {})
           \/ /\ u \in accounts
              /\ job' = [job EXCEPT ![w].op = "add_existing"]
              /\ Proceed(w, "audit", job[w].roles \ RolesOf(u), {})
        /\ UNCHANGED <<directory, logged>>

\* set_user_roles: _member_or_404.  The roles read are kept (in drop[w]) for the
\* diff that is made once the known roles are read.
LookUpMember(w) ==
    /\ stage[w] = "target"
    /\ job[w].op = "set_user_roles"
    /\ job[w].uid \in accounts
    /\ RolesOf(job[w].uid) # {}
    /\ Proceed(w, "known", {}, RolesOf(job[w].uid))
    /\ UNCHANGED <<directory, job, logged>>

\* remove_user: get_user, the self test, user_roles.
LookUpLeaver(w) ==
    /\ stage[w] = "target"
    /\ job[w].op = "remove_user"
    /\ job[w].uid \in accounts
    /\ job[w].uid # job[w].actor
    /\ RolesOf(job[w].uid) # {}
    /\ Proceed(w, IF Admins \in RolesOf(job[w].uid) THEN "guard" ELSE "audit",
               {}, RolesOf(job[w].uid))
    /\ UNCHANGED <<directory, job, logged>>

\* create_user: every named role exists and none is a system role.
CheckInviteRoles(w) ==
    /\ stage[w] = "known"
    /\ job[w].op = "create_user"
    /\ job[w].roles \subseteq groups
    /\ job[w].roles \cap SystemRoles = {}
    /\ Proceed(w, "target", {}, {})
    /\ UNCHANGED <<directory, job, logged>>

\* Deliberately wrong: a diff that also revokes what stays wanted.
DiffRolesReplacing(w) ==
    /\ stage[w] = "known"
    /\ job[w].op = "set_user_roles"
    /\ job[w].roles \subseteq groups
    /\ job[w].roles # drop[w]
    /\ (job[w].roles \ drop[w]) \cap SystemRoles = {}
    /\ Admins \in drop[w] => job[w].uid # job[w].actor
    /\ Proceed(w, IF Admins \in drop[w] THEN "guard" ELSE "audit",
               job[w].roles \ drop[w], drop[w])
    /\ UNCHANGED <<directory, job, logged>>

\* set_user_roles: the diff against the roles read before, its refusals, and
\* the first half of _guard_admin_removal.
DiffRoles(w) ==
    LET current == drop[w]
        toAdd == job[w].roles \ current
        toDrop == current \ job[w].roles
    IN  /\ stage[w] = "known"
        /\ job[w].op = "set_user_roles"
        /\ job[w].roles \subseteq groups
        /\ toAdd \cup toDrop # {}
        /\ toAdd \cap SystemRoles = {}
        /\ Admins \in toDrop => job[w].uid # job[w].actor
        /\ Proceed(w, IF Admins \in toDrop THEN "guard" ELSE "audit", toAdd, toDrop)
        /\ UNCHANGED <<directory, job, logged>>

\* Deliberately wrong: an off-by-one in the comparison.
GuardLastAdminOffByOne(w) ==
    /\ stage[w] = "guard"
    /\ Cardinality(members[Admins]) >= 1
    /\ Proceed(w, "audit", add[w], drop[w])
    /\ UNCHANGED <<directory, job, logged>>

\* The last-administrator guard: refuse when len(list_members) <= 1.
GuardLastAdmin(w) ==
    /\ stage[w] = "guard"
    /\ Cardinality(members[Admins]) > 1
    /\ Proceed(w, "audit", add[w], drop[w])
    /\ UNCHANGED <<directory, job, logged>>

\* A read raises, one of the checks above refuses what was read, or the audit
\* service does not acknowledge the record: nothing has been written yet.
Refuse(w) ==
    /\ stage[w] \in {"target", "known", "guard", "audit"}
    /\ Finish(w)
    /\ UNCHANGED directory

-----------------------------------------------------------------------------
\* The write-ahead record, and the call that follows it.
AuditRecord(w) ==
    IF job[w].op \in {"create_role", "delete_role"}
    THEN {job[w].op} \X job[w].roles
    ELSE ({"grant"} \X add[w]) \cup ({"revoke"} \X drop[w])

\* Deliberately wrong: the group routes taken for edits of a member.
FirstWriteOfMember(w) ==
    IF job[w].op = "invite_new" THEN "account" ELSE "write"

FirstWrite(w) ==
    CASE job[w].op \in {"create_role", "delete_role"} -> "group"
      [] job[w].op = "invite_new" -> "account"
      [] OTHER -> "write"

\* Deliberately wrong: the request goes on when the record was not acknowledged.
AuditUnchecked(w) ==
    /\ stage[w] = "audit"
    /\ \/ logged' = [logged EXCEPT ![w] = AuditRecord(w)]
       \/ UNCHANGED logged
    /\ Proceed(w, FirstWrite(w), add[w], drop[w])
    /\ UNCHANGED <<directory, job>>

Audit(w) ==
    /\ stage[w] = "audit"
    /\ logged' = [logged EXCEPT ![w] = AuditRecord(w)]
    /\ Proceed(w, FirstWrite(w), add[w], drop[w])
    /\ UNCHANGED <<directory, job>>

-----------------------------------------------------------------------------
\* The writes.  Each is one LDAP operation, atomic at the server.  A write that
\* the server refuses (entryAlreadyExists, noSuchObject, attributeOrValueExists,
\* noSuchAttribute) or that never reaches it is WriteFails; a write that is
\* applied but whose reply misses receive_timeout ends the request all the same.

\* Deliberately wrong: remove_user goes on to the purge after one revocation.
ContinueTooEarly(w, a, d) ==
    IF job[w].op = "remove_user"
    THEN Proceed(w, "purge", {}, {}) /\ UNCHANGED <<job, logged>>
    ELSE IF a \cup d # {}
         THEN Proceed(w, "write", a, d) /\ UNCHANGED <<job, logged>>
         ELSE Finish(w)

\* What follows the write that leaves a to grant and d to revoke.
Continue(w, a, d) ==
    IF a \cup d # {}
    THEN Proceed(w, "write", a, d) /\ UNCHANGED <<job, logged>>
    ELSE IF job[w].op = "remove_user"
         THEN Proceed(w, "purge", {}, {}) /\ UNCHANGED <<job, logged>>
         ELSE Finish(w)

WriteGroup(w) ==
    /\ stage[w] = "group"
    /\ \E r \in job[w].roles :
        \/ /\ job[w].op = "create_role"
           /\ r \notin groups
           /\ groups' = groups \cup {r}
           /\ UNCHANGED members
        \/ /\ job[w].op = "delete_role"
           /\ r \in groups
           /\ groups' = groups \ {r}
           /\ members' = [members EXCEPT ![r] = {}]
    /\ Finish(w)
    /\ UNCHANGED accounts

WriteAccount(w) ==
    /\ stage[w] = "account"
    /\ job[w].uid \notin accounts
    /\ accounts' = accounts \cup {job[w].uid}
    /\ Continue(w, add[w], drop[w]) \/ Finish(w)
    /\ UNCHANGED <<groups, members>>

WriteGrant(w) ==
    /\ stage[w] = "write"
    /\ \E r \in add[w] :
        /\ r \in groups
        /\ job[w].uid \notin members[r]
        /\ members' = [members EXCEPT ![r] = @ \cup {job[w].uid}]
        /\ Continue(w, add[w] \ {r}, drop[w]) \/ Finish(w)
    /\ UNCHANGED <<groups, accounts>>

\* Deliberately wrong: the two loops of set_user_roles in the other order.
WriteRevokeFirst(w) ==
    /\ stage[w] = "write"
    /\ \E r \in drop[w] :
        /\ job[w].uid \in members[r]
        /\ members' = [members EXCEPT ![r] = @ \ {job[w].uid}]
        /\ Continue(w, add[w], drop[w] \ {r}) \/ Finish(w)
    /\ UNCHANGED <<groups, accounts>>

\* The revocations of set_user_roles come after all its grants.
WriteRevoke(w) ==
    /\ stage[w] = "write"
    /\ add[w] = {}
    /\ \E r \in drop[w] :
        /\ job[w].uid \in members[r]
        /\ members' = [members EXCEPT ![r] = @ \ {job[w].uid}]
        /\ Continue(w, {}, drop[w] \ {r}) \/ Finish(w)
    /\ UNCHANGED <<groups, accounts>>

\* _add_existing_to_tenant of somebody who holds every named role: no write.
WriteNothing(w) ==
    /\ stage[w] = "write"
    /\ add[w] \cup drop[w] = {}
    /\ Finish(w)
    /\ UNCHANGED directory

WriteFails(w) ==
    /\ stage[w] \in {"group", "account", "write"}
    /\ add[w] \cup drop[w] # {} \/ stage[w] # "write"
    /\ Finish(w)
    /\ UNCHANGED directory

\* remove_user ends with _purge_tenant_credentials, which swallows every exception:
\* whether or not the leaver's door keys are gone (TenantKeys), the request succeeds.
Purge(w) ==
    /\ stage[w] = "purge"
    /\ Finish(w)
    /\ UNCHANGED directory

-----------------------------------------------------------------------------
\* What a request relies on after it has read it: "count", the number of
\* administrators, from the guard on; "roles", the member's roles, from the look-up on.
Relies(w) ==
    (IF stage[w] \in {"audit", "write"} /\ Admins \in drop[w] THEN {"count"} ELSE {})
    \cup
    (IF /\ stage[w] \in {"known", "guard", "audit", "write", "purge"}
        /\ job[w].op \in {"set_user_roles", "remove_user"}
     THEN {"roles"} ELSE {})

\* What this step has changed of it.
Overtaken(w) ==
    {x \in Relies(w) :
        \/ x = "count" /\ ~(members[Admins] \subseteq members'[Admins])
        \/ x = "roles" /\ {r \in groups' : job[w].uid \in members'[r]} # RolesOf(job[w].uid)}

\* The history of a step of w: what it changes makes the others stale, and what a
\* request no longer relies on is forgotten.
Watched(w) ==
    stale' = [v \in Worker |->
                Relies(v)' \cap (IF v = w THEN stale[v] ELSE stale[v] \cup Overtaken(v))]

\* The spellings worth telling apart, those of what a route compares: add_member the
\* role with SYSTEM_ROLES, remove_member and delete_role with ADMINS as well, and
\* remove_member the uid with the caller's, when the role is ADMINS to it.
Spellings(compared) == IF compared THEN Spelling ELSE {TRUE}

NextArrival(w) ==
    /\ stage[w] = "idle"
    /\ \E actor \in Callers :
        \/ \E r \in NewRoles : CreateRole(w, r)
        \/ \E r \in Role : \E l \in Spellings(r \in SystemRoles \cup {Admins}) :
             DeleteRole(w, r, l)
        \/ \E u \in Person :
            \/ \E r \in Role : \E l \in Spellings(r \in SystemRoles) : AddMember(w, u, r, l)
            \/ \E r \in Role : \E l \in Spellings(r \in SystemRoles \cup {Admins}) :
                 \E e \in Spellings(l /\ r = Admins /\ u = actor) :
                   RemoveMember(w, actor, u, r, e, l)
            \/ \E R \in RoleSets : CreateUser(w, u, R) \/ SetUserRoles(w, actor, u, R)
            \/ RemoveUser(w, actor, u)

NextCall(w) ==
    /\ stage[w] # "idle"
    /\ \/ LookUpInvitee(w) \/ LookUpMember(w) \/ LookUpLeaver(w)
       \/ CheckInviteRoles(w) \/ DiffRoles(w) \/ GuardLastAdmin(w)
       \/ Refuse(w) \/ Audit(w)
       \/ WriteGroup(w) \/ WriteAccount(w) \/ WriteGrant(w) \/ WriteRevoke(w)
       \/ WriteNothing(w) \/ WriteFails(w) \/ Purge(w)

Next == \E w \in Worker : (NextArrival(w) \/ NextCall(w)) /\ Watched(w)

Spec == Init /\ [][Next]_vars

-----------------------------------------------------------------------------
TypeOK ==
    /\ groups \in SUBSET Role
    /\ members \in [Role -> SUBSET (Person \cup Service)]
    /\ accounts \in SUBSET Person
    /\ stage \in [Worker -> Stage]
    /\ job \in [Worker -> Job \cup {None}]
    /\ \A w \in Worker : stage[w] # "idle" => job[w] \in Job
    /\ \A w \in Worker : stage[w] \in {"account", "write", "purge"} => job[w].uid \in Person
    /\ add \in [Worker -> SUBSET Role]
    /\ drop \in [Worker -> SUBSET Role]
    /\ logged \in [Worker -> SUBSET Change]
    /\ stale \in [Worker -> SUBSET {"count", "roles"}]

\* SPECIFICATION.md lines 130-131: "the last administrator cannot be removed
\* (last-admin guard)".
AdministratorsRemain == members[Admins] # {}

\* What the code keeps of that rule, whatever requests overlap.  A step that leaves no
\* administrator belongs to a request whose path spells the role otherwise, so that
\* neither the self test nor the guard was for it; or to one whose count another
\* request has overtaken, and then its caller has been removed meanwhile, or names
\* itself in another spelling.  (GuardLastAdmin and the self tests of remove_member,
\* set_user_roles and remove_user.)
LastSeatTaken ==
    members[Admins] # {} /\ members'[Admins] = {} =>
      \E w \in Worker :
         /\ \/ stage[w] = "write" /\ Admins \in drop[w] \ drop'[w]
            \/ stage[w] = "group" /\ Admins \in job[w].roles
         /\ \/ ~job[w].literal
            \/ /\ "count" \in stale[w]
               /\ \/ job[w].actor \notin members[Admins]
                  \/ job[w].actor = job[w].uid /\ ~job[w].exact
LastSeatGuarded == [][LastSeatTaken]_vars

\* No privilege changes without a record of it acknowledged by the audit service
\* before (the fail-closed write-ahead every route makes): each change of the
\* role groups is listed in the record of a request that is writing.
ChangeRecorded ==
    /\ \A r \in Role, u \in Person :
         /\ u \in members'[r] \ members[r] =>
              \E w \in Worker : stage[w] = "write" /\ job[w].uid = u
                                /\ <<"grant", r>> \in logged[w]
         /\ u \in members[r] \ members'[r] /\ r \in groups' =>
              \E w \in Worker : stage[w] = "write" /\ job[w].uid = u
                                /\ <<"revoke", r>> \in logged[w]
    /\ \A r \in groups' \ groups :
         \E w \in Worker : <<"create_role", r>> \in logged[w]
    /\ \A r \in groups \ groups' :
         \E w \in Worker : <<"delete_role", r>> \in logged[w]
WriteAheadAudit == [][ChangeRecorded]_vars

\* The roles that requests under way name in a spelling of their own.
Exposed ==
    UNION {job[w].roles : w \in {v \in Worker : stage[v] # "idle" /\ ~job[v].literal}}

\* The routes implement the ledger: nobody deletes a protected group or puts anybody
\* into a system role (reject_system_roles, the ADMINS test of delete_role), unless a
\* request under way spells that role otherwise; and no service account leaves one.
Ledger == INSTANCE RoleLedger WITH exposed <- Exposed
ImplementsLedger == Ledger!Spec

\* A PUT of roles that makes its last write leaves the member with exactly the roles
\* submitted (set_user_roles' diff), unless another request has changed the member's
\* roles since they were looked up.
ExactAtLastWrite ==
    \A w \in Worker :
        /\ stage[w] = "write" /\ stage'[w] = "idle"
        /\ job[w].op = "set_user_roles"
        /\ "roles" \notin stale[w]
        /\ members' # members
        /\ Cardinality(add[w] \cup drop[w]) = 1
        => {r \in groups' : job[w].uid \in members'[r]} = job[w].roles
SetRolesExact == [][ExactAtLastWrite]_vars

\* An edit of roles never puts the member out of the tenant, wherever it stops (the
\* grants come before the revocations), unless it has been overtaken in the same way.
MemberAfterWrite ==
    \A w \in Worker :
        /\ stage[w] = "write" /\ job[w].op = "set_user_roles"
        /\ "roles" \notin stale[w] \cup stale'[w]
        => \E r \in groups' : job[w].uid \in members'[r]
EditKeepsMembership == [][MemberAfterWrite]_vars

\* remove_user purges the door keys only when the leaver is out of every role, so no
\* new sign-in can mint another key, unless the leaver was given one meanwhile.
PurgeFollowsRemoval ==
    \A w \in Worker :
        stage[w] = "purge" /\ "roles" \notin stale[w] => job[w].uid \notin TenantMembers
=============================================================================
