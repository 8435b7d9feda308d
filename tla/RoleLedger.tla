----------------------------- MODULE RoleLedger -----------------------------
(***************************************************************************)
(* What the administration of one tenant's role groups promises, whatever  *)
(* the routes do on the way: groups come and go except the administrators  *)
(* group and the system roles, memberships change one at a time, nobody is *)
(* ever put into a system role and the platform's own service accounts     *)
(* never leave one.  (SPECIFICATION.md section 4 and the docstring of      *)
(* reject_system_roles in routers/admin_roles.py.)                         *)
(*                                                                         *)
(* A caller can take a role out of this protection: by spelling its name   *)
(* in a way that the directory recognises and the routes do not.  Which    *)
(* roles are so exposed at a time is up to the callers.                    *)
(***************************************************************************)
CONSTANTS
    Person,       \* principals under the user base
    Service,      \* the background workers' accounts, outside the user base
    Role,         \* names a role group may have
    Admins,       \* the name "administrators"
    SystemRoles   \* roles that exist to make the platform work

VARIABLES
    groups,       \* the role groups that exist
    members,      \* members[r]: who is in group r
    exposed       \* the roles that some caller names in another spelling

Init ==
    /\ groups \in {G \in SUBSET Role : {Admins} \cup SystemRoles \subseteq G}
    /\ members \in [Role -> SUBSET (Person \cup Service)]
    /\ \A r \in SystemRoles : Service \subseteq members[r]
    /\ \A r \in Role \ groups : members[r] = {}
    /\ exposed = {}

Protected == SystemRoles \cup {Admins}

Create(r) ==
    /\ r \notin groups
    /\ groups' = groups \cup {r}
    /\ UNCHANGED members

Delete(r) ==
    /\ r \in groups
    /\ r \in Protected => r \in exposed
    /\ groups' = groups \ {r}
    /\ members' = [members EXCEPT ![r] = {}]

Grant(r, u) ==
    /\ r \in groups
    /\ r \in SystemRoles => r \in exposed
    /\ u \notin members[r]
    /\ members' = [members EXCEPT ![r] = @ \cup {u}]
    /\ UNCHANGED groups

Revoke(r, u) ==
    /\ u \in members[r]
    /\ members' = [members EXCEPT ![r] = @ \ {u}]
    /\ UNCHANGED groups

Next ==
    /\ \/ UNCHANGED <<groups, members>>
       \/ \E r \in Role :
            \/ Create(r)
            \/ Delete(r)
            \/ \E u \in Person : Grant(r, u) \/ Revoke(r, u)
    /\ exposed' \in SUBSET Role

Spec == Init /\ [][Next]_<<groups, members, exposed>>

\* A name without a group has no members; and what a protected role that nobody
\* has exposed keeps: its group, and the service accounts in it.
Tidy == \A r \in Role \ groups : members[r] = {}
Stands(r) == r \in groups /\ (r \in SystemRoles => Service \subseteq members[r])
=============================================================================
