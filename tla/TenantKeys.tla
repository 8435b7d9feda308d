---------------------------- MODULE TenantKeys -----------------------------
(***************************************************************************)
(* Door keys beside the tenant's roles: what the self-service key routes   *)
(* (routers/service_cred.py), the check (service_cred.py) and the purge at *)
(* the end of remove_user make of a person's key while the administration  *)
(* routes of TenantRoles change who is a member.  One key per person.      *)
(***************************************************************************)
EXTENDS TenantRoles

VARIABLES
    keys,      \* persons with a door key that is neither revoked nor expired
    bearers    \* persons with an unexpired bearer token for this tenant

keyVars == <<keys, bearers>>

KeysInit ==
    /\ Init
    /\ keys = {}
    /\ bearers = {}

-----------------------------------------------------------------------------
\* A bearer token is issued for this tenant to a member of it and stays valid until
\* it expires; create_credential asks for nothing else.
SignIn(u) ==
    /\ u \in TenantMembers
    /\ bearers' = bearers \cup {u}
    /\ UNCHANGED keys

BearerExpires(u) ==
    /\ u \in bearers
    /\ bearers' = bearers \ {u}
    /\ UNCHANGED keys

CreateCredential(u) ==
    /\ u \in bearers
    /\ keys' = keys \cup {u}
    /\ UNCHANGED bearers

RevokeCredential(u) ==
    /\ u \in bearers \cap keys
    /\ keys' = keys \ {u}
    /\ UNCHANGED bearers

\* ServiceCredentialStore.check: a row of this tenant that is not revoked or
\* expired.  The roles of its owner are not asked for.
KeyVerifies(u) == u \in keys

-----------------------------------------------------------------------------
\* A step of an administration request.  The purge that remove_user ends with deletes
\* the leaver's keys, or raises, which _purge_tenant_credentials swallows; no other
\* route touches them.
NextRoles(w) ==
    /\ (NextArrival(w) \/ NextCall(w)) /\ Watched(w)
    /\ \/ stage[w] = "purge" /\ keys' = keys \ {job[w].uid}
       \/ UNCHANGED keys
    /\ UNCHANGED bearers

NextKey(u) ==
    /\ SignIn(u) \/ BearerExpires(u) \/ CreateCredential(u) \/ RevokeCredential(u)
    /\ UNCHANGED vars

KeysNext == (\E w \in Worker : NextRoles(w)) \/ (\E u \in Person : NextKey(u))

KeysSpec == KeysInit /\ [][KeysNext]_<<vars, keyVars>>

-----------------------------------------------------------------------------
\* The comment of _purge_tenant_credentials: leftover keys "would in any case fail
\* verification once the roles are gone".
LeftoverKeysFail == \A u \in Person : u \notin TenantMembers => ~KeyVerifies(u)
=============================================================================
