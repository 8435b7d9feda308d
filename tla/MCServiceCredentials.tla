----------------------- MODULE MCServiceCredentials ------------------------
(***************************************************************************)
(* ServiceCredentials with the sets a run can enumerate.                   *)
(***************************************************************************)
EXTENDS ServiceCredentials, TLC

TwoScopes == {"webdav", "api"}
ApiOnly == {{"api"}}

Symmetry ==
    Permutations(User) \cup Permutations(Tenant) \cup Permutations(KeyId)
        \cup Permutations(Secret) \cup Permutations(Worker)
=============================================================================
