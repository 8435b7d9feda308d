--------------------------- MODULE MCTenantRoles ---------------------------
(***************************************************************************)
(* TenantRoles on small tenants.  Persons, service accounts and workers    *)
(* are model values; persons and workers are interchangeable.              *)
(***************************************************************************)
EXTENDS TenantRoles, TLC

Symmetry == Permutations(Person) \cup Permutations(Worker)
=============================================================================
