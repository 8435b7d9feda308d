--------------------------- MODULE MCOAuthGrants ---------------------------
(***************************************************************************)
(* OAuthGrants with the sets a run can enumerate.  Every request asks for  *)
(* two of the three scopes, so that a refresh can narrow what it holds and *)
(* there is a scope that nobody approved; of the three grants one is a     *)
(* code, one its refresh token and one the token a rotation puts in its    *)
(* place.                                                                  *)
(***************************************************************************)
EXTENDS OAuthGrants, TLC

CONSTANTS offline, roles, files

TwoOfThree == {{offline, roles}}

Symmetry == Permutations(Worker) \cup Permutations(Grant)
=============================================================================
