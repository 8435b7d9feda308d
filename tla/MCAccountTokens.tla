-------------------------- MODULE MCAccountTokens --------------------------
(***************************************************************************)
(* AccountTokens with one account, which the directory spells one way and  *)
(* an administrator may spell another.                                     *)
(***************************************************************************)
EXTENDS AccountTokens, TLC

CONSTANTS Lower, Upper

OwnerOf == [a \in {Lower, Upper} |-> Lower]

Symmetry == Permutations(Token) \cup Permutations(Worker)
=============================================================================
