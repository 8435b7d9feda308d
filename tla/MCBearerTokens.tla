--------------------------- MODULE MCBearerTokens ---------------------------
(***************************************************************************)
(* BearerTokens with a short-lived and a longer-lived token.               *)
(***************************************************************************)
EXTENDS BearerTokens, TLC

CONSTANTS Short, Long

ExpiryOf == (Short :> 1) @@ (Long :> 4)

Symmetry == Permutations(Worker)
=============================================================================
