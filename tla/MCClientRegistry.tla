--------------------------- MODULE MCClientRegistry ---------------------------
(***************************************************************************)
(* ClientRegistry with one client and one worker: no overlap is needed.    *)
(***************************************************************************)
EXTENDS ClientRegistry
=============================================================================
