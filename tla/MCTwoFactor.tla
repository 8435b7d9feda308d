---------------------------- MODULE MCTwoFactor ----------------------------
(***************************************************************************)
(* TwoFactor with the sets a run can enumerate.                            *)
(***************************************************************************)
EXTENDS TwoFactor, TLC

AllMethods == {"totp", "email"}

Symmetry ==
    Permutations(Worker) \cup Permutations(Secret)
        \cup Permutations(Recovery) \cup Permutations(Mailed)
=============================================================================
