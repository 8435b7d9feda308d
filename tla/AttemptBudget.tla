---------------------------- MODULE AttemptBudget ----------------------------
(***************************************************************************)
(* What the attempt limit of a share link promises to its owner, whatever  *)
(* the service does on the way: within one window at most Limit            *)
(* submissions are let through to be compared, each of them paid for, and  *)
(* only the end of the window gives the budget back.                       *)
(* (routers/share_otp.py, lines 213-215: "the budget cannot be replenished *)
(* by requesting a fresh code".)                                           *)
(***************************************************************************)
EXTENDS Naturals

CONSTANT Limit      \* share_otp_max_attempts

VARIABLES
    spent,          \* what the submissions of this window have been charged
    admitted        \* submissions of this window that it let through

Init == spent = 0 /\ admitted = 0

\* One unit of the budget is charged; it may be the one that admits a submission.
Charge ==
    /\ spent < Limit
    /\ spent' = spent + 1
    /\ admitted' \in {admitted, admitted + 1}

EndWindow == spent' = 0 /\ admitted' = 0

Next == Charge \/ EndWindow

Spec == Init /\ [][Next]_<<spent, admitted>>

\* Nobody gets more than Limit submissions let through in a window.
Sound == admitted <= spent /\ spent <= Limit
=============================================================================
