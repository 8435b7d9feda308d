----------------------------- MODULE MCShareOtp -----------------------------
(***************************************************************************)
(* ShareOtp with small limits: a submission that trips the timing check    *)
(* costs two of the two attempts.                                          *)
(***************************************************************************)
EXTENDS ShareOtp

Limits == [b \in Bucket |-> IF b = "send" THEN 1 ELSE 2]
Windows == [b \in Bucket |-> IF b = "send" THEN 1 ELSE 2]
=============================================================================
