-------------------------------- MODULE MCOtp --------------------------------
(* A small instance of Otp. *)
EXTENDS Otp

CONSTANTS q1, q2

MCKeys == {"code", "cooldown", "hits", "block"}

=============================================================================
