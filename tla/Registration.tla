---------------------------- MODULE Registration ----------------------------
(***************************************************************************)
(* The way in for a new customer: the OTP challenge (Otp), which gives a   *)
(* registration token, and the enrollment (Enrollment), which takes one.   *)
(* Both are handlers of the gateway that run side by side.  What they      *)
(* share is the token itself, a signed statement the client carries: they  *)
(* have no Redis key in common, and a token's jti, a fresh UUID, may be    *)
(* missing when the enrollment looks for it.                               *)
(***************************************************************************)
EXTENDS Otp, Enrollment

RegistrationInit == OtpInit /\ Init

(* A step of the one or of the other.                                      *)
RegistrationNext ==
    \/ OtpNext /\ UNCHANGED vars
    \/ Next /\ UNCHANGED otpVars

RegistrationSpec ==
    RegistrationInit /\ [][RegistrationNext]_<<otpVars, vars>>
=============================================================================
