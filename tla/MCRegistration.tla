--------------------------- MODULE MCRegistration ---------------------------
(***************************************************************************)
(* A small instance of Registration.  A step of one component neither      *)
(* reads nor writes what the other keeps, so TLC need not interleave them: *)
(* it runs each while the other is in its initial state.  The handlings of *)
(* an endpoint are alike, so they are numbered as they begin.              *)
(***************************************************************************)
EXTENDS Registration

CONSTANTS a, b, t1, t2, t3

(* Two tokens for one email, one for another.                              *)
Mails == [t \in Tokens |-> IF t = t3 THEN b ELSE a]

InOrder(phase) ==
    \A i, j \in DOMAIN phase :
        i < j /\ phase[i] = "idle" => phase[j] = "idle"

MCNext ==
    \/ Init /\ OtpNext /\ InOrder(at') /\ UNCHANGED vars
    \/ OtpInit /\ Next /\ InOrder(pc') /\ UNCHANGED otpVars

MCSpec == /\ RegistrationInit /\ [][MCNext]_<<otpVars, vars>>
          /\ OtpFairness
=============================================================================
