----------------------------- MODULE ApiGateway -----------------------------
(***************************************************************************)
(* The API gateway: the proxy with its limiter (Gateway) and the codec of  *)
(* the messages it exchanges with the services (Wire).  The codec is       *)
(* synchronous code that works on one message and keeps no state: whatever *)
(* requests are under way, neither sees a variable of the other.           *)
(***************************************************************************)
EXTENDS Wire, Gateway

ApiInit == CodecInit /\ Init

(* A step of the one or of the other.                                      *)
ApiNext ==
    \/ CodecNext /\ UNCHANGED vars
    \/ Next /\ UNCHANGED codecVars

ApiSpec == ApiInit /\ [][ApiNext]_<<codecVars, vars>>
=============================================================================
