-------------------------- MODULE MCClientSession --------------------------
EXTENDS ClientSession

CONSTANTS A, B

(* Two transfers of one customer; one in a tab that may be reloaded; a     *)
(* customer in whose tab another one registers and logs in; two            *)
(* registrations on an empty device.                                       *)
MCPlans ==
    {[first |-> A, newcomers |-> {}, transfers |-> 2,
      faults |-> {"lost", "error", "expire"}],
     [first |-> A, newcomers |-> {}, transfers |-> 1,
      faults |-> {"lost", "reload", "revoke"}],
     [first |-> A, newcomers |-> {B}, transfers |-> 1,
      faults |-> {"revoke", "enroll"}],
     [first |-> None, newcomers |-> {A, B}, transfers |-> 0,
      faults |-> {"lost", "reload", "enroll"}]}
=============================================================================
