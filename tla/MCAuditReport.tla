--------------------------- MODULE MCAuditReport ---------------------------
EXTENDS AuditReport

(* The CA, which is read like the KDC, is asked and may fail, but has      *)
(* nothing to tell.                                                        *)
MCEntries ==
    [ca   |-> {},
     kdc  |-> {[action |-> "tgs_rejected", actor |-> "alice", traced |-> TRUE]},
     bank |-> {[action |-> "replay_detected", actor |-> "alice", traced |-> TRUE]}]

MCSelections == {{"kdc"}, {"bank"}}

(* No bounds, and a range the handler refuses; closed windows are the      *)
(* business of the summary.                                                *)
MCRanges == {<<0, 0>>, <<3, 2>>}
==========================================================================
