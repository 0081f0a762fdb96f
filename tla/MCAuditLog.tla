----------------------------- MODULE MCAuditLog -----------------------------
(* Small instances of AuditLog.                                            *)
EXTENDS AuditLog

CONSTANTS w1, w2, w3, e1, e2

Symmetric == Permutations(Writers)
=============================================================================
