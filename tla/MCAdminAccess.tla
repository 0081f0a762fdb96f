--------------------------- MODULE MCAdminAccess ---------------------------
EXTENDS AdminAccess

CONSTANTS ca, bank

MCRoleOf == [a \in {ca, bank} |-> IF a = ca THEN "ca_admin" ELSE "bank_admin"]

Post(a, role) == [admin |-> a, role |-> role]

(* Two uses of the CA admin's token beside the Bank admin's, and a token   *)
(* presented on the wrong route.                                           *)
MCPlans ==
    {<<Post(ca, "ca_admin"), Post(ca, "ca_admin"), Post(bank, "bank_admin")>>,
     <<Post(ca, "ca_admin"), Post(bank, "ca_admin"), Post(bank, "bank_admin")>>}
==========================================================================
