--------------------------- MODULE MCBankTransfer ---------------------------
(* Small instances of BankTransfer.                                        *)
EXTENDS BankTransfer, TLC

CONSTANTS r1, r2, r3, alice, bob, carol, dave, erin, frank, a, b, c, d, e, f,
          k1, k2, k3, n1, n2, n3

MCOwner ==
    (a :> alice) @@ (b :> bob) @@ (c :> carol) @@ (d :> dave) @@ (e :> erin)
        @@ (f :> frank)

DaveInUSD == [x \in Accounts |-> IF x = d THEN "USD" ELSE "VND"]

Pay(who, x, y, amt, k, n) ==
    [caller |-> who, from |-> x, to |-> y, amount |-> amt,
     currency |-> "VND", key |-> k, nonce |-> n]

(* alice's transfer, a retry of it (same key, new authenticator), a second *)
(* intent of hers, bob's transfer in the opposite direction, and erin's    *)
(* between other accounts, which meets the others only at the ledger.      *)
Race ==
    <<Pay(alice, a, b, 2, k1, n1), Pay(alice, a, b, 2, k1, n2),
      Pay(alice, a, b, 2, k2, n3), Pay(bob, b, a, 2, k3, n2),
      Pay(erin, e, f, 2, k3, n1)>>

(* At least one payload for every rule of executeTransfer: alice pays, a   *)
(* retry over her limit, more than she has, herself, an account that is    *)
(* opened later, a foreign currency; bob pays her, and names her account;  *)
(* carol's account does not exist at first; dave is not active.            *)
Rules ==
    <<Pay(alice, a, b, 2, k1, n1), Pay(alice, a, b, 3, k1, n2),
      Pay(alice, a, b, 4, k2, n1), Pay(alice, a, a, 1, k2, n2),
      Pay(alice, a, c, 1, k2, n3), Pay(alice, a, d, 1, k3, n2),
      Pay(bob, b, a, 1, k3, n3), Pay(bob, a, b, 1, k1, n3),
      Pay(bob, a, a, 1, k3, n1),
      Pay(carol, c, a, 1, k3, n1), Pay(dave, d, a, 1, k1, n3)>>

(* A request that is never made.                                           *)
Unsent == Pay(frank, f, f, 1, k3, n3)

MCInputs ==
    {Race[i] : i \in DOMAIN Race} \cup {Rules[i] : i \in DOMAIN Rules} \cup {Unsent}

(* Requests differ only in what they carry, so every workload is tried     *)
(* once: alice's transfer and its retry beside bob's, beside her second    *)
(* intent and beside erin's; her two intents beside bob's, over midnight;  *)
(* and every rule beside alice's transfer, or a pair about carol's account *)
(* while it is being opened.                                               *)
Three(i, j, k) == (r1 :> Race[i]) @@ (r2 :> Race[j]) @@ (r3 :> Race[k])

Two(i, j) == (r1 :> Rules[i]) @@ (r2 :> Rules[j]) @@ (r3 :> Unsent)

OverMidnight == Three(1, 3, 4)

Workloads ==
    {Three(1, 2, 4), Three(1, 2, 3), Three(1, 2, 5), OverMidnight}
        \cup {Two(1, j) : j \in 2..Len(Rules)} \cup {Two(5, 10)}

MCInit == Init /\ input \in Workloads

MCNext ==
    /\ Next
    /\ \A r \in Requests : input[r] = Unsent => pc'[r] = pc[r]
    /\ day' # day => input = OverMidnight
    /\ opened' # opened => input[r3] = Unsent

MCSpec == MCInit /\ [][MCNext]_vars /\ Fairness

(* An order that alice's balance does not cover, and its retry.            *)
RetryInputs == {Pay(alice, a, b, 4, k1, n1), Pay(alice, a, b, 4, k1, n2)}

RetrySpec == Spec /\ input[r1].nonce # input[r2].nonce
=============================================================================
