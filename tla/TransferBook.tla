---------------------------- MODULE TransferBook ----------------------------
(***************************************************************************)
(* What the Bank Service promises of transfers, without requests, locks,   *)
(* snapshots or failures: a book of balances in which an idempotency key   *)
(* is settled or declined at most once, in one atomic step.                *)
(***************************************************************************)
EXTENDS Integers

CONSTANTS Accounts, Keys, Seeded, OpeningBalance

VARIABLES
    holders,  \* accounts that exist
    money,    \* [Accounts -> Int]
    outcome   \* [Keys -> {"none", "completed", "failed"}]

Init ==
    /\ holders = Seeded
    /\ money = [a \in Accounts |-> IF a \in Seeded THEN OpeningBalance ELSE 0]
    /\ outcome = [k \in Keys |-> "none"]

Open(a) ==
    /\ a \notin holders
    /\ holders' = holders \cup {a}
    /\ money' = [money EXCEPT ![a] = OpeningBalance]
    /\ UNCHANGED outcome

(* Key k moves an amount that is covered from one account to another.      *)
Settle(k) ==
    /\ outcome[k] = "none"
    /\ outcome' = [outcome EXCEPT ![k] = "completed"]
    /\ \E a, b \in holders : \E n \in 1..money[a] :
          /\ a # b
          /\ money' = [money EXCEPT ![a] = @ - n, ![b] = @ + n]
    /\ UNCHANGED holders

(* Key k is used up by a rejected attempt.                                 *)
Decline(k) ==
    /\ outcome[k] = "none"
    /\ outcome' = [outcome EXCEPT ![k] = "failed"]
    /\ UNCHANGED <<holders, money>>

Next ==
    \/ \E a \in Accounts : Open(a)
    \/ \E k \in Keys : Settle(k) \/ Decline(k)

Spec == Init /\ [][Next]_<<holders, money, outcome>>
=============================================================================
