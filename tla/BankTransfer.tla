---------------------------- MODULE BankTransfer ----------------------------
(***************************************************************************)
(* The transfer path of the Bank Service (banking-service/internal/bank):  *)
(* concurrent handlings of TransferMoney, each of them a sequence of SQL   *)
(* statements against one PostgreSQL database.                             *)
(*                                                                         *)
(* One element of Requests is one handling of the RPC.  A client's retry   *)
(* is another request whose input carries the same idempotency key.  The   *)
(* database is external; of it the model keeps what the code relies on:    *)
(* row locks (SELECT ... FOR UPDATE), the snapshot a SERIALIZABLE          *)
(* transaction reads, the refusal to lock a row that a later commit        *)
(* changed, unique indexes, the diff_accounts check, deadlock detection    *)
(* and rollback.                                                           *)
(***************************************************************************)
EXTENDS Integers, Sequences, FiniteSetsExt

CONSTANTS
    Requests,        \* handlings of TransferMoney
    Users,
    Accounts,        \* account numbers an input can name
    Owner,           \* [Accounts -> Users]
    Seeded,          \* accounts that exist before the service starts
    LockedUsers,     \* users whose status is not 'active'
    LockedAccounts,  \* accounts whose status is 'locked' or 'frozen'
    Currencies,
    CurrencyOf,      \* [Accounts -> Currencies]
    Inputs,          \* the verified payloads that can arrive
    Keys, Nonces,
    OpeningBalance,  \* InsertDefaultAccount
    DailyLimit,      \* daily_transfer_limit
    MaxDay,          \* bound on the clock
    Faults,          \* may statements fail and the service crash?
    NoAccount, NoTx, Nobody, Genesis

(***************************************************************************)
(* A payload that passed decryptTransferPayload: amount > 0 and no empty   *)
(* field; caller is the client of the ticket, nonce the authenticator's.   *)
(***************************************************************************)
Payloads ==
    [caller : Users, from : Accounts, to : Accounts, amount : Nat \ {0},
     currency : Currencies, key : Keys, nonce : Nonces]

ASSUME ConstantsAssumption ==
    /\ Owner \in [Accounts -> Users]
    /\ CurrencyOf \in [Accounts -> Currencies]
    /\ Seeded \subseteq Accounts /\ IsFiniteSet(Seeded)
    /\ LockedAccounts \subseteq Accounts
    /\ LockedUsers \subseteq Users
    /\ Inputs \subseteq Payloads
    /\ OpeningBalance \in Nat
    /\ DailyLimit \in Nat
    /\ MaxDay \in Nat
    /\ Faults \in BOOLEAN
    /\ NoAccount \notin Accounts
    /\ NoTx \notin Requests
    /\ Nobody \notin Requests

(***************************************************************************)
(* current_hash is SHA-256 over a text that contains the fresh transaction *)
(* id, so rows with different ids have different digests: a digest is      *)
(* named by the id of the row it was computed for.  A handling draws at    *)
(* most one transaction id, which is named by the handling.                *)
(***************************************************************************)
Digest(id) == [sha256 |-> id]

Digests == [sha256 : Requests] \cup {Genesis}

ASSUME GenesisAssumption == Genesis \notin [sha256 : Requests]

Reasons == {"from_account_not_found", "to_account_not_found",
            "from_account_owner_mismatch", "account_not_active",
            "same_account", "currency_mismatch", "insufficient_funds",
            "daily_limit_exceeded"}

(* The error each business rejection returns to the caller.                *)
PublicErr ==
    [reason \in Reasons |->
        CASE reason = "from_account_owner_mismatch" -> "FORBIDDEN"
          [] reason = "account_not_active"          -> "ACCOUNT_NOT_ACTIVE"
          [] reason = "insufficient_funds"          -> "INSUFFICIENT_FUNDS"
          [] reason = "daily_limit_exceeded"        -> "DAILY_LIMIT_EXCEEDED"
          [] reason \in {"same_account", "currency_mismatch"}
                                                    -> "BAD_REQUEST"
          [] OTHER                                  -> "NOT_FOUND"]

Codes == {"OK", "NOT_FOUND", "FORBIDDEN", "ACCOUNT_NOT_ACTIVE",
          "BAD_REQUEST", "INSUFFICIENT_FUNDS", "DAILY_LIMIT_EXCEEDED",
          "IDEMPOTENCY_FAILED", "INTERNAL", "none"}

(* A row of the transactions table.                                        *)
Rows ==
    [id : Requests, from : Accounts \cup {NoAccount},
     to : Accounts \cup {NoAccount}, amount : Nat \ {0},
     status : {"completed", "failed"}, key : Keys, nonce : Nonces,
     day : Nat, prev : Digests, cur : Digests]

(* A row of bank_audit_log, as far as the transfer path writes it.         *)
AuditEvents ==
    [action : {"transfer_completed", "transfer_rejected",
               "forbidden_ownership", "insufficient_funds"},
     req : Requests, tx : Requests \cup {NoTx}]

VARIABLES
    opened,      \* accounts with a committed row
    balance,     \* [Accounts -> Int]
    txs,         \* rows of transactions, in commit order
    lastHash,    \* ledger_state.last_hash
    audit,       \* rows of bank_audit_log
    day,         \* the clock, in whole days
    held,        \* [Requests -> SUBSET Accounts]: account rows locked
    ledgerLock,  \* who has locked the ledger_state row
    pc,
    input,       \* the payload the request carries
    snap,        \* the snapshot of the request's transaction
    seen,        \* from.Balance as loaded
    verdict,     \* "ok" or the reason failTransfer is called with
    stamp,       \* previousHash and createdAt
    reply

db == <<opened, balance, txs, lastHash>>
locks == <<held, ledgerLock>>
local == <<input, snap, seen, verdict, stamp>>
vars == <<opened, balance, txs, lastHash, audit, day, held, ledgerLock,
          pc, input, snap, seen, verdict, stamp, reply>>

-----------------------------------------------------------------------------
(* The phases of a handling; in InTx a database transaction is open.       *)
InTx == {"lockFrom", "lockTo", "check", "lockLedger", "insert", "commit"}
Running == InTx \cup {"lookup", "begin", "audit"}
Phases == Running \cup {"idle", "done", "crashed"}

Indices == DOMAIN txs

(* Rows of key k: the unique index on idempotency_key.                     *)
RowsOfKey(k) == {i \in Indices : txs[i].key = k}

(* FOR UPDATE over accounts JOIN users locks the account and its owner.    *)
RowFree(r, a) ==
    \A q \in Requests \ {r} :
        \A b \in held[q] : Owner[b] # Owner[a]

Lockable(r, a) == a \in snap[r].accts /\ RowFree(r, a)

(* A transaction committed after r's snapshot changed the row of a.        *)
ChangedSince(r, a) ==
    \E i \in Indices : /\ i > snap[r].rows
                       /\ txs[i].status = "completed"
                       /\ a \in {txs[i].from, txs[i].to}

(* Mutant: the transfer runs at READ COMMITTED.                            *)
LedgerChangedSince_ReadCommitted(r) == FALSE

(* Every transfer, failed ones too, updates the ledger_state row.          *)
LedgerChangedSince(r) == Len(txs) > snap[r].rows

(* The sum of f over S.                                                    *)
Total(f, S) == MapThenSumSet(LAMBDA x : f[x], S)

(* SumCompletedTransfersSince, evaluated in r's snapshot.                  *)
SpentOn(n, a, d) ==
    Total([i \in 1..n |-> txs[i].amount],
          {i \in 1..n : /\ txs[i].from = a
                        /\ txs[i].status = "completed"
                        /\ txs[i].day = d})

(* The row of the failed or completed attempt that r will insert.          *)
FromColumn(r) ==
    IF verdict[r] = "from_account_not_found" THEN NoAccount ELSE input[r].from

ToColumn(r) ==
    IF verdict[r] \in {"from_account_not_found", "to_account_not_found",
                       "same_account"}
    THEN NoAccount ELSE input[r].to

NewRow(r) ==
    [id |-> r, from |-> FromColumn(r), to |-> ToColumn(r),
     amount |-> input[r].amount,
     status |-> IF verdict[r] = "ok" THEN "completed" ELSE "failed",
     key |-> input[r].key, nonce |-> input[r].nonce,
     day |-> stamp[r].day, prev |-> stamp[r].prev, cur |-> Digest(r)]

(* DebitAccount hits CHECK (balance >= 0).                                 *)
DebitRefused(r) ==
    verdict[r] = "ok" /\ balance[input[r].from] < input[r].amount

(* Mutant: idempotency_key is not UNIQUE.                                  *)
ViolatesConstraint_KeyNotUnique(r) ==
    \/ \E i \in Indices : txs[i].nonce = input[r].nonce
    \/ FromColumn(r) = ToColumn(r) /\ FromColumn(r) # NoAccount

(* The unique indexes on idempotency_key and nonce, and diff_accounts.     *)
ViolatesConstraint(r) ==
    \/ RowsOfKey(input[r].key) # {}
    \/ \E i \in Indices : txs[i].nonce = input[r].nonce
    \/ FromColumn(r) = ToColumn(r) /\ FromColumn(r) # NoAccount

-----------------------------------------------------------------------------
Release(r) ==
    /\ held' = [held EXCEPT ![r] = {}]
    /\ ledgerLock' = IF ledgerLock = r THEN Nobody ELSE ledgerLock

Answer(r, code, tx) ==
    /\ pc' = [pc EXCEPT ![r] = "done"]
    /\ reply' = [reply EXCEPT ![r] = [code |-> code, tx |-> tx]]

Goto(r, phase) ==
    /\ pc' = [pc EXCEPT ![r] = phase]
    /\ UNCHANGED reply

(* Mutant: no deferred Rollback, the connection keeps its locks.           *)
Rollback_KeepsLocks(r) ==
    /\ Answer(r, "INTERNAL", NoTx)
    /\ UNCHANGED <<db, locks, day, local>>

(* A statement fails: the deferred Rollback runs and the error is mapped   *)
(* to codes.Internal.                                                      *)
Rollback(r) ==
    /\ Release(r)
    /\ Answer(r, "INTERNAL", NoTx)
    /\ UNCHANGED <<db, day, local>>

(* Audit: its own transaction, whose failure is swallowed.                 *)
AuditBestEffort(e) == audit' = audit \cup {e} \/ UNCHANGED audit

-----------------------------------------------------------------------------
(* TransferMoney after authorize, the payload checks and markReplay.       *)
TransferMoney(r) ==
    /\ pc[r] = "idle"
    /\ Goto(r, "lookup")
    /\ UNCHANGED <<db, locks, audit, day, local>>

(* findIdempotentTransaction, a read outside the transfer's transaction:   *)
(* no row has the key, or the row is completed and its id is returned, or  *)
(* it is not completed.  The last case, and any error of the query, are    *)
(* both answered IDEMPOTENCY_FAILED.                                       *)
KeyUnused(r) ==
    /\ pc[r] = "lookup"
    /\ RowsOfKey(input[r].key) = {}
    /\ Goto(r, "begin")
    /\ UNCHANGED <<db, locks, audit, day, local>>

(* Mutant: the row's status is not looked at.                              *)
ReturnCompleted_AnyStatus(r) ==
    /\ pc[r] = "lookup"
    /\ \E i \in RowsOfKey(input[r].key) : Answer(r, "OK", txs[i].id)
    /\ UNCHANGED <<db, locks, audit, day, local>>

ReturnCompleted(r) ==
    /\ pc[r] = "lookup"
    /\ \E i \in RowsOfKey(input[r].key) :
          /\ txs[i].status = "completed"
          /\ Answer(r, "OK", txs[i].id)
    /\ UNCHANGED <<db, locks, audit, day, local>>

RejectKey(r) ==
    /\ AuditBestEffort([action |-> "transfer_rejected", req |-> r,
                        tx |-> NoTx])
    /\ Answer(r, "IDEMPOTENCY_FAILED", NoTx)
    /\ UNCHANGED <<db, locks, day, local>>

KeyFailed(r) ==
    /\ pc[r] = "lookup"
    /\ \E i \in RowsOfKey(input[r].key) : txs[i].status # "completed"
    /\ RejectKey(r)

LookupFails(r) ==
    /\ Faults
    /\ pc[r] = "lookup"
    /\ RejectKey(r)

(* BeginTx SERIALIZABLE; the snapshot is taken by the first statement,     *)
(* before that statement waits for a row lock.                             *)
BeginTx(r) ==
    /\ pc[r] = "begin"
    /\ snap' = [snap EXCEPT ![r] = [rows |-> Len(txs), accts |-> opened]]
    /\ Goto(r, "lockFrom")
    /\ UNCHANGED <<db, locks, audit, day, input, seen, verdict, stamp>>

(* LoadAccountForUpdateByNumber(in.FromAccountNumber): the row is locked   *)
(* and read, or there is none.                                             *)
FromNotFound(r) ==
    /\ pc[r] = "lockFrom"
    /\ input[r].from \notin snap[r].accts
    /\ verdict' = [verdict EXCEPT ![r] = "from_account_not_found"]
    /\ Goto(r, "lockLedger")
    /\ UNCHANGED <<db, locks, audit, day, input, snap, seen, stamp>>

LockFrom(r) ==
    /\ pc[r] = "lockFrom"
    /\ Lockable(r, input[r].from)
    /\ ~ChangedSince(r, input[r].from)
    /\ held' = [held EXCEPT ![r] = @ \cup {input[r].from}]
    /\ seen' = [seen EXCEPT ![r] = balance[input[r].from]]
    /\ Goto(r, "lockTo")
    /\ UNCHANGED <<db, ledgerLock, audit, day, input, snap, verdict, stamp>>

(* LoadAccountForUpdateByNumber(in.ToAccountNumber).                       *)
ToNotFound(r) ==
    /\ pc[r] = "lockTo"
    /\ input[r].to \notin snap[r].accts
    /\ verdict' = [verdict EXCEPT ![r] = "to_account_not_found"]
    /\ Goto(r, "lockLedger")
    /\ UNCHANGED <<db, locks, audit, day, input, snap, seen, stamp>>

LockTo(r) ==
    /\ pc[r] = "lockTo"
    /\ Lockable(r, input[r].to)
    /\ ~ChangedSince(r, input[r].to)
    /\ held' = [held EXCEPT ![r] = @ \cup {input[r].to}]
    /\ Goto(r, "check")
    /\ UNCHANGED <<db, ledgerLock, audit, day, local>>

(* Mutant: the balance is not checked.                                     *)
BusinessVerdict_NoBalanceCheck(r) ==
    LET in == input[r] IN
    IF Owner[in.from] # in.caller THEN "from_account_owner_mismatch"
    ELSE IF SpentOn(snap[r].rows, in.from, day) + in.amount > DailyLimit
         THEN "daily_limit_exceeded"
    ELSE "ok"

(* Mutant: the limit is compared without the amount at hand.               *)
BusinessVerdict_LimitWithoutAmount(r) ==
    LET in == input[r] IN
    IF Owner[in.from] # in.caller THEN "from_account_owner_mismatch"
    ELSE IF seen[r] < in.amount THEN "insufficient_funds"
    ELSE IF SpentOn(snap[r].rows, in.from, day) > DailyLimit
         THEN "daily_limit_exceeded"
    ELSE "ok"

(* The business rules of executeTransfer, in their order.                  *)
BusinessVerdict(r) ==
    LET in == input[r] IN
    IF Owner[in.from] # in.caller THEN "from_account_owner_mismatch"
    ELSE IF \/ Owner[in.from] \in LockedUsers
            \/ {in.from, in.to} \cap LockedAccounts # {}
         THEN "account_not_active"
    ELSE IF in.from = in.to THEN "same_account"
    ELSE IF {CurrencyOf[in.from], CurrencyOf[in.to]} # {in.currency}
         THEN "currency_mismatch"
    ELSE IF seen[r] < in.amount THEN "insufficient_funds"
    ELSE IF SpentOn(snap[r].rows, in.from, day) + in.amount > DailyLimit
         THEN "daily_limit_exceeded"
    ELSE "ok"

CheckRules(r) ==
    /\ pc[r] = "check"
    /\ verdict' = [verdict EXCEPT ![r] = BusinessVerdict(r)]
    /\ Goto(r, "lockLedger")
    /\ UNCHANGED <<db, locks, audit, day, input, snap, seen, stamp>>

(* LockLedgerLastHash, in executeTransfer and in failTransfer; createdAt   *)
(* is read from the clock once the row is locked.                          *)
LockLedger(r) ==
    /\ pc[r] = "lockLedger"
    /\ ledgerLock = Nobody
    /\ ~LedgerChangedSince(r)
    /\ ledgerLock' = r
    /\ stamp' = [stamp EXCEPT ![r] = [prev |-> lastHash, day |-> day]]
    /\ Goto(r, "insert")
    /\ UNCHANGED <<db, held, audit, day, input, snap, seen, verdict>>

(* The row to be locked was changed since the snapshot: could not          *)
(* serialize access due to concurrent update.                              *)
SerializationFailure(r) ==
    /\ \/ /\ pc[r] = "lockFrom"
          /\ Lockable(r, input[r].from) /\ ChangedSince(r, input[r].from)
       \/ /\ pc[r] = "lockTo"
          /\ Lockable(r, input[r].to) /\ ChangedSince(r, input[r].to)
       \/ /\ pc[r] = "lockLedger"
          /\ ledgerLock = Nobody /\ LedgerChangedSince(r)
    /\ Rollback(r)
    /\ UNCHANGED audit

(* Mutant: the completion is audited before the commit.                    *)
InsertRow_AuditsEarly(r) ==
    /\ pc[r] = "insert"
    /\ ~ViolatesConstraint(r)
    /\ audit' = audit \cup {[action |-> "transfer_completed",
                             req |-> r, tx |-> r]}
    /\ Goto(r, "commit")
    /\ UNCHANGED <<db, locks, day, local>>

(* DebitAccount, CreditAccount and InsertTransaction, or                   *)
(* InsertFailedTransaction; nothing is visible to others before Commit.    *)
(* Only executeTransfer audits the refusal of its insert.                  *)
InsertRow(r) ==
    /\ pc[r] = "insert"
    /\ ~ViolatesConstraint(r)
    /\ ~DebitRefused(r)
    /\ Goto(r, "commit")
    /\ UNCHANGED <<db, locks, audit, day, local>>

InsertRefused(r) ==
    /\ pc[r] = "insert"
    /\ ViolatesConstraint(r) \/ DebitRefused(r)
    /\ IF verdict[r] = "ok" /\ ~DebitRefused(r)
       THEN AuditBestEffort([action |-> "transfer_rejected", req |-> r,
                             tx |-> NoTx])
       ELSE UNCHANGED audit
    /\ Rollback(r)

(* Mutant: CreditAccount is missing.                                       *)
Post_DebitOnly(r) ==
    /\ txs' = Append(txs, NewRow(r))
    /\ lastHash' = Digest(r)
    /\ balance' = IF verdict[r] # "ok" THEN balance
                  ELSE [balance EXCEPT ![input[r].from] = @ - input[r].amount]
    /\ Release(r)
    /\ UNCHANGED <<opened, day, local, audit>>

(* UpdateLedger and COMMIT: the transaction's writes become visible.       *)
Post(r) ==
    /\ txs' = Append(txs, NewRow(r))
    /\ lastHash' = Digest(r)
    /\ balance' = IF verdict[r] # "ok" THEN balance
                  ELSE [balance EXCEPT ![input[r].from] = @ - input[r].amount,
                                       ![input[r].to] = @ + input[r].amount]
    /\ Release(r)
    /\ UNCHANGED <<opened, day, local, audit>>

Commit(r) ==
    /\ pc[r] = "commit"
    /\ Post(r)
    /\ Goto(r, "audit")

(* The connection fails while COMMIT is under way: it took effect, but     *)
(* the service sees an error and answers INTERNAL.                         *)
CommitUnacknowledged(r) ==
    /\ Faults
    /\ pc[r] = "commit"
    /\ Post(r)
    /\ Answer(r, "INTERNAL", NoTx)

(* Mutant: auditReason is passed for auditAction.                          *)
AuditAction_Reason(reason) == reason

AuditAction(reason) ==
    CASE reason = "ok" -> "transfer_completed"
      [] reason = "from_account_owner_mismatch" -> "forbidden_ownership"
      [] reason = "insufficient_funds" -> "insufficient_funds"
      [] OTHER -> "transfer_rejected"

(* The audit after the commit, and the answer.                             *)
AuditAndAnswer(r) ==
    /\ pc[r] = "audit"
    /\ AuditBestEffort([action |-> AuditAction(verdict[r]), req |-> r,
                        tx |-> r])
    /\ IF verdict[r] = "ok" THEN Answer(r, "OK", r)
                            ELSE Answer(r, PublicErr[verdict[r]], NoTx)
    /\ UNCHANGED <<db, locks, day, local>>

-----------------------------------------------------------------------------
(* The requests whose locks r waits for.                                   *)
BlockedBy(r) ==
    {q \in Requests \ {r} :
        \/ /\ pc[r] = "lockFrom"
           /\ \E b \in held[q] : Owner[b] = Owner[input[r].from]
        \/ /\ pc[r] = "lockTo"
           /\ \E b \in held[q] : Owner[b] = Owner[input[r].to]
        \/ pc[r] = "lockLedger" /\ ledgerLock = q}

(* PostgreSQL's deadlock detector fails a statement that is part of a      *)
(* cycle of lock waits.                                                    *)
InDeadlock(r) ==
    \E C \in SUBSET Requests :
        /\ r \in C
        /\ \A q \in C : BlockedBy(q) \cap C # {}

DeadlockVictim(r) ==
    /\ InDeadlock(r)
    /\ Rollback(r)
    /\ UNCHANGED audit

(* BEGIN or any statement of the transaction may fail (connection lost,    *)
(* context cancelled, a serialization failure PostgreSQL decides on).  If  *)
(* it is InsertTransaction, the rejection is audited.                      *)
StatementFails(r) ==
    /\ Faults
    /\ pc[r] \in InTx \cup {"begin"}
    /\ Rollback(r)
    /\ IF pc[r] = "insert" /\ verdict[r] = "ok"
       THEN AuditBestEffort([action |-> "transfer_rejected", req |-> r,
                             tx |-> NoTx])
       ELSE UNCHANGED audit

(* The service dies: PostgreSQL rolls the open transactions back and no    *)
(* running request is answered.                                            *)
Crash ==
    /\ Faults
    /\ \E r \in Requests : pc[r] \in Running
    /\ pc' = [r \in Requests |-> IF pc[r] \in Running THEN "crashed"
                                                      ELSE pc[r]]
    /\ held' = [r \in Requests |-> {}]
    /\ ledgerLock' = Nobody
    /\ UNCHANGED <<db, audit, day, local, reply>>

(* CreateUser: a user and its default account in one transaction.          *)
CreateUser(a) ==
    /\ a \notin opened
    /\ opened' = opened \cup {a}
    /\ balance' = [balance EXCEPT ![a] = OpeningBalance]
    /\ UNCHANGED <<txs, lastHash, audit, day, locks, pc, local, reply>>

(* Midnight UTC.                                                           *)
NextDay ==
    /\ day < MaxDay
    /\ day' = day + 1
    /\ UNCHANGED <<db, audit, locks, pc, local, reply>>

-----------------------------------------------------------------------------
Init ==
    /\ opened = Seeded
    /\ balance =
          [a \in Accounts |-> IF a \in Seeded THEN OpeningBalance ELSE 0]
    /\ txs = <<>>
    /\ lastHash = Genesis
    /\ audit = {}
    /\ day = 0
    /\ held = [r \in Requests |-> {}]
    /\ ledgerLock = Nobody
    /\ pc = [r \in Requests |-> "idle"]
    /\ input \in [Requests -> Inputs]
    /\ snap = [r \in Requests |-> [rows |-> 0, accts |-> {}]]
    /\ seen = [r \in Requests |-> 0]
    /\ verdict = [r \in Requests |-> "ok"]
    /\ stamp = [r \in Requests |-> [prev |-> Genesis, day |-> 0]]
    /\ reply = [r \in Requests |-> [code |-> "none", tx |-> NoTx]]

(* What a handling does by itself once it has begun.                       *)
Progress(r) ==
    \/ KeyUnused(r) \/ ReturnCompleted(r) \/ KeyFailed(r)
    \/ BeginTx(r)
    \/ FromNotFound(r) \/ LockFrom(r) \/ ToNotFound(r) \/ LockTo(r)
    \/ CheckRules(r)
    \/ LockLedger(r) \/ SerializationFailure(r)
    \/ InsertRow(r) \/ InsertRefused(r) \/ Commit(r)
    \/ AuditAndAnswer(r)

Next ==
    \/ \E r \in Requests :
          \/ TransferMoney(r) \/ Progress(r) \/ DeadlockVictim(r)
          \/ LookupFails(r) \/ StatementFails(r) \/ CommitUnacknowledged(r)
    \/ Crash
    \/ \E a \in Accounts : CreateUser(a)
    \/ NextDay

Spec == Init /\ [][Next]_vars

(***************************************************************************)
(* Goroutines run until they end, and PostgreSQL's deadlock detector runs  *)
(* deadlock_timeout after a lock wait began.  Nothing is assumed of        *)
(* clients, of the clock, or of failures.                                  *)
(***************************************************************************)
Fairness ==
    \A r \in Requests : WF_vars(Progress(r)) /\ WF_vars(DeadlockVictim(r))

FairSpec == Spec /\ Fairness

-----------------------------------------------------------------------------
(* Every variable keeps the type of the column, lock or local it models.   *)
TypeOK ==
    /\ opened \subseteq Accounts
    /\ balance \in [Accounts -> Int]
    /\ txs \in Seq(Rows)
    /\ lastHash \in Digests
    /\ audit \subseteq AuditEvents
    /\ day \in Nat
    /\ held \in [Requests -> SUBSET Accounts]
    /\ ledgerLock \in Requests \cup {Nobody}
    /\ pc \in [Requests -> Phases]
    /\ input \in [Requests -> Inputs]
    /\ snap \in [Requests -> [rows : Nat, accts : SUBSET Accounts]]
    /\ seen \in [Requests -> Int]
    /\ verdict \in [Requests -> Reasons \cup {"ok"}]
    /\ stamp \in [Requests -> [prev : Digests, day : Nat]]
    /\ reply \in [Requests -> [code : Codes, tx : Requests \cup {NoTx}]]

(* No interleaving of transfers, failures and crashes overdraws an         *)
(* account, and it is executeTransfer that sees to it: the balance it read *)
(* under the row lock is still the balance when it debits, so the CHECK of *)
(* the accounts table never turns an accepted transfer into an INTERNAL.   *)
NoOverdraft ==
    /\ \A a \in Accounts : balance[a] >= 0
    /\ \A r \in Requests : pc[r] \in {"insert", "commit"} => ~DebitRefused(r)

(* Transfers move money and never make or lose any: the balances of the    *)
(* opened accounts always add up to what CreateUser put into them.         *)
MoneyConserved ==
    Total(balance, opened) = OpeningBalance * Cardinality(opened)

(* A sum means something only while finitely many accounts exist.         *)
MoneyInv == IsFiniteSet(opened) /\ MoneyConserved

(* Committed transfers of one account on one day never exceed its daily    *)
(* limit, although the total is read in a snapshot, and the day that is    *)
(* recorded (createdAt) is read later than the day that is checked.        *)
DailyLimitRespected ==
    \A a \in Accounts, d \in 0..MaxDay :
        SpentOn(Len(txs), a, d) <= DailyLimit

(* Why the limit holds: time does not go back, and what the amount at hand *)
(* was added to is still what the day's transfers come to, for the day     *)
(* that will be recorded, when the row is written.                         *)
WithinLimit(r) ==
    /\ stamp[r].day <= day
    /\ pc[r] = "lockLedger" /\ verdict[r] = "ok" =>
          SpentOn(snap[r].rows, input[r].from, day) + input[r].amount <= DailyLimit
    /\ pc[r] \in {"insert", "commit"} /\ verdict[r] = "ok" =>
          SpentOn(snap[r].rows, input[r].from, stamp[r].day) + input[r].amount
              <= DailyLimit

LimitInv ==
    /\ day <= MaxDay
    /\ \A i \in Indices : txs[i].day <= day
    /\ \A r \in Requests : WithinLimit(r)
    /\ DailyLimitRespected

(* The rows form one chain: each carries the hash of the row committed     *)
(* just before it, the first one genesis, and ledger_state the hash of     *)
(* the last one.  No two rows share a previous_hash.                       *)
LedgerIsOneChain ==
    /\ \A i \in Indices :
          txs[i].prev = IF i = 1 THEN Genesis ELSE txs[i - 1].cur
    /\ lastHash = IF txs = <<>> THEN Genesis ELSE txs[Len(txs)].cur
    /\ \A i, j \in Indices : txs[i].prev = txs[j].prev => i = j

(* What a client is told is what the ledger says, whatever raced: OK names *)
(* the one row of the request's idempotency key, which is completed and    *)
(* moved the money once; a business error means that the request's failed  *)
(* row holds the key, so that no retry of it can move money any more.      *)
(* What a retry is told then is not its matter: see                        *)
(* RetryGetsOriginalAnswer.                                                *)
AnswersMatchLedger ==
    \A r \in Requests :
        /\ reply[r].code = "OK" =>
              \E i \in RowsOfKey(input[r].key) :
                 /\ RowsOfKey(input[r].key) = {i}
                 /\ txs[i].status = "completed"
                 /\ txs[i].id = reply[r].tx
        /\ reply[r].code \in {PublicErr[reason] : reason \in Reasons} =>
              \E i \in RowsOfKey(input[r].key) :
                 /\ RowsOfKey(input[r].key) = {i}
                 /\ txs[i].status = "failed"
                 /\ txs[i].id = r

(* What the documents promise a client that repeats a transfer: once an    *)
(* attempt was processed, every handling of the same order under the same  *)
(* key is told its outcome again, the old result or the original error.    *)
(* Transfer does not keep the second half: findIdempotentTransaction makes *)
(* an error of every failed row, and Transfer answers ErrIdempotency.      *)
SameOrder(q, r) == [input[q] EXCEPT !.nonce = input[r].nonce] = input[r]

RetryGetsOriginalAnswer ==
    \A q, r \in Requests :
        /\ SameOrder(q, r)
        /\ reply[q].code \in {"OK"} \cup {PublicErr[reason] : reason \in Reasons}
        /\ pc[r] = "done"
        => reply[r] = reply[q]

(* The audit trail never contradicts the ledger: an event that names a     *)
(* transaction names a committed row of the matching status, and an event  *)
(* without one belongs to a request that committed nothing.                *)
AuditMatchesLedger ==
    \A e \in audit :
        LET rows == {i \in Indices : txs[i].id = e.req} IN
        IF e.tx = NoTx THEN rows = {}
        ELSE \E i \in rows :
                /\ txs[i].id = e.tx
                /\ (txs[i].status = "completed")
                      <=> (e.action = "transfer_completed")

(* The ledger only grows, and by one row at a time; the transaction that   *)
(* adds a row decided on a snapshot that contains every earlier row, so    *)
(* the committed transfers are serial in commit order.                     *)
SerialAppends ==
    [][txs' # txs =>
         /\ txs' = Append(txs, txs'[Len(txs')])
         /\ snap[txs'[Len(txs')].id].rows = Len(txs)]_vars

(***************************************************************************)
(* Why the properties above hold: an invariant that every step preserves.  *)
(***************************************************************************)

(* FOR UPDATE: no two transfers hold the rows of one owner.                *)
RowLocksExclude ==
    \A q, r \in Requests :
        q # r => \A x \in held[q], y \in held[r] : Owner[x] # Owner[y]

(* Which locks a transfer has, by how far it has come.                     *)
LocksFollowPhase ==
    \A r \in Requests :
        /\ held[r] \subseteq opened
        /\ snap[r].accts \subseteq opened
        /\ pc[r] \in {"lockTo", "check"} => input[r].from \in held[r]
        /\ pc[r] = "check" => input[r].to \in held[r]
        /\ pc[r] \in {"insert", "commit"} => ledgerLock = r

(* What a transfer read is still so when it acts on it: the balance it     *)
(* checked, the ledger's last hash, and the ledger's length.               *)
DecisionsStayValid ==
    \A r \in Requests :
        /\ snap[r].rows <= Len(txs)
        /\ pc[r] \in {"lockTo", "check"} => seen[r] = balance[input[r].from]
        /\ pc[r] \in {"lockLedger", "insert", "commit"} /\ verdict[r] = "ok" =>
              /\ {input[r].from, input[r].to} \subseteq held[r]
              /\ input[r].from # input[r].to
              /\ input[r].amount <= balance[input[r].from]
        /\ pc[r] \in {"insert", "commit"} =>
              /\ stamp[r].prev = lastHash
              /\ snap[r].rows = Len(txs)

(* One row per handling and per idempotency key, written by a handling     *)
(* that is past its commit.                                                *)
RowsAreUnique ==
    /\ \A i \in Indices :
          /\ txs[i].cur = Digest(txs[i].id)
          /\ pc[txs[i].id] \in {"audit", "done", "crashed"}
    /\ \A i, j \in Indices :
          txs[i].id = txs[j].id \/ txs[i].key = txs[j].key => i = j
    /\ \A r \in Requests : pc[r] = "commit" => RowsOfKey(input[r].key) = {}

(* Row locks exclude each other, every decision is still valid when it is  *)
(* acted on, and the ledger is one chain with one row per key, all at      *)
(* once: the invariant the proofs are by.                                  *)
TransferInv ==
    /\ RowLocksExclude
    /\ LocksFollowPhase
    /\ DecisionsStayValid
    /\ RowsAreUnique
    /\ LedgerIsOneChain
    /\ \A a \in Accounts : balance[a] >= 0

(* Nothing is answered before the end, a handling that is past its commit  *)
(* has its row, and one that was audited without a row has ended.          *)
CommitsAreRecorded ==
    /\ \A r \in Requests :
          /\ pc[r] # "done" => reply[r].code = "none"
          /\ pc[r] = "audit" =>
                \E i \in RowsOfKey(input[r].key) :
                   /\ txs[i].id = r
                   /\ (txs[i].status = "completed") <=> (verdict[r] = "ok")
    /\ \A e \in audit : e.tx = NoTx => pc[e.req] = "done"

(* The answers and the audit trail agree with the ledger, together with    *)
(* what a handling knows between its commit and its answer.                *)
ReportInv == CommitsAreRecorded /\ AnswersMatchLedger /\ AuditMatchesLedger

(* Every transfer that was accepted for handling ends, answered or lost to *)
(* a crash: no lock wait, in particular no opposite pair of transfers,     *)
(* lasts forever.                                                          *)
EveryTransferEnds ==
    \A r \in Requests : pc[r] = "lookup" ~> pc[r] \in {"done", "crashed"}

(* The abstract book of transfers that this specification implements.      *)
Outcome ==
    [k \in Keys |->
        IF RowsOfKey(k) = {} THEN "none"
        ELSE txs[CHOOSE i \in RowsOfKey(k) : TRUE].status]

Book == INSTANCE TransferBook
            WITH money <- balance, holders <- opened, outcome <- Outcome

(* Seen from outside, transfers are atomic and idempotent: every step of   *)
(* the service is a step of TransferBook or leaves the book alone.         *)
ImplementsBook == Book!Spec
=============================================================================
