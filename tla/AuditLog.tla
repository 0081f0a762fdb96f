------------------------------ MODULE AuditLog ------------------------------
(***************************************************************************)
(* One hash-chained audit table (bank_audit_log, kdc_audit_log or          *)
(* certificate_audit_log): concurrent InsertAudit transactions, the replay *)
(* of the chain by VerifyAuditChain, rows that were there before, and a    *)
(* hand that changes the table behind the services' back.                  *)
(*                                                                         *)
(* SHA-256 is taken to be injective: a hash is the record of what went     *)
(* into it.                                                                *)
(***************************************************************************)
EXTENDS Integers, Sequences, FiniteSets, SequencesExt

CONSTANTS
    Writers,     \* calls of InsertAudit
    Events,      \* the hashed fields of an event (auditHashFields)
    PreChain,    \* rows older than the prev_hash and hash columns
    MaxTampers,  \* bound on changes made from outside
    Nobody

ASSUME AuditAssumption ==
    /\ PreChain \in Nat
    /\ MaxTampers \in Nat
    /\ Nobody \notin Writers

VARIABLES
    table,     \* committed rows
    sequence,  \* last value of the BIGSERIAL behind seq
    lock,      \* holder of pg_advisory_xact_lock
    pc, event, prev, row,
    tampers,   \* changes made from outside so far
    log        \* history: the committed rows as written, oldest first

vars == <<table, sequence, lock, pc, event, prev, row, tampers, log>>

-----------------------------------------------------------------------------
(* auditChainHash: prev and the fields, each after a 0x1f separator.       *)
auditChainHash(p, e) == [prev |-> p, separated |-> e]

(* What the first row is chained to, and a hash column that is NULL.       *)
Genesis == [constant |-> "genesis"]
NoHash == [null |-> TRUE]

(* Rows that existed when seq was added were numbered 1, 2, ...            *)
OldRows ==
    {[id |-> i, seq |-> i, event |-> e, prev |-> NoHash, hash |-> NoHash] :
        i \in 1..PreChain, e \in {CHOOSE x \in Events : TRUE}}

(* The orders in which ORDER BY seq may return the rows of T.              *)
OrderBySeq(T) ==
    {s \in SetToSeqs(T) : \A i, j \in DOMAIN s : i < j => s[i].seq <= s[j].seq}

-----------------------------------------------------------------------------
(* VerifyAuditChain: one row of the replay.                                *)
Start == [ok |-> TRUE, first |-> TRUE, running |-> NoHash, checked |-> 0]

(* Mutant: a row whose prev_hash does not match starts a new chain.        *)
Replay_Restarts(acc, r) ==
    IF ~acc.ok \/ r.hash = NoHash THEN acc
    ELSE IF auditChainHash(r.prev, r.event) # r.hash
         THEN [acc EXCEPT !.ok = FALSE]
    ELSE [acc EXCEPT !.running = r.hash, !.checked = @ + 1]

Replay(acc, r) ==
    LET running == IF acc.first THEN r.prev ELSE acc.running IN
    IF ~acc.ok \/ r.hash = NoHash THEN acc
    ELSE IF r.prev # running \/ auditChainHash(running, r.event) # r.hash
         THEN [acc EXCEPT !.ok = FALSE]
    ELSE [acc EXCEPT !.first = FALSE, !.running = r.hash, !.checked = @ + 1]

VerifyAuditChain(rows) == FoldLeft(Replay, Start, rows)

(* What the verify endpoint may answer now.                                *)
Verdicts == {VerifyAuditChain(s) : s \in OrderBySeq(table)}

-----------------------------------------------------------------------------
(* InsertAudit: its own READ COMMITTED transaction.                        *)
BeginTx(w) ==
    /\ pc[w] = "idle"
    /\ \E e \in Events : event' = [event EXCEPT ![w] = e]
    /\ pc' = [pc EXCEPT ![w] = "lock"]
    /\ UNCHANGED <<table, sequence, lock, prev, row, tampers, log>>

(* Mutant: no advisory lock.                                               *)
AdvisoryLock_Missing(w) ==
    /\ pc[w] = "lock"
    /\ pc' = [pc EXCEPT ![w] = "read"]
    /\ UNCHANGED <<table, sequence, lock, event, prev, row, tampers, log>>

AdvisoryLock(w) ==
    /\ pc[w] = "lock"
    /\ lock = Nobody
    /\ lock' = w
    /\ pc' = [pc EXCEPT ![w] = "read"]
    /\ UNCHANGED <<table, sequence, event, prev, row, tampers, log>>

(* SELECT hash ... ORDER BY seq DESC LIMIT 1, in a snapshot of its own.    *)
HeadHashes ==
    IF table = {} THEN {NoHash}
    ELSE {r.hash : r \in {x \in table : \A y \in table : y.seq <= x.seq}}

ReadHead(w) ==
    /\ pc[w] = "read"
    /\ \E h \in HeadHashes :
          prev' = [prev EXCEPT ![w] = IF h = NoHash THEN Genesis ELSE h]
    /\ pc' = [pc EXCEPT ![w] = "insert"]
    /\ UNCHANGED <<table, sequence, lock, event, row, tampers, log>>

(* The INSERT draws seq from the sequence, whether or not it is committed. *)
Insert(w) ==
    /\ pc[w] = "insert"
    /\ sequence' = sequence + 1
    /\ row' = [row EXCEPT ![w] =
                  [id |-> w, seq |-> sequence + 1, event |-> event[w],
                   prev |-> prev[w],
                   hash |-> auditChainHash(prev[w], event[w])]]
    /\ pc' = [pc EXCEPT ![w] = "commit"]
    /\ UNCHANGED <<table, lock, event, prev, tampers, log>>

Unlock(w) == lock' = IF lock = w THEN Nobody ELSE lock

Commit(w) ==
    /\ pc[w] = "commit"
    /\ table' = table \cup {row[w]}
    /\ log' = Append(log, row[w])
    /\ Unlock(w)
    /\ pc' = [pc EXCEPT ![w] = "done"]
    /\ UNCHANGED <<sequence, event, prev, row, tampers>>

(* Any statement fails, or the service dies: rolled back, and the caller   *)
(* goes on without the event.                                              *)
Rollback(w) ==
    /\ pc[w] \in {"lock", "read", "insert", "commit"}
    /\ Unlock(w)
    /\ pc' = [pc EXCEPT ![w] = "lost"]
    /\ UNCHANGED <<table, sequence, event, prev, row, tampers, log>>

-----------------------------------------------------------------------------
(* The table is changed from outside: a hashed field is modified, a row is *)
(* deleted, or two rows change places.                                     *)
Tamper(T) ==
    /\ tampers < MaxTampers
    /\ tampers' = tampers + 1
    /\ table' = T
    /\ UNCHANGED <<sequence, lock, pc, event, prev, row, log>>

Modify ==
    \E r \in table, e \in Events :
        r.event # e /\ Tamper((table \ {r}) \cup {[r EXCEPT !.event = e]})

Delete == \E r \in table : Tamper(table \ {r})

Reorder ==
    \E r, q \in table :
        /\ r.seq < q.seq
        /\ Tamper((table \ {r, q}) \cup {[r EXCEPT !.seq = q.seq],
                                         [q EXCEPT !.seq = r.seq]})

-----------------------------------------------------------------------------
Init ==
    /\ table = OldRows
    /\ sequence = PreChain
    /\ lock = Nobody
    /\ pc = [w \in Writers |-> "idle"]
    /\ event = [w \in Writers |-> CHOOSE x \in Events : TRUE]
    /\ prev = [w \in Writers |-> Genesis]
    /\ row = [w \in Writers |-> NoHash]
    /\ tampers = 0
    /\ log = <<>>

InsertAudit(w) ==
    BeginTx(w) \/ AdvisoryLock(w) \/ ReadHead(w) \/ Insert(w) \/ Commit(w)

Next ==
    \/ \E w \in Writers : InsertAudit(w) \/ Rollback(w)
    \/ Modify \/ Delete \/ Reorder

Spec == Init /\ [][Next]_vars

-----------------------------------------------------------------------------
Covered == {r \in table : r.hash # NoHash}

(* Where a writer is and what it may hold: the steps from reading the head *)
(* to the commit exclude each other.                                       *)
WritersInv ==
    /\ pc \in [Writers ->
                  {"idle", "lock", "read", "insert", "commit", "done", "lost"}]
    /\ DOMAIN event = Writers /\ DOMAIN prev = Writers /\ DOMAIN row = Writers
    /\ sequence \in Nat
    /\ tampers \in Nat
    /\ \A w \in Writers : pc[w] \in {"read", "insert", "commit"} => lock = w

(* A row has five columns.                                                 *)
IsRow(r) ==
    r = [id |-> r.id, seq |-> r.seq, event |-> r.event,
         prev |-> r.prev, hash |-> r.hash]

(* A hash that InsertAudit may chain to when the first n rows are written. *)
ChainsTo(h, n) == h = Genesis \/ \E k \in 1..n : h = log[k].hash

(* What was written: each row upon an earlier one, by a writer of its own. *)
LogInv ==
    /\ log \in Seq({log[i] : i \in DOMAIN log})
    /\ \A i \in DOMAIN log :
          /\ IsRow(log[i])
          /\ log[i].id \in Writers /\ pc[log[i].id] = "done"
          /\ log[i].hash = auditChainHash(log[i].prev, log[i].event)
          /\ ChainsTo(log[i].prev, i - 1)
    /\ \A i, j \in DOMAIN log : log[i].id = log[j].id => i = j

(* What is in the table, whoever changed it: rows with numbers of their    *)
(* own, and in a covered row the id and the hashes of one that was         *)
(* written.                                                                *)
Origin(r, i) ==
    r.id = log[i].id /\ r.prev = log[i].prev /\ r.hash = log[i].hash

TableInv ==
    /\ IsFiniteSet(table)
    /\ \A r \in table :
          /\ IsRow(r)
          /\ r.seq \in 1..sequence
          /\ r.hash # NoHash => \E i \in DOMAIN log : Origin(r, i)
    /\ \A r, q \in table : r.seq = q.seq => r = q

(* What a writer is about to write.                                        *)
PendingInv ==
    \A w \in Writers :
        /\ pc[w] = "insert" => ChainsTo(prev[w], Len(log))
        /\ pc[w] = "commit" =>
              /\ IsRow(row[w])
              /\ row[w].id = w
              /\ row[w].hash = auditChainHash(row[w].prev, row[w].event)
              /\ ChainsTo(row[w].prev, Len(log))
              /\ row[w].seq = sequence /\ sequence > 0
              /\ \A r \in table : r.seq < sequence

ChainInv == WritersInv /\ LogInv /\ TableInv /\ PendingInv

(* As long as nobody touched the table it holds the old rows and the log,  *)
(* and the log is one chain.                                               *)
HeadHash == IF log = <<>> THEN Genesis ELSE log[Len(log)].hash

UntouchedInv ==
    tampers = 0 =>
        /\ table = OldRows \cup {log[i] : i \in DOMAIN log}
        /\ \A i \in DOMAIN log : log[i].seq > PreChain
        /\ \A i, j \in DOMAIN log : i < j => log[i].seq < log[j].seq
        /\ \A i \in DOMAIN log : i > 1 => log[i].prev = log[i - 1].hash
        /\ sequence >= PreChain
        /\ \A w \in Writers :
              /\ pc[w] = "insert" => prev[w] = HeadHash
              /\ pc[w] = "commit" =>
                    row[w].prev = HeadHash /\ row[w].seq > PreChain

(* A table nobody touched verifies, to the last covered row, at any moment *)
(* and whatever interleaved, failed or was rolled back: VerifyAuditChain   *)
(* raises no false alarm on what InsertAudit wrote.                        *)
UntamperedVerifies ==
    tampers = 0 =>
        \A v \in Verdicts : v.ok /\ v.checked = Cardinality(Covered)

(* The i-th row that was written is still there.                           *)
Survives(i) == \E r \in Covered : r.id = log[i].id

(* No event was written twice upon the same history. The hash covers       *)
(* neither the id nor the time of a row, so an equal event that follows    *)
(* the deletion of a row may get the hash of the deleted one.              *)
NoTwins == \A i, j \in DOMAIN log : log[i].hash = log[j].hash => i = j

(* A table that verifies holds rows that were written, unmodified,         *)
(* whatever was done to it, and, unless twins were written, in the order   *)
(* of their commits; what can be missing is the first rows, and rows that  *)
(* were the last when they were deleted, which a later row then leaves no  *)
(* trace of.                                                               *)
VerifiedIsGenuine ==
    (\E v \in Verdicts : v.ok) =>
        /\ \A r \in Covered :
              \E i \in DOMAIN log : r.id = log[i].id /\ r.event = log[i].event
        /\ NoTwins =>
              /\ \A i, j \in DOMAIN log :
                    i < j => \A r, q \in Covered :
                                r.id = log[i].id /\ q.id = log[j].id
                                    => r.seq < q.seq
              /\ \A i, j \in DOMAIN log :
                    /\ i < j /\ Survives(i) /\ Survives(j)
                    /\ \A m \in i + 1..j - 1 : ~Survives(m)
                    => log[j].prev = log[i].hash
=============================================================================
