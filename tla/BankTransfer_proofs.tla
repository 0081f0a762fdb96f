------------------------ MODULE BankTransfer_proofs ------------------------
(***************************************************************************)
(* Theorems about BankTransfer, for any number of requests, users,         *)
(* accounts, keys and inputs, and any balances, limits and faults.         *)
(***************************************************************************)
EXTENDS BankTransfer, SequenceTheorems, FiniteSetTheorems, WellFoundedInduction,
        TLAPS

USE DEF Goto, Answer, Release, db, locks, local

(***************************************************************************)
(* The row a request inserts is a row of the transactions table.           *)
(***************************************************************************)
LEMMA NewRowType ==
    ASSUME TypeOK, NEW r \in Requests
    PROVE  NewRow(r) \in Rows
  <1>1. input[r] \in Payloads
    BY ConstantsAssumption DEF TypeOK
  <1>2. /\ FromColumn(r) \in Accounts \cup {NoAccount}
        /\ ToColumn(r) \in Accounts \cup {NoAccount}
    BY <1>1 DEF FromColumn, ToColumn, Payloads
  <1>3. Digest(r) \in Digests
    BY DEF Digest, Digests
  <1>4. stamp[r].day \in Nat /\ stamp[r].prev \in Digests
    BY DEF TypeOK
  <1>5. /\ input[r].amount \in Nat \ {0}
        /\ input[r].key \in Keys
        /\ input[r].nonce \in Nonces
    BY <1>1 DEF Payloads
  <1> QED
    BY <1>2, <1>3, <1>4, <1>5 DEF NewRow, Rows

(***************************************************************************)
(* Every rejection has an error code, and every verdict an audit action.   *)
(***************************************************************************)
LEMMA AnswerTypes ==
    /\ \A reason \in Reasons : PublicErr[reason] \in Codes
    /\ \A reason \in Reasons \cup {"ok"} :
          \A r \in Requests :
             [action |-> AuditAction(reason), req |-> r, tx |-> r] \in AuditEvents
    /\ \A r \in Requests :
          [action |-> "transfer_rejected", req |-> r, tx |-> NoTx] \in AuditEvents
  BY DEF Reasons, PublicErr, Codes, AuditAction, AuditEvents

(* The business rules return "ok" or one of the reasons.                   *)
LEMMA VerdictType ==
    ASSUME NEW r PROVE BusinessVerdict(r) \in Reasons \cup {"ok"}
  BY DEF BusinessVerdict, Reasons

(***************************************************************************)
(* The rows of the ledger, by their index.                                 *)
(***************************************************************************)
LEMMA LedgerIndices ==
    ASSUME TypeOK
    PROVE  /\ Len(txs) \in Nat
           /\ Indices = 1..Len(txs)
           /\ \A i \in Indices : txs[i] \in Rows
  BY LenProperties, ElementOfSeq DEF TypeOK, Indices

(* A rollback and an answer keep every type.                               *)
LEMMA RollbackType ==
    ASSUME TypeOK, NEW r \in Requests, Rollback(r), audit' \subseteq AuditEvents
    PROVE  TypeOK'
  BY DEF TypeOK, Rollback, Phases, Codes

(***************************************************************************)
(* Every variable keeps its type, whichever step is taken.                 *)
(***************************************************************************)
LEMMA TypeStep == TypeOK /\ [Next]_vars => TypeOK'
  <1> SUFFICES ASSUME TypeOK, [Next]_vars PROVE TypeOK'
    OBVIOUS
  <1> USE ConstantsAssumption
  <1>1. ASSUME NEW r \in Requests, TransferMoney(r) PROVE TypeOK'
    BY <1>1 DEF TypeOK, TransferMoney, Phases, Running
  <1>2. ASSUME NEW r \in Requests, KeyUnused(r) PROVE TypeOK'
    BY <1>2 DEF TypeOK, KeyUnused, Phases, Running
  <1>3. ASSUME NEW r \in Requests, ReturnCompleted(r) PROVE TypeOK'
    <2>1. PICK i \in Indices : reply' = [reply EXCEPT ![r] =
                                            [code |-> "OK", tx |-> txs[i].id]]
      BY <1>3 DEF ReturnCompleted, RowsOfKey
    <2>2. txs[i].id \in Requests
      BY LedgerIndices DEF Rows
    <2>3. [code |-> "OK", tx |-> txs[i].id] \in
              [code : Codes, tx : Requests \cup {NoTx}]
      BY <2>2 DEF Codes
    <2>4. reply' \in [Requests -> [code : Codes, tx : Requests \cup {NoTx}]]
      BY <2>1, <2>3 DEF TypeOK
    <2> QED
      BY <1>3, <2>4 DEF TypeOK, ReturnCompleted, Phases
  <1>4. ASSUME NEW r \in Requests, RejectKey(r) PROVE TypeOK'
    <2>1. audit' \subseteq AuditEvents
      BY <1>4, AnswerTypes DEF TypeOK, RejectKey, AuditBestEffort
    <2> QED
      BY <1>4, <2>1 DEF TypeOK, RejectKey, Phases, Codes
  <1>5. ASSUME NEW r \in Requests, BeginTx(r) PROVE TypeOK'
    BY <1>5 DEF TypeOK, BeginTx, Phases, Running, InTx
  <1>6. ASSUME NEW r \in Requests, FromNotFound(r) \/ ToNotFound(r) PROVE TypeOK'
    BY <1>6
    DEF TypeOK, FromNotFound, ToNotFound, Phases, Running, InTx, Reasons
  <1>7. ASSUME NEW r \in Requests, LockFrom(r) PROVE TypeOK'
    <2>1. input[r].from \in Accounts
      BY DEF TypeOK, Payloads
    <2> QED
      BY <1>7, <2>1 DEF TypeOK, LockFrom, Phases, Running, InTx
  <1>8. ASSUME NEW r \in Requests, LockTo(r) PROVE TypeOK'
    <2>1. input[r].to \in Accounts
      BY DEF TypeOK, Payloads
    <2> QED
      BY <1>8, <2>1 DEF TypeOK, LockTo, Phases, Running, InTx
  <1>9. ASSUME NEW r \in Requests, CheckRules(r) PROVE TypeOK'
    BY <1>9, VerdictType DEF TypeOK, CheckRules, Phases, Running, InTx
  <1>10. ASSUME NEW r \in Requests, LockLedger(r) PROVE TypeOK'
    <2>1. [prev |-> lastHash, day |-> day] \in [prev : Digests, day : Nat]
      BY DEF TypeOK
    <2> QED
      BY <1>10, <2>1 DEF TypeOK, LockLedger, Phases, Running, InTx
  <1>11. ASSUME NEW r \in Requests, InsertRow(r) PROVE TypeOK'
    BY <1>11 DEF TypeOK, InsertRow, Phases, Running, InTx
  <1>12. ASSUME NEW r \in Requests, InsertRefused(r) PROVE TypeOK'
    <2>1. audit' \subseteq AuditEvents
      BY <1>12, AnswerTypes DEF TypeOK, InsertRefused, AuditBestEffort
    <2> QED
      BY <1>12, <2>1, RollbackType DEF InsertRefused
  <1>13. ASSUME NEW r \in Requests,
                \/ SerializationFailure(r)
                \/ DeadlockVictim(r)
                \/ StatementFails(r)
         PROVE  TypeOK'
    <2>1. Rollback(r) /\ audit' \subseteq AuditEvents
      BY <1>13, AnswerTypes DEF TypeOK, SerializationFailure, DeadlockVictim,
             StatementFails, AuditBestEffort
    <2> QED
      BY <2>1, RollbackType
  <1>14. ASSUME NEW r \in Requests, Post(r)
         PROVE  /\ txs' \in Seq(Rows) /\ lastHash' \in Digests
                /\ balance' \in [Accounts -> Int]
                /\ held' \in [Requests -> SUBSET Accounts]
                /\ ledgerLock' \in Requests \cup {Nobody}
    <2>1. txs' \in Seq(Rows)
      BY <1>14, NewRowType DEF Post, TypeOK
    <2>2. lastHash' \in Digests
      BY <1>14 DEF Post, Digest, Digests
    <2>3. balance' \in [Accounts -> Int]
      BY <1>14 DEF Post, TypeOK, Payloads
    <2> QED
      BY <1>14, <2>1, <2>2, <2>3 DEF Post, TypeOK
  <1>15. ASSUME NEW r \in Requests, Commit(r) PROVE TypeOK'
    BY <1>14, <1>15 DEF TypeOK, Commit, Post, Phases, Running, InTx
  <1>16. ASSUME NEW r \in Requests, CommitUnacknowledged(r) PROVE TypeOK'
    BY <1>14, <1>16 DEF TypeOK, CommitUnacknowledged, Post, Phases, Codes
  <1>17. ASSUME NEW r \in Requests, AuditAndAnswer(r) PROVE TypeOK'
    <2>1. audit' \subseteq AuditEvents
      BY <1>17, AnswerTypes DEF TypeOK, AuditAndAnswer, AuditBestEffort
    <2>2. verdict[r] # "ok" => PublicErr[verdict[r]] \in Codes
      BY AnswerTypes DEF TypeOK
    <2>3. reply' \in [Requests -> [code : Codes, tx : Requests \cup {NoTx}]]
      <3> DEFINE R == [code : Codes, tx : Requests \cup {NoTx}]
      <3>0. [code |-> "OK", tx |-> r] \in R
        BY DEF Codes
      <3>1. CASE verdict[r] = "ok"
        <4>1. reply' = [reply EXCEPT ![r] = [code |-> "OK", tx |-> r]]
          BY <1>17, <3>1 DEF AuditAndAnswer
        <4> QED
          BY <3>0, <4>1 DEF TypeOK
      <3>2. CASE verdict[r] # "ok"
        <4>1. reply' = [reply EXCEPT ![r] =
                            [code |-> PublicErr[verdict[r]], tx |-> NoTx]]
          BY <1>17, <3>2 DEF AuditAndAnswer
        <4>2. [code |-> PublicErr[verdict[r]], tx |-> NoTx] \in R
          BY <2>2, <3>2
        <4> QED
          BY <4>1, <4>2 DEF TypeOK
      <3> QED
        BY <3>1, <3>2
    <2> QED
      BY <1>17, <2>1, <2>3 DEF TypeOK, AuditAndAnswer, Phases
  <1>18. CASE Crash
    BY <1>18 DEF TypeOK, Crash, Phases
  <1>19. ASSUME NEW a \in Accounts, CreateUser(a) PROVE TypeOK'
    BY <1>19 DEF TypeOK, CreateUser
  <1>20. CASE NextDay
    BY <1>20 DEF TypeOK, NextDay
  <1>21. CASE UNCHANGED vars
    BY <1>21 DEF TypeOK, vars
  <1>22. ASSUME NEW r \in Requests, KeyFailed(r) \/ LookupFails(r)
         PROVE  RejectKey(r)
    BY <1>22 DEF KeyFailed, LookupFails
  <1> QED
    BY <1>1, <1>2, <1>3, <1>4, <1>5, <1>6, <1>7, <1>8, <1>9, <1>10, <1>11,
       <1>12, <1>13, <1>15, <1>16, <1>17, <1>18, <1>19, <1>20, <1>21, <1>22
    DEF Next, Progress

(* Every variable keeps its type in every behaviour.                       *)
THEOREM TypeCorrect == Spec => []TypeOK
  <1>1. Init => TypeOK
    BY ConstantsAssumption DEF Init, TypeOK, Phases, Codes, Digests
  <1> QED
    BY <1>1, TypeStep, PTL DEF Spec

-----------------------------------------------------------------------------
(* A payload's accounts, owners and amount have their types.               *)
LEMMA InputTypes ==
    ASSUME TypeOK, NEW r \in Requests
    PROVE  /\ input[r].from \in Accounts /\ input[r].to \in Accounts
           /\ input[r].amount \in Nat /\ input[r].amount > 0
           /\ input[r].key \in Keys
           /\ balance[input[r].from] \in Int /\ balance[input[r].to] \in Int
  BY ConstantsAssumption DEF TypeOK, Payloads

(***************************************************************************)
(* A rollback releases locks and writes nothing.                           *)
(***************************************************************************)
LEMMA RollbackInv ==
    ASSUME TypeOK, TransferInv, NEW r \in Requests, Rollback(r)
    PROVE  TransferInv'
  <1> USE DEF TypeOK, Rollback
  <1>1. pc[r] \in {"insert", "commit"} \/ ledgerLock' = ledgerLock \/ ledgerLock = r
    OBVIOUS
  <1>2. RowLocksExclude'
    BY DEF TransferInv, RowLocksExclude
  <1>3. LocksFollowPhase'
    BY DEF TransferInv, LocksFollowPhase
  <1>4. DecisionsStayValid'
    BY DEF TransferInv, DecisionsStayValid
  <1>5. RowsAreUnique'
    BY LedgerIndices DEF TransferInv, RowsAreUnique, RowsOfKey, Indices, Rows
  <1>6. LedgerIsOneChain'
    BY DEF TransferInv, LedgerIsOneChain, Indices
  <1> QED
    BY <1>2, <1>3, <1>4, <1>5, <1>6 DEF TransferInv

(***************************************************************************)
(* A commit keeps the rows there were and adds the request's own.          *)
(***************************************************************************)
LEMMA PostRows ==
    ASSUME TypeOK, NEW r \in Requests, Post(r)
    PROVE  /\ Indices' = 1..(Len(txs) + 1)
           /\ Len(txs') = Len(txs) + 1
           /\ txs' # <<>>
           /\ \A i \in 1..Len(txs) : txs'[i] = txs[i] /\ txs[i] \in Rows
           /\ txs'[Len(txs) + 1] = NewRow(r)
  <1>1. txs' = Append(txs, NewRow(r)) /\ NewRow(r) \in Rows
    BY NewRowType DEF Post
  <1>2. txs \in Seq(Rows) /\ txs' \in Seq(Rows)
    BY <1>1, AppendProperties DEF TypeOK
  <1>3. DOMAIN txs' = 1..Len(txs')
    BY <1>2, LenProperties
  <1>4. /\ Len(txs') = Len(txs) + 1
        /\ txs' # <<>>
        /\ \A i \in 1..Len(txs) : txs'[i] = txs[i]
        /\ txs'[Len(txs) + 1] = NewRow(r)
    BY <1>1, <1>2, AppendProperties
  <1> QED
    BY <1>3, <1>4, LedgerIndices DEF Indices

(***************************************************************************)
(* The commit: r alone has the ledger row, so its row extends the chain;   *)
(* the accounts it changes are locked by nobody else, so what the others   *)
(* decided stays valid.                                                    *)
(***************************************************************************)
LEMMA PostInv ==
    ASSUME TypeOK, TransferInv, NEW r \in Requests,
           pc[r] = "commit", Post(r),
           NEW p \in {"audit", "done"}, pc' = [pc EXCEPT ![r] = p]
    PROVE  TransferInv'
  <1>1. PICK n \in Nat :
           /\ n = Len(txs)
           /\ Indices = 1..n
           /\ Indices' = 1..(n + 1)
           /\ Len(txs') = n + 1
           /\ txs' # <<>>
           /\ \A i \in 1..n : txs'[i] = txs[i] /\ txs[i] \in Rows
           /\ txs'[n + 1] = NewRow(r)
    BY PostRows, LedgerIndices
  <1>2. \A q \in Requests \ {r} : pc[q] \notin {"insert", "commit"}
    BY DEF TransferInv, LocksFollowPhase
  <1>3. \A q \in Requests \ {r} : pc'[q] = pc[q] /\ held'[q] = held[q]
    BY DEF Post, TypeOK
  <1>4. pc'[r] \in {"audit", "done"} /\ held'[r] = {}
    BY DEF Post, TypeOK
  <1>5. verdict[r] = "ok" =>
            /\ {input[r].from, input[r].to} \subseteq held[r]
            /\ input[r].from # input[r].to
            /\ input[r].amount <= balance[input[r].from]
    BY DEF TransferInv, DecisionsStayValid
  <1>6. RowLocksExclude'
    <2> SUFFICES ASSUME NEW q1 \in Requests, NEW q2 \in Requests, q1 # q2,
                        NEW x \in held'[q1], NEW y \in held'[q2]
                 PROVE  Owner[x] # Owner[y]
      BY DEF RowLocksExclude
    <2>1. q1 # r /\ q2 # r
      BY <1>4
    <2> QED
      BY <1>3, <2>1 DEF TransferInv, RowLocksExclude
  <1>7. LocksFollowPhase'
    BY <1>2, <1>3, <1>4 DEF TransferInv, LocksFollowPhase, Post
  <1>8. ASSUME NEW q \in Requests \ {r}, NEW x \in held[q]
        PROVE  balance'[x] = balance[x]
    <2>1. verdict[r] = "ok" => x # input[r].from /\ x # input[r].to
      BY <1>5, <1>8 DEF TransferInv, RowLocksExclude
    <2> QED
      BY <2>1 DEF Post, TypeOK
  <1>9. DecisionsStayValid'
    <2> SUFFICES ASSUME NEW q \in Requests
                 PROVE  /\ snap[q].rows <= Len(txs')
                        /\ pc'[q] \in {"lockTo", "check"} =>
                              seen[q] = balance'[input[q].from]
                        /\ pc'[q] \in {"lockLedger", "insert", "commit"}
                           /\ verdict[q] = "ok" =>
                              /\ {input[q].from, input[q].to} \subseteq held'[q]
                              /\ input[q].from # input[q].to
                              /\ input[q].amount <= balance'[input[q].from]
                        /\ pc'[q] \notin {"insert", "commit"}
      BY DEF DecisionsStayValid, Post
    <2>1. snap[q].rows <= Len(txs')
      <3>1. snap[q].rows \in Nat /\ snap[q].rows <= n
        BY <1>1 DEF TypeOK, TransferInv, DecisionsStayValid
      <3> QED
        BY <1>1, <3>1
    <2>2. CASE q = r
      BY <1>4, <2>1, <2>2
    <2>3. CASE q # r
      BY <1>2, <1>3, <1>8, <2>1, <2>3
      DEF TransferInv, DecisionsStayValid, LocksFollowPhase
    <2> QED
      BY <2>2, <2>3
  <1>10. /\ NewRow(r).id = r /\ NewRow(r).cur = Digest(r)
         /\ NewRow(r).key = input[r].key
         /\ NewRow(r).prev = lastHash
    BY DEF NewRow, TransferInv, DecisionsStayValid
  <1>11. \A i \in 1..n : /\ txs[i].id \in Requests \ {r}
                         /\ txs[i].key # input[r].key
                         /\ txs[i].cur = Digest(txs[i].id)
                         /\ pc[txs[i].id] \in {"audit", "done", "crashed"}
    <2> SUFFICES ASSUME NEW i \in 1..n
                 PROVE  /\ txs[i].id \in Requests \ {r}
                        /\ txs[i].key # input[r].key
                        /\ txs[i].cur = Digest(txs[i].id)
                        /\ pc[txs[i].id] \in {"audit", "done", "crashed"}
      OBVIOUS
    <2>1. txs[i].id \in Requests
      BY <1>1 DEF Rows
    <2>2. /\ txs[i].cur = Digest(txs[i].id)
          /\ pc[txs[i].id] \in {"audit", "done", "crashed"}
      BY <1>1 DEF TransferInv, RowsAreUnique
    <2>3. RowsOfKey(input[r].key) = {}
      BY DEF TransferInv, RowsAreUnique
    <2>4. txs[i].key # input[r].key
      BY <1>1, <2>3 DEF RowsOfKey
    <2> QED
      BY <2>1, <2>2, <2>4
  <1>12. \A i \in 1..(n + 1) : i \in 1..n \/ i = n + 1
    OBVIOUS
  <1>13. \A i, j \in 1..(n + 1) :
            txs'[i].id = txs'[j].id \/ txs'[i].key = txs'[j].key => i = j
    <2> SUFFICES ASSUME NEW i \in 1..(n + 1), NEW j \in 1..(n + 1),
                        txs'[i].id = txs'[j].id \/ txs'[i].key = txs'[j].key
                 PROVE  i = j
      OBVIOUS
    <2>1. CASE i \in 1..n /\ j \in 1..n
      BY <1>1, <2>1 DEF TransferInv, RowsAreUnique
    <2>2. CASE i = n + 1 \/ j = n + 1
      BY <1>1, <1>10, <1>11, <1>12, <2>2
    <2> QED
      BY <1>12, <2>1, <2>2
  <1>14. \A i \in 1..(n + 1) : /\ txs'[i].id \in Requests
                               /\ txs'[i].cur = Digest(txs'[i].id)
                               /\ pc'[txs'[i].id] \in {"audit", "done", "crashed"}
    BY <1>1, <1>3, <1>4, <1>10, <1>11, <1>12
  <1>15. RowsAreUnique'
    <2>1. \A q \in Requests : pc'[q] # "commit"
      BY <1>2, <1>3, <1>4
    <2> QED
      BY <1>1, <1>13, <1>14, <2>1 DEF RowsAreUnique
  <1>16. \A i \in 1..(n + 1) :
            txs'[i].prev = IF i = 1 THEN Genesis ELSE txs'[i - 1].cur
    <2> SUFFICES ASSUME NEW i \in 1..(n + 1)
                 PROVE  txs'[i].prev = IF i = 1 THEN Genesis ELSE txs'[i - 1].cur
      OBVIOUS
    <2>1. CASE i \in 1..n
      <3>1. txs[i].prev = IF i = 1 THEN Genesis ELSE txs[i - 1].cur
        BY <1>1, <2>1 DEF TransferInv, LedgerIsOneChain
      <3>2. i # 1 => i - 1 \in 1..n
        BY <2>1
      <3> QED
        BY <1>1, <2>1, <3>1, <3>2
    <2>2. CASE i = n + 1
      <3>1. lastHash = IF n = 0 THEN Genesis ELSE txs[n].cur
        BY <1>1, LedgerIndices, EmptySeq DEF TransferInv, LedgerIsOneChain, TypeOK
      <3>2. i # 1 => n \in 1..n /\ i - 1 = n /\ n # 0
        BY <2>2
      <3>3. i = 1 => n = 0
        BY <2>2
      <3> QED
        BY <1>1, <1>10, <2>2, <3>1, <3>2, <3>3
    <2> QED
      BY <1>12, <2>1, <2>2
  <1>17. \A i \in 1..(n + 1) : txs'[i].cur # Genesis
    <2>1. \A x \in Requests : Digest(x) \in [sha256 : Requests]
      BY DEF Digest
    <2> QED
      BY <1>14, <2>1, GenesisAssumption
  <1>18. \A i, j \in 1..(n + 1) : txs'[i].cur = txs'[j].cur => i = j
    <2>1. \A x, y \in Requests : Digest(x) = Digest(y) => x = y
      BY DEF Digest
    <2> QED
      BY <1>13, <1>14, <2>1
  <1>19. \A i, j \in 1..(n + 1) : txs'[i].prev = txs'[j].prev => i = j
    <2> SUFFICES ASSUME NEW i \in 1..(n + 1), NEW j \in 1..(n + 1),
                        txs'[i].prev = txs'[j].prev
                 PROVE  i = j
      OBVIOUS
    <2>1. /\ i # 1 => i - 1 \in 1..(n + 1)
          /\ j # 1 => j - 1 \in 1..(n + 1)
          /\ i - 1 = j - 1 => i = j
      OBVIOUS
    <2>2. CASE i # 1 /\ j # 1
      BY <1>16, <1>18, <2>1, <2>2
    <2>3. CASE i = 1 \/ j = 1
      BY <1>16, <1>17, <2>1, <2>3
    <2> QED
      BY <2>2, <2>3
  <1>20. LedgerIsOneChain'
    <2>1. lastHash' = txs'[n + 1].cur
      BY <1>1, <1>10 DEF Post
    <2> QED
      BY <1>1, <1>16, <1>19, <2>1 DEF LedgerIsOneChain
  <1>21. \A a \in Accounts : balance'[a] >= 0
    <2>1. \A a \in Accounts : balance[a] >= 0 /\ balance[a] \in Int
      BY DEF TransferInv, TypeOK
    <2>2. CASE verdict[r] # "ok"
      BY <2>1, <2>2 DEF Post
    <2>3. CASE verdict[r] = "ok"
      <3>1. balance' = [balance EXCEPT ![input[r].from] = @ - input[r].amount,
                                       ![input[r].to] = @ + input[r].amount]
        BY <2>3 DEF Post
      <3>2. \A a \in Accounts :
               balance'[a] = IF a = input[r].to THEN balance[a] + input[r].amount
                             ELSE IF a = input[r].from
                                  THEN balance[a] - input[r].amount
                             ELSE balance[a]
        BY <1>5, <2>3, <3>1, InputTypes DEF TypeOK
      <3> QED
        BY <1>5, <2>1, <2>3, <3>2, InputTypes
    <2> QED
      BY <2>2, <2>3
  <1> QED
    BY <1>6, <1>7, <1>9, <1>15, <1>20, <1>21 DEF TransferInv

(***************************************************************************)
(* Steps that change neither the ledger nor a balance nor the set of       *)
(* accounts leave the last two parts of the invariant as they are.         *)
(***************************************************************************)
LEMMA RowsKept ==
    ASSUME TypeOK, TransferInv, UNCHANGED <<txs, lastHash, input, balance>>,
           \A q \in Requests :
              /\ pc[q] \in {"audit", "done", "crashed"} =>
                    pc'[q] \in {"audit", "done", "crashed"}
              /\ pc'[q] = "commit" => RowsOfKey(input[q].key) = {}
    PROVE  /\ RowsAreUnique'
           /\ LedgerIsOneChain'
           /\ \A a \in Accounts : balance'[a] >= 0
  <1>1. RowsAreUnique'
    BY LedgerIndices DEF TransferInv, RowsAreUnique, RowsOfKey, Indices, Rows
  <1> QED
    BY <1>1 DEF TransferInv, LedgerIsOneChain, Indices

(* Every step of a transfer, of the database or of a failure preserves     *)
(* the invariant.                                                          *)
LEMMA InvStep == TypeOK /\ TransferInv /\ [Next]_vars => TransferInv'
  <1> SUFFICES ASSUME TypeOK, TransferInv, [Next]_vars PROVE TransferInv'
    OBVIOUS
  <1> USE DEF TypeOK
  <1>1. ASSUME NEW r \in Requests,
               \/ TransferMoney(r) \/ KeyUnused(r) \/ ReturnCompleted(r)
               \/ RejectKey(r) /\ pc[r] = "lookup"
               \/ AuditAndAnswer(r)
        PROVE  TransferInv'
    <2>1. /\ UNCHANGED <<db, locks, local>>
          /\ \E p \in {"lookup", "begin", "done"} : pc' = [pc EXCEPT ![r] = p]
          /\ pc[r] \in {"idle", "lookup", "audit"}
          /\ pc[r] = "audit" => pc'[r] = "done"
      BY <1>1 DEF TransferMoney, KeyUnused, ReturnCompleted, RejectKey, AuditAndAnswer
    <2>2. /\ RowsAreUnique'
          /\ LedgerIsOneChain'
          /\ \A a \in Accounts : balance'[a] >= 0
      BY <2>1, RowsKept DEF TransferInv, RowsAreUnique
    <2>3. RowLocksExclude' /\ LocksFollowPhase' /\ DecisionsStayValid'
      BY <2>1 DEF TransferInv, RowLocksExclude, LocksFollowPhase, DecisionsStayValid
    <2> QED
      BY <2>2, <2>3 DEF TransferInv
  <1>2. ASSUME NEW r \in Requests,
               BeginTx(r) \/ FromNotFound(r) \/ ToNotFound(r)
        PROVE  TransferInv'
    <2>1. /\ RowsAreUnique'
          /\ LedgerIsOneChain'
          /\ \A a \in Accounts : balance'[a] >= 0
      BY <1>2, RowsKept DEF TransferInv, RowsAreUnique, BeginTx, FromNotFound, ToNotFound
    <2>2. RowLocksExclude'
      BY <1>2 DEF TransferInv, RowLocksExclude, BeginTx, FromNotFound, ToNotFound
    <2>4. LocksFollowPhase'
      <3>1. CASE BeginTx(r)
        BY <3>1 DEF TransferInv, LocksFollowPhase, BeginTx
      <3>2. CASE FromNotFound(r) \/ ToNotFound(r)
        BY <3>2 DEF TransferInv, LocksFollowPhase, FromNotFound, ToNotFound
      <3> QED
        BY <1>2, <3>1, <3>2
    <2>3. DecisionsStayValid'
      BY <1>2 DEF TransferInv, DecisionsStayValid, BeginTx, FromNotFound, ToNotFound
    <2> QED
      BY <2>1, <2>2, <2>3, <2>4 DEF TransferInv
  <1>3. ASSUME NEW r \in Requests, LockFrom(r) PROVE TransferInv'
    <2>1. /\ RowsAreUnique'
          /\ LedgerIsOneChain'
          /\ \A a \in Accounts : balance'[a] >= 0
      BY <1>3, RowsKept DEF TransferInv, RowsAreUnique, LockFrom
    <2>2. RowLocksExclude'
      BY <1>3 DEF TransferInv, RowLocksExclude, LockFrom, Lockable, RowFree
    <2>3. LocksFollowPhase'
      BY <1>3 DEF TransferInv, LocksFollowPhase, LockFrom, Lockable
    <2>4. DecisionsStayValid'
      BY <1>3 DEF TransferInv, DecisionsStayValid, LockFrom
    <2> QED
      BY <2>1, <2>2, <2>3, <2>4 DEF TransferInv
  <1>4. ASSUME NEW r \in Requests, LockTo(r) PROVE TransferInv'
    <2>1. /\ RowsAreUnique'
          /\ LedgerIsOneChain'
          /\ \A a \in Accounts : balance'[a] >= 0
      BY <1>4, RowsKept DEF TransferInv, RowsAreUnique, LockTo
    <2>2. RowLocksExclude'
      BY <1>4 DEF TransferInv, RowLocksExclude, LockTo, Lockable, RowFree
    <2>3. LocksFollowPhase'
      BY <1>4 DEF TransferInv, LocksFollowPhase, LockTo, Lockable
    <2>4. DecisionsStayValid'
      BY <1>4 DEF TransferInv, DecisionsStayValid, LockTo
    <2> QED
      BY <2>1, <2>2, <2>3, <2>4 DEF TransferInv
  <1>5. ASSUME NEW r \in Requests, CheckRules(r) PROVE TransferInv'
    <2>1. /\ RowsAreUnique'
          /\ LedgerIsOneChain'
          /\ \A a \in Accounts : balance'[a] >= 0
      BY <1>5, RowsKept DEF TransferInv, RowsAreUnique, CheckRules
    <2>2. RowLocksExclude' /\ LocksFollowPhase'
      BY <1>5 DEF TransferInv, RowLocksExclude, LocksFollowPhase, CheckRules
    <2>3. BusinessVerdict(r) = "ok" =>
              /\ input[r].from # input[r].to
              /\ ~(seen[r] < input[r].amount)
      BY DEF BusinessVerdict
    <2>4. /\ {input[r].from, input[r].to} \subseteq held[r]
          /\ seen[r] = balance[input[r].from]
      BY <1>5 DEF CheckRules, TransferInv, LocksFollowPhase, DecisionsStayValid
    <2>5. DecisionsStayValid'
      BY <1>5, <2>3, <2>4, InputTypes DEF TransferInv, DecisionsStayValid, CheckRules
    <2> QED
      BY <2>1, <2>2, <2>5 DEF TransferInv
  <1>6. ASSUME NEW r \in Requests, LockLedger(r) PROVE TransferInv'
    <2>1. /\ RowsAreUnique'
          /\ LedgerIsOneChain'
          /\ \A a \in Accounts : balance'[a] >= 0
      BY <1>6, RowsKept DEF TransferInv, RowsAreUnique, LockLedger
    <2>2. RowLocksExclude' /\ LocksFollowPhase'
      BY <1>6, ConstantsAssumption
      DEF TransferInv, RowLocksExclude, LocksFollowPhase, LockLedger
    <2>3. snap[r].rows = Len(txs)
      <3>1. snap[r].rows <= Len(txs) /\ ~(Len(txs) > snap[r].rows)
        BY <1>6 DEF LockLedger, LedgerChangedSince, TransferInv, DecisionsStayValid
      <3>2. snap[r].rows \in Nat /\ Len(txs) \in Nat
        BY LedgerIndices
      <3> QED
        BY <3>1, <3>2
    <2>4. DecisionsStayValid'
      BY <1>6, <2>3 DEF TransferInv, DecisionsStayValid, LockLedger
    <2> QED
      BY <2>1, <2>2, <2>4 DEF TransferInv
  <1>7. ASSUME NEW r \in Requests, InsertRow(r) PROVE TransferInv'
    <2>1. /\ RowsAreUnique'
          /\ LedgerIsOneChain'
          /\ \A a \in Accounts : balance'[a] >= 0
      BY <1>7, RowsKept DEF TransferInv, RowsAreUnique, InsertRow, ViolatesConstraint
    <2>2. RowLocksExclude' /\ LocksFollowPhase' /\ DecisionsStayValid'
      BY <1>7 DEF TransferInv, RowLocksExclude, LocksFollowPhase,
                  DecisionsStayValid, InsertRow
    <2> QED
      BY <2>1, <2>2 DEF TransferInv
  <1>8. ASSUME NEW r \in Requests,
               \/ InsertRefused(r) \/ SerializationFailure(r)
               \/ DeadlockVictim(r) \/ StatementFails(r)
        PROVE  TransferInv'
    BY <1>8, RollbackInv
    DEF InsertRefused, SerializationFailure, DeadlockVictim, StatementFails
  <1>9. ASSUME NEW r \in Requests, Commit(r) \/ CommitUnacknowledged(r)
        PROVE  TransferInv'
    BY <1>9, PostInv DEF Commit, CommitUnacknowledged
  <1>10. CASE Crash
    <2>1. /\ RowsAreUnique'
          /\ LedgerIsOneChain'
          /\ \A a \in Accounts : balance'[a] >= 0
      BY <1>10, RowsKept DEF TransferInv, RowsAreUnique, Crash, Running, InTx
    <2>2. RowLocksExclude' /\ LocksFollowPhase' /\ DecisionsStayValid'
      BY <1>10 DEF TransferInv, RowLocksExclude, LocksFollowPhase,
                   DecisionsStayValid, Crash, Running, InTx
    <2> QED
      BY <2>1, <2>2 DEF TransferInv
  <1>11. ASSUME NEW a \in Accounts, CreateUser(a) PROVE TransferInv'
    <2>1. \A r \in Requests : a \notin held[r]
      BY <1>11 DEF CreateUser, TransferInv, LocksFollowPhase
    <2>2. RowsAreUnique' /\ LedgerIsOneChain'
      BY <1>11 DEF CreateUser, TransferInv, RowsAreUnique, LedgerIsOneChain,
                   RowsOfKey, Indices
    <2>3. RowLocksExclude' /\ LocksFollowPhase'
      BY <1>11 DEF CreateUser, TransferInv, RowLocksExclude, LocksFollowPhase
    <2>4. DecisionsStayValid'
      BY <1>11, <2>1 DEF CreateUser, TransferInv, DecisionsStayValid, LocksFollowPhase
    <2>5. \A x \in Accounts : balance'[x] >= 0
      BY <1>11, ConstantsAssumption DEF CreateUser, TransferInv
    <2> QED
      BY <2>2, <2>3, <2>4, <2>5 DEF TransferInv
  <1>12. CASE NextDay \/ UNCHANGED vars
    BY <1>12 DEF NextDay, vars, TransferInv, RowLocksExclude, LocksFollowPhase,
                 DecisionsStayValid, RowsAreUnique, LedgerIsOneChain,
                 RowsOfKey, Indices
  <1>13. ASSUME NEW r \in Requests, KeyFailed(r) \/ LookupFails(r)
         PROVE  RejectKey(r) /\ pc[r] = "lookup"
    BY <1>13 DEF KeyFailed, LookupFails
  <1> QED
    BY <1>1, <1>2, <1>3, <1>4, <1>5, <1>6, <1>7, <1>8, <1>9, <1>10, <1>11,
       <1>12, <1>13
    DEF Next, Progress

(* No locks are held and no rows are written in the initial states.        *)
LEMMA InvInit == Init => TransferInv
  BY ConstantsAssumption
  DEF Init, TransferInv, RowLocksExclude, LocksFollowPhase, DecisionsStayValid,
      RowsAreUnique, LedgerIsOneChain, RowsOfKey, Indices

(* Row locks exclude each other, decisions stay valid until they are acted *)
(* on and the ledger is one chain, in every reachable state.               *)
THEOREM InvariantHolds == Spec => []TransferInv
  <1>1. Init => TypeOK
    BY ConstantsAssumption DEF Init, TypeOK, Phases, Codes, Digests
  <1> QED
    BY <1>1, TypeStep, InvInit, InvStep, PTL DEF Spec

(* However transfers interleave, fail and crash, no account is overdrawn,  *)
(* and the balance that executeTransfer checked still covers the amount    *)
(* when it debits.                                                         *)
THEOREM NeverOverdrawn == Spec => []NoOverdraft
  <1>1. TypeOK /\ TransferInv => NoOverdraft
    BY InputTypes DEF TransferInv, DecisionsStayValid, NoOverdraft, DebitRefused
  <1> QED
    BY <1>1, TypeCorrect, InvariantHolds, PTL

(* The transactions table is one hash chain without forks, ending in       *)
(* ledger_state.last_hash, for any number of concurrent transfers.         *)
THEOREM LedgerNeverForks == Spec => []LedgerIsOneChain
  <1>1. TransferInv => LedgerIsOneChain
    BY DEF TransferInv
  <1> QED
    BY <1>1, InvariantHolds, PTL

(* Rows are only appended, one at a time, each by a transaction whose      *)
(* snapshot contains all earlier rows.                                     *)
THEOREM AppendsAreSerial == Spec => SerialAppends
  <1> DEFINE Step == txs' # txs =>
                       /\ txs' = Append(txs, txs'[Len(txs')])
                       /\ snap[txs'[Len(txs')].id].rows = Len(txs)
  <1>1. TypeOK /\ TransferInv /\ [Next]_vars => [Step]_vars
    <2> SUFFICES ASSUME TypeOK, TransferInv, Next, txs' # txs
                 PROVE  Step
      OBVIOUS
    <2>1. PICK r \in Requests : pc[r] = "commit" /\ Post(r)
      BY DEF Next, Progress, Commit, CommitUnacknowledged, TransferMoney,
             KeyUnused, ReturnCompleted, KeyFailed, LookupFails, RejectKey,
             BeginTx, FromNotFound, LockFrom, ToNotFound, LockTo, CheckRules,
             LockLedger, SerializationFailure, InsertRow, InsertRefused,
             AuditAndAnswer, DeadlockVictim, StatementFails, Rollback, Crash,
             CreateUser, NextDay
    <2>2. /\ txs' = Append(txs, NewRow(r))
          /\ txs'[Len(txs')] = NewRow(r)
      BY <2>1, NewRowType, AppendProperties DEF Post, TypeOK
    <2>3. snap[r].rows = Len(txs)
      BY <2>1 DEF TransferInv, DecisionsStayValid
    <2> QED
      BY <2>2, <2>3 DEF NewRow
  <1> QED
    BY <1>1, TypeCorrect, InvariantHolds, PTL DEF Spec, SerialAppends

-----------------------------------------------------------------------------
(***************************************************************************)
(* A commit adds one row to the rows of the request's key, which had none, *)
(* and leaves the rows of every other key alone.                           *)
(***************************************************************************)
LEMMA PostKeys ==
    ASSUME TypeOK, TransferInv, NEW r \in Requests, pc[r] = "commit", Post(r)
    PROVE  /\ RowsOfKey(input[r].key) = {}
           /\ \A k \in Keys : RowsOfKey(k)' = IF k = input[r].key
                                              THEN {Len(txs) + 1}
                                              ELSE RowsOfKey(k)
  <1> DEFINE n == Len(txs)
  <1>1. n \in Nat /\ Indices = 1..n /\ Indices' = 1..(n + 1)
    BY LedgerIndices, PostRows
  <1>2. \A i \in 1..n : txs'[i] = txs[i]
    BY PostRows
  <1>3. txs'[n + 1].key = input[r].key /\ input' = input
    BY PostRows DEF NewRow, Post
  <1>4. RowsOfKey(input[r].key) = {}
    BY DEF TransferInv, RowsAreUnique
  <1>5. \A i \in 1..(n + 1) : i \in 1..n \/ i = n + 1
    BY <1>1
  <1>6. n + 1 \in 1..(n + 1) /\ n + 1 \notin 1..n /\ 1..n \subseteq 1..(n + 1)
    BY <1>1
  <1> HIDE DEF n
  <1>7. ASSUME NEW k \in Keys, k = input[r].key
        PROVE  RowsOfKey(k)' = {n + 1}
    BY <1>7, <1>1, <1>2, <1>3, <1>4, <1>5, <1>6 DEF RowsOfKey
  <1>8. ASSUME NEW k \in Keys \ {input[r].key}
        PROVE  RowsOfKey(k)' = RowsOfKey(k)
    BY <1>1, <1>2, <1>3, <1>5, <1>6 DEF RowsOfKey
  <1> QED
    BY <1>4, <1>7, <1>8 DEF n

(***************************************************************************)
(* What the book records of a key is the status of its row: a commit       *)
(* settles the request's key or uses it up, and no other key.              *)
(***************************************************************************)
LEMMA PostOutcome ==
    ASSUME TypeOK, TransferInv, NEW r \in Requests, pc[r] = "commit", Post(r)
    PROVE  /\ Outcome[input[r].key] = "none"
           /\ Outcome' = [Outcome EXCEPT ![input[r].key] = NewRow(r).status]
  <1> DEFINE n == Len(txs)
             StatusIn(S, t) == IF S = {} THEN "none"
                               ELSE t[CHOOSE i \in S : TRUE].status
  <1>1. input[r].key \in Keys
    BY InputTypes
  <1>2. Outcome[input[r].key] = "none"
    BY <1>1, PostKeys DEF Outcome
  <1>3. ASSUME NEW k \in Keys, k # input[r].key
        PROVE  StatusIn(RowsOfKey(k)', txs') = StatusIn(RowsOfKey(k), txs)
    <2>1. RowsOfKey(k)' = RowsOfKey(k)
      BY <1>3, PostKeys
    <2>2. CASE RowsOfKey(k) = {}
      BY <2>1, <2>2
    <2>3. CASE RowsOfKey(k) # {}
      <3>1. (CHOOSE i \in RowsOfKey(k) : TRUE) \in 1..n
        BY <2>3, LedgerIndices DEF RowsOfKey
      <3> QED
        BY <2>1, <3>1, PostRows
    <2> QED
      BY <2>2, <2>3
  <1>4. ASSUME NEW k \in Keys, k = input[r].key
        PROVE  StatusIn(RowsOfKey(k)', txs') = NewRow(r).status
    <2>1. (CHOOSE i \in {n + 1} : TRUE) = n + 1
      OBVIOUS
    <2> QED
      BY <1>4, <2>1, PostKeys, PostRows
  <1>5. \A k \in Keys : /\ Outcome[k] = StatusIn(RowsOfKey(k), txs)
                        /\ Outcome'[k] = StatusIn(RowsOfKey(k)', txs')
    BY DEF Outcome
  <1>6. ASSUME NEW k \in Keys
        PROVE  Outcome'[k] = IF k = input[r].key THEN NewRow(r).status
                                                 ELSE Outcome[k]
    <2> HIDE DEF StatusIn
    <2>1. CASE k = input[r].key
      BY <1>4, <1>5, <2>1
    <2>2. CASE k # input[r].key
      BY <1>3, <1>5, <2>2
    <2> QED
      BY <2>1, <2>2
  <1>7. /\ Outcome = [k \in Keys |-> Outcome[k]]
        /\ Outcome' = [k \in Keys |-> Outcome'[k]]
    BY DEF Outcome
  <1> QED
    BY <1>2, <1>6, <1>7

(***************************************************************************)
(* The commit of an accepted transfer is the atomic transfer of the book:  *)
(* both accounts exist, they differ, and the amount is covered.  The       *)
(* commit of a rejected one only uses up the key.                          *)
(***************************************************************************)
LEMMA PostIsBookStep ==
    ASSUME TypeOK, TransferInv, NEW r \in Requests, pc[r] = "commit", Post(r)
    PROVE  Book!Next
  <1>1. input[r].key \in Keys
    BY InputTypes
  <1>2. /\ Outcome[input[r].key] = "none"
        /\ Outcome' = [Outcome EXCEPT ![input[r].key] = NewRow(r).status]
    BY PostOutcome
  <1>3. opened' = opened
    BY DEF Post
  <1>4. CASE verdict[r] = "ok"
    <2>1. /\ input[r].from \in opened /\ input[r].to \in opened
          /\ input[r].from # input[r].to
          /\ input[r].amount <= balance[input[r].from]
      BY <1>4 DEF TransferInv, DecisionsStayValid, LocksFollowPhase
    <2>2. input[r].amount \in 1..balance[input[r].from]
      BY <2>1, InputTypes
    <2>3. balance' = [balance EXCEPT ![input[r].from] = @ - input[r].amount,
                                     ![input[r].to] = @ + input[r].amount]
      BY <1>4 DEF Post
    <2>4. NewRow(r).status = "completed"
      BY <1>4 DEF NewRow
    <2>5. Book!Settle(input[r].key)
      BY <1>2, <1>3, <2>1, <2>2, <2>3, <2>4 DEF Book!Settle
    <2> QED
      BY <1>1, <2>5 DEF Book!Next
  <1>5. CASE verdict[r] # "ok"
    <2>1. balance' = balance /\ NewRow(r).status = "failed"
      BY <1>5 DEF Post, NewRow
    <2>2. Book!Decline(input[r].key)
      BY <1>2, <1>3, <2>1 DEF Book!Decline
    <2> QED
      BY <1>1, <2>2 DEF Book!Next
  <1> QED
    BY <1>4, <1>5

(***************************************************************************)
(* Every other step of a handling, every failure, the crash and the clock  *)
(* leave the book alone.                                                   *)
(***************************************************************************)
LEMMA OtherStepsKeepBook ==
    ASSUME [Next]_vars,
           ~ \E r \in Requests : pc[r] = "commit" /\ Post(r),
           ~ \E a \in Accounts : CreateUser(a)
    PROVE  UNCHANGED <<opened, balance, txs>>
  BY DEF Next, Progress, Commit, CommitUnacknowledged, TransferMoney,
         KeyUnused, ReturnCompleted, KeyFailed, LookupFails, RejectKey,
         BeginTx, FromNotFound, LockFrom, ToNotFound, LockTo, CheckRules,
         LockLedger, SerializationFailure, InsertRow, InsertRefused,
         AuditAndAnswer, DeadlockVictim, StatementFails, Rollback, Crash,
         NextDay, vars

(***************************************************************************)
(* The Bank Service implements TransferBook: through lock waits, snapshot  *)
(* reads, rollbacks, retries, unacknowledged commits and crashes, every    *)
(* step is one atomic, idempotent transfer of the book or is invisible in  *)
(* it.                                                                     *)
(***************************************************************************)
THEOREM BookImplemented == Spec => ImplementsBook
  <1>1. Init => Book!Init
    BY DEF Init, Book!Init, Outcome, RowsOfKey, Indices
  <1>2. TypeOK /\ TransferInv /\ [Next]_vars
           => [Book!Next]_<<opened, balance, Outcome>>
    <2> SUFFICES ASSUME TypeOK, TransferInv, [Next]_vars
                 PROVE  Book!Next \/ UNCHANGED <<opened, balance, Outcome>>
      OBVIOUS
    <2>1. ASSUME NEW r \in Requests, pc[r] = "commit" /\ Post(r)
          PROVE  Book!Next
      BY <2>1, PostIsBookStep
    <2>2. ASSUME NEW a \in Accounts, CreateUser(a)
          PROVE  Book!Next
      <3>1. Outcome' = Outcome
        BY <2>2 DEF CreateUser, Outcome, RowsOfKey, Indices
      <3>2. Book!Open(a)
        BY <2>2, <3>1 DEF CreateUser, Book!Open
      <3> QED
        BY <3>2 DEF Book!Next
    <2>3. CASE UNCHANGED <<opened, balance, txs>>
      BY <2>3 DEF Outcome, RowsOfKey, Indices
    <2> QED
      BY <2>1, <2>2, <2>3, OtherStepsKeepBook
  <1> QED
    BY <1>1, <1>2, TypeCorrect, InvariantHolds, PTL
    DEF Spec, ImplementsBook, Book!Spec

-----------------------------------------------------------------------------
(* The code of a business rejection is none of the other codes.            *)
LEMMA ErrorCodes ==
    \A reason \in Reasons :
        PublicErr[reason] \notin {"OK", "IDEMPOTENCY_FAILED", "INTERNAL", "none"}
  BY DEF Reasons, PublicErr

(* A key has at most one row.                                              *)
LEMMA OneRowPerKey ==
    ASSUME TransferInv, NEW k, NEW i \in RowsOfKey(k)
    PROVE  i \in Indices /\ txs[i].key = k /\ RowsOfKey(k) = {i}
  BY DEF TransferInv, RowsAreUnique, RowsOfKey

(***************************************************************************)
(* A step that neither writes a row, nor audits, nor answers.              *)
(***************************************************************************)
LEMMA SilentStep ==
    ASSUME TypeOK, ReportInv, UNCHANGED <<txs, input, audit, reply>>,
           \A q \in Requests :
              /\ (pc'[q] = "done") <=> (pc[q] = "done")
              /\ pc'[q] = "audit" => pc[q] = "audit" /\ verdict'[q] = verdict[q]
    PROVE  ReportInv'
  <1>1. CommitsAreRecorded'
    <2>1. \A e \in audit : e.req \in Requests
      BY DEF TypeOK, AuditEvents
    <2> QED
      BY <2>1 DEF ReportInv, CommitsAreRecorded, RowsOfKey, Indices
  <1>2. AnswersMatchLedger'
    BY DEF ReportInv, AnswersMatchLedger, RowsOfKey, Indices
  <1>3. AuditMatchesLedger'
    BY DEF ReportInv, AuditMatchesLedger, Indices
  <1> QED
    BY <1>1, <1>2, <1>3 DEF ReportInv

(***************************************************************************)
(* A handling that gives up before its commit is answered INTERNAL or      *)
(* IDEMPOTENCY_FAILED, and what it audits names no row: it has none.       *)
(***************************************************************************)
LEMMA GivingUp ==
    ASSUME TypeOK, TransferInv, ReportInv, NEW r \in Requests,
           pc[r] \notin {"audit", "done", "crashed"},
           NEW code \in {"INTERNAL", "IDEMPOTENCY_FAILED"},
           Answer(r, code, NoTx), UNCHANGED <<txs, input, verdict>>,
           \/ UNCHANGED audit
           \/ audit' = audit \cup {[action |-> "transfer_rejected", req |-> r,
                                    tx |-> NoTx]}
    PROVE  ReportInv'
  <1>0. \A e \in audit : e.req \in Requests
    BY DEF TypeOK, AuditEvents
  <1>1. /\ pc'[r] = "done" /\ reply'[r].code = code
        /\ \A q \in Requests \ {r} : pc'[q] = pc[q] /\ reply'[q] = reply[q]
    BY DEF TypeOK
  <1>2. \A i \in Indices : txs[i].id # r
    BY DEF TransferInv, RowsAreUnique
  <1>3. CommitsAreRecorded'
    BY <1>0, <1>1 DEF ReportInv, CommitsAreRecorded, RowsOfKey, Indices
  <1>4. AnswersMatchLedger'
    BY <1>1, ErrorCodes DEF ReportInv, AnswersMatchLedger, RowsOfKey, Indices
  <1>5. AuditMatchesLedger'
    BY <1>2 DEF ReportInv, AuditMatchesLedger, Indices
  <1> QED
    BY <1>3, <1>4, <1>5 DEF ReportInv

(***************************************************************************)
(* The answer of a handling whose key has been settled before, and the     *)
(* answer and audit of a handling that has committed its own row.          *)
(***************************************************************************)
LEMMA Answering ==
    ASSUME TypeOK, TransferInv, ReportInv, NEW r \in Requests,
           ReturnCompleted(r) \/ AuditAndAnswer(r)
    PROVE  ReportInv'
  <1>0. UNCHANGED <<txs, input, verdict>> /\ \A e \in audit : e.req \in Requests
    BY DEF ReturnCompleted, AuditAndAnswer, TypeOK, AuditEvents
  <1>1. pc'[r] = "done" /\ \A q \in Requests \ {r} : pc'[q] = pc[q]
    BY DEF ReturnCompleted, AuditAndAnswer, TypeOK
  <1>2. \A q \in Requests \ {r} : reply'[q] = reply[q]
    BY DEF ReturnCompleted, AuditAndAnswer, TypeOK
  <1>3. CASE ReturnCompleted(r)
    <2>1. PICK i \in RowsOfKey(input[r].key) :
             /\ txs[i].status = "completed"
             /\ reply'[r].code = "OK" /\ reply'[r].tx = txs[i].id
      BY <1>3 DEF ReturnCompleted, TypeOK
    <2>2. audit' = audit
      BY <1>3 DEF ReturnCompleted
    <2>3. CommitsAreRecorded'
      BY <1>0, <1>1, <1>2, <2>2
      DEF ReportInv, CommitsAreRecorded, RowsOfKey, Indices
    <2>4. AnswersMatchLedger'
      <3>1. i \in Indices /\ RowsOfKey(input[r].key) = {i}
        BY <2>1, OneRowPerKey
      <3> QED
        BY <1>0, <1>2, <2>1, <3>1, ErrorCodes
        DEF ReportInv, AnswersMatchLedger, RowsOfKey, Indices
    <2>5. AuditMatchesLedger'
      BY <1>0, <2>2 DEF ReportInv, AuditMatchesLedger, Indices
    <2> QED
      BY <2>3, <2>4, <2>5 DEF ReportInv
  <1>4. CASE AuditAndAnswer(r)
    <2>1. PICK i \in RowsOfKey(input[r].key) :
             /\ txs[i].id = r
             /\ (txs[i].status = "completed") <=> (verdict[r] = "ok")
      BY <1>4 DEF AuditAndAnswer, ReportInv, CommitsAreRecorded
    <2>2. i \in Indices /\ RowsOfKey(input[r].key) = {i}
      BY <2>1, OneRowPerKey
    <2>3. txs[i].status \in {"completed", "failed"}
      BY <2>2, LedgerIndices DEF Rows
    <2>4. reply'[r] = IF verdict[r] = "ok"
                      THEN [code |-> "OK", tx |-> r]
                      ELSE [code |-> PublicErr[verdict[r]], tx |-> NoTx]
      BY <1>4 DEF AuditAndAnswer, TypeOK
    <2>5. CommitsAreRecorded'
      <3>1. \A e \in audit' : e.tx = NoTx => e \in audit
        BY <1>4, ConstantsAssumption DEF AuditAndAnswer, AuditBestEffort
      <3> QED
        BY <1>0, <1>1, <1>2, <3>1
        DEF ReportInv, CommitsAreRecorded, RowsOfKey, Indices
    <2>6. AnswersMatchLedger'
      <3>1. ASSUME NEW q \in Requests, q # r
            PROVE  /\ reply'[q].code = "OK" =>
                        \E j \in RowsOfKey(input[q].key) :
                           /\ RowsOfKey(input[q].key) = {j}
                           /\ txs[j].status = "completed"
                           /\ txs[j].id = reply'[q].tx
                   /\ reply'[q].code \in {PublicErr[reason] : reason \in Reasons} =>
                        \E j \in RowsOfKey(input[q].key) :
                           /\ RowsOfKey(input[q].key) = {j}
                           /\ txs[j].status = "failed"
                           /\ txs[j].id = q
        BY <1>2, <3>1 DEF ReportInv, AnswersMatchLedger
      <3>2. /\ reply'[r].code = "OK" =>
                 /\ txs[i].status = "completed"
                 /\ txs[i].id = reply'[r].tx
            /\ reply'[r].code \in {PublicErr[reason] : reason \in Reasons} =>
                 /\ txs[i].status = "failed"
                 /\ txs[i].id = r
        BY <2>1, <2>3, <2>4, ErrorCodes DEF TypeOK
      <3> QED
        BY <1>0, <2>1, <2>2, <3>1, <3>2 DEF AnswersMatchLedger, RowsOfKey, Indices
    <2>7. AuditMatchesLedger'
      <3> DEFINE new == [action |-> AuditAction(verdict[r]), req |-> r, tx |-> r]
      <3>1. \A e \in audit' : e \in audit \/ e = new
        BY <1>4 DEF AuditAndAnswer, AuditBestEffort
      <3>2. /\ new.req = r /\ new.tx = r /\ r # NoTx
            /\ (new.action = "transfer_completed") <=> (verdict[r] = "ok")
        BY ConstantsAssumption DEF AuditAction, TypeOK
      <3> HIDE DEF new
      <3> QED
        BY <1>0, <2>1, <2>2, <3>1, <3>2
        DEF ReportInv, AuditMatchesLedger, Indices
    <2> QED
      BY <2>5, <2>6, <2>7 DEF ReportInv
  <1> QED
    BY <1>3, <1>4

(***************************************************************************)
(* A commit takes nothing back: rows that answers and events name stay,    *)
(* and nothing has been said yet of the row that is new.                   *)
(***************************************************************************)
LEMMA Committing ==
    ASSUME TypeOK, TransferInv, ReportInv, NEW r \in Requests,
           Commit(r) \/ CommitUnacknowledged(r)
    PROVE  ReportInv'
  <1> DEFINE n == Len(txs)
  <1>1. pc[r] = "commit" /\ Post(r) /\ UNCHANGED <<input, verdict, audit>>
    BY DEF Commit, CommitUnacknowledged, Post
  <1>2. n \in Nat /\ Indices = 1..n /\ Indices' = 1..(n + 1)
    BY <1>1, LedgerIndices, PostRows
  <1>3. /\ \A i \in 1..n : txs'[i] = txs[i]
        /\ txs'[n + 1] = NewRow(r)
    BY <1>1, PostRows
  <1>4. /\ NewRow(r).id = r
        /\ (NewRow(r).status = "completed") <=> (verdict[r] = "ok")
    BY DEF NewRow
  <1>5. /\ RowsOfKey(input[r].key) = {}
        /\ \A k \in Keys : RowsOfKey(k)' = IF k = input[r].key THEN {n + 1}
                                                              ELSE RowsOfKey(k)
    BY <1>1, PostKeys
  <1>6. \A q \in Requests : input[q].key \in Keys /\ RowsOfKey(input[q].key) \subseteq 1..n
    BY <1>2, InputTypes DEF RowsOfKey
  <1>7. \A q \in Requests \ {r} : pc'[q] = pc[q] /\ reply'[q] = reply[q]
    BY DEF Commit, CommitUnacknowledged, TypeOK
  <1>8. \/ pc'[r] = "audit" /\ reply'[r].code = "none"
        \/ pc'[r] = "done" /\ reply'[r].code = "INTERNAL"
    BY DEF Commit, CommitUnacknowledged, TypeOK, ReportInv, CommitsAreRecorded
  <1>9. \A e \in audit : e.req \in Requests /\ e.tx \in Requests \cup {NoTx}
    BY DEF TypeOK, AuditEvents
  <1>10. \A q \in Requests : RowsOfKey(input[q].key)' = IF input[q].key = input[r].key
                                                         THEN {n + 1}
                                                         ELSE RowsOfKey(input[q].key)
    BY <1>1, <1>5, <1>6
  <1> HIDE DEF n
  <1>11. CommitsAreRecorded'
    <2>1. ASSUME NEW q \in Requests, pc'[q] = "audit"
          PROVE  \E i \in RowsOfKey(input[q].key)' :
                    /\ txs'[i].id = q
                    /\ (txs'[i].status = "completed") <=> (verdict'[q] = "ok")
      <3>1. CASE q = r
        BY <1>1, <1>3, <1>4, <1>10, <3>1
      <3>2. CASE q # r
        <4>1. PICK i \in RowsOfKey(input[q].key) :
                 /\ txs[i].id = q
                 /\ (txs[i].status = "completed") <=> (verdict[q] = "ok")
          BY <1>7, <2>1, <3>2 DEF ReportInv, CommitsAreRecorded
        <4>2. input[q].key # input[r].key /\ i \in 1..n
          BY <1>5, <1>6, <4>1
        <4> QED
          BY <1>1, <1>3, <1>10, <4>1, <4>2
      <3> QED
        BY <3>1, <3>2
    <2>2. \A q \in Requests : pc'[q] # "done" => reply'[q].code = "none"
      BY <1>7, <1>8 DEF ReportInv, CommitsAreRecorded
    <2>3. \A e \in audit : e.tx = NoTx => pc'[e.req] = "done"
      BY <1>1, <1>7, <1>9 DEF ReportInv, CommitsAreRecorded
    <2> QED
      BY <1>1, <2>1, <2>2, <2>3 DEF CommitsAreRecorded
  <1>12. AnswersMatchLedger'
    <2> SUFFICES ASSUME NEW q \in Requests
                 PROVE  /\ reply'[q].code = "OK" =>
                             \E i \in RowsOfKey(input[q].key)' :
                                /\ RowsOfKey(input[q].key)' = {i}
                                /\ txs'[i].status = "completed"
                                /\ txs'[i].id = reply'[q].tx
                        /\ reply'[q].code \in {PublicErr[reason] : reason \in Reasons} =>
                             \E i \in RowsOfKey(input[q].key)' :
                                /\ RowsOfKey(input[q].key)' = {i}
                                /\ txs'[i].status = "failed"
                                /\ txs'[i].id = q
      BY DEF AnswersMatchLedger
    <2>1. CASE q = r
      BY <1>8, <2>1, ErrorCodes
    <2>2. CASE q # r
      <3>1. ASSUME NEW i \in RowsOfKey(input[q].key)
            PROVE  /\ RowsOfKey(input[q].key)' = RowsOfKey(input[q].key)
                   /\ txs'[i] = txs[i]
        BY <1>3, <1>5, <1>6, <1>10
      <3>2. reply'[q] = reply[q]
        BY <1>7, <2>2
      <3> QED
        BY <3>1, <3>2 DEF ReportInv, AnswersMatchLedger
    <2> QED
      BY <2>1, <2>2
  <1>13. AuditMatchesLedger'
    <2> SUFFICES ASSUME NEW e \in audit
                 PROVE  IF e.tx = NoTx
                        THEN \A i \in Indices' : txs'[i].id # e.req
                        ELSE \E i \in Indices' :
                                /\ txs'[i].id = e.req
                                /\ txs'[i].id = e.tx
                                /\ (txs'[i].status = "completed")
                                      <=> (e.action = "transfer_completed")
      BY <1>1 DEF AuditMatchesLedger
    <2>1. \A i \in 1..(n + 1) : i \in 1..n \/ i = n + 1
      BY <1>2
    <2>2. 1..n \subseteq 1..(n + 1)
      BY <1>2
    <2>3. CASE e.tx = NoTx
      <3>1. e.req # r /\ \A i \in 1..n : txs[i].id # e.req
        BY <1>1, <1>2, <2>3 DEF ReportInv, CommitsAreRecorded, AuditMatchesLedger
      <3> QED
        BY <1>2, <1>3, <1>4, <2>1, <2>3, <3>1
    <2>4. CASE e.tx # NoTx
      <3>1. PICK i \in 1..n : /\ txs[i].id = e.req
                              /\ txs[i].id = e.tx
                              /\ (txs[i].status = "completed")
                                    <=> (e.action = "transfer_completed")
        BY <1>2, <2>4 DEF ReportInv, AuditMatchesLedger
      <3> QED
        BY <1>2, <1>3, <2>2, <2>4, <3>1
    <2> QED
      BY <2>3, <2>4
  <1> QED
    BY <1>11, <1>12, <1>13 DEF ReportInv

(* Every step preserves what answers and audit events say of the ledger.   *)
LEMMA ReportStep ==
    TypeOK /\ TransferInv /\ ReportInv /\ [Next]_vars => ReportInv'
  <1> SUFFICES ASSUME TypeOK, TransferInv, ReportInv, [Next]_vars
               PROVE  ReportInv'
    OBVIOUS
  <1>1. ASSUME NEW r \in Requests,
               \/ TransferMoney(r) \/ KeyUnused(r) \/ BeginTx(r)
               \/ FromNotFound(r) \/ LockFrom(r) \/ ToNotFound(r) \/ LockTo(r)
               \/ CheckRules(r) \/ LockLedger(r) \/ InsertRow(r)
        PROVE  ReportInv'
    <2>1. UNCHANGED <<txs, input, audit, reply>>
      BY <1>1 DEF TransferMoney, KeyUnused, BeginTx, FromNotFound, LockFrom,
                  ToNotFound, LockTo, CheckRules, LockLedger, InsertRow
    <2>2. /\ pc[r] \notin {"audit", "done"}
          /\ \E p \in Phases \ {"audit", "done"} : pc' = [pc EXCEPT ![r] = p]
      BY <1>1 DEF TransferMoney, KeyUnused, BeginTx, FromNotFound, LockFrom,
                  ToNotFound, LockTo, CheckRules, LockLedger, InsertRow,
                  Phases, Running, InTx
    <2>3. \A q \in Requests \ {r} : verdict'[q] = verdict[q]
      BY <1>1 DEF TransferMoney, KeyUnused, BeginTx, FromNotFound, LockFrom,
                  ToNotFound, LockTo, CheckRules, LockLedger, InsertRow, TypeOK
    <2> QED
      BY <2>1, <2>2, <2>3, SilentStep DEF TypeOK
  <1>2. ASSUME NEW r \in Requests,
               \/ KeyFailed(r) \/ LookupFails(r) \/ InsertRefused(r)
               \/ SerializationFailure(r) \/ DeadlockVictim(r)
               \/ StatementFails(r)
        PROVE  ReportInv'
    <2>1. pc[r] \notin {"audit", "done", "crashed"}
      <3>1. InDeadlock(r) => pc[r] \in {"lockFrom", "lockTo", "lockLedger"}
        BY DEF InDeadlock, BlockedBy
      <3> QED
        BY <1>2, <3>1 DEF KeyFailed, LookupFails, InsertRefused,
               SerializationFailure, DeadlockVictim, StatementFails, InTx
    <2>2. /\ UNCHANGED <<txs, input, verdict>>
          /\ \E code \in {"INTERNAL", "IDEMPOTENCY_FAILED"} : Answer(r, code, NoTx)
      BY <1>2 DEF KeyFailed, LookupFails, RejectKey, InsertRefused,
             SerializationFailure, DeadlockVictim, StatementFails, Rollback
    <2>3. \/ UNCHANGED audit
          \/ audit' = audit \cup {[action |-> "transfer_rejected", req |-> r,
                                   tx |-> NoTx]}
      BY <1>2 DEF KeyFailed, LookupFails, RejectKey, InsertRefused,
             SerializationFailure, DeadlockVictim, StatementFails, AuditBestEffort
    <2> QED
      BY <2>1, <2>2, <2>3, GivingUp
  <1>3. ASSUME NEW r \in Requests, ReturnCompleted(r) \/ AuditAndAnswer(r)
        PROVE  ReportInv'
    BY <1>3, Answering
  <1>4. ASSUME NEW r \in Requests, Commit(r) \/ CommitUnacknowledged(r)
        PROVE  ReportInv'
    BY <1>4, Committing
  <1>5. CASE Crash
    <2>1. UNCHANGED <<txs, input, audit, reply>>
      BY <1>5 DEF Crash
    <2>2. \A q \in Requests : /\ (pc'[q] = "done") <=> (pc[q] = "done")
                              /\ pc'[q] # "audit"
      BY <1>5 DEF Crash, Running, InTx, TypeOK, Phases
    <2> QED
      BY <2>1, <2>2, SilentStep
  <1>6. CASE NextDay \/ UNCHANGED vars \/ \E a \in Accounts : CreateUser(a)
    <2>1. UNCHANGED <<txs, input, audit, reply, pc, verdict>>
      BY <1>6 DEF NextDay, CreateUser, vars
    <2> QED
      BY <2>1, SilentStep
  <1> QED
    BY <1>1, <1>2, <1>3, <1>4, <1>5, <1>6 DEF Next, Progress

(* Nothing has been answered or audited in the initial states.             *)
THEOREM ReportInvHolds == Spec => []ReportInv
  <1>1. Init => ReportInv
    BY ErrorCodes DEF Init, ReportInv, CommitsAreRecorded, AnswersMatchLedger,
                      AuditMatchesLedger
  <1> QED
    BY <1>1, ReportStep, TypeCorrect, InvariantHolds, PTL DEF Spec

(* Whatever raced, was retried or crashed: OK names the one completed row  *)
(* of the key, and a business error means that the request's own failed    *)
(* row has used the key up.                                                *)
THEOREM AnswersAreTrue == Spec => []AnswersMatchLedger
  <1>1. ReportInv => AnswersMatchLedger
    BY DEF ReportInv
  <1> QED
    BY <1>1, ReportInvHolds, PTL

(* An audit event that names a transaction names a committed row of the    *)
(* matching status, and one that names none is of a handling without one.  *)
THEOREM AuditIsTrue == Spec => []AuditMatchesLedger
  <1>1. ReportInv => AuditMatchesLedger
    BY DEF ReportInv
  <1> QED
    BY <1>1, ReportInvHolds, PTL

-----------------------------------------------------------------------------
(***************************************************************************)
(* Sums.  The total of a function over a finite set is defined by          *)
(* recursion on the set, so its laws are by induction; a smallest          *)
(* counterexample takes the place of the induction hypothesis.             *)
(***************************************************************************)

(* Every non-empty set of naturals has a least element.                    *)
LEMMA LeastNat ==
    ASSUME NEW T, T \subseteq Nat, T # {}
    PROVE  \E x \in T : \A y \in T : x <= y
  <1> DEFINE R == {p \in Nat \X Nat : p[1] < p[2]}
  <1>1. IsWellFoundedOn(R, Nat)
    BY NatLessThanWellFounded DEF OpToRel
  <1>2. PICK x \in T : \A y \in T : ~ (<<y, x>> \in R)
    <2> HIDE DEF R
    <2> QED
      BY <1>1, WFMin
  <1>3. \A y \in T : x <= y
    <2> SUFFICES ASSUME NEW y \in T PROVE x <= y
      OBVIOUS
    <2>1. ~(<<y, x>> \in R)
      BY <1>2
    <2>2. <<y, x>> \in Nat \X Nat /\ <<y, x>>[1] = y /\ <<y, x>>[2] = x
      OBVIOUS
    <2>3. ~(y < x)
      BY <2>1, <2>2
    <2> QED
      BY <2>3
  <1> QED
    BY <1>3

(* The element that the recursion takes out of a set first.                *)
Pick(s) == CHOOSE x \in s : TRUE

LEMMA PickIn == \A s : s # {} => Pick(s) \in s
  BY DEF Pick

(* Subsets of a finite set, and what is left of them without that element. *)
LEMMA Subsets ==
    ASSUME NEW S, IsFiniteSet(S)
    PROVE  \A s \in SUBSET S :
              /\ IsFiniteSet(s)
              /\ Cardinality(s) \in Nat
              /\ Cardinality(s) <= Cardinality(S)
              /\ s # {} => /\ Cardinality(s \ {Pick(s)}) = Cardinality(s) - 1
                           /\ s \ {Pick(s)} \in SUBSET S
              /\ Cardinality(s) = 0 <=> s = {}
  <1> SUFFICES ASSUME NEW s \in SUBSET S
               PROVE  /\ IsFiniteSet(s)
                      /\ Cardinality(s) \in Nat
                      /\ Cardinality(s) <= Cardinality(S)
                      /\ s # {} => /\ Cardinality(s \ {Pick(s)}) = Cardinality(s) - 1
                                   /\ s \ {Pick(s)} \in SUBSET S
                      /\ Cardinality(s) = 0 <=> s = {}
    OBVIOUS
  <1>1. IsFiniteSet(s) /\ Cardinality(s) <= Cardinality(S)
    BY FS_Subset
  <1>2. Cardinality(s) \in Nat /\ Cardinality(S) \in Nat
    BY <1>1, FS_CardinalityType
  <1>3. s # {} => Cardinality(s \ {Pick(s)}) = Cardinality(s) - 1
    BY <1>1, FS_RemoveElement, PickIn
  <1>4. Cardinality(s) = 0 <=> s = {}
    BY <1>1, FS_EmptySet
  <1> QED
    BY <1>1, <1>2, <1>3, <1>4

(* A smallest counterexample: if some subset of a finite set is bad and    *)
(* the empty set is not, then one is bad that no longer is once an element *)
(* is taken out, whichever it is.                                          *)
Smallest(s, Bad, S) ==
    /\ s \in Bad /\ s \in SUBSET S
    /\ s # {} /\ IsFiniteSet(s) /\ Pick(s) \in s
    /\ Cardinality(s) \in Nat
    /\ Cardinality(s \ {Pick(s)}) = Cardinality(s) - 1
    /\ \A x \in s : s \ {x} \in SUBSET S /\ s \ {x} \notin Bad

LEMMA SmallestBad ==
    ASSUME NEW S, IsFiniteSet(S), NEW Bad, Bad \subseteq SUBSET S,
           Bad # {}, {} \notin Bad
    PROVE  \E s : Smallest(s, Bad, S)
  <1> DEFINE T == {Cardinality(s) : s \in Bad}
  <1>1. T \subseteq Nat /\ T # {}
    <2>1. \A s \in Bad : Cardinality(s) \in Nat
      BY Subsets
    <2> QED
      BY <2>1
  <1>2. PICK n \in T : \A m \in T : n <= m
    BY <1>1, LeastNat
  <1>3. PICK s \in Bad : n = Cardinality(s)
    OBVIOUS
  <1>4. s # {} /\ IsFiniteSet(s) /\ Cardinality(s) \in Nat
    <2>1. s # {} /\ s \in SUBSET S
      OBVIOUS
    <2> QED
      BY <2>1, Subsets
  <1>5. ASSUME NEW x \in s PROVE s \ {x} \in SUBSET S /\ s \ {x} \notin Bad
    <2>1. Cardinality(s \ {x}) = Cardinality(s) - 1
      BY <1>4, FS_RemoveElement
    <2>2. s \ {x} \in Bad => Cardinality(s) <= Cardinality(s \ {x})
      BY <1>2, <1>3
    <2>3. ~(Cardinality(s) <= Cardinality(s \ {x}))
      BY ONLY <1>4, <2>1
    <2> QED
      BY <2>2, <2>3
  <1>6. Pick(s) \in s /\ Cardinality(s \ {Pick(s)}) = Cardinality(s) - 1
    BY <1>4, PickIn, FS_RemoveElement
  <1>7. Smallest(s, Bad, S)
    BY <1>4, <1>5, <1>6 DEF Smallest
  <1> QED
    BY <1>7

(* One step of the recursion, and the function it defines.                 *)
AddStep(g, f, s) == IF s = {} THEN 0 ELSE f[Pick(s)] + g[s \ {Pick(s)}]

Totals(f, S) == CHOOSE g : g = [s \in SUBSET S |-> AddStep(g, f, s)]

LEMMA TotalIsRecursive ==
    ASSUME NEW f, NEW S
    PROVE  Total(f, S) = Totals(f, S)[S]
  BY DEF Total, MapThenSumSet, MapThenFoldSet, Totals, AddStep, Pick

(* For a finite set there is such a function: one for the subsets of up to *)
(* n elements, for every n.                                                *)
LEMMA RecursionExists ==
    ASSUME NEW S, IsFiniteSet(S), NEW f
    PROVE  \E g : g = [s \in SUBSET S |-> AddStep(g, f, s)]
  <1> DEFINE Small(n) == {s \in SUBSET S : Cardinality(s) <= n}
             Has(n) == \E g : g = [s \in Small(n) |-> AddStep(g, f, s)]
             Bad == {n \in Nat : ~Has(n)}
  <1>1. Has(0)
    <2> DEFINE g == [s \in Small(0) |-> 0]
    <2>1. \A s \in Small(0) : s = {}
      <3> SUFFICES ASSUME NEW s \in SUBSET S, Cardinality(s) <= 0 PROVE s = {}
        OBVIOUS
      <3>1. Cardinality(s) \in Nat /\ (Cardinality(s) = 0 => s = {})
        BY Subsets
      <3> QED
        BY <3>1
    <2>2. g = [s \in Small(0) |-> AddStep(g, f, s)]
      BY <2>1 DEF AddStep
    <2> QED
      BY <2>2
  <1>2. ASSUME NEW n \in Nat, Has(n) PROVE Has(n + 1)
    <2>1. PICK g : g = [s \in Small(n) |-> AddStep(g, f, s)]
      BY <1>2
    <2> DEFINE k == [s \in Small(n + 1) |-> AddStep(g, f, s)]
    <2>2. \A s \in Small(n) : s \in Small(n + 1) /\ k[s] = g[s]
      <3> SUFFICES ASSUME NEW s \in Small(n)
                   PROVE  s \in Small(n + 1) /\ k[s] = g[s]
        OBVIOUS
      <3>1. Cardinality(s) \in Nat /\ Cardinality(s) <= n
        BY Subsets
      <3>2. Cardinality(s) <= n + 1
        BY <3>1
      <3>3. s \in Small(n + 1)
        BY <3>2
      <3> QED
        BY <3>3, <2>1
    <2>3. \A s \in Small(n + 1) : s # {} => s \ {Pick(s)} \in Small(n)
      <3> SUFFICES ASSUME NEW s \in Small(n + 1), s # {}
                   PROVE  s \ {Pick(s)} \in Small(n)
        OBVIOUS
      <3>1. /\ Cardinality(s) \in Nat /\ Cardinality(s) <= n + 1
            /\ Cardinality(s \ {Pick(s)}) = Cardinality(s) - 1
            /\ s \ {Pick(s)} \in SUBSET S
        BY Subsets
      <3> QED
        BY <3>1
    <2> HIDE DEF Small
    <2>4. \A s \in Small(n + 1) : k[s] = AddStep(k, f, s)
      BY <2>2, <2>3 DEF AddStep
    <2>5. k = [s \in Small(n + 1) |-> AddStep(k, f, s)]
      BY <2>4
    <2> HIDE DEF k
    <2> QED
      BY <2>5
  <1>3. Bad = {}
    <2> SUFFICES ASSUME Bad # {} PROVE FALSE
      OBVIOUS
    <2> HIDE DEF Has
    <2>1. PICK n \in Bad : \A m \in Bad : n <= m
      BY LeastNat
    <2>2. n \in Nat /\ n # 0 /\ ~Has(n)
      BY <1>1, <2>1
    <2>3. n - 1 \in Nat /\ n - 1 \notin Bad
      BY <2>1, <2>2
    <2>4. Has((n - 1) + 1)
      BY <1>2, <2>3
    <2> QED
      BY <2>4, <2>2
  <1>4. Has(Cardinality(S))
    <2> HIDE DEF Has
    <2> QED
      BY <1>3, FS_CardinalityType
  <1>5. Small(Cardinality(S)) = SUBSET S
    BY Subsets
  <1> QED
    BY <1>4, <1>5

LEMMA TotalsStep ==
    ASSUME NEW S, IsFiniteSet(S), NEW f, NEW s \in SUBSET S
    PROVE  Totals(f, S)[s] = AddStep(Totals(f, S), f, s)
  <1>1. Totals(f, S) = [t \in SUBSET S |-> AddStep(Totals(f, S), f, t)]
    BY RecursionExists DEF Totals
  <1> QED
    BY <1>1

(* The recursion on a set and that on a subset agree on the subset.        *)
LEMMA TotalsAgree ==
    ASSUME NEW S, IsFiniteSet(S), NEW T \in SUBSET S, NEW f
    PROVE  Totals(f, S)[T] = Totals(f, T)[T]
  <1> DEFINE Bad == {s \in SUBSET T : Totals(f, S)[s] # Totals(f, T)[s]}
  <1>1. IsFiniteSet(T)
    BY FS_Subset
  <1>2. \A s \in SUBSET T : /\ Totals(f, S)[s] = AddStep(Totals(f, S), f, s)
                            /\ Totals(f, T)[s] = AddStep(Totals(f, T), f, s)
    BY <1>1, TotalsStep
  <1>3. {} \notin Bad
    BY <1>2 DEF AddStep
  <1>4. Bad = {}
    <2> SUFFICES ASSUME Bad # {} PROVE FALSE
      OBVIOUS
    <2>1. PICK s : Smallest(s, Bad, T)
      <3>1. Bad \subseteq SUBSET T
        OBVIOUS
      <3> HIDE DEF Bad
      <3> QED
        BY <1>1, <1>3, <3>1, SmallestBad
    <2>2. Totals(f, S)[s \ {Pick(s)}] = Totals(f, T)[s \ {Pick(s)}]
      BY <2>1 DEF Smallest
    <2> QED
      BY <1>2, <2>1, <2>2 DEF Smallest, AddStep
  <1> QED
    BY <1>4

LEMMA TotalEmpty == ASSUME NEW f PROVE Total(f, {}) = 0
  <1>1. IsFiniteSet({})
    BY FS_EmptySet
  <1>2. Totals(f, {})[{}] = AddStep(Totals(f, {}), f, {})
    BY <1>1, TotalsStep
  <1> QED
    BY <1>2, TotalIsRecursive DEF AddStep

LEMMA TotalPick ==
    ASSUME NEW S, IsFiniteSet(S), S # {}, NEW f
    PROVE  Total(f, S) = f[Pick(S)] + Total(f, S \ {Pick(S)})
  <1>1. Totals(f, S)[S] = AddStep(Totals(f, S), f, S)
    BY TotalsStep
  <1>2. Totals(f, S)[S \ {Pick(S)}] = Totals(f, S \ {Pick(S)})[S \ {Pick(S)}]
    BY TotalsAgree
  <1> QED
    BY <1>1, <1>2, TotalIsRecursive DEF AddStep

(* A total of integers is an integer, and one of naturals a natural.       *)
LEMMA TotalType ==
    ASSUME NEW S, IsFiniteSet(S), NEW N \in {Nat, Int}, NEW f,
           \A x \in S : f[x] \in N
    PROVE  Total(f, S) \in N
  <1> DEFINE Bad == {s \in SUBSET S : Total(f, s) \notin N}
  <1>1. {} \notin Bad
    BY TotalEmpty
  <1>2. Bad = {}
    <2> SUFFICES ASSUME Bad # {} PROVE FALSE
      OBVIOUS
    <2>1. PICK s : Smallest(s, Bad, S)
      <3>1. Bad \subseteq SUBSET S
        OBVIOUS
      <3> HIDE DEF Bad
      <3> QED
        BY <1>1, <3>1, SmallestBad
    <2>2. Total(f, s \ {Pick(s)}) \in N /\ f[Pick(s)] \in N
      BY <2>1 DEF Smallest
    <2>3. Total(f, s) = f[Pick(s)] + Total(f, s \ {Pick(s)})
      BY <2>1, TotalPick DEF Smallest
    <2>4. \A i, j \in N : i + j \in N
      OBVIOUS
    <2> QED
      BY <2>1, <2>2, <2>3, <2>4 DEF Smallest
  <1> QED
    BY <1>2

(* Any element may be taken out first.                                     *)
LEMMA TotalRemove ==
    ASSUME NEW S, IsFiniteSet(S), NEW f, \A x \in S : f[x] \in Int
    PROVE  \A x \in S : Total(f, S) = f[x] + Total(f, S \ {x})
  <1> DEFINE Good(s) == \A x \in s : Total(f, s) = f[x] + Total(f, s \ {x})
             Bad == {s \in SUBSET S : ~Good(s)}
  <1>1. {} \notin Bad
    OBVIOUS
  <1>2. Bad = {}
    <2> SUFFICES ASSUME Bad # {} PROVE FALSE
      OBVIOUS
    <2>1. PICK s : Smallest(s, Bad, S)
      <3>1. Bad \subseteq SUBSET S
        OBVIOUS
      <3> HIDE DEF Bad
      <3> QED
        BY <1>1, <3>1, SmallestBad
    <2>2. PICK x \in s : Total(f, s) # f[x] + Total(f, s \ {x})
      BY <2>1 DEF Smallest
    <2> DEFINE c == Pick(s)
    <2>3. c \in s /\ Total(f, s) = f[c] + Total(f, s \ {c})
      BY <2>1, TotalPick DEF Smallest
    <2>4. x # c
      BY <2>2, <2>3
    <2>5. Good(s \ {x}) /\ Good(s \ {c})
      BY <2>1, <2>3 DEF Smallest
    <2> HIDE DEF c
    <2>6. (s \ {c}) \ {x} = (s \ {x}) \ {c}
      OBVIOUS
    <2>7. Total(f, s \ {c}) = f[x] + Total(f, (s \ {x}) \ {c})
      BY <2>3, <2>4, <2>5, <2>6
    <2>8. Total(f, s \ {x}) = f[c] + Total(f, (s \ {x}) \ {c})
      BY <2>3, <2>4, <2>5
    <2>9. Total(f, (s \ {x}) \ {c}) \in Int
      <3>1. IsFiniteSet((s \ {x}) \ {c})
        BY <2>1, FS_Subset DEF Smallest
      <3>2. \A y \in (s \ {x}) \ {c} : f[y] \in Int
        BY <2>1 DEF Smallest
      <3> QED
        BY <3>1, <3>2, TotalType
    <2>10. f[x] \in Int /\ f[c] \in Int
      BY <2>1, <2>3 DEF Smallest
    <2>11. Total(f, s) = f[x] + Total(f, s \ {x})
      BY ONLY <2>3, <2>7, <2>8, <2>9, <2>10
    <2> QED
      BY <2>2, <2>11
  <1> QED
    BY <1>2

LEMMA TotalAdd ==
    ASSUME NEW S, IsFiniteSet(S), NEW x, x \notin S, NEW f,
           \A y \in S \cup {x} : f[y] \in Int
    PROVE  Total(f, S \cup {x}) = f[x] + Total(f, S)
  <1>1. IsFiniteSet(S \cup {x})
    BY FS_AddElement
  <1>2. (S \cup {x}) \ {x} = S
    OBVIOUS
  <1> QED
    BY <1>1, <1>2, TotalRemove

(* A total depends only on the values over its set.                        *)
LEMMA TotalAgrees ==
    ASSUME NEW S, IsFiniteSet(S), NEW f, NEW g, \A x \in S : f[x] = g[x]
    PROVE  Total(f, S) = Total(g, S)
  <1> DEFINE Bad == {s \in SUBSET S : Total(f, s) # Total(g, s)}
  <1>1. {} \notin Bad
    BY TotalEmpty
  <1>2. Bad = {}
    <2> SUFFICES ASSUME Bad # {} PROVE FALSE
      OBVIOUS
    <2>1. PICK s : Smallest(s, Bad, S)
      <3>1. Bad \subseteq SUBSET S
        OBVIOUS
      <3> HIDE DEF Bad
      <3> QED
        BY <1>1, <3>1, SmallestBad
    <2>2. /\ Total(f, s \ {Pick(s)}) = Total(g, s \ {Pick(s)})
          /\ f[Pick(s)] = g[Pick(s)]
      BY <2>1 DEF Smallest
    <2>3. /\ Total(f, s) = f[Pick(s)] + Total(f, s \ {Pick(s)})
          /\ Total(g, s) = g[Pick(s)] + Total(g, s \ {Pick(s)})
      BY <2>1, TotalPick DEF Smallest
    <2> QED
      BY <2>1, <2>2, <2>3 DEF Smallest
  <1> QED
    BY <1>2

(* Equal values add up to a product.                                       *)
LEMMA TotalConstant ==
    ASSUME NEW S, IsFiniteSet(S), NEW f, NEW c \in Int, \A x \in S : f[x] = c
    PROVE  Total(f, S) = c * Cardinality(S)
  <1> DEFINE Bad == {s \in SUBSET S : Total(f, s) # c * Cardinality(s)}
  <1>1. {} \notin Bad
    BY TotalEmpty, FS_EmptySet
  <1>2. Bad = {}
    <2> SUFFICES ASSUME Bad # {} PROVE FALSE
      OBVIOUS
    <2>1. PICK s : Smallest(s, Bad, S)
      <3>1. Bad \subseteq SUBSET S
        OBVIOUS
      <3> HIDE DEF Bad
      <3> QED
        BY <1>1, <3>1, SmallestBad
    <2>2. Total(f, s \ {Pick(s)}) = c * (Cardinality(s) - 1) /\ f[Pick(s)] = c
      BY <2>1 DEF Smallest
    <2>3. Total(f, s) = f[Pick(s)] + Total(f, s \ {Pick(s)})
      BY <2>1, TotalPick DEF Smallest
    <2>4. c + c * (Cardinality(s) - 1) = c * Cardinality(s)
      BY <2>1 DEF Smallest
    <2> QED
      BY <2>1, <2>2, <2>3, <2>4 DEF Smallest
  <1> QED
    BY <1>2

-----------------------------------------------------------------------------
(***************************************************************************)
(* Two values of a total change by opposite amounts: the total stays.      *)
(***************************************************************************)
LEMMA TotalMoves ==
    ASSUME NEW S, IsFiniteSet(S), NEW f, NEW g, NEW a \in S, NEW b \in S, a # b,
           NEW m \in Int,
           \A x \in S : f[x] \in Int,
           g[a] = f[a] - m, g[b] = f[b] + m,
           \A x \in S \ {a, b} : g[x] = f[x]
    PROVE  Total(g, S) = Total(f, S)
  <1> DEFINE R == (S \ {a}) \ {b}
  <1>1. IsFiniteSet(S \ {a}) /\ IsFiniteSet(R)
    BY FS_Subset
  <1>2. \A x \in S : g[x] \in Int
    <2> SUFFICES ASSUME NEW x \in S PROVE g[x] \in Int
      OBVIOUS
    <2>1. f[x] \in Int
      OBVIOUS
    <2> QED
      BY <2>1
  <1>3. /\ Total(f, S) = f[a] + Total(f, S \ {a})
        /\ Total(g, S) = g[a] + Total(g, S \ {a})
    BY <1>2, TotalRemove
  <1>4. b \in S \ {a}
    OBVIOUS
  <1>5. /\ Total(f, S \ {a}) = f[b] + Total(f, R)
        /\ Total(g, S \ {a}) = g[b] + Total(g, R)
    BY <1>1, <1>2, <1>4, TotalRemove
  <1>6. \A x \in R : g[x] = f[x] /\ f[x] \in Int
    OBVIOUS
  <1> HIDE DEF R
  <1>7. Total(g, R) = Total(f, R) /\ Total(f, R) \in Int
    BY <1>1, <1>6, TotalAgrees, TotalType
  <1>8. f[a] \in Int /\ f[b] \in Int
    OBVIOUS
  <1>9. g[a] = f[a] - m /\ g[b] = f[b] + m
    OBVIOUS
  <1> QED
    BY ONLY m \in Int, <1>3, <1>5, <1>7, <1>8, <1>9

(***************************************************************************)
(* A commit moves an amount between two accounts that exist, and CreateUser *)
(* adds one with the opening balance.                                      *)
(***************************************************************************)
LEMMA MoneyStep ==
    ASSUME TypeOK, TransferInv, MoneyInv, [Next]_vars
    PROVE  MoneyInv'
  <1>0. Total(balance, opened) = OpeningBalance * Cardinality(opened)
    BY DEF MoneyInv, MoneyConserved
  <1>1. IsFiniteSet(opened) /\ \A x \in opened : balance[x] \in Int
    BY DEF TypeOK, MoneyInv
  <1>2. ASSUME NEW r \in Requests, pc[r] = "commit" /\ Post(r)
        PROVE  MoneyInv'
    <2>1. opened' = opened
      BY <1>2 DEF Post
    <2>2. CASE verdict[r] # "ok"
      <3>1. balance' = balance
        BY <1>2, <2>2 DEF Post
      <3> QED
        BY <1>0, <1>1, <2>1, <3>1 DEF MoneyInv, MoneyConserved
    <2>3. CASE verdict[r] = "ok"
      <3>1. /\ input[r].from \in opened /\ input[r].to \in opened
            /\ input[r].from # input[r].to
        BY <1>2, <2>3 DEF TransferInv, DecisionsStayValid, LocksFollowPhase
      <3>2. input[r].amount \in Int
        BY InputTypes
      <3>3. /\ balance'[input[r].from] = balance[input[r].from] - input[r].amount
            /\ balance'[input[r].to] = balance[input[r].to] + input[r].amount
            /\ \A x \in opened \ {input[r].from, input[r].to} : balance'[x] = balance[x]
        BY <1>2, <2>3, <3>1, InputTypes DEF Post, TypeOK
      <3>4. Total(balance', opened) = Total(balance, opened)
        BY <1>1, <3>1, <3>2, <3>3, TotalMoves
      <3> QED
        BY <1>0, <1>1, <2>1, <3>4 DEF MoneyInv, MoneyConserved
    <2> QED
      BY <2>2, <2>3
  <1>3. ASSUME NEW a \in Accounts, CreateUser(a)
        PROVE  MoneyInv'
    <2>1. /\ a \notin opened /\ opened' = opened \cup {a}
          /\ balance'[a] = OpeningBalance
          /\ \A x \in opened : balance'[x] = balance[x]
      BY <1>3 DEF CreateUser, TypeOK
    <2>2. /\ IsFiniteSet(opened') /\ Cardinality(opened') = Cardinality(opened) + 1
          /\ Cardinality(opened) \in Nat
      BY <1>1, <2>1, FS_AddElement, FS_CardinalityType
    <2>3. OpeningBalance \in Int
      BY ConstantsAssumption
    <2>4. \A x \in opened \cup {a} : balance'[x] \in Int
      BY <1>1, <2>1, <2>3
    <2>5. Total(balance', opened') = OpeningBalance + Total(balance', opened)
      BY <1>1, <2>1, <2>4, TotalAdd
    <2>6. Total(balance', opened) = Total(balance, opened)
      BY <1>1, <2>1, TotalAgrees
    <2>7. OpeningBalance + OpeningBalance * Cardinality(opened)
             = OpeningBalance * (Cardinality(opened) + 1)
      BY <2>2, <2>3
    <2>8. Total(balance', opened') = OpeningBalance * Cardinality(opened')
      BY <1>0, <2>2, <2>5, <2>6, <2>7
    <2> QED
      BY <2>2, <2>8 DEF MoneyInv, MoneyConserved
  <1>4. CASE UNCHANGED <<opened, balance, txs>>
    BY <1>4 DEF MoneyInv, MoneyConserved
  <1> QED
    BY <1>2, <1>3, <1>4, OtherStepsKeepBook

(* Money is neither made nor lost, by any number of transfers between any  *)
(* accounts, whatever fails or crashes.                                    *)
THEOREM NoMoneyLost == Spec => []MoneyConserved
  <1>1. Init => MoneyInv
    <2> SUFFICES ASSUME Init PROVE MoneyInv
      OBVIOUS
    <2>1. /\ opened = Seeded /\ IsFiniteSet(opened)
          /\ OpeningBalance \in Int
          /\ \A x \in opened : balance[x] = OpeningBalance
      BY ConstantsAssumption DEF Init
    <2> QED
      BY <2>1, TotalConstant DEF MoneyInv, MoneyConserved
  <1>2. TypeOK /\ TransferInv /\ MoneyInv /\ [Next]_vars => MoneyInv'
    BY MoneyStep
  <1>3. MoneyInv => MoneyConserved
    BY DEF MoneyInv
  <1> QED
    BY <1>1, <1>2, <1>3, TypeCorrect, InvariantHolds, PTL DEF Spec

-----------------------------------------------------------------------------
(***************************************************************************)
(* What the first n rows of a ledger t say was spent.                      *)
(***************************************************************************)
SpentRows(t, n, a, d) ==
    {i \in 1..n : /\ t[i].from = a
                  /\ t[i].status = "completed"
                  /\ t[i].day = d}

Spent(t, n, a, d) == Total([i \in 1..n |-> t[i].amount], SpentRows(t, n, a, d))

(* Two ledgers have the same first n rows; the rows' amounts are naturals. *)
Agree(u, t, n) == \A i \in 1..n : u[i] = t[i]

Amounts(t, n) == \A i \in 1..n : t[i].amount \in Nat

LEMMA SpentType ==
    ASSUME NEW n \in Nat, NEW t, Amounts(t, n), NEW a, NEW d
    PROVE  IsFiniteSet(SpentRows(t, n, a, d)) /\ Spent(t, n, a, d) \in Nat
  <1> DEFINE S == SpentRows(t, n, a, d)
             f == [i \in 1..n |-> t[i].amount]
  <1>1. S \subseteq 1..n
    BY DEF SpentRows
  <1>2. IsFiniteSet(1..n)
    BY FS_Interval
  <1>3. IsFiniteSet(S)
    BY <1>1, <1>2, FS_Subset
  <1>4. \A i \in S : f[i] \in Nat
    BY <1>1 DEF Amounts
  <1>5. Total(f, S) \in Nat
    <2> HIDE DEF S, f
    <2> QED
      BY <1>3, <1>4, TotalType
  <1> QED
    BY <1>3, <1>5 DEF Spent

(* Later rows do not change what earlier ones say.                         *)
LEMMA SpentStays ==
    ASSUME NEW n \in Nat, NEW t, NEW u, Agree(u, t, n), NEW a, NEW d
    PROVE  Spent(u, n, a, d) = Spent(t, n, a, d)
  <1>1. [i \in 1..n |-> u[i].amount] = [i \in 1..n |-> t[i].amount]
    BY DEF Agree
  <1>2. SpentRows(u, n, a, d) = SpentRows(t, n, a, d)
    BY DEF Agree, SpentRows
  <1> QED
    BY <1>1, <1>2 DEF Spent

(* One row more adds its amount, or nothing.                               *)
LEMMA SpentGrows ==
    ASSUME NEW n \in Nat, NEW t, NEW u, Agree(u, t, n), Amounts(u, n + 1),
           NEW a, NEW d
    PROVE  \/ /\ n + 1 \in SpentRows(u, n + 1, a, d)
              /\ Spent(u, n + 1, a, d) = u[n + 1].amount + Spent(t, n, a, d)
           \/ /\ n + 1 \notin SpentRows(u, n + 1, a, d)
              /\ Spent(u, n + 1, a, d) = Spent(t, n, a, d)
  <1> DEFINE S == SpentRows(t, n, a, d)
             f == [i \in 1..n |-> t[i].amount]
             g == [i \in 1..(n + 1) |-> u[i].amount]
  <1>1. /\ n + 1 \notin 1..n /\ n + 1 \in 1..(n + 1)
        /\ \A i \in 1..n : i \in 1..(n + 1)
        /\ \A i \in 1..(n + 1) : i \in 1..n \/ i = n + 1
    OBVIOUS
  <1>2. S \subseteq 1..n
    BY DEF SpentRows
  <1>3. Amounts(t, n)
    BY <1>1 DEF Agree, Amounts
  <1>4. IsFiniteSet(S)
    BY <1>3, SpentType
  <1>5. \A i \in S : g[i] = f[i] /\ g[i] \in Int
    BY <1>1, <1>2, <1>3 DEF Agree, Amounts
  <1>6. g[n + 1] = u[n + 1].amount /\ g[n + 1] \in Int
    BY <1>1 DEF Amounts
  <1>7. CASE n + 1 \in SpentRows(u, n + 1, a, d)
    <2>1. SpentRows(u, n + 1, a, d) = S \cup {n + 1}
      BY <1>1, <1>7 DEF Agree, SpentRows
    <2>2. n + 1 \notin S
      BY <1>1, <1>2
    <2> HIDE DEF S, f, g
    <2>3. Total(g, S \cup {n + 1}) = g[n + 1] + Total(g, S)
      BY <1>4, <1>5, <1>6, <2>2, TotalAdd
    <2>4. Total(g, S) = Total(f, S)
      BY <1>4, <1>5, TotalAgrees
    <2> QED
      BY <1>6, <1>7, <2>1, <2>3, <2>4 DEF Spent, S, f, g
  <1>8. CASE n + 1 \notin SpentRows(u, n + 1, a, d)
    <2>1. SpentRows(u, n + 1, a, d) = S
      BY <1>1, <1>8 DEF Agree, SpentRows
    <2> HIDE DEF S, f, g
    <2>2. Total(g, S) = Total(f, S)
      BY <1>4, <1>5, TotalAgrees
    <2> QED
      BY <1>8, <2>1, <2>2 DEF Spent, S, f, g
  <1> QED
    BY <1>7, <1>8

(* Nothing was spent on a day that no row is of.                           *)
LEMMA SpentNothing ==
    ASSUME NEW n \in Nat, NEW t, NEW a, NEW d, \A i \in 1..n : t[i].day # d
    PROVE  Spent(t, n, a, d) = 0
  <1>1. SpentRows(t, n, a, d) = {}
    BY DEF SpentRows
  <1> QED
    BY <1>1, TotalEmpty DEF Spent

(* The amounts of the rows a snapshot holds.                               *)
LEMMA SnapshotRows ==
    ASSUME TypeOK, TransferInv, NEW r \in Requests
    PROVE  /\ snap[r].rows \in Nat /\ snap[r].rows <= Len(txs)
           /\ Len(txs) \in Nat
           /\ \A i \in 1..snap[r].rows : i \in Indices
           /\ Amounts(txs, snap[r].rows) /\ Amounts(txs, Len(txs))
           /\ \A i \in Indices : txs[i].amount \in Nat /\ txs[i].day \in Nat
  <1>1. snap[r].rows \in Nat /\ snap[r].rows <= Len(txs)
    BY DEF TypeOK, TransferInv, DecisionsStayValid
  <1>2. \A i \in Indices : txs[i].amount \in Nat /\ txs[i].day \in Nat
    BY LedgerIndices DEF Rows
  <1>3. \A i \in 1..snap[r].rows : i \in Indices
    BY <1>1, LedgerIndices
  <1> QED
    BY <1>1, <1>2, <1>3, LedgerIndices DEF Amounts

(* The limit's invariant in these terms, now and after a step.             *)
LEMMA LimitTerms ==
    /\ \A r : WithinLimit(r) <=>
          /\ stamp[r].day <= day
          /\ pc[r] = "lockLedger" /\ verdict[r] = "ok" =>
                Spent(txs, snap[r].rows, input[r].from, day) + input[r].amount
                    <= DailyLimit
          /\ pc[r] \in {"insert", "commit"} /\ verdict[r] = "ok" =>
                Spent(txs, snap[r].rows, input[r].from, stamp[r].day)
                    + input[r].amount <= DailyLimit
    /\ \A r : WithinLimit(r)' <=>
          /\ stamp'[r].day <= day'
          /\ pc'[r] = "lockLedger" /\ verdict'[r] = "ok" =>
                Spent(txs', snap'[r].rows, input'[r].from, day') + input'[r].amount
                    <= DailyLimit
          /\ pc'[r] \in {"insert", "commit"} /\ verdict'[r] = "ok" =>
                Spent(txs', snap'[r].rows, input'[r].from, stamp'[r].day)
                    + input'[r].amount <= DailyLimit
    /\ DailyLimitRespected <=>
          \A a \in Accounts, d \in 0..MaxDay :
              Spent(txs, Len(txs), a, d) <= DailyLimit
    /\ DailyLimitRespected' <=>
          \A a \in Accounts, d \in 0..MaxDay :
              Spent(txs', Len(txs'), a, d) <= DailyLimit
  BY DEF WithinLimit, DailyLimitRespected, SpentOn, Spent, SpentRows

(* The commit writes the amount that was checked on the day it was stamped *)
(* with; every other snapshot holds the rows it held.                      *)
LEMMA PostLimit ==
    ASSUME TypeOK, TransferInv, LimitInv, NEW r \in Requests,
           pc[r] = "commit", Post(r),
           NEW p \in {"audit", "done"}, pc' = [pc EXCEPT ![r] = p]
    PROVE  LimitInv'
  <1>1. PICK n \in Nat :
        /\ n = Len(txs) /\ Indices = 1..n
        /\ Indices' = 1..(n + 1) /\ Len(txs') = n + 1
        /\ \A i \in 1..n : txs'[i] = txs[i]
        /\ txs'[n + 1] = NewRow(r)
        /\ NewRow(r) \in Rows
    BY LedgerIndices, PostRows, NewRowType
  <1>2. UNCHANGED <<day, input, snap, verdict, stamp>>
    BY DEF Post
  <1>3. NewRow(r).day = stamp[r].day /\ stamp[r].day <= day
    BY DEF NewRow, LimitInv, WithinLimit
  <1>4. \A i \in Indices' : txs'[i].day <= day'
    <2>1. \A i \in 1..(n + 1) : i \in 1..n \/ i = n + 1
      BY <1>1
    <2> QED
      BY <1>1, <1>2, <1>3, <2>1 DEF LimitInv
  <1>5. ASSUME NEW q \in Requests PROVE WithinLimit(q)'
    <2>1. WithinLimit(q)
      BY DEF LimitInv
    <2>2. CASE q = r
      <3>1. pc'[q] \notin {"lockLedger", "insert", "commit"}
        BY <2>2 DEF TypeOK
      <3>2. stamp'[q].day <= day'
        BY <1>2, <1>3, <2>2
      <3> QED
        BY <3>1, <3>2, LimitTerms
    <2>3. CASE q # r
      <3>1. pc'[q] = pc[q]
        BY <2>3 DEF TypeOK
      <3>2. Agree(txs', txs, snap[q].rows)
        BY <1>1, SnapshotRows DEF Agree
      <3>3. \A a, d : Spent(txs', snap[q].rows, a, d) = Spent(txs, snap[q].rows, a, d)
        <4>1. snap[q].rows \in Nat
          BY SnapshotRows
        <4> QED
          BY <3>2, <4>1, SpentStays
      <3> QED
        BY <1>2, <2>1, <3>1, <3>3, LimitTerms
    <2> QED
      BY <2>2, <2>3
  <1>6. ASSUME NEW a \in Accounts, NEW d \in 0..MaxDay
        PROVE  Spent(txs', n + 1, a, d) <= DailyLimit
    <2>1. Spent(txs, n, a, d) <= DailyLimit
      BY <1>1, LimitTerms DEF LimitInv
    <2>2. Amounts(txs', n + 1)
      <3>1. \A i \in 1..(n + 1) : i \in 1..n \/ i = n + 1
        BY <1>1
      <3>2. NewRow(r).amount \in Nat
        BY <1>1 DEF Rows
      <3> QED
        BY <1>1, <3>1, <3>2, SnapshotRows DEF Amounts
    <2>3. \/ /\ n + 1 \in SpentRows(txs', n + 1, a, d)
             /\ Spent(txs', n + 1, a, d) = txs'[n + 1].amount + Spent(txs, n, a, d)
          \/ /\ n + 1 \notin SpentRows(txs', n + 1, a, d)
             /\ Spent(txs', n + 1, a, d) = Spent(txs, n, a, d)
      <3>1. Agree(txs', txs, n)
        BY <1>1 DEF Agree
      <3> QED
        BY <3>1, <2>2, SpentGrows
    <2>4. CASE n + 1 \in SpentRows(txs', n + 1, a, d)
      <3>1. NewRow(r).from = a /\ NewRow(r).status = "completed" /\ NewRow(r).day = d
        BY <1>1, <2>4 DEF SpentRows
      <3>2. verdict[r] = "ok"
        BY <3>1 DEF NewRow
      <3>3. a = input[r].from /\ d = stamp[r].day
        BY <3>1, <3>2 DEF NewRow, FromColumn
      <3>4. snap[r].rows = n
        BY <1>1 DEF TransferInv, DecisionsStayValid
      <3>5. WithinLimit(r)
        BY DEF LimitInv
      <3>6. Spent(txs, n, a, d) + input[r].amount <= DailyLimit
        BY <3>2, <3>3, <3>4, <3>5, LimitTerms
      <3>7. txs'[n + 1].amount = input[r].amount /\ input[r].amount \in Nat
        BY <1>1, InputTypes DEF NewRow
      <3>8. Spent(txs, n, a, d) \in Nat
        BY <1>1, SnapshotRows, SpentType
      <3>9. DailyLimit \in Nat
        BY ConstantsAssumption
      <3> QED
        BY <2>3, <2>4, <3>6, <3>7, <3>8, <3>9
    <2>5. CASE n + 1 \notin SpentRows(txs', n + 1, a, d)
      BY <2>1, <2>3, <2>5
    <2> QED
      BY <2>4, <2>5
  <1>7. DailyLimitRespected'
    BY <1>1, <1>6, LimitTerms
  <1>8. day' <= MaxDay
    BY <1>2 DEF LimitInv
  <1> QED
    BY <1>4, <1>5, <1>7, <1>8 DEF LimitInv

(* If the rows and the clock stay, it is enough to look at the requests.   *)
LEMMA SameRowsLimit ==
    ASSUME LimitInv, UNCHANGED <<txs, day>>,
           \A q \in Requests : WithinLimit(q)'
    PROVE  LimitInv'
  BY DEF LimitInv, DailyLimitRespected, SpentOn, Indices

(* The check: the amount was added to what the snapshot holds for today.   *)
LEMMA CheckLimit ==
    ASSUME TypeOK, TransferInv, LimitInv, NEW r \in Requests, CheckRules(r)
    PROVE  LimitInv'
  <1>1. /\ UNCHANGED <<txs, day, input, snap, stamp>>
        /\ verdict' = [verdict EXCEPT ![r] = BusinessVerdict(r)]
        /\ pc' = [pc EXCEPT ![r] = "lockLedger"]
    BY DEF CheckRules
  <1>2. ASSUME NEW q \in Requests PROVE WithinLimit(q)'
    <2>1. WithinLimit(q)
      BY DEF LimitInv
    <2>2. CASE q # r
      <3>1. pc'[q] = pc[q] /\ verdict'[q] = verdict[q]
        BY <1>1, <2>2 DEF TypeOK
      <3> QED
        BY <1>1, <2>1, <3>1, LimitTerms
    <2>3. CASE q = r
      <3>1. pc'[q] = "lockLedger" /\ verdict'[q] = BusinessVerdict(r)
        BY <1>1, <2>3 DEF TypeOK
      <3>2. SpentOn(snap[r].rows, input[r].from, day)
               = Spent(txs, snap[r].rows, input[r].from, day)
        BY DEF SpentOn, Spent, SpentRows
      <3>3. /\ Spent(txs, snap[r].rows, input[r].from, day) \in Nat
            /\ input[r].amount \in Nat /\ DailyLimit \in Nat
        BY SnapshotRows, SpentType, InputTypes, ConstantsAssumption
      <3>4. BusinessVerdict(r) = "ok" =>
               ~(SpentOn(snap[r].rows, input[r].from, day) + input[r].amount > DailyLimit)
        BY DEF BusinessVerdict
      <3>5. BusinessVerdict(r) = "ok" =>
               Spent(txs, snap[r].rows, input[r].from, day) + input[r].amount <= DailyLimit
        BY <3>2, <3>3, <3>4
      <3> QED
        BY <1>1, <2>1, <2>3, <3>1, <3>5, LimitTerms
    <2> QED
      BY <2>2, <2>3
  <1> QED
    BY <1>1, <1>2, SameRowsLimit

(* The stamp: it is the day of the check, or a later one that began since. *)
LEMMA StampLimit ==
    ASSUME TypeOK, TransferInv, LimitInv, NEW r \in Requests, LockLedger(r)
    PROVE  LimitInv'
  <1>1. /\ UNCHANGED <<txs, day, input, snap, verdict>>
        /\ stamp' = [stamp EXCEPT ![r] = [prev |-> lastHash, day |-> day]]
        /\ pc[r] = "lockLedger" /\ pc' = [pc EXCEPT ![r] = "insert"]
    BY DEF LockLedger
  <1>2. ASSUME NEW q \in Requests PROVE WithinLimit(q)'
    <2>1. WithinLimit(q)
      BY DEF LimitInv
    <2>2. CASE q # r
      <3>1. pc'[q] = pc[q] /\ stamp'[q] = stamp[q]
        BY <1>1, <2>2 DEF TypeOK
      <3> QED
        BY <1>1, <2>1, <3>1, LimitTerms
    <2>3. CASE q = r
      <3>1. pc'[q] = "insert" /\ stamp'[q].day = day /\ day <= day
        BY <1>1, <2>3 DEF TypeOK
      <3> QED
        BY <1>1, <2>1, <2>3, <3>1, LimitTerms
    <2> QED
      BY <2>2, <2>3
  <1> QED
    BY <1>1, <1>2, SameRowsLimit

(* Midnight: nothing has been spent on the new day yet.                    *)
LEMMA MidnightLimit ==
    ASSUME TypeOK, TransferInv, LimitInv, NextDay
    PROVE  LimitInv'
  <1>1. /\ UNCHANGED <<txs, pc, input, snap, verdict, stamp>>
        /\ day < MaxDay /\ day' = day + 1
        /\ day \in Nat /\ MaxDay \in Nat
    BY ConstantsAssumption DEF NextDay, TypeOK
  <1>2. ASSUME NEW q \in Requests PROVE WithinLimit(q)'
    <2>1. WithinLimit(q)
      BY DEF LimitInv
    <2>2. stamp'[q].day <= day'
      <3>1. stamp[q].day \in Nat /\ stamp[q].day <= day
        BY <2>1 DEF WithinLimit, TypeOK
      <3> QED
        BY <1>1, <3>1
    <2>3. ASSUME pc[q] = "lockLedger", verdict[q] = "ok"
          PROVE  Spent(txs, snap[q].rows, input[q].from, day + 1) + input[q].amount
                     <= DailyLimit
      <3>1. \A i \in 1..snap[q].rows : txs[i].day # day + 1
        <4> SUFFICES ASSUME NEW i \in 1..snap[q].rows PROVE txs[i].day # day + 1
          OBVIOUS
        <4>1. txs[i].day \in Nat /\ txs[i].day <= day
          BY SnapshotRows DEF LimitInv
        <4> QED
          BY <1>1, <4>1
      <3>2. Spent(txs, snap[q].rows, input[q].from, day + 1) = 0
        BY <3>1, SnapshotRows, SpentNothing
      <3>3. Spent(txs, snap[q].rows, input[q].from, day) + input[q].amount <= DailyLimit
        BY <2>1, <2>3, LimitTerms
      <3>4. /\ Spent(txs, snap[q].rows, input[q].from, day) \in Nat
            /\ input[q].amount \in Nat /\ DailyLimit \in Nat
        BY SnapshotRows, SpentType, InputTypes, ConstantsAssumption
      <3> QED
        BY <3>2, <3>3, <3>4
    <2> QED
      BY <1>1, <2>1, <2>2, <2>3, LimitTerms
  <1>3. \A i \in Indices' : txs'[i].day <= day'
    <2> SUFFICES ASSUME NEW i \in Indices PROVE txs[i].day <= day + 1
      BY <1>1 DEF Indices
    <2>1. txs[i].day \in Nat /\ txs[i].day <= day
      BY LedgerIndices DEF LimitInv, Rows
    <2> QED
      BY <1>1, <2>1
  <1>4. DailyLimitRespected'
    BY <1>1 DEF LimitInv, DailyLimitRespected, SpentOn
  <1>5. day' <= MaxDay
    BY <1>1
  <1> QED
    BY <1>2, <1>3, <1>4, <1>5 DEF LimitInv

(* No other step brings a request to a phase in which its check counts.    *)
LEMMA OtherStepsKeepLimit ==
    ASSUME TypeOK, [Next]_vars,
           ~ \E r \in Requests : \/ Commit(r) \/ CommitUnacknowledged(r)
                                 \/ CheckRules(r) \/ LockLedger(r),
           ~NextDay
    PROVE  /\ UNCHANGED <<txs, day, input, stamp>>
           /\ \A q \in Requests :
                 /\ pc'[q] = "lockLedger" /\ verdict'[q] = "ok" =>
                       /\ pc[q] = "lockLedger" /\ verdict[q] = "ok"
                       /\ snap'[q] = snap[q]
                 /\ pc'[q] \in {"insert", "commit"} /\ verdict'[q] = "ok" =>
                       /\ pc[q] \in {"insert", "commit"} /\ verdict[q] = "ok"
                       /\ snap'[q] = snap[q]
  <1> USE DEF TypeOK
  <1>1. CASE \E r \in Requests : TransferMoney(r) \/ KeyUnused(r) \/ BeginTx(r)
    BY <1>1 DEF TransferMoney, KeyUnused, BeginTx
  <1>2. CASE \E r \in Requests : ReturnCompleted(r) \/ KeyFailed(r) \/ LookupFails(r)
                                 \/ AuditAndAnswer(r)
    BY <1>2 DEF ReturnCompleted, KeyFailed, LookupFails, RejectKey, AuditAndAnswer
  <1>3. CASE \E r \in Requests : FromNotFound(r) \/ LockFrom(r) \/ ToNotFound(r)
                                 \/ LockTo(r) \/ InsertRow(r)
    BY <1>3 DEF FromNotFound, LockFrom, ToNotFound, LockTo, InsertRow
  <1>4. CASE \E r \in Requests : \/ SerializationFailure(r) \/ InsertRefused(r)
                                 \/ DeadlockVictim(r) \/ StatementFails(r)
    BY <1>4 DEF SerializationFailure, InsertRefused, DeadlockVictim,
                StatementFails, Rollback
  <1>5. CASE Crash
    BY <1>5 DEF Crash, Running, InTx
  <1>6. CASE \E a \in Accounts : CreateUser(a)
    BY <1>6 DEF CreateUser
  <1>7. CASE UNCHANGED vars
    BY <1>7 DEF vars
  <1> QED
    BY <1>1, <1>2, <1>3, <1>4, <1>5, <1>6, <1>7 DEF Next, Progress

(* Committed transfers of one account on one day never exceed its limit,   *)
(* for any number of concurrent transfers and across midnight.             *)
THEOREM LimitHolds == Spec => []DailyLimitRespected
  <1>1. Init => LimitInv
    <2> SUFFICES ASSUME Init PROVE LimitInv
      OBVIOUS
    <2>1. txs = <<>> /\ Len(txs) = 0 /\ Indices = {} /\ day = 0
      BY DEF Init, Indices
    <2>2. 0 <= MaxDay /\ 0 <= DailyLimit
      BY ConstantsAssumption
    <2>3. \A a, d : Spent(txs, 0, a, d) = 0
      <3>1. \A i \in 1..0 : FALSE
        OBVIOUS
      <3> QED
        BY <3>1, SpentNothing
    <2>4. DailyLimitRespected
      BY <2>1, <2>2, <2>3, LimitTerms
    <2>5. \A r \in Requests : WithinLimit(r)
      <3> SUFFICES ASSUME NEW r \in Requests PROVE WithinLimit(r)
        OBVIOUS
      <3>1. pc[r] = "idle" /\ stamp[r].day = 0 /\ day = 0
        BY DEF Init
      <3>2. stamp[r].day <= day
        BY <3>1
      <3> QED
        BY <3>1, <3>2 DEF WithinLimit
    <2> QED
      BY <2>1, <2>2, <2>4, <2>5 DEF LimitInv
  <1>2. TypeOK /\ TransferInv /\ LimitInv /\ [Next]_vars => LimitInv'
    <2> SUFFICES ASSUME TypeOK, TransferInv, LimitInv, [Next]_vars PROVE LimitInv'
      OBVIOUS
    <2>1. CASE \E r \in Requests : Commit(r) \/ CommitUnacknowledged(r)
      <3>1. PICK r \in Requests :
               /\ pc[r] = "commit" /\ Post(r)
               /\ \E p \in {"audit", "done"} : pc' = [pc EXCEPT ![r] = p]
        BY <2>1 DEF Commit, CommitUnacknowledged
      <3> QED
        BY <3>1, PostLimit
    <2>2. CASE \E r \in Requests : CheckRules(r) \/ LockLedger(r)
      BY <2>2, CheckLimit, StampLimit
    <2>3. CASE NextDay
      BY <2>3, MidnightLimit
    <2>4. CASE /\ ~ \E r \in Requests : \/ Commit(r) \/ CommitUnacknowledged(r)
                                        \/ CheckRules(r) \/ LockLedger(r)
               /\ ~NextDay
      <3>1. /\ UNCHANGED <<txs, day, input, stamp>>
            /\ \A q \in Requests :
                  /\ pc'[q] = "lockLedger" /\ verdict'[q] = "ok" =>
                        /\ pc[q] = "lockLedger" /\ verdict[q] = "ok"
                        /\ snap'[q] = snap[q]
                  /\ pc'[q] \in {"insert", "commit"} /\ verdict'[q] = "ok" =>
                        /\ pc[q] \in {"insert", "commit"} /\ verdict[q] = "ok"
                        /\ snap'[q] = snap[q]
        BY <2>4, OtherStepsKeepLimit
      <3>2. ASSUME NEW q \in Requests PROVE WithinLimit(q)'
        <4>1. WithinLimit(q)
          BY DEF LimitInv
        <4> QED
          BY <3>1, <4>1, LimitTerms
      <3> QED
        BY <3>1, <3>2, SameRowsLimit
    <2> QED
      BY <2>1, <2>2, <2>3, <2>4
  <1>3. LimitInv => DailyLimitRespected
    BY DEF LimitInv
  <1> QED
    BY <1>1, <1>2, <1>3, TypeCorrect, InvariantHolds, PTL DEF Spec
============================================================================
