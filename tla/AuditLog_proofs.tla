-------------------------- MODULE AuditLog_proofs --------------------------
(***************************************************************************)
(* Theorems about AuditLog, for any number of writers, events, old rows    *)
(* and changes from outside.                                               *)
(***************************************************************************)
EXTENDS AuditLog, SequenceTheorems, FiniteSetTheorems, WellFoundedInduction,
        TLAPS

-----------------------------------------------------------------------------
(***************************************************************************)
(* Hashes, rows and the log.                                               *)
(***************************************************************************)

(* A hash determines what was hashed, and is neither NULL nor "genesis".   *)
LEMMA HashInjective ==
    ASSUME NEW p, NEW e, NEW q, NEW f, auditChainHash(p, e) = auditChainHash(q, f)
    PROVE  p = q /\ e = f
  <1>1. /\ auditChainHash(p, e).prev = p /\ auditChainHash(p, e).separated = e
        /\ auditChainHash(q, f).prev = q /\ auditChainHash(q, f).separated = f
    BY DEF auditChainHash
  <1> QED
    BY <1>1

LEMMA HashIsProper ==
    ASSUME NEW p, NEW e
    PROVE  auditChainHash(p, e) # NoHash /\ auditChainHash(p, e) # Genesis
  <1>1. /\ DOMAIN auditChainHash(p, e) = {"prev", "separated"}
        /\ DOMAIN NoHash = {"null"}
        /\ DOMAIN Genesis = {"constant"}
    BY DEF auditChainHash, NoHash, Genesis
  <1>2. "prev" \notin DOMAIN NoHash /\ "prev" \notin DOMAIN Genesis
    BY <1>1
  <1> QED
    BY <1>1, <1>2

LEMMA GenesisIsAHash == Genesis # NoHash
  <1>1. DOMAIN NoHash = {"null"} /\ DOMAIN Genesis = {"constant"}
    BY DEF NoHash, Genesis
  <1>2. "null" \notin DOMAIN Genesis
    BY <1>1
  <1> QED
    BY <1>1, <1>2

(* What a sequence is when nothing is known of its elements.               *)
IsSeq(s) == s \in Seq({s[i] : i \in DOMAIN s})

LEMMA SeqDomain ==
    ASSUME NEW s, IsSeq(s)
    PROVE  Len(s) \in Nat /\ DOMAIN s = 1..Len(s)
  BY DEF IsSeq

LEMMA Appended ==
    ASSUME NEW s, IsSeq(s), NEW e
    PROVE  /\ IsSeq(Append(s, e))
           /\ Len(Append(s, e)) = Len(s) + 1
           /\ DOMAIN Append(s, e) = 1..Len(s) + 1
           /\ \A i \in 1..Len(s) : Append(s, e)[i] = s[i]
           /\ Append(s, e)[Len(s) + 1] = e
  <1> DEFINE S == {s[i] : i \in DOMAIN s} \cup {e}
             t == Append(s, e)
  <1>1. s \in Seq(S) /\ Len(s) \in Nat /\ DOMAIN s = 1..Len(s)
    BY SeqDomain DEF IsSeq
  <1>2. /\ t \in Seq(S) /\ Len(t) = Len(s) + 1
        /\ DOMAIN t = 1..Len(s) + 1
        /\ \A i \in 1..Len(s) : t[i] = s[i]
        /\ t[Len(s) + 1] = e
    <2> HIDE DEF S
    <2>1. e \in S
      BY DEF S
    <2> QED
      BY <1>1, <2>1, AppendProperties
  <1>3. S \subseteq {t[i] : i \in DOMAIN t}
    <2>1. \A i \in DOMAIN s : i \in DOMAIN t /\ t[i] = s[i]
      BY <1>1, <1>2
    <2>2. Len(s) + 1 \in DOMAIN t
      BY <1>1, <1>2
    <2> QED
      BY <1>2, <2>1, <2>2
  <1>4. t \in Seq({t[i] : i \in DOMAIN t})
    <2> HIDE DEF S, t
    <2> QED
      BY <1>2, <1>3
  <1> QED
    BY <1>2, <1>4 DEF IsSeq

-----------------------------------------------------------------------------
(***************************************************************************)
(* ChainInv holds initially.                                               *)
(***************************************************************************)
OldRow(i) ==
    [id |-> i, seq |-> i, event |-> CHOOSE x \in Events : TRUE,
     prev |-> NoHash, hash |-> NoHash]

LEMMA OldRowsAre ==
    /\ OldRows = {OldRow(i) : i \in 1..PreChain}
    /\ IsFiniteSet(OldRows)
  <1>1. OldRows = {OldRow(i) : i \in 1..PreChain}
    BY DEF OldRows, OldRow
  <1> DEFINE f == [i \in 1..PreChain |-> OldRow(i)]
  <1>2. f \in Surjection(1..PreChain, OldRows)
    <2> HIDE DEF OldRow
    <2> QED
      BY <1>1 DEF Surjection
  <1>3. PreChain \in Nat
    BY AuditAssumption
  <1>4. IsFiniteSet(1..PreChain)
    BY <1>3, FS_Interval
  <1>5. IsFiniteSet(OldRows)
    <2> HIDE DEF f
    <2> QED
      BY <1>2, <1>4, FS_Surjection
  <1> QED
    BY <1>1, <1>5

LEMMA OldRowFields ==
    ASSUME NEW i
    PROVE  /\ OldRow(i).id = i /\ OldRow(i).seq = i
           /\ OldRow(i).prev = NoHash /\ OldRow(i).hash = NoHash
           /\ IsRow(OldRow(i))
  BY DEF OldRow, IsRow

LEMMA InitChain == Init => ChainInv
  <1> SUFFICES ASSUME Init PROVE ChainInv
    OBVIOUS
  <1> USE AuditAssumption
  <1>1. WritersInv
    BY DEF Init, WritersInv
  <1>2. LogInv
    BY DEF Init, LogInv
  <1>3. TableInv
    <2>1. table = {OldRow(i) : i \in 1..PreChain} /\ IsFiniteSet(table)
      BY OldRowsAre DEF Init
    <2>2. sequence = PreChain
      BY DEF Init
    <2>3. \A r \in table : IsRow(r) /\ r.seq \in 1..sequence /\ r.hash = NoHash
      BY <2>1, <2>2, OldRowFields
    <2>4. \A r, q \in table : r.seq = q.seq => r = q
      BY <2>1, OldRowFields
    <2> QED
      BY <2>1, <2>3, <2>4 DEF TableInv
  <1>4. PendingInv
    BY DEF Init, PendingInv
  <1> QED
    BY <1>1, <1>2, <1>3, <1>4 DEF ChainInv

-----------------------------------------------------------------------------
(***************************************************************************)
(* Every step preserves ChainInv.  First the parts that a step leaves      *)
(* alone.                                                                  *)
(***************************************************************************)
LEMMA SameLog ==
    ASSUME LogInv, UNCHANGED log, NEW w \in Writers, NEW x,
           pc \in [Writers -> {"idle", "lock", "read", "insert", "commit",
                               "done", "lost"}],
           pc[w] # "done", pc' = [pc EXCEPT ![w] = x]
    PROVE  LogInv'
  <1>1. \A i \in DOMAIN log : log[i].id \in Writers /\ log[i].id # w
    BY DEF LogInv
  <1>2. \A i \in DOMAIN log : pc'[log[i].id] = "done"
    BY <1>1 DEF LogInv
  <1> QED
    BY <1>2 DEF LogInv, ChainsTo, IsRow

LEMMA SameTable ==
    ASSUME TableInv, UNCHANGED <<table, log, sequence>>
    PROVE  TableInv'
  BY DEF TableInv, IsRow, Origin

LEMMA ExcludesOthers ==
    ASSUME WritersInv, NEW w \in Writers, NEW v \in Writers,
           pc[w] \in {"read", "insert", "commit"},
           pc[v] \in {"read", "insert", "commit"}
    PROVE  v = w
  BY DEF WritersInv

LEMMA BeginTxChain ==
    ASSUME ChainInv, NEW w \in Writers, BeginTx(w)
    PROVE  ChainInv'
  <1> USE DEF BeginTx
  <1>1. WritersInv'
    BY DEF ChainInv, WritersInv
  <1>2. LogInv'
    BY SameLog DEF ChainInv, WritersInv
  <1>3. TableInv'
    BY SameTable DEF ChainInv
  <1>4. PendingInv'
    BY DEF ChainInv, WritersInv, PendingInv, ChainsTo, IsRow
  <1> QED
    BY <1>1, <1>2, <1>3, <1>4 DEF ChainInv

LEMMA AdvisoryLockChain ==
    ASSUME ChainInv, NEW w \in Writers, AdvisoryLock(w)
    PROVE  ChainInv'
  <1> USE DEF AdvisoryLock
  <1>1. WritersInv'
    BY AuditAssumption DEF ChainInv, WritersInv
  <1>2. LogInv'
    BY SameLog DEF ChainInv, WritersInv
  <1>3. TableInv'
    BY SameTable DEF ChainInv
  <1>4. PendingInv'
    BY DEF ChainInv, WritersInv, PendingInv, ChainsTo, IsRow
  <1> QED
    BY <1>1, <1>2, <1>3, <1>4 DEF ChainInv

(* What InsertAudit reads as the head is "genesis" or the hash of a row    *)
(* that was written.                                                       *)
LEMMA ReadHeadChain ==
    ASSUME ChainInv, NEW w \in Writers, ReadHead(w)
    PROVE  ChainInv'
  <1>0. PICK h \in HeadHashes :
            prev' = [prev EXCEPT ![w] = IF h = NoHash THEN Genesis ELSE h]
    BY DEF ReadHead
  <1> USE DEF ReadHead
  <1>1. WritersInv'
    BY <1>0 DEF ChainInv, WritersInv
  <1>2. LogInv'
    BY SameLog DEF ChainInv, WritersInv
  <1>3. TableInv'
    BY SameTable DEF ChainInv
  <1>4. h # NoHash => \E k \in 1..Len(log) : h = log[k].hash
    <2> SUFFICES ASSUME h # NoHash PROVE \E k \in 1..Len(log) : h = log[k].hash
      OBVIOUS
    <2>1. PICK r \in table : h = r.hash
      BY DEF HeadHashes
    <2>2. PICK k \in DOMAIN log : Origin(r, k)
      BY <2>1 DEF ChainInv, TableInv
    <2>3. DOMAIN log = 1..Len(log)
      BY SeqDomain DEF ChainInv, LogInv, IsSeq
    <2> QED
      BY <2>1, <2>2, <2>3 DEF Origin
  <1>5. ChainsTo(prev'[w], Len(log))
    BY <1>0, <1>4 DEF ChainInv, WritersInv, ChainsTo
  <1>6. PendingInv'
    <2> SUFFICES ASSUME NEW v \in Writers
                 PROVE  /\ pc'[v] = "insert" => ChainsTo(prev[v], Len(log))'
                        /\ pc'[v] # "commit"
      BY DEF PendingInv, ChainsTo
    <2>1. CASE v = w
      BY <2>1, <1>5 DEF ChainInv, WritersInv, ChainsTo
    <2>2. CASE v # w
      <3>1. pc[v] \notin {"insert", "commit"}
        BY <2>2, ExcludesOthers DEF ChainInv
      <3> QED
        BY <2>2, <3>1 DEF ChainInv, WritersInv
    <2> QED
      BY <2>1, <2>2
  <1> QED
    BY <1>1, <1>2, <1>3, <1>6 DEF ChainInv

LEMMA InsertChain ==
    ASSUME ChainInv, NEW w \in Writers, Insert(w)
    PROVE  ChainInv'
  <1> DEFINE r == [id |-> w, seq |-> sequence + 1, event |-> event[w],
                   prev |-> prev[w],
                   hash |-> auditChainHash(prev[w], event[w])]
  <1>0. /\ pc[w] = "insert" /\ pc' = [pc EXCEPT ![w] = "commit"]
        /\ sequence' = sequence + 1
        /\ row' = [row EXCEPT ![w] = r]
        /\ UNCHANGED <<table, lock, event, prev, tampers, log>>
    BY DEF Insert
  <1>a. /\ r.id = w /\ r.seq = sequence + 1 /\ r.event = event[w]
        /\ r.prev = prev[w] /\ r.hash = auditChainHash(r.prev, r.event)
        /\ IsRow(r)
    BY DEF IsRow
  <1> HIDE DEF r
  <1>1. WritersInv'
    BY <1>0 DEF ChainInv, WritersInv
  <1>2. LogInv'
    BY <1>0, SameLog DEF ChainInv, WritersInv
  <1>b. \A x \in table : x.seq \in Nat /\ x.seq <= sequence /\ 1 <= x.seq
    BY DEF ChainInv, WritersInv, TableInv
  <1>c. sequence \in Nat
    BY DEF ChainInv, WritersInv
  <1>3. TableInv'
    <2>1. \A x \in table : x.seq \in 1..sequence'
      BY <1>0, <1>b, <1>c
    <2> QED
      BY <1>0, <2>1 DEF ChainInv, TableInv, IsRow, Origin
  <1>4. PendingInv'
    <2> SUFFICES ASSUME NEW v \in Writers
                 PROVE  /\ pc'[v] # "insert"
                        /\ pc'[v] = "commit" =>
                              /\ IsRow(row'[v])
                              /\ row'[v].id = v
                              /\ row'[v].hash =
                                    auditChainHash(row'[v].prev, row'[v].event)
                              /\ ChainsTo(row[v].prev, Len(log))'
                              /\ row'[v].seq = sequence' /\ sequence' > 0
                              /\ \A x \in table : x.seq < sequence'
      BY <1>0 DEF PendingInv, IsRow, auditChainHash
    <2>1. CASE v = w
      <3>1. row'[v] = r /\ pc'[v] = "commit"
        BY <1>0, <2>1 DEF ChainInv, WritersInv
      <3>2. ChainsTo(prev[w], Len(log))
        BY <1>0 DEF ChainInv, PendingInv
      <3>3. ChainsTo(row[v].prev, Len(log))'
        BY <1>0, <1>a, <3>1, <3>2 DEF ChainsTo
      <3>4. sequence' > 0 /\ \A x \in table : x.seq < sequence'
        BY <1>0, <1>b, <1>c
      <3> QED
        BY <1>0, <1>a, <2>1, <3>1, <3>3, <3>4
    <2>2. CASE v # w
      <3>1. pc[v] \notin {"insert", "commit"}
        BY <1>0, <2>2, ExcludesOthers DEF ChainInv
      <3> QED
        BY <1>0, <2>2, <3>1 DEF ChainInv, WritersInv
    <2> QED
      BY <2>1, <2>2
  <1> QED
    BY <1>1, <1>2, <1>3, <1>4 DEF ChainInv

LEMMA RollbackChain ==
    ASSUME ChainInv, NEW w \in Writers, Rollback(w)
    PROVE  ChainInv'
  <1> USE DEF Rollback, Unlock
  <1>1. WritersInv'
    BY DEF ChainInv, WritersInv
  <1>2. LogInv'
    BY SameLog DEF ChainInv, WritersInv
  <1>3. TableInv'
    BY SameTable DEF ChainInv
  <1>4. PendingInv'
    BY DEF ChainInv, WritersInv, PendingInv, ChainsTo, IsRow
  <1> QED
    BY <1>1, <1>2, <1>3, <1>4 DEF ChainInv

(* The commit: the new row has the highest number, its hash chains to a    *)
(* row that was written, and no other writer is past the lock.             *)
LEMMA CommitChain ==
    ASSUME ChainInv, NEW w \in Writers, Commit(w)
    PROVE  ChainInv'
  <1> DEFINE n == Len(log)
             r == row[w]
  <1>0. /\ pc[w] = "commit" /\ pc' = [pc EXCEPT ![w] = "done"]
        /\ table' = table \cup {r}
        /\ log' = Append(log, r)
        /\ lock' = IF lock = w THEN Nobody ELSE lock
        /\ UNCHANGED <<sequence, event, prev, row, tampers>>
    BY DEF Commit, Unlock
  <1>1. IsSeq(log) /\ n \in Nat /\ DOMAIN log = 1..n
    BY SeqDomain DEF ChainInv, LogInv, IsSeq
  <1>2. /\ IsSeq(log')
        /\ Len(log') = n + 1
        /\ DOMAIN log' = 1..n + 1
        /\ \A i \in 1..n : log'[i] = log[i]
        /\ log'[n + 1] = r
    BY <1>0, <1>1, Appended
  <1>3. /\ IsRow(r) /\ r.id = w
        /\ r.hash = auditChainHash(r.prev, r.event)
        /\ ChainsTo(r.prev, n)
        /\ r.seq = sequence /\ sequence > 0
        /\ \A x \in table : x.seq < sequence
    BY <1>0 DEF ChainInv, PendingInv
  <1>a. pc \in [Writers -> {"idle", "lock", "read", "insert", "commit", "done",
                             "lost"}] /\ sequence \in Nat
    BY DEF ChainInv, WritersInv
  <1>b. \A v \in Writers : v # w => pc[v] \notin {"insert", "commit"}
    BY <1>0, ExcludesOthers DEF ChainInv
  <1>4. WritersInv'
    BY <1>0 DEF ChainInv, WritersInv
  <1> HIDE DEF r, n
  <1>5. ASSUME NEW h, NEW k \in 0..n, ChainsTo(h, k)
        PROVE  h = Genesis \/ \E m \in 1..k : h = log'[m].hash
    <2>1. \A m \in 1..k : m \in 1..n
      BY <1>1
    <2> QED
      BY <1>5, <1>2, <2>1 DEF ChainsTo
  <1>6. LogInv'
    <2>1. ASSUME NEW i \in 1..n + 1
          PROVE  /\ IsRow(log'[i])
                 /\ log'[i].id \in Writers /\ pc'[log'[i].id] = "done"
                 /\ log'[i].hash = auditChainHash(log'[i].prev, log'[i].event)
                 /\ \/ log'[i].prev = Genesis
                    \/ \E m \in 1..i - 1 : log'[i].prev = log'[m].hash
      <3>1. CASE i \in 1..n
        <4>1. /\ IsRow(log[i])
              /\ log[i].id \in Writers /\ pc[log[i].id] = "done"
              /\ log[i].hash = auditChainHash(log[i].prev, log[i].event)
              /\ ChainsTo(log[i].prev, i - 1)
          BY <1>1, <3>1 DEF ChainInv, LogInv
        <4>2. i - 1 \in 0..n /\ log'[i] = log[i]
          BY <1>1, <1>2, <3>1
        <4> QED
          BY <1>0, <1>5, <1>a, <4>1, <4>2
      <3>2. CASE i = n + 1
        <4>1. log'[i] = r /\ i - 1 = n /\ n \in 0..n
          BY <1>1, <1>2, <3>2
        <4> QED
          BY <1>0, <1>3, <1>5, <1>a, <4>1
      <3> QED
        BY <1>1, <3>1, <3>2
    <2>2. ASSUME NEW i \in 1..n + 1, NEW j \in 1..n + 1, log'[i].id = log'[j].id
          PROVE  i = j
      <3>1. \A k \in 1..n : log'[k].id = log[k].id /\ log[k].id # w
        BY <1>0, <1>1, <1>2 DEF ChainInv, LogInv
      <3>2. log'[n + 1].id = w
        BY <1>2, <1>3
      <3>3. \A k \in 1..n + 1 : k \in 1..n \/ k = n + 1
        BY <1>1
      <3>4. \A k, m \in 1..n : log[k].id = log[m].id => k = m
        BY <1>1 DEF ChainInv, LogInv
      <3> QED
        BY <2>2, <3>1, <3>2, <3>3, <3>4
    <2> QED
      BY <1>2, <2>1, <2>2 DEF LogInv, ChainsTo, IsRow, IsSeq, auditChainHash
  <1>7. TableInv'
    <2>1. IsFiniteSet(table')
      BY <1>0, FS_AddElement DEF ChainInv, TableInv
    <2>2. ASSUME NEW x \in table'
          PROVE  /\ IsRow(x)
                 /\ x.seq \in 1..sequence
                 /\ x.hash # NoHash => \E i \in 1..n + 1 : Origin(x, i)'
      <3>1. CASE x \in table
        <4>1. /\ IsRow(x) /\ x.seq \in 1..sequence
              /\ x.hash # NoHash => \E i \in 1..n : Origin(x, i)
          BY <1>1, <3>1 DEF ChainInv, TableInv
        <4>2. \A i \in 1..n : i \in 1..n + 1 /\ (Origin(x, i) => Origin(x, i)')
          BY <1>1, <1>2 DEF Origin
        <4> QED
          BY <4>1, <4>2
      <3>2. CASE x = r
        <4>1. PICK k \in 1..n + 1 : k = n + 1
          BY <1>1
        <4>2. Origin(x, k)'
          BY <1>2, <3>2, <4>1 DEF Origin
        <4>3. r.seq \in 1..sequence
          BY <1>3, <1>a
        <4> QED
          BY <1>3, <3>2, <4>2, <4>3
      <3> QED
        BY <1>0, <3>1, <3>2
    <2>3. \A x \in table : x.seq \in Nat
      BY DEF ChainInv, TableInv
    <2>4. \A x, y \in table' : x.seq = y.seq => x = y
      <3>1. \A x, y \in table : x.seq = y.seq => x = y
        BY DEF ChainInv, TableInv
      <3>2. \A x \in table : x.seq # r.seq
        BY <1>3, <1>a, <2>3
      <3> QED
        BY <1>0, <3>1, <3>2
    <2> QED
      BY <1>0, <1>2, <2>1, <2>2, <2>4 DEF TableInv, IsRow, Origin
  <1>8. PendingInv'
    BY <1>0, <1>a, <1>b DEF PendingInv
  <1> QED
    BY <1>4, <1>6, <1>7, <1>8 DEF ChainInv

(***************************************************************************)
(* Changes from outside.  T is what the table becomes: as long as its rows *)
(* have the ids, hashes and numbers of rows that were there, nothing else  *)
(* is disturbed.                                                           *)
(***************************************************************************)
LEMMA TamperChain ==
    ASSUME ChainInv, NEW T, Tamper(T), IsFiniteSet(T),
           \A x \in T : /\ IsRow(x)
                        /\ \E r \in table : x.seq = r.seq
                        /\ \E r \in table : /\ x.id = r.id /\ x.prev = r.prev
                                            /\ x.hash = r.hash,
           \A x, y \in T : x.seq = y.seq => x = y
    PROVE  ChainInv'
  <1>0. /\ table' = T /\ tampers' = tampers + 1
        /\ UNCHANGED <<sequence, lock, pc, event, prev, row, log>>
    BY DEF Tamper
  <1>1. WritersInv'
    BY <1>0 DEF ChainInv, WritersInv
  <1>2. LogInv'
    BY <1>0 DEF ChainInv, LogInv, ChainsTo, IsRow
  <1>3. TableInv'
    <2>1. ASSUME NEW x \in T
          PROVE  /\ x.seq \in 1..sequence
                 /\ x.hash # NoHash => \E i \in DOMAIN log : Origin(x, i)
      <3>1. x.seq \in 1..sequence
        BY DEF ChainInv, TableInv
      <3>2. PICK r \in table : x.id = r.id /\ x.prev = r.prev /\ x.hash = r.hash
        OBVIOUS
      <3>3. r.hash # NoHash => \E i \in DOMAIN log : Origin(r, i)
        BY DEF ChainInv, TableInv
      <3> QED
        BY <3>1, <3>2, <3>3 DEF Origin
    <2> QED
      BY <1>0, <2>1 DEF TableInv, IsRow, Origin
  <1>4. PendingInv'
    <2>1. ASSUME NEW v \in Writers, pc[v] = "commit"
          PROVE  \A x \in T : x.seq < sequence
      BY <2>1 DEF ChainInv, PendingInv
    <2> QED
      BY <1>0, <2>1 DEF ChainInv, PendingInv, ChainsTo, IsRow
  <1> QED
    BY <1>1, <1>2, <1>3, <1>4 DEF ChainInv

LEMMA ModifyChain ==
    ASSUME ChainInv, Modify
    PROVE  ChainInv'
  <1>1. PICK r \in table, e \in Events :
            Tamper((table \ {r}) \cup {[r EXCEPT !.event = e]})
    BY DEF Modify
  <1> DEFINE q == [r EXCEPT !.event = e]
             T == (table \ {r}) \cup {q}
  <1>2. IsRow(q) /\ q.id = r.id /\ q.seq = r.seq /\ q.prev = r.prev
        /\ q.hash = r.hash
    BY DEF ChainInv, TableInv, IsRow
  <1>3. IsFiniteSet(T)
    BY FS_AddElement, FS_RemoveElement DEF ChainInv, TableInv
  <1>4. /\ \A x \in table : IsRow(x)
        /\ \A x, y \in table : x.seq = y.seq => x = y
    BY DEF ChainInv, TableInv
  <1> HIDE DEF q
  <1>5. \A x, y \in T : x.seq = y.seq => x = y
    BY <1>2, <1>4
  <1>6. \A x \in T : /\ IsRow(x)
                     /\ \E p \in table : x.seq = p.seq
                     /\ \E p \in table : /\ x.id = p.id /\ x.prev = p.prev
                                         /\ x.hash = p.hash
    BY <1>2, <1>4
  <1>7. Tamper(T)
    BY <1>1 DEF q
  <1> HIDE DEF T
  <1> QED
    BY <1>3, <1>5, <1>6, <1>7, TamperChain

LEMMA DeleteChain ==
    ASSUME ChainInv, Delete
    PROVE  ChainInv'
  <1>1. PICK r \in table : Tamper(table \ {r})
    BY DEF Delete
  <1>2. IsFiniteSet(table \ {r})
    BY FS_RemoveElement DEF ChainInv, TableInv
  <1>3. /\ \A x \in table : IsRow(x)
        /\ \A x, y \in table : x.seq = y.seq => x = y
    BY DEF ChainInv, TableInv
  <1> DEFINE T == table \ {r}
  <1>4. /\ \A x, y \in T : x.seq = y.seq => x = y
        /\ \A x \in T : /\ IsRow(x)
                        /\ \E p \in table : x.seq = p.seq
                        /\ \E p \in table : /\ x.id = p.id /\ x.prev = p.prev
                                            /\ x.hash = p.hash
    BY <1>3
  <1> HIDE DEF T
  <1> QED
    BY <1>1, <1>2, <1>4, TamperChain DEF T

LEMMA ReorderChain ==
    ASSUME ChainInv, Reorder
    PROVE  ChainInv'
  <1>1. PICK r, q \in table :
            /\ r.seq < q.seq
            /\ Tamper((table \ {r, q}) \cup {[r EXCEPT !.seq = q.seq],
                                             [q EXCEPT !.seq = r.seq]})
    BY DEF Reorder
  <1> DEFINE a == [r EXCEPT !.seq = q.seq]
             b == [q EXCEPT !.seq = r.seq]
             T == (table \ {r, q}) \cup {a, b}
  <1>2. /\ IsRow(a) /\ a.id = r.id /\ a.seq = q.seq /\ a.prev = r.prev
        /\ a.hash = r.hash
    BY DEF ChainInv, TableInv, IsRow
  <1>3. /\ IsRow(b) /\ b.id = q.id /\ b.seq = r.seq /\ b.prev = q.prev
        /\ b.hash = q.hash
    BY DEF ChainInv, TableInv, IsRow
  <1>4. /\ \A x \in table : IsRow(x)
        /\ \A x, y \in table : x.seq = y.seq => x = y
        /\ IsFiniteSet(table)
    BY DEF ChainInv, TableInv
  <1>5. IsFiniteSet(T)
    <2> HIDE DEF a, b
    <2>1. IsFiniteSet(table \ {r, q})
      BY <1>4, FS_Subset
    <2>2. IsFiniteSet({a, b})
      <3>1. IsFiniteSet({a})
        BY FS_Singleton
      <3>2. {a, b} = {a} \cup {b}
        OBVIOUS
      <3> QED
        BY <3>1, <3>2, FS_AddElement
    <2> QED
      BY <2>1, <2>2, FS_Union
  <1> HIDE DEF a, b
  <1>a. r.seq # q.seq
    <2>1. r.seq \in Int /\ q.seq \in Int
      BY DEF ChainInv, TableInv
    <2> QED
      BY <1>1, <2>1
  <1>6. \A x, y \in T : x.seq = y.seq => x = y
    BY <1>2, <1>3, <1>4, <1>a
  <1>7. \A x \in T : /\ IsRow(x)
                     /\ \E p \in table : x.seq = p.seq
                     /\ \E p \in table : /\ x.id = p.id /\ x.prev = p.prev
                                         /\ x.hash = p.hash
    BY <1>2, <1>3, <1>4
  <1>8. Tamper(T)
    BY <1>1 DEF a, b
  <1> HIDE DEF T
  <1> QED
    BY <1>5, <1>6, <1>7, <1>8, TamperChain

(***************************************************************************)
(* However the writers interleave and whatever is done to the table, each  *)
(* written row chains to an earlier one and a covered row has the id and   *)
(* the hashes of one that was written (InsertAudit, VerifyAuditChain).     *)
(***************************************************************************)
THEOREM ChainInvHolds == Spec => []ChainInv
  <1>1. ChainInv /\ [Next]_vars => ChainInv'
    <2> SUFFICES ASSUME ChainInv, [Next]_vars PROVE ChainInv'
      OBVIOUS
    <2>1. ASSUME NEW w \in Writers, InsertAudit(w) PROVE ChainInv'
      BY <2>1, BeginTxChain, AdvisoryLockChain, ReadHeadChain, InsertChain,
         CommitChain DEF InsertAudit
    <2>2. ASSUME NEW w \in Writers, Rollback(w) PROVE ChainInv'
      BY <2>2, RollbackChain
    <2>3. CASE Modify
      BY <2>3, ModifyChain
    <2>4. CASE Delete
      BY <2>4, DeleteChain
    <2>5. CASE Reorder
      BY <2>5, ReorderChain
    <2>6. CASE UNCHANGED vars
      BY <2>6 DEF vars, ChainInv, WritersInv, LogInv, TableInv, PendingInv,
                  ChainsTo, IsRow, Origin
    <2> QED
      BY <2>1, <2>2, <2>3, <2>4, <2>5, <2>6 DEF Next
  <1> QED
    BY <1>1, InitChain, PTL DEF Spec

-----------------------------------------------------------------------------
(***************************************************************************)
(* A table that nobody touched.                                            *)
(***************************************************************************)
LEMMA LogDomain ==
    ASSUME LogInv
    PROVE  /\ IsSeq(log) /\ Len(log) \in Nat /\ DOMAIN log = 1..Len(log)
           /\ log = <<>> <=> Len(log) = 0
  <1>1. IsSeq(log) /\ Len(log) \in Nat /\ DOMAIN log = 1..Len(log)
    BY SeqDomain DEF LogInv, IsSeq
  <1>2. log = <<>> <=> Len(log) = 0
    BY EmptySeq DEF LogInv
  <1> QED
    BY <1>1, <1>2

(* The row with the highest number is the last of the log.                 *)
LEMMA HeadIsLast ==
    ASSUME ChainInv, UntouchedInv, tampers = 0, NEW h \in HeadHashes
    PROVE  (IF h = NoHash THEN Genesis ELSE h) = HeadHash
  <1> DEFINE n == Len(log)
  <1>1. n \in Nat /\ DOMAIN log = 1..n /\ (log = <<>> <=> n = 0)
    BY LogDomain DEF ChainInv
  <1>2. table = {OldRow(i) : i \in 1..PreChain} \cup {log[i] : i \in 1..n}
    BY <1>1, OldRowsAre DEF UntouchedInv
  <1> HIDE DEF n
  <1>3. CASE n = 0
    <2>1. \A r \in table : r.hash = NoHash
      BY <1>2, <1>3, OldRowFields
    <2>2. h = NoHash
      BY <2>1 DEF HeadHashes
    <2> QED
      BY <1>1, <1>3, <2>2 DEF HeadHash
  <1>4. CASE n # 0
    <2>1. n \in 1..n /\ log[n] \in table
      BY <1>1, <1>2, <1>4
    <2>2. PICK x \in table : h = x.hash /\ \A y \in table : y.seq <= x.seq
      BY <2>1 DEF HeadHashes
    <2>3. log[n].seq <= x.seq /\ log[n].seq > PreChain
          /\ log[n].seq \in Nat /\ x.seq \in Nat
      BY <1>1, <2>1, <2>2 DEF UntouchedInv, ChainInv, TableInv
    <2>4. \A i \in 1..PreChain : x # OldRow(i)
      <3> SUFFICES ASSUME NEW i \in 1..PreChain, x = OldRow(i) PROVE FALSE
        OBVIOUS
      <3>1. x.seq = i
        BY OldRowFields
      <3> QED
        BY <2>3, <3>1, AuditAssumption
    <2>5. PICK i \in 1..n : x = log[i]
      BY <1>2, <2>4
    <2>6. i = n
      <3> SUFFICES ASSUME i < n PROVE FALSE
        BY <1>1
      <3>1. log[i].seq < log[n].seq
        BY <1>1, <2>1 DEF UntouchedInv
      <3> QED
        BY <2>3, <2>5, <3>1
    <2>7. h = log[n].hash /\ h # NoHash
      <3>1. log[n].hash = auditChainHash(log[n].prev, log[n].event)
        BY <1>1, <2>1 DEF ChainInv, LogInv
      <3> QED
        BY <2>2, <2>5, <2>6, <3>1, HashIsProper
    <2> QED
      BY <1>1, <1>4, <2>7 DEF HeadHash, n
  <1> QED
    BY <1>3, <1>4

LEMMA InitUntouched == Init => UntouchedInv
  BY AuditAssumption DEF Init, UntouchedInv

LEMMA ReadHeadUntouched ==
    ASSUME ChainInv, UntouchedInv, NEW w \in Writers, ReadHead(w)
    PROVE  UntouchedInv'
  <1> SUFFICES ASSUME tampers' = 0 PROVE UntouchedInv'
    BY DEF UntouchedInv
  <1>1. PICK h \in HeadHashes :
            prev' = [prev EXCEPT ![w] = IF h = NoHash THEN Genesis ELSE h]
    BY DEF ReadHead
  <1>2. /\ pc[w] = "read" /\ pc' = [pc EXCEPT ![w] = "insert"]
        /\ UNCHANGED <<table, sequence, lock, event, row, tampers, log>>
    BY DEF ReadHead
  <1>3. prev'[w] = HeadHash
    BY <1>1, <1>2, HeadIsLast DEF ChainInv, WritersInv
  <1>4. \A v \in Writers : v # w => prev'[v] = prev[v] /\ pc'[v] = pc[v]
    BY <1>1, <1>2 DEF ChainInv, WritersInv
  <1>5. pc'[w] = "insert"
    BY <1>2 DEF ChainInv, WritersInv
  <1> HIDE DEF HeadHash
  <1>6. HeadHash' = HeadHash
    BY <1>2 DEF HeadHash
  <1>7. \A v \in Writers :
           /\ pc'[v] = "insert" => prev'[v] = HeadHash'
           /\ pc'[v] = "commit" => row'[v].prev = HeadHash' /\ row'[v].seq > PreChain
    BY <1>2, <1>3, <1>4, <1>5, <1>6 DEF UntouchedInv
  <1> QED
    BY <1>2, <1>7 DEF UntouchedInv, OldRows, NoHash

LEMMA InsertUntouched ==
    ASSUME ChainInv, UntouchedInv, NEW w \in Writers, Insert(w)
    PROVE  UntouchedInv'
  <1> SUFFICES ASSUME tampers' = 0 PROVE UntouchedInv'
    BY DEF UntouchedInv
  <1> DEFINE r == [id |-> w, seq |-> sequence + 1, event |-> event[w],
                   prev |-> prev[w],
                   hash |-> auditChainHash(prev[w], event[w])]
  <1>1. /\ pc[w] = "insert" /\ pc' = [pc EXCEPT ![w] = "commit"]
        /\ sequence' = sequence + 1
        /\ row' = [row EXCEPT ![w] = r]
        /\ UNCHANGED <<table, lock, event, prev, tampers, log>>
    BY DEF Insert
  <1>2. r.seq = sequence + 1 /\ r.prev = prev[w]
    OBVIOUS
  <1> HIDE DEF r
  <1>3. row'[w] = r /\ pc'[w] = "commit"
    BY <1>1 DEF ChainInv, WritersInv
  <1>4. \A v \in Writers : v # w => row'[v] = row[v] /\ pc'[v] = pc[v]
    BY <1>1 DEF ChainInv, WritersInv
  <1>5. prev[w] = HeadHash /\ HeadHash' = HeadHash
    BY <1>1 DEF UntouchedInv, HeadHash
  <1>6. /\ sequence \in Nat /\ sequence >= PreChain /\ PreChain \in Nat
        /\ sequence' >= PreChain /\ r.seq > PreChain
    BY <1>1, <1>2, AuditAssumption DEF ChainInv, WritersInv, UntouchedInv
  <1>7. \A v \in Writers :
           /\ pc'[v] = "insert" => prev'[v] = HeadHash'
           /\ pc'[v] = "commit" => row'[v].prev = HeadHash' /\ row'[v].seq > PreChain
    BY <1>1, <1>2, <1>3, <1>4, <1>5, <1>6 DEF UntouchedInv
  <1> QED
    BY <1>1, <1>6, <1>7 DEF UntouchedInv, OldRows, NoHash

LEMMA CommitUntouched ==
    ASSUME ChainInv, UntouchedInv, NEW w \in Writers, Commit(w)
    PROVE  UntouchedInv'
  <1> SUFFICES ASSUME tampers' = 0 PROVE UntouchedInv'
    BY DEF UntouchedInv
  <1> DEFINE n == Len(log)
             r == row[w]
  <1>0. /\ pc[w] = "commit" /\ pc' = [pc EXCEPT ![w] = "done"]
        /\ table' = table \cup {r}
        /\ log' = Append(log, r)
        /\ UNCHANGED <<sequence, event, prev, row, tampers>>
    BY DEF Commit
  <1>1. /\ IsSeq(log) /\ n \in Nat /\ DOMAIN log = 1..n
        /\ log = <<>> <=> n = 0
    BY LogDomain DEF ChainInv
  <1>2. /\ DOMAIN log' = 1..n + 1
        /\ \A i \in 1..n : log'[i] = log[i]
        /\ log'[n + 1] = r
    BY <1>0, <1>1, Appended
  <1>3. /\ r.prev = HeadHash /\ r.seq > PreChain
        /\ r.seq = sequence /\ \A x \in table : x.seq < sequence
    BY <1>0 DEF ChainInv, PendingInv, UntouchedInv
  <1>4. table = OldRows \cup {log[i] : i \in 1..n}
    BY <1>0, <1>1 DEF UntouchedInv
  <1>5. \A i \in 1..n : log[i].seq > PreChain /\ log[i].seq < r.seq
    BY <1>0, <1>1, <1>3, <1>4 DEF UntouchedInv
  <1>a. \A v \in Writers : pc'[v] \notin {"insert", "commit"}
    <2>1. \A v \in Writers : v # w => pc[v] \notin {"insert", "commit"}
      BY <1>0, ExcludesOthers DEF ChainInv
    <2> QED
      BY <1>0, <2>1 DEF ChainInv, WritersInv
  <1>b. \A k \in 1..n + 1 : k \in 1..n \/ k = n + 1
    BY <1>1
  <1>c. 1..n \subseteq 1..n + 1 /\ n + 1 \in 1..n + 1
    BY <1>1
  <1>d. log # <<>> => HeadHash = log[n].hash
    BY DEF HeadHash
  <1> HIDE DEF r, n
  <1>6. table' = OldRows \cup {log'[i] : i \in 1..n + 1}
    <2>1. {log'[i] : i \in 1..n + 1} = {log[i] : i \in 1..n} \cup {r}
      BY <1>2, <1>b, <1>c
    <2> QED
      BY <1>0, <1>4, <2>1
  <1>7. \A i \in 1..n + 1 : log'[i].seq > PreChain
    BY <1>2, <1>3, <1>5, <1>b
  <1>8. \A i, j \in 1..n + 1 : i < j => log'[i].seq < log'[j].seq
    <2> SUFFICES ASSUME NEW i \in 1..n + 1, NEW j \in 1..n + 1, i < j
                 PROVE  log'[i].seq < log'[j].seq
      OBVIOUS
    <2>1. i \in 1..n /\ log'[i] = log[i]
      BY <1>1, <1>2
    <2>2. CASE j \in 1..n
      BY <1>0, <1>1, <1>2, <2>1, <2>2 DEF UntouchedInv
    <2>3. CASE j = n + 1
      BY <1>2, <1>5, <2>1, <2>3
    <2> QED
      BY <1>b, <2>2, <2>3
  <1>9. \A i \in 1..n + 1 : i > 1 => log'[i].prev = log'[i - 1].hash
    <2> SUFFICES ASSUME NEW i \in 1..n + 1, i > 1
                 PROVE  log'[i].prev = log'[i - 1].hash
      OBVIOUS
    <2>1. i - 1 \in 1..n /\ log'[i - 1] = log[i - 1]
      BY <1>1, <1>2
    <2>2. CASE i \in 1..n
      BY <1>0, <1>1, <1>2, <2>1, <2>2 DEF UntouchedInv
    <2>3. CASE i = n + 1
      <3>1. n # 0 /\ i - 1 = n
        BY <1>1, <2>3
      <3> QED
        BY <1>1, <1>2, <1>3, <1>d, <2>1, <2>3, <3>1
    <2> QED
      BY <1>b, <2>2, <2>3
  <1>10. sequence' >= PreChain
    BY <1>0 DEF UntouchedInv
  <1>11. /\ table' = OldRows' \cup {log'[i] : i \in DOMAIN log'}
         /\ \A i \in DOMAIN log' : log'[i].seq > PreChain
         /\ \A i, j \in DOMAIN log' : i < j => log'[i].seq < log'[j].seq
         /\ \A i \in DOMAIN log' : i > 1 => log'[i].prev = log'[i - 1].hash
    <2> DEFINE D == 1..n + 1
    <2>1. DOMAIN log' = D
      BY <1>2
    <2>2. /\ table' = OldRows \cup {log'[i] : i \in D}
          /\ \A i \in D : log'[i].seq > PreChain
          /\ \A i, j \in D : i < j => log'[i].seq < log'[j].seq
          /\ \A i \in D : i > 1 => log'[i].prev = log'[i - 1].hash
      BY <1>6, <1>7, <1>8, <1>9
    <2>3. OldRows' = OldRows
      BY DEF OldRows, NoHash
    <2> HIDE DEF D
    <2> QED
      BY <2>1, <2>2, <2>3
  <1> QED
    BY <1>10, <1>11, <1>a DEF UntouchedInv

LEMMA UntouchedStep ==
    ASSUME ChainInv, UntouchedInv, [Next]_vars
    PROVE  UntouchedInv'
  <1>1. ASSUME NEW w \in Writers, BeginTx(w) PROVE UntouchedInv'
    BY <1>1 DEF BeginTx, ChainInv, WritersInv, UntouchedInv, OldRows, NoHash,
                HeadHash, Genesis
  <1>2. ASSUME NEW w \in Writers, AdvisoryLock(w) PROVE UntouchedInv'
    BY <1>2 DEF AdvisoryLock, ChainInv, WritersInv, UntouchedInv, OldRows,
                NoHash, HeadHash, Genesis
  <1>3. ASSUME NEW w \in Writers, Rollback(w) PROVE UntouchedInv'
    BY <1>3 DEF Rollback, ChainInv, WritersInv, UntouchedInv, OldRows, NoHash,
                HeadHash, Genesis
  <1>4. ASSUME NEW T, Tamper(T) PROVE UntouchedInv'
    <2>1. tampers' # 0
      BY <1>4 DEF Tamper, ChainInv, WritersInv
    <2> QED
      BY <2>1 DEF UntouchedInv
  <1>5. CASE UNCHANGED vars
    BY <1>5 DEF vars, UntouchedInv, OldRows, NoHash, HeadHash, Genesis
  <1>6. CASE \E w \in Writers : InsertAudit(w) \/ Rollback(w)
    BY <1>1, <1>2, <1>3, <1>6, ReadHeadUntouched, InsertUntouched,
       CommitUntouched DEF InsertAudit
  <1>7. CASE Modify
    BY <1>4, <1>7 DEF Modify
  <1>8. CASE Delete
    BY <1>4, <1>8 DEF Delete
  <1>9. CASE Reorder
    BY <1>4, <1>9 DEF Reorder
  <1> QED
    BY <1>5, <1>6, <1>7, <1>8, <1>9 DEF Next

-----------------------------------------------------------------------------
(***************************************************************************)
(* The replay of a table.  FoldLeft is a recursion over the subsets of the *)
(* positions; what it computes are the results after 0, 1, 2, ... rows.    *)
(***************************************************************************)

(* Every non-empty set of naturals has a least element.                    *)
LEMMA LeastOf ==
    ASSUME NEW T, T \subseteq Nat, T # {}
    PROVE  \E x \in T : \A y \in T : x <= y
  <1> DEFINE R == OpToRel(<, Nat)
  <1>1. IsWellFoundedOn(R, Nat)
    BY NatLessThanWellFounded
  <1>2. PICK x \in T : \A y \in T : ~(<<y, x>> \in R)
    <2> HIDE DEF R
    <2> QED
      BY <1>1, WFMin
  <1>3. ASSUME NEW y \in T PROVE x <= y
    <2>1. <<y, x>> \in Nat \X Nat /\ <<y, x>>[1] = y /\ <<y, x>>[2] = x
      OBVIOUS
    <2>2. ~(y < x)
      BY <1>2, <2>1 DEF OpToRel
    <2> QED
      BY <2>2
  <1> QED
    BY <1>3

(* A set of naturals that has 0 and with k also k + 1 has all of 0..n.     *)
LEMMA AllUpTo ==
    ASSUME NEW n \in Nat, NEW Good, 0 \in Good,
           \A k \in 1..n : k - 1 \in Good => k \in Good
    PROVE  \A k \in 0..n : k \in Good
  <1> DEFINE Bad == {k \in 0..n : k \notin Good}
  <1> SUFFICES ASSUME Bad # {} PROVE FALSE
    OBVIOUS
  <1>0. Bad \subseteq Nat
    OBVIOUS
  <1>1. PICK k \in Bad : \A m \in Bad : k <= m
    <2> HIDE DEF Bad
    <2> QED
      BY <1>0, LeastOf
  <1>2. k \in 1..n
    BY <1>1
  <1>3. k - 1 \in 0..n /\ ~(k <= k - 1)
    BY <1>2
  <1>4. k - 1 \in Good
    BY <1>1, <1>3
  <1> QED
    BY <1>1, <1>2, <1>4

FoldStep(g, s, S) ==
    IF S = {} THEN Start ELSE Replay(g[S \ {Max(S)}], s[Max(S)])

Folded(s, D) == CHOOSE g : g = [S \in SUBSET D |-> FoldStep(g, s, S)]

LEMMA ReplayIsRecursive ==
    ASSUME NEW s
    PROVE  VerifyAuditChain(s) = Folded(s, DOMAIN s)[DOMAIN s]
  BY DEF VerifyAuditChain, FoldLeft, MapThenFoldSet, Folded, FoldStep

LEMMA MaxIs ==
    ASSUME NEW S, S \subseteq Int, NEW m \in S, \A x \in S : x <= m
    PROVE  Max(S) = m
  <1>1. \A x \in S : m >= x
    OBVIOUS
  <1>2. PICK y : y = Max(S)
    OBVIOUS
  <1>3. y \in S /\ \A x \in S : y >= x
    BY <1>1, <1>2 DEF Max
  <1>4. y >= m /\ m >= y
    BY <1>1, <1>3
  <1> QED
    BY <1>2, <1>3, <1>4

HasFold(s, n) == \E g : g = [S \in SUBSET (1..n) |-> FoldStep(g, s, S)]

(* From a recursion over the subsets of 1..k to one of 1..k + 1: the       *)
(* subsets with k + 1 have it as their maximum.                            *)
LEMMA FoldGrows ==
    ASSUME NEW s, NEW k \in Nat, HasFold(s, k)
    PROVE  HasFold(s, k + 1)
  <1>1. PICK g : g = [S \in SUBSET (1..k) |-> FoldStep(g, s, S)]
    BY DEF HasFold
  <1> DEFINE D == SUBSET (1..k + 1)
             E == SUBSET (1..k)
             f == [S \in D |-> IF k + 1 \in S
                               THEN Replay(g[S \ {k + 1}], s[k + 1])
                               ELSE g[S]]
  <1>2. ASSUME NEW S \in D, k + 1 \in S
        PROVE  Max(S) = k + 1 /\ S # {} /\ S \ {k + 1} \in E
               /\ S \ {k + 1} \in D /\ k + 1 \notin S \ {k + 1}
    <2>1. \A x \in S : x \in Int /\ x <= k + 1 /\ (x # k + 1 => x \in 1..k)
      OBVIOUS
    <2>2. Max(S) = k + 1
      BY <1>2, <2>1, MaxIs
    <2> QED
      BY <1>2, <2>1, <2>2
  <1>3. ASSUME NEW S \in D, k + 1 \notin S
        PROVE  S \in E
    <2>1. \A x \in S : x \in 1..k
      BY <1>3
    <2> QED
      BY <2>1
  <1>4. ASSUME NEW S \in E, S # {}
        PROVE  S \ {Max(S)} \in E
    BY <1>4
  <1>5. ASSUME NEW S \in E PROVE S \in D /\ k + 1 \notin S
    OBVIOUS
  <1> HIDE DEF D, E
  <1>6. \A S \in E : g[S] = FoldStep(g, s, S) /\ f[S] = g[S]
    BY <1>1, <1>5 DEF E
  <1>7. ASSUME NEW S \in D PROVE f[S] = FoldStep(f, s, S)
    <2>1. CASE k + 1 \in S
      <3>1. f[S] = Replay(g[S \ {k + 1}], s[k + 1])
        BY <2>1
      <3>2. g[S \ {k + 1}] = f[S \ {k + 1}]
        BY <1>2, <1>6, <2>1
      <3> HIDE DEF f
      <3> QED
        BY <1>2, <2>1, <3>1, <3>2 DEF FoldStep
    <2>2. CASE k + 1 \notin S
      <3>1. f[S] = g[S] /\ g[S] = FoldStep(g, s, S) /\ S \in E
        BY <1>3, <1>6, <2>2
      <3>2. S # {} => g[S \ {Max(S)}] = f[S \ {Max(S)}]
        BY <1>4, <1>6, <3>1
      <3> HIDE DEF f
      <3> QED
        BY <3>1, <3>2 DEF FoldStep
    <2> QED
      BY <2>1, <2>2
  <1>8. f = [S \in D |-> FoldStep(f, s, S)]
    BY <1>7
  <1> HIDE DEF f
  <1> QED
    BY <1>8 DEF HasFold, D

LEMMA FoldExists ==
    ASSUME NEW s, NEW n \in Nat
    PROVE  HasFold(s, n)
  <1> DEFINE Good == {k \in Nat : HasFold(s, k)}
  <1>1. HasFold(s, 0)
    <2> DEFINE g == [S \in SUBSET (1..0) |-> Start]
    <2>1. \A S \in SUBSET (1..0) : S = {}
      OBVIOUS
    <2>2. g = [S \in SUBSET (1..0) |-> FoldStep(g, s, S)]
      BY <2>1 DEF FoldStep
    <2> QED
      BY <2>2 DEF HasFold
  <1>2. ASSUME NEW k \in 1..n, k - 1 \in Good PROVE k \in Good
    <2>1. k - 1 \in Nat /\ (k - 1) + 1 = k
      OBVIOUS
    <2> QED
      BY <1>2, <2>1, FoldGrows
  <1> HIDE DEF Good
  <1>3. 0 \in Good /\ n \in 0..n
    BY <1>1 DEF Good
  <1>4. n \in Good
    BY <1>2, <1>3, AllUpTo
  <1> QED
    BY <1>4 DEF Good

(* The results after the first 0, 1, ..., n rows of s.                     *)
IsReplay(F, s, n) ==
    /\ F[0] = Start
    /\ \A k \in 1..n : F[k] = Replay(F[k - 1], s[k])
    /\ F[n] = VerifyAuditChain(s)

LEMMA ReplayByRow ==
    ASSUME NEW n \in Nat, NEW s, DOMAIN s = 1..n
    PROVE  \E F : IsReplay(F, s, n)
  <1> DEFINE g == Folded(s, 1..n)
             F == [k \in 0..n |-> g[1..k]]
  <1>1. g = [S \in SUBSET (1..n) |-> FoldStep(g, s, S)]
    BY FoldExists DEF HasFold, Folded
  <1>2. VerifyAuditChain(s) = g[1..n]
    BY ReplayIsRecursive
  <1> HIDE DEF g
  <1>3. F[0] = Start
    <2>1. 1..0 = {} /\ {} \in SUBSET (1..n)
      OBVIOUS
    <2>2. g[{}] = Start
      BY <1>1, <2>1 DEF FoldStep
    <2> QED
      BY <2>1, <2>2
  <1>4. ASSUME NEW k \in 1..n PROVE F[k] = Replay(F[k - 1], s[k])
    <2>a. /\ k \in 1..k /\ k \in 0..n /\ k - 1 \in 0..n
          /\ \A x \in 1..k : x \in 1..n /\ x \in Int /\ x <= k
          /\ \A x \in 1..k : x # k => x \in 1..k - 1
          /\ \A x \in 1..k - 1 : x \in 1..k /\ x # k
      OBVIOUS
    <2>1. /\ 1..k \in SUBSET (1..n) /\ 1..k # {} /\ 1..k \subseteq Int
          /\ (1..k) \ {k} = 1..k - 1
          /\ k \in 0..n /\ k - 1 \in 0..n
      BY <2>a
    <2>2. Max(1..k) = k
      <3> DEFINE S == 1..k
      <3>1. S \subseteq Int /\ k \in S /\ \A x \in S : x <= k
        BY <2>a
      <3> HIDE DEF S
      <3>2. Max(S) = k
        BY <3>1, MaxIs
      <3> QED
        BY <3>2 DEF S
    <2>3. g[1..k] = FoldStep(g, s, 1..k)
      BY <1>1, <2>1
    <2>4. g[1..k] = Replay(g[1..k - 1], s[k])
      BY <2>1, <2>2, <2>3 DEF FoldStep
    <2> QED
      BY <2>1, <2>4
  <1>5. F[n] = VerifyAuditChain(s)
    BY <1>2
  <1> HIDE DEF F
  <1> QED
    BY <1>3, <1>4, <1>5 DEF IsReplay

-----------------------------------------------------------------------------
(***************************************************************************)
(* The rows in the order of their numbers.  Numbers are distinct, so there *)
(* is one order only.                                                      *)
(***************************************************************************)
Enumerates(s, n) ==
    /\ DOMAIN s = 1..n
    /\ \A k \in 1..n : s[k] \in table
    /\ \A r \in table : \E k \in 1..n : s[k] = r
    /\ \A i, j \in 1..n : i < j => s[i].seq < s[j].seq

LEMMA NumbersAreInts ==
    ASSUME TableInv
    PROVE  \A r \in table : r.seq \in Int /\ r.seq >= 1
  <1>1. \A r \in table : r.seq \in 1..sequence
    BY DEF TableInv
  <1> QED
    BY <1>1

LEMMA OrderedRows ==
    ASSUME TableInv, sequence \in Nat, NEW s \in OrderBySeq(table)
    PROVE  Cardinality(table) \in Nat /\ Enumerates(s, Cardinality(table))
  <1> DEFINE n == Cardinality(table)
  <1>1. IsFiniteSet(table) /\ n \in Nat
    BY FS_CardinalityType DEF TableInv
  <1>2. /\ s \in [1..n -> table]
        /\ \A i, j \in 1..n : i # j => s[i] # s[j]
        /\ \A i, j \in 1..n : i < j => s[i].seq <= s[j].seq
    BY DEF OrderBySeq, SetToSeqs
  <1> HIDE DEF n
  <1>3. s \in Injection(1..n, table)
    BY <1>2 DEF Injection, IsInjective
  <1>4. Cardinality(1..n) = n /\ IsFiniteSet(1..n)
    BY <1>1, FS_Interval
  <1>5. s \in Surjection(1..n, table)
    BY <1>1, <1>3, <1>4, FS_Injection DEF n
  <1>6. \A r \in table : \E k \in 1..n : s[k] = r
    BY <1>5 DEF Surjection
  <1>7. ASSUME NEW i \in 1..n, NEW j \in 1..n, i < j
        PROVE  s[i].seq < s[j].seq
    <2>1. s[i] \in table /\ s[j] \in table /\ s[i] # s[j] /\ s[i].seq <= s[j].seq
      BY <1>1, <1>2, <1>7
    <2>2. s[i].seq \in Int /\ s[j].seq \in Int /\ s[i].seq # s[j].seq
      BY <2>1 DEF TableInv
    <2> QED
      BY <2>1, <2>2
  <1>8. Enumerates(s, n)
    BY <1>2, <1>6, <1>7 DEF Enumerates
  <1> QED
    BY <1>1, <1>8 DEF n

(* Two enumerations of the table agree: at the first place where they did  *)
(* not, each would have to have the other's row later.                     *)
LEMMA OneOrder ==
    ASSUME TableInv, NEW n \in Nat, NEW s, NEW t, Enumerates(s, n), Enumerates(t, n)
    PROVE  \A k \in 1..n : s[k] = t[k]
  <1> DEFINE Bad == {k \in 1..n : s[k] # t[k]}
  <1> SUFFICES ASSUME Bad # {} PROVE FALSE
    OBVIOUS
  <1>0. Bad \subseteq Nat
    OBVIOUS
  <1>1. PICK k \in Bad : \A m \in Bad : k <= m
    <2> HIDE DEF Bad
    <2> QED
      BY <1>0, LeastOf
  <1>2. k \in 1..n /\ s[k] # t[k] /\ \A m \in 1..n : m < k => s[m] = t[m]
    BY <1>1
  <1>3. PICK j \in 1..n : t[j] = s[k]
    BY <1>2 DEF Enumerates
  <1>4. PICK i \in 1..n : s[i] = t[k]
    BY <1>2 DEF Enumerates
  <1>5. \A a \in 1..n : s[a].seq \in Int /\ t[a].seq \in Int
    <2>1. \A a \in 1..n : s[a] \in table /\ t[a] \in table
      BY DEF Enumerates
    <2> QED
      BY <2>1, NumbersAreInts
  <1>6. \A a, b \in 1..n :
           a < b => s[a].seq < s[b].seq /\ t[a].seq < t[b].seq
    BY DEF Enumerates
  <1>7. j > k
    <2>1. j # k
      BY <1>2, <1>3
    <2>2. ~(j < k)
      <3> SUFFICES ASSUME j < k PROVE FALSE
        OBVIOUS
      <3>1. s[j] = s[k]
        BY <1>2, <1>3
      <3>2. s[j].seq < s[k].seq /\ s[j].seq \in Int /\ s[k].seq \in Int
        BY <1>2, <1>5, <1>6
      <3> QED
        BY <3>1, <3>2
    <2> QED
      BY <2>1, <2>2
  <1>8. i > k
    <2>1. i # k
      BY <1>2, <1>4
    <2>2. ~(i < k)
      <3> SUFFICES ASSUME i < k PROVE FALSE
        OBVIOUS
      <3>1. t[i] = t[k]
        BY <1>2, <1>4
      <3>2. t[i].seq < t[k].seq /\ t[i].seq \in Int /\ t[k].seq \in Int
        BY <1>2, <1>5, <1>6
      <3> QED
        BY <3>1, <3>2
    <2> QED
      BY <2>1, <2>2
  <1>9. t[k].seq < t[j].seq /\ s[k].seq < s[i].seq
    BY <1>2, <1>6, <1>7, <1>8
  <1>10. t[k].seq < s[k].seq /\ s[k].seq < t[k].seq
    BY <1>3, <1>4, <1>9
  <1> QED
    BY <1>2, <1>5, <1>10

(* The table that nobody touched: the old rows, then the log.              *)
Written(k) == IF k <= PreChain THEN OldRow(k) ELSE log[k - PreChain]

LEMMA UntouchedRows ==
    ASSUME ChainInv, UntouchedInv, tampers = 0, NEW t,
           t = [k \in 1..PreChain + Len(log) |-> Written(k)]
    PROVE  /\ Enumerates(t, PreChain + Len(log))
           /\ Cardinality(table) = PreChain + Len(log)
           /\ Cardinality(Covered) = Len(log)
  <1> DEFINE p == PreChain
             L == Len(log)
             n == PreChain + Len(log)
  <1>1. p \in Nat /\ L \in Nat /\ DOMAIN log = 1..L /\ n = p + L
    BY AuditAssumption, LogDomain DEF ChainInv
  <1>2. table = {OldRow(i) : i \in 1..p} \cup {log[i] : i \in 1..L}
    BY <1>1, OldRowsAre DEF UntouchedInv
  <1>3. /\ \A i \in 1..L : log[i].seq > p /\ log[i].seq \in Int
        /\ \A i, j \in 1..L : i < j => log[i].seq < log[j].seq
    <2>1. \A i \in 1..L : log[i] \in table
      BY <1>2
    <2>2. \A i \in 1..L : log[i].seq \in Int
      BY <2>1, NumbersAreInts DEF ChainInv
    <2>3. /\ \A i \in DOMAIN log : log[i].seq > PreChain
          /\ \A i, j \in DOMAIN log : i < j => log[i].seq < log[j].seq
      BY DEF UntouchedInv
    <2> QED
      BY <1>1, <2>2, <2>3
  <1> HIDE DEF p, L, n
  <1>4. /\ \A k \in 1..p : k \in 1..n /\ t[k] = OldRow(k)
        /\ \A i \in 1..L : p + i \in 1..n /\ t[p + i] = log[i]
        /\ \A k \in 1..n : k \in 1..p \/ \E i \in 1..L : k = p + i
    <2>1. \A k \in 1..p : k \in 1..n /\ k <= p
      BY <1>1
    <2>2. \A i \in 1..L : p + i \in 1..n /\ ~(p + i <= p) /\ (p + i) - p = i
      BY <1>1
    <2>3. \A k \in 1..n : k \in 1..p \/ (k - p \in 1..L /\ k = p + (k - p))
      BY <1>1
    <2>4. \A k \in 1..n : t[k] = IF k <= p THEN OldRow(k) ELSE log[k - p]
      BY DEF n, p, Written
    <2>5. \A k \in 1..p : t[k] = OldRow(k)
      BY <2>1, <2>4
    <2>6. \A i \in 1..L : t[p + i] = log[i]
      <3> SUFFICES ASSUME NEW i \in 1..L PROVE t[p + i] = log[i]
        OBVIOUS
      <3>1. p + i \in 1..n /\ ~(p + i <= p) /\ (p + i) - p = i
        BY <2>2
      <3>2. t[p + i] = log[(p + i) - p]
        BY <2>4, <3>1
      <3> QED
        BY <3>1, <3>2
    <2> QED
      BY <2>1, <2>2, <2>3, <2>5, <2>6
  <1>5. \A i, j \in 1..n : i < j => t[i].seq < t[j].seq
    <2> SUFFICES ASSUME NEW i \in 1..n, NEW j \in 1..n, i < j
                 PROVE  t[i].seq < t[j].seq
      OBVIOUS
    <2>1. CASE i \in 1..p /\ j \in 1..p
      <3>1. t[i].seq = i /\ t[j].seq = j
        BY <1>4, <2>1, OldRowFields
      <3> QED
        BY <3>1
    <2>2. CASE i \in 1..p /\ j \notin 1..p
      <3>1. PICK b \in 1..L : j = p + b
        BY <1>4, <2>2
      <3>a. t[i] = OldRow(i) /\ t[j] = log[b]
        BY <1>4, <2>2, <3>1
      <3>2. t[i].seq = i /\ t[j].seq > p /\ t[j].seq \in Int
        BY <1>3, <3>a, OldRowFields
      <3> QED
        BY <1>1, <2>2, <3>2
    <2>3. CASE i \notin 1..p
      <3>1. PICK a \in 1..L : i = p + a
        BY <1>4, <2>3
      <3>2. j \notin 1..p
        BY <1>1, <3>1
      <3>3. PICK b \in 1..L : j = p + b
        BY <1>4, <3>2
      <3>4. a < b
        BY <1>1, <3>1, <3>3
      <3> QED
        BY <1>3, <1>4, <3>1, <3>3, <3>4
    <2> QED
      BY <2>1, <2>2, <2>3
  <1>6. DOMAIN t = 1..n
    BY DEF n
  <1>7. \A k \in 1..n : t[k] \in table
    <2> SUFFICES ASSUME NEW k \in 1..n PROVE t[k] \in table
      OBVIOUS
    <2>1. /\ \A i \in 1..p : OldRow(i) \in table
          /\ \A i \in 1..L : log[i] \in table
      BY <1>2
    <2>2. CASE k \in 1..p
      <3>1. t[k] = OldRow(k)
        BY <1>4, <2>2
      <3> QED
        BY <2>1, <2>2, <3>1
    <2>3. ASSUME NEW i \in 1..L, k = p + i PROVE t[k] \in table
      <3>1. t[p + i] = log[i]
        BY <1>4
      <3> QED
        BY <2>1, <2>3, <3>1
    <2> QED
      BY <1>4, <2>2, <2>3
  <1>8. \A r \in table : \E k \in 1..n : t[k] = r
    BY <1>2, <1>4
  <1>9. Enumerates(t, n)
    BY <1>5, <1>6, <1>7, <1>8 DEF Enumerates
  <1>10. Cardinality(table) = n
    <2>1. t \in [1..n -> table]
      BY <1>7 DEF n
    <2>2. ASSUME NEW i \in 1..n, NEW j \in 1..n, t[i] = t[j] PROVE i = j
      <3>1. t[i].seq \in Int
        BY <1>7, NumbersAreInts DEF ChainInv
      <3>a. (i < j => t[i].seq < t[j].seq) /\ (j < i => t[j].seq < t[i].seq)
        BY <1>5
      <3>2. ~(i < j) /\ ~(j < i)
        BY <2>2, <3>1, <3>a
      <3> QED
        BY <1>1, <3>2
    <2>3. t \in Bijection(1..n, table)
      <3>1. t \in Injection(1..n, table)
        BY <2>1, <2>2 DEF Injection, IsInjective
      <3>2. t \in Surjection(1..n, table)
        BY <1>8, <2>1 DEF Surjection
      <3> QED
        BY <3>1, <3>2 DEF Bijection
    <2>4. n \in Nat
      BY <1>1
    <2> QED
      BY <2>3, <2>4, FS_CountingElements DEF ExistsBijection
  <1>11. Cardinality(Covered) = L
    <2> DEFINE f == [i \in 1..L |-> log[i]]
    <2>1. \A i \in 1..L : log[i].hash # NoHash
      BY <1>1, HashIsProper DEF ChainInv, LogInv
    <2>2. \A i \in 1..p : OldRow(i).hash = NoHash
      BY OldRowFields
    <2>3. Covered = {log[i] : i \in 1..L}
      BY <1>2, <2>1, <2>2 DEF Covered
    <2>4. ASSUME NEW i \in 1..L, NEW j \in 1..L, log[i] = log[j] PROVE i = j
      <3>1. log[i].seq \in Int
        BY <1>3
      <3>2. ~(i < j) /\ ~(j < i)
        BY <1>3, <2>4, <3>1
      <3> QED
        BY <1>1, <3>2
    <2>5. f \in Bijection(1..L, Covered)
      BY <2>3, <2>4 DEF Bijection, Injection, Surjection, IsInjective
    <2> HIDE DEF f
    <2> QED
      BY <1>1, <2>5, FS_CountingElements DEF ExistsBijection
  <1> QED
    BY <1>9, <1>10, <1>11 DEF n, L

(***************************************************************************)
(* One row of the replay: a row without a hash is passed over, and a row   *)
(* whose hash is right and that chains to the row before is counted.       *)
(***************************************************************************)
LEMMA ReplaySkips ==
    ASSUME NEW acc, NEW r, r.hash = NoHash
    PROVE  Replay(acc, r) = acc
  BY DEF Replay

(* What the replay knows: four fields.                                     *)
IsAcc(a) ==
    a = [ok |-> a.ok, first |-> a.first, running |-> a.running,
         checked |-> a.checked]

(* No covered row so far; c covered rows, the last with hash x.            *)
Fresh(a) == IsAcc(a) /\ a.ok /\ a.first /\ a.checked = 0
Seen(a, x, c) ==
    IsAcc(a) /\ a.ok /\ ~a.first /\ a.running = x /\ a.checked = c

LEMMA StartIsFresh == Fresh(Start)
  <1>1. IsAcc(Start)
    BY DEF IsAcc, Start
  <1>2. Start.ok /\ Start.first /\ Start.checked = 0
    BY DEF Start
  <1> QED
    BY <1>1, <1>2 DEF Fresh

LEMMA Counts ==
    ASSUME NEW a, IsAcc(a), a.ok, NEW y, NEW z, NEW q,
           q = [a EXCEPT !.first = FALSE, !.running = y, !.checked = z]
    PROVE  Seen(q, y, z)
  <1>1. IsAcc(q)
    BY DEF IsAcc
  <1>2. q.ok = a.ok /\ q.first = FALSE /\ q.running = y /\ q.checked = z
    BY DEF IsAcc
  <1> QED
    BY <1>1, <1>2 DEF Seen

LEMMA Fails ==
    ASSUME NEW a, IsAcc(a), NEW q, q = [a EXCEPT !.ok = FALSE]
    PROVE  IsAcc(q) /\ ~q.ok
  <1>1. IsAcc(q)
    BY DEF IsAcc
  <1>2. ~q.ok
    BY DEF IsAcc
  <1> QED
    BY <1>1, <1>2

LEMMA ReplayCounts ==
    ASSUME NEW a, IsAcc(a), a.ok, NEW r, r.hash # NoHash,
           r.hash = auditChainHash(r.prev, r.event), a.first \/ a.running = r.prev
    PROVE  Seen(Replay(a, r), r.hash, a.checked + 1)
  <1> DEFINE run == IF a.first THEN r.prev ELSE a.running
  <1>1. run = r.prev
    OBVIOUS
  <1>2. Replay(a, r) = [a EXCEPT !.first = FALSE, !.running = r.hash,
                                 !.checked = a.checked + 1]
    BY <1>1 DEF Replay
  <1> QED
    BY <1>2, Counts

LEMMA UntouchedVerifies ==
    ASSUME ChainInv, UntouchedInv
    PROVE  UntamperedVerifies
  <1> SUFFICES ASSUME tampers = 0, NEW s \in OrderBySeq(table)
               PROVE  /\ VerifyAuditChain(s).ok
                      /\ VerifyAuditChain(s).checked = Cardinality(Covered)
    BY DEF UntamperedVerifies, Verdicts
  <1> DEFINE p == PreChain
             L == Len(log)
             n == PreChain + Len(log)
             t == [k \in 1..PreChain + Len(log) |-> Written(k)]
             After(a, k) == IF k <= p THEN Fresh(a)
                            ELSE Seen(a, log[k - p].hash, k - p)
  <1>1. p \in Nat /\ L \in Nat /\ DOMAIN log = 1..L /\ n = p + L /\ n \in Nat
    BY AuditAssumption, LogDomain DEF ChainInv
  <1>2. /\ Enumerates(t, n)
        /\ Cardinality(table) = n /\ Cardinality(Covered) = L
    BY UntouchedRows
  <1>3. Enumerates(s, n)
    BY <1>2, OrderedRows DEF ChainInv, WritersInv
  <1>4. \A k \in 1..n : s[k] = Written(k)
    <2>1. \A k \in 1..n : t[k] = Written(k)
      OBVIOUS
    <2> HIDE DEF t, n
    <2> QED
      BY <1>1, <1>2, <1>3, <2>1, OneOrder DEF ChainInv
  <1> HIDE DEF t, n, p, L
  <1>5. PICK F : IsReplay(F, s, n)
    <2>1. DOMAIN s = 1..n
      BY <1>3 DEF Enumerates
    <2> QED
      BY <1>1, <2>1, ReplayByRow
  <1>6. /\ \A i \in 1..L : /\ log[i].hash = auditChainHash(log[i].prev, log[i].event)
                           /\ log[i].hash # NoHash
        /\ \A i \in 1..L : i > 1 => log[i].prev = log[i - 1].hash
    <2>1. \A i \in 1..L : log[i].hash = auditChainHash(log[i].prev, log[i].event)
      BY <1>1 DEF ChainInv, LogInv
    <2>2. \A i \in 1..L : log[i].hash # NoHash
      BY <2>1, HashIsProper
    <2>3. \A i \in 1..L : i > 1 => log[i].prev = log[i - 1].hash
      BY <1>1 DEF UntouchedInv
    <2> QED
      BY <2>1, <2>2, <2>3
  <1>7. After(F[0], 0)
    <2>1. 0 <= p /\ F[0] = Start
      BY <1>1, <1>5 DEF IsReplay
    <2> QED
      BY <2>1, StartIsFresh
  <1>8. ASSUME NEW k \in 1..n, After(F[k - 1], k - 1)
        PROVE  After(F[k], k)
    <2>1. F[k] = Replay(F[k - 1], Written(k))
      BY <1>4, <1>5 DEF IsReplay
    <2>2. CASE k <= p
      <3>1. k - 1 <= p /\ Written(k) = OldRow(k)
        BY <1>1, <2>2 DEF Written, p
      <3>2. F[k] = F[k - 1]
        BY <2>1, <3>1, ReplaySkips, OldRowFields
      <3> QED
        BY <1>8, <2>2, <3>1, <3>2
    <2>3. CASE ~(k <= p)
      <3> DEFINE i == k - p
      <3>1. i \in 1..L /\ Written(k) = log[i]
        BY <1>1, <2>3 DEF Written, p
      <3>2. log[i].hash = auditChainHash(log[i].prev, log[i].event)
            /\ log[i].hash # NoHash
        BY <1>6, <3>1
      <3>3. /\ IsAcc(F[k - 1]) /\ F[k - 1].ok
            /\ F[k - 1].first \/ F[k - 1].running = log[i].prev
            /\ F[k - 1].checked + 1 = i
        <4>1. CASE i = 1
          <5>1. k - 1 <= p /\ 0 + 1 = i
            BY <1>1, <4>1
          <5>2. Fresh(F[k - 1])
            BY <1>8, <5>1
          <5> QED
            BY <5>1, <5>2 DEF Fresh
        <4>2. CASE i # 1
          <5>1. /\ ~(k - 1 <= p) /\ (k - 1) - p = i - 1 /\ i > 1
                /\ (i - 1) + 1 = i
            BY <1>1, <3>1, <4>2
          <5>2. Seen(F[k - 1], log[i - 1].hash, i - 1)
            BY <1>8, <5>1
          <5>3. log[i].prev = log[i - 1].hash
            BY <1>6, <3>1, <5>1
          <5> QED
            BY <5>1, <5>2, <5>3 DEF Seen
        <4> QED
          BY <4>1, <4>2
      <3>4. Seen(F[k], log[i].hash, F[k - 1].checked + 1)
        <4> HIDE DEF i
        <4> QED
          BY <2>1, <3>1, <3>2, <3>3, ReplayCounts
      <3> QED
        BY <2>3, <3>3, <3>4
    <2> QED
      BY <2>2, <2>3
  <1>9. After(F[n], n)
    <2> DEFINE Good == {k \in Nat : After(F[k], k)}
    <2> HIDE DEF After
    <2>1. 0 \in Good
      BY <1>7
    <2>2. \A k \in 1..n : k - 1 \in Good => k \in Good
      BY <1>8
    <2> HIDE DEF Good
    <2>3. n \in 0..n /\ n \in Good
      BY <1>1, <2>1, <2>2, AllUpTo
    <2> QED
      BY <2>3 DEF Good
  <1>10. F[n].ok /\ F[n].checked = L
    <2>1. CASE n <= p
      <3>1. L = 0
        BY <1>1, <2>1
      <3> QED
        BY <1>9, <2>1, <3>1 DEF Fresh
    <2>2. CASE ~(n <= p)
      <3>1. n - p = L
        BY <1>1
      <3> QED
        BY <1>9, <2>2, <3>1 DEF Seen
    <2> QED
      BY <2>1, <2>2
  <1> QED
    BY <1>2, <1>5, <1>10 DEF IsReplay

(***************************************************************************)
(* VerifyAuditChain raises no false alarm: a table that only InsertAudit   *)
(* wrote verifies to the last covered row, for any number of writers,      *)
(* failures and rollbacks.                                                 *)
(***************************************************************************)
THEOREM NoFalseAlarm == Spec => []UntamperedVerifies
  <1>1. Spec => []UntouchedInv
    <2>1. ChainInv /\ UntouchedInv /\ [Next]_vars => UntouchedInv'
      BY UntouchedStep
    <2> QED
      BY <2>1, ChainInvHolds, InitUntouched, PTL DEF Spec
  <1>2. ChainInv /\ UntouchedInv => UntamperedVerifies
    BY UntouchedVerifies
  <1> QED
    BY <1>1, <1>2, ChainInvHolds, PTL

-----------------------------------------------------------------------------
(***************************************************************************)
(* What a table is that verifies, whoever wrote it: every covered row has  *)
(* the hash of its contents, and chains to the covered row before it if    *)
(* there is one.                                                           *)
(***************************************************************************)
LastBefore(s, l, k) ==
    l \in 1..k - 1 /\ s[l].hash # NoHash
    /\ \A m \in l + 1..k - 1 : s[m].hash = NoHash

Verified(s, n) ==
    \A k \in 1..n :
        s[k].hash # NoHash =>
            /\ s[k].hash = auditChainHash(s[k].prev, s[k].event)
            /\ \/ \A l \in 1..k - 1 : s[l].hash = NoHash
               \/ \E l \in 1..n : LastBefore(s, l, k) /\ s[k].prev = s[l].hash

LEMMA ReplayType ==
    ASSUME NEW a, IsAcc(a), NEW r
    PROVE  IsAcc(Replay(a, r)) /\ (~a.ok => ~Replay(a, r).ok)
  <1>1. CASE ~a.ok \/ r.hash = NoHash
    BY <1>1 DEF Replay
  <1>2. CASE a.ok /\ r.hash # NoHash
    <2> DEFINE run == IF a.first THEN r.prev ELSE a.running
    <2>1. CASE r.prev # run \/ auditChainHash(run, r.event) # r.hash
      <3>1. Replay(a, r) = [a EXCEPT !.ok = FALSE]
        BY <1>2, <2>1 DEF Replay
      <3> QED
        BY <3>1, Fails
    <2>2. CASE ~(r.prev # run \/ auditChainHash(run, r.event) # r.hash)
      <3>1. Replay(a, r) = [a EXCEPT !.first = FALSE, !.running = r.hash,
                                     !.checked = a.checked + 1]
        BY <1>2, <2>2 DEF Replay
      <3>2. Seen(Replay(a, r), r.hash, a.checked + 1)
        BY <1>2, <3>1, Counts
      <3> QED
        BY <1>2, <3>2 DEF Seen
    <2> QED
      BY <2>1, <2>2
  <1> QED
    BY <1>1, <1>2

LEMMA ReplayAccepts ==
    ASSUME NEW a, IsAcc(a), a.ok, NEW r, r.hash # NoHash, Replay(a, r).ok
    PROVE  /\ r.hash = auditChainHash(r.prev, r.event)
           /\ a.first \/ a.running = r.prev
           /\ ~Replay(a, r).first /\ Replay(a, r).running = r.hash
  <1> DEFINE run == IF a.first THEN r.prev ELSE a.running
  <1>1. ~(r.prev # run \/ auditChainHash(run, r.event) # r.hash)
    <2> SUFFICES ASSUME r.prev # run \/ auditChainHash(run, r.event) # r.hash
                 PROVE  FALSE
      OBVIOUS
    <2>1. Replay(a, r) = [a EXCEPT !.ok = FALSE]
      BY DEF Replay
    <2> QED
      BY <2>1, Fails
  <1>2. r.prev = run /\ r.hash = auditChainHash(r.prev, r.event)
    BY <1>1
  <1>3. a.first \/ a.running = r.prev
    BY <1>2
  <1>4. Seen(Replay(a, r), r.hash, a.checked + 1)
    BY <1>2, <1>3, ReplayCounts
  <1> QED
    BY <1>2, <1>3, <1>4 DEF Seen

LEMMA VerifiedRows ==
    ASSUME NEW n \in Nat, NEW s, DOMAIN s = 1..n, VerifyAuditChain(s).ok
    PROVE  Verified(s, n)
  <1>1. PICK F : IsReplay(F, s, n)
    BY ReplayByRow
  <1>2. /\ F[0] = Start /\ F[n].ok
        /\ \A k \in 1..n : F[k] = Replay(F[k - 1], s[k])
    BY <1>1 DEF IsReplay
  <1>3. \A k \in 0..n : IsAcc(F[k])
    <2> DEFINE Good == {k \in Nat : IsAcc(F[k])}
    <2>1. 0 \in Good
      BY <1>2, StartIsFresh DEF Fresh
    <2>2. \A k \in 1..n : k - 1 \in Good => k \in Good
      BY <1>2, ReplayType
    <2> HIDE DEF Good
    <2>3. \A k \in 0..n : k \in Good
      BY <2>1, <2>2, AllUpTo
    <2> QED
      BY <2>3 DEF Good
  <1>4. \A k \in 0..n : F[k].ok
    <2> DEFINE Good == {j \in Nat : F[n - j].ok}
    <2>1. 0 \in Good
      BY <1>2
    <2>2. ASSUME NEW j \in 1..n, j - 1 \in Good PROVE j \in Good
      <3>1. /\ n - j \in 0..n /\ (n - j) + 1 \in 1..n
            /\ n - (j - 1) = (n - j) + 1 /\ ((n - j) + 1) - 1 = n - j
        OBVIOUS
      <3>2. F[(n - j) + 1].ok
        BY <2>2, <3>1
      <3>3. F[(n - j) + 1] = Replay(F[n - j], s[(n - j) + 1])
        BY <1>2, <3>1
      <3>4. F[n - j].ok
        BY <1>3, <3>1, <3>2, <3>3, ReplayType
      <3> QED
        BY <3>4
    <2> HIDE DEF Good
    <2>3. \A j \in 0..n : j \in Good
      BY <2>1, <2>2, AllUpTo
    <2>4. ASSUME NEW k \in 0..n PROVE F[k].ok
      <3>1. n - k \in 0..n /\ n - (n - k) = k
        OBVIOUS
      <3> QED
        BY <2>3, <3>1 DEF Good
    <2> QED
      BY <2>4
  <1>5. ASSUME NEW k \in 1..n, s[k].hash # NoHash
        PROVE  /\ s[k].hash = auditChainHash(s[k].prev, s[k].event)
               /\ F[k - 1].first \/ F[k - 1].running = s[k].prev
               /\ ~F[k].first /\ F[k].running = s[k].hash
    <2>1. k - 1 \in 0..n /\ k \in 0..n
      OBVIOUS
    <2>2. /\ IsAcc(F[k - 1]) /\ F[k - 1].ok /\ F[k].ok
          /\ F[k] = Replay(F[k - 1], s[k])
      BY <1>2, <1>3, <1>4, <2>1
    <2> QED
      BY <1>5, <2>2, ReplayAccepts
  <1> DEFINE Knows(k) ==
               \/ F[k].first /\ \A l \in 1..k : s[l].hash = NoHash
               \/ /\ ~F[k].first
                  /\ \E l \in 1..k : /\ s[l].hash # NoHash
                                     /\ F[k].running = s[l].hash
                                     /\ \A m \in l + 1..k : s[m].hash = NoHash
  <1>6. \A k \in 0..n : Knows(k)
    <2>1. Knows(0)
      BY <1>2, StartIsFresh DEF Fresh
    <2>2. ASSUME NEW k \in 1..n, Knows(k - 1) PROVE Knows(k)
      <3>a. /\ \A l \in 1..k : l = k \/ l \in 1..k - 1
            /\ \A l \in 1..k - 1 : l \in 1..k
            /\ k \in 1..k
        OBVIOUS
      <3>1. CASE s[k].hash # NoHash
        <4>1. k + 1..k = {}
          OBVIOUS
        <4>2. ~F[k].first /\ F[k].running = s[k].hash
          BY <1>5, <3>1
        <4> QED
          BY <3>1, <3>a, <4>1, <4>2
      <3>2. CASE s[k].hash = NoHash
        <4>1. F[k] = F[k - 1]
          BY <1>2, <3>2, ReplaySkips
        <4>2. CASE F[k - 1].first /\ \A l \in 1..k - 1 : s[l].hash = NoHash
          BY <3>2, <3>a, <4>1, <4>2
        <4>3. ASSUME ~F[k - 1].first, NEW l \in 1..k - 1, s[l].hash # NoHash,
                     F[k - 1].running = s[l].hash,
                     \A m \in l + 1..k - 1 : s[m].hash = NoHash
              PROVE  Knows(k)
          <5>1. \A m \in l + 1..k : m = k \/ m \in l + 1..k - 1
            OBVIOUS
          <5>2. \A m \in l + 1..k : s[m].hash = NoHash
            BY <3>2, <4>3, <5>1
          <5> QED
            BY <3>a, <4>1, <4>3, <5>2
        <4> QED
          BY <2>2, <4>2, <4>3
      <3> QED
        BY <3>1, <3>2
    <2> DEFINE Good == {k \in Nat : Knows(k)}
    <2> HIDE DEF Knows
    <2>3. 0 \in Good /\ \A k \in 1..n : k - 1 \in Good => k \in Good
      BY <2>1, <2>2
    <2> HIDE DEF Good
    <2>4. \A k \in 0..n : k \in Good
      BY <2>3, AllUpTo
    <2> QED
      BY <2>4 DEF Good
  <1>7. ASSUME NEW k \in 1..n, s[k].hash # NoHash
        PROVE  \/ \A l \in 1..k - 1 : s[l].hash = NoHash
               \/ \E l \in 1..n : LastBefore(s, l, k) /\ s[k].prev = s[l].hash
    <2>1. k - 1 \in 0..n /\ \A l \in 1..k - 1 : l \in 1..n
      OBVIOUS
    <2>2. Knows(k - 1)
      BY <1>6, <2>1
    <2>3. CASE F[k - 1].first
      BY <2>2, <2>3
    <2>4. CASE ~F[k - 1].first
      <3>1. PICK l \in 1..k - 1 : /\ s[l].hash # NoHash
                                  /\ F[k - 1].running = s[l].hash
                                  /\ \A m \in l + 1..k - 1 : s[m].hash = NoHash
        BY <2>2, <2>4
      <3>2. s[k].prev = s[l].hash
        BY <1>5, <1>7, <2>4, <3>1
      <3>3. LastBefore(s, l, k)
        BY <3>1 DEF LastBefore
      <3> QED
        BY <2>1, <3>2, <3>3
    <2> QED
      BY <2>3, <2>4
  <1> QED
    BY <1>5, <1>7 DEF Verified

-----------------------------------------------------------------------------
(***************************************************************************)
(* Where the rows of a table that verifies come from.                      *)
(***************************************************************************)
LEMMA RowsAreUnmodified ==
    ASSUME LogInv, NEW r, NEW i \in DOMAIN log, Origin(r, i),
           r.hash = auditChainHash(r.prev, r.event)
    PROVE  r.event = log[i].event
  <1>1. log[i].hash = auditChainHash(log[i].prev, log[i].event)
    BY DEF LogInv
  <1>2. auditChainHash(r.prev, r.event) = auditChainHash(log[i].prev, log[i].event)
    BY <1>1 DEF Origin
  <1> QED
    BY <1>2, HashInjective

(* A row that chains to another was written after it: the hash it chains   *)
(* to is that of an earlier row, and without twins there is only one.      *)
LEMMA ChainedIsLater ==
    ASSUME LogInv, NoTwins, NEW i \in DOMAIN log, NEW j \in DOMAIN log,
           log[j].prev = log[i].hash
    PROVE  i < j
  <1>1. log[i].hash # Genesis
    <2>1. log[i].hash = auditChainHash(log[i].prev, log[i].event)
      BY DEF LogInv
    <2> QED
      BY <2>1, HashIsProper
  <1>2. DOMAIN log = 1..Len(log) /\ Len(log) \in Nat
    BY LogDomain
  <1>3. ChainsTo(log[j].prev, j - 1)
    BY DEF LogInv
  <1>4. PICK m \in 1..j - 1 : log[j].prev = log[m].hash
    BY <1>1, <1>3 DEF ChainsTo
  <1>5. m \in DOMAIN log /\ m < j
    BY <1>2
  <1>6. m = i
    BY <1>4, <1>5 DEF NoTwins
  <1> QED
    BY <1>5, <1>6

(* The rows of a table that verifies are in the order they were written    *)
(* in: otherwise take the first row b that comes after a and was not       *)
(* written after it; the row b chains to was.                              *)
LEMMA VerifiedOrder ==
    ASSUME LogInv, TableInv, NoTwins, NEW n \in Nat, NEW s, Enumerates(s, n),
           Verified(s, n),
           NEW a \in 1..n, s[a].hash # NoHash,
           NEW i \in DOMAIN log, Origin(s[a], i)
    PROVE  \A b \in 1..n : \A j \in DOMAIN log :
              a < b /\ s[b].hash # NoHash /\ Origin(s[b], j) => i < j
  <1> DEFINE Wrong(b) == /\ a < b /\ s[b].hash # NoHash
                         /\ \E j \in DOMAIN log : Origin(s[b], j) /\ ~(i < j)
             Bad == {b \in 1..n : Wrong(b)}
  <1> SUFFICES ASSUME Bad # {} PROVE FALSE
    OBVIOUS
  <1>1. PICK b \in Bad : \A c \in Bad : b <= c
    <2>1. Bad \subseteq Nat
      OBVIOUS
    <2> HIDE DEF Bad
    <2> QED
      BY <2>1, LeastOf
  <1>2. b \in 1..n /\ a < b /\ s[b].hash # NoHash
    OBVIOUS
  <1>3. PICK j \in DOMAIN log : Origin(s[b], j) /\ ~(i < j)
    OBVIOUS
  <1>4. a \in 1..b - 1
    BY <1>2
  <1>5. PICK l \in 1..n : LastBefore(s, l, b) /\ s[b].prev = s[l].hash
    BY <1>2, <1>4 DEF Verified
  <1>6. l \in 1..b - 1 /\ s[l].hash # NoHash
    BY <1>5 DEF LastBefore
  <1>7. PICK k \in DOMAIN log : Origin(s[l], k)
    BY <1>5, <1>6 DEF Enumerates, TableInv
  <1>8. k < j
    <2>1. log[j].prev = log[k].hash
      BY <1>3, <1>5, <1>7 DEF Origin
    <2> QED
      BY <2>1, ChainedIsLater
  <1>9. i \in Int /\ j \in Int /\ k \in Int
    BY LogDomain
  <1>10. CASE l = a
    <2>1. log[k].hash = log[i].hash
      BY <1>7, <1>10 DEF Origin
    <2>2. k = i
      BY <2>1 DEF NoTwins
    <2> QED
      BY <1>3, <1>8, <2>2
  <1>11. CASE l < a
    <2>1. a \in l + 1..b - 1
      BY <1>4, <1>6, <1>11
    <2>2. s[a].hash = NoHash
      BY <1>5, <2>1 DEF LastBefore
    <2> QED
      BY <2>2
  <1>12. CASE a < l
    <2>1. l \notin Bad
      BY <1>1, <1>2, <1>6
    <2>2. i < k
      BY <1>6, <1>7, <1>12, <2>1
    <2> QED
      BY <1>3, <1>8, <1>9, <2>2
  <1> QED
    BY <1>4, <1>6, <1>10, <1>11, <1>12

LEMMA VerifiedMeansGenuine ==
    ASSUME ChainInv
    PROVE  VerifiedIsGenuine
  <1> SUFFICES ASSUME NEW s \in OrderBySeq(table), VerifyAuditChain(s).ok
               PROVE  VerifiedIsGenuine
    BY DEF VerifiedIsGenuine, Verdicts
  <1> DEFINE n == Cardinality(table)
  <1>1. n \in Nat /\ Enumerates(s, n)
    BY OrderedRows DEF ChainInv, WritersInv
  <1> HIDE DEF n
  <1>2. DOMAIN s = 1..n
    BY <1>1 DEF Enumerates
  <1>3. Verified(s, n)
    BY <1>1, <1>2, VerifiedRows
  <1>4. \A r \in Covered : \E k \in 1..n : s[k] = r /\ r.hash # NoHash
    BY <1>1 DEF Covered, Enumerates
  <1>5. \A k \in 1..n : s[k].hash # NoHash =>
           s[k] \in Covered /\ \E i \in DOMAIN log : Origin(s[k], i)
    BY <1>1 DEF Covered, Enumerates, ChainInv, TableInv
  <1>6. ASSUME NEW r \in Covered
        PROVE  \E i \in DOMAIN log : r.id = log[i].id /\ r.event = log[i].event
    <2>1. PICK k \in 1..n : s[k] = r /\ r.hash # NoHash
      BY <1>4
    <2>2. r.hash = auditChainHash(r.prev, r.event)
      BY <1>3, <2>1 DEF Verified
    <2>3. PICK i \in DOMAIN log : Origin(r, i)
      BY <1>5, <2>1
    <2> QED
      BY <2>2, <2>3, RowsAreUnmodified DEF Origin, ChainInv
  <1>7. ASSUME NEW k \in 1..n, NEW i \in DOMAIN log, s[k].hash # NoHash,
               s[k].id = log[i].id
        PROVE  Origin(s[k], i)
    <2>1. PICK j \in DOMAIN log : Origin(s[k], j)
      BY <1>5, <1>7
    <2>2. i = j
      BY <1>7, <2>1 DEF Origin, ChainInv, LogInv
    <2> QED
      BY <2>1, <2>2
  <1>8. ASSUME NoTwins, NEW i \in DOMAIN log, NEW j \in DOMAIN log, i < j,
               NEW a \in 1..n, NEW b \in 1..n,
               s[a].hash # NoHash, s[b].hash # NoHash,
               s[a].id = log[i].id, s[b].id = log[j].id
        PROVE  a < b
    <2>1. Origin(s[a], i) /\ Origin(s[b], j)
      BY <1>7, <1>8
    <2>2. i \in Int /\ j \in Int
      BY LogDomain DEF ChainInv
    <2>3. a # b
      <3> SUFFICES ASSUME a = b PROVE FALSE
        OBVIOUS
      <3>1. i = j
        BY <1>8 DEF ChainInv, LogInv
      <3> QED
        BY <1>8, <2>2, <3>1
    <2>4. ~(b < a)
      <3> SUFFICES ASSUME b < a PROVE FALSE
        OBVIOUS
      <3>1. j < i
        BY <1>1, <1>3, <1>8, <2>1, VerifiedOrder DEF ChainInv
      <3> QED
        BY <1>8, <2>2, <3>1
    <2> QED
      BY <1>1, <2>3, <2>4
  <1>9. ASSUME NoTwins, NEW i \in DOMAIN log, NEW j \in DOMAIN log, i < j,
               NEW r \in Covered, NEW q \in Covered,
               r.id = log[i].id, q.id = log[j].id
        PROVE  r.seq < q.seq
    <2>1. PICK a \in 1..n : s[a] = r /\ r.hash # NoHash
      BY <1>4
    <2>2. PICK b \in 1..n : s[b] = q /\ q.hash # NoHash
      BY <1>4
    <2>3. a < b
      BY <1>8, <1>9, <2>1, <2>2
    <2> QED
      BY <1>1, <2>1, <2>2, <2>3 DEF Enumerates
  <1>10. ASSUME NoTwins, NEW i \in DOMAIN log, NEW j \in DOMAIN log, i < j,
                Survives(i), Survives(j),
                \A m \in i + 1..j - 1 : ~Survives(m)
         PROVE  log[j].prev = log[i].hash
    <2>1. PICK a \in 1..n : s[a].id = log[i].id /\ s[a].hash # NoHash
      BY <1>4, <1>10 DEF Survives
    <2>2. PICK b \in 1..n : s[b].id = log[j].id /\ s[b].hash # NoHash
      BY <1>4, <1>10 DEF Survives
    <2>3. a < b /\ Origin(s[a], i) /\ Origin(s[b], j)
      BY <1>7, <1>8, <1>10, <2>1, <2>2
    <2>4. a \in 1..b - 1
      BY <1>1, <2>3
    <2>5. PICK l \in 1..n : LastBefore(s, l, b) /\ s[b].prev = s[l].hash
      BY <1>3, <2>1, <2>2, <2>4 DEF Verified
    <2>6. l \in 1..b - 1 /\ s[l].hash # NoHash
      BY <2>5 DEF LastBefore
    <2>7. l = a
      <3>1. ~(l < a)
        <4> SUFFICES ASSUME l < a PROVE FALSE
          OBVIOUS
        <4>1. a \in l + 1..b - 1
          BY <2>4, <2>6
        <4> QED
          BY <2>1, <2>5, <4>1 DEF LastBefore
      <3>2. ~(a < l)
        <4> SUFFICES ASSUME a < l PROVE FALSE
          OBVIOUS
        <4>1. PICK k \in DOMAIN log : Origin(s[l], k)
          BY <1>5, <2>6
        <4>2. i < k
          BY <1>1, <1>3, <1>10, <2>1, <2>3, <2>6, <4>1, VerifiedOrder
          DEF ChainInv
        <4>3. l < b
          BY <2>6
        <4>4. k < j
          BY <1>1, <1>3, <1>10, <2>2, <2>3, <2>6, <4>1, <4>3, VerifiedOrder
          DEF ChainInv
        <4>5. k \in i + 1..j - 1
          <5>1. i \in Int /\ j \in Int /\ k \in Int
            BY LogDomain DEF ChainInv
          <5> QED
            BY <4>2, <4>4, <5>1
        <4>6. Survives(k)
          BY <1>5, <2>6, <4>1 DEF Survives, Origin
        <4> QED
          BY <1>10, <4>5, <4>6
      <3> QED
        BY <2>4, <2>6, <3>1, <3>2
    <2> QED
      BY <2>3, <2>5, <2>7 DEF Origin
  <1> QED
    BY <1>6, <1>9, <1>10 DEF VerifiedIsGenuine

(***************************************************************************)
(* VerifyAuditChain gives no false assurance: whatever was done to the     *)
(* table, one that verifies has only rows that InsertAudit wrote,          *)
(* unmodified, and, unless twins were written, in the order of their       *)
(* commits and without a gap inside the chain.                             *)
(***************************************************************************)
THEOREM NoFalseAssurance == Spec => []VerifiedIsGenuine
  <1>1. ChainInv => VerifiedIsGenuine
    BY VerifiedMeansGenuine
  <1> QED
    BY <1>1, ChainInvHolds, PTL
=============================================================================
