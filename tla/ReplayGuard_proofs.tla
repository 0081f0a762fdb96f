-------------------------- MODULE ReplayGuard_proofs --------------------------
(***************************************************************************)
(* For every number of messages and deliveries, every interleaving, every  *)
(* skew and delay and every length of the run: no message is accepted      *)
(* twice by markers of its own window, unless the bank had to ask its      *)
(* second store, and never more than twice by one store.                   *)
(***************************************************************************)
EXTENDS ReplayGuard, FiniteSetTheorems, TLAPS

USE DEF Stores

(* The constants' types, one by one.                                       *)
LEMMA ConstantTypes ==
    /\ Window \in Nat /\ TTL \in Nat /\ MaxAhead \in Nat
    /\ MaxDelay \in Nat /\ MaxTime \in Nat
    /\ TTL >= Window
    /\ Outages \in BOOLEAN /\ ForBank \subseteq Messages
    /\ NoMessage \notin Messages
BY GuardAssumption

(* Every step of a client, a handler or the clock keeps the phases right.  *)
LEMMA PhasesStep ==
    ASSUME TypeOK, PendingIsFresh, AcceptedIsMarked, FallbackIsFailure, Next
    PROVE  TypeOK' /\ PendingIsFresh' /\ AcceptedIsMarked' /\ FallbackIsFailure'
<1> USE ConstantTypes
<1> USE DEF TypeOK, PendingIsFresh, AcceptedIsMarked, FallbackIsFailure, Within, Goto,
        Phases, Pending, AtBank
<1> DEFINE Goal == TypeOK' /\ PendingIsFresh' /\ AcceptedIsMarked' /\ FallbackIsFailure'
<1>1. ASSUME NEW m \in Messages, Send(m) PROVE Goal
  BY <1>1 DEF Send
<1>2. ASSUME NEW d \in Deliveries, NEW m \in Messages, Arrive(d, m) PROVE Goal
  BY <1>2 DEF Arrive
<1>3. ASSUME NEW d \in Deliveries, Verify(d) PROVE Goal
  BY <1>3 DEF Verify
<1>4. ASSUME NEW d \in Deliveries, SetNX(d) PROVE Goal
  BY <1>4 DEF SetNX, Marked
<1>5. ASSUME NEW d \in Deliveries, SetNXFails(d) PROVE Goal
  BY <1>5 DEF SetNXFails
<1>6. ASSUME NEW d \in Deliveries, InsertNonce(d) PROVE Goal
  BY <1>6 DEF InsertNonce, Marked
<1>7. ASSUME NEW d \in Deliveries, InsertNonceFails(d) PROVE Goal
  BY <1>7 DEF InsertNonceFails
<1>8. CASE Tick
  BY <1>8 DEF Tick
<1> HIDE DEF Goal
<1> QED
  BY <1>1, <1>2, <1>3, <1>4, <1>5, <1>6, <1>7, <1>8 DEF Next, Handle, Goal

(* The initial states satisfy the invariant: nothing is sent or marked.    *)
LEMMA GuardInit == Init => GuardInv
BY ConstantTypes
   DEF Init, GuardInv, TypeOK, PendingIsFresh, MarkersLive, MarkersApart,
       NoncesAreKept, AcceptedIsMarked, FallbackIsFailure, Phases, Pending, AtBank

(* Every step preserves what is known of the markers.                      *)
LEMMA MarkersStep ==
    ASSUME GuardInv, Next
    PROVE  MarkersLive' /\ MarkersApart' /\ NoncesAreKept'
<1> USE ConstantTypes
<1> DEFINE Goal == MarkersLive' /\ MarkersApart' /\ NoncesAreKept'
<1>t. /\ TypeOK /\ PendingIsFresh /\ MarkersLive /\ MarkersApart
      /\ NoncesAreKept /\ AcceptedIsMarked /\ FallbackIsFailure
  BY DEF GuardInv
<1>u. ASSUME NEW d \in Deliveries, NEW store \in Stores, d \in marked[store]
      PROVE  pc[d] # "idle" /\ ~Pending(d)
  BY <1>t, <1>u DEF AcceptedIsMarked
<1>l. ASSUME NEW d \in marked["redis"]
      PROVE  /\ d \in Deliveries /\ msg[d] \in sent /\ msg[d] \in Messages
             /\ when[d] \in Nat /\ when[d] <= now
             /\ redis[msg[d]] \in Int /\ redis[msg[d]] >= when[d] + TTL
             /\ stamp[msg[d]] \in Int /\ when[d] >= stamp[msg[d]] - Window
  BY <1>t DEF TypeOK, MarkersLive
<1>1. ASSUME NEW m \in Messages, Send(m) PROVE Goal
  <2>1. m \notin sent /\ sent' = sent \cup {m} /\ \A n \in sent : stamp'[n] = stamp[n]
    BY <1>1, <1>t DEF Send, TypeOK
  <2>2. UNCHANGED <<now, redis, nonces, pc, msg, when, marked>>
    BY <1>1 DEF Send
  <2>3. MarkersLive'
    BY <1>l, <2>1, <2>2 DEF MarkersLive
  <2> QED BY <1>t, <2>2, <2>3 DEF MarkersApart, NoncesAreKept
<1>2. ASSUME NEW d \in Deliveries, NEW m \in Messages, Arrive(d, m) PROVE Goal
  <2>1. /\ pc[d] = "idle"
        /\ \A e \in Deliveries \ {d} : msg'[e] = msg[e] /\ when'[e] = when[e]
        /\ UNCHANGED <<now, stamp, sent, redis, nonces, marked>>
    BY <1>2, <1>t DEF Arrive, TypeOK
  <2>2. d \notin marked["redis"] /\ d \notin marked["used_nonces"]
    BY <1>u, <2>1
  <2>3. MarkersLive' /\ MarkersApart'
    BY <1>t, <1>l, <2>1, <2>2 DEF MarkersLive, MarkersApart
  <2>4. NoncesAreKept'
    BY <1>t, <2>1, <2>2 DEF NoncesAreKept, TypeOK
  <2> QED BY <2>3, <2>4
<1>3. ASSUME NEW d \in Deliveries, Verify(d) PROVE Goal
  BY <1>3, <1>t DEF Verify, MarkersLive, MarkersApart, NoncesAreKept
<1>4. ASSUME NEW d \in Deliveries, SetNX(d) PROVE Goal
  <2>1. /\ pc[d] = "mark" /\ Pending(d) /\ d \notin marked["redis"]
        /\ d \notin marked["used_nonces"]
        /\ UNCHANGED <<now, stamp, sent, nonces, msg>>
    BY <1>4, <1>t, <1>u DEF SetNX, Pending
  <2>2. /\ msg[d] \in sent /\ msg[d] \in Messages
        /\ when[d] \in Nat /\ now \in Nat /\ stamp[msg[d]] \in Int
        /\ when[d] <= now /\ stamp[msg[d]] - when[d] <= Window
    BY <1>t, <2>1 DEF PendingIsFresh, TypeOK, Within
  <2>3. CASE KeyAlive(msg[d])
    BY <1>4, <1>t, <2>1, <2>3 DEF SetNX, MarkersLive, MarkersApart, NoncesAreKept
  <2>4. CASE ~KeyAlive(msg[d])
    <3>1. /\ redis' = [redis EXCEPT ![msg[d]] = now + TTL]
          /\ marked' = [marked EXCEPT !["redis"] = @ \cup {d}]
          /\ when' = [when EXCEPT ![d] = now]
      BY <1>4, <2>4 DEF SetNX, Marked
    <3>2. redis[msg[d]] < now
      BY <1>t, <2>2, <2>4 DEF KeyAlive, SameKey, TypeOK
    <3>3. /\ marked'["redis"] = marked["redis"] \cup {d}
          /\ marked'["used_nonces"] = marked["used_nonces"]
          /\ when'[d] = now /\ \A e \in Deliveries \ {d} : when'[e] = when[e]
          /\ redis'[msg[d]] = now + TTL
          /\ \A m \in Messages \ {msg[d]} : redis'[m] = redis[m]
      BY <1>t, <2>2, <3>1 DEF TypeOK
    <3>4. MarkersLive'
      BY <1>l, <2>1, <2>2, <3>3 DEF MarkersLive
    <3>5. ASSUME NEW e \in marked["redis"], msg[e] = msg[d] PROVE now > when[e] + TTL
      BY <1>l, <2>2, <3>2, <3>5
    <3>6. MarkersApart'
      BY <1>t, <1>l, <2>1, <2>2, <3>3, <3>5 DEF MarkersApart
    <3>7. NoncesAreKept'
      BY <1>t, <2>1, <3>3 DEF NoncesAreKept, TypeOK
    <3> QED BY <3>4, <3>6, <3>7
  <2> QED BY <2>3, <2>4
<1>5. ASSUME NEW d \in Deliveries, SetNXFails(d) PROVE Goal
  <2>1. /\ pc[d] = "mark" /\ UNCHANGED <<now, stamp, sent, nonces, msg, when, marked>>
        /\ \/ redis' = redis
           \/ ~KeyAlive(msg[d]) /\ redis' = [redis EXCEPT ![msg[d]] = now + TTL]
    BY <1>5 DEF SetNXFails
  <2>2. now \in Nat /\ redis \in [Messages -> Int]
    BY <1>t DEF TypeOK
  <2>3. \A e \in marked["redis"] : redis'[msg[e]] \in Int /\ redis'[msg[e]] >= when[e] + TTL
    BY <1>l, <2>1, <2>2
  <2>4. MarkersLive'
    BY <1>l, <2>1, <2>3 DEF MarkersLive
  <2> QED BY <1>t, <2>1, <2>4 DEF MarkersApart, NoncesAreKept
<1>6. ASSUME NEW d \in Deliveries, InsertNonce(d) PROVE Goal
  <2>1. /\ pc[d] = "fallback" /\ Pending(d) /\ d \notin marked["redis"]
        /\ UNCHANGED <<now, stamp, sent, redis, msg>>
    BY <1>6, <1>t, <1>u DEF InsertNonce, Pending
  <2>2. CASE msg[d] \in nonces
    BY <1>6, <1>t, <2>1, <2>2 DEF InsertNonce, MarkersLive, MarkersApart, NoncesAreKept
  <2>3. CASE msg[d] \notin nonces
    <3>1. /\ nonces' = nonces \cup {msg[d]}
          /\ marked'["redis"] = marked["redis"]
          /\ marked'["used_nonces"] = marked["used_nonces"] \cup {d}
          /\ \A e \in Deliveries \ {d} : when'[e] = when[e]
      BY <1>6, <1>t, <2>3 DEF InsertNonce, Marked, TypeOK
    <3>2. MarkersLive' /\ MarkersApart'
      BY <1>t, <1>l, <2>1, <3>1 DEF MarkersLive, MarkersApart
    <3>3. NoncesAreKept'
      BY <1>t, <2>1, <2>3, <3>1 DEF NoncesAreKept
    <3> QED BY <3>2, <3>3
  <2> QED BY <2>2, <2>3
<1>7. ASSUME NEW d \in Deliveries, InsertNonceFails(d) PROVE Goal
  BY <1>7, <1>t DEF InsertNonceFails, MarkersLive, MarkersApart, NoncesAreKept
<1>8. CASE Tick
  <2>1. /\ now \in Nat /\ now' = now + 1
        /\ UNCHANGED <<stamp, sent, redis, nonces, msg, when, marked>>
    BY <1>8, <1>t DEF Tick, TypeOK
  <2>2. MarkersLive'
    BY <1>l, <2>1 DEF MarkersLive
  <2> QED BY <1>t, <2>1, <2>2 DEF MarkersApart, NoncesAreKept
<1> HIDE DEF Goal
<1> QED
  BY <1>1, <1>2, <1>3, <1>4, <1>5, <1>6, <1>7, <1>8 DEF Next, Handle, Goal

(* The invariant holds in every state.                                     *)
THEOREM GuardInvHolds == Spec => []GuardInv
<1>1. GuardInv /\ [Next]_vars => GuardInv'
  <2> SUFFICES ASSUME GuardInv, [Next]_vars PROVE GuardInv'
    OBVIOUS
  <2>1. CASE Next
    BY <2>1, MarkersStep, PhasesStep DEF GuardInv
  <2>2. CASE UNCHANGED vars
    BY <2>2 DEF vars, GuardInv, TypeOK, PendingIsFresh, MarkersLive, MarkersApart,
       NoncesAreKept, AcceptedIsMarked, FallbackIsFailure, Within, Pending, AtBank
  <2> QED BY <2>1, <2>2
<1> QED
  BY <1>1, GuardInit, PTL DEF Spec

(* A message is accepted once by markers of its own window, unless the     *)
(* bank asked used_nonces because Redis failed.                            *)
THEOREM OnceInWindowHolds == Spec => []OnceInWindow
<1>1. ASSUME GuardInv PROVE OnceInWindow
  <2> SUFFICES ASSUME NEW d \in Deliveries, NEW e \in Deliveries,
                      pc[d] = "accepted", pc[e] = "accepted", msg[d] = msg[e], d # e,
                      ~(AtBank(d) /\ {d, e} \cap failed # {}),
                      MarkedInWindow(d), MarkedInWindow(e)
               PROVE  FALSE
    BY DEF OnceInWindow
  <2>1. d \in marked["redis"] /\ e \in marked["redis"]
    BY <1>1 DEF GuardInv, AcceptedIsMarked, FallbackIsFailure, AtBank
  <2>2. when[d] > when[e] + TTL \/ when[e] > when[d] + TTL
    BY <1>1, <2>1 DEF GuardInv, MarkersApart
  <2>3. /\ when[d] \in Nat /\ when[e] \in Nat /\ msg[d] \in Messages
        /\ stamp[msg[d]] \in Int
    BY <1>1, <2>1 DEF GuardInv, TypeOK, MarkersLive
  <2> QED
    BY <2>2, <2>3, ConstantTypes DEF MarkedInWindow
<1> QED
  BY <1>1, GuardInvHolds, PTL

(* Redis lets a message pass at most twice before its window ends, and     *)
(* used_nonces once, whatever the clocks and delays are.                   *)
THEOREM AtMostTwiceHolds == Spec => []AtMostTwice
<1>1. ASSUME GuardInv PROVE AtMostTwice
  <2>1. ASSUME NEW d \in marked["redis"], NEW e \in marked["redis"],
               NEW g \in marked["redis"], msg[d] = msg[e], msg[d] = msg[g],
               Cardinality({d, e, g}) = 3,
               \A x \in {d, e, g} : when[x] <= stamp[msg[x]] + Window
        PROVE  FALSE
    <3>1. d # e /\ d # g /\ e # g
      <4>1. ASSUME NEW x, NEW y PROVE Cardinality({x, y}) <= 2
        <5>1. IsFiniteSet({x}) /\ Cardinality({x}) = 1
          BY FS_Singleton
        <5>2. {x, y} = {x} \cup {y}
          OBVIOUS
        <5> QED BY <5>1, <5>2, FS_AddElement
      <4>2. d = e => {d, e, g} = {d, g}
        OBVIOUS
      <4>3. d = g => {d, e, g} = {d, e}
        OBVIOUS
      <4>4. e = g => {d, e, g} = {d, e}
        OBVIOUS
      <4>5. /\ Cardinality({d, g}) # 3 /\ Cardinality({d, e}) # 3
        <5>1. Cardinality({d, g}) <= 2 /\ Cardinality({d, e}) <= 2
          BY <4>1
        <5>2. \A n : n <= 2 => n # 3
          OBVIOUS
        <5> QED BY <5>1, <5>2
      <4> QED BY <2>1, <4>2, <4>3, <4>4, <4>5
    <3>2. /\ when[d] > when[e] + TTL \/ when[e] > when[d] + TTL
          /\ when[d] > when[g] + TTL \/ when[g] > when[d] + TTL
          /\ when[e] > when[g] + TTL \/ when[g] > when[e] + TTL
      BY <1>1, <2>1, <3>1 DEF GuardInv, MarkersApart
    <3>3. /\ when[d] \in Nat /\ when[e] \in Nat /\ when[g] \in Nat
          /\ stamp[msg[d]] \in Int
          /\ when[d] >= stamp[msg[d]] - Window
          /\ when[e] >= stamp[msg[d]] - Window
          /\ when[g] >= stamp[msg[d]] - Window
      BY <1>1, <2>1 DEF GuardInv, TypeOK, MarkersLive
    <3>4. /\ when[d] <= stamp[msg[d]] + Window
          /\ when[e] <= stamp[msg[d]] + Window
          /\ when[g] <= stamp[msg[d]] + Window
      BY <2>1
    <3> QED
      BY <3>2, <3>3, <3>4, ConstantTypes
  <2>2. ASSUME NEW x \in marked["redis"]
        PROVE  when[x] \in Int /\ stamp[msg[x]] + Window \in Int
    BY <1>1, ConstantTypes DEF GuardInv, TypeOK, MarkersLive
  <2>3. \A d, e, g \in marked["redis"] :
            /\ msg[d] = msg[e] /\ msg[d] = msg[g]
            /\ Cardinality({d, e, g}) = 3
            => \E x \in {d, e, g} : when[x] > stamp[msg[x]] + Window
    <3> SUFFICES ASSUME NEW d \in marked["redis"], NEW e \in marked["redis"],
                        NEW g \in marked["redis"], msg[d] = msg[e], msg[d] = msg[g],
                        Cardinality({d, e, g}) = 3,
                        \A x \in {d, e, g} : ~(when[x] > stamp[msg[x]] + Window)
                 PROVE  FALSE
      OBVIOUS
    <3>1. \A x \in {d, e, g} : when[x] <= stamp[msg[x]] + Window
      BY <2>2
    <3> QED BY <2>1, <3>1
  <2> QED
    BY <1>1, <2>3 DEF GuardInv, NoncesAreKept, AtMostTwice
<1> QED
  BY <1>1, GuardInvHolds, PTL

-----------------------------------------------------------------------------
(* Refusals.                                                               *)

LEMMA ReplayInit == Init => ReplayInv
BY ConstantTypes
   DEF Init, ReplayInv, TypeOK, PendingIsFresh, AcceptedIsMarked, FallbackIsFailure,
       KeysHaveWriters, ReplayIsReal, Phases, Pending, AtBank

(* A delivery that has a message keeps it, and history is not forgotten:   *)
(* who wrote a key or caused a refusal still stands for it.                *)
LEMMA WitnessesStay ==
    ASSUME TypeOK, PendingIsFresh, KeysHaveWriters, ReplayIsReal,
           \A e \in Deliveries : msg[e] # NoMessage => msg'[e] = msg[e],
           \A e \in Deliveries : pc'[e] = "replay" /\ e \notin failed' => pc[e] = "replay",
           marked["redis"] \subseteq marked'["redis"],
           marked["used_nonces"] \subseteq marked'["used_nonces"],
           failed \subseteq failed',
           UNCHANGED redis
    PROVE  KeysHaveWriters' /\ ReplayIsReal'
<1>1. NoMessage \notin Messages /\ sent \subseteq Messages
  BY ConstantTypes DEF TypeOK
<1>2. KeysHaveWriters'
  BY <1>1 DEF KeysHaveWriters
<1>3. ASSUME NEW d \in Deliveries, pc'[d] = "replay", d \notin failed'
      PROVE  \E e \in Deliveries \ {d} :
                 /\ msg'[e] = msg'[d]
                 /\ e \in marked'["redis"] \cup marked'["used_nonces"] \cup failed'
  <2>1. pc[d] = "replay" /\ d \notin failed
    BY <1>3
  <2>2. msg[d] # NoMessage
    BY <1>1, <2>1 DEF PendingIsFresh
  <2>3. PICK e \in Deliveries \ {d} :
            /\ msg[e] = msg[d]
            /\ e \in marked["redis"] \cup marked["used_nonces"] \cup failed
    BY <2>1 DEF ReplayIsReal
  <2>4. msg'[e] = msg'[d]
    BY <2>2, <2>3
  <2> QED BY <2>3, <2>4
<1>4. ReplayIsReal'
  BY <1>3 DEF ReplayIsReal
<1> QED BY <1>2, <1>4

(* A key is written for d, which is then marked or has failed; nobody is   *)
(* refused by this step who did not fail.                                  *)
LEMMA KeyWritten ==
    ASSUME TypeOK, PendingIsFresh, KeysHaveWriters, ReplayIsReal, NEW d \in Deliveries,
           msg[d] \in Messages, redis' = [redis EXCEPT ![msg[d]] = now + TTL],
           UNCHANGED msg, d \in marked'["redis"] \cup failed',
           \A e \in Deliveries : pc'[e] = "replay" /\ e \notin failed' => pc[e] = "replay",
           marked["redis"] \subseteq marked'["redis"],
           marked["used_nonces"] \subseteq marked'["used_nonces"],
           failed \subseteq failed'
    PROVE  KeysHaveWriters' /\ ReplayIsReal'
<1>1. \A m \in Messages : m # msg[d] => redis'[m] = redis[m]
  BY DEF TypeOK
<1>2. KeysHaveWriters'
  BY <1>1 DEF KeysHaveWriters
<1>3. ReplayIsReal'
  BY DEF ReplayIsReal
<1> QED BY <1>2, <1>3

LEMMA RefusalsStep ==
    ASSUME ReplayInv, Next
    PROVE  KeysHaveWriters' /\ ReplayIsReal'
<1> USE ConstantTypes
<1> DEFINE Goal == KeysHaveWriters' /\ ReplayIsReal'
<1>t. /\ TypeOK /\ PendingIsFresh /\ AcceptedIsMarked /\ FallbackIsFailure
      /\ KeysHaveWriters /\ ReplayIsReal
  BY DEF ReplayInv
<1>m. ASSUME NEW d \in Deliveries, pc[d] # "idle" PROVE msg[d] \in sent /\ msg[d] \in Messages
  BY <1>m, <1>t DEF PendingIsFresh, TypeOK
<1>1. ASSUME NEW m \in Messages, Send(m) PROVE Goal
  BY <1>1, <1>t, WitnessesStay DEF Send
<1>2. ASSUME NEW d \in Deliveries, NEW m \in Messages, Arrive(d, m) PROVE Goal
  <2>1. msg[d] = NoMessage /\ pc[d] = "idle"
    BY <1>2, <1>t DEF Arrive, PendingIsFresh
  <2>2. /\ \A e \in Deliveries : msg[e] # NoMessage => msg'[e] = msg[e]
        /\ \A e \in Deliveries : pc'[e] = "replay" => pc[e] = "replay"
        /\ UNCHANGED <<redis, marked, failed>>
    BY <1>2, <1>t, <2>1 DEF Arrive, Goto, TypeOK
  <2> QED BY <1>t, <2>2, WitnessesStay
<1>3. ASSUME NEW d \in Deliveries, Verify(d) PROVE Goal
  <2>1. /\ \A e \in Deliveries : pc'[e] = "replay" => pc[e] = "replay"
        /\ UNCHANGED <<msg, redis, marked, failed>>
    BY <1>3, <1>t DEF Verify, Goto, TypeOK
  <2> QED BY <1>t, <2>1, WitnessesStay
<1>4. ASSUME NEW d \in Deliveries, SetNX(d) PROVE Goal
  <2>1. pc[d] = "mark" /\ d \notin marked["redis"] /\ UNCHANGED <<now, msg, failed>>
    BY <1>4, <1>t DEF SetNX, AcceptedIsMarked, Pending
  <2>2. CASE KeyAlive(msg[d])
    <3>1. UNCHANGED <<redis, marked>> /\ pc' = [pc EXCEPT ![d] = "replay"]
      BY <1>4, <2>2 DEF SetNX, Goto
    <3>2. redis[msg[d]] >= 0 /\ msg[d] \in Messages
      BY <1>m, <1>t, <2>1, <2>2 DEF KeyAlive, SameKey, TypeOK
    <3>3. PICK e \in Deliveries : msg[e] = msg[d] /\ e \in marked["redis"] \cup failed
      BY <1>t, <3>2 DEF KeysHaveWriters
    <3>4. KeysHaveWriters'
      BY <1>t, <2>1, <3>1 DEF KeysHaveWriters
    <3>5. ReplayIsReal'
      BY <1>t, <2>1, <3>1, <3>3 DEF ReplayIsReal, TypeOK
    <3> QED BY <3>4, <3>5
  <2>3. CASE ~KeyAlive(msg[d])
    <3>1. /\ redis' = [redis EXCEPT ![msg[d]] = now + TTL]
          /\ marked' = [marked EXCEPT !["redis"] = @ \cup {d}]
          /\ pc' = [pc EXCEPT ![d] = IF AtBank(d) THEN "accepted" ELSE "verify"]
      BY <1>4, <2>3 DEF SetNX, Marked, Goto
    <3>2. /\ marked'["redis"] = marked["redis"] \cup {d}
          /\ marked'["used_nonces"] = marked["used_nonces"]
          /\ \A e \in Deliveries : pc'[e] = "replay" => pc[e] = "replay"
      BY <1>t, <3>1 DEF TypeOK
    <3> QED BY <1>m, <1>t, <2>1, <3>1, <3>2, KeyWritten
  <2> QED BY <2>2, <2>3
<1>5. ASSUME NEW d \in Deliveries, SetNXFails(d) PROVE Goal
  <2>1. /\ pc[d] = "mark" /\ failed' = failed \cup {d} /\ UNCHANGED <<now, msg, marked>>
        /\ redis' = redis \/ redis' = [redis EXCEPT ![msg[d]] = now + TTL]
        /\ \E phase : pc' = [pc EXCEPT ![d] = phase]
    BY <1>5 DEF SetNXFails, Goto
  <2>2. \A e \in Deliveries : pc'[e] = "replay" /\ e \notin failed' => pc[e] = "replay"
    BY <1>t, <2>1 DEF TypeOK
  <2>3. CASE redis' = redis
    BY <1>t, <2>1, <2>2, <2>3, WitnessesStay
  <2>4. CASE redis' = [redis EXCEPT ![msg[d]] = now + TTL]
    BY <1>m, <1>t, <2>1, <2>2, <2>4, KeyWritten
  <2> QED BY <2>1, <2>3, <2>4
<1>6. ASSUME NEW d \in Deliveries, InsertNonce(d) PROVE Goal
  <2>1. d \in failed /\ UNCHANGED <<redis, msg, failed>>
    BY <1>6, <1>t DEF InsertNonce, FallbackIsFailure
  <2>2. \A e \in Deliveries : pc'[e] = "replay" /\ e \notin failed' => pc[e] = "replay"
    BY <1>6, <1>t, <2>1 DEF InsertNonce, Marked, Goto, TypeOK
  <2>3. /\ marked["redis"] \subseteq marked'["redis"]
        /\ marked["used_nonces"] \subseteq marked'["used_nonces"]
    BY <1>6, <1>t DEF InsertNonce, Marked, TypeOK
  <2> QED BY <1>t, <2>1, <2>2, <2>3, WitnessesStay
<1>7. ASSUME NEW d \in Deliveries, InsertNonceFails(d) PROVE Goal
  <2>1. /\ failed' = failed \cup {d} /\ UNCHANGED <<redis, msg, marked>>
        /\ pc' = [pc EXCEPT ![d] = "replay"]
    BY <1>7 DEF InsertNonceFails, Goto
  <2>2. \A e \in Deliveries : pc'[e] = "replay" /\ e \notin failed' => pc[e] = "replay"
    BY <1>t, <2>1 DEF TypeOK
  <2> QED BY <1>t, <2>1, <2>2, WitnessesStay
<1>8. CASE Tick
  BY <1>8, <1>t, WitnessesStay DEF Tick
<1> HIDE DEF Goal
<1> QED
  BY <1>1, <1>2, <1>3, <1>4, <1>5, <1>6, <1>7, <1>8 DEF Next, Handle, Goal

(* The invariant behind ReplayIsReal, for any window, life of a key, skew  *)
(* and delay.                                                              *)
THEOREM ReplayInvHolds == Spec => []ReplayInv
<1>1. ReplayInv /\ [Next]_vars => ReplayInv'
  <2> SUFFICES ASSUME ReplayInv, [Next]_vars PROVE ReplayInv'
    OBVIOUS
  <2>1. CASE Next
    BY <2>1, PhasesStep, RefusalsStep DEF ReplayInv
  <2>2. CASE UNCHANGED vars
    BY <2>2 DEF ReplayInv, vars, TypeOK, PendingIsFresh, AcceptedIsMarked,
       FallbackIsFailure, KeysHaveWriters, ReplayIsReal, Within, Pending, AtBank
  <2> QED BY <2>1, <2>2
<1> QED BY <1>1, ReplayInit, PTL DEF Spec

(* checkReplay, checkASReplay and markReplay refuse a message as a replay  *)
(* only if another delivery of it came before, unless a store failed for   *)
(* this very delivery.                                                     *)
THEOREM RefusalsAreReal == Spec => []ReplayIsReal
<1>1. ReplayInv => ReplayIsReal
  BY DEF ReplayInv
<1> QED BY <1>1, ReplayInvHolds, PTL
=============================================================================
