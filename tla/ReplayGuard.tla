----------------------------- MODULE ReplayGuard -----------------------------
(***************************************************************************)
(* Replay protection of the three exchanges: the freshness check and the   *)
(* replay marker of IssueTGT and RequestServiceTicket (kdc-service) and of *)
(* TransferMoney, GetBalance and GetHistory (banking-service).             *)
(*                                                                         *)
(* A message is one authenticator (for AS: one signed request): client,    *)
(* nonce, timestamp and request id.  A delivery is one handling of it; the *)
(* network or the client may deliver a message any number of times.        *)
(* Redis, PostgreSQL and the CA are external: a call of them answers or    *)
(* fails.                                                                  *)
(***************************************************************************)
EXTENDS Integers, FiniteSets

CONSTANTS
    Messages, Deliveries,
    ForBank,   \* messages for banking-service; others are for kdc-service
    Window,    \* freshnessWindow, timestampWindow
    TTL,       \* replayTTL; of checkASReplay, timestampWindow again
    MaxAhead,  \* bound on how far a client's clock is ahead of the server's
    MaxDelay,  \* bound on the time from the freshness check to the marker
    MaxTime,   \* bound on the clock
    Outages,   \* may calls of Redis and of PostgreSQL fail?
    NoMessage

ASSUME GuardAssumption ==
    /\ {Window, TTL, MaxAhead, MaxDelay, MaxTime} \subseteq Nat
    /\ TTL >= Window   \* five minutes each
    /\ Outages \in BOOLEAN
    /\ ForBank \subseteq Messages
    /\ NoMessage \notin Messages

VARIABLES
    now,      \* the clock the services and Redis read
    stamp,    \* [Messages -> Int]: the message's timestamp
    sent,     \* messages the client has produced
    redis,    \* [Messages -> Int]: when the message's key expires
    nonces,   \* keys in used_nonces; nothing ever deletes one
    pc, msg,
    when,     \* when the delivery passed the freshness check; once it has
              \* its marker, when that was written
    marked,   \* deliveries that wrote a marker, by store
    failed    \* history: deliveries for which a store call failed

vars == <<now, stamp, sent, redis, nonces, pc, msg, when, marked, failed>>

Stores == {"redis", "used_nonces"}

Phases == {"idle", "verify", "mark", "fallback", "accepted", "stale",
           "refused", "replay", "internal"}

AtBank(d) == msg[d] \in ForBank

(* Between the freshness check and the marker time may pass, but not       *)
(* without bound.                                                          *)
Pending(d) == pc[d] \in {"mark", "fallback"} \/ (pc[d] = "verify" /\ AtBank(d))

Goto(d, phase) == pc' = [pc EXCEPT ![d] = phase]

-----------------------------------------------------------------------------
(* timestampWithinWindow, and absDuration in authorize.                    *)
Within(t, ts) == t - ts <= Window /\ ts - t <= Window

(* Mutant: a key without nonce and request id.                             *)
SameKey_ByTimestamp(m, n) == stamp[m] = stamp[n]

(* The key is a hash of client, nonce, timestamp and request id.           *)
SameKey(m, n) == m = n

(* Redis removes a key after its expiry.                                   *)
KeyAlive(m) == \E n \in sent : SameKey(m, n) /\ now <= redis[n]

-----------------------------------------------------------------------------
(* A client signs a message with the time of its own clock.  A clock that  *)
(* is behind is a message that comes late.                                 *)
Send(m) ==
    /\ m \notin sent
    /\ sent' = sent \cup {m}
    /\ \E skew \in 0..MaxAhead : stamp' = [stamp EXCEPT ![m] = now + skew]
    /\ UNCHANGED <<now, redis, nonces, pc, msg, when, marked, failed>>

(* validateFreshness, validateTimestampWindow, authorize: the bank then    *)
(* asks the CA and verifies payload and signature, the KDC marks first.    *)
Arrive(d, m) ==
    /\ pc[d] = "idle"
    /\ m \in sent
    /\ msg' = [msg EXCEPT ![d] = m]
    /\ IF Within(now, stamp[m])
         THEN /\ Goto(d, IF m \in ForBank THEN "verify" ELSE "mark")
              /\ when' = [when EXCEPT ![d] = now]
         ELSE Goto(d, "stale") /\ UNCHANGED when
    /\ UNCHANGED <<now, stamp, sent, redis, nonces, marked, failed>>

(* Certificate, payload and signature are accepted, or anything among them *)
(* is not: the CA does not answer, the certificate is revoked, ...         *)
Verify(d) ==
    /\ pc[d] = "verify"
    /\ Goto(d, IF AtBank(d) THEN "mark" ELSE "accepted") \/ Goto(d, "refused")
    /\ UNCHANGED <<now, stamp, sent, redis, nonces, msg, when, marked,
                   failed>>

Marked(d, store) ==
    /\ marked' = [marked EXCEPT ![store] = @ \cup {d}]
    /\ when' = [when EXCEPT ![d] = now]
    /\ Goto(d, IF AtBank(d) THEN "accepted" ELSE "verify")

(* Mutant: SET with an expiry, whether the key exists or not.              *)
SetNX_NotExclusive(d) ==
    /\ pc[d] = "mark"
    /\ redis' = [redis EXCEPT ![msg[d]] = now + TTL]
    /\ Marked(d, "redis")
    /\ UNCHANGED <<now, stamp, sent, nonces, msg, failed>>

(* SETNX with an expiry, answered.                                         *)
SetNX(d) ==
    /\ pc[d] = "mark"
    /\ IF KeyAlive(msg[d])
         THEN Goto(d, "replay") /\ UNCHANGED <<redis, marked, when>>
         ELSE /\ redis' = [redis EXCEPT ![msg[d]] = now + TTL]
              /\ Marked(d, "redis")
    /\ UNCHANGED <<now, stamp, sent, nonces, msg, failed>>

(* Mutant: the KDC lets the message pass when Redis fails.                 *)
SetNXFails_Open(d) ==
    /\ Outages
    /\ pc[d] = "mark"
    /\ Goto(d, IF AtBank(d) THEN "fallback" ELSE "verify")
    /\ failed' = failed \cup {d}
    /\ UNCHANGED <<now, stamp, sent, redis, nonces, msg, when, marked>>

(* The call fails, executed or not: the KDC answers INTERNAL_ERROR, the    *)
(* bank goes on to used_nonces.  Or the answer of an executed SETNX is     *)
(* lost and the driver's own retry meets the key it wrote.                 *)
SetNXFails(d) ==
    /\ Outages
    /\ pc[d] = "mark"
    /\ \/ /\ Goto(d, IF AtBank(d) THEN "fallback" ELSE "internal")
          /\ redis' = redis
       \/ /\ ~KeyAlive(msg[d])
          /\ \/ Goto(d, IF AtBank(d) THEN "fallback" ELSE "internal")
             \/ Goto(d, "replay")
          /\ redis' = [redis EXCEPT ![msg[d]] = now + TTL]
    /\ failed' = failed \cup {d}
    /\ UNCHANGED <<now, stamp, sent, nonces, msg, when, marked>>

(* INSERT INTO used_nonces, whose key is primary.                          *)
InsertNonce(d) ==
    /\ pc[d] = "fallback"
    /\ IF msg[d] \in nonces
         THEN Goto(d, "replay") /\ UNCHANGED <<nonces, marked, when>>
         ELSE nonces' = nonces \cup {msg[d]} /\ Marked(d, "used_nonces")
    /\ UNCHANGED <<now, stamp, sent, redis, msg, failed>>

(* Any other error of the INSERT is taken for a replay; the row may have   *)
(* been committed.                                                         *)
InsertNonceFails(d) ==
    /\ Outages
    /\ pc[d] = "fallback"
    /\ Goto(d, "replay")
    /\ nonces' \in {nonces, nonces \cup {msg[d]}}
    /\ failed' = failed \cup {d}
    /\ UNCHANGED <<now, stamp, sent, redis, msg, when, marked>>

Tick ==
    /\ now < MaxTime
    /\ \A d \in Deliveries : Pending(d) => now < when[d] + MaxDelay
    /\ now' = now + 1
    /\ UNCHANGED <<stamp, sent, redis, nonces, pc, msg, when, marked,
                   failed>>

-----------------------------------------------------------------------------
Init ==
    /\ now = 0
    /\ stamp = [m \in Messages |-> 0]
    /\ sent = {}
    /\ redis = [m \in Messages |-> -1]
    /\ nonces = {}
    /\ pc = [d \in Deliveries |-> "idle"]
    /\ msg = [d \in Deliveries |-> NoMessage]
    /\ when = [d \in Deliveries |-> 0]
    /\ marked = [store \in Stores |-> {}]
    /\ failed = {}

Handle(d) ==
    \/ \E m \in Messages : Arrive(d, m)
    \/ Verify(d) \/ SetNX(d) \/ SetNXFails(d)
    \/ InsertNonce(d) \/ InsertNonceFails(d)

Next ==
    \/ \E m \in Messages : Send(m)
    \/ \E d \in Deliveries : Handle(d)
    \/ Tick

Spec == Init /\ [][Next]_vars

-----------------------------------------------------------------------------
(* Every variable keeps the type of the value it stands for.               *)
TypeOK ==
    /\ now \in Nat
    /\ stamp \in [Messages -> Int]
    /\ sent \subseteq Messages
    /\ redis \in [Messages -> Int]
    /\ nonces \subseteq Messages
    /\ pc \in [Deliveries -> Phases]
    /\ msg \in [Deliveries -> Messages \cup {NoMessage}]
    /\ when \in [Deliveries -> Nat]
    /\ marked \in [Stores -> SUBSET Deliveries]
    /\ failed \subseteq Deliveries

MarkedInWindow(d) ==
    stamp[msg[d]] <= when[d] /\ when[d] <= stamp[msg[d]] + Window

(* A message is accepted once, however its deliveries interleave and       *)
(* however late they come, with two exceptions.  The bank's: a delivery    *)
(* whose Redis call failed asks used_nonces, which does not know what      *)
(* Redis accepted.  And that of both services: one of the two markers was  *)
(* written before the message's own time, since the client's clock is      *)
(* ahead, or after its window, since the CA's answer in authorize took     *)
(* long.                                                                   *)
OnceInWindow ==
    \A d, e \in Deliveries :
        /\ pc[d] = "accepted" /\ pc[e] = "accepted"
        /\ msg[d] = msg[e]
        => \/ d = e
           \/ AtBank(d) /\ {d, e} \cap failed # {}
           \/ ~MarkedInWindow(d) \/ ~MarkedInWindow(e)

(* Whatever the clients' clocks and the delays are: until a message's      *)
(* window ends Redis lets it pass at most twice, as two keys do not fit    *)
(* between the earliest and the latest time at which it is fresh, and      *)
(* used_nonces lets it pass once.                                          *)
AtMostTwice ==
    /\ \A d, e, g \in marked["redis"] :
          /\ msg[d] = msg[e] /\ msg[d] = msg[g]
          /\ Cardinality({d, e, g}) = 3
          => \E x \in {d, e, g} : when[x] > stamp[msg[x]] + Window
    /\ \A d, e \in marked["used_nonces"] : msg[d] = msg[e] => d = e

(* What the documents say of a TTL that equals the window: there is no     *)
(* time at which the marker of a message has expired and the message is    *)
(* still fresh.  Not so when the client's clock is ahead.                  *)
NoGap ==
    \A d \in marked["redis"] :
        Within(now, stamp[msg[d]]) => KeyAlive(msg[d])

(* REPLAY_DETECTED is right unless a store call failed: another delivery   *)
(* of the same message was there before.                                   *)
ReplayIsReal ==
    \A d \in Deliveries :
        pc[d] = "replay" /\ d \notin failed =>
            \E e \in Deliveries \ {d} :
                /\ msg[e] = msg[d]
                /\ e \in marked["redis"] \cup marked["used_nonces"] \cup failed

-----------------------------------------------------------------------------
(* The inductive invariant behind OnceInWindow and AtMostTwice.  A pending *)
(* delivery was fresh when that was checked.                               *)
PendingIsFresh ==
    \A d \in Deliveries :
        /\ pc[d] = "idle" <=> msg[d] = NoMessage
        /\ pc[d] # "idle" => msg[d] \in sent
        /\ Pending(d) => when[d] <= now /\ Within(when[d], stamp[msg[d]])

(* A marker is written no earlier than the message is fresh, and lives for *)
(* the TTL at least.                                                       *)
MarkersLive ==
    \A d \in marked["redis"] :
        /\ msg[d] \in sent
        /\ when[d] >= stamp[msg[d]] - Window
        /\ when[d] <= now
        /\ redis[msg[d]] >= when[d] + TTL

(* Two markers of one message are written more than a TTL apart.           *)
MarkersApart ==
    \A d, e \in marked["redis"] :
        d # e /\ msg[d] = msg[e] =>
            when[d] > when[e] + TTL \/ when[e] > when[d] + TTL

NoncesAreKept ==
    /\ \A d \in marked["used_nonces"] : msg[d] \in nonces
    /\ \A d, e \in marked["used_nonces"] : msg[d] = msg[e] => d = e

AcceptedIsMarked ==
    \A d \in Deliveries :
        /\ pc[d] = "accepted" => \E store \in Stores : d \in marked[store]
        /\ pc[d] = "idle" \/ Pending(d) =>
              \A store \in Stores : d \notin marked[store]
        /\ ~AtBank(d) /\ pc[d] = "verify" => d \in marked["redis"]

(* used_nonces is asked by the bank only, and after a failure.             *)
FallbackIsFailure ==
    /\ \A d \in Deliveries : pc[d] = "fallback" => AtBank(d) /\ d \in failed
    /\ \A d \in marked["used_nonces"] : AtBank(d) /\ d \in failed

(* When the markers of a message that passed IssueTGT,                     *)
(* RequestServiceTicket or authorize are written and how long they live.   *)
GuardInv ==
    /\ TypeOK
    /\ PendingIsFresh
    /\ MarkersLive
    /\ MarkersApart
    /\ NoncesAreKept
    /\ AcceptedIsMarked
    /\ FallbackIsFailure

(* A key that is in Redis, or was, was written for a delivery of that      *)
(* message, whether its caller learned of it or not.                       *)
KeysHaveWriters ==
    \A m \in Messages :
        redis[m] >= 0 => \E e \in Deliveries : /\ msg[e] = m
                                              /\ e \in marked["redis"] \cup failed

(* The inductive invariant behind ReplayIsReal; how long keys live does    *)
(* not matter for it.                                                      *)
ReplayInv ==
    /\ TypeOK
    /\ PendingIsFresh
    /\ AcceptedIsMarked
    /\ FallbackIsFailure
    /\ KeysHaveWriters
    /\ ReplayIsReal
=============================================================================
