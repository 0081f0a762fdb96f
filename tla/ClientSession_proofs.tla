------------------------ MODULE ClientSession_proofs ------------------------
(***************************************************************************)
(* Proofs about ClientSession, for any customers, any number of calls that *)
(* are under way at once, any number of transfers and any faults.          *)
(*                                                                         *)
(* None of the six properties is inductive.  ClientInv joins the five      *)
(* invariants they need, one for each piece of state that the calls pass   *)
(* around: the tickets, Home, the key pair, the ledger and the form.  The  *)
(* first part gives the effect of the building blocks of the actions on    *)
(* the calls; every later part goes through the actions once.              *)
(***************************************************************************)
EXTENDS ClientSession, TLAPS

(* One line per action.                                                    *)
LEMMA ClientSteps ==
    ASSUME Next
    PROVE  \/ OpenHome \/ Leave \/ handleLogout \/ Reload
           \/ \E c \in Customers : prepareEnrollment(c)
           \/ \E c \in Customers : RegisterAnswer(c)
           \/ \E c \in Customers : storeCertificate(c)
           \/ \E c \in Customers : GoToLogin(c)
           \/ \E c \in Customers : Revoke(c)
           \/ \E i \in Ops : LoseAnswer(i)
           \/ \E t \in Transfers : ErrorAfterPaying(t)
           \/ \E i \in Ops : TgsReply(i)
           \/ \E i \in Ops : Refused(i)
           \/ \E i \in Ops : StoreTicket(i)
           \/ \E l \in Logins : verifyPin(l)
           \/ \E l \in Logins : ReadKey(l)
           \/ \E l \in Logins : AsReply(l)
           \/ \E i \in Loads : fetchProfile(i)
           \/ \E i \in Loads : ProfileReply(i)
           \/ \E i \in Loads : ShowProfile(i)
           \/ closeModal \/ setView
           \/ \E t \in Transfers : handlePinKey(t)
           \/ \E t \in Transfers : SendTransfer(t)
           \/ \E t \in Transfers : TransferMoney(t)
           \/ \E t \in Transfers : Transfer(t)
           \/ \E t \in Transfers : TransferReply(t)
           \/ \E t \in Transfers : ShowResult(t)
           \/ \E s \in Places : Expire(s)
  BY DEF Next, Progress, TransferStep

-----------------------------------------------------------------------------
(* The building blocks.                                                    *)

(* The records that calls start from and end with.                         *)
LEMMA Records ==
    /\ IdleOp \in OpRecords /\ IdleOp.pc = "idle" /\ IdleOp.ref = "none"
    /\ \A i, why : why \in Failed =>
           /\ Thrown(i, why) \in OpRecords
           /\ Thrown(i, why).pc = IF i \in Transfers THEN why ELSE "idle"
           /\ Thrown(i, why).ref = "none"
  BY DEF IdleOp, OpRecords, Thrown, Failed, Unheard, Ended, Places

(* A call is replaced.                                                     *)
LEMMA Replacing ==
    ASSUME TypeOK, NEW i \in Ops, NEW rec \in OpRecords, op' = [op EXCEPT ![i] = rec]
    PROVE  /\ op' \in [Ops -> OpRecords]
           /\ op'[i] = rec
           /\ \A k \in Ops : k # i => op'[k] = op[k]
  BY DEF TypeOK

Pcs == Ended \union {"idle", "key", "as-sent", "tgs-sent", "tgs-store", "blob", "ap-sent",
                     "opened"}

(* A call goes on with what it has.                                        *)
LEMMA Moving ==
    ASSUME TypeOK, NEW i \in Ops, NEW pc \in Pcs, Goto(i, pc)
    PROVE  /\ op' \in [Ops -> OpRecords]
           /\ op'[i].pc = pc /\ op'[i].client = op[i].client /\ op'[i].ref = op[i].ref
           /\ op'[i].wiped = op[i].wiped /\ op'[i].signer = op[i].signer
           /\ \A k \in Ops : k # i => op'[k] = op[k]
  BY DEF TypeOK, Goto, OpRecords, Pcs

(* Tickets are discarded: the calls stay where they are, and lose the key  *)
(* if their ticket is one of these.                                        *)
LEMMA Discarding ==
    ASSUME TypeOK, NEW places
    PROVE  /\ Discarded(places) \in [Ops -> OpRecords]
           /\ \A i \in Ops : /\ Discarded(places)[i].pc = op[i].pc
                             /\ Discarded(places)[i].client = op[i].client
                             /\ op[i].ref \in places => Discarded(places)[i].ref = "gone"
                             /\ op[i].ref \in places => Discarded(places)[i].wiped
                             /\ op[i].ref \notin places => Discarded(places)[i] = op[i]
<1>1. ASSUME NEW i \in Ops
      PROVE  /\ Discarded(places)[i] \in OpRecords
             /\ Discarded(places)[i].pc = op[i].pc
             /\ Discarded(places)[i].client = op[i].client
             /\ op[i].ref \in places => Discarded(places)[i].ref = "gone"
             /\ op[i].ref \in places => Discarded(places)[i].wiped
             /\ op[i].ref \notin places => Discarded(places)[i] = op[i]
  <2>1. op[i] \in OpRecords
    BY DEF TypeOK
  <2>2. CASE op[i].ref \in places
    <3>1. Discarded(places)[i] = [op[i] EXCEPT !.ref = "gone", !.wiped = TRUE]
      BY <2>2 DEF Discarded
    <3> QED BY <2>1, <2>2, <3>1 DEF OpRecords
  <2>3. CASE op[i].ref \notin places
    <3>1. Discarded(places)[i] = op[i]
      BY <2>3 DEF Discarded
    <3> QED BY <2>1, <2>3, <3>1
  <2> QED BY <2>2, <2>3
<1>2. Discarded(places) = [i \in Ops |-> Discarded(places)[i]]
  BY DEF Discarded
<1> QED BY <1>1, <1>2

(* A call ends with an exception.                                          *)
LEMMA Failing ==
    ASSUME TypeOK, NEW i \in Ops, NEW why \in Failed, Fails(i, why)
    PROVE  /\ op' \in [Ops -> OpRecords]
           /\ op'[i].pc = IF i \in Transfers THEN why ELSE "idle"
           /\ op'[i].ref = "none"
           /\ \A k \in Ops : k # i => op'[k] = op[k]
           /\ form' \in [modal : {"entry", "processing", "success", "error"}, order : Nat,
                         op : Transfers \union {None}]
           /\ form'.op = form.op /\ form'.order = form.order
           /\ form'.modal = IF form.op = i THEN "error" ELSE form.modal
           /\ home' \in [client : Customers \union {None}, profile : Customers \union {None},
                         due : BOOLEAN, load : Loads \union {None}, started : SUBSET Transfers]
           /\ home'.client = home.client /\ home'.profile = home.profile
           /\ home'.load = home.load /\ home'.started = home.started
           /\ home = NoHome => home' = NoHome
<1>1. op' = [op EXCEPT ![i] = Thrown(i, why)]
  BY DEF Fails
<1>2. /\ op' \in [Ops -> OpRecords]
      /\ op'[i] = Thrown(i, why)
      /\ \A k \in Ops : k # i => op'[k] = op[k]
  BY <1>1, Records, Replacing
<1>3. /\ form' \in [modal : {"entry", "processing", "success", "error"}, order : Nat,
                    op : Transfers \union {None}]
      /\ form'.op = form.op /\ form'.order = form.order
      /\ form'.modal = IF form.op = i THEN "error" ELSE form.modal
  BY DEF TypeOK, Fails
<1>4. /\ home' \in [client : Customers \union {None}, profile : Customers \union {None},
                    due : BOOLEAN, load : Loads \union {None}, started : SUBSET Transfers]
      /\ home'.client = home.client /\ home'.profile = home.profile
      /\ home'.load = home.load /\ home'.started = home.started
  BY DEF TypeOK, Fails
<1>5. home = NoHome => home' = NoHome
  BY DEF Fails, NoHome
<1> QED BY <1>2, <1>3, <1>4, <1>5, Records

(* What a call begins with.                                                *)
LEMMA Beginning ==
    ASSUME TypeOK, NEW i \in Ops
    PROVE  /\ Begin(i) \in OpRecords
           /\ \/ /\ Valid(Scope(i)) /\ Begin(i).ref = Scope(i)
                 /\ Begin(i).client = held[Scope(i)].client
                 /\ ~Begin(i).wiped
                 /\ Begin(i).pc = IF i \in Transfers THEN "blob" ELSE "ap-sent"
              \/ /\ Valid("tgt") /\ Begin(i).ref = "tgt"
                 /\ Begin(i).client = held["tgt"].client
                 /\ ~Begin(i).wiped
                 /\ Begin(i).pc = "tgs-sent"
              \/ /\ Begin(i).ref = "none"
                 /\ Begin(i).pc = IF i \in Transfers THEN "refused" ELSE "idle"
<1>1. Scope(i) \in Places /\ "tgt" \in Places
  BY DEF Scope, Places, Scopes
<1>2. /\ held[Scope(i)].client \in Customers \union {None}
      /\ held["tgt"].client \in Customers \union {None}
  BY <1>1 DEF TypeOK
<1>3. CASE Valid(Scope(i))
  <2>1. Begin(i) = UseTicket(i, held[Scope(i)].client)
    BY <1>3 DEF Begin
  <2> QED BY <1>1, <1>2, <1>3, <2>1 DEF UseTicket, OpRecords, Ended
<1>4. CASE ~Valid(Scope(i)) /\ Valid("tgt")
  <2>1. Begin(i) = [IdleOp EXCEPT !.pc = "tgs-sent", !.client = held["tgt"].client, !.ref = "tgt"]
    BY <1>4 DEF Begin
  <2> QED BY <1>1, <1>2, <1>4, <2>1 DEF IdleOp, OpRecords, Ended
<1>5. CASE ~Valid(Scope(i)) /\ ~Valid("tgt")
  <2>1. Begin(i) = Thrown(i, "refused")
    BY <1>5 DEF Begin
  <2> QED BY <2>1, Records DEF Failed
<1> QED BY <1>3, <1>4, <1>5

(* A form that is mounted or cleared.                                      *)
LEMMA Blank ==
    ASSUME TypeOK
    PROVE  /\ BlankForm \in [modal : {"entry", "processing", "success", "error"}, order : Nat,
                             op : Transfers \union {None}]
           /\ BlankForm.modal = "entry" /\ BlankForm.op = None
           /\ BlankForm.order = IF \E t \in Transfers : op[t].pc # "idle" /\ bank[t].order = form.order
                                THEN form.order + 1 ELSE form.order
  BY DEF TypeOK, BlankForm

(* A ticket is stored, and the calls that had the one before it have lost  *)
(* their key.                                                              *)
LEMMA Putting ==
    ASSUME TypeOK, NEW s \in Places, NEW c \in Customers \union {None}, NEW i \in Ops,
           NEW next \in OpRecords, Put(s, c, i, next)
    PROVE  /\ held' \in [Places -> [client : Customers \union {None}, expired : BOOLEAN]]
           /\ held'[s].client = c
           /\ \A r \in Places : r # s => held'[r] = held[r]
           /\ op' \in [Ops -> OpRecords]
           /\ op'[i] = next
           /\ \A k \in Ops : k # i => op'[k] = Discarded({s})[k]
<1>1. held' = [held EXCEPT ![s] = Ticket(c)]
  BY DEF Put
<1>2. op' = [Discarded({s}) EXCEPT ![i] = next]
  BY DEF Put
<1>3. /\ held' \in [Places -> [client : Customers \union {None}, expired : BOOLEAN]]
      /\ held'[s].client = c
      /\ \A r \in Places : r # s => held'[r] = held[r]
  BY <1>1 DEF TypeOK, Ticket
<1>4. Discarded({s}) \in [Ops -> OpRecords]
  BY Discarding
<1> QED BY <1>2, <1>3, <1>4

(* Memory is emptied.                                                      *)
LEMMA Emptying ==
    ASSUME held' = [s \in Places |-> Nothing]
    PROVE  /\ held' \in [Places -> [client : Customers \union {None}, expired : BOOLEAN]]
           /\ \A s \in Places : held'[s].client = None
  BY DEF Nothing, Ticket

(* A reload ends the calls; a transfer that was begun is lost unless it    *)
(* had ended.                                                              *)
LEMMA Reloading ==
    ASSUME TypeOK, Reload
    PROVE  /\ op' \in [Ops -> OpRecords]
           /\ \A i \in Ops : /\ op'[i].ref = "none"
                             /\ i \notin Transfers => op'[i].pc = "idle"
                             /\ i \in Transfers /\ op[i].pc = "idle" => op'[i].pc = "idle"
                             /\ i \in Transfers /\ op[i].pc \in Ended => op'[i].pc = op[i].pc
                             /\ i \in Transfers /\ op[i].pc \notin Ended \union {"idle"}
                                    => op'[i].pc = "lost"
<1> DEFINE After(i) == IF i \in Transfers /\ op[i].pc # "idle"
                       THEN [IdleOp EXCEPT !.pc = IF op[i].pc \in Ended THEN op[i].pc ELSE "lost"]
                       ELSE IdleOp
<1>1. op' = [i \in Ops |-> After(i)]
  BY DEF Reload
<1>2. ASSUME NEW i \in Ops
      PROVE  /\ After(i) \in OpRecords
             /\ After(i).ref = "none"
             /\ i \notin Transfers => After(i).pc = "idle"
             /\ i \in Transfers /\ op[i].pc = "idle" => After(i).pc = "idle"
             /\ i \in Transfers /\ op[i].pc \in Ended => After(i).pc = op[i].pc
             /\ i \in Transfers /\ op[i].pc \notin Ended \union {"idle"}
                    => After(i).pc = "lost"
  BY DEF IdleOp, OpRecords, Ended
<1> HIDE DEF After
<1> QED BY <1>1, <1>2

(* The Bank decides about a transfer: only its state changes.              *)
LEMMA Deciding ==
    ASSUME TypeOK, NEW t \in Transfers,
           NEW st \in {"none", "sent", "checked", "paid", "refused"},
           bank' = [bank EXCEPT ![t].st = st]
    PROVE  /\ bank' \in [Transfers -> BankRecords]
           /\ bank'[t].st = st
           /\ bank'[t].order = bank[t].order /\ bank'[t].from = bank[t].from
           /\ bank'[t].client = bank[t].client /\ bank'[t].signer = bank[t].signer
           /\ bank'[t].late = bank[t].late
           /\ \A u \in Transfers : u # t => bank'[u] = bank[u]
<1>1. bank'[t] = [bank[t] EXCEPT !.st = st] /\ bank[t] \in BankRecords
  BY DEF TypeOK
<1>2. /\ bank'[t] \in BankRecords
      /\ bank'[t].st = st
      /\ bank'[t].order = bank[t].order /\ bank'[t].from = bank[t].from
      /\ bank'[t].client = bank[t].client /\ bank'[t].signer = bank[t].signer
      /\ bank'[t].late = bank[t].late
  BY <1>1 DEF BankRecords
<1> QED BY <1>2 DEF TypeOK

(* A transfer is begun: it gets the number of the form and the account of  *)
(* the profile.                                                            *)
LEMMA Ordering ==
    ASSUME TypeOK, NEW t \in Transfers,
           bank' = [bank EXCEPT ![t] = [NoRequest EXCEPT !.order = form.order,
                                                         !.from = home.profile]]
    PROVE  /\ bank' \in [Transfers -> BankRecords]
           /\ bank'[t].st = "none" /\ bank'[t].order = form.order /\ ~bank'[t].late
           /\ \A u \in Transfers : u # t => bank'[u] = bank[u]
<1>1. /\ bank'[t] = [NoRequest EXCEPT !.order = form.order, !.from = home.profile]
      /\ form.order \in Nat /\ home.profile \in Customers \union {None}
  BY DEF TypeOK
<1>2. /\ bank'[t] \in BankRecords
      /\ bank'[t].st = "none" /\ bank'[t].order = form.order /\ ~bank'[t].late
  BY <1>1 DEF BankRecords, NoRequest
<1> QED BY <1>2 DEF TypeOK

(* A transfer is sent under the ticket the call has, signed with the key   *)
(* that is on the device.                                                  *)
LEMMA Sending ==
    ASSUME TypeOK, NEW t \in Transfers,
           bank' = [bank EXCEPT ![t] =
                       [st |-> IF op[t].wiped THEN "refused" ELSE "sent",
                        order |-> bank[t].order, from |-> bank[t].from,
                        client |-> op[t].client, signer |-> idb.key,
                        late |-> op[t].client \in revoked]]
    PROVE  /\ bank' \in [Transfers -> BankRecords]
           /\ bank'[t].st \in {"sent", "refused"} /\ bank'[t].order = bank[t].order
           /\ bank'[t].late <=> bank'[t].client \in revoked
           /\ \A u \in Transfers : u # t => bank'[u] = bank[u]
<1>1. /\ bank'[t] = [st |-> IF op[t].wiped THEN "refused" ELSE "sent",
                     order |-> bank[t].order, from |-> bank[t].from,
                     client |-> op[t].client, signer |-> idb.key,
                     late |-> op[t].client \in revoked]
      /\ bank[t].order \in Nat /\ bank[t].from \in Customers \union {None}
      /\ op[t].client \in Customers \union {None} /\ idb.key \in Customers \union {None}
  BY DEF TypeOK, BankRecords, OpRecords, Ops
<1>2. bank'[t] \in BankRecords
  <2>1. ASSUME NEW st \in {"none", "sent", "checked", "paid", "refused"}, NEW order \in Nat,
               NEW from \in Customers \union {None}, NEW client \in Customers \union {None},
               NEW signer \in Customers \union {None}, NEW late \in BOOLEAN
        PROVE  [st |-> st, order |-> order, from |-> from, client |-> client,
                signer |-> signer, late |-> late] \in BankRecords
    BY DEF BankRecords
  <2>2. /\ (IF op[t].wiped THEN "refused" ELSE "sent")
              \in {"none", "sent", "checked", "paid", "refused"}
        /\ (op[t].client \in revoked) \in BOOLEAN
    OBVIOUS
  <2>3. [st |-> IF op[t].wiped THEN "refused" ELSE "sent",
         order |-> bank[t].order, from |-> bank[t].from, client |-> op[t].client,
         signer |-> idb.key, late |-> op[t].client \in revoked] \in BankRecords
    BY ONLY <1>1, <2>1, <2>2, Zenon
  <2> QED BY <1>1, <2>3, Zenon
<1>3. bank'[t].st \in {"sent", "refused"} /\ bank'[t].order = bank[t].order
  BY <1>1
<1>4. bank'[t].late <=> bank'[t].client \in revoked
  <2>1. bank'[t].client = op[t].client
    BY <1>1
  <2>2. bank'[t].late = (op[t].client \in revoked)
    BY <1>1
  <2> QED BY <2>1, <2>2
<1>5. bank' \in [Transfers -> BankRecords] /\ \A u \in Transfers : u # t => bank'[u] = bank[u]
  BY <1>2 DEF TypeOK
<1> QED BY <1>3, <1>4, <1>5

(* The time of a ticket is over: it stays where it is.                     *)
LEMMA Expiring ==
    ASSUME TypeOK, NEW s \in Places, held' = [held EXCEPT ![s].expired = TRUE]
    PROVE  /\ held' \in [Places -> [client : Customers \union {None}, expired : BOOLEAN]]
           /\ \A r \in Places : held'[r].client = held[r].client
<1>1. /\ held'[s] = [held[s] EXCEPT !.expired = TRUE]
      /\ held[s] \in [client : Customers \union {None}, expired : BOOLEAN]
  BY DEF TypeOK
<1>2. /\ held'[s] \in [client : Customers \union {None}, expired : BOOLEAN]
      /\ held'[s].client = held[s].client
  BY <1>1
<1> QED BY <1>2 DEF TypeOK

(* The calls' names: a login and a fetch are no transfers.                 *)
LEMMA Kinds ==
    /\ Logins \subseteq Ops /\ Loads \subseteq Ops /\ Transfers \subseteq Ops
    /\ \A l \in Logins : l \notin Transfers /\ l \notin Loads
    /\ \A i \in Loads : i \notin Transfers
    /\ None \notin Ops /\ None \notin Customers
    /\ "refused" \in Failed /\ "lost" \in Failed /\ "wiped" \in Failed /\ "error" \in Failed
    /\ {"as-sent", "tgs-store", "ap-sent", "opened"} \subseteq Pcs
    /\ "tgt" \in Places /\ \A i : Scope(i) \in Places /\ Scope(i) \in Scopes
    /\ \A s \in Scopes : s \in Places /\ s # "tgt"
  BY ClientAssumption DEF Ops, Failed, Unheard, Pcs, Places, Scopes, Scope

(* StoreTicket: the call has the new ticket, the calls that had the old    *)
(* one have nothing.                                                       *)
LEMMA Storing ==
    ASSUME TypeOK, NEW i \in Ops, StoreTicket(i)
    PROVE  /\ op[i].pc = "tgs-store"
           /\ held'[Scope(i)].client = op[i].client
           /\ \A r \in Places : r # Scope(i) => held'[r] = held[r]
           /\ op'[i].pc = IF i \in Transfers THEN "blob" ELSE "ap-sent"
           /\ op'[i].client = op[i].client /\ op'[i].ref = Scope(i) /\ ~op'[i].wiped
           /\ \A k \in Ops : k # i =>
                  /\ op'[k].pc = op[k].pc /\ op'[k].client = op[k].client
                  /\ op[k].ref = Scope(i) => op'[k].ref = "gone" /\ op'[k].wiped
                  /\ op[k].ref # Scope(i) => op'[k] = op[k]
<1>1. /\ op[i].pc = "tgs-store"
      /\ Put(Scope(i), op[i].client, i, UseTicket(i, op[i].client))
      /\ op[i].client \in Customers \union {None}
  BY DEF StoreTicket, At, TypeOK, OpRecords
<1>2. UseTicket(i, op[i].client) \in OpRecords
  BY <1>1, Kinds DEF UseTicket, OpRecords
<1>3. /\ held'[Scope(i)].client = op[i].client
      /\ \A r \in Places : r # Scope(i) => held'[r] = held[r]
      /\ op'[i] = UseTicket(i, op[i].client)
      /\ \A k \in Ops : k # i => op'[k] = Discarded({Scope(i)})[k]
  <2>1. Scope(i) \in Places
    BY Kinds
  <2> QED BY <1>1, <1>2, <2>1, Putting
<1>4. \A k \in Ops : LET d == Discarded({Scope(i)})
                     IN  /\ d[k].pc = op[k].pc /\ d[k].client = op[k].client
                         /\ op[k].ref = Scope(i) => d[k].ref = "gone" /\ d[k].wiped
                         /\ op[k].ref # Scope(i) => d[k] = op[k]
  BY Discarding
<1>5. \A k \in Ops : k # i =>
          /\ op'[k].pc = op[k].pc /\ op'[k].client = op[k].client
          /\ op[k].ref = Scope(i) => op'[k].ref = "gone" /\ op'[k].wiped
          /\ op[k].ref # Scope(i) => op'[k] = op[k]
  BY <1>3, <1>4
<1>6. /\ op'[i].pc = IF i \in Transfers THEN "blob" ELSE "ap-sent"
      /\ op'[i].client = op[i].client /\ op'[i].ref = Scope(i) /\ ~op'[i].wiped
  BY <1>3 DEF UseTicket
<1> QED BY <1>1, <1>3, <1>5, <1>6

(* AsReply: the TGT is stored, the calls that had the old one have nothing.*)
LEMMA LoggingIn ==
    ASSUME TypeOK, NEW l \in Logins, AsReply(l)
    PROVE  /\ op[l].pc = "as-sent"
           /\ held'["tgt"].client = op[l].client
           /\ \A r \in Places : r # "tgt" => held'[r] = held[r]
           /\ op'[l] = IdleOp
           /\ \A k \in Ops : k # l =>
                  /\ op'[k].pc = op[k].pc /\ op'[k].client = op[k].client
                  /\ op[k].ref = "tgt" => op'[k].ref = "gone" /\ op'[k].wiped
                  /\ op[k].ref # "tgt" => op'[k] = op[k]
<1>1. /\ op[l].pc = "as-sent" /\ Put("tgt", op[l].client, l, IdleOp)
      /\ op[l].client \in Customers \union {None}
  BY Kinds DEF AsReply, At, TypeOK, OpRecords
<1>2. /\ held'["tgt"].client = op[l].client
      /\ \A r \in Places : r # "tgt" => held'[r] = held[r]
      /\ op'[l] = IdleOp
      /\ \A k \in Ops : k # l => op'[k] = Discarded({"tgt"})[k]
  <2>1. "tgt" \in Places /\ l \in Ops
    BY Kinds
  <2>2. IdleOp \in OpRecords
    BY Records
  <2> QED BY <1>1, <2>1, <2>2, Putting
<1>3. \A k \in Ops : LET d == Discarded({"tgt"})
                     IN  /\ d[k].pc = op[k].pc /\ d[k].client = op[k].client
                         /\ op[k].ref = "tgt" => d[k].ref = "gone" /\ d[k].wiped
                         /\ op[k].ref # "tgt" => d[k] = op[k]
  BY Discarding
<1>4. \A k \in Ops : k # l =>
          /\ op'[k].pc = op[k].pc /\ op'[k].client = op[k].client
          /\ op[k].ref = "tgt" => op'[k].ref = "gone" /\ op'[k].wiped
          /\ op[k].ref # "tgt" => op'[k] = op[k]
  BY <1>2, <1>3
<1> QED BY <1>1, <1>2, <1>4

-----------------------------------------------------------------------------
(* Types.                                                                  *)

LEMMA ClientTypeInit ==
    ASSUME Init
    PROVE  TypeOK
<1> USE ClientAssumption
<1>1. plan \in Plans /\ plan.first \in Customers \union {None}
  BY DEF Init
<1>2. op \in [Ops -> OpRecords]
  BY Records DEF Init
<1>3. held \in [Places -> [client : Customers \union {None}, expired : BOOLEAN]]
  BY DEF Init, Nothing, Ticket
<1>4. bank \in [Transfers -> BankRecords]
  BY DEF Init, NoRequest, BankRecords
<1>5. home \in [client : Customers \union {None}, profile : Customers \union {None},
                due : BOOLEAN, load : Loads \union {None}, started : SUBSET Transfers]
  BY DEF Init, NoHome
<1>6. /\ idb \in [key : Customers \union {None}, cert : Customers \union {None}]
      /\ enroll \in [Customers -> {"none", "registering", "issued", "stored", "done", "failed"}]
  BY <1>1 DEF Init
<1>7. /\ form \in [modal : {"entry", "processing", "success", "error"}, order : Nat,
                   op : Transfers \union {None}]
      /\ page \in {"login", "register", "home"} /\ faults \in 0..MaxFaults
      /\ revoked \subseteq Customers /\ outlived \subseteq Customers
  BY DEF Init
<1>8. overlapped \in BOOLEAN
  BY DEF Init
<1> QED BY <1>1, <1>2, <1>3, <1>4, <1>5, <1>6, <1>7, <1>8 DEF TypeOK

LEMMA ClientTypeStep ==
    ASSUME TypeOK, Next
    PROVE  TypeOK'
<1> USE ClientAssumption
<1> USE DEF pages, histories
<1> DEFINE HeldT == held' \in [Places -> [client : Customers \union {None}, expired : BOOLEAN]]
           OpT == op' \in [Ops -> OpRecords]
           HomeT == home' \in [client : Customers \union {None},
                               profile : Customers \union {None}, due : BOOLEAN,
                               load : Loads \union {None}, started : SUBSET Transfers]
           FormT == form' \in [modal : {"entry", "processing", "success", "error"},
                               order : Nat, op : Transfers \union {None}]
<1>o. /\ Logins \subseteq Ops /\ Loads \subseteq Ops /\ Transfers \subseteq Ops
      /\ "refused" \in Failed /\ "lost" \in Failed /\ "wiped" \in Failed /\ "error" \in Failed
      /\ {"as-sent", "tgs-store", "ap-sent", "opened"} \subseteq Pcs
      /\ "tgt" \in Places /\ \A i : Scope(i) \in Places
  BY Kinds
<1>h. NoHome \in [client : Customers \union {None}, profile : Customers \union {None},
                  due : BOOLEAN, load : Loads \union {None}, started : SUBSET Transfers]
  BY DEF NoHome
<1>m. ASSUME NEW c \in Customers \union {None}
      PROVE  /\ Mounted(c) \in [client : Customers \union {None},
                                profile : Customers \union {None}, due : BOOLEAN,
                                load : Loads \union {None}, started : SUBSET Transfers]
  BY DEF Mounted, NoHome
<1>u. Unmount => HomeT /\ FormT
  BY <1>h, Blank DEF Unmount
<1>c. /\ \A i \in Ops : op[i].client \in Customers \union {None}
      /\ \A s \in Places : held[s].client \in Customers \union {None}
      /\ idb.key \in Customers \union {None} /\ idb.cert \in Customers \union {None}
  BY DEF TypeOK, OpRecords
<1>f. ASSUME NEW kind, Fault(kind) PROVE faults' \in 0..MaxFaults
  BY <1>f DEF Fault, TypeOK
<1>1. CASE OpenHome
  <2>1. HomeT
    BY <1>1, <1>c, <1>m, <1>o DEF OpenHome
  <2> QED BY <1>1, <2>1 DEF OpenHome, TypeOK
<1>2. CASE Leave
  <2>1. HomeT /\ FormT
    BY <1>2, <1>u DEF Leave, TypeOK
  <2>2. page' \in {"login", "register", "home"}
    BY <1>2 DEF Leave
  <2>3. UNCHANGED <<plan, idb, enroll, revoked, held, op, bank, faults, histories>>
    BY <1>2 DEF Leave
  <2> QED BY <2>1, <2>2, <2>3 DEF TypeOK
<1>3. CASE handleLogout
  <2>1. OpT /\ HeldT
    BY <1>3, Discarding, Emptying DEF handleLogout, ClearMemory
  <2>2. HomeT /\ FormT
    BY <1>3, <1>u DEF handleLogout
  <2>3. /\ UNCHANGED <<plan, idb, enroll, revoked, bank, faults>> /\ page' = "login"
        /\ outlived' \subseteq Customers /\ UNCHANGED overlapped
    BY <1>3 DEF handleLogout, TypeOK
  <2> QED BY <2>1, <2>2, <2>3 DEF TypeOK
<1>4. CASE Reload
  <2>1. OpT /\ HeldT
    <3>1. held' = [s \in Places |-> Nothing]
      BY <1>4 DEF Reload
    <3> QED BY <1>4, <3>1, Reloading, Emptying
  <2>2. HomeT /\ FormT
    BY <1>4, <1>u DEF Reload
  <2>3. enroll' \in [Customers -> {"none", "registering", "issued", "stored", "done", "failed"}]
    BY <1>4 DEF Reload, TypeOK
  <2>4. /\ UNCHANGED <<plan, idb, revoked, bank, overlapped>> /\ outlived' = {}
        /\ page' \in {"login", "register", "home"} /\ faults' \in 0..MaxFaults
    BY <1>4, <1>f DEF Reload, TypeOK
  <2> QED BY <2>1, <2>2, <2>3, <2>4 DEF TypeOK
<1>5. ASSUME NEW c \in Customers, prepareEnrollment(c) PROVE TypeOK'
  <2>1. overlapped' \in BOOLEAN
    BY <1>5 DEF prepareEnrollment
  <2> QED BY <1>5, <2>1 DEF prepareEnrollment, TypeOK
<1>6. ASSUME NEW c \in Customers, RegisterAnswer(c) PROVE TypeOK'
  <2>1. enroll' \in [Customers -> {"none", "registering", "issued", "stored", "done", "failed"}]
    BY <1>6 DEF RegisterAnswer, TypeOK
  <2>2. faults' \in 0..MaxFaults
    BY <1>6, <1>f DEF RegisterAnswer, TypeOK
  <2>3. UNCHANGED <<plan, idb, revoked, held, op, pages, bank, histories>>
    BY <1>6 DEF RegisterAnswer
  <2> QED BY <2>1, <2>2, <2>3 DEF TypeOK
<1>7. ASSUME NEW c \in Customers, storeCertificate(c) PROVE TypeOK'
  BY <1>7 DEF storeCertificate, TypeOK
<1>8. ASSUME NEW c \in Customers, GoToLogin(c) PROVE TypeOK'
  <2>1. HomeT /\ FormT
    BY <1>8, <1>u DEF GoToLogin
  <2> QED BY <1>8, <2>1 DEF GoToLogin, TypeOK
<1>9. ASSUME NEW c \in Customers, Revoke(c) PROVE TypeOK'
  BY <1>9, <1>f DEF Revoke, TypeOK
<1>10. ASSUME NEW i \in Ops, LoseAnswer(i) PROVE TypeOK'
  <2>1. OpT /\ HomeT /\ FormT
    BY <1>10, <1>o, Failing DEF LoseAnswer
  <2> QED BY <1>10, <1>f, <2>1 DEF LoseAnswer, TypeOK
<1>11. ASSUME NEW i \in Ops, TgsReply(i) PROVE TypeOK'
  <2>1. OpT /\ HomeT /\ FormT
    <3>1. CASE Fails(i, "wiped")
      BY <1>o, <3>1, Failing
    <3>2. CASE Goto(i, "tgs-store") /\ UNCHANGED <<form, home>>
      BY <1>o, <3>2, Moving DEF TypeOK
    <3> QED BY <1>11, <3>1, <3>2 DEF TgsReply
  <2> QED BY <1>11, <2>1 DEF TgsReply, TypeOK
<1>12. ASSUME NEW i \in Ops, Refused(i) PROVE TypeOK'
  <2>1. OpT /\ HomeT /\ FormT
    BY <1>12, <1>o, Failing DEF Refused
  <2> QED BY <1>12, <2>1 DEF Refused, TypeOK
<1>13. ASSUME NEW i \in Ops, StoreTicket(i) PROVE TypeOK'
  <2>1. UseTicket(i, op[i].client) \in OpRecords
    BY <1>c, <1>o DEF UseTicket, OpRecords
  <2>2. OpT /\ HeldT
    BY <1>13, <1>c, <1>o, <2>1, Putting DEF StoreTicket
  <2> QED BY <1>13, <2>2 DEF StoreTicket, TypeOK
<1>14. ASSUME NEW l \in Logins, verifyPin(l) PROVE TypeOK'
  <2>1. [IdleOp EXCEPT !.pc = "key", !.client = idb.cert] \in OpRecords
    BY <1>c DEF IdleOp, OpRecords
  <2>2. OpT
    BY <1>14, <1>o, <2>1, Replacing DEF verifyPin
  <2> QED BY <1>14, <2>2 DEF verifyPin, TypeOK
<1>15. ASSUME NEW l \in Logins, ReadKey(l) PROVE TypeOK'
  <2>1. OpT
    <3>1. op[l] \in OpRecords
      BY <1>o DEF TypeOK
    <3>2. [op[l] EXCEPT !.pc = "as-sent", !.signer = idb.key] \in OpRecords
      BY <1>c, <3>1 DEF OpRecords
    <3>3. op' = [op EXCEPT ![l] = [op[l] EXCEPT !.pc = "as-sent", !.signer = idb.key]]
      BY <1>15 DEF ReadKey
    <3> QED BY <1>o, <3>2, <3>3, Replacing
  <2> QED BY <1>15, <2>1 DEF ReadKey, TypeOK
<1>16. ASSUME NEW l \in Logins, AsReply(l) PROVE TypeOK'
  <2>1. OpT /\ HeldT
    BY <1>16, <1>c, <1>o, Records, Putting DEF AsReply
  <2>2. HomeT
    BY <1>16, <1>c, <1>m, <1>o DEF AsReply, TypeOK
  <2>3. /\ UNCHANGED <<plan, idb, enroll, revoked, form, bank, faults>>
        /\ page' = "home" /\ UNCHANGED overlapped
        /\ outlived' = (outlived \union Remaining) \ {None, op[l].client}
    BY <1>16 DEF AsReply
  <2>4. Remaining \subseteq Customers \union {None}
    BY <1>c, <1>o, Kinds DEF Remaining, Decrypted, TypeOK
  <2>5. outlived' \subseteq Customers
    BY <2>3, <2>4 DEF TypeOK
  <2> QED BY <2>1, <2>2, <2>3, <2>5 DEF TypeOK
<1>17. ASSUME NEW i \in Loads, fetchProfile(i) PROVE TypeOK'
  <2>1. OpT
    BY <1>17, <1>o, Beginning, Replacing DEF fetchProfile
  <2>2. HomeT
    BY <1>17 DEF fetchProfile, TypeOK
  <2> QED BY <1>17, <2>1, <2>2 DEF fetchProfile, TypeOK
<1>18. ASSUME NEW i \in Loads, ProfileReply(i) PROVE TypeOK'
  <2>1. OpT /\ HomeT /\ FormT
    <3>1. CASE Fails(i, "wiped")
      BY <1>o, <3>1, Failing
    <3>2. CASE Goto(i, "opened") /\ UNCHANGED <<form, home>>
      BY <1>o, <3>2, Moving DEF TypeOK
    <3> QED BY <1>18, <3>1, <3>2 DEF ProfileReply
  <2> QED BY <1>18, <2>1 DEF ProfileReply, TypeOK
<1>19. ASSUME NEW i \in Loads, ShowProfile(i) PROVE TypeOK'
  <2>1. OpT
    BY <1>19, <1>o, Records, Replacing DEF ShowProfile
  <2>2. HomeT
    BY <1>19, <1>c, <1>o DEF ShowProfile, TypeOK
  <2> QED BY <1>19, <2>1, <2>2 DEF ShowProfile, TypeOK
<1>20. CASE closeModal
  <2>1. FormT
    BY <1>20, Blank DEF closeModal, TypeOK
  <2> QED BY <1>20, <2>1 DEF closeModal, TypeOK
<1>21. CASE setView
  BY <1>21, Blank DEF setView, TypeOK
<1>22. ASSUME NEW t \in Transfers, handlePinKey(t) PROVE TypeOK'
  <2>1. OpT
    BY <1>22, <1>o, Beginning, Replacing DEF handlePinKey
  <2>2. FormT
    BY <1>22 DEF handlePinKey, TypeOK
  <2>3. HomeT
    BY <1>22 DEF handlePinKey, TypeOK
  <2>4. bank' \in [Transfers -> BankRecords]
    BY <1>22, Ordering DEF handlePinKey
  <2> QED BY <1>22, <2>1, <2>2, <2>3, <2>4 DEF handlePinKey, TypeOK
<1>23. ASSUME NEW t \in Transfers, SendTransfer(t) PROVE TypeOK'
  <2>1. CASE Fails(t, "refused") /\ UNCHANGED bank
    <3>1. OpT /\ HomeT /\ FormT
      BY <1>o, <2>1, Failing
    <3> QED BY <1>23, <2>1, <3>1 DEF SendTransfer, TypeOK
  <2>2. CASE ~(Fails(t, "refused") /\ UNCHANGED bank)
    <3>1. OpT
      BY <1>23, <1>o, <2>2, Moving DEF SendTransfer
    <3>2. bank' \in [Transfers -> BankRecords]
      BY <1>23, <2>2, Sending DEF SendTransfer
    <3> QED BY <1>23, <2>2, <3>1, <3>2 DEF SendTransfer, TypeOK
  <2> QED BY <2>1, <2>2
<1>24. ASSUME NEW t \in Transfers, TransferMoney(t) PROVE TypeOK'
  <2>1. bank' \in [Transfers -> BankRecords]
    BY <1>24, Deciding DEF TransferMoney
  <2> QED BY <1>24, <2>1 DEF TransferMoney, TypeOK
<1>25. ASSUME NEW t \in Transfers, Transfer(t) PROVE TypeOK'
  <2>1. bank' \in [Transfers -> BankRecords]
    BY <1>25, Deciding DEF Transfer
  <2> QED BY <1>25, <2>1 DEF Transfer, TypeOK
<1>26. ASSUME NEW t \in Transfers, TransferReply(t) PROVE TypeOK'
  <2>1. OpT /\ HomeT /\ FormT
    <3>1. CASE Fails(t, "wiped")
      BY <1>o, <3>1, Failing
    <3>2. CASE Goto(t, "opened") /\ UNCHANGED <<form, home>>
      BY <1>o, <3>2, Moving DEF TypeOK
    <3>3. CASE Fails(t, "refused")
      BY <1>o, <3>3, Failing
    <3> QED BY <1>26, <3>1, <3>2, <3>3 DEF TransferReply
  <2> QED BY <1>26, <2>1 DEF TransferReply, TypeOK
<1>27. ASSUME NEW t \in Transfers, ShowResult(t) PROVE TypeOK'
  <2>1. [IdleOp EXCEPT !.pc = "done"] \in OpRecords
    BY DEF IdleOp, OpRecords, Ended
  <2>2. OpT
    BY <1>27, <1>o, <2>1, Replacing DEF ShowResult
  <2>3. FormT /\ HomeT
    BY <1>27 DEF ShowResult, TypeOK
  <2> QED BY <1>27, <2>2, <2>3 DEF ShowResult, TypeOK
<1>28. ASSUME NEW s \in Places, Expire(s) PROVE TypeOK'
  <2>1. HeldT
    BY <1>28, Expiring DEF Expire
  <2> QED BY <1>28, <1>f, <2>1 DEF Expire, TypeOK
<1>29. ASSUME NEW t \in Transfers, ErrorAfterPaying(t) PROVE TypeOK'
  <2>1. OpT /\ HomeT /\ FormT
    BY <1>29, <1>o, Failing DEF ErrorAfterPaying
  <2> QED BY <1>29, <1>f, <2>1 DEF ErrorAfterPaying, TypeOK
<1> QED
  BY ClientSteps, <1>1, <1>2, <1>3, <1>4, <1>5, <1>6, <1>7, <1>8, <1>9, <1>10, <1>11,
     <1>12, <1>13, <1>14, <1>15, <1>16, <1>17, <1>18, <1>19, <1>20, <1>21, <1>22, <1>23,
     <1>24, <1>25, <1>26, <1>27, <1>28, <1>29
-----------------------------------------------------------------------------
(* The key pair.                                                           *)

(* Nobody else touches IndexedDB or an enrollment.                         *)
LEMMA PairUntouched ==
    ASSUME PairInv, UNCHANGED <<idb, enroll, overlapped>>
    PROVE  PairInv'
  BY DEF PairInv, KeyIsOfEnrolling, PairFits, Enrolling

LEMMA PairStep ==
    ASSUME TypeOK, PairInv, Next
    PROVE  PairInv'
<1> USE ClientAssumption
<1>t. /\ idb \in [key : Customers \union {None}, cert : Customers \union {None}]
      /\ enroll \in [Customers -> {"none", "registering", "issued", "stored", "done", "failed"}]
  BY DEF TypeOK
<1>1. CASE Reload
  <2>1. /\ UNCHANGED <<idb, overlapped>>
        /\ enroll' = [c \in Customers |->
                         IF enroll[c] \in {"registering", "issued"} THEN "failed"
                         ELSE IF enroll[c] = "stored" THEN "done" ELSE enroll[c]]
    BY <1>1 DEF Reload
  <2> QED BY <2>1, <1>t DEF PairInv, KeyIsOfEnrolling, PairFits, Enrolling
<1>2. ASSUME NEW c \in Customers, prepareEnrollment(c) PROVE PairInv'
  <2>1. /\ enroll' = [enroll EXCEPT ![c] = "registering"]
        /\ idb' = [idb EXCEPT !.key = c]
        /\ overlapped' = (overlapped \/ Enrolling # {})
    BY <1>2 DEF prepareEnrollment
  <2>2. idb'.key = c /\ enroll'[c] = "registering"
    BY <2>1, <1>t
  <2>3. CASE Enrolling = {}
    <3>1. Enrolling' \subseteq {c}
      BY <2>1, <2>3, <1>t DEF Enrolling
    <3> QED BY <2>2, <3>1 DEF PairInv, KeyIsOfEnrolling, PairFits
  <2>4. CASE Enrolling # {}
    BY <2>1, <2>4 DEF PairInv, KeyIsOfEnrolling, PairFits
  <2> QED BY <2>3, <2>4
<1>3. ASSUME NEW c \in Customers, RegisterAnswer(c) PROVE PairInv'
  <2>1. /\ enroll[c] = "registering" /\ UNCHANGED <<idb, overlapped>>
        /\ \/ enroll' = [enroll EXCEPT ![c] = "issued"]
           \/ enroll' = [enroll EXCEPT ![c] = "failed"]
    BY <1>3 DEF RegisterAnswer, histories
  <2>2. Enrolling' \subseteq Enrolling
    BY <2>1, <1>t DEF Enrolling
  <2>3. \A d \in Customers : enroll[d] \in {"registering", "issued", "failed"}
                              => enroll'[d] \in {"registering", "issued", "failed"}
    BY <2>1, <1>t
  <2> QED BY <2>1, <2>2, <2>3, <1>t DEF PairInv, KeyIsOfEnrolling, PairFits
<1>4. ASSUME NEW c \in Customers, storeCertificate(c) PROVE PairInv'
  <2>1. /\ enroll[c] = "issued" /\ enroll' = [enroll EXCEPT ![c] = "stored"]
        /\ idb' = [idb EXCEPT !.cert = c] /\ UNCHANGED overlapped
    BY <1>4 DEF storeCertificate, histories
  <2>2. c \in Enrolling /\ Enrolling' \subseteq Enrolling
    BY <2>1, <1>t DEF Enrolling
  <2>3. idb'.key = idb.key /\ idb'.cert = c
    BY <2>1, <1>t
  <2> QED BY <2>1, <2>2, <2>3 DEF PairInv, KeyIsOfEnrolling, PairFits
<1>5. ASSUME NEW c \in Customers, GoToLogin(c) PROVE PairInv'
  <2>1. /\ enroll[c] = "stored" /\ enroll' = [enroll EXCEPT ![c] = "done"]
        /\ UNCHANGED <<idb, overlapped>>
    BY <1>5 DEF GoToLogin, histories
  <2> QED BY <2>1, <1>t DEF PairInv, KeyIsOfEnrolling, PairFits, Enrolling
<1>6. CASE UNCHANGED <<idb, enroll, overlapped>>
  BY <1>6, PairUntouched
<1> QED
  BY ClientSteps, <1>1, <1>2, <1>3, <1>4, <1>5, <1>6 DEF OpenHome, Leave, handleLogout,
     Revoke, LoseAnswer, TgsReply, Refused, StoreTicket, verifyPin, ReadKey, AsReply,
     fetchProfile, ProfileReply, ShowProfile, closeModal, setView, handlePinKey,
     SendTransfer, TransferMoney, Transfer, TransferReply, ShowResult, ErrorAfterPaying,
     Expire, histories
-----------------------------------------------------------------------------
(* The ledger.                                                             *)

(* The Bank has nothing to do with it, and at most one call moves.         *)
LEMMA LedgerMove ==
    ASSUME LedgerInv, NEW i \in Ops, UNCHANGED bank, revoked \subseteq revoked',
           \A k \in Ops : k # i => op'[k].pc = op[k].pc,
           i \in Transfers =>
               /\ op'[i].pc \in {"idle", "tgs-sent", "tgs-store", "blob"} => bank[i].st = "none"
               /\ op'[i].pc \in {"opened", "done"} => bank[i].st = "paid"
               /\ op'[i].pc = "refused" => bank[i].st \in {"none", "refused"}
               /\ op'[i].pc \notin {"key", "as-sent"}
    PROVE  LedgerInv'
<1>1. LedgerFollowsCall'
  BY Kinds DEF LedgerInv, LedgerFollowsCall
<1>2. ChecksHold' /\ PayerConsents'
  BY DEF LedgerInv, ChecksHold, PayerConsents
<1> QED BY <1>1, <1>2 DEF LedgerInv

LEMMA LedgerQuiet ==
    ASSUME LedgerInv, UNCHANGED bank, revoked \subseteq revoked',
           \A t \in Transfers : op'[t].pc = op[t].pc
    PROVE  LedgerInv'
<1>1. LedgerFollowsCall'
  BY DEF LedgerInv, LedgerFollowsCall
<1>2. ChecksHold' /\ PayerConsents'
  BY DEF LedgerInv, ChecksHold, PayerConsents
<1> QED BY <1>1, <1>2 DEF LedgerInv

LEMMA LedgerStep ==
    ASSUME TypeOK, LedgerInv, Next
    PROVE  LedgerInv'
<1>f. ASSUME NEW t \in Transfers
      PROVE  /\ op[t].pc \in {"idle", "tgs-sent", "tgs-store", "blob"} => bank[t].st = "none"
             /\ op[t].pc \in {"opened", "done"} => bank[t].st = "paid"
             /\ op[t].pc = "refused" => bank[t].st \in {"none", "refused"}
             /\ op[t].pc \notin {"key", "as-sent"}
  BY DEF LedgerInv, LedgerFollowsCall
<1>1. CASE UNCHANGED <<op, bank>> /\ revoked \subseteq revoked'
  BY <1>1, LedgerQuiet
<1>2. CASE handleLogout
  <2>1. op' = Discarded(Places) /\ UNCHANGED <<bank, revoked>>
    BY <1>2 DEF handleLogout, ClearMemory
  <2> QED BY <2>1, Discarding, Kinds, LedgerQuiet
<1>3. CASE Reload
  <2>1. UNCHANGED <<bank, revoked>>
    BY <1>3 DEF Reload
  <2>2. \A t \in Transfers : op'[t].pc = op[t].pc \/ op'[t].pc = "lost"
    BY <1>3, Kinds, Reloading
  <2>3. LedgerFollowsCall'
    BY <2>1, <2>2 DEF LedgerInv, LedgerFollowsCall
  <2>4. ChecksHold' /\ PayerConsents'
    BY <2>1 DEF LedgerInv, ChecksHold, PayerConsents
  <2> QED BY <2>3, <2>4 DEF LedgerInv
<1>4. ASSUME NEW i \in Ops, LoseAnswer(i) PROVE LedgerInv'
  BY <1>4, Kinds, Failing, LedgerMove DEF LoseAnswer
<1>5. ASSUME NEW i \in Ops, TgsReply(i) PROVE LedgerInv'
  <2>1. UNCHANGED <<bank, revoked>> /\ op[i].pc = "tgs-sent"
    BY <1>5 DEF TgsReply, At
  <2>2. CASE Fails(i, "wiped")
    BY <2>1, <2>2, Kinds, Failing, LedgerMove
  <2>3. CASE Goto(i, "tgs-store")
    BY <1>f, <2>1, <2>3, Kinds, Moving, LedgerMove
  <2> QED BY <1>5, <2>2, <2>3 DEF TgsReply
<1>6. ASSUME NEW i \in Ops, Refused(i) PROVE LedgerInv'
  <2>1. /\ UNCHANGED <<bank, revoked>> /\ Fails(i, "refused")
        /\ op[i].pc \in {"as-sent", "tgs-sent"} \/ i \in Loads
    BY <1>6 DEF Refused, At
  <2> QED BY <1>f, <2>1, Kinds, Failing, LedgerMove
<1>7. ASSUME NEW i \in Ops, StoreTicket(i) PROVE LedgerInv'
  <2>1. UNCHANGED <<bank, revoked>>
    BY <1>7 DEF StoreTicket
  <2> QED BY <1>f, <1>7, <2>1, Storing, LedgerMove
<1>8. ASSUME NEW l \in Logins, verifyPin(l) \/ ReadKey(l) PROVE LedgerInv'
  <2>1. UNCHANGED <<bank, revoked>> /\ \A k \in Ops : k # l => op'[k].pc = op[k].pc
    BY <1>8, Kinds DEF verifyPin, ReadKey, TypeOK
  <2> QED BY <2>1, Kinds, LedgerMove
<1>9. ASSUME NEW l \in Logins, AsReply(l) PROVE LedgerInv'
  <2>1. UNCHANGED <<bank, revoked>>
    BY <1>9 DEF AsReply
  <2> QED BY <1>9, <2>1, Kinds, LoggingIn, LedgerMove
<1>10. ASSUME NEW i \in Loads, fetchProfile(i) \/ ShowProfile(i) PROVE LedgerInv'
  <2>1. UNCHANGED <<bank, revoked>> /\ \A k \in Ops : k # i => op'[k].pc = op[k].pc
    BY <1>10, Kinds DEF fetchProfile, ShowProfile, TypeOK
  <2> QED BY <2>1, Kinds, LedgerMove
<1>11. ASSUME NEW i \in Loads, ProfileReply(i) PROVE LedgerInv'
  <2>1. UNCHANGED <<bank, revoked>>
    BY <1>11 DEF ProfileReply
  <2>2. CASE Fails(i, "wiped")
    BY <2>1, <2>2, Kinds, Failing, LedgerMove
  <2>3. CASE Goto(i, "opened")
    BY <2>1, <2>3, Kinds, Moving, LedgerMove
  <2> QED BY <1>11, <2>2, <2>3 DEF ProfileReply
<1>12. ASSUME NEW t \in Transfers, handlePinKey(t) PROVE LedgerInv'
  <2>1. /\ UNCHANGED revoked /\ op' = [op EXCEPT ![t] = Begin(t)]
        /\ bank' = [bank EXCEPT ![t] = [NoRequest EXCEPT !.order = form.order,
                                                         !.from = home.profile]]
    BY <1>12 DEF handlePinKey
  <2>2. /\ op'[t].pc \in {"blob", "tgs-sent", "refused"}
        /\ \A u \in Transfers : u # t => op'[u] = op[u]
    BY <2>1, Kinds, Beginning, Replacing
  <2>3. /\ bank'[t].st = "none" /\ ~bank'[t].late
        /\ \A u \in Transfers : u # t => bank'[u] = bank[u]
    BY <2>1, Ordering
  <2>4. LedgerFollowsCall'
    BY <2>2, <2>3 DEF LedgerInv, LedgerFollowsCall
  <2>5. ChecksHold' /\ PayerConsents'
    BY <2>1, <2>3 DEF LedgerInv, ChecksHold, PayerConsents
  <2> QED BY <2>4, <2>5 DEF LedgerInv
<1>13. ASSUME NEW t \in Transfers, SendTransfer(t) PROVE LedgerInv'
  <2>1. op[t].pc = "blob" /\ UNCHANGED revoked
    BY <1>13 DEF SendTransfer, At
  <2>2. CASE Fails(t, "refused") /\ UNCHANGED bank
    BY <1>f, <2>1, <2>2, Kinds, Failing, LedgerMove
  <2>3. CASE ~(Fails(t, "refused") /\ UNCHANGED bank)
    <3>1. /\ op'[t].pc = "ap-sent" /\ \A u \in Transfers : u # t => op'[u] = op[u]
      BY <1>13, <2>3, Kinds, Moving DEF SendTransfer
    <3>2. /\ bank'[t].st \in {"sent", "refused"}
          /\ bank'[t].late <=> bank'[t].client \in revoked
          /\ \A u \in Transfers : u # t => bank'[u] = bank[u]
      BY <1>13, <2>3, Sending DEF SendTransfer
    <3>3. LedgerFollowsCall'
      BY <3>1, <3>2 DEF LedgerInv, LedgerFollowsCall
    <3>4. ChecksHold' /\ PayerConsents'
      BY <2>1, <3>2 DEF LedgerInv, ChecksHold, PayerConsents
    <3> QED BY <3>3, <3>4 DEF LedgerInv
  <2> QED BY <2>2, <2>3
<1>14. ASSUME NEW t \in Transfers, TransferMoney(t) PROVE LedgerInv'
  <2>1. bank[t].st = "sent" /\ UNCHANGED <<op, revoked>>
    BY <1>14 DEF TransferMoney
  <2>2. CASE /\ authorize(t) /\ verifyRSAPSS(t)
             /\ bank' = [bank EXCEPT ![t].st = "checked"]
    <3>1. LedgerFollowsCall'
      BY <2>1, <2>2, Deciding DEF LedgerInv, LedgerFollowsCall
    <3>2. bank[t].client \notin revoked /\ bank[t].signer = bank[t].client
      BY <2>2 DEF authorize, verifyRSAPSS
    <3>3. ChecksHold' /\ PayerConsents'
      BY <2>1, <2>2, <3>2, Deciding DEF LedgerInv, ChecksHold, PayerConsents
    <3> QED BY <3>1, <3>3 DEF LedgerInv
  <2>3. CASE bank' = [bank EXCEPT ![t].st = "refused"]
    <3>1. LedgerFollowsCall'
      BY <2>1, <2>3, Deciding DEF LedgerInv, LedgerFollowsCall
    <3>2. ChecksHold' /\ PayerConsents'
      BY <2>1, <2>3, Deciding DEF LedgerInv, ChecksHold, PayerConsents
    <3> QED BY <3>1, <3>2 DEF LedgerInv
  <2> QED BY <1>14, <2>2, <2>3 DEF TransferMoney
<1>15. ASSUME NEW t \in Transfers, Transfer(t) PROVE LedgerInv'
  <2>1. bank[t].st = "checked" /\ UNCHANGED <<op, revoked>>
    BY <1>15 DEF Transfer
  <2>2. CASE bank[t].from = bank[t].client /\ bank' = [bank EXCEPT ![t].st = "paid"]
    <3>1. LedgerFollowsCall'
      BY <2>1, <2>2, Deciding DEF LedgerInv, LedgerFollowsCall
    <3>2. ChecksHold' /\ PayerConsents'
      BY <2>1, <2>2, Deciding DEF LedgerInv, ChecksHold, PayerConsents
    <3> QED BY <3>1, <3>2 DEF LedgerInv
  <2>3. CASE bank' = [bank EXCEPT ![t].st = "refused"]
    <3>1. LedgerFollowsCall'
      BY <2>1, <2>3, Deciding DEF LedgerInv, LedgerFollowsCall
    <3>2. ChecksHold' /\ PayerConsents'
      BY <2>1, <2>3, Deciding DEF LedgerInv, ChecksHold, PayerConsents
    <3> QED BY <3>1, <3>2 DEF LedgerInv
  <2> QED BY <1>15, <2>2, <2>3 DEF Transfer
<1>16. ASSUME NEW t \in Transfers, TransferReply(t) PROVE LedgerInv'
  <2>1. UNCHANGED <<bank, revoked>>
    BY <1>16 DEF TransferReply
  <2>2. CASE Fails(t, "wiped")
    BY <2>1, <2>2, Kinds, Failing, LedgerMove
  <2>3. CASE bank[t].st = "paid" /\ Goto(t, "opened")
    BY <2>1, <2>3, Kinds, Moving, LedgerMove
  <2>4. CASE bank[t].st = "refused" /\ Fails(t, "refused")
    BY <2>1, <2>4, Kinds, Failing, LedgerMove
  <2> QED BY <1>16, <2>2, <2>3, <2>4 DEF TransferReply
<1>17. ASSUME NEW t \in Transfers, ShowResult(t) PROVE LedgerInv'
  <2>1. UNCHANGED <<bank, revoked>> /\ op[t].pc = "opened"
    BY <1>17 DEF ShowResult, At
  <2>2. op'[t].pc = "done" /\ \A k \in Ops : k # t => op'[k] = op[k]
    BY <1>17, Kinds DEF ShowResult, TypeOK, IdleOp
  <2> QED BY <1>f, <2>1, <2>2, Kinds, LedgerMove
<1>18. CASE \/ OpenHome \/ Leave \/ closeModal \/ setView
            \/ \E c \in Customers : prepareEnrollment(c)
            \/ \E c \in Customers : RegisterAnswer(c)
            \/ \E c \in Customers : storeCertificate(c)
            \/ \E c \in Customers : GoToLogin(c)
            \/ \E c \in Customers : Revoke(c)
            \/ \E s \in Places : Expire(s)
  BY <1>1, <1>18 DEF OpenHome, Leave, closeModal, setView, prepareEnrollment,
     RegisterAnswer, storeCertificate, GoToLogin, Revoke, Expire
<1>19. ASSUME NEW t \in Transfers, ErrorAfterPaying(t) PROVE LedgerInv'
  <2>1. UNCHANGED <<bank, revoked>> /\ Fails(t, "error")
    BY <1>19 DEF ErrorAfterPaying
  <2> QED BY <2>1, Kinds, Failing, LedgerMove
<1> QED
  BY ClientSteps, <1>2, <1>3, <1>4, <1>5, <1>6, <1>7, <1>8, <1>9, <1>10, <1>11, <1>12,
     <1>13, <1>14, <1>15, <1>16, <1>17, <1>18, <1>19
-----------------------------------------------------------------------------
(* The form.                                                               *)

(* Transfers stay where they are, and so does the form.                    *)
LEMMA FormQuiet ==
    ASSUME FormInv, UNCHANGED form,
           \A t \in Transfers : op'[t].pc = op[t].pc /\ bank'[t].order = bank[t].order,
           form.op \in Transfers \union {None}
    PROVE  FormInv'
<1>1. ModalFollowsCall'
  BY DEF FormInv, ModalFollowsCall, At
<1>2. FormsAreNumbered' /\ OneUnfailed'
  BY DEF FormInv, FormsAreNumbered, OneUnfailed, At
<1> QED BY <1>1, <1>2 DEF FormInv

(* A call moves that has not ended; its form is still processing, and is   *)
(* told if the call ends with this step.                                   *)
LEMMA FormMove ==
    ASSUME FormInv, NEW i \in Ops,
           form.op \in Transfers \union {None},
           form'.op = form.op, form'.order = form.order,
           \A t \in Transfers : bank'[t].order = bank[t].order,
           \A k \in Ops : k # i => op'[k].pc = op[k].pc,
           i \in Transfers => /\ op[i].pc \notin Failed /\ op[i].pc # "done"
                             /\ op[i].pc # "idle",
           form.op # i => form'.modal = form.modal,
           form.op = i =>
               \/ form'.modal = form.modal
               \/ form'.modal = "error" /\ op'[i].pc \in Failed
               \/ form'.modal = "success" /\ op'[i].pc = "done"
    PROVE  FormInv'
<1>k. Transfers \subseteq Ops /\ None \notin Ops
  BY Kinds
<1>1. ModalFollowsCall'
  <2>1. CASE form.op = i
    <3>1. i \in Transfers
      BY <1>k, <2>1
    <3>2. form.modal \notin {"success", "entry", "error"}
      BY <1>k, <2>1, <3>1 DEF FormInv, ModalFollowsCall, At
    <3> QED BY <1>k, <2>1, <3>1, <3>2 DEF ModalFollowsCall, At
  <2>2. CASE form.op # i
    BY <1>k, <2>2 DEF FormInv, ModalFollowsCall, At
  <2> QED BY <2>1, <2>2
<1>2. FormsAreNumbered'
  BY <1>k DEF FormInv, FormsAreNumbered, At
<1>3. OneUnfailed'
  BY <1>k DEF FormInv, OneUnfailed, At
<1> QED BY <1>1, <1>2, <1>3 DEF FormInv

(* The form is mounted anew: no transfer has its number.                   *)
LEMMA FormBlank ==
    ASSUME TypeOK, FormInv, form' = BlankForm, UNCHANGED bank,
           \A t \in Transfers : /\ op'[t].pc = "idle" <=> op[t].pc = "idle"
                                /\ op[t].pc \in Failed => op'[t].pc \in Failed
    PROVE  FormInv'
<1>1. /\ form'.modal = "entry" /\ form'.op = None
      /\ form'.order = IF \E t \in Transfers : op[t].pc # "idle" /\ bank[t].order = form.order
                       THEN form.order + 1 ELSE form.order
  BY Blank
<1>2. form.order \in Nat /\ \A t \in Transfers : bank[t].order \in Nat
  BY DEF TypeOK, BankRecords
<1>3. ModalFollowsCall'
  BY <1>1 DEF ModalFollowsCall
<1>4. \A t \in Transfers : op[t].pc # "idle" => bank[t].order <= form.order
  BY DEF FormInv, FormsAreNumbered, At
<1>5. \A t \in Transfers : op[t].pc # "idle" => bank[t].order < form'.order
  BY <1>1, <1>2, <1>4
<1>6. form'.order \in Nat
  BY <1>1, <1>2
<1>7. \A t \in Transfers : op'[t].pc # "idle" =>
          bank'[t].order <= form'.order /\ bank'[t].order # form'.order
  BY <1>2, <1>5, <1>6
<1>8. FormsAreNumbered'
  BY <1>7 DEF FormsAreNumbered, At
<1>9. OneUnfailed'
  BY DEF FormInv, OneUnfailed, At
<1> QED BY <1>3, <1>8, <1>9 DEF FormInv

(* A transfer is sent from the form: whatever was sent from it before has  *)
(* failed.                                                                 *)
LEMMA FormSends ==
    ASSUME TypeOK, FormInv, NEW t \in Transfers, handlePinKey(t)
    PROVE  FormInv'
<1>1. /\ form.modal = "entry" /\ op[t].pc = "idle"
      /\ op' = [op EXCEPT ![t] = Begin(t)]
      /\ bank' = [bank EXCEPT ![t] = [NoRequest EXCEPT !.order = form.order,
                                                       !.from = home.profile]]
      /\ form' = [form EXCEPT !.modal = IF Begin(t).pc = "refused" THEN "error" ELSE "processing",
                              !.op = t]
  BY DEF handlePinKey, Following, At
<1>2. op'[t] = Begin(t) /\ \A u \in Transfers : u # t => op'[u] = op[u]
  BY <1>1, Kinds, Beginning, Replacing
<1>3. bank'[t].order = form.order /\ \A u \in Transfers : u # t => bank'[u] = bank[u]
  BY <1>1, Ordering
<1>4. /\ form'.op = t /\ form'.order = form.order
      /\ form'.modal = IF Begin(t).pc = "refused" THEN "error" ELSE "processing"
      /\ form.order \in Nat
  BY <1>1 DEF TypeOK
<1>5. \A u \in Transfers : u # t /\ op[u].pc # "idle" /\ bank[u].order = form.order
                              => op[u].pc \in Failed
  BY <1>1 , Kinds DEF FormInv, FormsAreNumbered, ModalFollowsCall, At
<1>6. ModalFollowsCall'
  BY <1>2, <1>4 DEF ModalFollowsCall, Failed, At
<1>7. FormsAreNumbered'
  BY <1>2, <1>3, <1>4, <1>5 DEF FormInv, FormsAreNumbered, At
<1>8. OneUnfailed'
  BY <1>2, <1>3, <1>4, <1>5 DEF FormInv, OneUnfailed, At
<1> QED BY <1>6, <1>7, <1>8 DEF FormInv

LEMMA FormStep ==
    ASSUME TypeOK, FormInv, Next
    PROVE  FormInv'
<1>t. form.op \in Transfers \union {None}
  BY DEF TypeOK
<1>e. /\ \A pc \in {"as-sent", "tgs-sent", "tgs-store", "blob", "ap-sent", "opened"} :
             pc \notin Failed /\ pc # "done" /\ pc # "idle"
  BY DEF Failed, Unheard
<1>f. ASSUME NEW i \in Ops, NEW why \in Failed, Fails(i, why), UNCHANGED bank,
             op[i].pc \in {"as-sent", "tgs-sent", "tgs-store", "blob", "ap-sent", "opened"}
      PROVE  FormInv'
  <2>1. /\ form'.op = form.op /\ form'.order = form.order
        /\ form'.modal = IF form.op = i THEN "error" ELSE form.modal
        /\ op'[i].pc = IF i \in Transfers THEN why ELSE "idle"
        /\ \A k \in Ops : k # i => op'[k] = op[k]
    BY <1>f, Failing
  <2>2. form.op = i => op'[i].pc \in Failed
    BY <1>t, <2>1, Kinds
  <2> QED BY <1>e, <1>f, <1>t, <2>1, <2>2, FormMove
<1>g. ASSUME NEW i \in Ops, NEW pc \in Pcs, Goto(i, pc), UNCHANGED <<bank, form>>,
             op[i].pc \in {"as-sent", "tgs-sent", "tgs-store", "blob", "ap-sent", "opened"}
      PROVE  FormInv'
  BY <1>e, <1>g, <1>t, Moving, FormMove
<1>b. ASSUME form' = BlankForm, UNCHANGED <<bank, op>> PROVE FormInv'
  BY <1>b, FormBlank
<1>q. ASSUME UNCHANGED <<bank, op, form>> PROVE FormInv'
  BY <1>q, <1>t, FormQuiet
<1>1. CASE handleLogout
  <2>1. op' = Discarded(Places) /\ UNCHANGED bank /\ form' = BlankForm
    BY <1>1 DEF handleLogout, ClearMemory, Unmount
  <2> QED BY <2>1, Discarding, Kinds, FormBlank
<1>2. CASE Reload
  <2>1. UNCHANGED bank /\ form' = BlankForm
    BY <1>2 DEF Reload, Unmount
  <2>2. \A t \in Transfers : /\ op'[t].pc = "idle" <=> op[t].pc = "idle"
                             /\ op[t].pc \in Failed => op'[t].pc \in Failed
    BY <1>2, Kinds, Reloading DEF Ended, Failed
  <2> QED BY <2>1, <2>2, FormBlank
<1>3. ASSUME NEW i \in Ops, LoseAnswer(i) PROVE FormInv'
  BY <1>3, <1>f, Kinds DEF LoseAnswer
<1>4. ASSUME NEW i \in Ops, TgsReply(i) PROVE FormInv'
  BY <1>4, <1>f, <1>g, Kinds DEF TgsReply, At
<1>5. ASSUME NEW i \in Ops, Refused(i) PROVE FormInv'
  BY <1>5, <1>f, Kinds DEF Refused, At
<1>6. ASSUME NEW i \in Ops, StoreTicket(i) PROVE FormInv'
  <2>1. UNCHANGED <<bank, form>>
    BY <1>6 DEF StoreTicket, pages
  <2> QED BY <1>6, <1>e, <1>t, <2>1, Storing, FormMove
<1>7. ASSUME NEW l \in Logins, verifyPin(l) \/ ReadKey(l) PROVE FormInv'
  <2>1. UNCHANGED <<bank, form>> /\ \A k \in Ops : k # l => op'[k].pc = op[k].pc
    BY <1>7, Kinds DEF verifyPin, ReadKey, TypeOK, pages
  <2> QED BY <1>t, <2>1, Kinds, FormQuiet
<1>8. ASSUME NEW l \in Logins, AsReply(l) PROVE FormInv'
  <2>1. UNCHANGED <<bank, form>>
    BY <1>8 DEF AsReply
  <2> QED BY <1>8, <1>t, <2>1, Kinds, LoggingIn, FormQuiet
<1>9. ASSUME NEW i \in Loads, fetchProfile(i) \/ ShowProfile(i) PROVE FormInv'
  <2>1. UNCHANGED <<bank, form>> /\ \A k \in Ops : k # i => op'[k].pc = op[k].pc
    BY <1>9, Kinds DEF fetchProfile, ShowProfile, TypeOK
  <2> QED BY <1>t, <2>1, Kinds, FormQuiet
<1>10. ASSUME NEW i \in Loads, ProfileReply(i) PROVE FormInv'
  BY <1>10, <1>f, <1>g, Kinds DEF ProfileReply, At
<1>11. CASE closeModal
  <2>1. CASE form.modal = "success"
    BY <1>11, <1>b, <2>1 DEF closeModal
  <2>2. CASE form.modal # "success"
    <3>1. /\ form.modal = "error" /\ form' = [form EXCEPT !.modal = "entry"]
          /\ UNCHANGED <<op, bank>>
      BY <1>11, <2>2 DEF closeModal
    <3>2. form'.modal = "entry" /\ form'.op = form.op /\ form'.order = form.order
      BY <3>1 DEF TypeOK
    <3>3. ModalFollowsCall'
      BY <3>1, <3>2 DEF FormInv, ModalFollowsCall, At
    <3>4. FormsAreNumbered' /\ OneUnfailed'
      BY <3>1, <3>2 DEF FormInv, FormsAreNumbered, OneUnfailed, At
    <3> QED BY <3>3, <3>4 DEF FormInv
  <2> QED BY <2>1, <2>2
<1>12. ASSUME NEW t \in Transfers, SendTransfer(t) PROVE FormInv'
  <2>1. op[t].pc = "blob"
    BY <1>12 DEF SendTransfer, At
  <2>2. CASE Fails(t, "refused") /\ UNCHANGED bank
    BY <1>f, <2>1, <2>2, Kinds
  <2>3. CASE ~(Fails(t, "refused") /\ UNCHANGED bank)
    <3>1. /\ op'[t].pc = "ap-sent" /\ \A k \in Ops : k # t => op'[k] = op[k]
      BY <1>12, <2>3, Kinds, Moving DEF SendTransfer
    <3>2. \A u \in Transfers : bank'[u].order = bank[u].order
      BY <1>12, <2>3, Sending DEF SendTransfer
    <3>3. UNCHANGED form
      BY <1>12, <2>3 DEF SendTransfer
    <3> QED BY <1>e, <1>t, <2>1, <3>1, <3>2, <3>3, Kinds, FormMove
  <2> QED BY <2>2, <2>3
<1>13. ASSUME NEW t \in Transfers, TransferMoney(t) \/ Transfer(t) PROVE FormInv'
  <2>1. UNCHANGED <<op, form>> /\ \A u \in Transfers : bank'[u].order = bank[u].order
    BY <1>13, Deciding DEF TransferMoney, Transfer, pages
  <2> QED BY <1>t, <2>1, FormQuiet
<1>14. ASSUME NEW t \in Transfers, TransferReply(t) PROVE FormInv'
  BY <1>14, <1>f, <1>g, Kinds DEF TransferReply, At
<1>15. ASSUME NEW t \in Transfers, ShowResult(t) PROVE FormInv'
  <2>1. UNCHANGED bank /\ op[t].pc = "opened"
    BY <1>15 DEF ShowResult, At
  <2>2. op'[t].pc = "done" /\ \A k \in Ops : k # t => op'[k] = op[k]
    BY <1>15, Kinds DEF ShowResult, TypeOK, IdleOp
  <2>3. /\ form'.op = form.op /\ form'.order = form.order
        /\ form'.modal = IF form.op = t THEN "success" ELSE form.modal
    BY <1>15 DEF ShowResult, TypeOK
  <2> QED BY <1>e, <1>t, <2>1, <2>2, <2>3, Kinds, FormMove
<1>16. CASE \/ OpenHome
            \/ \E c \in Customers : prepareEnrollment(c)
            \/ \E c \in Customers : RegisterAnswer(c)
            \/ \E c \in Customers : storeCertificate(c)
            \/ \E c \in Customers : Revoke(c)
            \/ \E s \in Places : Expire(s)
  BY <1>q, <1>16 DEF OpenHome, prepareEnrollment, RegisterAnswer, storeCertificate, Revoke,
     Expire, pages
<1>17. CASE \/ Leave \/ setView \/ \E c \in Customers : GoToLogin(c)
  BY <1>b, <1>q, <1>17 DEF Leave, setView, GoToLogin, Unmount
<1>18. ASSUME NEW t \in Transfers, ErrorAfterPaying(t) PROVE FormInv'
  BY <1>18, <1>f, Kinds DEF ErrorAfterPaying, At
<1> QED
  BY ClientSteps, FormSends, <1>1, <1>2, <1>3, <1>4, <1>5, <1>6, <1>7, <1>8, <1>9, <1>10,
     <1>11, <1>12, <1>13, <1>14, <1>15, <1>16, <1>17, <1>18
-----------------------------------------------------------------------------
(* The tickets.                                                            *)

(* What TicketInv says of one call, given the tickets that are held.       *)
RefIsLive(i) ==
    /\ op[i].ref \in Places => /\ Present(op[i].ref) /\ ~op[i].wiped
                               /\ op[i].client = held[op[i].ref].client
    /\ At(i, "tgs-sent") => op[i].ref = "tgt" \/ op[i].wiped
    /\ op[i].pc \in {"blob", "ap-sent"} => op[i].ref \in Scopes \/ op[i].wiped
    /\ op[i].pc \in {"key", "as-sent", "tgs-sent", "tgs-store"} => op[i].client # None

StoreIsOwn(i) ==
    At(i, "tgs-store") => op[i].client \in {held["tgt"].client} \union outlived

LEMMA TicketParts ==
    /\ RefsAreLive <=> \A i \in Ops : RefIsLive(i)
    /\ StoresAreOwn <=> \A i \in Ops : StoreIsOwn(i)
  BY DEF RefsAreLive, RefIsLive, StoresAreOwn, StoreIsOwn, Decrypted

(* The tickets stay, and at most one call moves.                           *)
LEMMA TicketMove ==
    ASSUME TicketInv, NEW i \in Ops,
           \A s \in Places : held'[s].client = held[s].client,
           outlived \subseteq outlived',
           \A k \in Ops : k # i => op'[k] = op[k],
           RefIsLive(i)', StoreIsOwn(i)'
    PROVE  TicketInv'
<1>1. ASSUME NEW k \in Ops PROVE RefIsLive(k)' /\ StoreIsOwn(k)'
  <2>1. CASE k = i
    BY <2>1
  <2>2. CASE k # i
    <3>1. op'[k] = op[k]
      BY <2>2
    <3>2. RefIsLive(k) /\ StoreIsOwn(k)
      BY TicketParts DEF TicketInv
    <3>3. RefIsLive(k)'
      BY <3>1, <3>2, Kinds DEF RefIsLive, At, Present
    <3>4. StoreIsOwn(k)'
      BY <3>1, <3>2, Kinds DEF StoreIsOwn, At
    <3> QED BY <3>3, <3>4
  <2> QED BY <2>1, <2>2
<1>2. RefsAreLive'
  BY <1>1 DEF RefsAreLive, RefIsLive
<1>3. StoresAreOwn'
  BY <1>1 DEF StoresAreOwn, StoreIsOwn, Decrypted
<1>4. OwnTickets'
  BY Kinds DEF TicketInv, OwnTickets, Present
<1> QED BY <1>2, <1>3, <1>4 DEF TicketInv

(* No call moves at all.                                                   *)
LEMMA TicketQuiet ==
    ASSUME TicketInv, UNCHANGED op,
           \A s \in Places : held'[s].client = held[s].client,
           outlived \subseteq outlived'
    PROVE  TicketInv'
<1>1. RefsAreLive'
  BY DEF TicketInv, RefsAreLive, At, Present
<1>2. StoresAreOwn'
  BY Kinds DEF TicketInv, StoresAreOwn, Decrypted, At
<1>3. OwnTickets'
  BY Kinds DEF TicketInv, OwnTickets, Present
<1> QED BY <1>1, <1>2, <1>3 DEF TicketInv

(* Memory is empty: nobody has a ticket, and none waits to be stored       *)
(* unless that is noted.                                                   *)
LEMMA TicketEmpty ==
    ASSUME TicketInv, \A s \in Places : held'[s].client = None,
           \A i \in Ops : /\ op'[i].ref \notin Places
                          /\ op'[i].pc \in {"tgs-sent", "blob", "ap-sent"} => op'[i].wiped
                          /\ op'[i].pc \in {"key", "as-sent", "tgs-sent", "tgs-store"}
                                 => op'[i].client # None
                          /\ op'[i].pc = "tgs-store" => op'[i].client \in outlived'
    PROVE  TicketInv'
<1>1. RefsAreLive'
  BY DEF RefsAreLive, At
<1>2. StoresAreOwn'
  BY DEF StoresAreOwn, Decrypted, At
<1>3. OwnTickets'
  BY Kinds DEF OwnTickets, Present
<1> QED BY <1>1, <1>2, <1>3 DEF TicketInv

(* A service ticket is stored.                                             *)
LEMMA TicketStored ==
    ASSUME TypeOK, TicketInv, NEW i \in Ops, StoreTicket(i)
    PROVE  TicketInv'
<1>2. UNCHANGED outlived
  BY DEF StoreTicket, histories
<1>3. op[i].client # None /\ op[i].client \in {held["tgt"].client} \union outlived
  BY Storing DEF TicketInv, RefsAreLive, StoresAreOwn, Decrypted, At
<1>4. ASSUME NEW k \in Ops PROVE RefIsLive(k)' /\ StoreIsOwn(k)'
  <2>1. CASE k = i
    <3>1. /\ op'[k].pc \in {"blob", "ap-sent"} /\ op'[k].ref = Scope(i) /\ ~op'[k].wiped
          /\ op'[k].client = held'[Scope(i)].client /\ op'[k].client # None
      BY <1>3, <2>1, Storing
    <3> QED BY <3>1, Kinds DEF RefIsLive, StoreIsOwn, At, Present
  <2>2. CASE k # i
    <3>1. RefIsLive(k) /\ StoreIsOwn(k)
      BY TicketParts DEF TicketInv
    <3>2. CASE op[k].ref = Scope(i)
      <4>1. /\ op'[k].pc = op[k].pc /\ op'[k].client = op[k].client
            /\ op'[k].ref = "gone" /\ op'[k].wiped
        BY <2>2, <3>2, Storing
      <4>2. RefIsLive(k)'
        BY <3>1, <4>1 DEF RefIsLive, At, Places, Scopes
      <4>3. held'["tgt"] = held["tgt"]
        BY Storing, Kinds
      <4>4. StoreIsOwn(k)'
        BY <1>2, <3>1, <4>1, <4>3 DEF StoreIsOwn, At
      <4> QED BY <4>2, <4>4
    <3>3. CASE op[k].ref # Scope(i)
      <4>1. op'[k] = op[k]
        BY <2>2, <3>3, Storing
      <4>2. \A r \in Places : r # Scope(i) => held'[r] = held[r]
        BY Storing
      <4>3. RefIsLive(k)'
        BY <3>1, <3>3, <4>1, <4>2 DEF RefIsLive, At, Present
      <4>4. StoreIsOwn(k)'
        BY <1>2, <3>1, <4>1, <4>2, Kinds DEF StoreIsOwn, At
      <4> QED BY <4>3, <4>4
    <3> QED BY <3>2, <3>3
  <2> QED BY <2>1, <2>2
<1>5. RefsAreLive'
  BY <1>4 DEF RefsAreLive, RefIsLive
<1>6. StoresAreOwn'
  BY <1>4 DEF StoresAreOwn, StoreIsOwn, Decrypted
<1>7. OwnTickets'
  <2>1. /\ held'[Scope(i)].client = op[i].client
        /\ \A r \in Places : r # Scope(i) => held'[r] = held[r]
    BY Storing
  <2> QED BY <1>2, <1>3, <2>1, Kinds DEF TicketInv, OwnTickets, Present
<1> QED BY <1>5, <1>6, <1>7 DEF TicketInv

(* A TGT is stored.  What is left of another customer has outlived his     *)
(* session.                                                                *)
LEMMA TicketLogin ==
    ASSUME TypeOK, TicketInv, NEW l \in Logins, AsReply(l)
    PROVE  TicketInv'
<1>1. outlived' = (outlived \union Remaining) \ {None, op[l].client}
  BY DEF AsReply
<1>2. /\ \A s \in Scopes : held[s].client \in Remaining
      /\ \A k \in Ops : op[k].pc = "tgs-store" => op[k].client \in Remaining
  BY DEF Remaining, Decrypted, At
<1>3. op[l].client # None
  BY Kinds, LoggingIn DEF TicketInv, RefsAreLive
<1>4. ASSUME NEW k \in Ops PROVE RefIsLive(k)' /\ StoreIsOwn(k)'
  <2>1. CASE k = l
    <3>1. op'[k].pc = "idle" /\ op'[k].ref = "none"
      BY <2>1, LoggingIn, Records
    <3> QED BY <3>1 DEF RefIsLive, StoreIsOwn, At, Places, Scopes
  <2>2. CASE k # l
    <3>1. RefIsLive(k) /\ StoreIsOwn(k)
      BY TicketParts DEF TicketInv
    <3>2. StoreIsOwn(k)'
      <4>1. /\ op'[k].pc = op[k].pc /\ op'[k].client = op[k].client
            /\ held'["tgt"].client = op[l].client
        BY <2>2, LoggingIn
      <4>2. op[k].pc = "tgs-store" => op[k].client # None
        BY <3>1 DEF RefIsLive
      <4> QED BY <1>1, <1>2, <4>1, <4>2 DEF StoreIsOwn, At
    <3>3. CASE op[k].ref = "tgt"
      <4>1. /\ op'[k].pc = op[k].pc /\ op'[k].client = op[k].client
            /\ op'[k].ref = "gone" /\ op'[k].wiped
        BY <2>2, <3>3, LoggingIn
      <4> QED BY <3>1, <3>2, <4>1 DEF RefIsLive, At, Places, Scopes
    <3>4. CASE op[k].ref # "tgt"
      <4>1. op'[k] = op[k] /\ \A r \in Places : r # "tgt" => held'[r] = held[r]
        BY <2>2, <3>4, LoggingIn
      <4> QED BY <3>1, <3>2, <3>4, <4>1 DEF RefIsLive, At, Present
    <3> QED BY <3>3, <3>4
  <2> QED BY <2>1, <2>2
<1>5. RefsAreLive'
  BY <1>4 DEF RefsAreLive, RefIsLive
<1>6. StoresAreOwn'
  BY <1>4 DEF StoresAreOwn, StoreIsOwn, Decrypted
<1>7. OwnTickets'
  <2>1. /\ held'["tgt"].client = op[l].client
        /\ \A r \in Places : r # "tgt" => held'[r] = held[r]
    BY LoggingIn
  <2> QED BY <1>1, <1>2, <2>1, Kinds DEF OwnTickets, Present
<1> QED BY <1>5, <1>6, <1>7 DEF TicketInv
(* A call ends with an exception: it has no ticket any more.               *)
LEMMA TicketFails ==
    ASSUME TypeOK, TicketInv, NEW i \in Ops, NEW why \in Failed, Fails(i, why),
           UNCHANGED <<held, outlived>>
    PROVE  TicketInv'
<1>1. /\ op'[i].pc \in {"refused", "lost", "error", "wiped", "idle"} /\ op'[i].ref = "none"
      /\ \A k \in Ops : k # i => op'[k] = op[k]
  BY Failing DEF Failed, Unheard
<1>2. RefIsLive(i)' /\ StoreIsOwn(i)'
  BY <1>1 DEF RefIsLive, StoreIsOwn, At, Places, Scopes
<1> QED BY <1>1, <1>2, TicketMove

(* A call goes on with the ticket it has.  A TGS reply that could be       *)
(* opened was got with the session that is there.                          *)
LEMMA TicketGoes ==
    ASSUME TypeOK, TicketInv, NEW i \in Ops, NEW pc \in {"tgs-store", "ap-sent", "opened"},
           Goto(i, pc), UNCHANGED <<held, outlived>>,
           pc = "tgs-store" => op[i].pc = "tgs-sent" /\ ~op[i].wiped,
           pc = "ap-sent" => op[i].pc = "blob"
    PROVE  TicketInv'
<1>1. /\ op'[i].pc = pc /\ op'[i].client = op[i].client /\ op'[i].ref = op[i].ref
      /\ op'[i].wiped = op[i].wiped
      /\ \A k \in Ops : k # i => op'[k] = op[k]
  BY Kinds, Moving
<1>2. RefIsLive(i)
  BY TicketParts DEF TicketInv
<1>3. RefIsLive(i)'
  BY <1>1, <1>2 DEF RefIsLive, At, Present
<1>4. StoreIsOwn(i)'
  BY <1>1, <1>2, Kinds DEF RefIsLive, StoreIsOwn, At
<1> QED BY <1>1, <1>3, <1>4, TicketMove

(* A call begins with a ticket that is held.                               *)
LEMMA TicketBegins ==
    ASSUME TypeOK, TicketInv, NEW i \in Ops, op' = [op EXCEPT ![i] = Begin(i)],
           UNCHANGED <<held, outlived>>
    PROVE  TicketInv'
<1>1. op'[i] = Begin(i) /\ \A k \in Ops : k # i => op'[k] = op[k]
  BY Beginning, Replacing
<1>2. CASE /\ Valid(Scope(i)) /\ op'[i].ref = Scope(i)
           /\ op'[i].client = held[Scope(i)].client /\ ~op'[i].wiped
           /\ op'[i].pc = IF i \in Transfers THEN "blob" ELSE "ap-sent"
  <2>1. RefIsLive(i)' /\ StoreIsOwn(i)'
    BY <1>2, Kinds DEF RefIsLive, StoreIsOwn, At, Present, Valid
  <2> QED BY <1>1, <2>1, TicketMove
<1>3. CASE /\ Valid("tgt") /\ op'[i].ref = "tgt"
           /\ op'[i].client = held["tgt"].client /\ ~op'[i].wiped
           /\ op'[i].pc = "tgs-sent"
  <2>1. RefIsLive(i)' /\ StoreIsOwn(i)'
    BY <1>3 DEF RefIsLive, StoreIsOwn, At, Present, Valid
  <2> QED BY <1>1, <2>1, TicketMove
<1>4. CASE op'[i].ref = "none" /\ op'[i].pc = IF i \in Transfers THEN "refused" ELSE "idle"
  <2>1. RefIsLive(i)' /\ StoreIsOwn(i)'
    BY <1>4 DEF RefIsLive, StoreIsOwn, At, Places, Scopes
  <2> QED BY <1>1, <2>1, TicketMove
<1> QED BY <1>1, <1>2, <1>3, <1>4, Beginning

LEMMA TicketStep ==
    ASSUME TypeOK, TicketInv, Next
    PROVE  TicketInv'
<1> USE DEF histories
<1>1. CASE handleLogout
  <2>1. /\ op' = Discarded(Places) /\ held' = [s \in Places |-> Nothing]
        /\ outlived' = {c \in Customers : \E i \in Decrypted : op[i].client = c}
    BY <1>1 DEF handleLogout, ClearMemory
  <2>2. ASSUME NEW i \in Ops
        PROVE  /\ op'[i].ref \notin Places
               /\ op'[i].pc \in {"tgs-sent", "blob", "ap-sent"} => op'[i].wiped
               /\ op'[i].pc \in {"key", "as-sent", "tgs-sent", "tgs-store"}
                      => op'[i].client # None
               /\ op'[i].pc = "tgs-store" => op'[i].client \in outlived'
    <3>1. RefIsLive(i)
      BY TicketParts DEF TicketInv
    <3>2. /\ op'[i].pc = op[i].pc /\ op'[i].client = op[i].client
          /\ op[i].ref \in Places => op'[i].ref = "gone" /\ op'[i].wiped
          /\ op[i].ref \notin Places => op'[i] = op[i]
      BY <2>1, Discarding
    <3>3. "gone" \notin Places
      BY DEF Places, Scopes
    <3>4. op[i].pc = "tgs-store" => op[i].client \in outlived'
      <4>1. op[i].client \in Customers \union {None}
        BY DEF TypeOK, OpRecords
      <4> QED BY <2>1, <3>1, <4>1 DEF RefIsLive, Decrypted, At
    <3> QED BY <3>1, <3>2, <3>3, <3>4, Kinds DEF RefIsLive, At
  <2> QED BY <2>1, <2>2, Emptying, TicketEmpty
<1>2. CASE Reload
  <2>1. held' = [s \in Places |-> Nothing]
    BY <1>2 DEF Reload
  <2>2. \A i \in Ops : op'[i].ref = "none" /\ op'[i].pc \in Ended \union {"idle"}
    BY <1>2, Reloading DEF Ended
  <2>3. \A i \in Ops : /\ op'[i].ref \notin Places
                       /\ op'[i].pc \notin {"key", "as-sent", "tgs-sent", "tgs-store",
                                             "blob", "ap-sent"}
    BY <2>2 DEF Ended, Places, Scopes
  <2> QED BY <2>1, <2>3, Emptying, TicketEmpty
<1>3. ASSUME NEW i \in Ops, LoseAnswer(i) PROVE TicketInv'
  BY <1>3, Kinds, TicketFails DEF LoseAnswer
<1>4. ASSUME NEW i \in Ops, TgsReply(i) PROVE TicketInv'
  BY <1>4, Kinds, TicketFails, TicketGoes DEF TgsReply, At
<1>5. ASSUME NEW i \in Ops, Refused(i) PROVE TicketInv'
  BY <1>5, Kinds, TicketFails DEF Refused
<1>6. ASSUME NEW l \in Logins, verifyPin(l) PROVE TicketInv'
  <2>1. /\ UNCHANGED <<held, outlived>> /\ idb.cert # None /\ idb.cert \in Customers \union {None}
        /\ op' = [op EXCEPT ![l] = [IdleOp EXCEPT !.pc = "key", !.client = idb.cert]]
    BY <1>6 DEF verifyPin, TypeOK
  <2>2. /\ op'[l].pc = "key" /\ op'[l].client # None /\ op'[l].ref = "none"
        /\ \A k \in Ops : k # l => op'[k] = op[k]
    BY <2>1, Kinds DEF IdleOp, TypeOK
  <2>3. RefIsLive(l)' /\ StoreIsOwn(l)'
    BY <2>2 DEF RefIsLive, StoreIsOwn, At, Places, Scopes
  <2> QED BY <2>1, <2>2, <2>3, Kinds, TicketMove
<1>7. ASSUME NEW l \in Logins, ReadKey(l) PROVE TicketInv'
  <2>1. /\ UNCHANGED <<held, outlived>> /\ op[l].pc = "key"
        /\ op' = [op EXCEPT ![l] = [op[l] EXCEPT !.pc = "as-sent", !.signer = idb.key]]
    BY <1>7 DEF ReadKey, At
  <2>2. /\ op'[l].pc = "as-sent" /\ op'[l].client = op[l].client /\ op'[l].ref = op[l].ref
        /\ op'[l].wiped = op[l].wiped
        /\ \A k \in Ops : k # l => op'[k] = op[k]
    BY <2>1, Kinds DEF TypeOK, OpRecords
  <2>3. RefIsLive(l)
    BY Kinds, TicketParts DEF TicketInv
  <2>4. RefIsLive(l)'
    BY <2>1, <2>2, <2>3 DEF RefIsLive, At, Present
  <2>5. StoreIsOwn(l)'
    BY <2>2 DEF StoreIsOwn, At
  <2> QED BY <2>1, <2>2, <2>4, <2>5, Kinds, TicketMove
<1>8. ASSUME NEW i \in Loads, fetchProfile(i) PROVE TicketInv'
  BY <1>8, Kinds, TicketBegins DEF fetchProfile
<1>9. ASSUME NEW i \in Loads, ProfileReply(i) PROVE TicketInv'
  BY <1>9, Kinds, TicketFails, TicketGoes DEF ProfileReply
<1>10. ASSUME NEW i \in Loads, ShowProfile(i) PROVE TicketInv'
  <2>1. /\ UNCHANGED <<held, outlived>> /\ op'[i] = IdleOp
        /\ \A k \in Ops : k # i => op'[k] = op[k]
    BY <1>10, Kinds, Records, Replacing DEF ShowProfile
  <2>2. RefIsLive(i)' /\ StoreIsOwn(i)'
    BY <2>1, Records DEF RefIsLive, StoreIsOwn, At, Places, Scopes
  <2> QED BY <2>1, <2>2, Kinds, TicketMove
<1>11. ASSUME NEW t \in Transfers, handlePinKey(t) PROVE TicketInv'
  BY <1>11, Kinds, TicketBegins DEF handlePinKey
<1>12. ASSUME NEW t \in Transfers, SendTransfer(t) PROVE TicketInv'
  BY <1>12, Kinds, TicketFails, TicketGoes DEF SendTransfer, At
<1>13. ASSUME NEW t \in Transfers, TransferReply(t) PROVE TicketInv'
  BY <1>13, Kinds, TicketFails, TicketGoes DEF TransferReply
<1>14. ASSUME NEW t \in Transfers, ShowResult(t) PROVE TicketInv'
  <2>1. /\ UNCHANGED <<held, outlived>> /\ op'[t] = [IdleOp EXCEPT !.pc = "done"]
        /\ \A k \in Ops : k # t => op'[k] = op[k]
    BY <1>14, Kinds DEF ShowResult, TypeOK
  <2>2. op'[t].pc = "done" /\ op'[t].ref = "none"
    BY <2>1 DEF IdleOp
  <2>3. RefIsLive(t)' /\ StoreIsOwn(t)'
    BY <2>2 DEF RefIsLive, StoreIsOwn, At, Places, Scopes
  <2> QED BY <2>1, <2>3, Kinds, TicketMove
<1>15. ASSUME NEW s \in Places, Expire(s) PROVE TicketInv'
  BY <1>15, Expiring, TicketQuiet DEF Expire
<1>16. CASE \/ OpenHome \/ Leave \/ closeModal \/ setView
            \/ \E c \in Customers : prepareEnrollment(c)
            \/ \E c \in Customers : RegisterAnswer(c)
            \/ \E c \in Customers : storeCertificate(c)
            \/ \E c \in Customers : GoToLogin(c)
            \/ \E c \in Customers : Revoke(c)
            \/ \E t \in Transfers : TransferMoney(t)
            \/ \E t \in Transfers : Transfer(t)
  <2>1. UNCHANGED <<op, held>> /\ outlived \subseteq outlived'
    BY <1>16 DEF OpenHome, Leave, closeModal, setView, prepareEnrollment, RegisterAnswer,
       storeCertificate, GoToLogin, Revoke, TransferMoney, Transfer
  <2> QED BY <2>1, TicketQuiet
<1>17. ASSUME NEW t \in Transfers, ErrorAfterPaying(t) PROVE TicketInv'
  BY <1>17, Kinds, TicketFails DEF ErrorAfterPaying
<1> QED
  BY ClientSteps, TicketStored, TicketLogin, <1>1, <1>2, <1>3, <1>4, <1>5, <1>6, <1>7, <1>8,
     <1>9, <1>10, <1>11, <1>12, <1>13, <1>14, <1>15, <1>16, <1>17

-----------------------------------------------------------------------------
(* Home.                                                                   *)

(* Home is not mounted.                                                    *)
LEMMA HomeGone ==
    ASSUME page' # "home", home' = NoHome
    PROVE  HomeInv'
  BY DEF HomeInv, HomeFollowsPage, LoadIsOwn, ProfileIsOwn, NoHome

(* Home keeps its customer, the fetch it waits for and what it shows, and  *)
(* the fetch goes on for the same customer.                                *)
LEMMA HomeQuiet ==
    ASSUME TypeOK, HomeInv, UNCHANGED page, outlived \subseteq outlived',
           home'.client = home.client, home'.profile = home.profile, home'.load = home.load,
           home = NoHome => home' = NoHome,
           held'["tgt"].client = held["tgt"].client,
           \A i \in Loads : Showable(i)' => Showable(i) /\ op'[i].client = op[i].client
    PROVE  HomeInv'
<1>1. home.load \in Loads \union {None}
  BY DEF TypeOK
<1>2. HomeFollowsPage'
  BY <1>1 DEF HomeInv, HomeFollowsPage, Present
<1>3. LoadIsOwn'
  BY <1>1 DEF HomeInv, LoadIsOwn, Showable
<1>4. ProfileIsOwn'
  BY <1>1 DEF HomeInv, ProfileIsOwn
<1> QED BY <1>2, <1>3, <1>4 DEF HomeInv

(* Home is mounted over a session.                                         *)
LEMMA HomeMounted ==
    ASSUME NEW c, page' = "home", home' = Mounted(c), held'["tgt"].client = c, c # None
    PROVE  HomeInv'
<1>1. home'.client = c /\ home'.load = None /\ home'.profile = None
  BY DEF Mounted, NoHome
<1> QED BY <1>1 DEF HomeInv, HomeFollowsPage, LoadIsOwn, ProfileIsOwn, Present

(* A login that ends while Home is open leaves Home as it is.              *)
LEMMA HomeLogin ==
    ASSUME TypeOK, TicketInv, HomeInv, NEW l \in Logins, AsReply(l)
    PROVE  HomeInv'
<1>1. op[l].client # None
  BY Kinds, LoggingIn DEF TicketInv, RefsAreLive
<1>2. held'["tgt"].client = op[l].client /\ page' = "home"
  BY LoggingIn DEF AsReply
<1>3. CASE page # "home"
  BY <1>1, <1>2, <1>3, HomeMounted DEF AsReply
<1>4. CASE page = "home"
  <2>1. UNCHANGED home
    BY <1>4 DEF AsReply
  <2>2. outlived' = (outlived \union Remaining) \ {None, op[l].client}
    BY DEF AsReply
  <2>3. held["tgt"].client # None /\ outlived \subseteq Customers
    BY <1>4 DEF HomeInv, HomeFollowsPage, Present, TypeOK
  <2>4. HomeFollowsPage'
    BY <1>1, <1>2, <2>1 DEF HomeFollowsPage, Present
  <2>5. home.load \in Loads \union {None} /\ home.profile \in Remaining
    BY DEF TypeOK, Remaining
  <2>6. ASSUME NEW i \in Loads, home.load = i, Showable(i)'
        PROVE  op'[i].client \in {home.client, op[l].client} \union outlived'
    <3>1. /\ op'[i].pc = op[i].pc /\ op'[i].client = op[i].client
          /\ op[i].ref = "tgt" => op'[i].wiped
          /\ op[i].ref # "tgt" => op'[i] = op[i]
      BY Kinds, LoggingIn
    <3>2. /\ op[i].ref \in Places => op[i].client = held[op[i].ref].client
          /\ op[i].pc = "tgs-sent" => op[i].ref = "tgt" \/ op[i].wiped
          /\ op[i].pc = "ap-sent" => op[i].ref \in Scopes \/ op[i].wiped
      BY Kinds DEF TicketInv, RefsAreLive, At
    <3>3. Showable(i)
      BY <2>6, <3>1 DEF Showable
    <3>4. op[i].client \in Remaining
      <4>1. CASE op[i].pc = "tgs-store"
        BY <4>1, Kinds DEF Remaining, Decrypted, At
      <4>2. CASE op[i].pc = "opened"
        BY <2>6, <4>2 DEF Remaining, At
      <4>3. CASE op[i].pc \in {"tgs-sent", "ap-sent"}
        <5>1. ~op'[i].wiped
          BY <2>6, <3>1, <4>3 DEF Showable
        <5>2. op[i].pc = "ap-sent" /\ op[i].ref \in Scopes
          BY <3>1, <3>2, <4>3, <5>1
        <5>3. op[i].client = held[op[i].ref].client
          BY <3>2, <5>2, Kinds
        <5> QED BY <5>2, <5>3 DEF Remaining
      <4> QED BY <3>3, <4>1, <4>2, <4>3 DEF Showable
    <3>5. op[i].client # None \/ op[i].client = home.client
      <4>1. op[i].client \in {home.client, held["tgt"].client} \union outlived
        BY <2>6, <3>3, Kinds DEF HomeInv, LoadIsOwn
      <4> QED BY <2>3, <4>1, Kinds
    <3> QED BY <2>2, <3>1, <3>4, <3>5
  <2>7. LoadIsOwn'
    BY <1>2, <2>1, <2>5, <2>6 DEF LoadIsOwn
  <2>8. ProfileIsOwn'
    BY <1>2, <2>1, <2>2, <2>5 DEF ProfileIsOwn
  <2> QED BY <2>4, <2>7, <2>8 DEF HomeInv
<1> QED BY <1>3, <1>4

(* Home fetches a profile with a ticket of the session, or to be got with  *)
(* the session.                                                            *)
LEMMA HomeFetches ==
    ASSUME TypeOK, TicketInv, HomeInv, NEW i \in Loads, fetchProfile(i)
    PROVE  HomeInv'
<1>1. /\ page = "home" /\ UNCHANGED <<page, held, outlived>>
      /\ op' = [op EXCEPT ![i] = Begin(i)]
      /\ home' = [home EXCEPT !.due = FALSE, !.load = i]
  BY DEF fetchProfile, histories
<1>2. home'.client = home.client /\ home'.profile = home.profile /\ home'.load = i
  BY <1>1 DEF TypeOK
<1>3. op'[i] = Begin(i)
  BY <1>1, Kinds, Beginning, Replacing
<1>5. HomeFollowsPage'
  BY <1>1, <1>2 DEF HomeInv, HomeFollowsPage, Present
<1>6. ASSUME op'[i].pc # "idle"
      PROVE  op'[i].client \in {held["tgt"].client} \union outlived
  <2>2. \/ Present(Scope(i)) /\ op'[i].client = held[Scope(i)].client
        \/ op'[i].client = held["tgt"].client
    BY <1>3, <1>6, Kinds, Beginning DEF Valid
  <2>3. Present(Scope(i)) => held[Scope(i)].client \in {held["tgt"].client} \union outlived
    BY Kinds DEF TicketInv, OwnTickets
  <2> QED BY <2>2, <2>3
<1>7. LoadIsOwn'
  BY <1>1, <1>2, <1>6 DEF LoadIsOwn, Showable
<1>8. ProfileIsOwn'
  BY <1>1, <1>2 DEF HomeInv, ProfileIsOwn
<1> QED BY <1>5, <1>7, <1>8 DEF HomeInv

(* Home shows what the fetch it waits for has brought.                     *)
LEMMA HomeShows ==
    ASSUME TypeOK, HomeInv, NEW i \in Loads, ShowProfile(i)
    PROVE  HomeInv'
<1>1. /\ op[i].pc = "opened" /\ UNCHANGED <<page, held, outlived>>
      /\ home' = IF home.load = i THEN [home EXCEPT !.profile = op[i].client] ELSE home
  BY DEF ShowProfile, At, histories
<1>2. op'[i] = IdleOp /\ \A k \in Ops : k # i => op'[k] = op[k]
  BY Kinds, Records, Replacing DEF ShowProfile
<1>3. CASE home.load # i
  <2>1. \A k \in Loads : Showable(k)' => Showable(k) /\ op'[k].client = op[k].client
    <3>1. ~Showable(i)'
      BY <1>2, Records DEF Showable
    <3> QED BY <1>2, <3>1, Kinds DEF Showable
  <2> QED BY <1>1, <1>3, <2>1, HomeQuiet
<1>4. CASE home.load = i
  <2>1. /\ home'.client = home.client /\ home'.profile = op[i].client /\ home'.load = i
    BY <1>1, <1>4 DEF TypeOK
  <2>2. page = "home"
    BY <1>4, Kinds DEF HomeInv, HomeFollowsPage, NoHome
  <2>4. op[i].client \in {home.client, held["tgt"].client} \union outlived
    BY <1>1, <1>4, Kinds DEF HomeInv, LoadIsOwn, Showable
  <2>5. HomeFollowsPage'
    BY <1>1, <2>1, <2>2 DEF HomeInv, HomeFollowsPage, Present
  <2>6. LoadIsOwn'
    BY <1>2, <2>1, Records DEF LoadIsOwn, Showable
  <2>7. ProfileIsOwn'
    BY <1>1, <2>1, <2>4 DEF ProfileIsOwn
  <2> QED BY <2>5, <2>6, <2>7 DEF HomeInv
<1> QED BY <1>3, <1>4

LEMMA HomeStep ==
    ASSUME TypeOK, TicketInv, HomeInv, Next
    PROVE  HomeInv'
<1> USE DEF histories
<1>s. ASSUME \A k \in Loads : Showable(k)' => op'[k] = op[k] PROVE
             \A k \in Loads : Showable(k)' => Showable(k) /\ op'[k].client = op[k].client
  BY <1>s DEF Showable
<1>f. ASSUME NEW i \in Ops, NEW why \in Failed, Fails(i, why), UNCHANGED <<page, held, outlived>>
      PROVE  HomeInv'
  <2>1. \A k \in Loads : Showable(k)' => op'[k] = op[k]
    BY <1>f, Kinds, Failing DEF Showable
  <2> QED BY <1>f, <1>s, <2>1, Failing, HomeQuiet
<1>g. ASSUME NEW i \in Ops, NEW pc \in Pcs, Goto(i, pc), i \in Loads => Showable(i),
             UNCHANGED <<page, held, outlived, home>>
      PROVE  HomeInv'
  <2>1. \A k \in Loads : Showable(k)' => Showable(k) /\ op'[k].client = op[k].client
    BY <1>g, Kinds, Moving DEF Showable
  <2> QED BY <1>g, <2>1, HomeQuiet
<1>q. ASSUME UNCHANGED <<op, page, home, held>>, outlived \subseteq outlived' PROVE HomeInv'
  BY <1>q, HomeQuiet DEF Showable
<1>1. CASE OpenHome
  BY <1>1, HomeMounted DEF OpenHome, Valid, Present
<1>2. CASE Leave
  <2>1. CASE page = "home"
    BY <1>2, <2>1, HomeGone DEF Leave, Unmount
  <2>2. CASE page # "home"
    BY <1>2, <2>2, HomeGone DEF Leave, HomeInv, HomeFollowsPage
  <2> QED BY <2>1, <2>2
<1>3. CASE handleLogout
  BY <1>3, HomeGone DEF handleLogout, Unmount
<1>4. CASE Reload
  BY <1>4, HomeGone DEF Reload, Unmount
<1>5. ASSUME NEW c \in Customers, GoToLogin(c) PROVE HomeInv'
  BY <1>5, HomeGone DEF GoToLogin, Unmount
<1>6. ASSUME NEW i \in Ops, LoseAnswer(i) PROVE HomeInv'
  BY <1>6, <1>f, Kinds DEF LoseAnswer
<1>7. ASSUME NEW i \in Ops, TgsReply(i) PROVE HomeInv'
  BY <1>7, <1>f, <1>g, Kinds DEF TgsReply, At, Showable
<1>8. ASSUME NEW i \in Ops, Refused(i) PROVE HomeInv'
  BY <1>8, <1>f, Kinds DEF Refused
<1>9. ASSUME NEW i \in Ops, StoreTicket(i) PROVE HomeInv'
  <2>1. UNCHANGED <<page, home, outlived>>
    BY <1>9 DEF StoreTicket, pages
  <2>2. held'["tgt"] = held["tgt"]
    BY <1>9, Storing, Kinds
  <2>3. \A k \in Loads : Showable(k)' => Showable(k) /\ op'[k].client = op[k].client
    BY <1>9, Storing, Kinds DEF Showable
  <2> QED BY <2>1, <2>2, <2>3, HomeQuiet
<1>10. ASSUME NEW l \in Logins, verifyPin(l) \/ ReadKey(l) PROVE HomeInv'
  <2>1. /\ UNCHANGED <<page, home, held, outlived>>
        /\ \A k \in Ops : k # l => op'[k] = op[k]
    BY <1>10, Kinds DEF verifyPin, ReadKey, TypeOK, pages
  <2> QED BY <1>s, <2>1, Kinds, HomeQuiet
<1>11. ASSUME NEW i \in Loads, ProfileReply(i) PROVE HomeInv'
  BY <1>11, <1>f, <1>g, Kinds DEF ProfileReply, At, Showable
<1>12. ASSUME NEW t \in Transfers, handlePinKey(t) PROVE HomeInv'
  <2>1. /\ UNCHANGED <<page, held, outlived>> /\ home.profile # None
        /\ op' = [op EXCEPT ![t] = Begin(t)]
    BY <1>12 DEF handlePinKey
  <2>2. home'.client = home.client /\ home'.profile = home.profile /\ home'.load = home.load
    BY <1>12 DEF handlePinKey, TypeOK
  <2>3. home # NoHome
    BY <2>1 DEF NoHome
  <2>4. \A k \in Loads : op'[k] = op[k]
    BY <2>1, Kinds, Beginning, Replacing
  <2> QED BY <1>s, <2>1, <2>2, <2>3, <2>4, HomeQuiet
<1>13. ASSUME NEW t \in Transfers, SendTransfer(t) PROVE HomeInv'
  BY <1>13, <1>f, <1>g, Kinds DEF SendTransfer, At
<1>14. ASSUME NEW t \in Transfers, TransferReply(t) PROVE HomeInv'
  BY <1>14, <1>f, <1>g, Kinds DEF TransferReply, At
<1>15. ASSUME NEW t \in Transfers, ShowResult(t) PROVE HomeInv'
  <2>1. /\ UNCHANGED <<page, held, outlived>>
        /\ home' = IF t \in home.started THEN [home EXCEPT !.due = TRUE] ELSE home
        /\ op' = [op EXCEPT ![t] = [IdleOp EXCEPT !.pc = "done"]]
    BY <1>15 DEF ShowResult
  <2>2. home'.client = home.client /\ home'.profile = home.profile /\ home'.load = home.load
    BY <2>1 DEF TypeOK
  <2>3. home = NoHome => home' = NoHome
    BY <2>1 DEF NoHome
  <2>4. \A k \in Loads : op'[k] = op[k]
    BY <2>1, Kinds DEF TypeOK
  <2> QED BY <1>s, <2>1, <2>2, <2>3, <2>4, HomeQuiet
<1>16. ASSUME NEW s \in Places, Expire(s) PROVE HomeInv'
  <2>1. UNCHANGED <<op, page, home, outlived>> /\ held'["tgt"].client = held["tgt"].client
    BY <1>16, Kinds, Expiring DEF Expire, pages
  <2> QED BY <1>s, <2>1, HomeQuiet
<1>17. CASE \/ closeModal \/ setView
            \/ \E c \in Customers : prepareEnrollment(c)
            \/ \E c \in Customers : RegisterAnswer(c)
            \/ \E c \in Customers : storeCertificate(c)
            \/ \E c \in Customers : Revoke(c)
            \/ \E t \in Transfers : TransferMoney(t)
            \/ \E t \in Transfers : Transfer(t)
  BY <1>q, <1>17 DEF closeModal, setView, prepareEnrollment, RegisterAnswer,
     storeCertificate, Revoke, TransferMoney, Transfer, pages
<1>18. ASSUME NEW t \in Transfers, ErrorAfterPaying(t) PROVE HomeInv'
  BY <1>18, <1>f, Kinds DEF ErrorAfterPaying
<1> QED
  BY ClientSteps, HomeLogin, HomeFetches, HomeShows, <1>1, <1>2, <1>3, <1>4, <1>5, <1>6,
     <1>7, <1>8, <1>9, <1>10, <1>11, <1>12, <1>13, <1>14, <1>15, <1>16, <1>17, <1>18
-----------------------------------------------------------------------------
(* The invariant and what follows from it.                                 *)

(* Memory is empty, nothing has been sent, key and certificate are of one  *)
(* customer.                                                               *)
LEMMA ClientInit ==
    ASSUME Init
    PROVE  ClientInv
<1>1. TypeOK
  BY ClientTypeInit
<1>2. /\ \A i \in Ops : op[i].pc = "idle" /\ op[i].ref = "none"
      /\ \A s \in Places : held[s].client = None
      /\ \A t \in Transfers : bank[t].st = "none" /\ ~bank[t].late
      /\ form.op = None /\ page = "login" /\ home = NoHome
      /\ idb.key = idb.cert
      /\ \A c \in Customers : enroll[c] \in {"none", "done"}
  BY DEF Init, IdleOp, Nothing, Ticket, NoRequest
<1>3. RefsAreLive
  BY <1>2 DEF RefsAreLive, At, Places, Scopes
<1>4. TicketInv
  BY <1>2, <1>3, Kinds DEF TicketInv, StoresAreOwn, Decrypted, OwnTickets, At, Present
<1>5. HomeInv
  BY <1>2 DEF HomeInv, HomeFollowsPage, LoadIsOwn, ProfileIsOwn, NoHome
<1>6. PairInv
  BY <1>2 DEF PairInv, KeyIsOfEnrolling, PairFits, Enrolling
<1>7. LedgerInv
  BY <1>2, Kinds DEF LedgerInv, LedgerFollowsCall, ChecksHold, PayerConsents
<1>8. FormInv
  BY <1>2, Kinds DEF FormInv, ModalFollowsCall, FormsAreNumbered, OneUnfailed, At
<1> QED BY <1>1, <1>4, <1>5, <1>6, <1>7, <1>8 DEF ClientInv

(***************************************************************************)
(* The inductive invariant of the tab: what the calls that are under way   *)
(* may still do to the tickets, Home, the key pair, the ledger, the form.  *)
(***************************************************************************)
THEOREM ClientInvHolds == Spec => []ClientInv
<1>1. ClientInv /\ [Next]_vars => ClientInv'
  <2> SUFFICES ASSUME ClientInv, [Next]_vars PROVE ClientInv'
    OBVIOUS
  <2>1. CASE Next
    BY <2>1, ClientTypeStep, TicketStep, HomeStep, PairStep, LedgerStep, FormStep
       DEF ClientInv
  <2>2. CASE UNCHANGED vars
    <3>1. /\ UNCHANGED <<plan, idb, enroll, revoked, held, op, page, home, form, bank, faults,
                         overlapped, outlived>>
          /\ form.op \in Transfers \union {None}
      BY <2>2 DEF vars, histories, ClientInv, TypeOK
    <3>2. TypeOK'
      BY <3>1 DEF ClientInv, TypeOK
    <3>3. TicketInv'
      BY <3>1, TicketQuiet DEF ClientInv
    <3>4. HomeInv'
      BY <3>1, HomeQuiet DEF ClientInv, Showable
    <3>5. PairInv'
      BY <3>1, PairUntouched DEF ClientInv
    <3>6. LedgerInv'
      BY <3>1, LedgerQuiet DEF ClientInv
    <3>7. FormInv'
      BY <3>1, FormQuiet DEF ClientInv
    <3> QED BY <3>2, <3>3, <3>4, <3>5, <3>6, <3>7 DEF ClientInv
  <2> QED BY <2>1, <2>2
<1> QED BY <1>1, ClientInit, PTL DEF Spec

(***************************************************************************)
(* The tickets in memory are those of the customer who is logged in, or    *)
(* have outlived a session in one of the two ways that OwnTickets names,   *)
(* whichever calls are under way.                                          *)
(***************************************************************************)
THEOREM TicketsAreOwn == Spec => []OwnTickets
<1>1. ClientInv => OwnTickets
  BY DEF ClientInv, TicketInv
<1> QED BY <1>1, ClientInvHolds, PTL

(***************************************************************************)
(* Home shows the profile of its own customer or of one whose ticket has   *)
(* outlived his session, however late the fetches of earlier visits answer.*)
(***************************************************************************)
THEOREM ProfilesAreOwn == Spec => []ProfileIsOwn
<1>1. ClientInv => ProfileIsOwn
  BY DEF ClientInv, HomeInv
<1> QED BY <1>1, ClientInvHolds, PTL

(***************************************************************************)
(* The key and the certificate on the device belong together, unless the   *)
(* enrollment of the key has not ended well or enrollments overlapped.     *)
(***************************************************************************)
THEOREM PairsFit == Spec => []PairFits
<1>1. ClientInv => PairFits
  BY DEF ClientInv, PairInv
<1> QED BY <1>1, ClientInvHolds, PTL

(***************************************************************************)
(* Money moves only with the ticket, the signature and from the account of *)
(* one customer, who was not revoked when the order was sent.              *)
(***************************************************************************)
THEOREM PayersConsent == Spec => []PayerConsents
<1>1. ClientInv => PayerConsents
  BY DEF ClientInv, LedgerInv
<1> QED BY <1>1, ClientInvHolds, PTL

(***************************************************************************)
(* The dialog tells the truth about the transfer, as far as an answer      *)
(* reached the tab.                                                        *)
(***************************************************************************)
THEOREM ModalIsTrue == Spec => []ModalTellsLedger
<1>1. ClientInv => ModalTellsLedger
  <2> SUFFICES ASSUME ClientInv, form.op # None
               PROVE  /\ form.modal = "success" => bank[form.op].st = "paid"
                      /\ form.modal = "error" /\ bank[form.op].st = "paid"
                             => op[form.op].pc \in Unheard
    BY DEF ModalTellsLedger
  <2>1. form.op \in Transfers
    BY DEF ClientInv, TypeOK
  <2>2. /\ op[form.op].pc \in {"opened", "done"} => bank[form.op].st = "paid"
        /\ op[form.op].pc = "refused" => bank[form.op].st \in {"none", "refused"}
    BY <2>1 DEF ClientInv, LedgerInv, LedgerFollowsCall
  <2>3. /\ form.modal = "success" => op[form.op].pc = "done"
        /\ form.modal = "error" => op[form.op].pc \in Unheard \union {"refused"}
    BY DEF ClientInv, FormInv, ModalFollowsCall, Failed, At
  <2> QED BY <2>2, <2>3
<1> QED BY <1>1, ClientInvHolds, PTL

(***************************************************************************)
(* An order is paid twice only if it was repeated after an answer that did *)
(* not tell that it was made.                                              *)
(***************************************************************************)
THEOREM RepeatsFollowLoss == Spec => []RepeatOnlyAfterLoss
<1>1. ClientInv => RepeatOnlyAfterLoss
  <2> SUFFICES ASSUME ClientInv, NEW t \in Transfers, NEW u \in Transfers, t # u,
                      bank[t].st = "paid", bank[u].st = "paid",
                      bank[t].order = bank[u].order
               PROVE  op[t].pc \in Unheard \/ op[u].pc \in Unheard
    BY DEF RepeatOnlyAfterLoss, PaidTwice
  <2>1. \A v \in {t, u} : op[v].pc # "idle" /\ op[v].pc # "refused"
    BY DEF ClientInv, LedgerInv, LedgerFollowsCall
  <2>2. op[t].pc \in Failed \/ op[u].pc \in Failed
    BY <2>1 DEF ClientInv, FormInv, OneUnfailed, At
  <2> QED BY <2>1, <2>2 DEF Failed
<1> QED BY <1>1, ClientInvHolds, PTL
=============================================================================
