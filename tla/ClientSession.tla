--------------------------- MODULE ClientSession ---------------------------
(***************************************************************************)
(* The browser: what a customer's tab keeps (the key and the certificate   *)
(* in IndexedDB, the TGT session and the service tickets in memory), the   *)
(* asynchronous services that use it (enrollment, AS exchange, TGS         *)
(* exchange, profile, transfer) and the pages that start them.  JavaScript *)
(* runs one callback at a time, so an action is what happens from one      *)
(* event (a click, a reply, the end of an IndexedDB or WebCrypto           *)
(* operation) to the next await of such an event; clicks, the Back button  *)
(* and other calls come in between.                                        *)
(*                                                                         *)
(* A customer is named by the enrollment that created him.  A session key  *)
(* is a buffer: zero-filling it is seen by every call that holds a         *)
(* reference to it.                                                        *)
(***************************************************************************)
EXTENDS Integers, FiniteSets

CONSTANTS
    Customers,    \* enrollments, and the customers they create
    Logins,       \* performAsExchange calls that can be under way at once
    Loads,        \* fetchProfile calls that can be under way at once
    Transfers,    \* performTransfer calls: 1..n
    Plans,        \* bound: who is enrolled at first, who enrolls, how many
                  \* transfers are tried, what may go wrong
    None,
    MaxFaults     \* bound: how often

Ops == Logins \union Loads \union Transfers

FaultKinds == {"lost", "error", "reload", "enroll", "revoke", "expire"}

Scopes == {"balance:read", "transfer:create"}

ASSUME ClientAssumption ==
    /\ Logins \intersect Loads = {} /\ Logins \intersect Transfers = {}
    /\ Loads \intersect Transfers = {}
    /\ None \notin Customers \union Ops
    /\ Transfers = 1..Cardinality(Transfers)
    /\ Plans \subseteq [first : Customers \union {None}, newcomers : SUBSET Customers,
                        transfers : Nat, faults : SUBSET FaultKinds]
    /\ \A p \in Plans : p.first \notin p.newcomers
    /\ MaxFaults \in Nat

VARIABLES
    plan,
    idb,        \* IndexedDB: [key, cert], each by the enrollment it is from
    enroll,     \* enroll[c]: progress of enrollAndRegister
    revoked,    \* customers whose certificate the CA has revoked
    held,       \* held["tgt"]: `current` of as-exchange/session.ts; held[s]:
                \* entry s of `tickets` in tgs-exchange/session.ts
    op,         \* op[i]: [pc, client, ref, wiped, signer] of a service call
    page,       \* route that is mounted
    home,       \* state of Home: [client, profile, due, load, started], the last
                \* being the transfers whose callbacks belong to this mounting
    form,       \* TransferForm: [modal, order, op]
    bank,       \* bank[t]: the AP request of a transfer, as the Bank has it
    faults,
    overlapped, \* history: two enrollments were under way at once
    outlived    \* history: customers of whom something has outlived their
                \* session, in the memory that the present one uses

histories == <<overlapped, outlived>>

vars == <<plan, idb, enroll, revoked, held, op, page, home, form, bank, faults, histories>>

-----------------------------------------------------------------------------
Places == Scopes \union {"tgt"}

(* A ticket: whose, and whether its time is over.                          *)
Ticket(c) == [client |-> c, expired |-> FALSE]

Nothing == Ticket(None)

(* ref is the place whose ticket the call has taken, "gone" once that      *)
(* ticket is no longer there; wiped tells about its buffer.                *)
IdleOp ==
    [pc |-> "idle", client |-> None, ref |-> "none", wiped |-> FALSE, signer |-> None]

NoRequest ==
    [st |-> "none", order |-> 0, from |-> None, client |-> None, signer |-> None,
     late |-> FALSE]

NoHome ==
    [client |-> None, profile |-> None, due |-> FALSE, load |-> None, started |-> {}]

(* Somebody is enrolled on this device, or nobody.  The login page is open *)
(* and memory is empty.                                                    *)
Init ==
    /\ plan \in Plans
    /\ idb = [key |-> plan.first, cert |-> plan.first]
    /\ enroll = [c \in Customers |-> IF c = plan.first THEN "done" ELSE "none"]
    /\ revoked = {}
    /\ held = [s \in Places |-> Nothing]
    /\ op = [i \in Ops |-> IdleOp]
    /\ page = "login"
    /\ home = NoHome
    /\ form = [modal |-> "entry", order |-> 0, op |-> None]
    /\ bank = [t \in Transfers |-> NoRequest]
    /\ faults = 0
    /\ overlapped = FALSE
    /\ outlived = {}

(* How a transfer can have ended.                                          *)
Ended == {"done", "refused", "lost", "error", "wiped"}

At(i, pc) == op[i].pc = pc

Goto(i, pc) == op' = [op EXCEPT ![i].pc = pc]

Fault(kind) == kind \in plan.faults /\ faults < MaxFaults /\ faults' = faults + 1

Scope(i) == IF i \in Transfers THEN "transfer:create" ELSE "balance:read"

(* The form as it is mounted or cleared.  A form is known by its number,   *)
(* which need not change before a transfer has been sent from it.          *)
BlankForm ==
    [modal |-> "entry", op |-> None,
     order |-> IF \E t \in Transfers : op[t].pc # "idle" /\ bank[t].order = form.order
               THEN form.order + 1 ELSE form.order]

pages == <<page, home, form>>

-----------------------------------------------------------------------------
(* as-exchange/session.ts and tgs-exchange/session.ts.                     *)

Present(s) == held[s].client # None

(* hasValidTgt, hasValidServiceTicket.                                     *)
Valid(s) == Present(s) /\ ~held[s].expired

(* The tickets of the places are taken out and their buffers wiped, under  *)
(* the hands of the calls that hold them.                                  *)
Discarded(places) ==
    [i \in Ops |->
        IF op[i].ref \in places THEN [op[i] EXCEPT !.ref = "gone", !.wiped = TRUE]
        ELSE op[i]]

(* Mutant: a logout forgets the TGT alone.                                 *)
ClearMemory_TgtOnly ==
    /\ held' = [held EXCEPT !["tgt"] = Nothing]
    /\ op' = Discarded({"tgt"})

(* clearServiceTickets and clearSession, as a logout calls them.           *)
ClearMemory ==
    /\ held' = [s \in Places |-> Nothing]
    /\ op' = Discarded(Places)

(* setSession and setServiceTicket: the ticket that was there is wiped.    *)
(* setSession leaves the service tickets of the old session.               *)
Put(s, c, i, next) ==
    /\ held' = [held EXCEPT ![s] = Ticket(c)]
    /\ op' = [Discarded({s}) EXCEPT ![i] = next]

-----------------------------------------------------------------------------
(* Pages.                                                                  *)

(* Home is mounted: its effects take the session and call fetchProfile.    *)
Mounted(c) == [NoHome EXCEPT !.client = c, !.due = TRUE]

(* Home is left: its state and the form's are gone, memory is not.         *)
Unmount == home' = NoHome /\ form' = BlankForm

(* The Forward button; without a valid TGT Home sends the user back.       *)
OpenHome ==
    /\ page = "login"
    /\ Valid("tgt")
    /\ page' = "home"
    /\ home' = Mounted(held["tgt"].client)
    /\ UNCHANGED <<plan, idb, enroll, revoked, held, op, form, bank, faults, histories>>

(* The Back button, and the links between login and registration.          *)
Leave ==
    /\ \/ page = "home" /\ page' = "login" /\ Unmount
       \/ page = "login" /\ page' = "register" /\ UNCHANGED <<home, form>>
       \/ page = "register" /\ page' = "login" /\ UNCHANGED <<home, form>>
    /\ UNCHANGED <<plan, idb, enroll, revoked, held, op, bank, faults, histories>>

(* A ticket that has been decrypted when the user logs out is stored after *)
(* the logout: nothing holds it back any more.                             *)
Decrypted == {i \in Ops : At(i, "tgs-store")}

handleLogout ==
    /\ page = "home"
    /\ ClearMemory
    /\ page' = "login"
    /\ Unmount
    /\ outlived' = {c \in Customers : \E i \in Decrypted : op[i].client = c}
    /\ UNCHANGED <<plan, idb, enroll, revoked, bank, faults, overlapped>>

(* The document is reloaded: memory and every call under way are gone,     *)
(* IndexedDB and what has been sent are not.                               *)
Reload ==
    /\ Fault("reload")
    /\ held' = [s \in Places |-> Nothing]
    /\ op' = [i \in Ops |->
                 IF i \in Transfers /\ op[i].pc # "idle"
                 THEN [IdleOp EXCEPT !.pc = IF op[i].pc \in Ended THEN op[i].pc ELSE "lost"]
                 ELSE IdleOp]
    /\ enroll' = [c \in Customers |->
                     IF enroll[c] \in {"registering", "issued"} THEN "failed"
                     ELSE IF enroll[c] = "stored" THEN "done" ELSE enroll[c]]
    /\ page' = IF page = "home" THEN "login" ELSE page
    /\ Unmount
    /\ outlived' = {}
    /\ UNCHANGED <<plan, idb, revoked, bank, overlapped>>

-----------------------------------------------------------------------------
(***************************************************************************)
(* enrollAndRegister.  prepareEnrollment overwrites the key on the device  *)
(* before the CA is asked; the certificate is stored when it was issued    *)
(* and verified.                                                           *)
(***************************************************************************)
Enrolling == {c \in Customers : enroll[c] \in {"registering", "issued"}}

(* Mutant: a key that is there already is kept.                            *)
prepareEnrollment_KeepsOld(c) ==
    /\ page = "register"
    /\ c \in plan.newcomers /\ enroll[c] = "none"
    /\ enroll' = [enroll EXCEPT ![c] = "registering"]
    /\ idb' = IF idb.key = None THEN [idb EXCEPT !.key = c] ELSE idb
    /\ overlapped' = (overlapped \/ Enrolling # {})
    /\ UNCHANGED <<plan, revoked, held, op, pages, bank, faults, outlived>>

prepareEnrollment(c) ==
    /\ page = "register"
    /\ c \in plan.newcomers /\ enroll[c] = "none"
    /\ enroll' = [enroll EXCEPT ![c] = "registering"]
    /\ idb' = [idb EXCEPT !.key = c]
    /\ overlapped' = (overlapped \/ Enrolling # {})
    /\ UNCHANGED <<plan, revoked, held, op, pages, bank, faults, outlived>>

(* The answer of the gateway, verified by verifyIssuedCertificate.         *)
RegisterAnswer(c) ==
    /\ enroll[c] = "registering"
    /\ \/ enroll' = [enroll EXCEPT ![c] = "issued"] /\ UNCHANGED faults
       \/ enroll' = [enroll EXCEPT ![c] = "failed"] /\ Fault("enroll")
    /\ UNCHANGED <<plan, idb, revoked, held, op, pages, bank, histories>>

storeCertificate(c) ==
    /\ enroll[c] = "issued"
    /\ enroll' = [enroll EXCEPT ![c] = "stored"]
    /\ idb' = [idb EXCEPT !.cert = c]
    /\ UNCHANGED <<plan, revoked, held, op, pages, bank, faults, histories>>

(* The timer of StepPIN goes to the login page, wherever the user is.      *)
GoToLogin(c) ==
    /\ enroll[c] = "stored"
    /\ enroll' = [enroll EXCEPT ![c] = "done"]
    /\ page' = "login"
    /\ Unmount
    /\ UNCHANGED <<plan, idb, revoked, held, op, bank, faults, histories>>

-----------------------------------------------------------------------------
(* How a call ends when it throws.                                         *)
Thrown(i, why) == [IdleOp EXCEPT !.pc = IF i \in Transfers THEN why ELSE "idle"]

(* Mutant: perform has no catch.                                           *)
Fails_Uncaught(i, why) ==
    /\ op' = [op EXCEPT ![i] = Thrown(i, why)]
    /\ UNCHANGED <<form, home>>

(* A transfer tells its form, if the form is still there, and the Home it  *)
(* belongs to reloads; the others leave an error message.                  *)
Fails(i, why) ==
    /\ op' = [op EXCEPT ![i] = Thrown(i, why)]
    /\ form' = IF form.op = i THEN [form EXCEPT !.modal = "error"] ELSE form
    /\ home' = IF i \in home.started THEN [home EXCEPT !.due = TRUE] ELSE home

(* KDC or Bank refuse a request.                                           *)
Refused(i) ==
    /\ op[i].pc \in {"as-sent", "tgs-sent"} \/ (i \in Loads /\ At(i, "ap-sent"))
    /\ Fails(i, "refused")
    /\ UNCHANGED <<plan, idb, enroll, revoked, held, page, bank, faults, histories>>

(* A round trip fails, whatever the server does or has done with the       *)
(* request.                                                                *)
LoseAnswer(i) ==
    /\ op[i].pc \in {"as-sent", "tgs-sent", "ap-sent"}
    /\ Fault("lost")
    /\ Fails(i, "lost")
    /\ UNCHANGED <<plan, idb, enroll, revoked, held, page, bank, histories>>

-----------------------------------------------------------------------------
(***************************************************************************)
(* performAsExchange: the certificate is read, then the key, each in a     *)
(* transaction of its own.                                                 *)
(***************************************************************************)
verifyPin(l) ==
    /\ page = "login"
    /\ At(l, "idle")
    /\ idb.key # None /\ idb.cert # None
    /\ op' = [op EXCEPT ![l] = [IdleOp EXCEPT !.pc = "key", !.client = idb.cert]]
    /\ UNCHANGED <<plan, idb, enroll, revoked, held, pages, bank, faults, histories>>

ReadKey(l) ==
    /\ At(l, "key")
    /\ op' = [op EXCEPT ![l] = [@ EXCEPT !.pc = "as-sent", !.signer = idb.key]]
    /\ UNCHANGED <<plan, idb, enroll, revoked, held, pages, bank, faults, histories>>

(* IssueTGT, which wants a good certificate and a signature by its key.    *)
(* AS_REP opens with the key that was read: the session is stored and      *)
(* Login goes to Home.  The KDC and the Bank may always refuse (too many   *)
(* requests, a clock that is off, the CA down, a ticket whose time is      *)
(* over).  Tickets of another customer stay, and if his page is still      *)
(* open, so do its profile and the reply that it waits for.                *)
Remaining ==
    {held[s].client : s \in Scopes} \union {home.profile}
        \union {op[i].client : i \in Decrypted}
        \union {op[i].client : i \in {i \in Loads : i = home.load /\ At(i, "opened")}}

AsReply(l) ==
    /\ At(l, "as-sent")
    /\ op[l].signer = op[l].client /\ op[l].client \notin revoked
    /\ Put("tgt", op[l].client, l, IdleOp)
    /\ page' = "home"
    /\ home' = IF page = "home" THEN home ELSE Mounted(op[l].client)
    /\ outlived' = (outlived \union Remaining) \ {None, op[l].client}
    /\ UNCHANGED <<plan, idb, enroll, revoked, form, bank, faults, overlapped>>

-----------------------------------------------------------------------------
(***************************************************************************)
(* performTgsExchange, as fetchProfile and performTransfer call it: a      *)
(* ticket that is valid is used at once, else TGT and key are taken and    *)
(* the KDC is asked, and without a valid TGT the call throws.              *)
(***************************************************************************)
UseTicket(i, c) ==
    [pc |-> IF i \in Transfers THEN "blob" ELSE "ap-sent",
     client |-> c, ref |-> Scope(i), wiped |-> FALSE, signer |-> None]

Begin(i) ==
    CASE Valid(Scope(i)) -> UseTicket(i, held[Scope(i)].client)
      [] ~Valid(Scope(i)) /\ Valid("tgt") ->
           [IdleOp EXCEPT !.pc = "tgs-sent", !.client = held["tgt"].client, !.ref = "tgt"]
      [] OTHER -> Thrown(i, "refused")

(* RequestServiceTicket wants a good certificate.  A wiped key does not    *)
(* open its reply.                                                         *)
TgsReply(i) ==
    /\ At(i, "tgs-sent")
    /\ op[i].client \notin revoked
    /\ IF op[i].wiped THEN Fails(i, "wiped")
       ELSE Goto(i, "tgs-store") /\ UNCHANGED <<form, home>>
    /\ UNCHANGED <<plan, idb, enroll, revoked, held, page, bank, faults, histories>>

StoreTicket(i) ==
    /\ At(i, "tgs-store")
    /\ Put(Scope(i), op[i].client, i, UseTicket(i, op[i].client))
    /\ UNCHANGED <<plan, idb, enroll, revoked, pages, bank, faults, histories>>

-----------------------------------------------------------------------------
(* fetchProfile, from the effect of Home.                                  *)
fetchProfile(i) ==
    /\ page = "home" /\ home.due
    /\ At(i, "idle")
    /\ op' = [op EXCEPT ![i] = Begin(i)]
    /\ home' = [home EXCEPT !.due = FALSE, !.load = i]
    /\ UNCHANGED <<plan, idb, enroll, revoked, held, page, form, bank, faults, histories>>

(* GetProfile of the Bank, behind authorize.                               *)
ProfileReply(i) ==
    /\ i \in Loads /\ At(i, "ap-sent")
    /\ op[i].client \notin revoked
    /\ IF op[i].wiped THEN Fails(i, "wiped")
       ELSE Goto(i, "opened") /\ UNCHANGED <<form, home>>
    /\ UNCHANGED <<plan, idb, enroll, revoked, held, page, bank, faults, histories>>

(* Mutant: the effect has no cleanup.                                      *)
ShowProfile_Inactive(i) ==
    /\ i \in Loads /\ At(i, "opened")
    /\ home' = IF page = "home" THEN [home EXCEPT !.profile = op[i].client] ELSE home
    /\ op' = [op EXCEPT ![i] = IdleOp]
    /\ UNCHANGED <<plan, idb, enroll, revoked, held, page, form, bank, faults, histories>>

(* Only the effect that is still active shows what it fetched.             *)
ShowProfile(i) ==
    /\ i \in Loads /\ At(i, "opened")
    /\ home' = IF home.load = i THEN [home EXCEPT !.profile = op[i].client] ELSE home
    /\ op' = [op EXCEPT ![i] = IdleOp]
    /\ UNCHANGED <<plan, idb, enroll, revoked, held, page, form, bank, faults, histories>>

-----------------------------------------------------------------------------
(* TransferForm.                                                           *)

(* "entry" stands for the form and for the dialogs that confirm it and ask *)
(* for the PIN.  The form is cleared after a success and kept after an     *)
(* error, whether the user tries again at once or closes the dialog.       *)
closeModal ==
    /\ form.modal \in {"success", "error"}
    /\ form' = IF form.modal = "success" THEN BlankForm
               ELSE [form EXCEPT !.modal = "entry"]
    /\ UNCHANGED <<plan, idb, enroll, revoked, held, op, page, home, bank, faults, histories>>

(* Another view of Home and back: the form is mounted anew, while a        *)
(* transfer it sent goes on and nobody will show its result.               *)
setView ==
    /\ page = "home" /\ form.op # None
    /\ form' = BlankForm
    /\ UNCHANGED <<plan, idb, enroll, revoked, held, op, page, home, bank, faults, histories>>

(* Transfers are numbered as they are tried.                               *)
Following(t) ==
    /\ t <= plan.transfers /\ At(t, "idle")
    /\ \A u \in 1..(t - 1) : ~At(u, "idle")

(* Mutant: keys count while a transfer is being processed.                 *)
handlePinKey_AnyModal(t) ==
    /\ form.modal \in {"entry", "processing"} /\ home.profile # None
    /\ Following(t)
    /\ op' = [op EXCEPT ![t] = Begin(t)]
    /\ LET thrown == Begin(t).pc = "refused"
       IN  /\ form' = [form EXCEPT !.modal = IF thrown THEN "error" ELSE "processing", !.op = t]
           /\ home' = [home EXCEPT !.due = thrown \/ @,
                                   !.started = @ \union {t}]
    /\ bank' = [bank EXCEPT ![t] = [NoRequest EXCEPT !.order = form.order, !.from = home.profile]]
    /\ UNCHANGED <<plan, idb, enroll, revoked, held, page, faults, histories>>

(* The sixth digit of the PIN: perform, performTransfer up to its first    *)
(* await.  The source account is that of the profile on the page.          *)
handlePinKey(t) ==
    /\ form.modal = "entry" /\ home.profile # None
    /\ Following(t)
    /\ op' = [op EXCEPT ![t] = Begin(t)]
    /\ LET thrown == Begin(t).pc = "refused"
       IN  /\ form' = [form EXCEPT !.modal = IF thrown THEN "error" ELSE "processing", !.op = t]
           /\ home' = [home EXCEPT !.due = thrown \/ @,
                                   !.started = @ \union {t}]
    /\ bank' = [bank EXCEPT ![t] = [NoRequest EXCEPT !.order = form.order, !.from = home.profile]]
    /\ UNCHANGED <<plan, idb, enroll, revoked, held, page, faults, histories>>

(* getWrappedPrivateKey, the key that is on the device now.  The PIN does  *)
(* not open it, or the order is signed, sealed with what is in the         *)
(* ticket's buffer and sent.                                               *)
SendTransfer(t) ==
    /\ At(t, "blob")
    /\ \/ Fails(t, "refused") /\ UNCHANGED bank
       \/ /\ Goto(t, "ap-sent")
          /\ bank' = [bank EXCEPT ![t] =
                         [st |-> IF op[t].wiped THEN "refused" ELSE "sent",
                          order |-> bank[t].order, from |-> bank[t].from,
                          client |-> op[t].client, signer |-> idb.key,
                          late |-> op[t].client \in revoked]]
          /\ UNCHANGED <<form, home>>
    /\ UNCHANGED <<plan, idb, enroll, revoked, held, page, faults, histories>>

-----------------------------------------------------------------------------
(* The Bank.                                                               *)

(* authorize: the certificate of the ticket is good now.                   *)
authorize(t) == bank[t].client \notin revoked

(* Mutant: any well-formed signature will do.                              *)
verifyRSAPSS_Any(t) == TRUE

(* verifyRSAPSS, with the public key of the ticket's certificate.          *)
verifyRSAPSS(t) == bank[t].signer = bank[t].client

TransferMoney(t) ==
    /\ bank[t].st = "sent"
    /\ \/ authorize(t) /\ verifyRSAPSS(t) /\ bank' = [bank EXCEPT ![t].st = "checked"]
       \/ bank' = [bank EXCEPT ![t].st = "refused"]
    /\ UNCHANGED <<plan, idb, enroll, revoked, held, op, pages, faults, histories>>

(* Transfer: the source account has to be the caller's; the other reasons  *)
(* to decline are a choice here and the subject of BankTransfer.           *)
Transfer(t) ==
    /\ bank[t].st = "checked"
    /\ \/ bank[t].from = bank[t].client /\ bank' = [bank EXCEPT ![t].st = "paid"]
       \/ bank' = [bank EXCEPT ![t].st = "refused"]
    /\ UNCHANGED <<plan, idb, enroll, revoked, held, op, pages, faults, histories>>

TransferReply(t) ==
    /\ At(t, "ap-sent")
    /\ \/ bank[t].st = "paid" /\ op[t].wiped /\ Fails(t, "wiped")
       \/ bank[t].st = "paid" /\ ~op[t].wiped /\ Goto(t, "opened") /\ UNCHANGED <<form, home>>
       \/ bank[t].st = "refused" /\ Fails(t, "refused")
    /\ UNCHANGED <<plan, idb, enroll, revoked, held, page, bank, faults, histories>>

(* A transfer that was made is answered with an error: its COMMIT took     *)
(* effect and reported a failure, or encryptAPRep failed after it.         *)
ErrorAfterPaying(t) ==
    /\ At(t, "ap-sent") /\ bank[t].st = "paid"
    /\ Fault("error")
    /\ Fails(t, "error")
    /\ UNCHANGED <<plan, idb, enroll, revoked, held, page, bank, histories>>

(* Mutant: the result goes to whatever form is there.                      *)
ShowResult_AnyForm(t) ==
    /\ t \in Transfers /\ At(t, "opened")
    /\ op' = [op EXCEPT ![t] = [IdleOp EXCEPT !.pc = "done"]]
    /\ form' = IF form.op # None THEN [form EXCEPT !.modal = "success"] ELSE form
    /\ home' = IF t \in home.started THEN [home EXCEPT !.due = TRUE] ELSE home
    /\ UNCHANGED <<plan, idb, enroll, revoked, held, page, bank, faults, histories>>

(* The result reaches the form that asked for it, if it is there, and the  *)
(* Home it belongs to reloads.                                             *)
ShowResult(t) ==
    /\ t \in Transfers /\ At(t, "opened")
    /\ op' = [op EXCEPT ![t] = [IdleOp EXCEPT !.pc = "done"]]
    /\ form' = IF form.op = t THEN [form EXCEPT !.modal = "success"] ELSE form
    /\ home' = IF t \in home.started THEN [home EXCEPT !.due = TRUE] ELSE home
    /\ UNCHANGED <<plan, idb, enroll, revoked, held, page, bank, faults, histories>>

(* The CA revokes a certificate; a ticket expires.                         *)
Revoke(c) ==
    /\ enroll[c] \in {"issued", "stored", "done"} /\ c \notin revoked
    /\ Fault("revoke")
    /\ revoked' = revoked \union {c}
    /\ UNCHANGED <<plan, idb, enroll, held, op, pages, bank, histories>>

Expire(s) ==
    /\ Valid(s)
    /\ Fault("expire")
    /\ held' = [held EXCEPT ![s].expired = TRUE]
    /\ UNCHANGED <<plan, idb, enroll, revoked, op, pages, bank, histories>>

-----------------------------------------------------------------------------
(* The steps of a call that need nobody's click.                           *)
Progress(i) ==
    TgsReply(i) \/ Refused(i) \/ StoreTicket(i)

TransferStep(t) ==
    \/ SendTransfer(t) \/ TransferMoney(t) \/ Transfer(t) \/ TransferReply(t)
    \/ ShowResult(t)

Next ==
    \/ OpenHome \/ Leave \/ handleLogout \/ Reload
    \/ \E c \in Customers :
           \/ prepareEnrollment(c) \/ RegisterAnswer(c) \/ storeCertificate(c)
           \/ GoToLogin(c) \/ Revoke(c)
    \/ \E i \in Ops : LoseAnswer(i) \/ Progress(i)
    \/ \E t \in Transfers : ErrorAfterPaying(t)
    \/ \E l \in Logins : verifyPin(l) \/ ReadKey(l) \/ AsReply(l)
    \/ \E i \in Loads : fetchProfile(i) \/ ProfileReply(i) \/ ShowProfile(i)
    \/ closeModal \/ setView
    \/ \E t \in Transfers : handlePinKey(t) \/ TransferStep(t)
    \/ \E s \in Places : Expire(s)

(* A promise the browser has settled is continued, and a request is        *)
(* answered or its connection breaks.                                      *)
Fairness ==
    /\ \A t \in Transfers : WF_vars(Progress(t))
    /\ \A t \in Transfers : WF_vars(TransferStep(t))

Spec == Init /\ [][Next]_vars /\ Fairness

-----------------------------------------------------------------------------
OpRecords ==
    [pc : Ended \union {"idle", "key", "as-sent", "tgs-sent", "tgs-store", "blob",
                        "ap-sent", "opened"},
     client : Customers \union {None}, ref : Places \union {"none", "gone"},
     wiped : BOOLEAN, signer : Customers \union {None}]

BankRecords ==
    [st : {"none", "sent", "checked", "paid", "refused"}, order : Nat,
     from : Customers \union {None}, client : Customers \union {None},
     signer : Customers \union {None}, late : BOOLEAN]

(* What the tab, IndexedDB and the Bank hold has the type of what it       *)
(* stands for, in every interleaving of clicks, calls and answers.         *)
TypeOK ==
    /\ plan \in Plans
    /\ idb \in [key : Customers \union {None}, cert : Customers \union {None}]
    /\ enroll \in [Customers -> {"none", "registering", "issued", "stored", "done", "failed"}]
    /\ revoked \subseteq Customers
    /\ held \in [Places -> [client : Customers \union {None}, expired : BOOLEAN]]
    /\ op \in [Ops -> OpRecords]
    /\ page \in {"login", "register", "home"}
    /\ home \in [client : Customers \union {None}, profile : Customers \union {None},
                 due : BOOLEAN, load : Loads \union {None}, started : SUBSET Transfers]
    /\ form \in [modal : {"entry", "processing", "success", "error"}, order : Nat,
                 op : Transfers \union {None}]
    /\ bank \in [Transfers -> BankRecords]
    /\ faults \in 0..MaxFaults
    /\ overlapped \in BOOLEAN
    /\ outlived \subseteq Customers

(***************************************************************************)
(* The tickets in memory are those of the customer who is logged in, and   *)
(* nobody's after a logout, though calls are under way that store theirs   *)
(* later.  The exceptions are the tickets that outlive a session, in two   *)
(* ways alone: another customer logs in over it (Back to the login page,   *)
(* registration, login; setSession clears no service ticket), or it ends   *)
(* between the decryption of a TGS reply and the storing of the ticket.    *)
(***************************************************************************)
OwnTickets ==
    \A s \in Scopes :
        Present(s) => held[s].client \in {held["tgt"].client} \union outlived

(***************************************************************************)
(* The profile that Home shows is that of the customer for whom it was     *)
(* opened or who has logged in since, although fetches of an earlier visit *)
(* may answer late.  The exception is a former customer whose balance:read *)
(* ticket outlived his session in one of the two ways named above:         *)
(* performTgsExchange goes on using it, and Home shows his profile to the  *)
(* new one.  No other order of events shows a stranger's profile.          *)
(***************************************************************************)
ProfileIsOwn ==
    home.profile # None =>
        home.profile \in {home.client, held["tgt"].client} \union outlived

(***************************************************************************)
(* Key and certificate on the device belong together unless the            *)
(* enrollment that made the key has not finished, or has failed (then the  *)
(* certificate that is left is of no use), or two enrollments overlapped.  *)
(***************************************************************************)
PairFits ==
    ~overlapped /\ idb.key # idb.cert
        => enroll[idb.key] \in {"registering", "issued", "failed"}

(***************************************************************************)
(* Money moves only from the account of the customer whose ticket was      *)
(* used and whose key signed, however tickets, keys and the profile on the *)
(* page were mixed, and not on an order sent after his certificate was     *)
(* revoked, although the ticket outlives it.                               *)
(***************************************************************************)
PayerConsents ==
    \A t \in Transfers :
        bank[t].st = "paid" => /\ bank[t].from = bank[t].client
                               /\ bank[t].signer = bank[t].client
                               /\ ~bank[t].late

(* The browser has not learnt that such a transfer was made.               *)
Unheard == {"lost", "error", "wiped"}

(***************************************************************************)
(* The form says "success" of transfers that were made, and "failed" of    *)
(* one that was made only if its answer was lost or was an error, or its   *)
(* key was wiped while it was under way.                                   *)
(***************************************************************************)
ModalTellsLedger ==
    form.op # None =>
        /\ form.modal = "success" => bank[form.op].st = "paid"
        /\ form.modal = "error" /\ bank[form.op].st = "paid"
               => op[form.op].pc \in Unheard

PaidTwice(t, u) ==
    t # u /\ bank[t].st = "paid" /\ bank[u].st = "paid" /\ bank[t].order = bank[u].order

(***************************************************************************)
(* An order that is repeated after its answer was lost is paid once, as    *)
(* the repetition has the same idempotency key.  That is what the API      *)
(* design and the description of the transfer say of a retry; the code     *)
(* does otherwise, as performTransfer makes a key for every attempt.       *)
(***************************************************************************)
RetryPaysOnce == ~\E t, u \in Transfers : PaidTwice(t, u)

(***************************************************************************)
(* The limits of that: one order is paid twice only if the user repeats it *)
(* after an answer that did not tell him, and never by keys pressed while  *)
(* a transfer is being processed or by an answer that comes late.          *)
(***************************************************************************)
RepeatOnlyAfterLoss ==
    \A t, u \in Transfers :
        PaidTwice(t, u) => op[t].pc \in Unheard \/ op[u].pc \in Unheard

-----------------------------------------------------------------------------
(***************************************************************************)
(* What makes the properties above inductive.  First the tickets: a call   *)
(* that still has a reference to a ticket has it from the customer it is   *)
(* made for and finds its key, a TGS request has the TGT or a wiped key,   *)
(* a request to the Bank has a ticket or a wiped key, and a ticket that    *)
(* waits to be stored is for the session it was got with, or outlived it.  *)
(***************************************************************************)
RefsAreLive ==
    \A i \in Ops :
        /\ op[i].ref \in Places => /\ Present(op[i].ref) /\ ~op[i].wiped
                                   /\ op[i].client = held[op[i].ref].client
        /\ At(i, "tgs-sent") => op[i].ref = "tgt" \/ op[i].wiped
        /\ op[i].pc \in {"blob", "ap-sent"} => op[i].ref \in Scopes \/ op[i].wiped
        /\ op[i].pc \in {"key", "as-sent", "tgs-sent", "tgs-store"} => op[i].client # None

StoresAreOwn ==
    \A i \in Decrypted : op[i].client \in {held["tgt"].client} \union outlived

TicketInv == RefsAreLive /\ StoresAreOwn /\ OwnTickets

(* Home is mounted over a session, and the fetch that Home waits for is    *)
(* made for the customer it was opened for or who has logged in since,     *)
(* unless its key has been wiped, which keeps it from being shown.         *)
HomeFollowsPage ==
    /\ page # "home" => home = NoHome
    /\ page = "home" => Present("tgt")

Showable(i) ==
    \/ op[i].pc \in {"tgs-store", "opened"}
    \/ op[i].pc \in {"tgs-sent", "ap-sent"} /\ ~op[i].wiped

LoadIsOwn ==
    home.load # None /\ Showable(home.load) =>
        op[home.load].client \in {home.client, held["tgt"].client} \union outlived

HomeInv == HomeFollowsPage /\ LoadIsOwn /\ ProfileIsOwn

(* Of enrollments that do not overlap, the one under way made the key.     *)
KeyIsOfEnrolling ==
    ~overlapped =>
        /\ Enrolling \subseteq {idb.key}
        /\ idb.key # idb.cert => idb.key # None

PairInv == KeyIsOfEnrolling /\ PairFits

(* How far the Bank can be with a transfer, by what the tab knows of it.   *)
LedgerFollowsCall ==
    \A t \in Transfers :
        /\ op[t].pc \in {"idle", "tgs-sent", "tgs-store", "blob"} => bank[t].st = "none"
        /\ op[t].pc \in {"opened", "done"} => bank[t].st = "paid"
        /\ op[t].pc = "refused" => bank[t].st \in {"none", "refused"}
        /\ op[t].pc \notin {"key", "as-sent"}

(* A late order was sent after the revocation, so authorize refuses it.    *)
ChecksHold ==
    \A t \in Transfers :
        /\ bank[t].late => bank[t].client \in revoked
        /\ bank[t].st \in {"checked", "paid"} =>
               bank[t].signer = bank[t].client /\ ~bank[t].late

LedgerInv == LedgerFollowsCall /\ ChecksHold /\ PayerConsents

Failed == Unheard \union {"refused"}

(* The dialog tells how the form's transfer has ended.                     *)
ModalFollowsCall ==
    /\ form.modal = "success" /\ form.op # None => At(form.op, "done")
    /\ form.modal \in {"entry", "error"} /\ form.op # None => op[form.op].pc \in Failed

(* Forms are numbered upwards, and of the transfers sent from the form     *)
(* that is shown all but its last have failed.                             *)
FormsAreNumbered ==
    \A t \in Transfers :
        ~At(t, "idle") => /\ bank[t].order <= form.order
                          /\ bank[t].order = form.order /\ t # form.op => op[t].pc \in Failed

OneUnfailed ==
    \A t, u \in Transfers :
        t # u /\ ~At(t, "idle") /\ ~At(u, "idle") /\ bank[t].order = bank[u].order
            => op[t].pc \in Failed \/ op[u].pc \in Failed

FormInv == ModalFollowsCall /\ FormsAreNumbered /\ OneUnfailed

ClientInv == TypeOK /\ TicketInv /\ HomeInv /\ PairInv /\ LedgerInv /\ FormInv

-----------------------------------------------------------------------------
(* A form that is processing comes to a result.                            *)
ProcessingEnds == form.modal = "processing" ~> form.modal # "processing"
=============================================================================
