---------------------------- MODULE AdminAccess ----------------------------
(***************************************************************************)
(* How somebody becomes an administrator and stops being one: the scripts  *)
(* that provision an identity and mail an activation token, the activation *)
(* of that token (token, identity, certificate, identity again: four round *)
(* trips to Redis and the CA that other requests interleave with), the     *)
(* login with the certificate, the session, and the revocation of the      *)
(* certificate by a CA administrator.                                      *)
(*                                                                         *)
(* An identity has one token, so both are named by the admin.  A           *)
(* certificate is named by the attempt that had it issued.  Times are      *)
(* kept as the ticks that are left.                                        *)
(***************************************************************************)
EXTENDS Integers, FiniteSets

CONSTANTS
    Admins,         \* identities that are provisioned
    RoleOf,         \* [Admins -> Roles]
    Attempts,       \* POSTs of an activation token
    Plans,          \* each member says whose token an attempt presents, and
                    \* on which role's route: [Attempts -> [admin, role]]
    Logins,         \* login requests; each can lead to one session at a time
    ActivationTtl,  \* activationTtlSeconds, in ticks
    SessionTtl,     \* life of a CA admin's JWT
    TicketTtl,      \* life of a service ticket, and of a Bank admin session
    NoAttempt,
    MaxFaults       \* bound: lost replies, failed calls and crashes

Roles == {"bank_admin", "ca_admin"}

ASSUME AdminAssumption ==
    /\ RoleOf \in [Admins -> Roles]
    /\ Plans \subseteq [Attempts -> [admin : Admins, role : Roles]]
    /\ NoAttempt \notin Attempts
    /\ ActivationTtl \in Nat \ {0} /\ SessionTtl \in Nat \ {0}
    /\ TicketTtl \in Nat \ {0} /\ MaxFaults \in Nat

VARIABLES
    script,     \* script[a]: the run of the provisioning script
    identity,   \* identity[a]: [status, serial] under the identity key
    token,      \* token[a]: ticks the activation key has left, 0 when gone
    att,        \* att[q]: [pc, admin, role] of an attempt; role is the route's
    cert,       \* cert[q]: status of the certificate the attempt got
    login,      \* login[l]: [pc, cert, left] of a login and its session
    faults,
    unsettled   \* history: attempts a failure kept from recording their
                \* certificate, and admins whose provisioning was discarded

vars == <<script, identity, token, att, cert, login, faults, unsettled>>

-----------------------------------------------------------------------------
NoLogin == [pc |-> "idle", cert |-> NoAttempt, left |-> 0]

NoIdentity == [status |-> "none", serial |-> NoAttempt]

Init ==
    /\ script = [a \in Admins |-> "none"]
    /\ identity = [a \in Admins |-> NoIdentity]
    /\ token = [a \in Admins |-> 0]
    /\ \E plan \in Plans :
           att = [q \in Attempts |->
                     [pc |-> "idle", admin |-> plan[q].admin, role |-> plan[q].role]]
    /\ cert = [q \in Attempts |-> "none"]
    /\ login = [l \in Logins |-> NoLogin]
    /\ faults = 0
    /\ unsettled = {}

Goto(q, pc) == att' = [att EXCEPT ![q].pc = pc]

At(q, pc) == att[q].pc = pc

Who(q) == att[q].admin

Fault == faults < MaxFaults /\ faults' = faults + 1

-----------------------------------------------------------------------------
(***************************************************************************)
(* createPendingAdmin: identity and activation key in one MULTI.           *)
(***************************************************************************)
createPendingAdmin(a) ==
    /\ script[a] = "none"
    /\ script' = [script EXCEPT ![a] = "mailing"]
    /\ identity' = [identity EXCEPT ![a] = [status |-> "pending", serial |-> NoAttempt]]
    /\ token' = [token EXCEPT ![a] = ActivationTtl]
    /\ UNCHANGED <<att, cert, login, faults, unsettled>>

(* The mail is accepted, or the script prints the link instead.            *)
SendActivationEmail(a) ==
    /\ script[a] = "mailing"
    /\ script' = [script EXCEPT ![a] = "done"]
    /\ UNCHANGED <<identity, token, att, cert, login, faults, unsettled>>

(***************************************************************************)
(* Sending the mail fails, maybe after it was delivered: the script takes  *)
(* identity and token back, whatever has become of them.                   *)
(***************************************************************************)
discardPendingAdminProvision(a) ==
    /\ script[a] = "mailing"
    /\ Fault
    /\ script' = [script EXCEPT ![a] = "done"]
    /\ identity' = [identity EXCEPT ![a] = NoIdentity]
    /\ token' = [token EXCEPT ![a] = 0]
    /\ unsettled' = unsettled \union {q \in Attempts : Who(q) = a}
    /\ UNCHANGED <<att, cert, login>>

-----------------------------------------------------------------------------
(***************************************************************************)
(* getPendingAdminByToken: the activation key of the route's role.         *)
(***************************************************************************)
ActivationKeyExists(q) == token[Who(q)] > 0 /\ att[q].role = RoleOf[Who(q)]

(* The link is out as soon as the script has it.                           *)
ReadToken(q) ==
    /\ At(q, "idle")
    /\ script[Who(q)] # "none"
    /\ Goto(q, IF ActivationKeyExists(q) THEN "identity" ELSE "401")
    /\ UNCHANGED <<script, identity, token, cert, login, faults, unsettled>>

(* The identity: missing, already active, expired, or pending.  The DEL of *)
(* the token's key after a missing identity is part of the step: only      *)
(* discardPendingAdminProvision removes an identity, and it has removed    *)
(* the key already.                                                        *)
ReadIdentity(q) ==
    /\ At(q, "identity")
    /\ LET a == Who(q)
       IN  \/ /\ identity[a].status = "none"
              /\ token' = [token EXCEPT ![a] = 0]
              /\ Goto(q, "401")
           \/ /\ identity[a].status = "active"
              /\ Goto(q, "409")
              /\ UNCHANGED token
           \/ /\ identity[a].status = "pending" /\ token[a] = 0
              /\ Goto(q, "401")
              /\ UNCHANGED token
           \/ /\ identity[a].status = "pending" /\ token[a] > 0
              /\ Goto(q, "issue")
              /\ UNCHANGED token
    /\ UNCHANGED <<script, identity, cert, login, faults, unsettled>>

(***************************************************************************)
(* issueBankAdminCertificate, issueCaAdminCertificate: RegisterUser of the *)
(* CA, which refuses a second active certificate of an owner.              *)
(***************************************************************************)
HasActive(a) == \E q \in Attempts : cert[q] = "active" /\ Who(q) = a

IssueCertificate(q) ==
    /\ At(q, "issue")
    /\ IF HasActive(Who(q))
       THEN Goto(q, "409") /\ UNCHANGED cert
       ELSE Goto(q, "mark") /\ cert' = [cert EXCEPT ![q] = "active"]
    /\ UNCHANGED <<script, identity, token, login, faults, unsettled>>

(* The call fails, before or after the CA issued; nothing is taken back.   *)
IssueFails(q) ==
    /\ At(q, "issue")
    /\ Fault
    /\ Goto(q, "503")
    /\ \/ UNCHANGED <<cert, unsettled>>
       \/ /\ ~HasActive(Who(q))
          /\ cert' = [cert EXCEPT ![q] = "active"]
          /\ unsettled' = unsettled \union {q}
    /\ UNCHANGED <<script, identity, token, login>>

(* Mutant: the identity is left as it was.                                 *)
markAdminActivated_Pending(q) ==
    /\ At(q, "mark")
    /\ token' = [token EXCEPT ![Who(q)] = 0]
    /\ Goto(q, "201")
    /\ UNCHANGED <<script, identity, cert, login, faults, unsettled>>

(***************************************************************************)
(* markAdminActivated: SET of the identity read before, and DEL of the     *)
(* token, in one MULTI without a look at what is stored now.               *)
(***************************************************************************)
markAdminActivated(q) ==
    /\ At(q, "mark")
    /\ identity' = [identity EXCEPT ![Who(q)] = [status |-> "active", serial |-> q]]
    /\ token' = [token EXCEPT ![Who(q)] = 0]
    /\ Goto(q, "201")
    /\ UNCHANGED <<script, cert, login, faults, unsettled>>

(* The MULTI fails, before or after it ran.                                *)
MarkFails(q) ==
    /\ At(q, "mark")
    /\ Fault
    /\ Goto(q, "502")
    /\ \/ UNCHANGED <<identity, token>> /\ unsettled' = unsettled \union {q}
       \/ /\ identity' = [identity EXCEPT ![Who(q)] = [status |-> "active", serial |-> q]]
          /\ token' = [token EXCEPT ![Who(q)] = 0]
          /\ UNCHANGED unsettled
    /\ UNCHANGED <<script, cert, login>>

(* The gateway dies: attempts and logins under way end, sessions live on.  *)
Crash ==
    /\ Fault
    /\ att' = [q \in Attempts |-> IF att[q].pc \in {"identity", "issue", "mark"}
                                  THEN [att[q] EXCEPT !.pc = "dead"] ELSE att[q]]
    /\ unsettled' = unsettled \union {q \in Attempts : At(q, "mark")}
    /\ login' = [l \in Logins |-> IF login[l].pc = "checked"
                                  THEN NoLogin ELSE login[l]]
    /\ UNCHANGED <<script, identity, token, cert>>

-----------------------------------------------------------------------------
(* Mutant: the status of the certificate is not looked at.                 *)
CheckCertificate_AnyStatus(l, q) ==
    /\ login[l].pc = "idle"
    /\ At(q, "201")
    /\ login' = [login EXCEPT ![l] = [pc |-> "checked", cert |-> q, left |-> 0]]
    /\ UNCHANGED <<script, identity, token, att, cert, faults, unsettled>>

(***************************************************************************)
(* createCaAdminSession and, by way of the KDC's ticket, CreateAdminSession *)
(* of the Bank: the certificate is looked up; the session starts when the  *)
(* answer has come back.  Only a client that got the certificate with a    *)
(* 201 can sign with its key.                                              *)
(***************************************************************************)
CheckCertificate(l, q) ==
    /\ login[l].pc = "idle"
    /\ cert[q] = "active" /\ At(q, "201")
    /\ login' = [login EXCEPT ![l] = [pc |-> "checked", cert |-> q, left |-> 0]]
    /\ UNCHANGED <<script, identity, token, att, cert, faults, unsettled>>

StartSession(l) ==
    /\ login[l].pc = "checked"
    /\ \E left \in IF att[login[l].cert].role = "ca_admin" THEN {SessionTtl}
                                                           ELSE 1..TicketTtl :
           login' = [login EXCEPT ![l] = [pc |-> "session", cert |-> login[l].cert,
                                          left |-> left]]
    /\ UNCHANGED <<script, identity, token, att, cert, faults, unsettled>>

(***************************************************************************)
(* requireAdminRole and handleAdminRevokeCertificate: any live session of  *)
(* a CA administrator will do, be its own certificate revoked or not.      *)
(***************************************************************************)
RevokeCertificate(l, q) ==
    /\ login[l].pc = "session" /\ att[login[l].cert].role = "ca_admin"
    /\ cert[q] = "active"
    /\ cert' = [cert EXCEPT ![q] = "revoked"]
    /\ UNCHANGED <<script, identity, token, att, login, faults, unsettled>>

(* Mutant: the activation key has no expiry.                               *)
Tick_Tokens ==
    /\ \E l \in Logins : login[l].left > 0
    /\ login' = [l \in Logins |->
                    CASE login[l].left > 1 -> [login[l] EXCEPT !.left = @ - 1]
                      [] login[l].left = 1 -> NoLogin
                      [] OTHER -> login[l]]
    /\ UNCHANGED <<script, identity, token, att, cert, faults, unsettled>>

(* Time passes: tokens and sessions run out.                               *)
Tick ==
    /\ \/ \E a \in Admins : token[a] > 0
       \/ \E l \in Logins : login[l].left > 0
    /\ token' = [a \in Admins |-> IF token[a] > 0 THEN token[a] - 1 ELSE 0]
    /\ login' = [l \in Logins |->
                    CASE login[l].left > 1 -> [login[l] EXCEPT !.left = @ - 1]
                      [] login[l].left = 1 -> NoLogin
                      [] OTHER -> login[l]]
    /\ UNCHANGED <<script, identity, att, cert, faults, unsettled>>

-----------------------------------------------------------------------------
Activate(q) ==
    ReadToken(q) \/ ReadIdentity(q) \/ IssueCertificate(q) \/ markAdminActivated(q)

Next ==
    \/ \E a \in Admins :
          createPendingAdmin(a) \/ SendActivationEmail(a) \/ discardPendingAdminProvision(a)
    \/ \E q \in Attempts : Activate(q) \/ IssueFails(q) \/ MarkFails(q)
    \/ Crash
    \/ \E l \in Logins :
          \/ StartSession(l)
          \/ \E q \in Attempts : CheckCertificate(l, q) \/ RevokeCertificate(l, q)
    \/ Tick

(* Handlers that have started go on, and time passes.                      *)
Spec ==
    /\ Init
    /\ [][Next]_vars
    /\ WF_vars(Tick)
    /\ \A q \in Attempts : WF_vars(Activate(q))
    /\ \A l \in Logins : WF_vars(StartSession(l))

-----------------------------------------------------------------------------
Phases ==
    {"idle", "identity", "issue", "mark", "dead", "201", "401", "409", "502", "503"}

(* Type correctness.                                                       *)
TypeOK ==
    /\ script \in [Admins -> {"none", "mailing", "done"}]
    /\ identity \in [Admins -> [status : {"none", "pending", "active"},
                                serial : Attempts \union {NoAttempt}]]
    /\ token \in [Admins -> 0..ActivationTtl]
    /\ att \in [Attempts -> [pc : Phases, admin : Admins, role : Roles]]
    /\ cert \in [Attempts -> {"none", "active", "revoked"}]
    /\ login \in [Logins -> [pc : {"idle", "checked", "session"},
                             cert : Attempts \union {NoAttempt},
                             left : 0..(SessionTtl + TicketTtl)]]
    /\ \A l \in Logins : (login[l].pc = "idle") <=> (login[l].cert = NoAttempt)
    /\ faults \in 0..MaxFaults
    /\ unsettled \subseteq Attempts

(***************************************************************************)
(* What the CA and the identity store say agrees once an attempt is over:  *)
(* an active certificate has the role of the identity it was issued for    *)
(* and is the one that identity records (so an administrator has one),     *)
(* unless a failure came between, the provisioning was taken back, or a    *)
(* certificate of the same admin was revoked while another attempt was     *)
(* under way.                                                              *)
(***************************************************************************)
ActiveIsRecorded ==
    \A q \in Attempts :
        cert[q] = "active" /\ At(q, "201") =>
            /\ att[q].role = RoleOf[Who(q)]
            /\ \/ identity[Who(q)] = [status |-> "active", serial |-> q]
               \/ q \in unsettled
               \/ \E p \in Attempts : Who(p) = Who(q) /\ cert[p] = "revoked"

-----------------------------------------------------------------------------
(***************************************************************************)
(* What makes ActiveIsRecorded inductive.                                  *)
(***************************************************************************)

(* An activation that got past the activation key is on the route of the   *)
(* identity's role, for the key is stored under that role.                 *)
RouteFitsRole ==
    \A q \in Attempts :
        ~At(q, "idle") /\ ~At(q, "401") => att[q].role = RoleOf[Who(q)]

(* The CA has issued nothing before the call and something after it; what  *)
(* markAdminActivated records exists, though it may be revoked by then.    *)
CertFollowsPhase ==
    \A q \in Attempts :
        /\ att[q].pc \in {"idle", "identity", "issue", "401", "409"} => cert[q] = "none"
        /\ At(q, "mark") => cert[q] # "none"

(* RegisterUser never lets an administrator have two active certificates,  *)
(* however the attempts on one token interleave.                           *)
OneActive ==
    \A p, q \in Attempts :
        cert[p] = "active" /\ cert[q] = "active" /\ Who(p) = Who(q) => p = q

(* Nobody presents a token before the script has made it, so that making   *)
(* the identity overwrites nothing.                                        *)
NobodyIsEarly == \A q \in Attempts : script[Who(q)] = "none" => At(q, "idle")

AdminInv ==
    /\ TypeOK
    /\ RouteFitsRole
    /\ CertFollowsPhase
    /\ OneActive
    /\ NobodyIsEarly
    /\ ActiveIsRecorded

-----------------------------------------------------------------------------
(***************************************************************************)
(* Revocation ends access: once the certificate is revoked, a session      *)
(* opened with it, or a login that had already passed the check, comes to  *)
(* its end and no new one follows.                                         *)
(***************************************************************************)
RevokedLosesAccess ==
    \A q \in Attempts :
        (cert[q] = "revoked") ~> [](\A l \in Logins : login[l].cert # q)

(***************************************************************************)
(* A token does not stay usable: it is used, taken back, or runs out, and  *)
(* after that no certificate is issued for it any more.                    *)
(***************************************************************************)
TokensEnd ==
    \A q \in Attempts :
        (script[Who(q)] = "done") ~> [](token[Who(q)] = 0 /\ ~At(q, "issue"))

(***************************************************************************)
(* What the two rest on, step by step.  A revoked certificate never comes  *)
(* back, no login starts with it any more, and none of its sessions gets   *)
(* more time: a login that had passed the check before is all that may     *)
(* still become a session.                                                 *)
(***************************************************************************)
RevocationIsFinal ==
    [][\A q \in Attempts : cert[q] = "revoked" =>
          /\ cert'[q] = "revoked"
          /\ \A l \in Logins : login'[l].cert = q =>
                /\ login[l].cert = q
                /\ login[l].pc = "session" =>
                      login'[l].pc = "session" /\ login'[l].left <= login[l].left]_vars

(***************************************************************************)
(* A token that is gone is gone for good: provisioning is not repeated for *)
(* the same administrator, and no further attempt gets to the CA with it.  *)
(***************************************************************************)
GoneTokenStaysGone ==
    [][\A q \in Attempts : script[Who(q)] # "none" /\ token[Who(q)] = 0 =>
          /\ script'[Who(q)] # "none" /\ token'[Who(q)] = 0
          /\ att'[q].pc = "issue" => att[q].pc = "issue"]_vars
==========================================================================
