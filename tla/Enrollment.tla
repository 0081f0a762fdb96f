------------------------------ MODULE Enrollment ------------------------------
(***************************************************************************)
(* PKI enrollment: handleRegister of the gateway (ca.controller.ts), which *)
(* takes a registration token, lets the CA issue a certificate, lets the   *)
(* bank create the user and its account, and revokes the certificate again *)
(* when the bank does not.  Each call is a gRPC or Redis round trip that   *)
(* other handlings interleave with; it may fail before or after it took    *)
(* effect.                                                                 *)
(*                                                                         *)
(* A token carries an email and a fresh owner id; the owner id is named by *)
(* the token.  Two tokens may carry the same email.                        *)
(***************************************************************************)
EXTENDS Integers

CONSTANTS
    Tokens, Addresses,
    MailOf,    \* [Tokens -> Addresses]
    Requests,  \* handlings of POST /v1/pki/register
    Faults,    \* may calls fail, replies be lost, the gateway die?
    NoToken

ASSUME EnrollmentAssumption ==
    /\ MailOf \in [Tokens -> Addresses]
    /\ Faults \in BOOLEAN
    /\ NoToken \notin Tokens

VARIABLES
    valid,     \* tokens that are not past their exp
    used,      \* tokens whose jti holds "1" in Redis
    cert,      \* [Requests -> status]: the certificate the request got
    users,     \* owner ids in the bank's users table
    pc, token,
    unsettled, \* history: a failure kept the request from settling its
               \* certificate
    unheard    \* history: requests whose user the bank created and the
               \* gateway was not told so

vars == <<valid, used, cert, users, pc, token, unsettled, unheard>>

Running == {"jti", "email", "issue", "create", "rollback", "use"}

Phases == Running \cup {"idle", "rejected", "registered", "dead"}

Statuses == {"none", "active", "revoked"}

Goto(r, phase) == pc' = [pc EXCEPT ![r] = phase]

-----------------------------------------------------------------------------
(* jwt.verify.                                                             *)
handleRegister(r, t) ==
    /\ pc[r] = "idle"
    /\ token' = [token EXCEPT ![r] = t]
    /\ Goto(r, IF t \in valid THEN "jti" ELSE "rejected")
    /\ UNCHANGED <<valid, used, cert, users, unsettled, unheard>>

(* GET of the jti: only "1" is refused, a missing key is not.              *)
CheckJti(r) ==
    /\ pc[r] = "jti"
    /\ Goto(r, IF token[r] \in used THEN "rejected" ELSE "email")
    /\ UNCHANGED <<valid, used, cert, users, token, unsettled, unheard>>

MailTaken(t) == \E u \in users : MailOf[u] = MailOf[t]

(* checkUserEmail: the bank knows the email, or does not.                  *)
CheckUserEmail(r) ==
    /\ pc[r] = "email"
    /\ Goto(r, IF MailTaken(token[r]) THEN "rejected" ELSE "issue")
    /\ UNCHANGED <<valid, used, cert, users, token, unsettled, unheard>>

(* idx_certs_one_active_per_owner, which CreateCertificate checks first.   *)
HasActive(t) == \E q \in Requests : token[q] = t /\ cert[q] = "active"

(* RegisterUser and CreateCertificate: a certificate is issued, or the CA  *)
(* refuses (an active certificate, an invalid CSR).                        *)
RegisterUser(r) ==
    /\ pc[r] = "issue"
    /\ \/ Goto(r, "rejected") /\ UNCHANGED cert
       \/ /\ ~HasActive(token[r])
          /\ cert' = [cert EXCEPT ![r] = "active"]
          /\ Goto(r, "create")
    /\ UNCHANGED <<valid, used, users, token, unsettled, unheard>>

(* The reply of an executed RegisterUser is lost: the gateway answers with *)
(* the error and revokes nothing.                                          *)
RegisterUserLost(r) ==
    /\ Faults
    /\ pc[r] = "issue"
    /\ ~HasActive(token[r])
    /\ cert' = [cert EXCEPT ![r] = "active"]
    /\ Goto(r, "rejected")
    /\ unsettled' = unsettled \cup {r}
    /\ UNCHANGED <<valid, used, users, token, unheard>>

(* users.email is UNIQUE and users.id the primary key: every error of the  *)
(* INSERT is ErrUserExists.                                                *)
UserExists(t) == t \in users \/ MailTaken(t)

(* Mutant: ErrUserExists is taken for success.                             *)
CreateUser_ExistsIsOk(r) ==
    /\ pc[r] = "create"
    /\ IF UserExists(token[r]) THEN UNCHANGED users
                               ELSE users' = users \cup {token[r]}
    /\ Goto(r, "use")
    /\ UNCHANGED <<valid, used, cert, token, unsettled, unheard>>

(* Mutant: user and account are created in two transactions, the second of *)
(* which may fail.                                                         *)
CreateUser_TwoTransactions(r) ==
    /\ pc[r] = "create"
    /\ IF UserExists(token[r])
         THEN Goto(r, "rollback") /\ UNCHANGED users
         ELSE /\ Goto(r, "use") \/ Goto(r, "rollback")
              /\ users' = users \cup {token[r]}
    /\ UNCHANGED <<valid, used, cert, token, unsettled, unheard>>

(* CreateUser: user and default account in one transaction.                *)
CreateUser(r) ==
    /\ pc[r] = "create"
    /\ IF UserExists(token[r])
         THEN Goto(r, "rollback") /\ UNCHANGED users
         ELSE Goto(r, "use") /\ users' = users \cup {token[r]}
    /\ UNCHANGED <<valid, used, cert, token, unsettled, unheard>>

(* The call fails, before or after the commit.                             *)
CreateUserFails(r) ==
    /\ Faults
    /\ pc[r] = "create"
    /\ Goto(r, "rollback")
    /\ \/ UNCHANGED <<users, unheard>>
       \/ /\ ~UserExists(token[r])
          /\ users' = users \cup {token[r]}
          /\ unheard' = unheard \cup {r}
    /\ UNCHANGED <<valid, used, cert, token, unsettled>>

(* Mutant: no compensation.                                                *)
RevokeCertificate_Missing(r) ==
    /\ pc[r] = "rollback"
    /\ Goto(r, "rejected")
    /\ UNCHANGED <<valid, used, cert, users, token, unsettled, unheard>>

(* revokeCertificate with reason registration_rollback.                    *)
RevokeCertificate(r) ==
    /\ pc[r] = "rollback"
    /\ cert' = [cert EXCEPT ![r] = "revoked"]
    /\ Goto(r, "rejected")
    /\ UNCHANGED <<valid, used, users, token, unsettled, unheard>>

(* The compensation fails, before or after the commit; the error is only   *)
(* logged.                                                                 *)
RevokeCertificateFails(r) ==
    /\ Faults
    /\ pc[r] = "rollback"
    /\ cert' \in {cert, [cert EXCEPT ![r] = "revoked"]}
    /\ Goto(r, "rejected")
    /\ unsettled' = unsettled \cup {r}
    /\ UNCHANGED <<valid, used, users, token, unheard>>

(* SET jti "1", whose failure is only logged, and the answer 201.          *)
MarkTokenUsed(r) ==
    /\ pc[r] = "use"
    /\ \/ used' = used \cup {token[r]}
       \/ Faults /\ UNCHANGED used
    /\ Goto(r, "registered")
    /\ UNCHANGED <<valid, cert, users, token, unsettled, unheard>>

(* The Redis GET or checkUserEmail or RegisterUser fails without effect.   *)
CallFails(r) ==
    /\ Faults
    /\ pc[r] \in {"jti", "email", "issue"}
    /\ Goto(r, "rejected")
    /\ UNCHANGED <<valid, used, cert, users, token, unsettled, unheard>>

(* The gateway dies; what it began stays as it is.                         *)
Crash ==
    /\ Faults
    /\ \E r \in Requests : pc[r] \in Running
    /\ pc' = [r \in Requests |-> IF pc[r] \in Running THEN "dead" ELSE pc[r]]
    /\ unsettled' = unsettled
                      \cup {r \in Requests : pc[r] \in {"create", "rollback"}}
    /\ UNCHANGED <<valid, used, cert, users, token, unheard>>

(* exp is reached; the jti key goes with it.                               *)
TokenExpires(t) ==
    /\ t \in valid
    /\ valid' = valid \ {t}
    /\ used' = used \ {t}
    /\ UNCHANGED <<cert, users, pc, token, unsettled, unheard>>

-----------------------------------------------------------------------------
Init ==
    /\ valid = Tokens
    /\ used = {}
    /\ cert = [r \in Requests |-> "none"]
    /\ users = {}
    /\ pc = [r \in Requests |-> "idle"]
    /\ token = [r \in Requests |-> NoToken]
    /\ unsettled = {}
    /\ unheard = {}

Next ==
    \/ \E r \in Requests :
          \/ \E t \in Tokens : handleRegister(r, t)
          \/ CheckJti(r) \/ CheckUserEmail(r)
          \/ RegisterUser(r) \/ RegisterUserLost(r)
          \/ CreateUser(r) \/ CreateUserFails(r)
          \/ RevokeCertificate(r) \/ RevokeCertificateFails(r)
          \/ MarkTokenUsed(r) \/ CallFails(r)
    \/ Crash
    \/ \E t \in Tokens : TokenExpires(t)

Spec == Init /\ [][Next]_vars

-----------------------------------------------------------------------------
(* Every variable keeps the type of what it stands for.                    *)
TypeOK ==
    /\ valid \subseteq Tokens
    /\ used \subseteq Tokens
    /\ cert \in [Requests -> Statuses]
    /\ users \subseteq Tokens
    /\ pc \in [Requests -> Phases]
    /\ token \in [Requests -> Tokens \cup {NoToken}]
    /\ unsettled \subseteq Requests
    /\ unheard \subseteq Requests

(* A client that is answered 201 holds an active certificate whose owner   *)
(* is a user of the bank, and is the only one answered so for its email:   *)
(* neither the race on the jti nor two tokens for one email enroll twice,  *)
(* and no rollback of another request takes the certificate away.          *)
RegisteredOnce ==
    /\ \A r \in Requests :
          pc[r] = "registered" => cert[r] = "active" /\ token[r] \in users
    /\ \A q, r \in Requests :
          /\ pc[q] = "registered" /\ pc[r] = "registered"
          /\ MailOf[token[q]] = MailOf[token[r]]
          => q = r

(* The compensation works: a request that has ended leaves an active       *)
(* certificate only to a user of the bank, unless the reply of the CA was  *)
(* lost, the revocation failed or the gateway died on the way.             *)
ActiveIsEnrolled ==
    \A r \in Requests :
        cert[r] = "active" /\ pc[r] \notin Running =>
            token[r] \in users \/ r \in unsettled

(* Nor does the compensation go too far: a user of the bank, whose email   *)
(* can never be registered again, has an active certificate, whatever      *)
(* requests for the same token or email are refused, rolled back or cut    *)
(* off.  The exception is a user whom the bank created without the gateway *)
(* hearing of it: the certificate is revoked, and nothing lets the         *)
(* customer in again.                                                      *)
UsersHaveCertificates ==
    \A u \in users : \E r \in Requests :
        token[r] = u /\ (cert[r] = "active" \/ r \in unheard)

-----------------------------------------------------------------------------
(* The invariant the proofs are by: which request has a certificate and    *)
(* whose the user is, by how far the request has come.                     *)
CertFollowsPhase ==
    \A r \in Requests :
        /\ pc[r] # "idle" => token[r] \in Tokens
        /\ pc[r] \in {"idle", "jti", "email", "issue"} => cert[r] = "none"
        /\ pc[r] \in {"create", "rollback", "use", "registered"} =>
              cert[r] = "active"
        /\ pc[r] \in {"use", "registered"} => token[r] \in users
        /\ pc[r] = "idle" => r \notin unheard

(* idx_certs_one_active_per_owner.                                         *)
OneActivePerOwner ==
    \A q, r \in Requests :
        /\ cert[q] = "active" /\ cert[r] = "active"
        /\ token[q] = token[r]
        => q = r

(* The certificate of a user is past the point where it may be revoked.    *)
UsersAreSettled ==
    \A u \in users : \E r \in Requests :
        /\ token[r] = u
        /\ \/ cert[r] = "active" /\ pc[r] \notin {"create", "rollback"}
           \/ r \in unheard

(* users.email is UNIQUE.                                                  *)
OneUserPerMail == \A s, t \in users : MailOf[s] = MailOf[t] => s = t

(* Certificates and users agree at every step of handleRegister: a request *)
(* has the certificate its phase calls for, an email has one user, an      *)
(* owner one active certificate, and what was issued is settled.           *)
EnrollmentInv ==
    /\ TypeOK
    /\ CertFollowsPhase
    /\ OneUserPerMail
    /\ OneActivePerOwner
    /\ ActiveIsEnrolled
    /\ UsersAreSettled
=============================================================================
