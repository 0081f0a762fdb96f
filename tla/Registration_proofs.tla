-------------------------- MODULE Registration_proofs ------------------------
(***************************************************************************)
(* The way in for a new customer, for any number of requests, handlings,   *)
(* tokens and emails and whatever calls fail: enrollment (one per email,   *)
(* a compensation that leaves no certificate behind unless it was cut off, *)
(* and takes none away that a user has), and before it the OTP challenge   *)
(* (a token for an unspent code of that email, and lockouts that end).     *)
(* What holds of each holds of both together.                              *)
(***************************************************************************)
EXTENDS Registration, TLAPS

-----------------------------------------------------------------------------
(* Enrollment.                                                             *)

(* Nothing is issued or created in the initial states.                     *)
LEMMA EnrollmentInit == Init => EnrollmentInv
BY EnrollmentAssumption
   DEF Init, EnrollmentInv, TypeOK, CertFollowsPhase, OneUserPerMail,
       OneActivePerOwner, ActiveIsEnrolled, UsersAreSettled, Running, Phases, Statuses

Agreement ==
    /\ TypeOK
    /\ CertFollowsPhase
    /\ OneUserPerMail
    /\ OneActivePerOwner
    /\ ActiveIsEnrolled

(* Every step of a handling, of the clock or of a failure keeps phases,    *)
(* certificates and users in agreement.                                    *)
LEMMA AgreementStep == EnrollmentInv /\ [Next]_vars => Agreement'
<1> SUFFICES ASSUME EnrollmentInv, [Next]_vars
             PROVE  Agreement'
  OBVIOUS
<1> USE EnrollmentAssumption
<1> USE DEF EnrollmentInv, TypeOK, CertFollowsPhase, OneUserPerMail,
            OneActivePerOwner, ActiveIsEnrolled, Agreement, Running, Phases, Statuses
<1>1. ASSUME NEW r \in Requests, NEW t \in Tokens, handleRegister(r, t)
      PROVE  Agreement'
  BY <1>1 DEF handleRegister, Goto
<1>2. ASSUME NEW r \in Requests, CheckJti(r)
      PROVE  Agreement'
  BY <1>2 DEF CheckJti, Goto
<1>3. ASSUME NEW r \in Requests, CheckUserEmail(r)
      PROVE  Agreement'
  BY <1>3 DEF CheckUserEmail, Goto
<1>4. ASSUME NEW r \in Requests, RegisterUser(r)
      PROVE  Agreement'
  BY <1>4 DEF RegisterUser, Goto, HasActive
<1>5. ASSUME NEW r \in Requests, RegisterUserLost(r)
      PROVE  Agreement'
  BY <1>5 DEF RegisterUserLost, Goto, HasActive
<1>6. ASSUME NEW r \in Requests, CreateUser(r)
      PROVE  Agreement'
  BY <1>6 DEF CreateUser, Goto, UserExists, MailTaken
<1>7. ASSUME NEW r \in Requests, CreateUserFails(r)
      PROVE  Agreement'
  BY <1>7 DEF CreateUserFails, Goto, UserExists, MailTaken
<1>8. ASSUME NEW r \in Requests, RevokeCertificate(r)
      PROVE  Agreement'
  BY <1>8 DEF RevokeCertificate, Goto
<1>9. ASSUME NEW r \in Requests, RevokeCertificateFails(r)
      PROVE  Agreement'
  BY <1>9 DEF RevokeCertificateFails, Goto
<1>10. ASSUME NEW r \in Requests, MarkTokenUsed(r)
      PROVE  Agreement'
  BY <1>10 DEF MarkTokenUsed, Goto
<1>11. ASSUME NEW r \in Requests, CallFails(r)
      PROVE  Agreement'
  BY <1>11 DEF CallFails, Goto
<1>12. CASE Crash
  BY <1>12 DEF Crash
<1>13. ASSUME NEW t \in Tokens, TokenExpires(t)
      PROVE  Agreement'
  BY <1>13 DEF TokenExpires
<1>14. CASE UNCHANGED vars
  BY <1>14 DEF vars
<1> QED
  BY <1>1, <1>2, <1>3, <1>4, <1>5, <1>6, <1>7, <1>8, <1>9, <1>10, <1>11, <1>12, <1>13, <1>14 DEF Next

(* The request that created a user, and stands for it, stays as it is: it  *)
(* has passed the points at which handleRegister revokes.                  *)
LEMMA SettledStep == EnrollmentInv /\ [Next]_vars => UsersAreSettled'
<1> SUFFICES ASSUME EnrollmentInv, [Next]_vars
             PROVE  UsersAreSettled'
  OBVIOUS
<1> USE EnrollmentAssumption
<1>t. TypeOK /\ CertFollowsPhase /\ UsersAreSettled
  BY DEF EnrollmentInv
<1> DEFINE Stands(r) == \/ cert[r] = "active" /\ pc[r] \notin {"create", "rollback"}
                        \/ r \in unheard
<1>s. ASSUME \A r \in Requests : token[r] \in Tokens /\ Stands(r) =>
                 token'[r] = token[r] /\ Stands(r)',
             users' = users
      PROVE  UsersAreSettled'
  BY <1>s, <1>t DEF UsersAreSettled, TypeOK
<1>1. ASSUME NEW r \in Requests, NEW t \in Tokens, handleRegister(r, t)
      PROVE  UsersAreSettled'
  <2>1. /\ pc[r] = "idle" /\ cert[r] = "none" /\ UNCHANGED <<cert, users, unheard>>
        /\ \A q \in Requests \ {r} : pc'[q] = pc[q] /\ token'[q] = token[q]
        /\ token' \in [Requests -> Tokens \cup {NoToken}]
    BY <1>1, <1>t DEF handleRegister, Goto, CertFollowsPhase, TypeOK
  <2>2. r \in unheard => FALSE
    BY <1>t, <2>1 DEF CertFollowsPhase
  <2> QED BY <1>s, <2>1, <2>2
<1>2. ASSUME NEW r \in Requests,
             \/ CheckJti(r) \/ CheckUserEmail(r) \/ RegisterUser(r)
             \/ RegisterUserLost(r) \/ MarkTokenUsed(r) \/ CallFails(r)
      PROVE  UsersAreSettled'
  <2>1. /\ UNCHANGED <<users, unheard, token>>
        /\ \A q \in Requests \ {r} : pc'[q] = pc[q] /\ cert'[q] = cert[q]
        /\ cert[r] = "active" /\ pc[r] \notin {"create", "rollback"} =>
              cert'[r] = "active" /\ pc'[r] \notin {"create", "rollback"}
    BY <1>2, <1>t DEF CheckJti, CheckUserEmail, RegisterUser, RegisterUserLost,
       MarkTokenUsed, CallFails, Goto, TypeOK, CertFollowsPhase
  <2> QED BY <1>s, <2>1
<1>3. ASSUME NEW r \in Requests, CreateUser(r) \/ CreateUserFails(r)
      PROVE  UsersAreSettled'
  <2>1. /\ pc[r] = "create" /\ UNCHANGED <<cert, token>>
        /\ \A q \in Requests \ {r} : pc'[q] = pc[q]
        /\ unheard \subseteq unheard'
        /\ cert[r] = "active"
    BY <1>3, <1>t DEF CreateUser, CreateUserFails, Goto, TypeOK, CertFollowsPhase
  <2>2. \A q \in Requests : Stands(q) => Stands(q)'
    BY <2>1
  <2>3. CASE users' = users
    BY <1>s, <2>1, <2>2, <2>3
  <2>4. CASE users' # users
    <3>1. users' = users \cup {token[r]} /\ Stands(r)'
      BY <1>3, <1>t, <2>1, <2>4 DEF CreateUser, CreateUserFails, Goto, TypeOK
    <3> QED BY <1>t, <2>1, <2>2, <3>1 DEF UsersAreSettled
  <2> QED BY <2>3, <2>4
<1>4. ASSUME NEW r \in Requests, RevokeCertificate(r) \/ RevokeCertificateFails(r)
      PROVE  UsersAreSettled'
  <2>1. /\ pc[r] = "rollback" /\ UNCHANGED <<users, unheard, token>>
        /\ \A q \in Requests \ {r} : pc'[q] = pc[q] /\ cert'[q] = cert[q]
    BY <1>4, <1>t DEF RevokeCertificate, RevokeCertificateFails, Goto, TypeOK
  <2> QED BY <1>s, <2>1
<1>5. CASE Crash
  <2>1. /\ UNCHANGED <<users, unheard, token, cert>>
        /\ \A q \in Requests : pc'[q] \in {pc[q], "dead"}
    BY <1>5 DEF Crash
  <2> QED BY <1>s, <2>1
<1>6. ASSUME NEW t \in Tokens, TokenExpires(t)
      PROVE  UsersAreSettled'
  BY <1>6, <1>s DEF TokenExpires
<1>7. CASE UNCHANGED vars
  BY <1>7, <1>s DEF vars
<1> QED
  BY <1>1, <1>2, <1>3, <1>4, <1>5, <1>6, <1>7 DEF Next

(* The whole invariant is preserved.                                       *)
LEMMA EnrollmentStep == EnrollmentInv /\ [Next]_vars => EnrollmentInv'
BY AgreementStep, SettledStep DEF Agreement, EnrollmentInv

(* The invariant holds in every state.                                     *)
THEOREM EnrollmentInvHolds == Spec => []EnrollmentInv
BY EnrollmentInit, EnrollmentStep, PTL DEF Spec

(* At most one request per email is ever answered 201, and it holds an     *)
(* active certificate of a user of the bank.                               *)
THEOREM RegisteredOnceHolds == Spec => []RegisteredOnce
<1>1. EnrollmentInv => RegisteredOnce
  BY EnrollmentAssumption
     DEF EnrollmentInv, RegisteredOnce, TypeOK, CertFollowsPhase, OneUserPerMail,
         OneActivePerOwner
<1> QED
  BY <1>1, EnrollmentInvHolds, PTL

(* A request that has ended leaves an active certificate only to a user of *)
(* the bank, unless a failure kept it from settling the certificate.       *)
THEOREM ActiveIsEnrolledHolds == Spec => []ActiveIsEnrolled
<1>1. EnrollmentInv => ActiveIsEnrolled
  BY DEF EnrollmentInv
<1> QED
  BY <1>1, EnrollmentInvHolds, PTL

(* The compensation takes no certificate away that a user of the bank has, *)
(* unless the gateway was not told of the user.                            *)
THEOREM UsersHaveCertificatesHolds == Spec => []UsersHaveCertificates
<1>1. EnrollmentInv => UsersHaveCertificates
  BY DEF EnrollmentInv, UsersAreSettled, UsersHaveCertificates
<1> QED
  BY <1>1, EnrollmentInvHolds, PTL

-----------------------------------------------------------------------------
(* The OTP challenge.                                                      *)

USE OtpAssumption DEF OtpGoto, keys

(* No code has been sent and no handling has begun.                        *)
LEMMA OtpStarts == OtpInit => OtpInv
  BY DEF OtpInit, OtpInv, OtpTypeOK, CurrentIsUnspent, ReadsAreGenuine,
         CounterHasExpiry, OtpPhases, OtpRunning

(* Every variable keeps its type.                                          *)
LEMMA TypeStep == OtpInv /\ [OtpNext]_otpVars => OtpTypeOK'
  <1> SUFFICES ASSUME OtpInv, [OtpNext]_otpVars PROVE OtpTypeOK'
    OBVIOUS
  <1> USE DEF OtpInv, OtpTypeOK, OtpPhases, OtpRunning
  <1>1. ASSUME NEW e \in Emails,
               handleOtpRequest(e) \/ OtpExpires(e) \/ Cooldown(e)
        PROVE  OtpTypeOK'
    <2>1. CASE handleOtpRequest(e)
      BY <2>1 DEF handleOtpRequest
    <2>2. CASE OtpExpires(e)
      BY <2>2 DEF OtpExpires
    <2>3. CASE Cooldown(e)
      BY <2>3 DEF Cooldown
    <2> QED
      BY <1>1, <2>1, <2>2, <2>3
  <1>2. ASSUME NEW v \in Verifies, NEW e \in Emails, NEW c \in 0..sent[e],
               handleOtpVerify(v, e, c)
        PROVE  OtpTypeOK'
    <2>1. c \in Nat
      OBVIOUS
    <2> QED
      BY <1>2, <2>1 DEF handleOtpVerify
  <1>3. ASSUME NEW v \in Verifies, Progress(v) \/ CommandFails(v) \/ ReplyLost(v)
        PROVE  OtpTypeOK'
    <2>1. CASE CheckAttempts(v)
      BY <2>1 DEF CheckAttempts
    <2>2. CASE IncrFailures(v) \/ ExpireFailures(v) \/ CommandFails(v)
      <3>1. mail[v] \in Emails
        BY <2>2 DEF IncrFailures, ExpireFailures, CommandFails, ReadsAreGenuine
      <3>2. CASE IncrFailures(v)
        BY <3>1, <3>2 DEF IncrFailures
      <3>3. CASE ExpireFailures(v)
        BY <3>1, <3>3 DEF ExpireFailures, Expired
      <3>4. CASE CommandFails(v)
        BY <3>1, <3>4 DEF CommandFails
      <3> QED
        BY <2>2, <3>2, <3>3, <3>4
    <2>3. CASE DeleteOtp(v)
      <3>1. mail[v] \in Emails
        BY <2>3 DEF DeleteOtp, ReadsAreGenuine
      <3> QED
        BY <2>3, <3>1 DEF DeleteOtp
    <2>4. CASE MintToken(v)
      BY <2>4 DEF MintToken
    <2>5. CASE ReplyLost(v)
      <3>1. /\ mail[v] \in Emails /\ stored[v] \in Nat
            /\ UNCHANGED <<sent, at, mail, code, stored, before>>
        BY <2>5 DEF ReplyLost, ReadsAreGenuine
      <3>2. failures' \in [Emails -> Nat] /\ stuck' \subseteq Emails
        BY <2>5, <3>1 DEF ReplyLost
      <3>3. cooling' \in [Emails -> BOOLEAN]
        <4>1. Expired(mail[v]) \in [Emails -> BOOLEAN]
          BY <3>1 DEF Expired
        <4> QED BY <2>5, <4>1 DEF ReplyLost
      <3>4. otp' \in [Emails -> Nat] /\ spent' \subseteq Emails \X Nat
        BY <2>5, <3>1 DEF ReplyLost
      <3> QED
        BY <3>1, <3>2, <3>3, <3>4
    <2> QED
      BY <1>3, <2>1, <2>2, <2>3, <2>4, <2>5 DEF Progress
  <1>4. CASE UNCHANGED otpVars
    BY <1>4 DEF otpVars
  <1> QED
    BY <1>1, <1>2, <1>3, <1>4 DEF OtpNext

(***************************************************************************)
(* The code under otp:val is the newest one or none, and unspent: a DEL    *)
(* spends the code that was read, which is the current one or older.       *)
(***************************************************************************)
LEMMA CurrentStep == OtpInv /\ [OtpNext]_otpVars => CurrentIsUnspent'
  <1> SUFFICES ASSUME OtpInv, [OtpNext]_otpVars PROVE CurrentIsUnspent'
    OBVIOUS
  <1> USE DEF OtpInv, OtpTypeOK, CurrentIsUnspent
  <1>1. ASSUME NEW e \in Emails, handleOtpRequest(e) PROVE CurrentIsUnspent'
    BY <1>1 DEF handleOtpRequest
  <1>2. ASSUME NEW e \in Emails, OtpExpires(e) PROVE CurrentIsUnspent'
    BY <1>2 DEF OtpExpires
  <1>3. ASSUME NEW v \in Verifies, DeleteOtp(v) PROVE CurrentIsUnspent'
    <2>1. /\ mail[v] \in Emails
          /\ stored[v] \in 1..sent[mail[v]]
      BY <1>3 DEF DeleteOtp, ReadsAreGenuine
    <2> QED
      BY <1>3, <2>1 DEF DeleteOtp
  <1>4. CASE UNCHANGED <<sent, otp, spent>>
    BY <1>4
  <1>5. ASSUME NEW v \in Verifies, ReplyLost(v) PROVE CurrentIsUnspent'
    <2>1. CASE at[v] # "del"
      BY <1>4, <1>5, <2>1 DEF ReplyLost
    <2>2. CASE at[v] = "del"
      <3>1. mail[v] \in Emails /\ stored[v] \in 1..sent[mail[v]]
        BY <2>2 DEF ReadsAreGenuine
      <3> QED
        BY <1>5, <2>2, <3>1 DEF ReplyLost
    <2> QED BY <2>1, <2>2
  <1> QED
    BY <1>1, <1>2, <1>3, <1>4, <1>5
    DEF OtpNext, Progress, Cooldown, handleOtpVerify, CheckAttempts, IncrFailures,
        ExpireFailures, MintToken, CommandFails, otpVars

(***************************************************************************)
(* What a handling read stays a code that was sent to its email and that   *)
(* was not spent when it began.                                            *)
(***************************************************************************)
LEMMA ReadsStep == OtpInv /\ [OtpNext]_otpVars => ReadsAreGenuine'
  <1> SUFFICES ASSUME OtpInv, [OtpNext]_otpVars PROVE ReadsAreGenuine'
    OBVIOUS
  <1> USE DEF OtpInv, OtpTypeOK, ReadsAreGenuine
  <1>1. ASSUME NEW e \in Emails, handleOtpRequest(e) PROVE ReadsAreGenuine'
    BY <1>1 DEF handleOtpRequest
  <1>2. ASSUME NEW v \in Verifies, NEW e \in Emails, NEW c \in 0..sent[e],
               handleOtpVerify(v, e, c)
        PROVE  ReadsAreGenuine'
    <2>1. otp[e] # 0 => otp[e] \in 1..sent[e] /\ <<e, otp[e]>> \notin spent
      BY DEF CurrentIsUnspent
    <2> QED
      BY <1>2, <2>1 DEF handleOtpVerify
  <1>3. ASSUME NEW v \in Verifies, Progress(v) \/ CommandFails(v) \/ ReplyLost(v)
        PROVE  ReadsAreGenuine'
    BY <1>3 DEF Progress, CheckAttempts, IncrFailures, ExpireFailures,
                DeleteOtp, MintToken, CommandFails, ReplyLost, OtpRunning
  <1>4. CASE \E e \in Emails : OtpExpires(e) \/ Cooldown(e)
    BY <1>4 DEF OtpExpires, Cooldown
  <1>5. CASE UNCHANGED otpVars
    BY <1>5 DEF otpVars
  <1> QED
    BY <1>1, <1>2, <1>3, <1>4, <1>5 DEF OtpNext

(***************************************************************************)
(* Between INCR and EXPIRE a counter has no TTL, but its handling is there *)
(* to set it, or its failure is on record.                                 *)
(***************************************************************************)
LEMMA ExpiryStep == OtpInv /\ [OtpNext]_otpVars => CounterHasExpiry'
  <1> SUFFICES ASSUME OtpInv, [OtpNext]_otpVars PROVE CounterHasExpiry'
    OBVIOUS
  <1> USE DEF OtpInv, OtpTypeOK, CounterHasExpiry
  <1>1. ASSUME NEW e \in Emails, Cooldown(e) PROVE CounterHasExpiry'
    BY <1>1 DEF Cooldown
  <1>2. ASSUME NEW v \in Verifies, NEW e \in Emails, NEW c \in 0..sent[e],
               handleOtpVerify(v, e, c)
        PROVE  CounterHasExpiry'
    BY <1>2 DEF handleOtpVerify
  <1>3. ASSUME NEW v \in Verifies, IncrFailures(v) PROVE CounterHasExpiry'
    <2>1. mail[v] \in Emails
      BY <1>3 DEF IncrFailures, ReadsAreGenuine
    <2> QED
      BY <1>3, <2>1 DEF IncrFailures
  <1>4. ASSUME NEW v \in Verifies, ExpireFailures(v) PROVE CounterHasExpiry'
    BY <1>4 DEF ExpireFailures, Expired, ReadsAreGenuine
  <1>5. ASSUME NEW v \in Verifies, CommandFails(v) PROVE CounterHasExpiry'
    BY <1>5 DEF CommandFails, OtpRunning
  <1>6. ASSUME NEW v \in Verifies,
               CheckAttempts(v) \/ DeleteOtp(v) \/ MintToken(v)
        PROVE  CounterHasExpiry'
    BY <1>6 DEF CheckAttempts, DeleteOtp, MintToken
  <1>7. CASE UNCHANGED <<failures, cooling, stuck, at, mail>>
    BY <1>7
  <1>8. ASSUME NEW v \in Verifies, ReplyLost(v) PROVE CounterHasExpiry'
    <2>1. at[v] \in {"incr", "expire"} => mail[v] \in Emails
      BY DEF ReadsAreGenuine
    <2>2. CASE at[v] = "incr"
      BY <1>8, <2>1, <2>2 DEF ReplyLost
    <2>3. CASE at[v] = "expire"
      BY <1>8, <2>1, <2>3 DEF ReplyLost, Expired
    <2>4. CASE at[v] = "del"
      BY <1>7, <1>8, <2>4 DEF ReplyLost
    <2> QED BY <1>8, <2>2, <2>3, <2>4 DEF ReplyLost
  <1> QED
    BY <1>1, <1>2, <1>3, <1>4, <1>5, <1>6, <1>7, <1>8
    DEF OtpNext, Progress, handleOtpRequest, OtpExpires, otpVars

(* The invariant holds in every behaviour.                                 *)
THEOREM OtpInvHolds == OtpSpec => []OtpInv
  <1>1. OtpInv /\ [OtpNext]_otpVars => OtpInv'
    BY TypeStep, CurrentStep, ReadsStep, ExpiryStep DEF OtpInv
  <1> QED
    BY <1>1, OtpStarts, PTL DEF OtpSpec

(***************************************************************************)
(* However handlings of handleOtpVerify interleave, fail or overlap with   *)
(* handleOtpRequest, a token is given only for a code that was sent to     *)
(* that email and was unspent when the handling began.                     *)
(***************************************************************************)
THEOREM SpentCodesRefused == OtpSpec => []SpentCodeStaysSpent
  <1>1. OtpInv => SpentCodeStaysSpent
    BY DEF OtpInv, ReadsAreGenuine, SpentCodeStaysSpent
  <1> QED
    BY <1>1, OtpInvHolds, PTL

(***************************************************************************)
(* A pending code disappears only by expiry or by the DEL of a handling    *)
(* that presented a code of the same email, the current one or an older.   *)
(***************************************************************************)
THEOREM WrongGuessesKeepCode == OtpSpec => CodeLostOnlyToSuccess
  <1> DEFINE Lost(e) ==
          otp[e] # 0 /\ otp'[e] = 0 =>
              \/ OtpExpires(e)
              \/ \E v \in Verifies :
                    /\ at[v] = "del" /\ mail[v] = e
                    /\ code[v] = stored[v] /\ code[v] \in 1..otp[e]
  <1>1. OtpInv /\ [OtpNext]_otpVars => [\A e \in Emails : Lost(e)]_otpVars
    <2> SUFFICES ASSUME OtpInv, OtpNext, NEW e \in Emails, otp[e] # 0, otp'[e] = 0
                 PROVE  \/ OtpExpires(e)
                        \/ \E v \in Verifies :
                              /\ at[v] = "del" /\ mail[v] = e
                              /\ code[v] = stored[v] /\ code[v] \in 1..otp[e]
      OBVIOUS
    <2> USE DEF OtpInv, OtpTypeOK
    <2>1. ASSUME NEW x \in Emails, handleOtpRequest(x) PROVE FALSE
      BY <2>1 DEF handleOtpRequest
    <2>2. ASSUME NEW x \in Emails, OtpExpires(x) PROVE OtpExpires(e)
      <3>1. x = e
        BY <2>2 DEF OtpExpires
      <3> QED
        BY <2>2, <3>1
    <2>3. ASSUME NEW v \in Verifies, DeleteOtp(v) \/ ReplyLost(v)
          PROVE  /\ at[v] = "del" /\ mail[v] = e
                 /\ code[v] = stored[v] /\ code[v] \in 1..otp[e]
      <3>1. at[v] = "del" /\ mail[v] = e
        BY <2>3 DEF DeleteOtp, ReplyLost
      <3>2. otp[e] = sent[e]
        BY DEF CurrentIsUnspent
      <3> QED
        BY <3>1, <3>2 DEF ReadsAreGenuine
    <2>4. CASE UNCHANGED otp
      BY <2>4
    <2> QED
      BY <2>1, <2>2, <2>3, <2>4
      DEF OtpNext, Progress, Cooldown, handleOtpVerify, CheckAttempts,
          IncrFailures, ExpireFailures, MintToken, CommandFails
  <1> QED
    BY <1>1, OtpInvHolds, PTL DEF OtpSpec, CodeLostOnlyToSuccess

(***************************************************************************)
(* No interleaving leaves a failure counter without a TTL: only a handling *)
(* that stopped between its INCR and its EXPIRE does, or one whose INCR,   *)
(* the counter's first, was sent again and so called for no EXPIRE.        *)
(***************************************************************************)
THEOREM LockoutsAreBounded == OtpSpec => []CounterHasExpiry
  <1>1. OtpInv => CounterHasExpiry
    BY DEF OtpInv
  <1> QED
    BY <1>1, OtpInvHolds, PTL

-----------------------------------------------------------------------------
(* Both together.                                                          *)

(***************************************************************************)
(* The gateway that runs both is a gateway that runs the OTP challenge and *)
(* one that runs the enrollment: what is proved of either, and what TLC    *)
(* checks of either while the other rests, holds of any interleaving.      *)
(***************************************************************************)
THEOREM RegistrationIsBoth == RegistrationSpec => OtpSpec /\ Spec
  <1>1. RegistrationInit => OtpInit /\ Init
    BY DEF RegistrationInit
  <1>2. [RegistrationNext]_<<otpVars, vars>> => [OtpNext]_otpVars /\ [Next]_vars
    BY DEF RegistrationNext
  <1> QED
    BY <1>1, <1>2, PTL DEF RegistrationSpec, OtpSpec, Spec
=============================================================================
