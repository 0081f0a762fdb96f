--------------------------------- MODULE Otp ---------------------------------
(***************************************************************************)
(* The OTP challenge of the gateway (otp.controller.ts): handleOtpRequest, *)
(* and concurrent handlings of handleOtpVerify, each of them a sequence of *)
(* awaited Redis commands.                                                 *)
(***************************************************************************)
EXTENDS Integers

CONSTANTS
    Emails,
    Verifies,     \* handlings of POST /v1/otp/verify
    MaxAttempts,  \* OTP_MAX_ATTEMPTS
    MaxCodes,     \* bound on the codes sent to one email
    RedisFaults,  \* may Redis fail, the connection break, the gateway die?
    NoEmail

ASSUME OtpAssumption ==
    /\ MaxAttempts \in Nat \ {0}
    /\ MaxCodes \in Nat
    /\ RedisFaults \in BOOLEAN
    /\ NoEmail \notin Emails

VARIABLES
    sent,      \* [Emails -> Nat]: codes sent; a code is named by its number
    otp,       \* [Emails -> Nat]: the code under otp:val:{email}, 0 if none
    failures,  \* [Emails -> Nat]: the counter rate:verify:{email}
    cooling,   \* [Emails -> BOOLEAN]: the counter has a TTL
    at, mail,
    code,      \* the code in the request, 0 for one that was never sent
    stored,    \* the code the handling read
    spent,     \* history: codes that were verified and deleted
    before,    \* history: what was spent when the handling began
    stuck      \* history: emails whose counter missed an EXPIRE

keys == <<otp, failures, cooling>>
otpVars == <<sent, otp, failures, cooling, at, mail, code, stored, spent,
             before, stuck>>

OtpRunning == {"attempts", "incr", "expire", "del", "mint"}

OtpPhases ==
    OtpRunning \cup {"idle", "notFound", "limited", "mismatch", "verified", "error"}

OtpGoto(v, phase) == at' = [at EXCEPT ![v] = phase]

-----------------------------------------------------------------------------
(* handleOtpRequest: SET otp:val:{email} EX replaces an older code.        *)
handleOtpRequest(e) ==
    /\ sent[e] < MaxCodes
    /\ sent' = [sent EXCEPT ![e] = @ + 1]
    /\ otp' = [otp EXCEPT ![e] = sent[e] + 1]
    /\ UNCHANGED <<failures, cooling, at, mail, code, stored, spent, before,
                   stuck>>

(* OTP_EXPIRES_IN has passed.                                              *)
OtpExpires(e) ==
    /\ otp[e] # 0
    /\ otp' = [otp EXCEPT ![e] = 0]
    /\ UNCHANGED <<sent, failures, cooling, at, mail, code, stored, spent,
                   before, stuck>>

(* handleOtpVerify 1: GET otp:val:{email}.                                 *)
handleOtpVerify(v, e, c) ==
    /\ at[v] = "idle"
    /\ mail' = [mail EXCEPT ![v] = e]
    /\ code' = [code EXCEPT ![v] = c]
    /\ stored' = [stored EXCEPT ![v] = otp[e]]
    /\ before' = [before EXCEPT ![v] = spent]
    /\ OtpGoto(v, IF otp[e] = 0 THEN "notFound" ELSE "attempts")
    /\ UNCHANGED <<sent, keys, spent, stuck>>

(* Mutant: the code is deleted whatever was guessed.                       *)
CheckAttempts_AnyCode(v) ==
    /\ at[v] = "attempts"
    /\ OtpGoto(v, IF failures[mail[v]] >= MaxAttempts THEN "limited" ELSE "del")
    /\ UNCHANGED <<sent, keys, mail, code, stored, spent, before, stuck>>

(* 2 and 3: GET rate:verify:{email}, then the comparison.                  *)
CheckAttempts(v) ==
    /\ at[v] = "attempts"
    /\ OtpGoto(v, IF failures[mail[v]] >= MaxAttempts THEN "limited"
                  ELSE IF code[v] = stored[v] THEN "del"
                  ELSE "incr")
    /\ UNCHANGED <<sent, keys, mail, code, stored, spent, before, stuck>>

(* Mutant: INCR's result is compared with 0, the value before it.          *)
IncrFailures_OffByOne(v) ==
    /\ at[v] = "incr"
    /\ failures' = [failures EXCEPT ![mail[v]] = @ + 1]
    /\ OtpGoto(v, IF failures[mail[v]] + 1 = 0 THEN "expire" ELSE "mismatch")
    /\ UNCHANGED <<sent, otp, cooling, mail, code, stored, spent, before,
                   stuck>>

(* INCR of the counter; its first value calls for an EXPIRE.               *)
IncrFailures(v) ==
    /\ at[v] = "incr"
    /\ failures' = [failures EXCEPT ![mail[v]] = @ + 1]
    /\ OtpGoto(v, IF failures[mail[v]] = 0 THEN "expire" ELSE "mismatch")
    /\ UNCHANGED <<sent, otp, cooling, mail, code, stored, spent, before,
                   stuck>>

(* EXPIRE does nothing to a key that is gone.                              *)
Expired(e) == [cooling EXCEPT ![e] = failures[e] > 0]

ExpireFailures(v) ==
    /\ at[v] = "expire"
    /\ cooling' = Expired(mail[v])
    /\ OtpGoto(v, "mismatch")
    /\ UNCHANGED <<sent, otp, failures, mail, code, stored, spent, before,
                   stuck>>

(* OTP_COOLDOWN has passed since the EXPIRE.                               *)
Cooldown(e) ==
    /\ cooling[e]
    /\ failures' = [failures EXCEPT ![e] = 0]
    /\ cooling' = [cooling EXCEPT ![e] = FALSE]
    /\ UNCHANGED <<sent, otp, at, mail, code, stored, spent, before, stuck>>

(* Mutant: the OTP is left to expire.                                      *)
DeleteOtp_Missing(v) ==
    /\ at[v] = "del"
    /\ spent' = spent \cup {<<mail[v], stored[v]>>}
    /\ OtpGoto(v, "mint")
    /\ UNCHANGED <<sent, keys, mail, code, stored, before, stuck>>

(* 4: DEL otp:val:{email}, whichever code is there by now.                 *)
DeleteOtp(v) ==
    /\ at[v] = "del"
    /\ otp' = [otp EXCEPT ![mail[v]] = 0]
    /\ spent' = spent \cup {<<mail[v], stored[v]>>}
    /\ OtpGoto(v, "mint")
    /\ UNCHANGED <<sent, failures, cooling, mail, code, stored, before, stuck>>

(* 5 and 6: the registration token with a fresh owner id, and its jti.     *)
MintToken(v) ==
    /\ at[v] = "mint"
    /\ OtpGoto(v, "verified")
    /\ UNCHANGED <<sent, keys, mail, code, stored, spent, before, stuck>>

(* Redis answers a command with an error, or the gateway dies before it.   *)
(* Nothing repeats an EXPIRE that was lost so.                             *)
CommandFails(v) ==
    /\ RedisFaults
    /\ at[v] \in OtpRunning
    /\ OtpGoto(v, "error")
    /\ stuck' = IF at[v] = "expire" THEN stuck \cup {mail[v]} ELSE stuck
    /\ UNCHANGED <<sent, keys, mail, code, stored, spent, before>>

(* The connection breaks when Redis has carried out a command and has not  *)
(* replied.  With maxRetriesPerRequest null the command is not rejected:   *)
(* ioredis sends it again once it is connected, and the handling goes on   *)
(* with the answer to that.  A first INCR that is sent again returns 2, so *)
(* that no EXPIRE follows it.  (A GET, and a SET of a new code or jti, may *)
(* be repeated without effect.)  How often INCR is repeated is bounded by  *)
(* MaxAttempts: beyond it the counter says nothing new.                    *)
ReplyLost(v) ==
    /\ RedisFaults
    /\ \/ /\ at[v] = "incr" /\ failures[mail[v]] <= MaxAttempts
          /\ failures' = [failures EXCEPT ![mail[v]] = @ + 1]
          /\ stuck' = IF failures[mail[v]] = 0 THEN stuck \cup {mail[v]} ELSE stuck
          /\ UNCHANGED <<otp, cooling, spent>>
       \/ /\ at[v] = "expire"
          /\ cooling' = Expired(mail[v])
          /\ UNCHANGED <<otp, failures, spent, stuck>>
       \/ /\ at[v] = "del"
          /\ otp' = [otp EXCEPT ![mail[v]] = 0]
          /\ spent' = spent \cup {<<mail[v], stored[v]>>}
          /\ UNCHANGED <<failures, cooling, stuck>>
    /\ UNCHANGED <<sent, at, mail, code, stored, before>>

-----------------------------------------------------------------------------
OtpInit ==
    /\ sent = [e \in Emails |-> 0]
    /\ otp = [e \in Emails |-> 0]
    /\ failures = [e \in Emails |-> 0]
    /\ cooling = [e \in Emails |-> FALSE]
    /\ at = [v \in Verifies |-> "idle"]
    /\ mail = [v \in Verifies |-> NoEmail]
    /\ code = [v \in Verifies |-> 0]
    /\ stored = [v \in Verifies |-> 0]
    /\ spent = {}
    /\ before = [v \in Verifies |-> {}]
    /\ stuck = {}

Progress(v) ==
    \/ CheckAttempts(v) \/ IncrFailures(v) \/ ExpireFailures(v)
    \/ DeleteOtp(v) \/ MintToken(v)

OtpNext ==
    \/ \E e \in Emails : handleOtpRequest(e) \/ OtpExpires(e) \/ Cooldown(e)
    \/ \E v \in Verifies :
          \/ Progress(v) \/ CommandFails(v) \/ ReplyLost(v)
          \/ \E e \in Emails : \E c \in 0..sent[e] : handleOtpVerify(v, e, c)

OtpSpec == OtpInit /\ [][OtpNext]_otpVars

(* Handlings run to their end, and Redis removes a key whose TTL is over.  *)
OtpFairness ==
    /\ \A v \in Verifies : WF_otpVars(Progress(v))
    /\ \A e \in Emails : WF_otpVars(Cooldown(e))

-----------------------------------------------------------------------------
(* Every variable keeps the type of the Redis key or the local it models.  *)
OtpTypeOK ==
    /\ sent \in [Emails -> Nat]
    /\ otp \in [Emails -> Nat]
    /\ failures \in [Emails -> Nat]
    /\ cooling \in [Emails -> BOOLEAN]
    /\ at \in [Verifies -> OtpPhases]
    /\ mail \in [Verifies -> Emails \cup {NoEmail}]
    /\ code \in [Verifies -> Nat]
    /\ stored \in [Verifies -> Nat]
    /\ spent \subseteq Emails \X Nat
    /\ before \in [Verifies -> SUBSET (Emails \X Nat)]
    /\ stuck \subseteq Emails

(* A token is given for a code that was sent to that very email, that was  *)
(* the current one when the handling began, and that no earlier handling   *)
(* had spent by then: the DEL may come late, but it is never undone.       *)
SpentCodeStaysSpent ==
    \A v \in Verifies :
        at[v] = "verified" =>
            /\ code[v] \in 1..sent[mail[v]]
            /\ code[v] = stored[v]
            /\ <<mail[v], code[v]>> \notin before[v]

(* An email that is locked out by OTP_MAX_ATTEMPTS failures is let in      *)
(* again, whatever interleaves or fails, with two exceptions: the EXPIRE   *)
(* of its counter was lost, or never sent because the first INCR was       *)
(* repeated.  No other path leaves the counter without its TTL.            *)
LockoutEnds ==
    \A e \in Emails :
        failures[e] >= MaxAttempts ~> failures[e] = 0 \/ e \in stuck

(* A code that a newer one did not replace goes when it expires or when a  *)
(* handling that presented the right code deletes it; a wrong guess never  *)
(* takes it away.  The handling may have read an older code, as nothing    *)
(* stops handleOtpRequest from running before its DEL, or before the DEL   *)
(* is sent again: that is the only way in which a customer loses a code    *)
(* that was never tried.                                                   *)
CodeLostOnlyToSuccess ==
    [][\A e \in Emails :
          otp[e] # 0 /\ otp'[e] = 0 =>
              \/ OtpExpires(e)
              \/ \E v \in Verifies :
                    /\ at[v] = "del" /\ mail[v] = e
                    /\ code[v] = stored[v] /\ code[v] \in 1..otp[e]]_otpVars

(***************************************************************************)
(* Why the properties above hold: an invariant that every step preserves.  *)
(***************************************************************************)

(* Only the newest code is ever under otp:val, and never one that was      *)
(* spent, although a DEL may run after a newer SET.                        *)
CurrentIsUnspent ==
    /\ \A e \in Emails : otp[e] \in {0, sent[e]}
    /\ \A x \in spent : x[2] \in 1..sent[x[1]] /\ x[2] # otp[x[1]]

(* What a handling that found a code keeps of it while others run.         *)
ReadsAreGenuine ==
    \A v \in Verifies :
        /\ at[v] \notin {"idle", "notFound"} =>
              /\ mail[v] \in Emails
              /\ stored[v] \in 1..sent[mail[v]]
              /\ <<mail[v], stored[v]>> \notin before[v]
        /\ at[v] \in {"del", "mint", "verified"} => code[v] = stored[v]

(* A failure counter has its TTL, or the handling that must set it is      *)
(* about to, or an EXPIRE was lost or left out (INCR and EXPIRE are two    *)
(* commands, each of which may be sent twice).                             *)
CounterHasExpiry ==
    \A e \in Emails :
        failures[e] > 0 =>
            \/ cooling[e]
            \/ e \in stuck
            \/ \E v \in Verifies : at[v] = "expire" /\ mail[v] = e

(* Codes are used while current, and counters expire: the invariant the    *)
(* proofs are by.                                                          *)
OtpInv == OtpTypeOK /\ CurrentIsUnspent /\ ReadsAreGenuine /\ CounterHasExpiry
=============================================================================
