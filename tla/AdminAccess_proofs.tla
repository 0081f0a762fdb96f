------------------------- MODULE AdminAccess_proofs -------------------------
(***************************************************************************)
(* Proofs about AdminAccess, for any administrators, any number of         *)
(* attempts on their tokens and of logins, and any number of failures.     *)
(*                                                                         *)
(* ActiveIsRecorded is not inductive: markAdminActivated writes the        *)
(* identity without a look at what is stored, so one must know that a      *)
(* second attempt that gets there has a certificate, and that it cannot be *)
(* active beside the first one.                                            *)
(***************************************************************************)
EXTENDS AdminAccess, TLAPS

(* One line per group of actions; a proof by cases refers to them.         *)
LEMMA AdminSteps ==
    ASSUME Next
    PROVE  \/ \E a \in Admins : createPendingAdmin(a)
           \/ \E a \in Admins : SendActivationEmail(a)
           \/ \E a \in Admins : discardPendingAdminProvision(a)
           \/ \E q \in Attempts : ReadToken(q)
           \/ \E q \in Attempts : ReadIdentity(q)
           \/ \E q \in Attempts : IssueCertificate(q)
           \/ \E q \in Attempts : markAdminActivated(q)
           \/ \E q \in Attempts : IssueFails(q)
           \/ \E q \in Attempts : MarkFails(q)
           \/ Crash
           \/ \E l \in Logins : StartSession(l)
           \/ \E l \in Logins, q \in Attempts : CheckCertificate(l, q)
           \/ \E l \in Logins, q \in Attempts : RevokeCertificate(l, q)
           \/ Tick
  BY DEF Next, Activate

-----------------------------------------------------------------------------
(* No attempt has begun, nothing is issued and nobody is logged in.        *)
LEMMA AdminInit ==
    ASSUME Init
    PROVE  AdminInv
<1> USE AdminAssumption
<1>1. PICK plan \in Plans :
          att = [q \in Attempts |->
                    [pc |-> "idle", admin |-> plan[q].admin, role |-> plan[q].role]]
  BY DEF Init
<1>2. plan \in [Attempts -> [admin : Admins, role : Roles]]
  BY <1>1
<1>3. /\ att \in [Attempts -> [pc : Phases, admin : Admins, role : Roles]]
      /\ \A q \in Attempts : att[q].pc = "idle"
  BY <1>1, <1>2 DEF Phases
<1>4. TypeOK
  <2>1. login \in [Logins -> [pc : {"idle", "checked", "session"},
                              cert : Attempts \union {NoAttempt},
                              left : 0..(SessionTtl + TicketTtl)]]
    BY DEF Init, NoLogin
  <2>2. \A l \in Logins : (login[l].pc = "idle") <=> (login[l].cert = NoAttempt)
    BY DEF Init, NoLogin
  <2>3. identity \in [Admins -> [status : {"none", "pending", "active"},
                                 serial : Attempts \union {NoAttempt}]]
    BY DEF Init, NoIdentity
  <2> QED BY <1>3, <2>1, <2>2, <2>3 DEF Init, TypeOK
<1> QED
  BY <1>3, <1>4 DEF Init, AdminInv, RouteFitsRole, CertFollowsPhase, OneActive,
     NobodyIsEarly, ActiveIsRecorded, At

(* Goto moves one attempt and changes nothing else about any of them.      *)
LEMMA Moving ==
    ASSUME TypeOK, NEW q \in Attempts, NEW pc \in Phases, Goto(q, pc)
    PROVE  /\ att' \in [Attempts -> [pc : Phases, admin : Admins, role : Roles]]
           /\ att'[q].pc = pc
           /\ \A r \in Attempts : att'[r].admin = att[r].admin /\ att'[r].role = att[r].role
           /\ \A r \in Attempts : r # q => att'[r].pc = att[r].pc
  BY DEF TypeOK, Goto

(* Types are kept; a session's life is one of the two bounds of the code.  *)
LEMMA AdminTypeStep ==
    ASSUME TypeOK, Next
    PROVE  TypeOK'
<1> USE AdminAssumption
<1> USE DEF Fault
<1>1. ASSUME NEW a \in Admins, createPendingAdmin(a) PROVE TypeOK'
  BY <1>1 DEF createPendingAdmin, TypeOK
<1>2. ASSUME NEW a \in Admins, SendActivationEmail(a) PROVE TypeOK'
  BY <1>2 DEF SendActivationEmail, TypeOK
<1>3. ASSUME NEW a \in Admins, discardPendingAdminProvision(a) PROVE TypeOK'
  BY <1>3 DEF discardPendingAdminProvision, NoIdentity, TypeOK, Who
<1> DEFINE AttTyped == att' \in [Attempts -> [pc : Phases, admin : Admins, role : Roles]]
<1>p. /\ "identity" \in Phases /\ "issue" \in Phases /\ "mark" \in Phases
      /\ "dead" \in Phases /\ "201" \in Phases /\ "401" \in Phases /\ "409" \in Phases
      /\ "502" \in Phases /\ "503" \in Phases
  BY DEF Phases
<1>w. \A q \in Attempts : Who(q) \in Admins
  BY DEF TypeOK, Who
<1>4. ASSUME NEW q \in Attempts, ReadToken(q) PROVE TypeOK'
  <2>1. AttTyped
    <3>1. PICK pc \in Phases : Goto(q, pc)
      BY <1>4, <1>p DEF ReadToken
    <3> QED BY <3>1, Moving
  <2> HIDE DEF AttTyped
  <2> QED BY <1>4, <2>1 DEF ReadToken, TypeOK, AttTyped
<1>5. ASSUME NEW q \in Attempts, ReadIdentity(q) PROVE TypeOK'
  <2>1. AttTyped
    <3>1. PICK pc \in Phases : Goto(q, pc)
      BY <1>5, <1>p DEF ReadIdentity
    <3> QED BY <3>1, Moving
  <2>2. token' = token \/ token' = [token EXCEPT ![Who(q)] = 0]
    BY <1>5 DEF ReadIdentity
  <2>3. token' \in [Admins -> 0..ActivationTtl]
    <3>1. token \in [Admins -> 0..ActivationTtl] /\ 0 \in 0..ActivationTtl
      BY DEF TypeOK
    <3>2. CASE token' = token
      BY <3>1, <3>2
    <3>3. CASE token' = [token EXCEPT ![Who(q)] = 0]
      BY <3>1, <3>3
    <3> QED BY <2>2, <3>2, <3>3
  <2>4. UNCHANGED <<script, identity, cert, login, faults, unsettled>>
    BY <1>5 DEF ReadIdentity
  <2> HIDE DEF AttTyped
  <2> QED BY <2>1, <2>3, <2>4 DEF TypeOK, AttTyped
<1>6. ASSUME NEW q \in Attempts, IssueCertificate(q) PROVE TypeOK'
  <2>1. AttTyped
    <3>1. PICK pc \in Phases : Goto(q, pc)
      BY <1>6, <1>p DEF IssueCertificate
    <3> QED BY <3>1, Moving
  <2>2. cert' \in [Attempts -> {"none", "active", "revoked"}]
    BY <1>6 DEF IssueCertificate, TypeOK
  <2>3. UNCHANGED <<script, identity, token, login, faults, unsettled>>
    BY <1>6 DEF IssueCertificate
  <2> QED BY <2>1, <2>2, <2>3 DEF TypeOK
<1>7. ASSUME NEW q \in Attempts, markAdminActivated(q) PROVE TypeOK'
  <2>1. AttTyped
    BY <1>7, <1>p, Moving DEF markAdminActivated
  <2> QED BY <1>7, <1>w, <2>1 DEF markAdminActivated, TypeOK
<1>8. ASSUME NEW q \in Attempts, IssueFails(q) PROVE TypeOK'
  <2>1. AttTyped
    BY <1>8, <1>p, Moving DEF IssueFails
  <2>2. /\ cert' \in [Attempts -> {"none", "active", "revoked"}]
        /\ unsettled' \subseteq Attempts
    BY <1>8 DEF IssueFails, TypeOK
  <2>3. UNCHANGED <<script, identity, token, login>> /\ faults' \in 0..MaxFaults
    BY <1>8 DEF IssueFails, TypeOK
  <2> QED BY <2>1, <2>2, <2>3 DEF TypeOK
<1>9. ASSUME NEW q \in Attempts, MarkFails(q) PROVE TypeOK'
  <2>1. AttTyped
    BY <1>9, <1>p, Moving DEF MarkFails
  <2>2. /\ identity' \in [Admins -> [status : {"none", "pending", "active"},
                                     serial : Attempts \union {NoAttempt}]]
        /\ token' \in [Admins -> 0..ActivationTtl]
        /\ unsettled' \subseteq Attempts
    <3>1. CASE UNCHANGED <<identity, token>> /\ unsettled' = unsettled \union {q}
      BY <3>1 DEF TypeOK
    <3>2. CASE /\ identity' = [identity EXCEPT ![Who(q)] = [status |-> "active", serial |-> q]]
               /\ token' = [token EXCEPT ![Who(q)] = 0]
               /\ UNCHANGED unsettled
      BY <3>2, <1>w DEF TypeOK
    <3> QED BY <1>9, <3>1, <3>2 DEF MarkFails
  <2>3. UNCHANGED <<script, cert, login>> /\ faults' \in 0..MaxFaults
    BY <1>9 DEF MarkFails, TypeOK
  <2> QED BY <2>1, <2>2, <2>3 DEF TypeOK
<1>10. ASSUME Crash PROVE TypeOK'
  <2>1. AttTyped
    BY <1>10, <1>p DEF Crash, TypeOK
  <2>2. login' \in [Logins -> [pc : {"idle", "checked", "session"},
                               cert : Attempts \union {NoAttempt},
                               left : 0..(SessionTtl + TicketTtl)]]
    BY <1>10 DEF Crash, NoLogin, TypeOK
  <2>3. \A l \in Logins : (login'[l].pc = "idle") <=> (login'[l].cert = NoAttempt)
    BY <1>10 DEF Crash, NoLogin, TypeOK
  <2>4. unsettled' \subseteq Attempts /\ faults' \in 0..MaxFaults
    BY <1>10 DEF Crash, TypeOK
  <2>5. UNCHANGED <<script, identity, token, cert>>
    BY <1>10 DEF Crash
  <2> QED BY <2>1, <2>2, <2>3, <2>4, <2>5 DEF TypeOK
<1>11. ASSUME NEW l \in Logins, StartSession(l) PROVE TypeOK'
  <2>1. PICK left : /\ left = SessionTtl \/ left \in 1..TicketTtl
                    /\ login' = [login EXCEPT ![l] = [pc |-> "session",
                                          cert |-> login[l].cert, left |-> left]]
    BY <1>11 DEF StartSession
  <2>2. left \in 0..(SessionTtl + TicketTtl)
    BY <2>1
  <2>3. login[l].pc = "checked"
    BY <1>11 DEF StartSession
  <2>4. login' \in [Logins -> [pc : {"idle", "checked", "session"},
                               cert : Attempts \union {NoAttempt},
                               left : 0..(SessionTtl + TicketTtl)]]
    BY <2>1, <2>2 DEF TypeOK
  <2>5. \A k \in Logins : (login'[k].pc = "idle") <=> (login'[k].cert = NoAttempt)
    BY <2>1, <2>3 DEF TypeOK
  <2>6. UNCHANGED <<script, identity, token, att, cert, faults, unsettled>>
    BY <1>11 DEF StartSession
  <2> QED BY <2>4, <2>5, <2>6 DEF TypeOK
<1>12. ASSUME NEW l \in Logins, NEW q \in Attempts, CheckCertificate(l, q) PROVE TypeOK'
  BY <1>12 DEF CheckCertificate, TypeOK
<1>13. ASSUME NEW l \in Logins, NEW q \in Attempts, RevokeCertificate(l, q) PROVE TypeOK'
  BY <1>13 DEF RevokeCertificate, TypeOK
<1>14. ASSUME Tick PROVE TypeOK'
  BY <1>14 DEF Tick, NoLogin, TypeOK
<1> QED
  BY AdminSteps, <1>1, <1>2, <1>3, <1>4, <1>5, <1>6, <1>7, <1>8, <1>9, <1>10, <1>11,
     <1>12, <1>13, <1>14

-----------------------------------------------------------------------------
(* The role, the certificates and the script: what the steps keep apart    *)
(* from what the identity store records.                                   *)
Guarded == RouteFitsRole /\ CertFollowsPhase /\ OneActive /\ NobodyIsEarly

(* One attempt moves on, and at most its own certificate changes.          *)
LEMMA GuardedMove ==
    ASSUME TypeOK, Guarded, NEW q \in Attempts, NEW pc \in Phases, Goto(q, pc),
           UNCHANGED script, script[att[q].admin] # "none",
           pc # "401" => att[q].role = RoleOf[att[q].admin],
           pc \in {"idle", "identity", "issue", "401", "409"} => cert'[q] = "none",
           pc = "mark" => cert'[q] # "none",
           cert'[q] = "active" => cert[q] = "active" \/ ~HasActive(att[q].admin),
           \A r \in Attempts : r # q => cert'[r] = cert[r]
    PROVE  Guarded'
<1>1. /\ att'[q].pc = pc
      /\ \A r \in Attempts : att'[r].admin = att[r].admin /\ att'[r].role = att[r].role
      /\ \A r \in Attempts : r # q => att'[r].pc = att[r].pc
  BY Moving
<1>2. RouteFitsRole'
  BY <1>1 DEF Guarded, RouteFitsRole, At, Who
<1>3. CertFollowsPhase'
  BY <1>1 DEF Guarded, CertFollowsPhase, At
<1>4. OneActive'
  BY <1>1 DEF Guarded, OneActive, HasActive, Who
<1>5. NobodyIsEarly'
  BY <1>1 DEF Guarded, NobodyIsEarly, At, Who
<1> QED BY <1>2, <1>3, <1>4, <1>5 DEF Guarded

LEMMA GuardedStep ==
    ASSUME TypeOK, Guarded, Next
    PROVE  Guarded'
<1>t. /\ att \in [Attempts -> [pc : Phases, admin : Admins, role : Roles]]
      /\ cert \in [Attempts -> {"none", "active", "revoked"}]
      /\ script \in [Admins -> {"none", "mailing", "done"}]
  BY DEF TypeOK
<1>p. /\ "identity" \in Phases /\ "issue" \in Phases /\ "mark" \in Phases
      /\ "201" \in Phases /\ "401" \in Phases /\ "409" \in Phases
      /\ "502" \in Phases /\ "503" \in Phases
  BY DEF Phases
<1>u. \A q \in Attempts :
          att[q].pc \in {"identity", "issue", "mark"} =>
              script[att[q].admin] # "none" /\ att[q].role = RoleOf[att[q].admin]
  BY DEF Guarded, NobodyIsEarly, RouteFitsRole, At, Who
<1>v. \A q \in Attempts :
          att[q].pc \in {"idle", "identity", "issue"} => cert[q] = "none"
  BY DEF Guarded, CertFollowsPhase
<1>1. ASSUME NEW a \in Admins, createPendingAdmin(a) PROVE Guarded'
  BY <1>1, <1>t DEF createPendingAdmin, Guarded, RouteFitsRole, CertFollowsPhase,
     OneActive, NobodyIsEarly, At, Who
<1>2. ASSUME NEW a \in Admins, SendActivationEmail(a) PROVE Guarded'
  BY <1>2, <1>t DEF SendActivationEmail, Guarded, RouteFitsRole, CertFollowsPhase,
     OneActive, NobodyIsEarly, At, Who
<1>3. ASSUME NEW a \in Admins, discardPendingAdminProvision(a) PROVE Guarded'
  BY <1>3, <1>t DEF discardPendingAdminProvision, Guarded, RouteFitsRole,
     CertFollowsPhase, OneActive, NobodyIsEarly, At, Who
<1>4. ASSUME NEW q \in Attempts, ReadToken(q) PROVE Guarded'
  <2>1. /\ \/ Goto(q, "identity") /\ att[q].role = RoleOf[att[q].admin]
           \/ Goto(q, "401")
        /\ att[q].pc = "idle" /\ script[att[q].admin] # "none"
        /\ UNCHANGED <<script, cert>>
    BY <1>4 DEF ReadToken, ActivationKeyExists, At, Who
  <2> QED BY <1>p, <1>v, <2>1, GuardedMove
<1>5. ASSUME NEW q \in Attempts, ReadIdentity(q) PROVE Guarded'
  <2>1. /\ Goto(q, "401") \/ Goto(q, "409") \/ Goto(q, "issue")
        /\ att[q].pc = "identity"
        /\ UNCHANGED <<script, cert>>
    BY <1>5 DEF ReadIdentity, At
  <2> QED BY <1>p, <1>u, <1>v, <2>1, GuardedMove
<1>6. ASSUME NEW q \in Attempts, IssueCertificate(q) PROVE Guarded'
  <2>1. att[q].pc = "issue" /\ UNCHANGED script
    BY <1>6 DEF IssueCertificate, At
  <2>2. CASE Goto(q, "409") /\ UNCHANGED cert
    BY <1>p, <1>u, <1>v, <2>1, <2>2, GuardedMove
  <2>3. CASE /\ ~HasActive(att[q].admin) /\ Goto(q, "mark")
             /\ cert' = [cert EXCEPT ![q] = "active"]
    <3>1. cert'[q] = "active" /\ \A r \in Attempts : r # q => cert'[r] = cert[r]
      BY <1>t, <2>3
    <3> QED BY <1>p, <1>u, <2>1, <2>3, <3>1, GuardedMove
  <2> QED BY <1>6, <2>2, <2>3 DEF IssueCertificate, Who
<1>7. ASSUME NEW q \in Attempts, markAdminActivated(q) PROVE Guarded'
  <2>1. Goto(q, "201") /\ att[q].pc = "mark" /\ UNCHANGED <<script, cert>>
    BY <1>7 DEF markAdminActivated, At
  <2> QED BY <1>p, <1>u, <2>1, GuardedMove
<1>8. ASSUME NEW q \in Attempts, IssueFails(q) PROVE Guarded'
  <2>1. att[q].pc = "issue" /\ UNCHANGED script /\ Goto(q, "503")
    BY <1>8 DEF IssueFails, At
  <2>2. CASE UNCHANGED cert
    BY <1>p, <1>u, <2>1, <2>2, GuardedMove
  <2>3. CASE ~HasActive(att[q].admin) /\ cert' = [cert EXCEPT ![q] = "active"]
    <3>1. cert'[q] = "active" /\ \A r \in Attempts : r # q => cert'[r] = cert[r]
      BY <1>t, <2>3
    <3> QED BY <1>p, <1>u, <2>1, <2>3, <3>1, GuardedMove
  <2> QED BY <1>8, <2>2, <2>3 DEF IssueFails, Who
<1>9. ASSUME NEW q \in Attempts, MarkFails(q) PROVE Guarded'
  <2>1. Goto(q, "502") /\ att[q].pc = "mark" /\ UNCHANGED <<script, cert>>
    BY <1>9 DEF MarkFails, At
  <2> QED BY <1>p, <1>u, <2>1, GuardedMove
<1>10. ASSUME Crash PROVE Guarded'
  BY <1>t, <1>10 DEF Crash, Guarded, RouteFitsRole, CertFollowsPhase,
     OneActive, NobodyIsEarly, At, Who
<1>11. ASSUME NEW l \in Logins, StartSession(l) PROVE Guarded'
  BY <1>11 DEF StartSession, Guarded, RouteFitsRole, CertFollowsPhase,
     OneActive, NobodyIsEarly, At, Who
<1>12. ASSUME NEW l \in Logins, NEW q \in Attempts, CheckCertificate(l, q) PROVE Guarded'
  BY <1>12 DEF CheckCertificate, Guarded, RouteFitsRole, CertFollowsPhase,
     OneActive, NobodyIsEarly, At, Who
<1>13. ASSUME NEW l \in Logins, NEW q \in Attempts, RevokeCertificate(l, q) PROVE Guarded'
  BY <1>t, <1>13 DEF RevokeCertificate, Guarded, RouteFitsRole, CertFollowsPhase,
     OneActive, NobodyIsEarly, At, Who
<1>14. ASSUME Tick PROVE Guarded'
  BY <1>14 DEF Tick, Guarded, RouteFitsRole, CertFollowsPhase,
     OneActive, NobodyIsEarly, At, Who
<1> QED
  BY AdminSteps, <1>1, <1>2, <1>3, <1>4, <1>5, <1>6, <1>7, <1>8, <1>9, <1>10, <1>11,
     <1>12, <1>13, <1>14

(***************************************************************************)
(* A step that neither lets an attempt answer 201, nor issues, nor touches *)
(* an identity or forgets who is unsettled.                                *)
(***************************************************************************)
LEMMA QuietStep ==
    ASSUME TypeOK, ActiveIsRecorded,
           UNCHANGED identity, unsettled \subseteq unsettled',
           \A q \in Attempts : /\ att'[q].admin = att[q].admin
                               /\ att'[q].role = att[q].role
                               /\ att'[q].pc = "201" => att[q].pc = "201"
                               /\ cert'[q] = "active" /\ att[q].pc = "201" => cert[q] = "active"
                               /\ cert[q] = "revoked" => cert'[q] = "revoked"
    PROVE  ActiveIsRecorded'
  BY DEF TypeOK, ActiveIsRecorded, At, Who

(***************************************************************************)
(* The identity is overwritten by the attempt q that is at "mark".  An     *)
(* attempt of the same administrator that ended before has no active       *)
(* certificate, unless q's own has been revoked in the meantime.           *)
(***************************************************************************)
LEMMA RecordingStep ==
    ASSUME TypeOK, Guarded, ActiveIsRecorded,
           NEW q \in Attempts, att[q].pc = "mark",
           identity' = [identity EXCEPT ![Who(q)] = [status |-> "active", serial |-> q]],
           UNCHANGED <<cert, unsettled>>,
           \A r \in Attempts : /\ att'[r].admin = att[r].admin
                               /\ att'[r].role = att[r].role
                               /\ r # q => att'[r].pc = att[r].pc
    PROVE  ActiveIsRecorded'
<1> SUFFICES ASSUME NEW r \in Attempts, cert[r] = "active", att'[r].pc = "201"
             PROVE  /\ att[r].role = RoleOf[att[r].admin]
                    /\ \/ identity'[att[r].admin] = [status |-> "active", serial |-> r]
                       \/ r \in unsettled
                       \/ \E p \in Attempts : att[p].admin = att[r].admin /\ cert[p] = "revoked"
  BY DEF ActiveIsRecorded, At, Who
<1>1. att[r].admin \in Admins
  BY DEF TypeOK
<1>2. CASE r = q
  BY <1>1, <1>2 DEF TypeOK, Guarded, RouteFitsRole, At, Who
<1>3. CASE r # q /\ att[r].admin # att[q].admin
  BY <1>1, <1>3 DEF TypeOK, ActiveIsRecorded, At, Who
<1>4. CASE r # q /\ att[r].admin = att[q].admin
  <2>1. cert[q] = "active" \/ cert[q] = "revoked"
    BY DEF TypeOK, Guarded, CertFollowsPhase, At
  <2>2. cert[q] # "active"
    BY <1>4 DEF Guarded, OneActive, Who
  <2>3. att[r].role = RoleOf[att[r].admin]
    BY <1>4 DEF ActiveIsRecorded, At, Who
  <2> QED BY <1>4, <2>1, <2>2, <2>3
<1> QED BY <1>2, <1>3, <1>4

LEMMA RecordedStep ==
    ASSUME TypeOK, Guarded, ActiveIsRecorded, Next
    PROVE  ActiveIsRecorded'
<1>t. /\ att \in [Attempts -> [pc : Phases, admin : Admins, role : Roles]]
      /\ cert \in [Attempts -> {"none", "active", "revoked"}]
      /\ identity \in [Admins -> [status : {"none", "pending", "active"},
                                  serial : Attempts \union {NoAttempt}]]
  BY DEF TypeOK
<1>p. /\ "identity" \in Phases /\ "issue" \in Phases /\ "mark" \in Phases
      /\ "dead" \in Phases /\ "201" \in Phases /\ "401" \in Phases /\ "409" \in Phases
      /\ "502" \in Phases /\ "503" \in Phases
  BY DEF Phases
<1>1. ASSUME NEW a \in Admins, createPendingAdmin(a) PROVE ActiveIsRecorded'
  BY <1>1, <1>t DEF createPendingAdmin, ActiveIsRecorded, Guarded, NobodyIsEarly, At, Who
<1>2. ASSUME NEW a \in Admins, SendActivationEmail(a) PROVE ActiveIsRecorded'
  BY <1>2 DEF SendActivationEmail, ActiveIsRecorded, At, Who
<1>3. ASSUME NEW a \in Admins, discardPendingAdminProvision(a) PROVE ActiveIsRecorded'
  BY <1>3, <1>t DEF discardPendingAdminProvision, ActiveIsRecorded, At, Who
<1>4. ASSUME NEW q \in Attempts, ReadToken(q) PROVE ActiveIsRecorded'
  <2>1. /\ Goto(q, "identity") \/ Goto(q, "401")
        /\ UNCHANGED <<cert, identity, unsettled>>
    BY <1>4 DEF ReadToken
  <2>2. CASE Goto(q, "identity")
    BY <2>1, <2>2, <1>p, Moving, QuietStep
  <2>3. CASE Goto(q, "401")
    BY <2>1, <2>3, <1>p, Moving, QuietStep
  <2> QED BY <2>1, <2>2, <2>3
<1>5. ASSUME NEW q \in Attempts, ReadIdentity(q) PROVE ActiveIsRecorded'
  <2>1. /\ Goto(q, "401") \/ Goto(q, "409") \/ Goto(q, "issue")
        /\ UNCHANGED <<cert, identity, unsettled>>
    BY <1>5 DEF ReadIdentity
  <2>2. CASE Goto(q, "401")
    BY <2>1, <2>2, <1>p, Moving, QuietStep
  <2>3. CASE Goto(q, "409")
    BY <2>1, <2>3, <1>p, Moving, QuietStep
  <2>4. CASE Goto(q, "issue")
    BY <2>1, <2>4, <1>p, Moving, QuietStep
  <2> QED BY <2>1, <2>2, <2>3, <2>4
<1>6. ASSUME NEW q \in Attempts, IssueCertificate(q) PROVE ActiveIsRecorded'
  <2>1. /\ \/ Goto(q, "409") /\ UNCHANGED cert
           \/ Goto(q, "mark") /\ cert' = [cert EXCEPT ![q] = "active"]
        /\ att[q].pc = "issue" /\ UNCHANGED <<identity, unsettled>>
        /\ cert[q] = "none"
    BY <1>6 DEF IssueCertificate, At, Guarded, CertFollowsPhase
  <2>2. CASE Goto(q, "409") /\ UNCHANGED cert
    BY <2>1, <2>2, <1>p, Moving, QuietStep
  <2>3. CASE Goto(q, "mark") /\ cert' = [cert EXCEPT ![q] = "active"]
    BY <2>1, <2>3, <1>p, <1>t, Moving, QuietStep
  <2> QED BY <2>1, <2>2, <2>3
<1>7. ASSUME NEW q \in Attempts, markAdminActivated(q) PROVE ActiveIsRecorded'
  BY <1>7, <1>p, Moving, RecordingStep DEF markAdminActivated, At
<1>8. ASSUME NEW q \in Attempts, IssueFails(q) PROVE ActiveIsRecorded'
  <2>1. /\ Goto(q, "503") /\ att[q].pc = "issue" /\ UNCHANGED identity
        /\ unsettled \subseteq unsettled'
        /\ cert' = cert \/ cert' = [cert EXCEPT ![q] = "active"]
        /\ cert[q] = "none"
    BY <1>8 DEF IssueFails, At, Guarded, CertFollowsPhase
  <2>2. CASE cert' = cert
    BY <2>1, <2>2, <1>p, Moving, QuietStep
  <2>3. CASE cert' = [cert EXCEPT ![q] = "active"]
    BY <2>1, <2>3, <1>p, <1>t, Moving, QuietStep
  <2> QED BY <2>1, <2>2, <2>3
<1>9. ASSUME NEW q \in Attempts, MarkFails(q) PROVE ActiveIsRecorded'
  <2>1. Goto(q, "502") /\ att[q].pc = "mark" /\ UNCHANGED cert
    BY <1>9 DEF MarkFails, At
  <2>2. CASE UNCHANGED identity /\ unsettled' = unsettled \union {q}
    BY <2>1, <2>2, <1>p, Moving, QuietStep
  <2>3. CASE /\ identity' = [identity EXCEPT ![Who(q)] = [status |-> "active", serial |-> q]]
             /\ UNCHANGED unsettled
    BY <2>1, <2>3, <1>p, Moving, RecordingStep
  <2> QED BY <1>9, <2>2, <2>3 DEF MarkFails
<1>10. ASSUME Crash PROVE ActiveIsRecorded'
  <2>1. UNCHANGED <<identity, cert>> /\ unsettled \subseteq unsettled'
    BY <1>10 DEF Crash
  <2>2. \A q \in Attempts : /\ att'[q].admin = att[q].admin
                            /\ att'[q].role = att[q].role
                            /\ att'[q].pc = "201" => att[q].pc = "201"
    BY <1>10, <1>t DEF Crash
  <2> QED BY <2>1, <2>2, QuietStep
<1>11. ASSUME NEW l \in Logins, StartSession(l) PROVE ActiveIsRecorded'
  BY <1>11 DEF StartSession, ActiveIsRecorded, At, Who
<1>12. ASSUME NEW l \in Logins, NEW q \in Attempts, CheckCertificate(l, q)
       PROVE  ActiveIsRecorded'
  BY <1>12 DEF CheckCertificate, ActiveIsRecorded, At, Who
<1>13. ASSUME NEW l \in Logins, NEW q \in Attempts, RevokeCertificate(l, q)
       PROVE  ActiveIsRecorded'
  BY <1>13, <1>t DEF RevokeCertificate, ActiveIsRecorded, At, Who
<1>14. ASSUME Tick PROVE ActiveIsRecorded'
  BY <1>14 DEF Tick, ActiveIsRecorded, At, Who
<1> QED
  BY AdminSteps, <1>1, <1>2, <1>3, <1>4, <1>5, <1>6, <1>7, <1>8, <1>9, <1>10, <1>11,
     <1>12, <1>13, <1>14

-----------------------------------------------------------------------------
(***************************************************************************)
(* The inductive invariant: types, the role and phase of every attempt, at *)
(* most one active certificate of an administrator, and ActiveIsRecorded.  *)
(***************************************************************************)
THEOREM AdminInvHolds == Spec => []AdminInv
<1>1. AdminInv /\ [Next]_vars => AdminInv'
  <2> SUFFICES ASSUME AdminInv, [Next]_vars PROVE AdminInv'
    OBVIOUS
  <2>1. CASE Next
    BY <2>1, AdminTypeStep, GuardedStep, RecordedStep DEF AdminInv, Guarded
  <2>2. CASE UNCHANGED vars
    BY <2>2 DEF vars, AdminInv, TypeOK, RouteFitsRole, CertFollowsPhase, OneActive,
       NobodyIsEarly, ActiveIsRecorded, At, Who
  <2> QED BY <2>1, <2>2
<1> QED BY <1>1, AdminInit, PTL DEF Spec

(***************************************************************************)
(* The certificate store and the identity store agree about every          *)
(* activation that was answered 201, whatever activations of the same      *)
(* token, failures, crashes and revocations it was interleaved with.       *)
(***************************************************************************)
THEOREM ActivationsAgree == Spec => []ActiveIsRecorded
<1>1. AdminInv => ActiveIsRecorded
  BY DEF AdminInv
<1> QED BY <1>1, AdminInvHolds, PTL

(***************************************************************************)
(* An administrator never has two active certificates: of two uses of one  *)
(* activation token only one comes to a certificate, although both may     *)
(* have found the token unused.                                            *)
(***************************************************************************)
THEOREM OneActiveCertificate == Spec => []OneActive
<1>1. AdminInv => OneActive
  BY DEF AdminInv
<1> QED BY <1>1, AdminInvHolds, PTL

-----------------------------------------------------------------------------
(* One step: the CA issues only to an attempt without a certificate, so a  *)
(* revoked one keeps its status, and a login starts only with an active    *)
(* one.                                                                    *)
LEMMA RevokedStep ==
    ASSUME AdminInv, Next, NEW q \in Attempts, cert[q] = "revoked"
    PROVE  /\ cert'[q] = "revoked"
           /\ \A l \in Logins : login'[l].cert = q =>
                 /\ login[l].cert = q
                 /\ login[l].pc = "session" =>
                       login'[l].pc = "session" /\ login'[l].left <= login[l].left
<1> DEFINE Kept == \A l \in Logins : login'[l].cert = q =>
                      /\ login[l].cert = q
                      /\ login[l].pc = "session" =>
                            login'[l].pc = "session" /\ login'[l].left <= login[l].left
<1>t. /\ cert \in [Attempts -> {"none", "active", "revoked"}]
      /\ login \in [Logins -> [pc : {"idle", "checked", "session"},
                               cert : Attempts \union {NoAttempt},
                               left : 0..(SessionTtl + TicketTtl)]]
      /\ NoAttempt \notin Attempts
      /\ SessionTtl \in Nat /\ TicketTtl \in Nat
  BY AdminAssumption DEF AdminInv, TypeOK
<1>n. \A l \in Logins : login[l].left \in Int
  BY <1>t
<1>u. ASSUME UNCHANGED login PROVE Kept
  BY <1>n, <1>u
<1>1. ASSUME NEW p \in Attempts, IssueCertificate(p) \/ IssueFails(p)
      PROVE  cert'[q] = "revoked" /\ Kept
  <2>1. cert[p] = "none" /\ UNCHANGED login
    BY <1>1 DEF IssueCertificate, IssueFails, AdminInv, CertFollowsPhase, At
  <2>2. cert' = cert \/ cert' = [cert EXCEPT ![p] = "active"]
    BY <1>1 DEF IssueCertificate, IssueFails
  <2>3. cert'[q] = "revoked"
    BY <2>1, <2>2, <1>t
  <2> QED BY <2>1, <2>3, <1>u
<1>2. ASSUME NEW l \in Logins, StartSession(l)
      PROVE  cert'[q] = "revoked" /\ Kept
  <2>1. PICK left : login' = [login EXCEPT ![l] = [pc |-> "session",
                                                   cert |-> login[l].cert,
                                                   left |-> left]]
    BY <1>2 DEF StartSession
  <2>2. login[l].pc = "checked" /\ UNCHANGED cert
    BY <1>2 DEF StartSession
  <2> QED BY <2>1, <2>2, <1>t, <1>n
<1>3. ASSUME NEW l \in Logins, NEW p \in Attempts, CheckCertificate(l, p)
      PROVE  cert'[q] = "revoked" /\ Kept
  <2>1. /\ p # q /\ UNCHANGED cert
        /\ login' = [login EXCEPT ![l] = [pc |-> "checked", cert |-> p, left |-> 0]]
    BY <1>3 DEF CheckCertificate
  <2> QED BY <2>1, <1>t, <1>n
<1>4. ASSUME NEW l \in Logins, NEW p \in Attempts, RevokeCertificate(l, p)
      PROVE  cert'[q] = "revoked" /\ Kept
  <2>1. UNCHANGED login /\ cert' = [cert EXCEPT ![p] = "revoked"]
    BY <1>4 DEF RevokeCertificate
  <2>2. cert'[q] = "revoked"
    BY <2>1, <1>t
  <2> QED BY <2>1, <2>2, <1>u
<1>5. ASSUME Crash \/ Tick
      PROVE  cert'[q] = "revoked" /\ Kept
  <2>1. ASSUME NEW l \in Logins
        PROVE  \/ login'[l] = login[l]
               \/ login'[l] = NoLogin
               \/ login'[l] = [login[l] EXCEPT !.left = @ - 1]
    BY <1>5 DEF Crash, Tick
  <2>2. ASSUME NEW l \in Logins, login'[l].cert = q
        PROVE  /\ login[l].cert = q
               /\ login[l].pc = "session" =>
                     login'[l].pc = "session" /\ login'[l].left <= login[l].left
    <3>1. login[l] \in [pc : {"idle", "checked", "session"},
                        cert : Attempts \union {NoAttempt},
                        left : 0..(SessionTtl + TicketTtl)]
      BY <1>t
    <3>2. CASE login'[l] = login[l]
      BY <2>2, <3>2, <1>n
    <3>3. CASE login'[l] = NoLogin
      BY <2>2, <3>3, <1>t DEF NoLogin
    <3>4. CASE login'[l] = [login[l] EXCEPT !.left = @ - 1]
      BY <2>2, <3>1, <3>4, <1>n
    <3> QED BY <2>1, <3>2, <3>3, <3>4
  <2>3. UNCHANGED cert
    BY <1>5 DEF Crash, Tick
  <2> QED BY <2>2, <2>3
<1>6. ASSUME UNCHANGED cert, UNCHANGED login PROVE cert'[q] = "revoked" /\ Kept
  BY <1>6, <1>u
<1>7. ASSUME NEW a \in Admins,
             \/ createPendingAdmin(a) \/ SendActivationEmail(a)
             \/ discardPendingAdminProvision(a)
      PROVE  cert'[q] = "revoked" /\ Kept
  BY <1>6, <1>7 DEF createPendingAdmin, SendActivationEmail, discardPendingAdminProvision
<1>8. ASSUME NEW p \in Attempts,
             ReadToken(p) \/ ReadIdentity(p) \/ markAdminActivated(p) \/ MarkFails(p)
      PROVE  cert'[q] = "revoked" /\ Kept
  BY <1>6, <1>8 DEF ReadToken, ReadIdentity, markAdminActivated, MarkFails
<1> HIDE DEF Kept
<1>9. cert'[q] = "revoked" /\ Kept
  BY AdminSteps, <1>1, <1>2, <1>3, <1>4, <1>5, <1>7, <1>8
<1> QED BY <1>9 DEF Kept

(***************************************************************************)
(* Revocation is final, whatever logins, attempts, failures and crashes    *)
(* run beside it: no path of the activation reissues a revoked certificate *)
(* or admits a login with it, and only a login already past its check may  *)
(* still become a session.                                                 *)
(***************************************************************************)
THEOREM RevokedForGood == Spec => RevocationIsFinal
<1>1. AdminInv /\ [Next]_vars =>
          [\A q \in Attempts : cert[q] = "revoked" =>
              /\ cert'[q] = "revoked"
              /\ \A l \in Logins : login'[l].cert = q =>
                    /\ login[l].cert = q
                    /\ login[l].pc = "session" =>
                          login'[l].pc = "session" /\ login'[l].left <= login[l].left]_vars
  BY RevokedStep
<1> QED BY <1>1, AdminInvHolds, PTL DEF Spec, RevocationIsFinal

(* One step: a token is set only by the provisioning, which runs once, and *)
(* without it an attempt is turned away before the CA.                     *)
LEMMA GoneStep ==
    ASSUME AdminInv, Next, NEW q \in Attempts,
           script[Who(q)] # "none", token[Who(q)] = 0
    PROVE  /\ script'[Who(q)] # "none" /\ token'[Who(q)] = 0
           /\ att'[q].pc = "issue" => att[q].pc = "issue"
<1> DEFINE Gone == /\ script'[Who(q)] # "none" /\ token'[Who(q)] = 0
                   /\ att'[q].pc = "issue" => att[q].pc = "issue"
<1>t. /\ script \in [Admins -> {"none", "mailing", "done"}]
      /\ token \in [Admins -> 0..ActivationTtl] /\ ActivationTtl \in Nat
      /\ att \in [Attempts -> [pc : Phases, admin : Admins, role : Roles]]
      /\ Who(q) \in Admins
  BY AdminAssumption DEF AdminInv, TypeOK, Who
<1>1. ASSUME NEW a \in Admins,
             \/ createPendingAdmin(a) \/ SendActivationEmail(a)
             \/ discardPendingAdminProvision(a)
      PROVE  Gone
  BY <1>1, <1>t
     DEF createPendingAdmin, SendActivationEmail, discardPendingAdminProvision
<1>2. ASSUME NEW p \in Attempts, ReadIdentity(p) PROVE Gone
  <2>1. /\ UNCHANGED script
        /\ token' = token \/ token' = [token EXCEPT ![Who(p)] = 0]
    BY <1>2 DEF ReadIdentity
  <2>2. script'[Who(q)] # "none" /\ token'[Who(q)] = 0
    BY <2>1, <1>t
  <2>3. CASE p = q
    <3>1. Goto(q, "401") \/ Goto(q, "409")
      BY <1>2, <2>3 DEF ReadIdentity
    <3>2. att'[q].pc # "issue"
      BY <3>1, <1>t DEF Goto
    <3> QED BY <2>2, <3>2
  <2>4. CASE p # q
    <3>1. PICK pc : Goto(p, pc)
      BY <1>2 DEF ReadIdentity
    <3>2. att'[q] = att[q]
      BY <2>4, <3>1, <1>t DEF Goto
    <3> QED BY <2>2, <3>2
  <2> QED BY <2>3, <2>4
<1>3. ASSUME NEW p \in Attempts, NEW pc, pc # "issue", Goto(p, pc), UNCHANGED script,
             token' = token \/ token' = [token EXCEPT ![Who(p)] = 0]
      PROVE  Gone
  <2>1. token'[Who(q)] = 0
    BY <1>3, <1>t
  <2>2. att'[q].pc = "issue" => att[q].pc = "issue"
    BY <1>3, <1>t DEF Goto
  <2> QED BY <1>3, <2>1, <2>2
<1>4. ASSUME NEW p \in Attempts, ReadToken(p) PROVE Gone
  <2>1. PICK pc : pc # "issue" /\ Goto(p, pc)
    BY <1>4 DEF ReadToken
  <2> QED BY <1>3, <1>4, <2>1 DEF ReadToken
<1>5. ASSUME NEW p \in Attempts, IssueCertificate(p) \/ IssueFails(p) PROVE Gone
  <2>1. PICK pc : pc # "issue" /\ Goto(p, pc)
    BY <1>5 DEF IssueCertificate, IssueFails
  <2> QED BY <1>3, <1>5, <2>1 DEF IssueCertificate, IssueFails
<1>6. ASSUME NEW p \in Attempts, markAdminActivated(p) \/ MarkFails(p) PROVE Gone
  <2>1. PICK pc : pc # "issue" /\ Goto(p, pc)
    BY <1>6 DEF markAdminActivated, MarkFails
  <2> QED BY <1>3, <1>6, <2>1 DEF markAdminActivated, MarkFails
<1>7. ASSUME Crash PROVE Gone
  <2>1. att'[q].pc = "dead" \/ att'[q] = att[q]
    BY <1>7, <1>t DEF Crash
  <2> QED BY <1>7, <2>1 DEF Crash
<1>8. ASSUME Tick PROVE Gone
  BY <1>8, <1>t DEF Tick
<1>9. ASSUME UNCHANGED script, UNCHANGED token, UNCHANGED att PROVE Gone
  BY <1>9
<1>10. ASSUME NEW l \in Logins, StartSession(l) PROVE Gone
  BY <1>9, <1>10 DEF StartSession
<1>11. ASSUME NEW l \in Logins, NEW p \in Attempts,
              CheckCertificate(l, p) \/ RevokeCertificate(l, p)
       PROVE  Gone
  BY <1>9, <1>11 DEF CheckCertificate, RevokeCertificate
<1> HIDE DEF Gone
<1>12. Gone
  BY AdminSteps, <1>1, <1>2, <1>4, <1>5, <1>6, <1>7, <1>8, <1>10, <1>11
<1> QED BY <1>12 DEF Gone

(***************************************************************************)
(* An activation token that was used, taken back or ran out cannot lead to *)
(* a certificate any more: it is never set again, and no further attempt   *)
(* on it reaches the CA.                                                   *)
(***************************************************************************)
THEOREM TokensGoForGood == Spec => GoneTokenStaysGone
<1>1. AdminInv /\ [Next]_vars =>
          [\A q \in Attempts : script[Who(q)] # "none" /\ token[Who(q)] = 0 =>
              /\ script'[Who(q)] # "none" /\ token'[Who(q)] = 0
              /\ att'[q].pc = "issue" => att[q].pc = "issue"]_vars
  BY GoneStep
<1> QED BY <1>1, AdminInvHolds, PTL DEF Spec, GoneTokenStaysGone
=============================================================================
