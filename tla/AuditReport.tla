---------------------------- MODULE AuditReport ----------------------------
(***************************************************************************)
(* The cross-service audit views of the gateway (/v1/admin/audit): the     *)
(* timeline of one request, the check of the hash chains, the security     *)
(* summary and the export.  Each handler asks the CA, the KDC and, if the  *)
(* caller has a Bank admin cookie, the Bank, one call after the other,     *)
(* while the services go on logging; a source that fails is left out.      *)
(*                                                                         *)
(* An event gets its time when the service makes it and can be listed only *)
(* once its transaction has committed, which may be after later events.    *)
(* The listings are newest first, page by page with LIMIT and OFFSET, so a *)
(* row that commits between two pages moves the ones below it.  Time is    *)
(* counted in ticks, Second of them to a second: the services order by     *)
(* ticks, but the gateway only gets whole seconds.                         *)
(***************************************************************************)
EXTENDS Integers, Sequences, FiniteSets, SequencesExt

CONSTANTS
    Entries,            \* Entries[src]: the [action, actor, traced] it may log
    Second,             \* ticks of a second
    Start,              \* the tick at which the model starts
    MaxEvents,          \* bound: events and tamperings in a behaviour
    MaxPending,         \* bound: events made but not committed at one time
    PAGE,               \* rows asked for per call
    Cap,                \* SUMMARY_CAP, EXPORT_CAP
    Selections,         \* the sets of sources an export may ask for
    Windows,            \* lengths of a summary's window, in seconds
    Ranges,             \* an export's <<from, to>>, each 0 for none
    ANOMALY_THRESHOLD

Sources == {"ca", "kdc", "bank"}

ASSUME ReportAssumption ==
    /\ DOMAIN Entries = Sources
    /\ Second \in Nat \ {0} /\ Start \in Nat
    /\ PAGE \in Nat \ {0} /\ Cap \in Nat \ {0}
    /\ ANOMALY_THRESHOLD \in Nat \ {0}
    /\ Selections \subseteq {Sources} \union {{src} : src \in Sources}
    /\ \A w \in Windows : w \in Nat /\ w * Second < Start
    /\ Ranges \subseteq Nat \X Nat

VARIABLES
    now,        \* the next free tick: no two events have the same time
    pending,    \* events whose transaction is under way
    log,        \* log[src]: the rows of its table, that is the committed events
    tampered,   \* sources whose chain was tampered with
    h,          \* the handler: [pc, kind, from, to, cookie, todo, offset, out, items]
    status,     \* status[src]: what the handler notes about a source
    report,     \* what it answers with
    before      \* history: log, and tampered, when the handler started

vars == <<now, pending, log, tampered, h, status, report, before>>

logVars == <<now, pending, log, tampered>>

-----------------------------------------------------------------------------
(***************************************************************************)
(* audit-semantics.ts.  The action of an event as the gateway sees it: the *)
(* CA and the KDC send its name, the Bank an enum whose JSON name has the  *)
(* enum's prefix in front.  The prefix does not change how a name ends.    *)
(***************************************************************************)
ActionText(e) == [prefixed |-> e.src = "bank", name |-> e.action]

CRITICAL == {"revoked", "certificate_rejected", "replay_detected", "invalid_signature"}

EndsRefused ==
    {"ra_registration_rejected", "as_rejected", "tgs_rejected", "transfer_rejected",
     "certificate_rejected", "ra_otp_failed", "admin_ca_login_failed"}

OtherDenied ==
    {"forbidden_ownership", "insufficient_funds", "replay_detected",
     "invalid_signature", "certificate_rejected"}

isDenied(a) ==
    \/ a.name \in EndsRefused
    \/ ~a.prefixed /\ a.name \in OtherDenied

severityOf(a) ==
    CASE ~a.prefixed /\ a.name \in CRITICAL -> "critical"
      [] isDenied(a) /\ ~(~a.prefixed /\ a.name \in CRITICAL) -> "warning"
      [] OTHER -> "info"

(* enrichAudit: what the answer says of an event, apart from its wording.  *)
enrichAudit(e) ==
    [event |-> e,
     severity |-> severityOf(ActionText(e)),
     outcome |-> IF isDenied(ActionText(e)) THEN "denied" ELSE "success"]

-----------------------------------------------------------------------------
Unix(tick) == tick \div Second

(***************************************************************************)
(* The filters of the three listings.  CA and KDC stop before toUnix, the  *)
(* Bank includes it.  A timeline asks for one trace id; the Bank's column  *)
(* has it only for events that have no request id of their own.            *)
(***************************************************************************)
InWindow(e) ==
    /\ h.from > 0 => e.at >= h.from * Second
    /\ h.to > 0 => IF e.src = "bank" THEN e.at <= h.to * Second
                                     ELSE e.at < h.to * Second
    /\ h.kind = "timeline" => e.traced

(* The rows a source has for this handler, now and when it started.        *)
Rows(src) == {e \in log[src] : InWindow(e)}
RowsBefore(src) == {e \in before.log[src] : InWindow(e)}

Newer(rows, e) == {f \in rows : f.at > e.at}

(* ORDER BY time DESC LIMIT PAGE OFFSET offset.                            *)
Page(rows, offset) ==
    LET left == Cardinality(rows) - offset
    IN  [i \in 1..(IF PAGE < left THEN PAGE ELSE left) |->
            CHOOSE e \in rows : Cardinality(Newer(rows, e)) = offset + i - 1]

(* Array.sort is stable: rows of the same second stay as they came.        *)
Ahead(items, i) ==
    {j \in DOMAIN items :
        \/ Unix(items[j].at) < Unix(items[i].at)
        \/ Unix(items[j].at) = Unix(items[i].at) /\ j < i}

SortByTs(items) ==
    [p \in DOMAIN items |->
        items[CHOOSE i \in DOMAIN items : Cardinality(Ahead(items, i)) = p - 1]]

Slice(items) == SubSeq(items, 1, IF Cap < Len(items) THEN Cap ELSE Len(items))

(* Mutant: the threshold has to be exceeded.                               *)
Anomalies_Above(items) ==
    {<<e.src, e.actor>> : e \in {f \in ToSet(items) :
        Cardinality({i \in DOMAIN items : /\ isDenied(ActionText(items[i]))
                                          /\ items[i].src = f.src
                                          /\ items[i].actor = f.actor})
            > ANOMALY_THRESHOLD}}

(* deniedByActor, and the identities at or above the threshold.            *)
Anomalies(items) ==
    LET denied(src, actor) ==
            {i \in DOMAIN items : /\ isDenied(ActionText(items[i]))
                                  /\ items[i].src = src /\ items[i].actor = actor}
    IN  {<<e.src, e.actor>> : e \in {f \in ToSet(items) :
            Cardinality(denied(f.src, f.actor)) >= ANOMALY_THRESHOLD}}

-----------------------------------------------------------------------------
NoHandler ==
    [pc |-> "idle", kind |-> "none", from |-> 0, to |-> 0, cookie |-> FALSE,
     todo |-> {}, offset |-> 0, out |-> <<>>, items |-> <<>>]

NoReport == [code |-> 0, items |-> <<>>, capped |-> FALSE, anomalies |-> {}, ok |-> TRUE]

Init ==
    /\ now = Start
    /\ pending = {}
    /\ log = [src \in Sources |-> {}]
    /\ tampered = {}
    /\ h = NoHandler
    /\ status = [src \in Sources |-> "none"]
    /\ report = NoReport
    /\ before = [log |-> log, tampered |-> {}]

Happened ==
    Cardinality(pending) + Cardinality(UNION {log[src] : src \in Sources})
        + Cardinality(tampered)

(* A service makes an event: its time is taken before the transaction.     *)
MakeEvent(src) ==
    /\ Happened < MaxEvents /\ Cardinality(pending) < MaxPending
    /\ \E n \in Entries[src] :
           pending' = pending \union
               {[src |-> src, at |-> now, action |-> n.action, actor |-> n.actor,
                 traced |-> n.traced]}
    /\ now' = now + 1
    /\ UNCHANGED <<log, tampered, h, status, report, before>>

(* The transaction commits.                                                *)
CommitEvent ==
    \E e \in pending :
        /\ pending' = pending \ {e}
        /\ log' = [log EXCEPT ![e.src] = @ \union {e}]
        /\ UNCHANGED <<now, tampered, h, status, report, before>>

(* External: somebody changes a row behind the service's back.             *)
Tamper(src) ==
    /\ src \notin tampered /\ log[src] # {}
    /\ Happened < MaxEvents
    /\ tampered' = tampered \union {src}
    /\ UNCHANGED <<now, pending, log, h, status, report, before>>

-----------------------------------------------------------------------------
(***************************************************************************)
(* A handler starts: it validates its query and fixes its window.          *)
(***************************************************************************)
Begin(kind, from, to, wanted) ==
    /\ h.pc = "idle"
    /\ \E cookie \in BOOLEAN :
           h' = [pc |-> "run", kind |-> kind, from |-> from, to |-> to, cookie |-> cookie,
                 todo |-> wanted, offset |-> 0, out |-> <<>>, items |-> <<>>]
    /\ before' = [log |-> log, tampered |-> tampered]
    /\ UNCHANGED <<logVars, status, report>>

handleAuditTimeline == Begin("timeline", 0, 0, Sources)

handleAuditVerify == Begin("verify", 0, 0, Sources)

handleAuditSummary ==
    \E w \in Windows : Begin("summary", Unix(now) - w, Unix(now), Sources)

handleAuditExport ==
    \E wanted \in Selections, range \in Ranges :
        IF range[1] > 0 /\ range[2] > 0 /\ range[2] < range[1]
        THEN /\ h.pc = "idle"
             /\ h' = [NoHandler EXCEPT !.pc = "done"]
             /\ report' = [NoReport EXCEPT !.code = 400]
             /\ UNCHANGED <<logVars, status, before>>
        ELSE Begin("export", range[1], range[2], wanted)

Busy == h.pc = "run" /\ h.todo # {}

(* The source that is asked next: the calls are made in this order.        *)
Src == IF "ca" \in h.todo THEN "ca" ELSE IF "kdc" \in h.todo THEN "kdc" ELSE "bank"

Reachable == Busy /\ (Src = "bank" => h.cookie)

(* Mutant: the rows of the source before are not cleared.                  *)
NextSource_KeepsOut(items, st) ==
    /\ h' = [h EXCEPT !.todo = @ \ {Src}, !.offset = 0, !.items = items]
    /\ status' = [status EXCEPT ![Src] = st]

(* The source is done with: on to the next one, with what it contributes.  *)
NextSource(items, st) ==
    /\ h' = [h EXCEPT !.todo = @ \ {Src}, !.offset = 0, !.out = <<>>, !.items = items]
    /\ status' = [status EXCEPT ![Src] = st]

(***************************************************************************)
(* fetchCaWindow, fetchKdcWindow, fetchBankWindow: one page.  The loop     *)
(* ends with a short page or at the cap; the timeline asks only once.      *)
(***************************************************************************)
FetchPage ==
    /\ Reachable /\ h.kind # "verify"
    /\ LET page == Page(Rows(Src), h.offset)
           out  == h.out \o page
       IN  IF h.kind # "timeline" /\ Len(page) = PAGE /\ Len(out) < Cap
           THEN h' = [h EXCEPT !.offset = @ + PAGE, !.out = out] /\ UNCHANGED status
           ELSE NextSource(h.items \o (IF h.kind = "timeline" THEN out ELSE Slice(out)),
                           "included")
    /\ UNCHANGED <<logVars, report, before>>

(* verifyCaAuditChain, verifyKdcAuditChain, verifyBankAuditChain.          *)
CheckChain ==
    /\ Reachable /\ h.kind = "verify"
    /\ NextSource(<<>>, IF Src \in tampered THEN "broken" ELSE "intact")
    /\ UNCHANGED <<logVars, report, before>>

(* Mutant: the catch falls through to the line that notes success.         *)
SourceFails_Included ==
    /\ Reachable
    /\ NextSource(h.items, "included")
    /\ UNCHANGED <<logVars, report, before>>

(***************************************************************************)
(* The call fails: the source is left out, pages it had given included.    *)
(***************************************************************************)
SourceFails ==
    /\ Reachable
    /\ NextSource(h.items, "failed")
    /\ UNCHANGED <<logVars, report, before>>

(* readCookie finds no Bank session: the Bank is not asked.                *)
SkipBank ==
    /\ Busy /\ ~Reachable
    /\ NextSource(h.items, "failed")
    /\ UNCHANGED <<logVars, report, before>>

(* Mutant: one intact source is enough.                                    *)
allOk_Some == \E src \in Sources : status[src] = "intact"

(***************************************************************************)
(* All sources done: merge, cut, enrich and answer.                        *)
(***************************************************************************)
allOk == \A src \in Sources : status[src] # "broken"

Answer ==
    /\ h.pc = "run" /\ h.todo = {}
    /\ LET sorted == SortByTs(h.items)
           items  == IF h.kind = "timeline" THEN sorted ELSE Slice(sorted)
       IN  report' = [code |-> 200,
                      items |-> [i \in DOMAIN items |-> enrichAudit(items[i])],
                      capped |-> h.kind # "timeline" /\ Len(items) >= Cap,
                      anomalies |-> IF h.kind = "summary" THEN Anomalies(items) ELSE {},
                      ok |-> allOk]
    /\ h' = [h EXCEPT !.pc = "done"]
    /\ UNCHANGED <<logVars, status, before>>

(* The answer is out; the next request finds the handlers free.            *)
Dismiss ==
    /\ h.pc = "done"
    /\ h' = NoHandler
    /\ status' = [src \in Sources |-> "none"]
    /\ report' = NoReport
    /\ before' = [log |-> [src \in Sources |-> {}], tampered |-> {}]
    /\ UNCHANGED logVars

Handle ==
    \/ FetchPage
    \/ CheckChain
    \/ SourceFails
    \/ SkipBank
    \/ Answer

(* An answer is looked at before anything else happens: what comes after   *)
(* it cannot change it.                                                    *)
Environment ==
    /\ h.pc # "done"
    /\ \/ \E src \in Sources : MakeEvent(src) \/ Tamper(src)
       \/ CommitEvent

Next ==
    \/ Environment
    \/ handleAuditTimeline
    \/ handleAuditVerify
    \/ handleAuditSummary
    \/ handleAuditExport
    \/ Handle
    \/ Dismiss

Spec == Init /\ [][Next]_vars

-----------------------------------------------------------------------------
AllEntries == UNION {Entries[src] : src \in Sources}

Event ==
    [src : Sources, at : Nat, action : {n.action : n \in AllEntries},
     actor : {n.actor : n \in AllEntries}, traced : {n.traced : n \in AllEntries}]

Handler ==
    [pc : {"idle", "run", "done"}, kind : {"none", "timeline", "verify", "summary", "export"},
     from : Int, to : Int, cookie : BOOLEAN, todo : SUBSET Sources, offset : Nat,
     out : Seq(Event), items : Seq(Event)]

(* Type correctness: the tables hold events and the handler its locals.    *)
TypeOK ==
    /\ now \in Nat
    /\ pending \subseteq Event
    /\ log \in [Sources -> SUBSET Event]
    /\ tampered \subseteq Sources
    /\ h \in Handler
    /\ status \in [Sources -> {"none", "included", "intact", "broken", "failed"}]
    /\ report.code \in {0, 200, 400}
    /\ before.log \in [Sources -> SUBSET Event]
    /\ before.tampered \subseteq Sources

Done(kinds) == h.pc = "done" /\ report.code = 200 /\ h.kind \in kinds

Events == [i \in DOMAIN report.items |-> report.items[i].event]

(* Neither the cap nor the timeline's single page can have cut anything.   *)
Whole ==
    IF h.kind = "timeline"
    THEN \A src \in Sources : Cardinality(Rows(src)) <= PAGE
    ELSE ~report.capped

(***************************************************************************)
(* A report matches the logs: it has only events of sources it lists as    *)
(* included, so that a source that fails half-way contributes nothing (the *)
(* catch blocks of collect and handleAuditTimeline), and unless it says it *)
(* was capped, every event such a source had committed when the handler    *)
(* started, however many rows were inserted between the pages.             *)
(***************************************************************************)
ReportMatchesLogs ==
    Done({"timeline", "summary", "export"}) =>
        /\ \A e \in ToSet(Events) : status[e.src] = "included" /\ e \in Rows(e.src)
        /\ Whole => \A src \in Sources :
                       status[src] = "included" => RowsBefore(src) \subseteq ToSet(Events)

(***************************************************************************)
(* If nothing was inserted into the window meanwhile, a whole report has   *)
(* each event of its sources exactly once.  (A row that commits between    *)
(* two pages makes the loop read one row twice.)                           *)
(***************************************************************************)
QuietWindowExact ==
    Done({"timeline", "summary", "export"}) /\ Whole =>
        LET included == {src \in Sources : status[src] = "included"}
        IN  (\A src \in included : Rows(src) = RowsBefore(src))
                => /\ IsInjective(Events)
                   /\ ToSet(Events) = UNION {Rows(src) : src \in included}

(***************************************************************************)
(* An identity with ANOMALY_THRESHOLD refused operations at the CA or the  *)
(* KDC is among the anomalies of a summary that was not capped, if its     *)
(* source could be read.                                                   *)
(***************************************************************************)
AnomaliesFound ==
    Done({"summary"}) /\ ~report.capped =>
        \A src \in {"ca", "kdc"} : status[src] = "included" =>
            \A e \in RowsBefore(src) :
                LET refused == {f \in RowsBefore(src) :
                                    /\ f.actor = e.actor
                                    /\ f.action \in EndsRefused}
                IN  Cardinality(refused) >= ANOMALY_THRESHOLD
                        => <<src, e.actor>> \in report.anomalies

(***************************************************************************)
(* The verdict of handleAuditVerify: a chain broken before the request and *)
(* reached by it makes it fail, and it fails only for a chain that is      *)
(* broken.                                                                 *)
(***************************************************************************)
VerdictSound ==
    Done({"verify"}) =>
        /\ report.ok => \A src \in before.tampered : status[src] = "failed"
        /\ ~report.ok => \E src \in tampered : status[src] = "broken"

(***************************************************************************)
(* What the audit test cases say of severity and outcome, by action and    *)
(* whichever service logged it.                                            *)
(***************************************************************************)
SeverityAsDocumented ==
    \A i \in DOMAIN report.items :
        report.items[i].event.action \in CRITICAL => report.items[i].severity = "critical"

-----------------------------------------------------------------------------
(***************************************************************************)
(* Why the reports are right: an invariant that every step preserves.      *)
(***************************************************************************)

(* Tables are finite and only grow, a time belongs to one event, and the   *)
(* events of a table are its source's.                                     *)
TablesGrow ==
    /\ \A e \in pending : e.at < now
    /\ \A src \in Sources :
          /\ IsFiniteSet(log[src])
          /\ \A e \in log[src] : e.src = src /\ e.at < now
          /\ \A e \in log[src], f \in log[src] \union pending : e.at = f.at => e = f
          /\ before.log[src] \subseteq log[src]
    /\ \A e, f \in pending : e.at = f.at => e = f
    /\ before.tampered \subseteq tampered

(* Every row the source had at the start was read or is still ahead of the *)
(* offset: rows that commit meanwhile only push it down.  If there were    *)
(* none, what was read is exactly the rows up to the offset.               *)
PagesAreKept ==
    Busy =>
        /\ ToSet(h.out) \subseteq Rows(Src)
        /\ \A e \in RowsBefore(Src) :
              e \in ToSet(h.out) \/ Cardinality(Newer(Rows(Src), e)) >= h.offset
        /\ Rows(Src) = RowsBefore(Src) =>
              /\ IsInjective(h.out)
              /\ \A e \in ToSet(h.out) : Cardinality(Newer(Rows(Src), e)) < h.offset

(* Rows of the source may have been left out.                              *)
Cut(src) ==
    IF h.kind = "timeline" THEN Cardinality(Rows(src)) > PAGE ELSE Len(h.items) >= Cap

(* No event of the source is there twice.                                  *)
OnceEach(items, src) ==
    \A i, j \in DOMAIN items : items[i].src = src /\ items[i] = items[j] => i = j

(* What is collected comes from the sources that are included; of these    *)
(* all rows are there that were at the start, and, if no row came, once.   *)
ItemsAreWhole ==
    h.pc = "run" =>
        /\ \A e \in ToSet(h.items) : status[e.src] = "included" /\ e \in Rows(e.src)
        /\ \A src \in Sources : status[src] = "included" =>
              /\ RowsBefore(src) \subseteq ToSet(h.items) \/ Cut(src)
              /\ Rows(src) = RowsBefore(src) => OnceEach(h.items, src)

(* What the handler notes about a source is so, and it notes something     *)
(* about every source it has asked.                                        *)
StatusIsTrue ==
    /\ h.pc = "idle" => \A src \in Sources : status[src] = "none"
    /\ h.pc = "run" => \A src \in Sources :
          /\ src \in h.todo => status[src] = "none"
          /\ status[src] = "broken" => src \in tampered
          /\ status[src] = "intact" => src \notin before.tampered
          /\ h.kind = "verify" /\ src \notin h.todo =>
                status[src] \in {"intact", "broken", "failed"}

(* Reports are read from tables that grow: the invariant the proofs are by.*)
ReportInv == TypeOK /\ TablesGrow /\ PagesAreKept /\ ItemsAreWhole /\ StatusIsTrue
==========================================================================
