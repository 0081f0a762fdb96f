----------------------------- MODULE Gateway -----------------------------
(***************************************************************************)
(* The API gateway as a proxy: every REST route that checks a request,     *)
(* forwards it as one gRPC call and answers with what came back.  A        *)
(* request passes validateHeaders, then a rate limiter or an admin guard,  *)
(* then the validator, and only then the call; an error of the call goes   *)
(* through the error map of its route.                                     *)
(*                                                                         *)
(* The limiter's counters are Redis keys, and its INCR, EXPIRE and TTL are *)
(* separate commands.  The client is configured with                       *)
(* maxRetriesPerRequest: null: while Redis is away a command waits, and    *)
(* one whose reply was lost is sent again.  A service call has no          *)
(* deadline.  The contents of messages are the business of Wire.           *)
(***************************************************************************)
EXTENDS Integers

CONSTANTS
    Slots,          \* requests in flight at a time
    Traffic,        \* each member gives, for every slot, the requests
                    \* [route, flaw] that come in on it
    Window,         \* cfg.window, in ticks
    MaxRequests,    \* cfg.max
    MaxOutages      \* bound: how often Redis goes away or the gateway dies

ASSUME LimitAssumption ==
    /\ Window \in Nat \ {0}
    /\ MaxRequests \in Nat \ {0}
    /\ MaxOutages \in Nat

VARIABLES
    traffic,    \* the member of Traffic this behaviour is about
    req,        \* req[s]: [pc, route, flaw] of the request in slot s
    answer,     \* answer[s]: the HTTP status sent, 0 before
    effect,     \* effect[s]: the service has done what this request asks
    count,      \* count[k]: the Redis counter of bucket k, 0 when absent
    ttl,        \* ttl[k]: seconds it has left, -1 when it has no expiry
    admitted,   \* admitted[k]: requests this counter let through
    doubled,    \* history: doubled[k]: INCRs this counter counted twice
    orphaned,   \* history: buckets whose counter missed its EXPIRE
    up,         \* Redis answers
    outages

vars == <<traffic, req, answer, effect, count, ttl, admitted, doubled, orphaned, up,
          outages>>

redisVars == <<count, ttl, admitted, doubled, orphaned>>

-----------------------------------------------------------------------------
(***************************************************************************)
(* The checks: for each flaw a request can have, the answer it gets.  With *)
(* several flaws the first in the order of the pipeline decides, so one at *)
(* a time is enough.                                                       *)
(***************************************************************************)
Then(first, second) ==
    [f \in DOMAIN first \union DOMAIN second |->
        IF f \in DOMAIN first THEN first[f] ELSE second[f]]

validateHeaders == [x_request_id |-> 400]

validateASRequest == [body |-> 400, timestamp |-> 408]

validateTGSRequest == [body |-> 400]

validateTransferRequest == [body |-> 400]

validateProfileRequest == [body |-> 400]

validateBalanceQuery == [account_id |-> 400, body |-> 400]

validateHistoryQuery == [account_id |-> 400, body |-> 400, pagination |-> 400]

validateAdminSessionRequest == [body |-> 400]

validateAdminQuery == [body |-> 400]

validateAdminRangeQuery == [body |-> 400, from_unix |-> 400]

requireBankAdminSessionCookie == [noCookie |-> 401, badCookie |-> 401]

requireAdminRole == [noToken |-> 401, badToken |-> 401, otherRole |-> 403]

(***************************************************************************)
(* The error maps: the HTTP status for a gRPC status.                      *)
(***************************************************************************)
Refusals ==
    {"INVALID_ARGUMENT", "UNAUTHENTICATED", "PERMISSION_DENIED", "NOT_FOUND",
     "ALREADY_EXISTS", "FAILED_PRECONDITION", "RESOURCE_EXHAUSTED"}

(* What a call ends with when the reply is lost, late or unreadable: the   *)
(* service may have acted.  INTERNAL is also grpc-js's verdict on a reply  *)
(* that decode throws on.                                                  *)
Breakdowns == {"UNAVAILABLE", "DEADLINE_EXCEEDED", "INTERNAL", "UNKNOWN"}

Otherwise(map, status) ==
    [st \in Refusals \union Breakdowns |->
        IF st \in DOMAIN map THEN map[st] ELSE status]

asGrpcError ==
    Otherwise([INVALID_ARGUMENT |-> 400, UNAUTHENTICATED |-> 401,
               PERMISSION_DENIED |-> 409, NOT_FOUND |-> 401],
              502)

tgsGrpcError ==
    Otherwise([INVALID_ARGUMENT |-> 400, UNAUTHENTICATED |-> 401,
               PERMISSION_DENIED |-> 403],
              502)

caAdminGrpcError ==
    Otherwise([NOT_FOUND |-> 404, INVALID_ARGUMENT |-> 400,
               ALREADY_EXISTS |-> 409, FAILED_PRECONDITION |-> 422],
              502)

(* Mutant: an unreachable service is reported as a request timeout.        *)
bankGrpcError_Timeout ==
    Otherwise([INVALID_ARGUMENT |-> 400, UNAUTHENTICATED |-> 401,
               PERMISSION_DENIED |-> 403, NOT_FOUND |-> 404,
               ALREADY_EXISTS |-> 409, FAILED_PRECONDITION |-> 422,
               RESOURCE_EXHAUSTED |-> 429, UNAVAILABLE |-> 503,
               DEADLINE_EXCEEDED |-> 408],
              500)

bankGrpcError ==
    Otherwise([INVALID_ARGUMENT |-> 400, UNAUTHENTICATED |-> 401,
               PERMISSION_DENIED |-> 403, NOT_FOUND |-> 404,
               ALREADY_EXISTS |-> 409, FAILED_PRECONDITION |-> 422,
               RESOURCE_EXHAUSTED |-> 429, UNAVAILABLE |-> 503,
               DEADLINE_EXCEEDED |-> 503],
              500)

(* An error with a numeric code that reaches errorHandler is taken for one *)
(* of the Bank's.                                                          *)
errorHandler == bankGrpcError

(***************************************************************************)
(* The routes: the limiter's bucket ("" for none), the checks after it,    *)
(* the call and the error map.                                             *)
(***************************************************************************)
Route(bucket, checks, call, errors) ==
    [bucket |-> bucket, checks |-> checks, call |-> call, errors |-> errors]

rateLimitByIP     == "rate:as"
rateLimitBankByIP == "rate:bank"
Buckets == {rateLimitByIP, rateLimitBankByIP}

(* Reads body.cert_sn, which no client sends: the body has certSn, and the *)
(* limiter calls next() without counting.  (A body with both would be      *)
(* counted under that name like any other bucket.)                         *)
rateLimitByCertSn == ""

handleRequestTGT ==
    Route(rateLimitByIP, validateASRequest, "requestTgt", asGrpcError)

handleRequestTGS ==
    Route(rateLimitByCertSn, validateTGSRequest, "requestServiceTicket", tgsGrpcError)

handleProfile ==
    Route(rateLimitByIP, validateProfileRequest, "getBalance", errorHandler)

handleTransfer ==
    Route(rateLimitBankByIP, validateTransferRequest, "transferMoney", errorHandler)

handleBalanceQuery ==
    Route(rateLimitBankByIP, validateBalanceQuery, "getBalance", errorHandler)

handleHistoryQuery ==
    Route(rateLimitBankByIP, validateHistoryQuery, "getHistory", errorHandler)

handleAdminBankError == bankGrpcError

handleAdminSession ==
    Route("", validateAdminSessionRequest, "createAdminSession", handleAdminBankError)

AdminQuery(validator, call) ==
    Route("", Then(requireBankAdminSessionCookie, validator), call, handleAdminBankError)

handleAdminOverviewQuery     == AdminQuery(validateAdminQuery, "getAdminOverview")
handleAdminUsersQuery        == AdminQuery(validateAdminQuery, "listAdminUsers")
handleAdminUserAccountsQuery == AdminQuery(validateAdminQuery, "listAdminUserAccounts")
handleAdminTransactionsQuery == AdminQuery(validateAdminRangeQuery, "listAdminTransactions")
handleAdminAuditQuery        == AdminQuery(validateAdminRangeQuery, "listAdminAuditEvents")

handleAdminListCertificates ==
    Route("", Then(requireAdminRole, [status |-> 400, cert_type |-> 400]),
          "listCertificates", caAdminGrpcError)

handleAdminGetCertificateDetail ==
    Route("", Then(requireAdminRole, [serial |-> 400]), "getCertificateDetail", caAdminGrpcError)

handleAdminRevokeCertificate ==
    Route("", Then(requireAdminRole, [serial |-> 400, reason |-> 400]),
          "revokeCertificate", caAdminGrpcError)

handleListCaAudit ==
    Route("", Then(requireAdminRole, validateAdminRangeQuery), "listAuditEvents", errorHandler)

handleListKdcAudit ==
    Route("", Then(requireAdminRole, validateAdminRangeQuery), "listAuditEvents", errorHandler)

Routes ==
    [handleRequestTGT |-> handleRequestTGT,
     handleRequestTGS |-> handleRequestTGS,
     handleProfile |-> handleProfile,
     handleTransfer |-> handleTransfer,
     handleBalanceQuery |-> handleBalanceQuery,
     handleHistoryQuery |-> handleHistoryQuery,
     handleAdminSession |-> handleAdminSession,
     handleAdminOverviewQuery |-> handleAdminOverviewQuery,
     handleAdminUsersQuery |-> handleAdminUsersQuery,
     handleAdminUserAccountsQuery |-> handleAdminUserAccountsQuery,
     handleAdminTransactionsQuery |-> handleAdminTransactionsQuery,
     handleAdminAuditQuery |-> handleAdminAuditQuery,
     handleAdminListCertificates |-> handleAdminListCertificates,
     handleAdminGetCertificateDetail |-> handleAdminGetCertificateDetail,
     handleAdminRevokeCertificate |-> handleAdminRevokeCertificate,
     handleListCaAudit |-> handleListCaAudit,
     handleListKdcAudit |-> handleListKdcAudit]

(* A request without flaw has the flaw "none".                             *)
Flaws(r) == {"none"} \union DOMAIN Then(validateHeaders, Routes[r].checks)

AllFlaws == {"none"} \union UNION {Flaws(r) : r \in DOMAIN Routes}

(* A request that gets this far is one for a route of the router.          *)
ASSUME TrafficAssumption ==
    \A t \in Traffic : \A s \in Slots :
        t[s] \subseteq [route : DOMAIN Routes, flaw : AllFlaws]

-----------------------------------------------------------------------------
(* A slot whose connection carries no request.                             *)
Free(pc) == [pc |-> pc, route |-> "", flaw |-> "none"]

route(s) == Routes[req[s].route]

Init ==
    /\ traffic \in Traffic
    /\ req = [s \in Slots |-> Free("idle")]
    /\ answer = [s \in Slots |-> 0]
    /\ effect = [s \in Slots |-> FALSE]
    /\ count = [k \in Buckets |-> 0]
    /\ ttl = [k \in Buckets |-> -1]
    /\ admitted = [k \in Buckets |-> 0]
    /\ doubled = [k \in Buckets |-> 0]
    /\ orphaned = {}
    /\ up = TRUE
    /\ outages = 0

At(s, pc) == req[s].pc = pc

Goto(s, pc) == req' = [req EXCEPT ![s].pc = pc]

Respond(s, status) ==
    /\ answer' = [answer EXCEPT ![s] = status]
    /\ req' = [req EXCEPT ![s] = Free("answered")]

Bucket(s) == route(s).bucket

(***************************************************************************)
(* A request comes in on a fresh connection; validateHeaders runs, and the *)
(* limiter sends its INCR if the route has one.                            *)
(***************************************************************************)
Arrive(s) ==
    /\ req[s].pc \in {"idle", "answered"}
    /\ \E o \in traffic[s] :
           IF o.flaw \in DOMAIN validateHeaders
           THEN Respond(s, validateHeaders[o.flaw])
           ELSE /\ req' = [req EXCEPT ![s] =
                              [pc |-> IF Routes[o.route].bucket \in Buckets
                                      THEN "incr" ELSE "validate",
                               route |-> o.route, flaw |-> o.flaw]]
                /\ answer' = [answer EXCEPT ![s] = 0]
    /\ effect' = [effect EXCEPT ![s] = FALSE]
    /\ UNCHANGED <<redisVars, up, outages>>

(* Mutant: the comparison stops the last request of the window.            *)
Exceeds_TooEarly(n) == n >= MaxRequests

(* Mutant: the comparison lets one more through.                           *)
Exceeds_OffByOne(n) == n > MaxRequests + 1

(***************************************************************************)
(* check: the reply to INCR.  The first request of a window goes on to set *)
(* the expiry, one beyond the maximum to ask for the time left.  A command *)
(* that was under way when the connection broke is sent again, and counts  *)
(* twice if only its reply had been lost; the first INCR of a counter then *)
(* returns 2, and no EXPIRE follows.  The counter is kept up to            *)
(* MaxRequests + 2, beyond which nothing depends on it.                    *)
(***************************************************************************)
Exceeds(n) == n > MaxRequests

Saturate(n) == IF n > MaxRequests + 2 THEN MaxRequests + 2 ELSE n

(* Mutant: every request starts the window anew.                           *)
Incr_Sliding(s, times) ==
    /\ \/ At(s, "incr") /\ times = 1
       \/ At(s, "incr again")
    /\ up
    /\ LET k == Bucket(s)
           n == Saturate(count[k] + times)
       IN  /\ count' = [count EXCEPT ![k] = n]
           /\ ttl' = [ttl EXCEPT ![k] = Window]
           /\ Goto(s, IF Exceeds(n) THEN "ttl" ELSE "validate")
    /\ UNCHANGED <<answer, effect, admitted, doubled, orphaned, up, outages>>

Incr(s, times) ==
    /\ \/ At(s, "incr") /\ times = 1
       \/ At(s, "incr again")
    /\ up
    /\ LET k == Bucket(s)
           n == Saturate(count[k] + times)
       IN  /\ count' = [count EXCEPT ![k] = n]
           /\ admitted' = [admitted EXCEPT ![k] = IF Exceeds(n) THEN @ ELSE @ + 1]
           /\ doubled' = [doubled EXCEPT ![k] = @ + times - 1]
           /\ orphaned' = IF count[k] = 0 /\ times = 2 THEN orphaned \union {k}
                          ELSE orphaned
           /\ Goto(s, CASE n = 1       -> "expire"
                        [] n # 1 /\ Exceeds(n) -> "ttl"
                        [] OTHER       -> "validate")
    /\ UNCHANGED <<answer, effect, ttl, up, outages>>

(* check: EXPIRE by the request that created the counter; it does nothing  *)
(* to a counter that is gone.                                              *)
Expired(expiring) ==
    [k \in Buckets |-> IF k \in expiring /\ count[k] > 0 THEN Window ELSE ttl[k]]

Expire(s) ==
    /\ At(s, "expire")
    /\ up
    /\ ttl' = Expired({Bucket(s)})
    /\ Goto(s, "validate")
    /\ UNCHANGED <<answer, effect, count, admitted, doubled, orphaned, up, outages>>

(***************************************************************************)
(* check: TTL, and the 429.  Its Retry-After is the TTL, or the whole      *)
(* window when the counter has just gone or has no expiry yet.             *)
(***************************************************************************)
Ttl(s) ==
    /\ At(s, "ttl")
    /\ up
    /\ Respond(s, 429)
    /\ UNCHANGED <<effect, redisVars, up, outages>>

(* check's catch: Redis answers a command with an error; fail open.        *)
RedisError(s) ==
    /\ req[s].pc \in {"incr", "incr again", "expire", "ttl"}
    /\ up
    /\ outages < MaxOutages
    /\ outages' = outages + 1
    /\ orphaned' = IF At(s, "expire") THEN orphaned \union {Bucket(s)} ELSE orphaned
    /\ Goto(s, "validate")
    /\ UNCHANGED <<answer, effect, count, ttl, admitted, doubled, up>>

(* The guard and the validator, and the call is sent.                      *)
Validate(s) ==
    /\ At(s, "validate")
    /\ IF req[s].flaw \in DOMAIN route(s).checks
       THEN Respond(s, route(s).checks[req[s].flaw])
       ELSE Goto(s, "called") /\ UNCHANGED answer
    /\ UNCHANGED <<effect, redisVars, up, outages>>

(* The service refuses: it has not done what was asked, though it may have *)
(* recorded the attempt (a rejected transfer is a failed row of the        *)
(* ledger, which moves no money).                                          *)
ServiceRefuses(s) ==
    /\ At(s, "called")
    /\ \E st \in Refusals : Respond(s, route(s).errors[st])
    /\ UNCHANGED <<effect, redisVars, up, outages>>

(* The service does what is asked.                                         *)
ServiceRuns(s) ==
    /\ At(s, "called")
    /\ effect' = [effect EXCEPT ![s] = TRUE]
    /\ Goto(s, "ran")
    /\ UNCHANGED <<answer, redisVars, up, outages>>

(* The reply arrives, is decoded and sent on.  (The handlers that answer   *)
(* 404 for a reply without a certificate never do: GetCertificateDetail    *)
(* and RevokeCertificate of the CA always put it in.)                      *)
Reply(s) ==
    /\ At(s, "ran")
    /\ Respond(s, 200)
    /\ UNCHANGED <<effect, redisVars, up, outages>>

(* The call breaks down, before or after the service acted.                *)
CallBreaks(s) ==
    /\ req[s].pc \in {"called", "ran"}
    /\ \E st \in Breakdowns : Respond(s, route(s).errors[st])
    /\ UNCHANGED <<effect, redisVars, up, outages>>

(* A second passes; a counter whose time is over disappears.               *)
Tick ==
    /\ LET gone == {k \in Buckets : ttl[k] = 1}
       IN  /\ \E k \in Buckets : ttl[k] > 0
           /\ ttl' = [k \in Buckets |->
                         CASE k \in gone -> -1
                           [] k \notin gone /\ ttl[k] > 0 -> ttl[k] - 1
                           [] OTHER -> -1]
           /\ count' = [k \in Buckets |-> IF k \in gone THEN 0 ELSE count[k]]
           /\ admitted' = [k \in Buckets |-> IF k \in gone THEN 0 ELSE admitted[k]]
           /\ doubled' = [k \in Buckets |-> IF k \in gone THEN 0 ELSE doubled[k]]
    /\ UNCHANGED <<req, answer, effect, orphaned, up, outages>>

(* Redis goes away, and comes back with its keys.  An EXPIRE that was      *)
(* under way may have been carried out, and will be sent again.            *)
RedisDown ==
    /\ up
    /\ outages < MaxOutages
    /\ outages' = outages + 1
    /\ up' = FALSE
    /\ req' = [s \in Slots |-> IF At(s, "incr")
                               THEN [req[s] EXCEPT !.pc = "incr again"]
                               ELSE req[s]]
    /\ \E done \in SUBSET {Bucket(s) : s \in {s \in Slots : At(s, "expire")}} :
           ttl' = Expired(done)
    /\ UNCHANGED <<answer, effect, count, admitted, doubled, orphaned>>

RedisUp ==
    /\ ~up
    /\ up' = TRUE
    /\ UNCHANGED <<req, answer, effect, redisVars, outages>>

(* The gateway dies and is restarted: every connection is gone, and every  *)
(* EXPIRE that was still to be sent.                                       *)
Crash ==
    /\ outages < MaxOutages
    /\ outages' = outages + 1
    /\ req' = [s \in Slots |-> Free("idle")]
    /\ answer' = [s \in Slots |-> 0]
    /\ effect' = [s \in Slots |-> FALSE]
    /\ orphaned' = orphaned \union {Bucket(s) : s \in {s \in Slots : At(s, "expire")}}
    /\ UNCHANGED <<count, ttl, admitted, doubled, up>>

Proceed(s) ==
    \/ \E times \in {1, 2} : Incr(s, times)
    \/ Expire(s)
    \/ Ttl(s)
    \/ Validate(s)
    \/ ServiceRefuses(s)
    \/ ServiceRuns(s)
    \/ Reply(s)
    \/ CallBreaks(s)

Step ==
    \/ \E s \in Slots : Arrive(s) \/ Proceed(s) \/ RedisError(s)
    \/ Tick
    \/ RedisDown
    \/ RedisUp
    \/ Crash

Next == Step /\ UNCHANGED traffic

Spec == Init /\ [][Next]_vars

(***************************************************************************)
(* Handlers run on, time passes and Redis comes back.  That a service ends *)
(* each call is its own doing: the gateway sets no deadline.               *)
(***************************************************************************)
GatewayFairness ==
    /\ \A s \in Slots : WF_vars(Proceed(s) /\ UNCHANGED traffic)
    /\ WF_vars(Tick /\ UNCHANGED traffic)
    /\ WF_vars(RedisUp /\ UNCHANGED traffic)

-----------------------------------------------------------------------------
(* The phases of a request; in Limiting a command to Redis is under way.   *)
Limiting == {"incr", "incr again", "expire", "ttl"}

Phases == Limiting \union {"idle", "validate", "called", "ran", "answered"}

Requests == [pc : Phases, route : DOMAIN Routes \union {""}, flaw : AllFlaws]

Statuses == {0, 200, 400, 401, 403, 404, 408, 409, 422, 429, 500, 502, 503}

(* Every variable keeps its type: handlers are in one of their phases,     *)
(* answers are the statuses the code sends, and Redis has no counter       *)
(* beyond the bound, no TTL beyond the window.                             *)
TypeOK ==
    /\ traffic \in Traffic
    /\ req \in [Slots -> Requests]
    /\ answer \in [Slots -> Statuses]
    /\ effect \in [Slots -> BOOLEAN]
    /\ count \in [Buckets -> 0..(MaxRequests + 2)]
    /\ ttl \in [Buckets -> {-1} \union 1..Window]
    /\ admitted \in [Buckets -> Nat]
    /\ doubled \in [Buckets -> Nat]
    /\ orphaned \subseteq Buckets
    /\ up \in BOOLEAN
    /\ outages \in 0..MaxOutages

(***************************************************************************)
(* What the client is told about the effect is true: after a success the   *)
(* service has done what was asked, and after a 4xx it has not, so a       *)
(* request refused that way may be corrected and sent again.  A broken     *)
(* call, whose effect is open, is always a 5xx (the error maps).           *)
(***************************************************************************)
AnswerTellsEffect ==
    \A s \in Slots : At(s, "answered") =>
        /\ answer[s] = 200 => effect[s]
        /\ answer[s] \in 400..499 => ~effect[s]

(***************************************************************************)
(* One counter lets at most the configured number of requests through in   *)
(* its lifetime, whatever requests run in parallel and whichever commands  *)
(* were repeated (check counts with INCR before it compares).              *)
(***************************************************************************)
WindowBound == \A k \in Buckets : admitted[k] <= MaxRequests

(***************************************************************************)
(* Nobody is refused early: when check answers 429 its counter has let the *)
(* maximum through, whatever requests overlap, expire or are cut off, but  *)
(* for those that counted twice since their INCR was repeated.             *)
(***************************************************************************)
RefusedOnlyWhenFull ==
    [][\A s \in Slots :
          req'[s].pc = "ttl" /\ ~At(s, "ttl") =>
              admitted'[Bucket(s)] + doubled'[Bucket(s)] >= MaxRequests]_vars

(***************************************************************************)
(* A bucket that refuses requests opens again, unless its counter missed   *)
(* the EXPIRE: it failed, the gateway died before it, or the INCR that     *)
(* calls for it was repeated.  Nothing else keeps a bucket closed.         *)
(***************************************************************************)
LimitEnds ==
    \A k \in Buckets :
        Exceeds(count[k]) ~> (count[k] = 0 \/ k \in orphaned)

(***************************************************************************)
(* Why the properties above hold: an invariant that every step preserves.  *)
(***************************************************************************)

(* A request that is under way is one for a known route, and has its       *)
(* effect exactly when the service has run.                                *)
EffectFollowsPhase ==
    \A s \in Slots :
        /\ req[s].pc \notin {"idle", "answered"} =>
              /\ req[s].route \in DOMAIN Routes
              /\ effect[s] <=> At(s, "ran")
        /\ req[s].pc \in Limiting => Bucket(s) \in Buckets

(* A counter admits no request without counting it, and counts none that   *)
(* it does not admit before the maximum, but for the repeated ones.        *)
CountedBeforeAdmitted ==
    \A k \in Buckets :
        /\ admitted[k] <= count[k] /\ admitted[k] <= MaxRequests
        /\ count[k] <= MaxRequests => count[k] <= admitted[k] + doubled[k]
        /\ count[k] > MaxRequests => MaxRequests <= admitted[k] + doubled[k]

(* A counter has its TTL, or the request that must set it is about to, or  *)
(* that EXPIRE was missed.                                                 *)
CounterHasTtl ==
    \A k \in Buckets :
        /\ count[k] = 0 => ttl[k] = -1
        /\ count[k] > 0 =>
              \/ ttl[k] > 0
              \/ k \in orphaned
              \/ \E s \in Slots : At(s, "expire") /\ Bucket(s) = k

(* Effects, counters and expiries together: the invariant the proofs are   *)
(* by.                                                                     *)
GatewayInv ==
    /\ TypeOK
    /\ EffectFollowsPhase
    /\ AnswerTellsEffect
    /\ CountedBeforeAdmitted
    /\ CounterHasTtl
==========================================================================
