# Mini-Banking: TLA+ models, checks and proofs

The system is a PKI- and Kerberos-style demo bank: a browser client enrolls
with an X.509 certificate, obtains tickets from a KDC, and moves money through
a bank service that keeps a hash-chained ledger. This directory holds TLA+
models of the parts where concurrency, failure and time decide whether the
system is correct, the TLC configurations that check small instances, and
TLAPS proofs for every instance.

Paths are relative to `src/mini-banking-app/` unless they begin with `src/`.

## 1. Inventory

| Part | State | Operations | Interacts with |
|---|---|---|---|
| Bank: transfers (`banking-service/internal/bank`) | `accounts`, `transactions`, `ledger_state`, `bank_audit_log` | `Transfer`, `executeTransfer`, `failTransfer`, `CreateUser` | PostgreSQL; called by the gRPC handler |
| Bank: authorization (`banking-service/internal/grpc/auth.go`) | Redis markers, `used_nonces` | `authorize`, `markReplay` | Redis, PostgreSQL, CA |
| Bank: queries | none | `GetBalance`, `GetHistory`, admin lists | PostgreSQL |
| KDC (`kdc-service/internal/kdc`) | Redis markers, `kdc_audit_log` | `IssueTGT`, `RequestServiceTicket` | Redis, CA |
| CA (`ca-service/internal/ca`) | `certificates`, `certificate_audit_log`, issuer chain; a file store as alternative | `RegisterUser`, `VerifyCertificate`, `RevokeCertificate`, `AppendAudit` | PostgreSQL; called by gateway, KDC, bank |
| Audit chains (bank, KDC, CA) | one table each, an advisory lock, a sequence | `InsertAudit`/`AppendAudit`, `VerifyAuditChain`/`VerifyChain` | PostgreSQL |
| Gateway: OTP (`api-gateway/src/controller/otp.controller.ts`) | Redis keys for code and failures | `handleOtpRequest`, `handleOtpVerify` | Redis, mail queue |
| Gateway: enrollment (`api-gateway/src/controller/ca.controller.ts`) | Redis key of the token | `handleRegister` | Redis, CA, bank |
| Gateway: admin activation and sessions (`api-gateway/src/services/admin-*.ts`, `scripts/`) | Redis identities and activation keys, JWTs and cookies | `createPendingAdmin`, `markAdminActivated`, `createCaAdminSession`, revocation | Redis, CA, bank, mail |
| Gateway: rate limiter (`api-gateway/src/middleware/rateLimiter.ts`) | Redis counters | `check` | Redis |
| Gateway: proxy, validation, error mapping (`controller`, `middleware`, `routes`) | none of its own | one gRPC call per route | all services |
| Gateway: audit timeline, verification, summary, export (`controller/admin-timeline…`, `admin-audit-report…`, `lib`) | none; reads the three audit logs | `handleAuditTimeline`, `handleAuditVerify`, `handleAuditSummary`, `handleAuditExport` | CA, KDC, bank |
| Messages (`api-gateway/src/proto`, generated by ts-proto) | none | `encode`, `decode`, `fromJSON`, `toJSON` of every message | gateway and services |
| Frontend services (`frontend/src/services`) | tickets in RAM, wrapped key and certificate in IndexedDB | enrollment, AS, TGS and AP exchanges | gateway |
| Frontend pages (`frontend/src/pages`) | React state: session, profile, transfer form | login, registration, `Home` | frontend services |
| Mail queue, UI components, scripts | | | |

What is hard in it:

- **Transfers interleave statement by statement.** Each is a SERIALIZABLE
  transaction with three row locks; the idempotency lookup runs before it and
  the audit after it. Retries race their originals, opposite transfers
  deadlock, COMMIT may take effect without being acknowledged.
- **Replay protection is a race between two clocks.** A marker with a TTL has
  to outlive a freshness window, across clock skew, delays and store outages.
- **Enrollment is a saga** over Redis, CA and bank without a coordinator.
- **Redis commands are awaited one by one,** so every check-then-act in the
  gateway interleaves with others.
- **The rate limiter counts with two commands,** over a client that queues
  commands while Redis is away and repeats those whose reply was lost.
- **A report is many calls** against logs that go on growing, any of which may
  fail.
- **The browser is concurrent too:** every `await` lets a click, a logout, the
  Back button or another exchange in, and they share keys, tickets and the
  device's store.
- **Two ends of a call are deployed apart,** so messages meet older and newer
  readers.
- **Audit chains** have to verify after any interleaving, and not to verify
  after any change from outside.

What makes each part correct is in the tables of section 4; `PROJECT.json`
lists the hazards with their lines.

## 2. Plan

Order of work, most important behaviour first.

1. `BankTransfer` with `TransferBook` (what it promises): done.
2. `AuditLog`: done.
3. `ReplayGuard`: done.
4. `Otp`, `Enrollment`, and `Registration`, which composes them: done.
5. `Wire` with the descriptors `BankProto`, `CaProto`, `KdcProto`: done.
6. `Gateway`: every forwarding route, the limiter and the error maps; `ApiGateway`
   composes it with the codec: done.
7. `AuditReport`: the cross-service views: done.
8. `AdminAccess`: activation, login, sessions, revocation: done.
9. `ClientSession`: the browser, composed with the KDC's and the bank's checks
   as it meets them: done.
10. Proofs of every safety property of the runs, in all of these modules, and
    of the refinement of `TransferBook`: done. Liveness stays with TLC.

## 3. Modules

### BankTransfer, TransferBook

`BankTransfer` models concurrent handlings of `TransferMoney`. Each element of
`Requests` is one handling; a retry is another handling whose input has the
same key. `pc` is where the handling is, and each action is one SQL statement
of `executeTransfer` or `failTransfer` (or the code between two):

| Phase | Actions | Code (`bank/service.go`) |
|---|---|---|
| `lookup` | `KeyUnused`, `ReturnCompleted`, `KeyFailed`, `LookupFails` | `findIdempotentTransaction`, `Transfer` |
| `begin` | `BeginTx` | `BeginTx` SERIALIZABLE |
| `lockFrom`, `lockTo` | `LockFrom`, `FromNotFound`, `LockTo`, `ToNotFound` | `LoadAccountForUpdateByNumber` |
| `check` | `CheckRules` with `BusinessVerdict` | the rules, in order |
| `lockLedger` | `LockLedger` | `LockLedgerLastHash`, in both functions |
| `insert` | `InsertRow`, `InsertRefused` | debit, credit, insert; failed insert |
| `commit` | `Commit`, `CommitUnacknowledged` | `UpdateLedger`, `Commit` |
| `audit` | `AuditAndAnswer` | `Audit`, the answer |

Of PostgreSQL the model keeps what the code relies on: the snapshot of the
first statement (`snap`), row locks (`held`, `ledgerLock`; the join makes FOR
UPDATE lock the owner's row too), the refusal to lock a row changed since the
snapshot (`SerializationFailure`), unique indexes and CHECKs
(`ViolatesConstraint`, `DebitRefused`), deadlock detection, rollback.
PostgreSQL's further serialization failures are among `StatementFails`.

The data is abstract: a digest is named by the transaction id that went into
it, the clock counts days, metadata is dropped. `Total` is the sum of a function
over a set, used for SUM(amount) and for the balances. The writes of a transaction
become visible in one step (`Post`), as the locks guarantee.

`TransferBook` is the abstract specification: balances, and an outcome per
idempotency key that is fixed once. `ImplementsBook` is the refinement, under
the mapping `money <- balance`, `holders <- opened`, `outcome <- Outcome`.

### AuditLog

The protocol that `InsertAudit` (bank, KDC) and `AppendAudit` (CA) share:
begin, advisory lock, read the head, insert (drawing `seq` from the sequence),
commit; any step may fail. `VerifyAuditChain` is a fold over the rows in an
order that ORDER BY seq may return. `Modify`, `Delete` and `Reorder` change the
table from outside. `OldRows` are rows older than the hash columns. A hash is
the record of what was hashed, so it is neither `NoHash` (NULL) nor `Genesis`.
`log` is a history variable: the rows as they were committed.

### ReplayGuard

A message is one authenticator or signed AS request; a delivery is one handling
of it. The messages of `ForBank` go to the bank, the others to the KDC; the
destination decides the order of the steps: the KDC marks right after the
freshness check and verifies then, the bank verifies first (a CA call) and
falls back to `used_nonces` when Redis fails. `Tick` is the clock; `MaxAhead`
bounds how far a client's clock is ahead and `MaxDelay` how long a delivery may
take from the check to the marker (a CA call, at the bank). `when` is the time
of a delivery's freshness check and, once it has its marker, of the marker.
The module assumes TTL >= Window, both five minutes in the code, and nothing
of clocks and delays. `Verify` stands for all checks of ticket,
certificate, payload and signature as one choice.

### Otp

`handleOtpVerify` as its Redis commands: GET of the code, GET of the counter
and comparison, then either INCR and EXPIRE or DEL and the token. Codes are
numbered; code 0 in a request is one that was never sent. The specification is
`OtpSpec`, `at` is where a handling is. A command can be refused or the gateway
die (`CommandFails`), and a command whose reply was lost is sent again
(`ReplyLost`), as ioredis does under `maxRetriesPerRequest: null`: a first INCR
that is repeated returns 2 and no EXPIRE follows. `spent` and `before` are
history variables, and so is `stuck`, the emails whose counter missed its
EXPIRE in one of these ways.

### Enrollment

`handleRegister`: token, jti, email check, `RegisterUser` at the CA,
`CreateUser` at the bank, `revokeCertificate` when that fails, jti marked.
Each call may fail without effect, or take effect and lose its reply; the
gateway may die anywhere. `unsettled` is a history variable: the requests for
which such a failure kept the gateway from settling the certificate; and so is
`unheard`: the requests whose user the bank created without the gateway hearing
of it.

### Registration

The two handlers side by side. They share no Redis key: the token that the one
gives and the other takes is a signed statement the client carries, whose jti
may be known or not. `RegistrationNext` is a step of one of them. As neither
reads or writes a variable of the other, `MCRegistration` lets TLC run each
while the other is in its initial state, which reaches every state that a
property of one of them can tell apart; that the composition is a behaviour of
each part is proved (`RegistrationIsBoth`).

### Wire, ProtoFields, BankProto, CaProto, KdcProto

ts-proto writes the same code for every message, so `Wire` has it once and the
three descriptor modules list the fields of every message. A message is built
by `fromJSON` (from camelCase, snake_case or mixed keys) or by a writer that
fills the fields; `encode` writes one chunk per field that differs from its
default, `decode` is the loop over tags with its four ways on: a known field, a
known number with another wire type, an unknown number, the end. A value is a
small number, as only default or not, safe or not and known or not make a
difference; a nested message stands for its bytes. The specification is
`CodecSpec`, and `stage` is where a message is. `WireAssumption` says what the
descriptors are (`IsDescriptor`: names and enumeration names are unique, only
strings and messages are repeated) and how two ends may differ (`Compatible`: a
field may come, go or change its wire type, but under one number and wire type
it keeps its kind and stays single or repeated; an int64 read as an int32 would
be truncated, which no two of this system's descriptors do). An integer is
`Unsafe` above `MaxSafe` or below `-MaxSafe`. TLC evaluates the assumption on
all messages of the three services.

### Gateway

A route is a record: its limiter bucket, its checks with the status each flaw
gets, the call, the error map. A request runs through `Arrive` (with
`validateHeaders`), the limiter's `Incr`, `Expire` and `Ttl`, `Validate`, and
the call: `ServiceRefuses`, `ServiceRuns` and `Reply`, or `CallBreaks` before
or after the service did its work. `RedisDown`, `RedisUp`, `RedisError` and
`Crash` are the faults: a command under way when the connection breaks is sent
again, as the client does under `maxRetriesPerRequest: null`, and may count
twice. `admitted`, `doubled` and `orphaned` are history variables: how many
requests a counter let through and how often one was counted again, and the
counters that missed their EXPIRE. What Retry-After says is left out, as no
state depends on it. `rateLimitByCertSn` counts nothing, as it reads a field
that the frontend never sends (section 4). `Reply` is 200: the handlers that
answer 404 after the call do so for a reply without a certificate, which the
CA never sends. `RATE_LIMIT_DISABLED` is not modelled; the limiters of the
activation routes are the same code.

### ApiGateway

The proxy and the codec side by side. The codec is synchronous code on one
message and neither sees a variable of the other, so `MCApiGateway` runs each
while the other rests, as above (`ApiIsBoth`).

### AuditReport

`MakeEvent` gives an event its time, `CommitEvent` makes it visible, in any
order; `Tamper` breaks a chain. A handler (`handleAuditTimeline`,
`handleAuditVerify`, `handleAuditSummary`, `handleAuditExport`) takes the
sources in turn: `FetchPage` or `CheckChain` until the source is done,
`SourceFails` for the catch block, `SkipBank` without the cookie, and `Answer`
with the sort, the slice, the enrichment and the anomalies. Time is in ticks
because services order by the full timestamp and the gateway by the second. A
table is the set of its rows; ORDER BY with LIMIT and OFFSET (`Page`) picks rows
by rank, the rank of a row being the number of newer rows of the window, so a
row that commits between two pages moves the older ones down, as it does in
PostgreSQL. `SortByTs` is the stable sort, which puts a row behind the rows
`Ahead` of it. No two events have the same tick: columns keep microseconds,
and the order of a tie, which PostgreSQL leaves open, is not modelled; equal
seconds do occur. The sources are a set, `h.todo`, and `Src` is the next in the
order in which the handlers ask them.

### AdminAccess

Provisioning (`createPendingAdmin`, `SendActivationEmail`,
`discardPendingAdminProvision`), activation (`ReadToken`, `ReadIdentity`,
`IssueCertificate`, `markAdminActivated`, each with its failure), login
(`CheckCertificate`, `StartSession`), `RevokeCertificate` and the clock.
`unsettled` is a history variable as in `Enrollment`. The admin pages start
these requests one by one and hold no other state.

### ClientSession

One tab: IndexedDB (`idb`), the session and tickets in memory (`held`), the
calls under way (`op`), the page, `Home` with its profile, the transfer form,
and what the bank has done (`bank`). An action is what runs from one event to
the next `await`. A session key is a buffer that `fill(0)` empties for
everybody who holds it, so a call knows whether its key was `wiped`. The KDC
and the bank appear with the checks the client meets: certificate status,
signature, owner of the ticket. A transfer that was paid can be answered with
an error (`ErrorAfterPaying`): the COMMIT took effect and was not acknowledged,
or the reply could not be encrypted. Two history variables name the orders of
events after which state of two customers is mixed: `overlapped`, two
enrollments ran at the same time, and `outlived`, the customers of whom a
ticket or a profile outlived the session, because another one logged in over it
or because it ended between the decryption of a TGS reply and the storing of
the ticket. One tab is modelled: two tabs share only IndexedDB.

## 4. Runs

| Run | Bounds | Checks |
|---|---|---|
| `transfer` | 15 workloads: four with three concurrent transfers (out of an original, its retry, a second intent, an opposite one, and one between other accounts that meets the rest only at the ledger), one of them over midnight; and eleven with two, whose payloads between them reach every rule, unknown and late-opened accounts, a locked user and a foreign currency; opening balance 3, limit 2, faults, fairness | `TypeOK`, `NoOverdraft`, `MoneyConserved`, `DailyLimitRespected`, `AnswersMatchLedger`, `AuditMatchesLedger`, `SerialAppends`, `ImplementsBook`, `EveryTransferEnds` |
| `retry` | a rejected transfer and its retry, no faults | refutes `RetryGetsOriginalAnswer` |
| `append` | 3 appends, 2 events, 1 older row, 3 changes from outside | `UntamperedVerifies`, `VerifiedIsGenuine` |
| `once` | 2 messages, one for the KDC and one for the bank, 3 deliveries, window and TTL 2, clocks ahead by up to 2, a delay up to 1 before the marker, time to 5, outages | `OnceInWindow`, `AtMostTwice`, `ReplayIsReal` |
| `gap` | the same with 2 deliveries, clocks ahead by up to 1, no delay, no outages | refutes `NoGap` |
| `registration` | 1 email, 3 verifications, 2 codes, 2 attempts; 3 enrollments, 3 tokens, two of them for one email; faults, fairness | `SpentCodeStaysSpent`, `CodeLostOnlyToSuccess`, `LockoutEnds`, `RegisteredOnce`, `ActiveIsEnrolled`, `UsersHaveCertificates` |
| `api` | every message of the three services; equal ends, a writer with one more field of either wire type, with one less, with one retyped; all fields, none, each alone, each missing, unsafe integers of both signs, unknown enum values, lists and maps. Every route with every flaw on one connection beside sound requests on another, any number of them; window 2, maximum 2, 1 outage or crash | `RoundTrip`, `AnswerTellsEffect`, `WindowBound`, `RefusedOnlyWhenFull`, `LimitEnds` |
| `report` | 4 events of KDC and bank, 2 uncommitted at a time, 2 ticks to a second, pages of 1, cap 3, threshold 2 | `ReportMatchesLogs`, `QuietWindowExact`, `AnomaliesFound`, `VerdictSound` |
| `soc` | as `report` | refutes `SeverityAsDocumented` |
| `admin` | 2 admins, 3 activations (a token twice, a token on the wrong route), 2 logins, 1 fault | `ActiveIsRecorded`, `RevokedLosesAccess`, `TokensEnd` |
| `client` | 2 customers on one device, 2 transfers, 1 fault out of lost answer, error after a payment, reload, failed enrollment, revocation, expiry, in 4 plans | `OwnTickets`, `ProfileIsOwn`, `PairFits`, `PayerConsents`, `ModalTellsLedger`, `RepeatOnlyAfterLoss`, `ProcessingEnds` |
| `repeat` | as `client` | refutes `RetryPaysOnce` |

What the properties say:

- `NoOverdraft`: no balance is negative, and the balance a transfer checked is
  the one it debits, so the CHECK never has to refuse. `MoneyConserved`: the
  balances add up to the opening balances. `DailyLimitRespected`: over midnight
  and concurrent snapshots.
- `SerialAppends`: rows are only appended, each decided on a snapshot of all
  rows before it, so the chain has no fork (`LedgerIsOneChain`, proved).
- `AnswersMatchLedger`: OK names the only row of the key, completed; a business
  error means that the key is used up by the request's own failed row.
  `AuditMatchesLedger`: no audit event contradicts the ledger.
- `UntamperedVerifies`: no false alarm. `VerifiedIsGenuine`: no false
  assurance, except at the two ends of the chain, and for the order of rows if
  twins were written: `auditHashFields` covers neither id nor time, so an equal
  event that is written upon a shortened chain has the hash of the deleted row.
- `OnceInWindow`: a message is accepted once, unless one of its markers was
  written outside the message's own window (a clock ahead, or a slow CA) or the
  bank's second store was asked. `AtMostTwice`: how far these exceptions go.
  `ReplayIsReal`: the honest error.
- `SpentCodeStaysSpent`, `LockoutEnds`: the OTP challenge.
  `CodeLostOnlyToSuccess`: a code never goes because of a wrong guess.
- `RegisteredOnce`, `ActiveIsEnrolled`, `UsersHaveCertificates`: the saga leaves
  no second user, no certificate without a user and no user without a
  certificate, but for the failures the properties name.
- `RoundTrip`: what is decoded is what the caller meant, field by field, and
  nothing else; an integer beyond 2^53 of either sign is never rounded and
  nothing else is refused.
- `AnswerTellsEffect`: 200 means done, 4xx means not done. `WindowBound`,
  `RefusedOnlyWhenFull`, `LimitEnds`: the limiter admits no more than its
  maximum, no less but for requests that were counted twice, and opens again
  unless the EXPIRE was lost or skipped.
- `ReportMatchesLogs`, `QuietWindowExact`: what a report has.
  `AnomaliesFound`, `VerdictSound`: what it concludes.
- `ActiveIsRecorded`: what activation leaves, in the CA and in Redis.
  `RevokedLosesAccess`, `TokensEnd`: nothing outlives its end by more than the
  lifetimes in the code.
- `OwnTickets`, `ProfileIsOwn`: the tickets in memory and the profile on the
  page are those of the customer who is logged in, or of one of whom something
  outlived the session. That exception is real: `setSession` keeps the service
  tickets, `performTgsExchange` uses the `balance:read` ticket it finds, and
  `Home` shows the former customer's profile to the new one. `PairFits`: key and
  certificate on the device, except after a failed or overlapping enrollment.
  `PayerConsents`: even then, the bank moves money only with the payer's own
  signature and a good certificate. `ModalTellsLedger`, `RepeatOnlyAfterLoss`,
  `ProcessingEnds`: what the form tells, and when a repeated order is paid twice.

Why the bounds are enough: two transfers suffice for a race on a key, a lock or
the chain, and a third for an interleaving in which one of them commits between
two statements of another and a retry follows. Amounts and limits are such that
two transfers exceed balance and limit and one does not. Two deliveries make a
replay and the third shows a store switch, or a message accepted twice and
tried again; time runs past the end of the window of a message whose clock is
ahead. Symmetry is over writers and over deliveries, which the models do not
tell apart; elsewhere the MC modules number alike handlings or list the
workloads, as runs with a liveness property can have no symmetry. In `api`
every field of every message is tried, and the code treats fields one by one;
two connections are enough for every pair
of limiter commands to interleave, and the requests do not run out. In
`report`, pages of one row put a page break between any two rows. In `client`
the plans keep apart what would only multiply: each has the actors that one
group of hazards needs.
Deadlock checking is off where a model ends when its requests are used up
(`transfer`, `append`, `once`, `registration`, `admin`) and on in `api`,
`report` and `client`, where something can always happen.

Four disagreements between a document and the code are runs of their own, whose
property says what the document says and which TLC refutes:

- `retry`: the specification of the transfer (`src/blueprint/specs/04-bank-transfer.md:82`)
  and the API design promise that the retry of a failed transfer gets the
  original error; it gets `IDEMPOTENCY_FAILED` (`bank/service.go:249`);
- `gap`: `src/blueprint/as-exchange-flow.md:182` says that TTL = window leaves no
  time at which the marker has expired and the message is still fresh; a marker
  written before the message's own timestamp expires before the window does
  (`kdc/as_service.go:261`);
- `repeat`: `src/blueprint/api-design/base-api.md:151` says that a client which
  retries after a network timeout reuses its key, and `transfer-flow.md:218`
  that a retry does not spend twice; every attempt of the form makes its own key
  (`transfer.service.ts:104`);
- `soc`: the audit test cases say that a detected replay is critical, but the
  gateway compares names without the prefix that `bankAuditActionToJSON` puts
  before every Bank action, so timeline, summary and export rate it as
  information and as a success (`lib/audit-semantics.ts:82`).

Further differences that the models contain and no run of its own shows.

Transfers and ledger:

- a retry that races its original is answered INTERNAL, by the unique index or a
  serialization failure, where `src/blueprint/specs/04-bank-transfer.md`
  promises the old result;
- a transfer from a foreign account to itself is answered INTERNAL and not 403,
  as its failed row violates `diff_accounts`;
- the audit event of a transfer is written after the commit and best effort,
  where the same document has it in the transaction.

Audit logs and reports:

- the seed hashes its audit rows without the 0x1f separator, so a seeded table
  does not verify; it numbers them itself and does not move the sequence, so
  appended events share their `seq`. Seeded rows are not in `AuditLog`;
- deleting the first covered rows of an audit chain is not detected, and after
  three changes and a repeated event neither is a change of order, where
  `db/bank/migrations/002_add_audit_hash_chain.sql:5` says that each of them breaks the chain
  (`VerifiedIsGenuine` says what is detected);
- rows that commit between two pages make a report read a row twice; events of
  one second come in reversed order; a capped report keeps the oldest of the
  newest rows it read; the export does not say which source failed;
  verification answers `ok: true` when no chain could be checked;
- the Bank filters its timeline by the request id of the AP request, not of the
  HTTP request as `src/demo_test_guide/tests/audit-testcases.md:152` says; its
  window includes the end, those of CA and KDC do not; the timeline accepts a
  limit of 200 and the services clamp it to 100.

Replay protection, OTP, enrollment, administrators:

- a CA call that lasts opens the same gap as a clock that is ahead, at the bank;
- the bank writes `used_nonces` only when Redis fails, so after an outage it
  may accept once more what Redis accepted: the first exception in
  `OnceInWindow`;
- two concurrent verifications of one code both pass; a lost EXPIRE or a repeated
  first INCR locks an email out for good;
- a lost reply, a failed revocation or a crash in `handleRegister` leaves an
  active certificate without a user, or a user without one, and no retry can
  repair it;
- a lost reply of `RegisterUser` during activation leaves an identity pending
  beside its active certificate, and the retry is answered 409;
  `markAdminActivated` overwrites whatever the identity is; a mail error
  reported late deletes an identity that may be active already; a revoked CA
  admin keeps the session for up to 8 hours; a login challenge can be used
  again within its 300 seconds.

Gateway:

- limiter commands wait for Redis (`config/ioredis.ts:4`) instead of failing
  open as the comment at `middleware/rateLimiter.ts:40` says; a repeated first
  INCR returns 2, no EXPIRE follows, and the counter stays for good; the atomic
  `rateLimit` script that would prevent it is not used;
- `rateLimitByCertSn` reads `cert_sn` where the body has `certSn`, so ticket
  requests are never limited;
- the Bank admin's cookie has the path `/v1/admin/bank` and is not sent to
  `/v1/admin/audit/*`;
- `handleHistoryQuery` checks numbers with `z.coerce` and forwards
  `parseInt`; `validateASRequest` and `validateTGSRequest` compare field names
  that never occur, so two of their error codes are never sent;
- calls have no deadline; one integer beyond 2^53 fails a whole reply.

Browser:

- `prepareEnrollment` overwrites the key on the device before registration,
  against the comment above it (`pki-registration.service.ts:65`): a failed
  enrollment leaves a device whose key and certificate do not fit;
- `setSession` keeps the service tickets of the former session, so that a login
  over another customer's session shows his profile; and a logout between the
  decryption of a TGS reply and `setServiceTicket` stores a ticket after the
  logout;
- a logout during a transfer empties the key its answer is encrypted with and
  unmounts the form, so the customer learns nothing of a transfer that was made;
  a login over the session empties the key too;
- the login and registration pages navigate when their call ends, even if the
  user has left them.

Documents quoted: `src/blueprint/specs`, `src/blueprint/api-design`,
`src/blueprint/as-exchange-flow.md`, `transfer-flow.md` of the frontend,
`src/demo_test_guide/tests`, and comments
in code and migrations; `PROJECT.json` has file and line.

The inductive invariants (`TransferInv`, `MoneyInv`, `LimitInv`,
`ChainInv`, `UntouchedInv`, `GuardInv`, `ReplayInv`, `OtpInv`, `EnrollmentInv`,
`GatewayInv`, `WireInv`, `AdminInv`, `ClientInv`; `ReportInv` in `BankTransfer`
and in `AuditReport`) were checked on these instances first;
they are proved (section 6) and so are not in the runs any more. Modules whose
runs do not check it define their `TypeOK` for the reader.

## 5. Fairness

`BankTransfer!FairSpec`: weak fairness of each handling's own steps and of its
being chosen as deadlock victim. Goroutines run until they end, a lock wait
ends when the holder's transaction does, and PostgreSQL runs its detector after
`deadlock_timeout`. Nothing is assumed of clients, failures, crashes or the
clock. `OtpFairness`: weak fairness of each handling's steps and of the
counter's expiry. Faults are on: an EXPIRE lost after the first INCR, or skipped
because that INCR was repeated, leaves the counter for good and nothing in the
code repairs it, so `LockoutEnds` excepts exactly those emails (`stuck`) and
shows that nothing else does.

`GatewayFairness`: a request goes on when its command or call has ended, the
clock runs, and Redis comes back; a call ends, as a connection whose service is
gone breaks. `Enrollment`, `Wire` and `AuditReport` have no liveness property
and assume none.
`AdminAccess`: the clock, activations and logins under way. `ClientSession`:
the steps of a transfer that was begun and the answer of the bank or its loss;
nothing is assumed of the user.

## 6. Proofs

Each module `X_proofs` extends `X`. All theorems hold for every value of the
constants that satisfies the ASSUMEs of the modules, which TLC evaluates in the
runs: that bounds and lifetimes are naturals, that the names for "nothing" are no members of
the sets they are told apart from, that payloads, plans and routes have the
fields the code reads, and that the seeded accounts are finitely many. Nothing
is assumed of the number of actors, of faults or of the clock; in `ReplayGuard`
the TTL is not shorter than the window, as in the code.

**`BankTransfer_proofs`.** `TypeCorrect` is by induction over the actions.
The safety properties are not inductive: that a balance stays non-negative
depends on the debit being covered when it is made. `TransferInv` adds why it
is: `RowLocksExclude` (no two transfers hold rows of one owner),
`LocksFollowPhase` (which locks a transfer has, by phase), `DecisionsStayValid`
(the balance, last hash and ledger length a transfer read are still current
when it acts) and `RowsAreUnique` (one row per handling and per key). The heart
is `PostInv`, the commit: it changes balances only of rows it holds, so the
exclusion keeps the others' decisions; and it extends the ledger while holding
its lock, so no other transfer is in `insert` or `commit`. From `TransferInv`
follow `NeverOverdrawn`, `LedgerNeverForks` and `AppendsAreSerial`.

`BookImplemented` is the refinement. A commit maps to `TransferBook`'s
settlement of its key, an opening of an account to its opening, and every other
step to a stutter; that the key was open before comes from `RowsAreUnique` and
the unique index. `ReportInv` adds to the answers and the audit trail what a
handling knows between its commit and its answer (`CommitsAreRecorded`): the
ledger only grows and a key has one row, so what it is about to report stays
true. `AnswersAreTrue` and `AuditIsTrue` follow.

`NoMoneyLost` and `LimitHolds` are about sums, which the library defines by
recursion on sets. `RecursionExists` shows that the recursion has a solution on
every finite set, and `TotalAdd`, `TotalRemove`, `TotalAgrees` and `TotalMoves`
are what is needed of it; each is by a smallest counterexample, which the
library theorem `WFMin` gives without an operator parameter. `MoneyInv` is
`MoneyConserved` and that accounts are finitely many. `LimitInv` says of every
transfer between its check and its commit that its amount still fits the limit
of the day on which its row will be dated (`WithinLimit`): at the commit the
snapshot it summed is the whole ledger (`TransferInv`), and a day that began
after the check has no row in it.

**`AuditLog_proofs`.** `ChainInv` holds whatever is done to the table: from
reading the head to the commit writers exclude each other, a written row chains
to "genesis" or to an earlier row, numbers are unique, and a covered row has id
and hashes of a row that was written. `UntouchedInv` adds, for a table nobody
touched, that it is the old rows and the log and that the log is one chain.
`ReplayByRow` turns the fold of `VerifyAuditChain` into its results after each
row, `OneOrder` shows that ORDER BY seq has one answer. `NoFalseAlarm`: after
each row the replay has counted it and holds its hash. `NoFalseAssurance`: if
the replay accepts, it accepted every row (`VerifiedRows`), so each row has the
hash of its contents and hashes determine contents; a row chains to the row
before it, which was therefore written earlier (`ChainedIsLater`). The proof
attempt showed that the order of rows needs the exception for twins, which
an instance with fewer than three changes does not show.

**`ReplayGuard_proofs`.** `GuardInv` says when markers are written and how long
they live. `PendingIsFresh`: a delivery on its way to the marker was fresh when
that was checked. `MarkersLive`: a marker is written no earlier than its message
is fresh, and lives for the TTL at least. `MarkersApart`: two Redis markers of
one message are therefore more than a TTL apart. It holds for any clocks and
delays. Two times that lie in one window are not more than a TTL apart, as
TTL >= Window, which is `OnceInWindowHolds`; three times between the earliest
and the latest at which a message is fresh, two windows apart, cannot be,
which is `AtMostTwiceHolds`. `ReplayInv` and `RefusalsAreReal` need nothing of
the lifetimes: every marker was written by a delivery.

**`Registration_proofs`, the code.** `OtpInv`: the code in Redis is unspent, what a handling read
was current when it read it, and every counter has its expiry, a handling that
sets it next, or missed it because the EXPIRE was lost or the INCR repeated.
A handling that begins later finds another code or none, which
is `SpentCodesRefused`. `WrongGuessesKeepCode` is an action property over the
same invariant. `LockoutsAreBounded` is the safety part of `LockoutEnds`.

**`Registration_proofs`, the certificate.** `EnrollmentInv` says which certificate and user a
request has, by phase, that an email has one user and an owner one active
certificate. `RegisteredOnceHolds`: two requests answered 201 for one email
would have the same owner, and both an active certificate. With
`ActiveIsEnrolledHolds` and `UsersHaveCertificatesHolds` it shows that the
compensation is right except where a failure disturbs it: it takes back neither
too little nor too much. `RegistrationIsBoth` carries all of this over to the
composition.

**`ApiGateway_proofs`, the routes.** `GatewayInv` says what a request's call has done, by
phase; that admitted requests were counted before, so that they are no more
than the counter, and with those counted again no less; and that a counter has
its TTL, a request that is about to set it, or missed its EXPIRE.
`AnswersTellEffect`, `WindowIsBounded`, `NobodyRefusedEarly` and
`CountersHaveTtl`, the safety half of `LimitEnds`, follow, for all routes and
any traffic, connections and limits. `ApiIsBoth` is as `RegistrationIsBoth`.

**`ApiGateway_proofs`, the encoding.** `WireInv` follows a message through
`encode` and `decode`. `InOrder`: what is encoded is what the caller meant,
which for a caller that goes through JSON is `ThroughJSON`, that `fromJSON`
takes back what `toJSON` writes in either spelling. `WireHoldsFields`: the
chunks of a field are on the wire in one piece and nowhere else (`LiesAt`), and
the field the reader has is the part of the value whose chunks it consumed
(`Part`, `Consumed`): one chunk more makes the list one longer or the map one
key larger, all chunks make the value, no chunk the default. `OthersUntouched`:
no chunk changes a field that the ends do not share. `StopsAtUnsafe`: `decode`
is past no `Unsafe` integer, and throws at nothing else. At the end
everything is consumed, which is `RoundTripHolds`, for all descriptors that
satisfy `WireAssumption` and all values that fit them.

**`AuditReport_proofs`.** `ReportInv` is about reading a table in pages while
it grows. `TablesGrow`: rows are never removed and have different times. The
heart is `PagesAreKept`: a row that was there when the report began has been
read, or at least `h.offset` rows are newer; a commit can only raise its rank
(`RankGrows`), a page takes the ranks from the offset on (`PageRows`), and a
page that is not full was the last. If no row came, ranks did not move and no
row is read twice. `ItemsAreWhole` keeps this for the sources that are done, up
to the cut (`Cut`), and `StatusIsTrue` relates what is noted of a source to its
chain. `Ranked` (in a finite set, the rows have the ranks from 0 to its size
less 1) counts an injection; `Sorted`, that the sort is a
permutation, comes from it. `ReportMatchesLogsHolds`, `QuietWindowExactHolds`,
`AnomaliesFoundHolds` and `VerdictSoundHolds` follow, for any tables, page size
and cap.

**`AdminAccess_proofs`.** `AdminInv`: a certificate is where the phase of its
activation says, a token is presented on the route of its role once the route
has checked it, and an admin has at most one active certificate.
`ActivationsAgree` and `OneActiveCertificate` follow. `RevokedForGood` and
`TokensGoForGood` are the safety halves of `RevokedLosesAccess` and `TokensEnd`:
a revoked certificate never comes back, no new login starts with it and no
session of it gets more time (`RevocationIsFinal`); a token that is gone stays
gone, and no further attempt gets to the CA with it (`GoneTokenStaysGone`).

**`ClientSession_proofs`.** `ClientInv` collects what every call under way
refers to (its session, its key, its ticket, its order), whose state the stores
and pages hold, the session's customer's or that of one in `outlived`, and which
rows the bank has. The six safety
properties follow from it, for any customers, calls and plans; `ModalIsTrue`
and `RepeatsFollowLoss` need the part that relates answers to rows.

Only model-checked: liveness (`EveryTransferEnds`, `LockoutEnds`, `LimitEnds`,
`RevokedLosesAccess`, `TokensEnd`, `ProcessingEnds`), which is out of the
prover's reach. Every invariant and every action property of a
passing run is a theorem. The runs that TLC refutes have nothing to prove.

## 7. Not modelled

Cryptography is perfect: ciphertexts are opened and signatures made only with
their keys, digests do not collide. Money is an integer without overflow (the
code's int64 and the schema's BIGINT are far from the amounts a limit of 5e7
lets through), except in `Wire`, where the limit of a double is the point.

Left out, with the reason:

- mail queue and worker: fire and forget; no state depends on them, and that a
  mail may fail is in `AdminAccess`;
- what balance and history queries return: one SELECT, no state; their calls
  are routes of `Gateway`;
- the KDC's table of scopes, DER and PEM coding, canonical JSON: pure
  conversions whose cases a test enumerates;
- the CA's file store, its issuer chain and the end of a certificate's
  validity; the Go code of `pkg/pb`;
- the security admin's password login, which keeps no state;
- admin pages, history list and UI components of the frontend: they draw what
  they are given; a second tab of the same browser;
- seed data, scripts and deployment files.
