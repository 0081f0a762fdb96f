---------------------------- MODULE BankProto ----------------------------
(***************************************************************************)
(* The messages and services of api-gateway/src/proto/bank.ts, one         *)
(* descriptor per message: its fields in the order of their numbers, which *)
(* run from 1 without a gap in every message.  The generated encode,       *)
(* decode, fromJSON, toJSON and fromPartial of a message differ from those *)
(* of another only by this list; Wire.tla holds what they share.           *)
(***************************************************************************)
EXTENDS ProtoFields

AccountStatus ==
    <<"ACCOUNT_STATUS_UNKNOWN",
      "ACCOUNT_STATUS_ACTIVE",
      "ACCOUNT_STATUS_LOCKED",
      "ACCOUNT_STATUS_FROZEN">>

TransactionStatus ==
    <<"TRANSACTION_STATUS_UNKNOWN",
      "TRANSACTION_STATUS_PENDING",
      "TRANSACTION_STATUS_COMPLETED",
      "TRANSACTION_STATUS_FAILED">>

UserStatus ==
    <<"USER_STATUS_UNKNOWN",
      "USER_STATUS_ACTIVE",
      "USER_STATUS_LOCKED">>

BankAuditAction ==
    <<"BANK_AUDIT_ACTION_UNKNOWN",
      "BANK_AUDIT_ACTION_TRANSFER_COMPLETED",
      "BANK_AUDIT_ACTION_TRANSFER_REJECTED",
      "BANK_AUDIT_ACTION_REPLAY_DETECTED",
      "BANK_AUDIT_ACTION_INVALID_SIGNATURE",
      "BANK_AUDIT_ACTION_CERTIFICATE_REJECTED",
      "BANK_AUDIT_ACTION_FORBIDDEN_OWNERSHIP",
      "BANK_AUDIT_ACTION_INSUFFICIENT_FUNDS">>

CreateUserRequest ==
    <<Str("userId"), Str("subjectEmail"), Str("fullName")>>

CheckUserEmailRequest ==
    <<Str("subjectEmail")>>

CheckUserEmailResponse ==
    <<Bool("exists"), Str("userId"), Str("status")>>

CreateUserResponse ==
    <<Str("userId"), Str("status"), I64("createdAtUnix")>>

TransferRequest ==
    <<Bytes("ticketV"), Bytes("authenticator"), Bytes("cipherPayload"),
      Bytes("iv")>>

TransferResponse ==
    <<Bytes("apRep"), Str("transactionId")>>

BalanceRequest ==
    <<Bytes("ticketV"), Bytes("authenticator"), Str("accountId")>>

BalanceResponse ==
    <<Bytes("apRep"), Str("accountId"), Str("accountNumber"), I64("balance"),
      Str("currency"), Enum("status", AccountStatus)>>

HistoryRequest ==
    <<Bytes("ticketV"), Bytes("authenticator"), Str("accountId"), I32("limit"),
      I32("offset")>>

HistoryResponse ==
    <<Bytes("apRep"), Repeated(Msg("transactions")), I32("total"), I32("limit"),
      I32("offset")>>

TransactionRecord ==
    <<Str("transactionId"), Str("fromAccountNumber"), Str("toAccountNumber"),
      I64("amount"), Str("currency"), Enum("status", TransactionStatus),
      Str("description"), Str("scope"), I64("createdAtUnix"),
      I64("completedAtUnix")>>

CreateAdminSessionRequest ==
    <<Bytes("ticketV"), Bytes("authenticator")>>

CreateAdminSessionResponse ==
    <<Bytes("apRep"), Str("sessionToken"), I64("expiresAtUnix"), Str("adminId"),
      Str("role")>>

AdminOverviewRequest ==
    <<Str("adminSessionToken")>>

AdminOverviewResponse ==
    <<I64("totalUsers"), I64("activeUsers"), I64("totalAccounts"),
      I64("totalBalance"), I64("totalTransactions"),
      I64("completedTransactions"), I64("failedTransactions"),
      I64("auditEvents24h")>>

ListAdminUsersRequest ==
    <<Str("email"), Enum("status", UserStatus), I32("limit"), I32("offset"),
      Str("adminSessionToken")>>

ListAdminUsersResponse ==
    <<Repeated(Msg("users")), I64("total"), I32("limit"), I32("offset")>>

AdminUser ==
    <<Str("userId"), Str("email"), Str("fullName"), Enum("status", UserStatus),
      I64("accountCount"), I64("totalBalance"), I64("createdAtUnix")>>

ListAdminUserAccountsRequest ==
    <<Str("userId"), Str("adminSessionToken")>>

ListAdminUserAccountsResponse ==
    <<Repeated(Msg("accounts"))>>

AdminAccount ==
    <<Str("accountId"), Str("accountNumber"), I64("balance"), Str("currency"),
      Enum("status", AccountStatus), I64("createdAtUnix")>>

ListAdminTransactionsRequest ==
    <<Str("accountId"), Enum("status", TransactionStatus), I64("fromUnix"),
      I64("toUnix"), I32("limit"), I32("offset"), Str("adminSessionToken")>>

ListAdminTransactionsResponse ==
    <<Repeated(Msg("transactions")), I64("total"), I32("limit"), I32("offset")>>

AdminTransaction ==
    <<Str("transactionId"), Str("fromAccountNumber"), Str("toAccountNumber"),
      I64("amount"), Str("currency"), Enum("status", TransactionStatus),
      Str("description"), Str("certSerial"), Str("currentHash"),
      I64("createdAtUnix")>>

ListAdminAuditEventsRequest ==
    <<Enum("action", BankAuditAction), Str("userId"), Str("certSerial"),
      Str("requestId"), I64("fromUnix"), I64("toUnix"), I32("limit"),
      I32("offset"), Str("adminSessionToken")>>

ListAdminAuditEventsResponse ==
    <<Repeated(Msg("events")), I64("total"), I32("limit"), I32("offset")>>

VerifyAuditChainRequest ==
    <<Str("adminSessionToken")>>

VerifyAuditChainResponse ==
    <<Bool("ok"), I32("checked"), I64("brokenSeq"), Str("brokenId"),
      Str("detail")>>

AdminAuditEvent ==
    <<Str("eventId"), Enum("action", BankAuditAction), Str("userId"),
      Str("accountId"), Str("transactionId"), Str("certSerial"),
      Str("requestId"), Str("reason"), Str("metadataJson"), I64("createdAtUnix")>>

BankService ==
    [checkUserEmail |-> <<CheckUserEmailRequest, CheckUserEmailResponse>>,
     createUser |-> <<CreateUserRequest, CreateUserResponse>>,
     transferMoney |-> <<TransferRequest, TransferResponse>>,
     getBalance |-> <<BalanceRequest, BalanceResponse>>,
     getHistory |-> <<HistoryRequest, HistoryResponse>>,
     createAdminSession |-> <<CreateAdminSessionRequest, CreateAdminSessionResponse>>,
     getAdminOverview |-> <<AdminOverviewRequest, AdminOverviewResponse>>,
     listAdminUsers |-> <<ListAdminUsersRequest, ListAdminUsersResponse>>,
     listAdminUserAccounts |-> <<ListAdminUserAccountsRequest, ListAdminUserAccountsResponse>>,
     listAdminTransactions |-> <<ListAdminTransactionsRequest, ListAdminTransactionsResponse>>,
     listAdminAuditEvents |-> <<ListAdminAuditEventsRequest, ListAdminAuditEventsResponse>>,
     verifyAuditChain |-> <<VerifyAuditChainRequest, VerifyAuditChainResponse>>]

(* Every message of the file: those of the calls and those inside them. *)
Messages ==
    {BankService[rpc][i] : rpc \in DOMAIN BankService, i \in 1..2}
        \union {TransactionRecord,
                AdminUser,
                AdminAccount,
                AdminTransaction,
                AdminAuditEvent}
==========================================================================
