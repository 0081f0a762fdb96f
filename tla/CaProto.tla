----------------------------- MODULE CaProto -----------------------------
(***************************************************************************)
(* The messages and services of api-gateway/src/proto/ca.ts, one           *)
(* descriptor per message: its fields in the order of their numbers, which *)
(* run from 1 without a gap in every message.  The generated encode,       *)
(* decode, fromJSON, toJSON and fromPartial of a message differ from those *)
(* of another only by this list; Wire.tla holds what they share.           *)
(***************************************************************************)
EXTENDS ProtoFields

CertStatus ==
    <<"CERT_STATUS_UNKNOWN",
      "CERT_STATUS_ACTIVE",
      "CERT_STATUS_REVOKED",
      "CERT_STATUS_EXPIRED">>

IdentityRole ==
    <<"IDENTITY_ROLE_UNKNOWN",
      "IDENTITY_ROLE_CUSTOMER",
      "IDENTITY_ROLE_BANK_ADMIN",
      "IDENTITY_ROLE_CA_ADMIN">>

CertificateMetadata ==
    <<Str("serialNumber"), Str("ownerId"), Str("subjectCn"),
      Str("subjectEmail"), Str("fingerprintSha256"), Enum("status", CertStatus),
      I64("notBeforeUnix"), I64("notAfterUnix"), I64("issuedAtUnix"),
      I64("revokedAtUnix"), Str("revocationReason"), Str("certType"),
      Str("issuerId"), Str("issuerCommonName"), Str("issuerSerialNumber"),
      Str("chainPem"), Repeated(Str("chainFingerprints")), Bool("isCa"),
      Repeated(Str("keyUsage")), Repeated(Str("extendedKeyUsage"))>>

RegisterUserRequest ==
    <<Str("csrPem"), Str("ownerId"), Str("subjectEmail"), Str("fullName"),
      Enum("role", IdentityRole)>>

RegisterUserResponse ==
    <<Str("certificatePem"), Str("serialNumber"), I64("notBeforeUnix"),
      I64("notAfterUnix"), Str("fingerprintSha256"), Str("certType"),
      Str("issuerId"), Str("issuerCommonName"), Str("issuerSerialNumber"),
      Str("chainPem"), Repeated(Str("chainFingerprints"))>>

VerifyCertificateRequest ==
    <<Str("serialNumber"), Str("caller"), Bool("includeCertificatePem"),
      Bool("includePublicKeyPem")>>

VerifyCertificateResponse ==
    <<Enum("status", CertStatus), Str("ownerId"), Str("subjectEmail"),
      Str("certificatePem"), Str("publicKeyPem"), Str("fingerprintSha256"),
      I64("notBeforeUnix"), I64("notAfterUnix"), I64("revokedAtUnix"),
      Str("revocationReason"), Str("certType"), Str("issuerId"),
      Str("issuerCommonName"), Str("issuerSerialNumber"), Str("chainPem"),
      Repeated(Str("chainFingerprints")), Enum("role", IdentityRole)>>

GetCertificateRequest ==
    <<Str("serialNumber")>>

GetCertificateResponse ==
    <<Str("certificatePem"), Str("ownerId"), Enum("status", CertStatus),
      I64("notAfterUnix"), Str("publicKeyPem")>>

CheckRevocationRequest ==
    <<Str("serialNumber")>>

CheckRevocationResponse ==
    <<Enum("status", CertStatus), Str("reason"), I64("revokedAt")>>

ListCertificatesRequest ==
    <<Str("status"), Str("ownerId"), Str("subjectEmail"), Str("serialNumber"),
      I32("limit"), I32("offset"), Str("performedBy"), Str("certType"),
      Str("issuerId")>>

ListCertificatesResponse ==
    <<Repeated(Msg("certificates")), I32("total"), I32("limit"), I32("offset")>>

GetCertificateDetailRequest ==
    <<Str("serialNumber"), Str("performedBy")>>

GetCertificateDetailResponse ==
    <<Msg("certificate")>>

RevokeCertificateRequest ==
    <<Str("serialNumber"), Str("reason"), Str("performedBy")>>

RevokeCertificateResponse ==
    <<Msg("certificate")>>

ListAuditEventsRequest ==
    <<Str("action"), Str("serialNumber"), Str("performedByFilter"),
      I64("fromUnix"), I64("toUnix"), I32("limit"), I32("offset"),
      Str("performedBy"), Str("requestId")>>

AuditEventRecord ==
    <<Str("serialNumber"), Str("action"), Str("performedBy"), Str("reason"),
      I64("performedAtUnix"), MapOf("metadata"), Str("certType"),
      Str("issuerId")>>

AuditEventRecord_MetadataEntry ==
    <<Str("key"), Str("value")>>

ListAuditEventsResponse ==
    <<Repeated(Msg("events")), I32("total"), I32("limit"), I32("offset")>>

AppendAuditEventRequest ==
    <<Str("action"), Str("serialNumber"), Str("performedBy"), Str("reason"),
      MapOf("metadata")>>

AppendAuditEventRequest_MetadataEntry ==
    <<Str("key"), Str("value")>>

AppendAuditEventResponse ==
    <<Bool("recorded")>>

VerifyAuditChainRequest == << >>

VerifyAuditChainResponse ==
    <<Bool("ok"), I32("checked"), I64("brokenSeq"), Str("brokenId"),
      Str("detail")>>

CAService ==
    [registerUser |-> <<RegisterUserRequest, RegisterUserResponse>>,
     verifyCertificate |-> <<VerifyCertificateRequest, VerifyCertificateResponse>>,
     getCertificate |-> <<GetCertificateRequest, GetCertificateResponse>>,
     checkRevocation |-> <<CheckRevocationRequest, CheckRevocationResponse>>,
     listCertificates |-> <<ListCertificatesRequest, ListCertificatesResponse>>,
     getCertificateDetail |-> <<GetCertificateDetailRequest, GetCertificateDetailResponse>>,
     revokeCertificate |-> <<RevokeCertificateRequest, RevokeCertificateResponse>>,
     listAuditEvents |-> <<ListAuditEventsRequest, ListAuditEventsResponse>>,
     appendAuditEvent |-> <<AppendAuditEventRequest, AppendAuditEventResponse>>,
     verifyAuditChain |-> <<VerifyAuditChainRequest, VerifyAuditChainResponse>>]

(* Every message of the file: those of the calls and those inside them. *)
Messages ==
    {CAService[rpc][i] : rpc \in DOMAIN CAService, i \in 1..2}
        \union {CertificateMetadata,
                AuditEventRecord,
                AuditEventRecord_MetadataEntry,
                AppendAuditEventRequest_MetadataEntry}
==========================================================================
