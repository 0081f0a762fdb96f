----------------------------- MODULE KdcProto -----------------------------
(***************************************************************************)
(* The messages and services of api-gateway/src/proto/kdc.ts, one          *)
(* descriptor per message: its fields in the order of their numbers, which *)
(* run from 1 without a gap in every message.  The generated encode,       *)
(* decode, fromJSON, toJSON and fromPartial of a message differ from those *)
(* of another only by this list; Wire.tla holds what they share.           *)
(***************************************************************************)
EXTENDS ProtoFields

ASRequest ==
    <<Str("ownerId"), Str("certSn"), Bytes("nonce"), I64("timestamp"),
      Bytes("signature")>>

ASResponse ==
    <<Bytes("asRep"), I64("tgtExpiresAtUnix")>>

TGSRequest ==
    <<Bytes("tgt"), Bytes("authenticator"), Str("scope"), Str("serviceId"),
      Str("certSn"), Bytes("nonce")>>

TGSResponse ==
    <<Bytes("tgsRep"), I64("ticketExpiresAtUnix"), Str("scope"),
      Str("serviceId")>>

ListAuditEventsRequest ==
    <<Str("action"), Str("clientId"), Str("certSerial"), Str("requestId"),
      I64("fromUnix"), I64("toUnix"), I32("limit"), I32("offset")>>

KdcAuditRecord ==
    <<Str("id"), Str("action"), Str("clientId"), Str("certSerial"),
      Str("scope"), Str("reason"), Str("requestId"), Str("ip"),
      Str("metadataJson"), I64("createdAtUnix")>>

ListAuditEventsResponse ==
    <<Repeated(Msg("events")), I32("total"), I32("limit"), I32("offset")>>

VerifyAuditChainRequest == << >>

VerifyAuditChainResponse ==
    <<Bool("ok"), I32("checked"), I64("brokenSeq"), Str("brokenId"),
      Str("detail")>>

TicketPayload ==
    <<Str("ownerId"), Str("certSn"), Bytes("sessionKey"), Str("scope"),
      Str("serviceId"), I64("issuedAtUnix"), I64("expiresAtUnix"),
      Str("keyVersion"), Str("ticketId")>>

KDCService ==
    [requestTgt |-> <<ASRequest, ASResponse>>,
     requestServiceTicket |-> <<TGSRequest, TGSResponse>>,
     listAuditEvents |-> <<ListAuditEventsRequest, ListAuditEventsResponse>>,
     verifyAuditChain |-> <<VerifyAuditChainRequest, VerifyAuditChainResponse>>]

(* Every message of the file: those of the calls and those inside them. *)
Messages ==
    {KDCService[rpc][i] : rpc \in DOMAIN KDCService, i \in 1..2}
        \union {KdcAuditRecord,
                TicketPayload}
===========================================================================
