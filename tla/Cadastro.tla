------------------------------ MODULE Cadastro ------------------------------
(***************************************************************************)
(* Vocabulary shared by the modules of this project: the enums of          *)
(* apps/api/prisma/schema.prisma and the small tables of the code that say *)
(* which status leads to which.  Nothing here has state.                   *)
(***************************************************************************)

(* enum ProposalStatus.  DRAFT and IN_PROGRESS are declared by the schema  *)
(* but no code ever writes them: a proposal is born SUBMITTED.             *)
ProposalStatus ==
  { "DRAFT", "IN_PROGRESS", "SUBMITTED", "UNDER_REVIEW", "PENDING_DOCS",
    "PENDING_SIGNATURE", "SIGNED", "APPROVED", "REJECTED", "CANCELED" }

(* enum SignatureStatus. *)
SignatureStatus == { "CREATED", "SENT", "SIGNED", "EXPIRED", "CANCELED" }

(* enum TotvsSyncStatus. *)
TotvsSyncStatus == { "PENDING", "SYNCED", "FAILED" }

(* The application/pdf files of a proposal: the contract to be signed, and *)
(* every other one (its signed copy, the certificate, the trail of the     *)
(* signature, the dossier, a file of the candidate).                       *)
PdfKind == { "CONTRATO_GERADO", "OTHER" }

(* The statuses from which signature.service.ts lets a signature be asked. *)
SignableStatus == { "SUBMITTED", "UNDER_REVIEW" }

(* allowedStatuses of bulkStatus.                                          *)
BulkStatus == { "UNDER_REVIEW", "PENDING_DOCS", "REJECTED", "CANCELED" }

(* Mutant: only what is approved is registered. *)
OnlyApproved == { "APPROVED" }

(* The statuses in which the TOTVS worker registers a member.              *)
SyncableStatus == { "SIGNED", "APPROVED" }

-----------------------------------------------------------------------------
(* Clicksign event types, one per class that mapEventToUpdates tells apart *)
(* ("close" and "document_closed" are of one class: Clicksign sends both). *)

SignedTypes == { "close", "document_closed" }
RefusedTypes == { "refusal", "cancel" }
ExpiredTypes == { "deadline" }
ProgressTypes == { "sign" }

EventType == SignedTypes \cup RefusedTypes \cup ExpiredTypes \cup ProgressTypes

(* updates.signatureStatus of mapEventToUpdates. *)
SignatureStatusOf(type) ==
  CASE type \in SignedTypes   -> "SIGNED"
    [] type \in RefusedTypes  -> "CANCELED"
    [] type \in ExpiredTypes  -> "EXPIRED"
    [] type \in ProgressTypes -> "SENT"

(* The events for which mapEventToUpdates has a proposalStatus, and it.    *)
DecidesProposal(type) == type \notin ProgressTypes

ProposalStatusOf(type) == IF type \in SignedTypes THEN "SIGNED" ELSE "REJECTED"

=============================================================================
