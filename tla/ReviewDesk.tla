----------------------------- MODULE ReviewDesk -----------------------------
(***************************************************************************)
(* The status of a proposal and its history, under everyone who changes    *)
(* them: the staff's actions, the candidate's upload, the OCR and TOTVS    *)
(* jobs of the worker, the webhooks of Clicksign and of TOTVS.             *)
(*                                                                         *)
(* Every one of these handlers reads the proposal, checks that copy, and   *)
(* only some awaits later writes a status and a history entry, the entry's *)
(* "from" taken from the copy.  There is no lock and no condition on the   *)
(* write.  So a handler is here a read (one action per handler, with its   *)
(* guard) that leaves an open call, and the write that closes the call.    *)
(***************************************************************************)
EXTENDS Naturals, FiniteSets, Sequences, Cadastro

CONSTANTS
  Proposals,   (* proposals                                                *)
  Calls,       (* ids of handler calls (a bound)                           *)
  MaxOpen,     (* how many of them may overlap                             *)
  Earlier      (* proposals whose CPF TOTVS has as a member beforehand     *)

ASSUME OpenAssumption    == MaxOpen \in Nat
ASSUME EarlierAssumption == Earlier \subseteq Proposals

VARIABLES
  status,      (* Proposal.status                                          *)
  log,         (* StatusHistory, oldest entry first                        *)
  calls,       (* handlers between their read and their write              *)
  used,        (* calls made so far (bounds the model)                     *)
  sent,        (* proposals for which a signature was ever asked           *)
  registered   (* proposals on whose person TOTVS may report: those of a   *)
               (* member beforehand, or that the TOTVS job has taken up    *)

deskVars == <<status, log, calls, used, sent, registered>>

Handler ==
  { "startReview", "requestChanges", "reject", "bulkStatus", "approve", "assign",
    "resend", "autoAssign", "upload", "ocr", "clicksign", "totvs" }

(* seen: the copy, per proposal the call is about.  to: the status it will *)
(* write, "SAME" for a note that leaves the status alone.                  *)
Call ==
  [ id : Calls, by : Handler, to : ProposalStatus \cup {"SAME"},
    seen : UNION { [ps -> ProposalStatus] : ps \in SUBSET Proposals } ]

Entry == [from : ProposalStatus \cup {"NONE"}, to : ProposalStatus]

DeskTypeOK ==
  /\ status \in [Proposals -> ProposalStatus]
  /\ log \in [Proposals -> Seq(Entry)]
  /\ calls \subseteq Call
  /\ used \subseteq Calls
  /\ sent \subseteq Proposals
  /\ registered \subseteq Proposals

(* PublicService.submitProposal *)
DeskInit ==
  /\ status = [p \in Proposals |-> "SUBMITTED"]
  /\ log = [p \in Proposals |-> <<[from |-> "NONE", to |-> "SUBMITTED"]>>]
  /\ calls = {}
  /\ used = {}
  /\ sent = {}
  /\ registered = Earlier

-----------------------------------------------------------------------------
(* Mutant: a resend takes the proposal for one that waits for a signature. *)
OpensAssuming(c, by, ps, to) ==
  /\ c \in Calls \ used
  /\ Cardinality(calls) < MaxOpen
  /\ used' = used \cup {c}
  /\ calls' = calls \cup
       {[ id |-> c, by |-> by, to |-> to,
          seen |-> [p \in ps |-> IF by = "resend" THEN "PENDING_SIGNATURE" ELSE status[p]] ]}
  /\ UNCHANGED <<status, log>>

(* The read: the call goes off with a copy of the statuses of ps. *)
Opens(c, by, ps, to) ==
  /\ c \in Calls \ used
  /\ Cardinality(calls) < MaxOpen
  /\ used' = used \cup {c}
  /\ calls' = calls \cup
       {[id |-> c, by |-> by, to |-> to, seen |-> [p \in ps |-> status[p]]]}
  /\ UNCHANGED <<status, log>>

(* AdminProposalsService *)

StartReview(c, p) ==
  /\ status[p] \in {"SUBMITTED", "PENDING_DOCS"}
  /\ Opens(c, "startReview", {p}, "UNDER_REVIEW")
  /\ UNCHANGED <<sent, registered>>

RequestChanges(c, p) ==
  /\ Opens(c, "requestChanges", {p}, "PENDING_DOCS")
  /\ UNCHANGED <<sent, registered>>

Reject(c, p) ==
  /\ Opens(c, "reject", {p}, "REJECTED")
  /\ UNCHANGED <<sent, registered>>

(* All of ps is written in one transaction. *)
BulkSetStatus(c, ps, to) ==
  /\ to \in BulkStatus
  /\ Opens(c, "bulkStatus", ps, to)
  /\ UNCHANGED <<sent, registered>>

(* assign, and bulkAssign in one transaction. *)
Assign(c, ps) ==
  /\ Opens(c, "assign", ps, "SAME")
  /\ UNCHANGED <<sent, registered>>

(* requestSignature queues the contract before it writes the status. *)
Approve(c, p) ==
  /\ status[p] \in SignableStatus
  /\ Opens(c, "approve", {p}, "PENDING_SIGNATURE")
  /\ sent' = sent \cup {p}
  /\ UNCHANGED registered

(* No status is required of the proposal. *)
ResendSignatureLink(c, p) ==
  /\ Opens(c, "resend", {p}, "SAME")
  /\ sent' = sent \cup {p}
  /\ UNCHANGED registered

(* ProposalTriageService.autoAssignAnalysts, one proposal of its loop: the *)
(* entry says SUBMITTED because the query asked for that.                  *)
AutoAssign(c, p) ==
  /\ status[p] = "SUBMITTED"
  /\ Opens(c, "autoAssign", {p}, "SAME")
  /\ UNCHANGED <<sent, registered>>

(* PublicUploadsService.createDocument *)
UploadDocument(c, p) ==
  /\ status[p] = "PENDING_DOCS"
  /\ Opens(c, "upload", {p}, "UNDER_REVIEW")
  /\ UNCHANGED <<sent, registered>>

(* OcrWorker.handleJob reads document and proposal at its start, and after *)
(* the recognition calls flagMismatch with that copy of the status.        *)
OcrMismatch(c, p) ==
  /\ status[p] \in SignableStatus
  /\ Opens(c, "ocr", {p}, "PENDING_DOCS")
  /\ UNCHANGED <<sent, registered>>

(* ClicksignWebhookService.handleWebhook, for an event that decides. *)
ClicksignEvent(c, p, type) ==
  /\ p \in sent
  /\ DecidesProposal(type)
  /\ Opens(c, "clicksign", {p}, ProposalStatusOf(type))
  /\ UNCHANGED <<sent, registered>>

(* TotvsWorker.handleJob, for a proposal not yet APPROVED. *)
TotvsRegisters(c, p) ==
  /\ status[p] \in SyncableStatus \ {"APPROVED"}
  /\ Opens(c, "totvs", {p}, "APPROVED")
  /\ registered' = registered \cup {p}
  /\ UNCHANGED sent

(* Mutant: the TOTVS job writes the status and no entry. *)
ClosesUntold(k) ==
  /\ calls' = calls \ {k}
  /\ status' = [p \in Proposals |->
       IF p \in DOMAIN k.seen /\ k.to # "SAME" THEN k.to ELSE status[p]]
  /\ log' = [p \in Proposals |->
       IF p \in DOMAIN k.seen /\ k.by # "totvs"
       THEN Append(log[p], [ from |-> k.seen[p],
                             to |-> IF k.to = "SAME" THEN k.seen[p] ELSE k.to ])
       ELSE log[p]]
  /\ UNCHANGED <<used, sent, registered>>

(* The write: prisma.proposal.update with a nested statusHistory.create.   *)
Closes(k) ==
  /\ calls' = calls \ {k}
  /\ status' = [p \in Proposals |->
       IF p \in DOMAIN k.seen /\ k.to # "SAME" THEN k.to ELSE status[p]]
  /\ log' = [p \in Proposals |->
       IF p \in DOMAIN k.seen
       THEN Append(log[p], [ from |-> k.seen[p],
                             to |-> IF k.to = "SAME" THEN k.seen[p] ELSE k.to ])
       ELSE log[p]]
  /\ UNCHANGED <<used, sent, registered>>

(* An await in between throws, or the process ends. *)
Stops(k) ==
  /\ calls' = calls \ {k}
  /\ UNCHANGED <<status, log, used, sent, registered>>

(* TotvsWebhookService.handle finds the proposal by the id or by the CPF,  *)
(* and writes without reading the status.                                  *)
TotvsReports(c, p, to) ==
  /\ c \in Calls \ used
  /\ p \in registered
  /\ Cardinality(calls) < MaxOpen
  /\ used' = used \cup {c}
  /\ status' = [status EXCEPT ![p] = to]
  /\ log' = [log EXCEPT ![p] = Append(@, [from |-> "NONE", to |-> to])]
  /\ UNCHANGED <<calls, sent, registered>>

-----------------------------------------------------------------------------
Staff ==
  \E c \in Calls :
    \/ \E p \in Proposals :
         \/ StartReview(c, p) \/ RequestChanges(c, p) \/ Reject(c, p)
         \/ Approve(c, p) \/ ResendSignatureLink(c, p)
    \/ \E ps \in SUBSET Proposals \ {{}} :
         Assign(c, ps) \/ \E to \in BulkStatus : BulkSetStatus(c, ps, to)

Others ==
  \E c \in Calls, p \in Proposals :
    \/ AutoAssign(c, p) \/ UploadDocument(c, p) \/ OcrMismatch(c, p) \/ TotvsRegisters(c, p)
    \/ \E type \in EventType : ClicksignEvent(c, p, type)
    \/ \E to \in {"APPROVED", "CANCELED"} : TotvsReports(c, p, to)

DeskNext == Staff \/ Others \/ \E k \in calls : Closes(k) \/ Stops(k)

DeskSpec == DeskInit /\ [][DeskNext]_deskVars

-----------------------------------------------------------------------------
(* The history keeps its promises however the handlers overlap: a copy may *)
(* be stale, but it is of a status that the proposal had and the history   *)
(* tells of.                                                               *)
AsTimeline == INSTANCE Timeline
IsTimeline == AsTimeline!Spec

(* What that rests on: a status is told of by the time it is there, and a  *)
(* copy that a call works from stays told of, because no entry is ever     *)
(* taken out.                                                              *)
StatusIsTold == \A p \in Proposals : status[p] \in AsTimeline!Past(log[p])

CopiesAreTold ==
  \A k \in calls : \A p \in DOMAIN k.seen : k.seen[p] \in AsTimeline!Past(log[p])

DeskInv == DeskTypeOK /\ StatusIsTold /\ CopiesAreTold

(* docs/architecture.md:172, "UNDER_REVIEW -> PENDING_DOCS (pendencias)":  *)
(* the OCR job opens a pendency only in a proposal under analysis, which   *)
(* is what flagMismatch checks.  Not kept: what it checks is a copy.       *)
OcrFlagsInReview ==
  [][\A k \in calls \ calls' : \A p \in DOMAIN k.seen :
       k.by = "ocr" /\ log' # log => status[p] \in SignableStatus \cup {"PENDING_DOCS"}]_deskVars

=============================================================================
