------------------------------ MODULE Signature ------------------------------
(***************************************************************************)
(* The electronic signature of a proposal, from the approval by the staff  *)
(* to the provider's callback:                                             *)
(*                                                                         *)
(*   approve -> pdf.generate -> signature.create -> Clicksign -> webhook   *)
(*   resend  -> signature.cancel + signature.create                        *)
(*                                                                         *)
(* Three programs act on one database: the API (approve, resend and the    *)
(* webhook), the worker (the BullMQ jobs) and the provider.  No handler    *)
(* uses a transaction or a lock, so each is split at the awaits between    *)
(* two effects and its steps interleave with those of the others.  Reads   *)
(* that follow one another with no effect between them are one step.       *)
(***************************************************************************)
EXTENDS Naturals, Cadastro

CONSTANTS
  Proposals,    (* proposals                                               *)
  Envelopes,    (* envelope ids Clicksign may hand out                     *)
  Owner,        (* the proposal an envelope id, once handed out, is for    *)
  NoEnvelope,   (* "no envelope" (undefined in the code)                   *)
  JobIds,       (* ids of jobs of the signature-jobs queue (a bound)       *)
  Callers,      (* API requests the staff makes (a bound)                  *)
  Deliveries,   (* webhook requests in flight (a bound)                    *)
  MaxAttempts,  (* "attempts" of every signature job: 3 in the code        *)
  MaxFaults,    (* bound on requests and attempts that stop half way       *)
  CloseTypes,   (* what Clicksign sends when an envelope is closed         *)
  CancelEchoes, (* whether a cancellation by API is reported by webhook    *)
  StaffStatus   (* statuses other components may write meanwhile           *)

ASSUME OwnerAssumption    == Owner \in [Envelopes -> Proposals]
ASSUME EnvelopeAssumption == NoEnvelope \notin Envelopes
ASSUME IdAssumption       == JobIds \subseteq Nat
ASSUME AttemptsAssumption == MaxAttempts \in Nat \ {0}
ASSUME FaultsAssumption   == MaxFaults \in Nat
ASSUME CloseAssumption    == CloseTypes \subseteq SignedTypes \cup ProgressTypes
ASSUME EchoAssumption     == CancelEchoes \in BOOLEAN
ASSUME StaffAssumption    == StaffStatus \subseteq ProposalStatus \ {"PENDING_SIGNATURE", "SIGNED"}

VARIABLES
  status,    (* Proposal.status                                            *)
  lastPdf,   (* kind of the newest application/pdf DocumentFile            *)
  row,       (* SignatureEnvelope.status per envelope, "NONE" if no row    *)
  rowDoc,    (* what the envelope's document is                            *)
  latest,    (* newest SignatureEnvelope of a proposal                     *)
  audited,   (* events with a CLICKSIGN_WEBHOOK row in AuditLog            *)
  jobs,      (* the signature-jobs queue                                   *)
  asked,     (* API requests made so far (bounds the model)                *)
  calls,     (* those in flight                                            *)
  hooks,     (* webhook requests in flight                                 *)
  prov,      (* Clicksign's own state of an envelope                       *)
  emitted,   (* events Clicksign delivers, each any number of times        *)
  outcome,   (* history variable: what an event has led to so far          *)
  faults     (* requests and attempts that have stopped half way           *)

database == <<status, lastPdf, row, rowDoc, latest, audited>>
provider == <<prov, emitted>>
bounds == <<asked, faults>>
vars == <<status, lastPdf, row, rowDoc, latest, audited, jobs, asked, calls,
          hooks, prov, emitted, outcome, faults>>

Event == [env : Envelopes, type : EventType]

ProviderState ==
  {"none", "draft", "running", "closed", "canceled", "expired"}

Job ==
  [ id : JobIds, kind : {"pdf", "sign", "cancel"}, p : Proposals,
    env : Envelopes \cup {NoEnvelope}, doc : PdfKind \cup {"NONE"},
    step : {"store", "enqueue", "finish",              \* pdf.generate
            "create", "run", "record", "notify",       \* signature.create
            "cancel", "mark",                          \* signature.cancel
            "dead"},                                   \* attempts exhausted
    tries : 0 .. MaxAttempts ]

Call ==
  [ id : Callers, p : Proposals, env : Envelopes \cup {NoEnvelope},
    step : {"enqueuePdf", "writeStatus",                       \* approve
            "cancelRow", "enqueueCancel", "enqueueSign"} ]     \* resend

Hook ==
  [ id : Deliveries, ev : Event,
    step : {"find", "envelope", "proposal", "store", "enqueue", "audit"} ]

Outcome == {"none", "missed", "once", "again"}

TypeOK ==
  /\ status \in [Proposals -> ProposalStatus]
  /\ lastPdf \in [Proposals -> PdfKind \cup {"NONE"}]
  /\ row \in [Envelopes -> SignatureStatus \cup {"NONE"}]
  /\ rowDoc \in [Envelopes -> PdfKind \cup {"NONE"}]
  /\ latest \in [Proposals -> Envelopes \cup {NoEnvelope}]
  /\ audited \subseteq Event
  /\ jobs \subseteq Job
  /\ asked \subseteq Callers
  /\ calls \subseteq Call
  /\ hooks \subseteq Hook
  /\ prov \in [Envelopes -> ProviderState]
  /\ emitted \subseteq Event
  /\ outcome \in [Event -> Outcome]
  /\ faults \in 0 .. MaxFaults

Init ==
  /\ status = [p \in Proposals |-> "SUBMITTED"]
  /\ lastPdf = [p \in Proposals |-> "NONE"]
  /\ row = [e \in Envelopes |-> "NONE"]
  /\ rowDoc = [e \in Envelopes |-> "NONE"]
  /\ latest = [p \in Proposals |-> NoEnvelope]
  /\ audited = {}
  /\ jobs = {}
  /\ asked = {}
  /\ calls = {}
  /\ hooks = {}
  /\ prov = [e \in Envelopes |-> "none"]
  /\ emitted = {}
  /\ outcome = [ev \in Event |-> "none"]
  /\ faults = 0

-----------------------------------------------------------------------------
(* Queue and request bookkeeping. *)

Used(recs) == { r.id : r \in recs }

(* The least unused id, so that ids carry no information of their own.     *)
IsFreshJob(i) ==
  /\ i \in JobIds \ Used(jobs)
  /\ \A k \in JobIds : k < i => k \in Used(jobs)

(* The branch of handleJob that takes a job of the kind. *)
FirstStep == [pdf |-> "store", sign |-> "create", cancel |-> "cancel"]

NewJob(i, kind, p, env, doc) ==
  [ id |-> i, kind |-> kind, p |-> p, env |-> env, doc |-> doc,
    step |-> FirstStep[kind], tries |-> 0 ]

(* Removing or moving one record of a set of records. *)
Without(recs, r) == recs \ {r}
Moved(recs, r, to) == Without(recs, r) \cup {[r EXCEPT !.step = to]}

At(kind, step) == { j \in jobs : j.kind = kind /\ j.step = step }

-----------------------------------------------------------------------------
(* SignatureService.requestSignature, called by approve.                   *)

(* The guard: the status is read here and never looked at again.           *)
ApproveRead(c, p) ==
  /\ c \notin asked
  /\ asked' = asked \cup {c}
  /\ status[p] \in SignableStatus
  /\ calls' = calls \cup {[id |-> c, p |-> p, env |-> NoEnvelope, step |-> "enqueuePdf"]}
  /\ UNCHANGED <<database, jobs, hooks, provider, outcome, faults>>

ApproveEnqueue(c, i) ==
  /\ c.step = "enqueuePdf"
  /\ IsFreshJob(i)
  /\ jobs' = jobs \cup {NewJob(i, "pdf", c.p, NoEnvelope, "NONE")}
  /\ calls' = Moved(calls, c, "writeStatus")
  /\ UNCHANGED <<database, hooks, provider, outcome, bounds>>

ApproveWrite(c) ==
  /\ c.step = "writeStatus"
  /\ status' = [status EXCEPT ![c.p] = "PENDING_SIGNATURE"]
  /\ calls' = Without(calls, c)
  /\ UNCHANGED <<lastPdf, row, rowDoc, latest, audited, jobs, hooks, provider,
                 outcome, bounds>>

-----------------------------------------------------------------------------
(* AdminProposalsService.resendSignatureLink.  No status is required of    *)
(* the proposal.                                                           *)

ResendRead(c, p) ==
  /\ c \notin asked
  /\ asked' = asked \cup {c}
  /\ calls' = calls \cup
       {[id |-> c, p |-> p, env |-> latest[p],
         step |-> IF latest[p] = NoEnvelope THEN "enqueueSign" ELSE "cancelRow"]}
  /\ UNCHANGED <<database, jobs, hooks, provider, outcome, faults>>

(* The envelope's row is CANCELED whatever it was. *)
ResendCancelRow(c) ==
  /\ c.step = "cancelRow"
  /\ row' = [row EXCEPT ![c.env] = "CANCELED"]
  /\ calls' = Moved(calls, c, "enqueueCancel")
  /\ UNCHANGED <<status, lastPdf, rowDoc, latest, audited, jobs, hooks, provider,
                 outcome, bounds>>

ResendEnqueueCancel(c, i) ==
  /\ c.step = "enqueueCancel"
  /\ IsFreshJob(i)
  /\ jobs' = jobs \cup {NewJob(i, "cancel", c.p, c.env, "NONE")}
  /\ calls' = Moved(calls, c, "enqueueSign")
  /\ UNCHANGED <<database, hooks, provider, outcome, bounds>>

(* The newest PDF of whatever kind is sent to be signed. *)
ResendEnqueueSign(c, i) ==
  /\ c.step = "enqueueSign"
  /\ lastPdf[c.p] # "NONE"
  /\ IsFreshJob(i)
  /\ jobs' = jobs \cup {NewJob(i, "sign", c.p, NoEnvelope, lastPdf[c.p])}
  /\ calls' = Without(calls, c)
  /\ UNCHANGED <<database, hooks, provider, outcome, bounds>>

(* 'Contrato PDF nao encontrado': by now the old envelope is canceled.     *)
ResendWithoutPdf(c) ==
  /\ c.step = "enqueueSign"
  /\ lastPdf[c.p] = "NONE"
  /\ calls' = Without(calls, c)
  /\ UNCHANGED <<database, jobs, hooks, provider, outcome, bounds>>

(* A request of the staff that stops at an await: an exception (database,  *)
(* Redis, KMS) or the end of the process.                                  *)
CallStops(c) ==
  /\ faults < MaxFaults
  /\ faults' = faults + 1
  /\ calls' = Without(calls, c)
  /\ UNCHANGED <<database, jobs, hooks, provider, outcome, asked>>

-----------------------------------------------------------------------------
(* BullMQ: an attempt that throws, or whose worker dies, is tried again    *)
(* from the first line, "attempts" times in all; then the job stays in the *)
(* failed set.                                                             *)
NextAttempt(j) ==
  [ id |-> j.id, kind |-> j.kind, p |-> j.p, doc |-> j.doc, tries |-> j.tries + 1,
    env |-> IF j.kind = "cancel" THEN j.env ELSE NoEnvelope,
    step |-> IF j.tries + 1 < MaxAttempts THEN FirstStep[j.kind] ELSE "dead" ]

Retries(j) ==
  /\ j.step # "dead"
  /\ jobs' = Without(jobs, j) \cup {NextAttempt(j)}
  /\ UNCHANGED <<database, calls, hooks, provider, outcome, asked>>

JobFails(j) ==
  /\ faults < MaxFaults
  /\ faults' = faults + 1
  /\ Retries(j)

-----------------------------------------------------------------------------
(* SignatureWorker.handlePdfJob *)

PdfStore(j) ==
  /\ j.step = "store"
  /\ lastPdf' = [lastPdf EXCEPT ![j.p] = "CONTRATO_GERADO"]
  /\ jobs' = Moved(jobs, j, "enqueue")
  /\ UNCHANGED <<status, row, rowDoc, latest, audited, calls, hooks, provider,
                 outcome, bounds>>

(* Mutant: an attempt that is not the first takes the signature job for    *)
(* queued.                                                                 *)
PdfEnqueueOnce(j, i) ==
  /\ j.step = "enqueue"
  /\ IsFreshJob(i)
  /\ jobs' = Moved(jobs, j, "finish") \cup
       (IF j.tries = 0 THEN {NewJob(i, "sign", j.p, NoEnvelope, "CONTRATO_GERADO")} ELSE {})
  /\ UNCHANGED <<database, calls, hooks, provider, outcome, bounds>>

PdfEnqueue(j, i) ==
  /\ j.step = "enqueue"
  /\ IsFreshJob(i)
  /\ jobs' = Moved(jobs, j, "finish")
               \cup {NewJob(i, "sign", j.p, NoEnvelope, "CONTRATO_GERADO")}
  /\ UNCHANGED <<database, calls, hooks, provider, outcome, bounds>>

PdfFinish(j) ==
  /\ j.step = "finish"
  /\ jobs' = Without(jobs, j)
  /\ UNCHANGED <<database, calls, hooks, provider, outcome, bounds>>

-----------------------------------------------------------------------------
(* SignatureWorker.handleSignatureJob: neither the status of the proposal  *)
(* nor an envelope left by an earlier attempt is looked at.                *)

(* Mutant: an envelope left by an earlier attempt is taken up again,       *)
(* whatever has become of it.                                              *)
SignCreateReusing(j, e) ==
  /\ j.step = "create"
  /\ Owner[e] = j.p
  /\ prov' = [prov EXCEPT ![e] = "draft"]
  /\ jobs' = Without(jobs, j) \cup {[j EXCEPT !.step = "run", !.env = e]}
  /\ UNCHANGED <<database, calls, hooks, emitted, outcome, bounds>>

SignCreate(j, e) ==
  /\ j.step = "create"
  /\ prov[e] = "none"
  /\ Owner[e] = j.p
  /\ prov' = [prov EXCEPT ![e] = "draft"]
  /\ jobs' = Without(jobs, j) \cup {[j EXCEPT !.step = "run", !.env = e]}
  /\ UNCHANGED <<database, calls, hooks, emitted, outcome, bounds>>

(* createEnvelope throws; here, once the ids it hands out are used up.     *)
SignCreateFails(j) ==
  /\ j.step = "create"
  /\ \A e \in Envelopes : Owner[e] = j.p => prov[e] # "none"
  /\ Retries(j)
  /\ UNCHANGED faults

(* Document, signers and requirements, then updateEnvelope(.., 'running'). *)
SignRun(j) ==
  /\ j.step = "run"
  /\ prov' = [prov EXCEPT ![j.env] = "running"]
  /\ jobs' = Moved(jobs, j, "record")
  /\ UNCHANGED <<database, calls, hooks, emitted, outcome, bounds>>

(* notifyEnvelope and getSigner, then signatureEnvelope.create as SENT.    *)
SignRecord(j) ==
  /\ j.step = "record"
  /\ row' = [row EXCEPT ![j.env] = "SENT"]
  /\ rowDoc' = [rowDoc EXCEPT ![j.env] = j.doc]
  /\ latest' = [latest EXCEPT ![j.p] = j.env]
  /\ jobs' = Moved(jobs, j, "notify")
  /\ UNCHANGED <<status, lastPdf, audited, calls, hooks, provider, outcome, bounds>>

(* The notifications to the candidate; the job is then complete.           *)
SignNotify(j) ==
  /\ j.step = "notify"
  /\ jobs' = Without(jobs, j)
  /\ UNCHANGED <<database, calls, hooks, provider, outcome, bounds>>

-----------------------------------------------------------------------------
(* SignatureWorker.handleCancelJob *)

CancelAtProvider(j) ==
  /\ j.step = "cancel"
  /\ prov[j.env] = "running"
  /\ prov' = [prov EXCEPT ![j.env] = "canceled"]
  /\ emitted' = IF CancelEchoes
                THEN emitted \cup {[env |-> j.env, type |-> "cancel"]}
                ELSE emitted
  /\ jobs' = Moved(jobs, j, "mark")
  /\ UNCHANGED <<database, calls, hooks, outcome, bounds>>

CancelMark(j) ==
  /\ j.step = "mark"
  /\ row' = [row EXCEPT ![j.env] = "CANCELED"]
  /\ jobs' = Without(jobs, j)
  /\ UNCHANGED <<status, lastPdf, rowDoc, latest, audited, calls, hooks, provider,
                 outcome, bounds>>

(* Any exception is caught and logged: the job counts as done.             *)
CancelGivesUp(j) ==
  /\ j.step \in {"cancel", "mark"}
  /\ jobs' = Without(jobs, j)
  /\ UNCHANGED <<database, calls, hooks, provider, outcome, bounds>>

-----------------------------------------------------------------------------
(* ClicksignWebhookService.handleWebhook *)

(* The lookup of the event id.  A duplicate is answered at once, with no   *)
(* effect: that delivery is a stuttering step.                             *)
HookCheck(d, ev) ==
  /\ d \notin Used(hooks)
  /\ ev \in emitted \ audited
  /\ hooks' = hooks \cup {[id |-> d, ev |-> ev, step |-> "find"]}
  /\ UNCHANGED <<database, jobs, calls, provider, outcome, bounds>>

HookFind(h) ==
  /\ h.step = "find"
  /\ row[h.ev.env] # "NONE"
  /\ hooks' = Moved(hooks, h, "envelope")
  /\ UNCHANGED <<database, jobs, calls, provider, outcome, bounds>>

(* No row: the event is put on record as 'envelope not found'.             *)
HookNotFound(h) ==
  /\ h.step = "find"
  /\ row[h.ev.env] = "NONE"
  /\ audited' = audited \cup {h.ev}
  /\ outcome' = [outcome EXCEPT ![h.ev] = IF @ = "none" THEN "missed" ELSE @]
  /\ hooks' = Without(hooks, h)
  /\ UNCHANGED <<status, lastPdf, row, rowDoc, latest, jobs, calls, provider, bounds>>

HookEnvelope(h) ==
  /\ h.step = "envelope"
  /\ row' = [row EXCEPT ![h.ev.env] = SignatureStatusOf(h.ev.type)]
  /\ hooks' = Moved(hooks, h, IF DecidesProposal(h.ev.type) THEN "proposal" ELSE "audit")
  /\ UNCHANGED <<status, lastPdf, rowDoc, latest, audited, jobs, calls, provider,
                 outcome, bounds>>

(* Mutant: the event goes on record before handleSignedEnvelope.           *)
HookProposalToAudit(h) ==
  /\ h.step = "proposal"
  /\ status' = [status EXCEPT ![Owner[h.ev.env]] = ProposalStatusOf(h.ev.type)]
  /\ hooks' = Moved(hooks, h, "audit")
  /\ UNCHANGED <<lastPdf, row, rowDoc, latest, audited, jobs, calls, provider,
                 outcome, bounds>>

HookProposal(h) ==
  /\ h.step = "proposal"
  /\ status' = [status EXCEPT ![Owner[h.ev.env]] = ProposalStatusOf(h.ev.type)]
  /\ hooks' = Moved(hooks, h, IF h.ev.type \in SignedTypes THEN "store" ELSE "audit")
  /\ UNCHANGED <<lastPdf, row, rowDoc, latest, audited, jobs, calls, provider,
                 outcome, bounds>>

(* Mutant: a failed download is caught around the whole of                 *)
(* handleSignedEnvelope.                                                   *)
HookStoreCaught(h) ==
  /\ h.step = "store"
  /\ \/ hooks' = Moved(hooks, h, "enqueue")
     \/ hooks' = Moved(hooks, h, "audit")
  /\ UNCHANGED <<database, jobs, calls, provider, outcome, bounds>>

(* handleSignedEnvelope: the signed file and the certificate, when the     *)
(* payload has their addresses.                                            *)
HookStore(h) ==
  /\ h.step = "store"
  /\ \E k \in {lastPdf[Owner[h.ev.env]], "OTHER"} :
       lastPdf' = [lastPdf EXCEPT ![Owner[h.ev.env]] = k]
  /\ hooks' = Moved(hooks, h, "enqueue")
  /\ UNCHANGED <<status, row, rowDoc, latest, audited, jobs, calls, provider,
                 outcome, bounds>>

(* enqueueSignatureAudit, enqueueTotvsSync, notifyInternalCandidateSigned. *)
HookEnqueue(h) ==
  /\ h.step = "enqueue"
  /\ outcome' = [outcome EXCEPT ![h.ev] = IF @ \in {"once", "again"} THEN "again" ELSE "once"]
  /\ hooks' = Moved(hooks, h, "audit")
  /\ UNCHANGED <<database, jobs, calls, provider, bounds>>

(* Only now is the event id put on record. *)
HookAudit(h) ==
  /\ h.step = "audit"
  /\ audited' = audited \cup {h.ev}
  /\ hooks' = Without(hooks, h)
  /\ UNCHANGED <<status, lastPdf, row, rowDoc, latest, jobs, calls, provider,
                 outcome, bounds>>

(* An await throws (a failed download, the database) or the process ends.  *)
HookStops(h) ==
  /\ faults < MaxFaults
  /\ faults' = faults + 1
  /\ hooks' = Without(hooks, h)
  /\ UNCHANGED <<database, jobs, calls, provider, outcome, asked>>

-----------------------------------------------------------------------------
(* Clicksign (external). *)

ProviderCloses(e) ==
  /\ prov[e] = "running"
  /\ prov' = [prov EXCEPT ![e] = "closed"]
  /\ emitted' = emitted \cup {[env |-> e, type |-> t] : t \in CloseTypes}
  /\ UNCHANGED <<database, jobs, calls, hooks, outcome, bounds>>

ProviderRefused(e) ==
  /\ prov[e] = "running"
  /\ prov' = [prov EXCEPT ![e] = "canceled"]
  /\ emitted' = emitted \cup {[env |-> e, type |-> "refusal"]}
  /\ UNCHANGED <<database, jobs, calls, hooks, outcome, bounds>>

ProviderExpires(e) ==
  /\ prov[e] = "running"
  /\ prov' = [prov EXCEPT ![e] = "expired"]
  /\ emitted' = emitted \cup {[env |-> e, type |-> "deadline"]}
  /\ UNCHANGED <<database, jobs, calls, hooks, outcome, bounds>>

-----------------------------------------------------------------------------
(* The rest of the system, as this component meets it. *)

(* Another component writes the status (the staff, OCR, TOTVS). *)
StatusElsewhere(p, s) ==
  /\ s \in StaffStatus
  /\ s # status[p]
  /\ status' = [status EXCEPT ![p] = s]
  /\ UNCHANGED <<lastPdf, row, rowDoc, latest, audited, jobs, calls, hooks, provider,
                 outcome, bounds>>

(* A PDF other than the contract is filed: handleDossierJob, the signature *)
(* trail of handleAuditJob, an upload by the candidate.                    *)
OtherPdf(p) ==
  /\ lastPdf[p] # "OTHER"
  /\ lastPdf' = [lastPdf EXCEPT ![p] = "OTHER"]
  /\ UNCHANGED <<status, row, rowDoc, latest, audited, jobs, calls, hooks, provider,
                 outcome, bounds>>

-----------------------------------------------------------------------------
Api ==
  \/ \E c \in Callers, p \in Proposals : ApproveRead(c, p) \/ ResendRead(c, p)
  \/ \E c \in calls :
       \/ ApproveWrite(c) \/ ResendCancelRow(c) \/ ResendWithoutPdf(c) \/ CallStops(c)
       \/ \E i \in JobIds :
            ApproveEnqueue(c, i) \/ ResendEnqueueCancel(c, i) \/ ResendEnqueueSign(c, i)

(* One step of a job towards its end. *)
JobAdvances(j) ==
  \/ PdfStore(j) \/ PdfFinish(j)
  \/ SignCreateFails(j) \/ SignRun(j) \/ SignRecord(j) \/ SignNotify(j)
  \/ CancelAtProvider(j) \/ CancelMark(j) \/ CancelGivesUp(j)
  \/ \E i \in JobIds : PdfEnqueue(j, i)
  \/ \E e \in Envelopes : SignCreate(j, e)

Worker == \E j \in jobs : JobAdvances(j) \/ JobFails(j)

HookAdvances(h) ==
  \/ HookFind(h) \/ HookNotFound(h) \/ HookEnvelope(h) \/ HookProposal(h)
  \/ HookStore(h) \/ HookEnqueue(h) \/ HookAudit(h)

Webhook ==
  \/ \E d \in Deliveries, ev \in emitted : HookCheck(d, ev)
  \/ \E h \in hooks : HookAdvances(h) \/ HookStops(h)

Provider == \E e \in Envelopes : ProviderCloses(e) \/ ProviderRefused(e) \/ ProviderExpires(e)

Elsewhere == \E p \in Proposals : OtherPdf(p) \/ \E s \in StaffStatus : StatusElsewhere(p, s)

Next == Api \/ Worker \/ Webhook \/ Provider \/ Elsewhere

Spec == Init /\ [][Next]_vars

(* What BullMQ, Nest and Clicksign are relied on for: as long as some job  *)
(* can go on one does, and so for the webhook requests; as long as an      *)
(* event is not on record Clicksign delivers one that is not.  There is a  *)
(* finite number of them, so none starves.  Nothing is assumed of the      *)
(* staff, of the candidate or of failures.                                 *)
Fairness ==
  /\ WF_vars(\E j \in jobs : JobAdvances(j))
  /\ WF_vars(\E h \in hooks : HookAdvances(h))
  /\ WF_vars(\E d \in Deliveries, ev \in emitted : HookCheck(d, ev))

FairSpec == Spec /\ Fairness

-----------------------------------------------------------------------------
(* Safety. *)

(* A proposal is SIGNED only if Clicksign closed an envelope of that very  *)
(* proposal, and the envelope is one the database knows: no interleaving   *)
(* of approvals, resends, retries and callbacks makes a signature up or    *)
(* books it on another proposal.                                           *)
SignedHasEvidence ==
  \A p \in Proposals :
    status[p] = "SIGNED" =>
      \E e \in Envelopes : Owner[e] = p /\ prov[e] = "closed" /\ row[e] # "NONE"

(* An envelope is at hand or a job will make one. *)
SignBacked(p) ==
  \/ \E j \in jobs : j.p = p /\ j.kind = "sign"
  \/ latest[p] # NoEnvelope

(* The same, counting the contract job, which will queue that job. *)
Backed(p) ==
  \/ SignBacked(p)
  \/ \E j \in jobs : j.p = p /\ j.kind = "pdf"

(* A proposal that waits for a signature has something that will, or did,  *)
(* get an envelope to the candidate: a contract or signature job (possibly *)
(* in the failed set, where the staff can see it) or a recorded envelope.  *)
(* requestSignature owes this to enqueueing before it writes the status,   *)
(* handlePdfJob to enqueueing before it ends.                              *)
PendingIsBacked ==
  \A p \in Proposals :
    status[p] = "PENDING_SIGNATURE" => Backed(p)

(* The record of an event id, which silences every later delivery of it,   *)
(* is written only after the event has led to its effects (the TOTVS job)  *)
(* or could not be matched to an envelope: a webhook that stops half way   *)
(* is done again, not forgotten.                                           *)
RecordedWasProcessed ==
  \A ev \in audited : ev.type \in SignedTypes => outcome[ev] # "none"

(* What these three rest on.  Together with them it is inductive.          *)

PdfSteps == {"store", "enqueue", "finish"}
SignSteps == {"create", "run", "record", "notify"}
CancelSteps == {"cancel", "mark"}

(* A resend cancels the envelope that it has read. *)
CallsAreSound ==
  \A c \in calls : c.step \in {"cancelRow", "enqueueCancel"} => c.env \in Envelopes

(* A job is at a step of its own kind, has its envelope once it has        *)
(* created it, and has attempts left until it is dead.                     *)
JobsAreSound ==
  \A j \in jobs :
    /\ j.step \in PdfSteps => j.kind = "pdf"
    /\ j.step \in SignSteps => j.kind = "sign"
    /\ j.step \in CancelSteps => j.kind = "cancel"
    /\ j.step \in SignSteps \ {"create"} \/ j.kind = "cancel" => j.env \in Envelopes
    /\ j.step # "dead" => j.tries < MaxAttempts

(* An envelope that a job is about to set running is a draft of that job   *)
(* alone: nothing brings an envelope back to running once it was closed.   *)
DraftsAreOwned ==
  \A j \in jobs :
    j.step = "run" =>
      /\ prov[j.env] = "draft"
      /\ \A k \in jobs : k.step = "run" /\ k.env = j.env => k = j

(* Clicksign says closed only of what is closed. *)
EventsAreTrue ==
  \A ev \in emitted : ev.type \in SignedTypes => prov[ev.env] = "closed"

(* A webhook request works on a real event; past the lookup its envelope   *)
(* is in the database; it stores and enqueues only for a signature, and    *)
(* comes to the record of a signature with the effects behind it.          *)
HooksAreSound ==
  \A h \in hooks :
    /\ h.ev \in emitted
    /\ h.step # "find" => row[h.ev.env] # "NONE"
    /\ h.step \in {"store", "enqueue"} => h.ev.type \in SignedTypes
    /\ h.step = "audit" /\ h.ev.type \in SignedTypes => outcome[h.ev] # "none"

(* The backing of a proposal is there before its status is written, and is *)
(* handed on when a job ends.                                              *)
BackingIsKept ==
  /\ \A c \in calls : c.step = "writeStatus" => Backed(c.p)
  /\ \A j \in jobs :
       /\ j.step = "finish" => SignBacked(j.p)
       /\ j.step = "notify" => latest[j.p] # NoEnvelope

SignatureInv ==
  /\ TypeOK
  /\ CallsAreSound
  /\ JobsAreSound
  /\ DraftsAreOwned
  /\ EventsAreTrue
  /\ HooksAreSound
  /\ BackingIsKept
  /\ SignedHasEvidence
  /\ PendingIsBacked
  /\ RecordedWasProcessed

(* 'Contrato PDF nao encontrado' (admin.proposals.service.ts:963): what is *)
(* sent to be signed is the contract.  Not kept: the resend takes the      *)
(* newest PDF of any type.                                                 *)
OnlyContractsAreSigned == \A e \in Envelopes : rowDoc[e] # "OTHER"

-----------------------------------------------------------------------------
(* Liveness, under FairSpec. *)

(* A contract job never leaves the approval without an outcome: an         *)
(* envelope is recorded, or a job of the proposal ends in the failed set.  *)
ApprovalIsAnswered ==
  \A p \in Proposals :
    (\E j \in jobs : j.kind = "pdf" /\ j.p = p)
      ~> (latest[p] # NoEnvelope \/ \E j \in jobs : j.p = p /\ j.step = "dead")

(* A closed envelope the database knows, and whose event was not taken     *)
(* before it did, leads to the effects of a signature, whatever webhook    *)
(* requests stop half way.                                                 *)
KnownSignatureIsProcessed ==
  \A e \in Envelopes : \A t \in SignedTypes :
    LET ev == [env |-> e, type |-> t]
    IN  (ev \in emitted /\ row[e] # "NONE" /\ outcome[ev] # "missed")
          ~> outcome[ev] \in {"once", "again"}

(* docs/architecture.md:175, "PENDING_SIGNATURE -> SIGNED (Clicksign       *)
(* confirmado)": what the candidate has signed is taken up.  Not kept: the *)
(* event may come before the row of its envelope.                          *)
EverySignatureIsProcessed ==
  \A e \in Envelopes :
    prov[e] = "closed" ~> \E t \in SignedTypes : outcome[[env |-> e, type |-> t]] \in {"once", "again"}

-----------------------------------------------------------------------------
(* The webhook endpoint implements the abstract inbox: in-flight requests  *)
(* and all they write are the detail that the mapping hides.               *)
Inbox ==
  INSTANCE EventInbox WITH
    Effective <- {ev \in Event : ev.type \in SignedTypes},
    offered <- emitted, recorded <- audited

(* Every step of the webhook, stopped half way or not, is a step of the    *)
(* inbox or hides behind one.                                              *)
IsInbox == Inbox!Spec

(* What Clicksign delivers is settled in the end, as long as only finitely *)
(* many requests stop half way.                                            *)
EveryOfferIsRecorded == Inbox!EveryOfferIsRecorded

(* No event is left over: a signature has its effects, and every event is  *)
(* on record in the end.                                                   *)
EventsAreServed == KnownSignatureIsProcessed /\ EveryOfferIsRecorded

=============================================================================
