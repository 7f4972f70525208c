-------------------------- MODULE Signature_proofs --------------------------
(***************************************************************************)
(* What TLAPS proves of Signature, for any number of proposals, envelopes, *)
(* jobs, requests and deliveries.                                          *)
(***************************************************************************)
EXTENDS Signature, TLAPS

USE OwnerAssumption, EnvelopeAssumption, AttemptsAssumption, FaultsAssumption,
    CloseAssumption, EchoAssumption, StaffAssumption

-----------------------------------------------------------------------------
(* The tables of mapEventToUpdates stay within the enums. *)
LEMMA EventTables ==
  ASSUME NEW type \in EventType
  PROVE  /\ SignatureStatusOf(type) \in SignatureStatus
         /\ ProposalStatusOf(type) \in {"SIGNED", "REJECTED"}
         /\ type \in SignedTypes <=> ProposalStatusOf(type) = "SIGNED"
         /\ type \in SignedTypes => DecidesProposal(type)
BY DEF EventType, SignedTypes, RefusedTypes, ExpiredTypes, ProgressTypes, SignatureStatusOf,
       SignatureStatus, ProposalStatusOf, DecidesProposal

(* A new job is a job, at the first step of its kind. *)
LEMMA NewJobType ==
  ASSUME NEW i \in JobIds, NEW kind \in {"pdf", "sign", "cancel"}, NEW p \in Proposals,
         NEW env \in Envelopes \cup {NoEnvelope}, NEW doc \in PdfKind \cup {"NONE"}
  PROVE  /\ NewJob(i, kind, p, env, doc) \in Job
         /\ NewJob(i, kind, p, env, doc).step \in {"store", "create", "cancel"}
         /\ NewJob(i, kind, p, env, doc).tries = 0
BY DEF NewJob, FirstStep, Job

(* What an attempt that fails leaves in the queue. *)
LEMMA NextAttemptType ==
  ASSUME NEW j \in Job, j.tries < MaxAttempts, j.kind = "cancel" => j.env \in Envelopes
  PROVE  /\ NextAttempt(j) \in Job
         /\ NextAttempt(j).kind = j.kind
         /\ NextAttempt(j).p = j.p
         /\ NextAttempt(j).kind = "cancel" => NextAttempt(j).env = j.env
         /\ NextAttempt(j).step \in {FirstStep[j.kind], "dead"}
         /\ NextAttempt(j).step # "dead" => NextAttempt(j).tries < MaxAttempts
<1>1. j.tries + 1 \in 0 .. MaxAttempts
  BY DEF Job
<1>2. FirstStep[j.kind] \in {"store", "create", "cancel"}
  BY DEF Job, FirstStep
<1> QED
  BY <1>1, <1>2 DEF NextAttempt, Job

(* A job that has created its envelope. *)
LEMMA CreatedJobType ==
  ASSUME NEW j \in Job, NEW e \in Envelopes, NEW k, k = [j EXCEPT !.step = "run", !.env = e]
  PROVE  /\ k \in Job
         /\ k.kind = j.kind
         /\ k.p = j.p
         /\ k.env = e
         /\ k.step = "run"
         /\ k.tries = j.tries
BY DEF Job

-----------------------------------------------------------------------------
(* Who writes what. *)

LEMMA ApiFrame == Api => UNCHANGED <<lastPdf, rowDoc, latest, audited, hooks, prov, emitted, outcome>>
BY DEF Api, ApproveRead, ResendRead, ApproveWrite, ResendCancelRow, ResendWithoutPdf, CallStops,
       ApproveEnqueue, ResendEnqueueCancel, ResendEnqueueSign, database, provider

LEMMA WorkerFrame == Worker => UNCHANGED <<status, audited, calls, hooks, outcome, asked>>
BY DEF Worker, JobAdvances, JobFails, Retries, PdfStore, PdfFinish, PdfEnqueue, SignCreate,
       SignCreateFails, SignRun, SignRecord, SignNotify, CancelAtProvider, CancelMark,
       CancelGivesUp, database, bounds

LEMMA WebhookFrame == Webhook => UNCHANGED <<rowDoc, latest, jobs, calls, prov, emitted, asked>>
BY DEF Webhook, HookAdvances, HookCheck, HookFind, HookNotFound, HookEnvelope, HookProposal,
       HookStore, HookEnqueue, HookAudit, HookStops, database, provider, bounds

LEMMA ProviderFrame ==
  Provider => UNCHANGED <<database, jobs, calls, hooks, outcome, bounds>>
BY DEF Provider, ProviderCloses, ProviderRefused, ProviderExpires

LEMMA ElsewhereFrame ==
  Elsewhere => UNCHANGED <<row, rowDoc, latest, audited, jobs, calls, hooks, provider, outcome, bounds>>
BY DEF Elsewhere, OtherPdf, StatusElsewhere

-----------------------------------------------------------------------------
(* Types, and what is known of a call or a job from the step it is at. *)

Sound == TypeOK /\ CallsAreSound /\ JobsAreSound

LEMMA SoundInit == Init => Sound
BY DEF Init, Sound, TypeOK, CallsAreSound, JobsAreSound, ProposalStatus, PdfKind,
       ProviderState, Outcome

LEMMA SoundStep ==
  ASSUME Sound, [Next]_vars
  PROVE  Sound'
<1> USE DEF Sound, TypeOK, CallsAreSound, JobsAreSound, database, provider, bounds
<1>1. CASE UNCHANGED vars
  BY <1>1 DEF vars
<1>2. CASE Api
  <2>1. ASSUME NEW c \in Callers, NEW p \in Proposals, ApproveRead(c, p) PROVE Sound'
    BY <2>1 DEF ApproveRead, Call
  <2>2. ASSUME NEW c \in Callers, NEW p \in Proposals, ResendRead(c, p) PROVE Sound'
    BY <2>2 DEF ResendRead, Call
  <2>3. ASSUME NEW c \in calls, ApproveWrite(c) PROVE Sound'
    BY <2>3 DEF ApproveWrite, Call, Without, ProposalStatus
  <2>4. ASSUME NEW c \in calls, ResendCancelRow(c) PROVE Sound'
    BY <2>4 DEF ResendCancelRow, Call, Without, Moved, SignatureStatus
  <2>5. ASSUME NEW c \in calls, ResendWithoutPdf(c) \/ CallStops(c) PROVE Sound'
    BY <2>5 DEF ResendWithoutPdf, CallStops, Without
  <2>6. ASSUME NEW c \in calls, NEW i \in JobIds, ApproveEnqueue(c, i) PROVE Sound'
    BY <2>6 DEF ApproveEnqueue, Call, Without, Moved, NewJob, FirstStep, Job, PdfKind,
       PdfSteps, SignSteps, CancelSteps
  <2>7. ASSUME NEW c \in calls, NEW i \in JobIds, ResendEnqueueCancel(c, i) PROVE Sound'
    BY <2>7 DEF ResendEnqueueCancel, Call, Without, Moved, NewJob, FirstStep, Job, PdfKind,
       PdfSteps, SignSteps, CancelSteps
  <2>8. ASSUME NEW c \in calls, NEW i \in JobIds, ResendEnqueueSign(c, i) PROVE Sound'
    BY <2>8 DEF ResendEnqueueSign, Call, Without, Moved, NewJob, FirstStep, Job, PdfKind,
       PdfSteps, SignSteps, CancelSteps
  <2> QED
    BY <1>2, <2>1, <2>2, <2>3, <2>4, <2>5, <2>6, <2>7, <2>8 DEF Api
<1>3. CASE Worker
  <2> USE DEF PdfSteps, SignSteps, CancelSteps
  <2>1. ASSUME NEW j \in jobs, Retries(j), faults' \in 0 .. MaxFaults PROVE Sound'
    <3> DEFINE again == NextAttempt(j)
    <3>1. jobs' = (jobs \ {j}) \cup {again}
      BY <2>1 DEF Retries, Without
    <3>2. /\ again \in Job
          /\ again.kind = j.kind
          /\ again.kind = "cancel" => again.env \in Envelopes
          /\ again.step \in {FirstStep[j.kind], "dead"}
          /\ again.step # "dead" => again.tries < MaxAttempts
      BY <2>1, NextAttemptType DEF Retries
    <3> HIDE DEF again
    <3>3. /\ again.step \in PdfSteps => again.kind = "pdf"
          /\ again.step \in SignSteps => again.kind = "sign" /\ again.step = "create"
          /\ again.step \in CancelSteps => again.kind = "cancel"
      BY <3>2 DEF FirstStep, Job
    <3>4. jobs' \subseteq Job /\ JobsAreSound'
      BY <3>1, <3>2, <3>3
    <3> QED
      BY <2>1, <3>4 DEF Retries
  <2>2. ASSUME NEW j \in jobs, PdfStore(j) \/ PdfFinish(j) PROVE Sound'
    BY <2>2 DEF PdfStore, PdfFinish, Without, Moved, PdfKind, Job
  <2>3. ASSUME NEW j \in jobs, NEW i \in JobIds, PdfEnqueue(j, i) PROVE Sound'
    BY <2>3 DEF PdfEnqueue, Without, Moved, NewJob, FirstStep, PdfKind, Job
  <2>4. ASSUME NEW j \in jobs, NEW e \in Envelopes, SignCreate(j, e) PROVE Sound'
    <3>1. PICK k : /\ jobs' = (jobs \ {j}) \cup {k}
                   /\ k = [j EXCEPT !.step = "run", !.env = e]
      BY <2>4 DEF SignCreate, Without
    <3>2. k \in Job /\ k.kind = j.kind /\ k.env = e /\ k.step = "run" /\ k.tries = j.tries
      BY <3>1, CreatedJobType
    <3>3. jobs' \subseteq Job /\ JobsAreSound'
      BY <2>4, <3>1, <3>2 DEF SignCreate
    <3> QED
      BY <2>4, <3>3 DEF SignCreate, ProviderState
  <2>5. ASSUME NEW j \in jobs, SignRun(j) PROVE Sound'
    BY <2>5 DEF SignRun, Without, Moved, ProviderState, Job
  <2>6. ASSUME NEW j \in jobs, SignRecord(j) PROVE Sound'
    BY <2>6 DEF SignRecord, Without, Moved, SignatureStatus, Job
  <2>7. ASSUME NEW j \in jobs, SignNotify(j) \/ CancelGivesUp(j) PROVE Sound'
    BY <2>7 DEF SignNotify, CancelGivesUp, Without
  <2>8. ASSUME NEW j \in jobs, CancelAtProvider(j) PROVE Sound'
    <3>1. j.env \in Envelopes
      BY <2>8 DEF CancelAtProvider
    <3>2. emitted' \subseteq Event
      BY <2>8, <3>1 DEF CancelAtProvider, Event, EventType, RefusedTypes
    <3> QED
      BY <2>8, <3>1, <3>2 DEF CancelAtProvider, Without, Moved, ProviderState, Job
  <2>9. ASSUME NEW j \in jobs, CancelMark(j) PROVE Sound'
    BY <2>9 DEF CancelMark, Without, SignatureStatus
  <2> QED
    BY <1>3, <2>1, <2>2, <2>3, <2>4, <2>5, <2>6, <2>7, <2>8, <2>9
    DEF Worker, JobAdvances, JobFails, SignCreateFails
<1>4. CASE Webhook
  <2> USE DEF Hook, Without, Moved
  <2>1. ASSUME NEW d \in Deliveries, NEW ev \in emitted, HookCheck(d, ev) PROVE Sound'
    BY <2>1 DEF HookCheck
  <2>2. ASSUME NEW h \in hooks, HookFind(h) \/ HookStops(h) PROVE Sound'
    BY <2>2 DEF HookFind, HookStops
  <2>3. ASSUME NEW h \in hooks, HookNotFound(h) \/ HookAudit(h) PROVE Sound'
    BY <2>3 DEF HookNotFound, HookAudit, Outcome
  <2>4. ASSUME NEW h \in hooks, HookEnvelope(h) PROVE Sound'
    <3>1. h.ev.type \in EventType
      BY DEF Event
    <3> QED
      BY <2>4, <3>1, EventTables DEF HookEnvelope
  <2>5. ASSUME NEW h \in hooks, HookProposal(h) PROVE Sound'
    <3>1. h.ev.type \in EventType
      BY DEF Event
    <3> QED
      BY <2>5, <3>1, EventTables DEF HookProposal, ProposalStatus
  <2>6. ASSUME NEW h \in hooks, HookStore(h) PROVE Sound'
    <3>1. Owner[h.ev.env] \in Proposals
      BY DEF Event
    <3> QED
      BY <2>6, <3>1 DEF HookStore, PdfKind
  <2>7. ASSUME NEW h \in hooks, HookEnqueue(h) PROVE Sound'
    BY <2>7 DEF HookEnqueue, Outcome
  <2> QED
    BY <1>4, <2>1, <2>2, <2>3, <2>4, <2>5, <2>6, <2>7 DEF Webhook, HookAdvances
<1>5. CASE Provider
  <2> USE DEF ProviderState, Event, EventType
  <2>1. ASSUME NEW e \in Envelopes, ProviderCloses(e) PROVE Sound'
    BY <2>1 DEF ProviderCloses
  <2>2. ASSUME NEW e \in Envelopes, ProviderRefused(e) PROVE Sound'
    BY <2>2 DEF ProviderRefused, RefusedTypes
  <2>3. ASSUME NEW e \in Envelopes, ProviderExpires(e) PROVE Sound'
    BY <2>3 DEF ProviderExpires, ExpiredTypes
  <2> QED
    BY <1>5, <2>1, <2>2, <2>3 DEF Provider
<1>6. CASE Elsewhere
  <2>1. ASSUME NEW p \in Proposals, OtherPdf(p) PROVE Sound'
    BY <2>1 DEF OtherPdf, PdfKind
  <2>2. ASSUME NEW p \in Proposals, NEW s \in StaffStatus, StatusElsewhere(p, s) PROVE Sound'
    BY <2>2 DEF StatusElsewhere
  <2> QED
    BY <1>6, <2>1, <2>2 DEF Elsewhere
<1> QED
  BY <1>1, <1>2, <1>3, <1>4, <1>5, <1>6 DEF Next

LEMMA SoundAlways == Spec => []Sound
BY SoundInit, SoundStep, PTL DEF Spec

(* Every variable keeps to the values the code gives it, whatever the      *)
(* number of proposals, requests, jobs and failures; in particular no job  *)
(* is tried more than MaxAttempts times.                                   *)
THEOREM TypeCorrect == Spec => []TypeOK
<1>1. Sound => TypeOK
  BY DEF Sound
<1> QED
  BY <1>1, SoundAlways, PTL

-----------------------------------------------------------------------------
(* What no step takes back. *)

(* An envelope that a job sets running was its own draft, so none that is  *)
(* closed runs again.                                                      *)
LEMMA DraftsStep ==
  ASSUME Sound, DraftsAreOwned, [Next]_vars
  PROVE  DraftsAreOwned'
<1> USE DEF Sound, TypeOK, JobsAreSound, DraftsAreOwned, SignSteps, database, provider, bounds
<1>1. ASSUME \A j \in jobs' : j.step = "run" => j \in jobs,
             \A e \in Envelopes : prov[e] = "draft" => prov'[e] = "draft"
      PROVE  DraftsAreOwned'
  BY <1>1
<1>2. CASE UNCHANGED vars
  BY <1>2 DEF vars
<1>3. CASE Api
  <2>1. prov' = prov
    BY <1>3, ApiFrame
  <2>2. \A j \in jobs' : j.step = "run" => j \in jobs
    BY <1>3 DEF Api, ApproveRead, ResendRead, ApproveWrite, ResendCancelRow, ResendWithoutPdf,
       CallStops, ApproveEnqueue, ResendEnqueueCancel, ResendEnqueueSign, NewJob, FirstStep
  <2> QED
    BY <2>1, <2>2, <1>1
<1>4. CASE Worker
  <2>1. ASSUME NEW j \in jobs, Retries(j) PROVE DraftsAreOwned'
    <3>1. NextAttempt(j).step # "run"
      BY <2>1 DEF NextAttempt, FirstStep, Job
    <3> QED
      BY <2>1, <3>1, <1>1 DEF Retries, Without
  <2>2. ASSUME NEW j \in jobs, PdfStore(j) \/ PdfFinish(j) \/ SignNotify(j) \/ CancelGivesUp(j)
               \/ SignRecord(j) \/ CancelMark(j)
        PROVE DraftsAreOwned'
    BY <2>2, <1>1 DEF PdfStore, PdfFinish, SignNotify, CancelGivesUp, SignRecord, CancelMark,
       Without, Moved, Job
  <2>3. ASSUME NEW j \in jobs, NEW i \in JobIds, PdfEnqueue(j, i) PROVE DraftsAreOwned'
    BY <2>3, <1>1 DEF PdfEnqueue, Without, Moved, Job, NewJob, FirstStep
  <2>4. ASSUME NEW j \in jobs, CancelAtProvider(j) PROVE DraftsAreOwned'
    BY <2>4, <1>1 DEF CancelAtProvider, Without, Moved, Job
  <2>5. ASSUME NEW j \in jobs, NEW e \in Envelopes, SignCreate(j, e) PROVE DraftsAreOwned'
    <3>1. PICK k : /\ jobs' = (jobs \ {j}) \cup {k}
                   /\ k = [j EXCEPT !.step = "run", !.env = e]
      BY <2>5 DEF SignCreate, Without
    <3>2. k.env = e /\ k.step = "run"
      BY <3>1, CreatedJobType
    <3>3. \A l \in jobs : l.step = "run" => l.env # e
      BY <2>5 DEF SignCreate
    <3>4. prov' = [prov EXCEPT ![e] = "draft"]
      BY <2>5 DEF SignCreate
    <3>5. prov'[e] = "draft"
      BY <3>4
    <3>6. \A l \in jobs : l.step = "run" => prov'[l.env] = "draft"
      BY <3>3, <3>4
    <3>7. \A l \in jobs' : l.step = "run" => l = k \/ (l \in jobs /\ l.env # e)
      BY <3>1, <3>3
    <3>8. ASSUME NEW l \in jobs', l.step = "run"
          PROVE  /\ prov'[l.env] = "draft"
                 /\ \A m \in jobs' : m.step = "run" /\ m.env = l.env => m = l
      <4>1. CASE l = k
        BY <4>1, <3>2, <3>5, <3>7
      <4>2. CASE l # k
        <5>1. l \in jobs /\ l.env # e
          BY <3>8, <4>2, <3>7
        <5> QED
          BY <3>8, <5>1, <3>2, <3>6, <3>7
      <4> QED
        BY <4>1, <4>2
    <3> QED
      BY <3>8
  <2>6. ASSUME NEW j \in jobs, SignRun(j) PROVE DraftsAreOwned'
    <3> DEFINE k == [j EXCEPT !.step = "record"]
    <3>1. jobs' = (jobs \ {j}) \cup {k} /\ k.step = "record"
      BY <2>6 DEF SignRun, Without, Moved, Job
    <3>2. prov' = [prov EXCEPT ![j.env] = "running"] /\ j.step = "run"
      BY <2>6 DEF SignRun
    <3> QED
      BY <3>1, <3>2
  <2> QED
    BY <1>4, <2>1, <2>2, <2>3, <2>4, <2>5, <2>6 DEF Worker, JobAdvances, JobFails, SignCreateFails
<1>5. CASE Webhook
  BY <1>5, <1>1, WebhookFrame
<1>6. CASE Provider
  BY <1>6, <1>1 DEF Provider, ProviderCloses, ProviderRefused, ProviderExpires
<1>7. CASE Elsewhere
  BY <1>7, <1>1, ElsewhereFrame
<1> QED
  BY <1>2, <1>3, <1>4, <1>5, <1>6, <1>7 DEF Next

(* Closed envelopes, rows, events, effects and envelopes of a proposal are *)
(* there to stay.                                                          *)
LEMMA NothingIsUndone ==
  ASSUME Sound, DraftsAreOwned, [Next]_vars
  PROVE  /\ \A e \in Envelopes : prov[e] = "closed" => prov'[e] = "closed"
         /\ \A e \in Envelopes : row[e] # "NONE" => row'[e] # "NONE"
         /\ emitted \subseteq emitted'
         /\ \A ev \in Event : outcome[ev] # "none" => outcome'[ev] # "none"
         /\ \A p \in Proposals : latest[p] # NoEnvelope => latest'[p] # NoEnvelope
<1> DEFINE Kept ==
      /\ \A e \in Envelopes : prov[e] = "closed" => prov'[e] = "closed"
      /\ \A e \in Envelopes : row[e] # "NONE" => row'[e] # "NONE"
      /\ emitted \subseteq emitted'
      /\ \A ev \in Event : outcome[ev] # "none" => outcome'[ev] # "none"
      /\ \A p \in Proposals : latest[p] # NoEnvelope => latest'[p] # NoEnvelope
<1> USE DEF Sound, TypeOK, database, provider, bounds
<1>1. CASE UNCHANGED vars
  BY <1>1 DEF vars
<1>2. CASE Api
  <2>1. ASSUME NEW c \in calls, ResendCancelRow(c) PROVE Kept
    BY <2>1 DEF ResendCancelRow
  <2>2. CASE UNCHANGED <<row, latest, prov, emitted, outcome>>
    BY <2>2
  <2> QED
    BY <1>2, <2>1, <2>2 DEF Api, ApproveRead, ResendRead, ApproveWrite, ResendWithoutPdf,
       CallStops, ApproveEnqueue, ResendEnqueueCancel, ResendEnqueueSign
<1>3. CASE Worker
  <2>1. ASSUME NEW j \in jobs, NEW e \in Envelopes, SignCreate(j, e) PROVE Kept
    BY <2>1 DEF SignCreate
  <2>2. ASSUME NEW j \in jobs, SignRun(j) PROVE Kept
    BY <2>2 DEF SignRun, DraftsAreOwned
  <2>3. ASSUME NEW j \in jobs, SignRecord(j) PROVE Kept
    <3>1. j.env \in Envelopes
      BY <2>3 DEF SignRecord, JobsAreSound, SignSteps
    <3> QED
      BY <2>3, <3>1 DEF SignRecord
  <2>4. ASSUME NEW j \in jobs, CancelAtProvider(j) PROVE Kept
    BY <2>4 DEF CancelAtProvider
  <2>5. ASSUME NEW j \in jobs, CancelMark(j) PROVE Kept
    BY <2>5 DEF CancelMark
  <2>6. CASE UNCHANGED <<row, latest, prov, emitted, outcome>>
    BY <2>6
  <2> QED
    BY <1>3, <2>1, <2>2, <2>3, <2>4, <2>5, <2>6 DEF Worker, JobAdvances, JobFails, SignCreateFails,
       Retries, PdfStore, PdfFinish, SignNotify, CancelGivesUp, PdfEnqueue
<1>4. CASE Webhook
  <2>1. ASSUME NEW h \in hooks, HookNotFound(h) PROVE Kept
    BY <2>1 DEF HookNotFound
  <2>2. ASSUME NEW h \in hooks, HookEnvelope(h) PROVE Kept
    <3>1. SignatureStatusOf(h.ev.type) # "NONE"
      BY EventTables DEF Hook, Event, SignatureStatus
    <3> QED
      BY <2>2, <3>1 DEF HookEnvelope
  <2>3. ASSUME NEW h \in hooks, HookEnqueue(h) PROVE Kept
    BY <2>3 DEF HookEnqueue
  <2>4. CASE UNCHANGED <<row, latest, prov, emitted, outcome>>
    BY <2>4
  <2> QED
    BY <1>4, <2>1, <2>2, <2>3, <2>4 DEF Webhook, HookAdvances, HookCheck, HookFind,
       HookProposal, HookStore, HookAudit, HookStops
<1>5. CASE Provider
  BY <1>5 DEF Provider, ProviderCloses, ProviderRefused, ProviderExpires
<1>6. CASE Elsewhere
  BY <1>6, ElsewhereFrame
<1> QED
  BY <1>1, <1>2, <1>3, <1>4, <1>5, <1>6 DEF Next

-----------------------------------------------------------------------------
(* The webhook and the evidence for a signature. *)

LEMMA EventsStep ==
  ASSUME Sound, DraftsAreOwned, EventsAreTrue, [Next]_vars
  PROVE  EventsAreTrue'
<1>1. \A ev \in emitted : ev \in Event
  BY DEF Sound, TypeOK
<1>2. \A ev \in emitted : ev.type \in SignedTypes => prov'[ev.env] = "closed"
  BY <1>1, NothingIsUndone DEF EventsAreTrue, Event
<1> DEFINE NewAreTrue ==
      \A ev \in emitted' \ emitted : ev.type \in SignedTypes => prov'[ev.env] = "closed"
<1>3. NewAreTrue
  <2> USE DEF Sound, TypeOK, database, provider, bounds
  <2>1. CASE emitted' = emitted
    BY <2>1
  <2>2. ASSUME NEW j \in jobs, CancelAtProvider(j) PROVE NewAreTrue
    <3>1. \A ev \in emitted' \ emitted : ev.type = "cancel"
      BY <2>2 DEF CancelAtProvider
    <3> QED
      BY <3>1 DEF SignedTypes
  <2>3. ASSUME NEW e \in Envelopes, ProviderCloses(e) PROVE NewAreTrue
    <3>1. prov'[e] = "closed" /\ \A ev \in emitted' \ emitted : ev.env = e
      BY <2>3 DEF ProviderCloses
    <3> QED
      BY <3>1
  <2>4. ASSUME NEW e \in Envelopes, ProviderRefused(e) \/ ProviderExpires(e) PROVE NewAreTrue
    <3>1. \A ev \in emitted' \ emitted : ev.type \in {"refusal", "deadline"}
      BY <2>4 DEF ProviderRefused, ProviderExpires
    <3> QED
      BY <3>1 DEF SignedTypes
  <2>5. Worker => emitted' = emitted \/ \E j \in jobs : CancelAtProvider(j)
    BY DEF Worker, JobAdvances, SignCreateFails, JobFails, Retries, PdfStore, PdfFinish, SignNotify,
       CancelGivesUp, PdfEnqueue, SignCreate, SignRun, SignRecord, CancelMark
  <2>6. Api \/ Webhook \/ Elsewhere => emitted' = emitted
    BY ApiFrame, WebhookFrame, ElsewhereFrame
  <2> QED
    BY <2>1, <2>2, <2>3, <2>4, <2>5, <2>6 DEF Next, Provider, vars
<1> QED
  BY <1>2, <1>3 DEF EventsAreTrue

LEMMA HooksStep ==
  ASSUME Sound, DraftsAreOwned, HooksAreSound, [Next]_vars
  PROVE  HooksAreSound'
<1> DEFINE HookIsSound(h) ==
      /\ h.ev \in emitted'
      /\ h.step # "find" => row'[h.ev.env] # "NONE"
      /\ h.step \in {"store", "enqueue"} => h.ev.type \in SignedTypes
      /\ h.step = "audit" /\ h.ev.type \in SignedTypes => outcome'[h.ev] # "none"
<1>1. \A h \in hooks : h \in Hook /\ h.ev \in Event
  BY DEF Sound, TypeOK, Hook
<1>2. \A h \in hooks : HookIsSound(h)
  BY <1>1, NothingIsUndone DEF HooksAreSound, Event
<1>3. \A h \in hooks' \ hooks : HookIsSound(h)
  <2> USE DEF Sound, TypeOK, HooksAreSound, database, provider, bounds
  <2>1. CASE hooks' \subseteq hooks
    BY <2>1
  <2>2. ASSUME NEW d \in Deliveries, NEW ev \in emitted, HookCheck(d, ev)
        PROVE  \A h \in hooks' \ hooks : HookIsSound(h)
    BY <2>2 DEF HookCheck
  <2>3. ASSUME NEW h \in hooks, HookFind(h) PROVE \A g \in hooks' \ hooks : HookIsSound(g)
    <3>1. \A g \in hooks' \ hooks : g.ev = h.ev /\ g.step = "envelope"
      BY <2>3, <1>1 DEF HookFind, Moved, Without, Hook
    <3> QED
      BY <2>3, <3>1 DEF HookFind
  <2>4. ASSUME NEW h \in hooks, HookEnvelope(h) PROVE \A g \in hooks' \ hooks : HookIsSound(g)
    <3>1. \A g \in hooks' \ hooks :
             /\ g.ev = h.ev
             /\ g.step = IF DecidesProposal(h.ev.type) THEN "proposal" ELSE "audit"
      BY <2>4, <1>1 DEF HookEnvelope, Moved, Without, Hook
    <3>2. h.ev \in Event /\ h.ev.type \in EventType
      BY <1>1 DEF Event
    <3>3. h.ev.type \in SignedTypes => DecidesProposal(h.ev.type)
      BY <3>2, EventTables
    <3>4. h.step # "find" /\ row'[h.ev.env] # "NONE"
      BY <2>4, <1>2 DEF HookEnvelope
    <3> QED
      BY <2>4, <3>1, <3>3, <3>4 DEF HookEnvelope
  <2>5. ASSUME NEW h \in hooks, HookProposal(h) PROVE \A g \in hooks' \ hooks : HookIsSound(g)
    <3>1. \A g \in hooks' \ hooks :
             g.ev = h.ev /\ g.step = IF h.ev.type \in SignedTypes THEN "store" ELSE "audit"
      BY <2>5, <1>1 DEF HookProposal, Moved, Without, Hook
    <3> QED
      BY <2>5, <3>1, <1>2 DEF HookProposal
  <2>6. ASSUME NEW h \in hooks, HookStore(h) PROVE \A g \in hooks' \ hooks : HookIsSound(g)
    <3>1. \A g \in hooks' \ hooks : g.ev = h.ev /\ g.step = "enqueue"
      BY <2>6, <1>1 DEF HookStore, Moved, Without, Hook
    <3> QED
      BY <2>6, <3>1, <1>2 DEF HookStore
  <2>7. ASSUME NEW h \in hooks, HookEnqueue(h) PROVE \A g \in hooks' \ hooks : HookIsSound(g)
    <3>1. \A g \in hooks' \ hooks : g.ev = h.ev /\ g.step = "audit"
      BY <2>7, <1>1 DEF HookEnqueue, Moved, Without, Hook
    <3>2. outcome'[h.ev] # "none"
      BY <2>7, <1>1 DEF HookEnqueue
    <3> QED
      BY <2>7, <3>1, <3>2, <1>2 DEF HookEnqueue
  <2>8. Webhook =>
          \/ hooks' \subseteq hooks
          \/ \E d \in Deliveries, ev \in emitted : HookCheck(d, ev)
          \/ \E h \in hooks : HookFind(h) \/ HookEnvelope(h) \/ HookProposal(h)
                             \/ HookStore(h) \/ HookEnqueue(h)
    BY DEF Webhook, HookAdvances, HookNotFound, HookAudit, HookStops, Without
  <2>9. Api \/ Worker \/ Provider \/ Elsewhere => hooks' = hooks
    BY ApiFrame, WorkerFrame, ProviderFrame, ElsewhereFrame
  <2> QED
    BY <2>1, <2>2, <2>3, <2>4, <2>5, <2>6, <2>7, <2>8, <2>9 DEF Next, vars
<1> QED
  BY <1>2, <1>3 DEF HooksAreSound

(* The evidence of a signature outlives every step; a step that makes a    *)
(* proposal SIGNED is that of a webhook request, which has the evidence.   *)
LEMMA EvidenceStep ==
  ASSUME Sound, DraftsAreOwned, EventsAreTrue, HooksAreSound, SignedHasEvidence, [Next]_vars
  PROVE  SignedHasEvidence'
<1> SUFFICES ASSUME NEW p \in Proposals, status'[p] = "SIGNED"
             PROVE  \E e \in Envelopes : Owner[e] = p /\ prov'[e] = "closed" /\ row'[e] # "NONE"
  BY DEF SignedHasEvidence
<1>1. CASE status[p] = "SIGNED"
  BY <1>1, NothingIsUndone DEF SignedHasEvidence
<1>2. CASE status[p] # "SIGNED"
  <2> USE DEF Sound, TypeOK, database, provider, bounds
  <2>1. ASSUME NEW c \in calls, ApproveWrite(c) PROVE FALSE
    BY <2>1, <1>2 DEF ApproveWrite
  <2>2. ASSUME NEW q \in Proposals, NEW s \in StaffStatus, StatusElsewhere(q, s) PROVE FALSE
    BY <2>2, <1>2 DEF StatusElsewhere
  <2>3. status' # status
    BY <1>2
  <2>4. ~Api
    BY <2>1, <2>3 DEF Api, ApproveRead, ResendRead, ResendCancelRow, ResendWithoutPdf, CallStops,
       ApproveEnqueue, ResendEnqueueCancel, ResendEnqueueSign
  <2>5. ~Elsewhere
    BY <2>2, <2>3 DEF Elsewhere, OtherPdf
  <2>6. Webhook
    BY <2>3, <2>4, <2>5, WorkerFrame, ProviderFrame DEF Next, vars
  <2>7. PICK h \in hooks : HookProposal(h)
    BY <2>3, <2>6 DEF Webhook, HookAdvances, HookCheck, HookFind, HookNotFound, HookEnvelope,
       HookStore, HookEnqueue, HookAudit, HookStops
  <2>8. h.ev \in emitted /\ row[h.ev.env] # "NONE"
    BY <2>7 DEF HookProposal, HooksAreSound
  <2>9. h.ev.env \in Envelopes /\ h.ev.type \in EventType
    BY <2>8 DEF Event
  <2>10. Owner[h.ev.env] = p /\ ProposalStatusOf(h.ev.type) = "SIGNED"
    BY <2>7, <1>2, <2>9 DEF HookProposal
  <2>11. prov[h.ev.env] = "closed"
    BY <2>8, <2>9, <2>10, EventTables DEF EventsAreTrue
  <2> QED
    BY <2>8, <2>9, <2>10, <2>11, NothingIsUndone
<1> QED
  BY <1>1, <1>2

LEMMA RecordStep ==
  ASSUME Sound, DraftsAreOwned, HooksAreSound, RecordedWasProcessed, [Next]_vars
  PROVE  RecordedWasProcessed'
<1> USE DEF Sound, TypeOK, database, provider, bounds
<1>1. \A ev \in audited : ev.type \in SignedTypes => outcome'[ev] # "none"
  BY NothingIsUndone DEF RecordedWasProcessed
<1>2. ASSUME NEW h \in hooks, HookNotFound(h) PROVE RecordedWasProcessed'
  <2>1. h.ev \in Event
    BY DEF Hook
  <2> QED
    BY <1>1, <1>2, <2>1 DEF HookNotFound, RecordedWasProcessed
<1>3. ASSUME NEW h \in hooks, HookAudit(h) PROVE RecordedWasProcessed'
  BY <1>1, <1>3 DEF HookAudit, HooksAreSound, RecordedWasProcessed
<1>4. Webhook => audited' = audited \/ \E h \in hooks : HookNotFound(h) \/ HookAudit(h)
  BY DEF Webhook, HookAdvances, HookCheck, HookFind, HookEnvelope, HookProposal,
     HookStore, HookEnqueue, HookStops
<1>5. Api \/ Worker \/ Provider \/ Elsewhere => audited' = audited
  BY ApiFrame, WorkerFrame, ProviderFrame, ElsewhereFrame
<1> QED
  BY <1>1, <1>2, <1>3, <1>4, <1>5 DEF Next, RecordedWasProcessed, vars

-----------------------------------------------------------------------------
(* The backing of a proposal that waits for its signature. *)

(* A job leaves the queue only at the end of its handler; until then it    *)
(* keeps its kind and its proposal.                                        *)
LEMMA JobStays ==
  ASSUME Sound, [Next]_vars, NEW j \in jobs,
         ~ (PdfFinish(j) \/ SignNotify(j) \/ CancelMark(j) \/ CancelGivesUp(j))
  PROVE  \E l \in jobs' : l.p = j.p /\ l.kind = j.kind
<1> DEFINE Stays == \E l \in jobs' : l.p = j.p /\ l.kind = j.kind
<1> USE DEF Sound, TypeOK
<1>1. CASE j \in jobs'
  BY <1>1
<1>2. ASSUME NEW k \in jobs, NEW l, l.p = k.p, l.kind = k.kind, jobs' = (jobs \ {k}) \cup {l}
      PROVE  Stays
  BY <1>2
<1>3. CASE Worker
  <2>1. ASSUME NEW k \in jobs, Retries(k) PROVE Stays
    <3>1. NextAttempt(k).p = k.p /\ NextAttempt(k).kind = k.kind
      BY DEF NextAttempt
    <3> QED
      BY <2>1, <3>1, <1>2 DEF Retries, Without
  <2>2. ASSUME NEW k \in jobs, NEW step, Moved(jobs, k, step) \subseteq jobs' PROVE Stays
    <3>1. [k EXCEPT !.step = step].p = k.p /\ [k EXCEPT !.step = step].kind = k.kind
      BY DEF Job
    <3> QED
      BY <2>2, <3>1 DEF Moved, Without
  <2>3. ASSUME NEW k \in jobs,
               \/ PdfStore(k) \/ SignRun(k) \/ SignRecord(k) \/ CancelAtProvider(k)
               \/ \E i \in JobIds : PdfEnqueue(k, i)
        PROVE  Stays
    BY <2>2, <2>3 DEF PdfStore, SignRun, SignRecord, CancelAtProvider, PdfEnqueue
  <2>4. ASSUME NEW k \in jobs, NEW e \in Envelopes, SignCreate(k, e) PROVE Stays
    <3>1. PICK l : /\ jobs' = (jobs \ {k}) \cup {l}
                   /\ l = [k EXCEPT !.step = "run", !.env = e]
      BY <2>4 DEF SignCreate, Without
    <3>2. l.p = k.p /\ l.kind = k.kind
      BY <3>1, CreatedJobType
    <3> QED
      BY <3>1, <3>2, <1>2
  <2>5. ASSUME NEW k \in jobs, PdfFinish(k) \/ SignNotify(k) \/ CancelMark(k) \/ CancelGivesUp(k)
        PROVE  Stays
    <3>1. k # j
      BY <2>5
    <3> QED
      BY <2>5, <3>1 DEF PdfFinish, SignNotify, CancelMark, CancelGivesUp, Without
  <2> QED
    BY <1>3, <2>1, <2>3, <2>4, <2>5 DEF Worker, JobAdvances, JobFails, SignCreateFails
<1>4. Api => j \in jobs'
  BY DEF Api, ApproveRead, ResendRead, ApproveWrite, ResendCancelRow, ResendWithoutPdf,
     CallStops, ApproveEnqueue, ResendEnqueueCancel, ResendEnqueueSign
<1>5. Webhook \/ Provider \/ Elsewhere => jobs' = jobs
  BY WebhookFrame, ProviderFrame, ElsewhereFrame
<1> QED
  BY <1>1, <1>3, <1>4, <1>5 DEF Next, vars

(* A signature job that ends has left an envelope. *)
LEMMA SignBackedStays ==
  ASSUME Sound, DraftsAreOwned, BackingIsKept, [Next]_vars, NEW p \in Proposals, SignBacked(p)
  PROVE  SignBacked(p)'
<1>1. CASE latest[p] # NoEnvelope
  BY <1>1, NothingIsUndone DEF SignBacked
<1>2. ASSUME NEW j \in jobs, j.p = p, j.kind = "sign" PROVE SignBacked(p)'
  <2>1. ~ (PdfFinish(j) \/ CancelMark(j) \/ CancelGivesUp(j))
    BY <1>2 DEF PdfFinish, CancelMark, CancelGivesUp, Sound, JobsAreSound, PdfSteps, CancelSteps
  <2>2. CASE SignNotify(j)
    BY <1>1, <1>2, <2>2 DEF SignNotify, BackingIsKept
  <2>3. CASE ~ SignNotify(j)
    BY <1>2, <2>1, <2>3, JobStays DEF SignBacked
  <2> QED
    BY <2>2, <2>3
<1> QED
  BY <1>1, <1>2 DEF SignBacked

(* A contract job that ends has queued its signature job. *)
LEMMA BackedStays ==
  ASSUME Sound, DraftsAreOwned, BackingIsKept, [Next]_vars, NEW p \in Proposals, Backed(p)
  PROVE  Backed(p)'
<1>1. CASE SignBacked(p)
  BY <1>1, SignBackedStays DEF Backed
<1>2. ASSUME NEW j \in jobs, j.p = p, j.kind = "pdf" PROVE Backed(p)'
  <2>1. ~ (SignNotify(j) \/ CancelMark(j) \/ CancelGivesUp(j))
    BY <1>2 DEF SignNotify, CancelMark, CancelGivesUp, Sound, JobsAreSound, SignSteps, CancelSteps
  <2>2. CASE PdfFinish(j)
    BY <1>1, <1>2, <2>2 DEF PdfFinish, BackingIsKept
  <2>3. CASE ~ PdfFinish(j)
    BY <1>2, <2>1, <2>3, JobStays DEF Backed
  <2> QED
    BY <2>2, <2>3
<1> QED
  BY <1>1, <1>2 DEF Backed

LEMMA BackingStep ==
  ASSUME Sound, DraftsAreOwned, BackingIsKept, [Next]_vars
  PROVE  BackingIsKept'
<1> USE DEF Sound, TypeOK, database, provider, bounds
<1>1. \A c \in calls' : c.step = "writeStatus" => Backed(c.p)'
  <2>1. \A c \in calls : c.step = "writeStatus" => Backed(c.p)'
    BY BackedStays DEF BackingIsKept, Call
  <2>2. ASSUME NEW c \in calls, NEW i \in JobIds, ApproveEnqueue(c, i)
        PROVE  \A d \in calls' \ calls : Backed(d.p)'
    <3>1. \A d \in calls' \ calls : d.p = c.p
      BY <2>2 DEF ApproveEnqueue, Moved, Without, Call
    <3> DEFINE new == NewJob(i, "pdf", c.p, NoEnvelope, "NONE")
    <3>2. new \in jobs' /\ new.p = c.p /\ new.kind = "pdf"
      BY <2>2 DEF ApproveEnqueue, NewJob
    <3> QED
      BY <3>1, <3>2 DEF Backed
  <2>3. Api => \/ \A d \in calls' \ calls : d.step # "writeStatus"
               \/ \E c \in calls, i \in JobIds : ApproveEnqueue(c, i)
    BY DEF Api, ApproveRead, ResendRead, ApproveWrite, ResendCancelRow, ResendWithoutPdf,
       CallStops, ResendEnqueueCancel, ResendEnqueueSign, Moved, Without, Call
  <2>4. Worker \/ Webhook \/ Provider \/ Elsewhere => calls' = calls
    BY WorkerFrame, WebhookFrame, ProviderFrame, ElsewhereFrame
  <2> QED
    BY <2>1, <2>2, <2>3, <2>4 DEF Next, vars
<1>2. \A j \in jobs' : j.step = "finish" => SignBacked(j.p)'
  <2>1. \A j \in jobs : j.step = "finish" => SignBacked(j.p)'
    BY SignBackedStays DEF BackingIsKept, Job
  <2>2. ASSUME NEW k \in jobs, NEW i \in JobIds, PdfEnqueue(k, i)
        PROVE  \A j \in jobs' \ jobs : j.step = "finish" => SignBacked(j.p)'
    <3>1. \A j \in jobs' \ jobs : j.p = k.p
      BY <2>2 DEF PdfEnqueue, Moved, Without, NewJob, Job
    <3> DEFINE new == NewJob(i, "sign", k.p, NoEnvelope, "CONTRATO_GERADO")
    <3>2. new \in jobs' /\ new.p = k.p /\ new.kind = "sign"
      BY <2>2 DEF PdfEnqueue, NewJob
    <3> QED
      BY <3>1, <3>2 DEF SignBacked
  <2>3. Api => \A j \in jobs' \ jobs : j.step # "finish"
    BY DEF Api, ApproveRead, ResendRead, ApproveWrite, ResendCancelRow, ResendWithoutPdf,
       CallStops, ApproveEnqueue, ResendEnqueueCancel, ResendEnqueueSign, NewJob, FirstStep
  <2>4. Worker => \/ \A j \in jobs' \ jobs : j.step # "finish"
                  \/ \E k \in jobs, i \in JobIds : PdfEnqueue(k, i)
    <3>1. \A k \in jobs : NextAttempt(k).step # "finish"
      BY DEF NextAttempt, FirstStep, Job
    <3>2. ASSUME NEW k \in jobs, NEW e \in Envelopes, SignCreate(k, e)
          PROVE  \A j \in jobs' \ jobs : j.step # "finish"
      BY <3>2 DEF SignCreate, Without, Job
    <3> QED
      BY <3>1, <3>2 DEF Worker, JobAdvances, JobFails, Retries, PdfStore, PdfFinish, SignCreateFails,
         SignRun, SignRecord, SignNotify, CancelAtProvider, CancelMark, CancelGivesUp,
         Moved, Without, Job
  <2>5. Webhook \/ Provider \/ Elsewhere => jobs' = jobs
    BY WebhookFrame, ProviderFrame, ElsewhereFrame
  <2> QED
    BY <2>1, <2>2, <2>3, <2>4, <2>5 DEF Next, vars
<1>3. \A j \in jobs' : j.step = "notify" => latest'[j.p] # NoEnvelope
  <2>1. \A j \in jobs : j.step = "notify" => latest'[j.p] # NoEnvelope
    BY NothingIsUndone DEF BackingIsKept, Job
  <2>2. ASSUME NEW k \in jobs, SignRecord(k)
        PROVE  \A j \in jobs' \ jobs : latest'[j.p] # NoEnvelope
    <3>1. k.env \in Envelopes
      BY <2>2 DEF SignRecord, JobsAreSound, SignSteps
    <3>2. \A j \in jobs' \ jobs : j.p = k.p
      BY <2>2 DEF SignRecord, Moved, Without, Job
    <3> QED
      BY <2>2, <3>1, <3>2 DEF SignRecord, Job
  <2>3. Api => \A j \in jobs' \ jobs : j.step # "notify"
    BY DEF Api, ApproveRead, ResendRead, ApproveWrite, ResendCancelRow, ResendWithoutPdf,
       CallStops, ApproveEnqueue, ResendEnqueueCancel, ResendEnqueueSign, NewJob, FirstStep
  <2>4. Worker => \/ \A j \in jobs' \ jobs : j.step # "notify"
                  \/ \E k \in jobs : SignRecord(k)
    <3>1. \A k \in jobs : NextAttempt(k).step # "notify"
      BY DEF NextAttempt, FirstStep, Job
    <3>2. ASSUME NEW k \in jobs, NEW e \in Envelopes, SignCreate(k, e)
          PROVE  \A j \in jobs' \ jobs : j.step # "notify"
      BY <3>2 DEF SignCreate, Without, Job
    <3>3. ASSUME NEW k \in jobs, NEW i \in JobIds, PdfEnqueue(k, i)
          PROVE  \A j \in jobs' \ jobs : j.step # "notify"
      BY <3>3 DEF PdfEnqueue, Moved, Without, Job, NewJob, FirstStep
    <3> QED
      BY <3>1, <3>2, <3>3 DEF Worker, JobAdvances, JobFails, Retries, PdfStore, PdfFinish, SignCreateFails,
         SignRun, SignNotify, CancelAtProvider, CancelMark, CancelGivesUp, Moved, Without, Job
  <2>5. Webhook \/ Provider \/ Elsewhere => jobs' = jobs
    BY WebhookFrame, ProviderFrame, ElsewhereFrame
  <2> QED
    BY <2>1, <2>2, <2>3, <2>4, <2>5 DEF Next, vars
<1> QED
  BY <1>1, <1>2, <1>3 DEF BackingIsKept

(* requestSignature writes the status with the backing already there. *)
LEMMA PendingStep ==
  ASSUME Sound, DraftsAreOwned, BackingIsKept, PendingIsBacked, [Next]_vars
  PROVE  PendingIsBacked'
<1> USE DEF Sound, TypeOK, database, provider, bounds
<1> SUFFICES ASSUME NEW p \in Proposals, status'[p] = "PENDING_SIGNATURE"
             PROVE  Backed(p)'
  BY DEF PendingIsBacked
<1>1. CASE status[p] = "PENDING_SIGNATURE"
  BY <1>1, BackedStays DEF PendingIsBacked
<1>2. CASE status[p] # "PENDING_SIGNATURE"
  <2>1. status' # status
    BY <1>2
  <2>2. ASSUME NEW c \in calls, ApproveWrite(c) PROVE Backed(p)'
    <3>1. c.p = p
      BY <1>2, <2>2 DEF ApproveWrite
    <3> QED
      BY <2>2, <3>1, BackedStays DEF ApproveWrite, BackingIsKept
  <2>3. ~Elsewhere
    BY <1>2, <2>1 DEF Elsewhere, OtherPdf, StatusElsewhere
  <2>4. ~Webhook
    <3>1. ASSUME NEW h \in hooks, HookProposal(h) PROVE FALSE
      <4>1. ProposalStatusOf(h.ev.type) # "PENDING_SIGNATURE"
        BY EventTables DEF Hook, Event
      <4> QED
        BY <1>2, <3>1, <4>1 DEF HookProposal
    <3> QED
      BY <2>1, <3>1 DEF Webhook, HookAdvances, HookCheck, HookFind, HookNotFound, HookEnvelope,
         HookStore, HookEnqueue, HookAudit, HookStops
  <2>5. Api => \E c \in calls : ApproveWrite(c)
    BY <2>1 DEF Api, ApproveRead, ResendRead, ResendCancelRow, ResendWithoutPdf, CallStops,
       ApproveEnqueue, ResendEnqueueCancel, ResendEnqueueSign
  <2> QED
    BY <2>1, <2>2, <2>3, <2>4, <2>5, WorkerFrame, ProviderFrame DEF Next, vars
<1> QED
  BY <1>1, <1>2

-----------------------------------------------------------------------------
(* The theorems. *)

LEMMA SignatureInvInit == Init => SignatureInv
BY SoundInit DEF Init, Sound, SignatureInv, DraftsAreOwned, EventsAreTrue, HooksAreSound,
   BackingIsKept, SignedHasEvidence, PendingIsBacked, RecordedWasProcessed

LEMMA SignatureInvStep == SignatureInv /\ [Next]_vars => SignatureInv'
BY SoundStep, DraftsStep, EventsStep, HooksStep, BackingStep, EvidenceStep, PendingStep,
   RecordStep DEF SignatureInv, Sound

THEOREM SignatureInvariant == Spec => []SignatureInv
BY SignatureInvInit, SignatureInvStep, PTL DEF Spec

(* A proposal is SIGNED only on the evidence of a closed envelope of its   *)
(* own that the database knows.                                            *)
THEOREM SignedOnEvidence == Spec => []SignedHasEvidence
<1>1. SignatureInv => SignedHasEvidence
  BY DEF SignatureInv
<1> QED
  BY <1>1, SignatureInvariant, PTL

(* No proposal waits for a signature that nothing will ask for.            *)
THEOREM PendingAlwaysBacked == Spec => []PendingIsBacked
<1>1. SignatureInv => PendingIsBacked
  BY DEF SignatureInv
<1> QED
  BY <1>1, SignatureInvariant, PTL

(* An event id goes on record only with the effects of the event behind it. *)
THEOREM RecordedAfterEffects == Spec => []RecordedWasProcessed
<1>1. SignatureInv => RecordedWasProcessed
  BY DEF SignatureInv
<1> QED
  BY <1>1, SignatureInvariant, PTL

-----------------------------------------------------------------------------
(* The refinement. *)

LEMMA InboxInit == Init => Inbox!Init
BY DEF Init, Inbox!Init

LEMMA InboxStep ==
  ASSUME SignatureInv, [Next]_vars
  PROVE  [Inbox!Next]_(Inbox!vars)
<1> USE DEF SignatureInv, TypeOK, database, provider, bounds
<1>1. CASE UNCHANGED <<emitted, outcome, audited>>
  BY <1>1 DEF Inbox!vars
<1>2. CASE UNCHANGED <<outcome, audited>>
  <2>1. emitted' \in SUBSET Event /\ emitted' = emitted \cup emitted'
    <3>1. emitted \subseteq emitted'
      BY NothingIsUndone DEF Sound
    <3>2. emitted' \subseteq Event
      BY SoundStep DEF Sound
    <3> QED
      BY <3>1, <3>2
  <2> QED
    BY <1>2, <2>1 DEF Inbox!Next, Inbox!Offer
<1>3. ASSUME NEW h \in hooks, HookNotFound(h) PROVE Inbox!Next
  <2>1. h.ev \in emitted /\ h.ev \in Event
    BY DEF HooksAreSound
  <2> QED
    BY <1>3, <2>1 DEF HookNotFound, Inbox!Next, Inbox!Miss
<1>4. ASSUME NEW h \in hooks, HookEnqueue(h) PROVE Inbox!Next
  <2>1. h.ev \in emitted /\ h.ev \in Event /\ h.ev.type \in SignedTypes
    BY <1>4 DEF HooksAreSound, HookEnqueue
  <2> QED
    BY <1>4, <2>1 DEF HookEnqueue, Inbox!Next, Inbox!Apply
<1>5. ASSUME NEW h \in hooks, HookAudit(h) PROVE Inbox!Next
  <2>1. h.ev \in emitted /\ h.ev \in Event
    BY DEF HooksAreSound
  <2>2. h.ev.type \in SignedTypes => outcome[h.ev] # "none"
    BY <1>5 DEF HooksAreSound, HookAudit
  <2> QED
    BY <1>5, <2>1, <2>2 DEF HookAudit, Inbox!Next, Inbox!Record
<1>6. Webhook => \/ UNCHANGED <<emitted, outcome, audited>>
                 \/ \E h \in hooks : HookNotFound(h) \/ HookEnqueue(h) \/ HookAudit(h)
  BY DEF Webhook, HookAdvances, HookCheck, HookFind, HookEnvelope, HookProposal,
     HookStore, HookStops
<1>7. Api \/ Worker \/ Provider \/ Elsewhere => UNCHANGED <<outcome, audited>>
  BY ApiFrame, WorkerFrame, ProviderFrame, ElsewhereFrame
<1> QED
  BY <1>1, <1>2, <1>3, <1>4, <1>5, <1>6, <1>7 DEF Next, vars

(* The webhook endpoint is an inbox: every step of the whole system, as    *)
(* far as events, effects and records go, is a step of EventInbox.         *)
THEOREM WebhookIsInbox == Spec => IsInbox
<1>1. SignatureInv /\ [Next]_vars => [Inbox!Next]_(Inbox!vars)
  BY InboxStep
<1> QED
  BY <1>1, InboxInit, SignatureInvariant, PTL DEF Spec, IsInbox, Inbox!Spec

=============================================================================
