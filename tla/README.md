# Verification of cadastro-api

TLA+ models of the membership-registration system in this repository (NestJS API,
BullMQ worker, Postgres, Next.js site), the TLC configurations that check them, and
theorems about them that TLAPS proves. `PROJECT.json` ties every definition that models
code to the lines it models, every property to a mutation of the code that breaks it, and
every hazard to the properties that watch it.

Paths below are relative to the repository. Short names: *ADM*
`apps/api/src/admin/admin.proposals.service.ts`, *PUB*
`apps/api/src/public/public.service.ts`, *UPL* `public.uploads.service.ts` and *SOC*
`public.social.service.ts` beside it, *CWH*
`apps/api/src/signature/clicksign-webhook.service.ts`, *TWH*
`apps/api/src/totvs/totvs-webhook.service.ts`; in `apps/worker/src`, *SW*
`signature/signature.worker.ts`, *TW* `totvs/totvs.worker.ts`, *OCR* `ocr/ocr.worker.ts`, *NW*
`notifications/notification.worker.ts`, *MW* `maintenance/maintenance.worker.ts`; in
`apps/web/app`, *FORM* `cadastro/CadastroForm.tsx`, *SDU* `cadastro/SmartDocumentUpload.tsx`.

## 1. The system

A candidate fills in a **draft**, uploads documents and submits; that makes a
**proposal**, which the staff reviews, sends back for documents, rejects or approves. An
approval makes a contract and an **envelope** at Clicksign; the signed contract comes
back as a webhook **event** and queues the registration of the **member** in the TOTVS
ERP, which approves the proposal.

| Component | State it keeps | Operations | What makes it hard |
|---|---|---|---|
| Public intake (*PUB*) | `Draft`, `Person`, `Proposal`, `StatusHistory`, document owners | create/update draft, request OCR, submit, track, erase, daily cleanup | submit is a chain of awaits around one transaction; double submissions, cleanup and uploads in between |
| Public uploads (*UPL*) | `DocumentFile` rows, files in S3 | presign, direct upload, answer to a pendency | the row is written before the file, to an owner looked up earlier |
| Registration form (*FORM*, *SDU*, `hooks/useViaCep.ts`) | the form, the draft it saves to, a copy in the browser | autosave, pages, uploads, reading of documents, address by CEP, networks, submit | effects and closures over old renders; answers in any order |
| Social accounts (*SOC*) | `Draft.data.social`, `SocialAccount`, state tokens | consent, callback, refresh, profile, disconnect | shares `Draft.data` with the autosave; a network answers once what the row must keep |
| OCR (*OCR*) | `OcrResult`, one status change | `ocr.process` | seconds between what it reads and what it writes; documents change owner |
| Review desk (*ADM*) | `Proposal.status`, `StatusHistory`, analyst, notes | start review, request changes, reject, bulk status, assign, approve, resend, reprocess | a dozen handlers read, check and write without lock or conditional update |
| Triage (`proposal-triage.service.ts`), reminders (`signature-reminder.service.ts`) | `slaDueAt`, `slaBreachedAt`, analyst, notices | recalculate terms, warn, share out, remind | scheduled loops over a snapshot of a query |
| Signature flow (`signature.service.ts`, *SW*, *CWH*) | `SignatureEnvelope`, PDFs, audit rows of events, envelopes at Clicksign | approve, resend, `pdf.generate`, `signature.create`, `signature.cancel`, dossier and audit PDFs, webhook | three programs, retries from the first line, events before their row, duplicate deliveries |
| TOTVS synchronisation (*TW*, *TWH*) | `TotvsSync`, status, the member in the ERP | `totvs.sync`, reprocess, webhook | an answer that never comes, a stop between two writes, stale copies |
| Notifications (*NW*, `notifications.service.ts`), one-time codes | `Notification`; the codes are kept by Twilio Verify | enqueue, send, delivery webhooks, relay a code | provider call and row not atomic; reports out of order |
| Maintenance (*MW*) | nothing of its own | nightly cleanup of documents, notices and logs, backup | deletes what others still look up |
| Queues (`jobs.service.ts`) | BullMQ queues | add with attempts and backoff | at-least-once; retry from the first line; failed set |
| Staff accounts (`admin.users.service.ts`), authentication | `AdminUser`, roles; tokens and cookies | create, edit, switch off; login, refresh, logout | two administrators at once |
| Back-office pages, tracking page | what is on the screen, the URL | list with filters and bulk actions, dossier, accounts; track, erase, disconnect, send a document | loads and actions overtake each other |
| Encryption, storage, observability, configuration | none | library calls | - |
| Validators (`packages/shared`) | none | CPF, phone, e-mail, CEP | boundaries of pure functions |

How they meet: everything meets in the **database**, `Proposal.status` above all, which the
review desk, the uploads, OCR, the Clicksign webhook, the TOTVS worker and the TOTVS
webhook write. The API calls the worker through **queues**; Clicksign, TOTVS, SendGrid and
Twilio call the API through **webhooks**; the pages call the API and keep copies. Only the
creation of a proposal, its erasure, the bulk operations, the roles of an account and the
exchange of a social account use a transaction; no write is conditional on what was read.

What each must get right:

- *intake and form*: nothing the candidate gave is lost; an accepted proposal has its documents, and is not older than the form was;
- *reading of documents, address*: what is confirmed was read from what is shown; an address goes with its CEP;
- *social accounts*: one account of a network, with tokens the network takes, and none after a disconnection;
- *review desk, triage, reminders*: the history tells of every status, in an order that makes sense; terms are watched, loads even, each reminder comes once;
- *signature*: SIGNED rests on a closed envelope of that proposal; a waiting proposal has something behind it; an event is silenced only when done; a signature is taken up;
- *TOTVS*: APPROVED and SYNCED mean a member, members have signed, a signed one is settled;
- *notices*: nobody is told twice without a loss; the status shown is founded;
- *retention*: no row goes before its object, no object of a row that stays, what is too old goes;
- *pages*: what is shown is of what was asked for, what is sent is of what is shown.

The hazards, each at its line, are listed in `PROJECT.json`.

## 2. The modules

| Module | Models | Kind |
|---|---|---|
| `Cadastro` | enums of `schema.prisma` and the small tables of the code (event to status, statuses that allow an operation) | vocabulary |
| `Signature` | the signature flow | detailed |
| `EventInbox` | what a webhook endpoint owes the sender of events | abstract |
| `TotvsSync` | the registration of members | detailed |
| `ReviewDesk` | every writer of `Proposal.status` and its history | composition |
| `Timeline` | what the history promises | abstract |
| `DraftIntake` | drafts, uploads, submission, hand-over, OCR jobs, cleanup | composition |
| `DraftForm` | the form with its draft, its copy in the browser, its networks, against the API | composition |
| `OcrReading` | the widget that uploads a document, has it read and fills the form in; the verdict on name and CPF | composition |
| `AddressFields` | the address by CEP: lookups, autosaves, merge, submission | composition |
| `SocialAccounts` | consents, callbacks, refresh of tokens and profiles, disconnection | detailed |
| `Notices` | a notice from its row to the delivery report | detailed |
| `Retention` | the cleanup of documents beside the erasure and the expiry of drafts | composition |
| `Triage` | terms, breaches, warnings and the sharing-out of proposals | detailed |
| `Reminders` | the daily reminder of a signature | detailed |
| `ProposalList`, `Dossier`, `StaffAccounts`, `Tracking` | the four pages that act, each with the endpoints it calls | detailed |
| `WebPages` | the four pages, one mounted at a time | composition |
| `MCSignature`, `MCTotvsSync`, `MCReviewDesk`, `MCDraftIntake`, `MCDraftForm`, `MCSocialAccounts`, `MCNotices`, `MCRetention`, `MCWebPages` | instances for TLC | model checking |
| `MCSchedules`, `MCFormFields` | `Triage` and `Reminders`, `OcrReading` and `AddressFields`: each followed with the other at rest, as the two share no row (no field) | model checking |
| `Signature_proofs`, `Notices_proofs`, `Retention_proofs` | theorems about the module of that name | proofs |
| `Proposals_proofs` | theorems about `DraftIntake` and `ReviewDesk` | proofs |
| `Partners_proofs` | theorems about `TotvsSync` and `SocialAccounts` | proofs |
| `CandidateForm_proofs` | theorems about `OcrReading` and `AddressFields`, as `MCFormFields` puts them together, and `DraftForm` | proofs |
| `Schedules_proofs` | theorems about `Triage` and `Reminders` | proofs |
| `WebPages_proofs` | theorems about the four pages, as `WebPages` puts them together | proofs |

**Granularity.** One database statement, queue call or provider call is one step; reads
that follow one another with no effect between them are one step. A handler with several
effects becomes a record (a request, a job, a call) with a `step`, so that it interleaves
with everything else at its awaits. A page's request is three steps: it is sent, the API
does it, the answer is heard or lost. What a render reads is state at the time of the
click; what a closure keeps travels in the call. A BullMQ attempt that throws goes back to
its first line with one attempt fewer; after the last it stays in the failed set. A request
that throws, or whose process ends, disappears with what it has done so far.

**Signature.** `ApproveRead/Enqueue/Write` is `requestSignature`, which queues the
contract before it writes the status; `Resend...` is `resendSignatureLink`; `Pdf...`,
`Sign...` and `Cancel...` are the three jobs; `Hook...` is `handleWebhook` and
`Provider...` is Clicksign. `outcome` is a history variable for what an event led to.

**TotvsSync.** `Read` to `Notify` is `handleJob`; the answer of the ERP is `PostAccepted`
(2xx or 409), `PostRejected` or `PostTimesOut`, after which the ERP may have the member
or not. `ReprocessMark/Enqueue` is the back office, `CallbackRow/Status` the webhook.

**ReviewDesk.** A handler is its read with its guard (`Opens`), leaving an open call
with a copy of the statuses, and the write that closes the call (`Closes`), whose entry
takes its `from` from the copy. A bulk operation writes all its proposals at once.

**DraftIntake.** `Submit...` follows `submitProposal` await by await; deletions
cascade as `schema.prisma` says (`DocsWithout`, `ResultsWithout`); foreign keys make a
write fail when its owner is gone. `skipped` is history: jobs ended for want of a recogniser. The daily cleanup is its two effective statements.

**DraftForm.** One text field stands for the form's fields (0 is blank: a blank field is
left out of the save, so `MergedData` keeps the old one). `Asks` is `ensureDraft`, `Saves`
`syncDraft`, `Submits` `submitProposal`; `Connects`/`Disconnects` and the callback are the
other writers of `Draft.data`, which read, wait and write a copy (`ReadsDraft`,
`WritesDraft`). `Leaves`, `Reloads`, `Restores` and `Discards` are the copy in the browser.

**OcrReading.** `uploads` and the widget's `flow` follow `processUpload`,
`handleTriggerOcr`, `pollDraftOcr`, `handleOcrConfirm`; the worker's steps read the image,
then the draft's name and CPF, then write the result (`vision`: is there a recogniser?). An
image too small is not read (`FoundOn`), one with few letters is compared like any other.
`Polls` is one look at the results, the wait after it lasts until the next step of the
widget, and `GivesUp` is the end of the last wait; `widget.seen` is history, the results there
were at the last look. `Distance` is the code's table of `levenshteinDistance`;
`VerdictIsFounded` judges it by `EditCost`, the least number of changes, defined without the
table. `NewDocs` takes the ids of new rows in one order, as nothing depends on which they are.

**AddressFields.** A lookup is a record with its CEP and whether it was aborted; what a
part of the address shows is `Resolved` (typed by hand, else from the latest answer).
`Over` is `mergeDraftData`. `loose` is a history flag of a payload built with a lookup
under way or failed.

**SocialAccounts.** A grant is a consent the network exchanged; a token is a pair of
grant and generation, and `honoured` is the generation of the refresh token the network
still takes. The refresh reads a copy, asks the network, writes; the profile is written
afterwards with the token data of the copy.

**Notices.** A notice has a row, a job with a `step`, and at the provider the number of
messages `sent`, those that `arrived` and those it refused; reports name a message, the row
the message it knows (`msg`).

**Retention.** Each file has a row, an object and a writer (between them); the eraser
and the cleaner are records with the list they read, what is left of it and what failed.

**Triage.** A run is a record that goes through its phases over the lists it read; time
is a clock of few ticks. `crossed` and `fresh` are history of overlaps.
**Reminders.** A day has a run that lists, looks for earlier notices and reminds in one
channel after the other; envelopes are sent, replaced and signed between mornings.

**Pages.** `ProposalList` has the filters, the debounced search, the order and the page,
the loads under way (numbered) and the rows; `Dossier` the form copied from a load and what
was typed into it; `StaffAccounts` the list, the dialog and the transactions of two
administrators; `Tracking` the URL, the proposal shown, the codes and what the candidate asks.

**Refinements.** `Signature` implements `EventInbox` (`IsInbox`: offered is what Clicksign
emits, recorded is the audit rows). `ReviewDesk` implements `Timeline` (`IsTimeline`).

## 3. What TLC checks

Every run passes. A name that ends in `Inv` is a conjunction of named parts, the type
invariant first; the parts are stated one by one in the modules. Where the table says
*inductive*, the invariant is the one that section 4 proves, with all its strengthening.

| Run | Module | Shows |
|---|---|---|
| `SignatureRetry` | `MCSignature` | `SignedHasEvidence`, `PendingIsBacked`, `RecordedWasProcessed`; the inductive `SignatureInv` |
| `SignatureSettled` | `MCSignature` | liveness: `ApprovalIsAnswered`, `EventsAreServed` (a known signature has its effects, every event is on record in the end); the refinement `IsInbox`; two overlapping deliveries |
| `TotvsRegister` | `MCTotvsSync` | `SyncedIsMember`, `MemberHasSigned`; the inductive `SyncInv` (with `SyncedHasId`); liveness: `SignedIsSettled` |
| `DeskOverlap` | `MCReviewDesk` | the inductive `DeskInv`, the refinement `IsTimeline` |
| `IntakeRaces` | `MCDraftIntake` | `DraftIsNotLost`, `AcceptedIsComplete`, `AcceptedIsRead`, `DocumentsAreKept`; the inductive `IntakeInv` (with `OneIsAccepted`, `ResultsAreOfOwner`) |
| `FormSaves` | `MCDraftForm` | `FormInv` (the upload shown is of the draft that will be submitted) and, inductive with it, `AcceptedIsNotOlder`; `DraftGoesBackOnlyByCrossing` |
| `NoticesSent` | `MCNotices` | the inductive `NoticesInv` (nobody is told twice without a loss, the status is founded); liveness: `EveryJobEnds` |
| `RetentionKeeps` | `MCRetention` | the inductive `RetentionInv` (files in use are there, nothing comes back), `RowGoesAfterItsObject`; liveness: `OldRowsGo` |
| `SchedulesRun` | `MCSchedules` | the inductive `TriageInv` (one warning, even loads, one filter, breaches on record), `AssignmentStands`; the inductive `RemindersInv` (once, on its day, in order) |
| `AccountsKept` | `MCSocialAccounts` | the inductive `AccountsInv` (one account, none after a disconnection) and, with it, `TokensAreKept` (of their consent, expiry not late, refresh token alive) |
| `FieldsFilled` | `MCFormFields` | the inductive `FieldsInv` (types, what is shown is stored, the form knows what is not saved), `AddressIsOfItsCep`, `VerdictIsFounded`, `ConfirmedIsOfShown`; liveness: `WaitEndsWell` |
| `ScreensShown` | `MCWebPages` | the inductive `ScreenInv` (of each page, what its answers may still be shown for; roles of one change, only what is shown is changed); `ShownIsOfAsked`, `SentIsOfShown`, `SavesLoseOnlyByCrossing` |

Many of these hold but for crossings that the code does not prevent. Such a property names
the crossing, as a disjunct over a history variable, and so says that there is no other way;
section 5 lists what can be seen when they do cross.

**Bounds, and why they are enough.** Each bound is a constant.

- `SignatureRetry`: one proposal, two envelopes, two queued jobs, two staff requests (an
  approval and a resend, or two of a kind), two attempts, one request or attempt that stops
  half way. So a resend replaces an envelope that is running, closed or being made, its
  cancel job meets the callback and the echo of the cancellation, and a retry leaves an
  envelope behind. Two attempts stand for three: the second is the first retry, and the
  third adds no new kind of step. `SignatureSettled` trades the second envelope and the
  second request for a second delivery, so that duplicates overlap, a second stop, so that a
  job may use up its attempts, and a staff that writes the status meanwhile. Two proposals
  change nothing that the properties see, since no step looks at more than one; the proofs
  do not have the bound.
- `TotvsRegister`: two signings, two requests (reprocess or callback), two jobs of two
  attempts, one crash between two writes: two jobs of one proposal with a callback between
  their writes. `SignedIsSettled` excepts that crash and a second signing (section 5).
- `DeskOverlap`: three overlapping handlers on two proposals: a bulk operation over both
  with one handler stale on each side; TOTVS may report on either from the start.
- `IntakeRaces`: one draft, two submissions of it that may both stop, two attempts, a
  required document that is read and another one, and a worker with or without a recogniser.
- `FormSaves`: two drafts (the one left behind and the one submitted), one network, two
  calls under way at once, any number of them in turn; two moves of the candidate, an edit
  or something that goes wrong each, so that there is an older and a newer text.
- `NoticesSent`: two notices in turn, by a channel with reports and by one without; one
  error, lost answer or stop, two attempts.
- `RetentionKeeps`: a file that is uploaded and one that is made, a batch of one (so that
  there are rounds), two storage errors or stops.
- `SchedulesRun`: two proposals, two analysts and two runs for the triage, with two ticks of
  the clock and one move of somebody else; for the reminders two proposals, two envelopes,
  eight days, of which one may be missed, and three moves between mornings.
- `AccountsKept`: two consents, two views of the dossier, one fault; two networks, one that
  rotates refresh tokens and one that has none (what YouTube does Spotify may do); three generations of a token.
- `FieldsFilled`: two documents, three photographs (one as it should be, one of another kind
  with few letters and a CPF misread, one too small), names of three letters at the distances
  that decide, a CPF that is valid and one that is not, a worker with or without a recogniser,
  an API that gives one result (the code: five) and a widget that looks twice (six), two
  readings asked for, one edit (typed, or a correction of what was read), one failure; two CEPs,
  three typings, two saves, one lost. A third save, by which the merge of two drafts is seen
  too, was checked apart (3.6 million states).
- `ScreensShown`: two proposals of which one fits a page, two orders and a column the API
  does not sort by, one search, one bulk action and one row moved by others; two protocols,
  one network, two turns of the staff; two fields, two documents, two readings; in the dossier
  one action, or two documents opened (so that the URL of one overtakes the other's), beside
  one write of another analyst (two actions were checked apart); two accounts, one of which may
  not be there yet, one request and one of another administrator.

**Symmetry** is declared only where constants are interchangeable and the run has no
liveness property. **Deadlock** is not checked: the bounds on requests, attempts and
faults make every model stop once they are used up, and a system with nothing to do
stops too. That a request or job in flight goes on is what the liveness properties say.

**Fairness, and why the code justifies it.** BullMQ keeps taking jobs while a worker
runs, so a queue on which some step is possible makes one (`WF` on the whole queue in
`Signature` and `TotvsSync`, on each notice's job, its provider's answer included, in
`Notices`). Node goes on with a request whose await has returned (`WF` on requests and
webhook calls). Clicksign repeats an event until it is answered without an error (`WF` on
delivering one that is not on record). The nightly cleanup is repeated by its scheduler
(`WF` on the cleaner). A page that stays open runs its timers and effects (`WF` on the
widget's own steps in `OcrReading`); the worker that reads the document is not assumed to.
Nothing is assumed of the staff, of the candidate or of failures, and the number of failures
that are not retried by the queue is bounded.

## 4. What is proved

TLAPS proves, for every value of the constants that satisfies the named assumptions:

| Module | Theorems |
|---|---|
| `Signature_proofs` | `SignatureInvariant`, `TypeCorrect`, `SignedOnEvidence`, `PendingAlwaysBacked`, `RecordedAfterEffects`, `WebhookIsInbox` |
| `Partners_proofs` | `SyncInvariant`, `SyncTypeCorrect`, `SyncedMeansMember`, `MembersHaveSigned`, `SyncedRowHasId`; `AccountsAreSafe`, `TokensStayKept` |
| `Proposals_proofs` | `IntakeInvariant`, `IntakeTypeCorrect`, `DraftsAreNotLost`, `OneSubmissionAccepted`, `AcceptedAreComplete`, `OcrIsOfOwner`, `ProposalsKeepDocuments`, `AcceptedAreRead`; `DeskInvariant`, `DeskKeepsTimeline` |
| `Notices_proofs` | `NoticesAreSafe` |
| `Retention_proofs` | `RetentionIsSafe`, `RowsGoAfterTheirObjects` |
| `Schedules_proofs` | `TriageIsSafe`, `AssignmentsStand`, `RemindersAreSafe` |
| `CandidateForm_proofs` | `FieldsAreSafe`, `AddressGoesWithItsCep`, `ConfirmedWasShown`, `ReadingsAreFound`; `FormIsSafe`, `AcceptedIsWhatWasShown`, `DraftsGoBackByCrossing` |
| `WebPages_proofs` | `ScreensAreSafe`, `ScreensShowWhatWasAsked`, `SentIsOfTheScreen`, `LostOnlyByCrossing` |

The assumptions are those on the constants (finite bounds are naturals, ids of different
kinds differ, every envelope has one owner, the staff's other statuses do not include the
ones the component itself decides). None bounds the number of anything; the triage, whose
invariant speaks of numbers of proposals and of the least load, takes the proposals, analysts
and runs to be finitely many (`FiniteAssumption`), the list, whose pages are counted, its
proposals (`ListAssumption`), and the reminders need a proposal that their envelopes can be
of (`WaitingAssumption`).

None of the safety properties is inductive by itself. What each needs besides:

- **`SignatureInv`.** `SignedHasEvidence` needs that a signed event comes only from a
  closed envelope (`EventsAreTrue`), that nothing sets a closed envelope running again
  (`DraftsAreOwned`: the envelope a job is about to run is a draft, of that job alone)
  and that a webhook past its lookup has a row (`HooksAreSound`). `PendingIsBacked` needs that the
  backing is there before the write and is handed on from job to job (`BackingIsKept`).
  `RecordedWasProcessed` needs that a webhook arrives at the record with its effects done.
- **`SyncInv`.** A job past the ERP's answer has a member, a job past its read has a
  signing (`JobsAreSound`), a callback is about a member (`ReportsAreSound`), and SIGNED
  was booked (`SignedIsBooked`).
- **`DeskInv`.** The history tells of the present status and of every copy a handler
  works from; it does so for good because no entry is taken out. The refinement follows.
- **`IntakeInv`.** The documents that were checked stay the draft's until they are the
  proposal's (`CheckedAreHeld`), unless the draft expired or another submission of it
  was born; who was accepted deleted the draft (`AcceptedHasDraft`), which is what makes the
  other submission fail at its last step; an upload in flight is the only one for its row.
  `AcceptedIsRead` needs that a reading is queued before the answer (`EnqueuedAreKnown`), and
  that a reading once known stays so: its job ends in a result, in the failed set or, where
  the worker has no recogniser, unread.
- **`NoticesInv`.** A ledger: every message the provider took is the one that the job books or
  an attempt's loss (`SentIsAccountedFor`), so a second one needs a loss. A job that goes on
  has an attempt left, and is queued once (`JobsAreSound`).
- **`RetentionInv`.** What has left a remover's list without a failure is no longer stored,
  unless it was written after the list (`RemoversAreSound`); the cleanup lists only what is
  old, an erasure all there is; a file the system makes has its object before its
  row (`MadeFileIsStored`). The action property follows from it.
- **`AccountsInv`, `TokensAreKept`.** Unless callbacks overlapped, one at a time is between its
  two statements, and saw every row there is (`OverlapIsNoted`). What a consent or a view has in
  hand was issued to that grant (`ConsentsAreSound`), unless views crossed it is the row as it
  is (`ViewsAreSound`), and no token outlives one issued now (`IssuesAreSound`).
  The proof follows one grant at a time (`Fits`).
- **`TriageInv`.** Terms are counted from the submission and breaches are of the past
  (`TermsAreSound`): no step takes a breach back. So a run that skipped a proposal by its copy
  skipped none that needed an update (`RecalculationIsSound`), whatever the
  other runs have written. Only one proposal is being warned of in a run (`WarningsAreSound`). A
  run nobody disturbed counts as the database would, and adds to a least load, which cannot
  spread the loads by more than one (`CountIsSound`); that a finite set of loads has
  a least and a greatest is had by well-foundedness. `AssignmentStands` follows from it.
- **`RemindersInv`.** What a run took off its list has its reminder (`ListIsWorkedOff`), one
  envelope at a time is reminded of, in the channels in turn (`RoundIsSound`); what is listed
  for the last reminder has had the first (`FinalsAreDue`); an envelope is out only of a
  proposal that is there (`PlacesAreSound`).
- **`FieldsInv`, `AddressIsOfItsCep`.** Unless an upload failed since the last that worked, form
  and widget have the same document, it is in the storage, and what is previewed is of it
  (`WidgetIsSound`); from this comes `ConfirmedIsOfShown`. What was there at a look in vain had
  been crowded out (`LooksAreSound`, kept as results are only appended), which gives
  `ReadingIsFound`. One lookup at most is not aborted, and it is of the
  CEP in the field (`LookupsAreSound`), so the answer there is goes with it (`AnswerIsOfCep`);
  so does what was saved (`SavedIsOfItsCep`), which a merge keeps.
- **`FormInv`, `AcceptedIsNotOlder`.** Form and draft are on the page or in the browser's copy,
  never both, and only an open page, or the one callback of a page at a network, waits for
  answers (`PagesAreSound`). Unless two drafts were asked for, one call at a time asks for one,
  and all that is shown or waited for is of the draft in hand (`TabHasOneDraft`); a new row is
  none of those (`DraftsAreMade`). The form's text is newer than those that calls took with them, or
  blank (`TextsAreNewer`), so what a submission saved is not overwritten by an older one
  before the API reads it (`SavedTextStays`). A row's data changes only by the write of a call
  that moves on with it, which is `DraftGoesBackOnlyByCrossing`.
- **`ScreenInv`** and the other properties of the pages. A page that is not mounted is closed
  or as it was opened, so each page has an invariant of its own. Answers are neither
  cancelled nor put in order; each invariant says of every answer under way what it may
  still be shown for. `ListInv`: the last load is of the present query (`LastLoadIsOfQuery`), the
  rows ticked are of those listed (`TicksAreListed`). `DossierInv`: a load carries data as
  they were at their time (`LoadIsSound`, `IsAsRead`), and so does the form copied from it
  (`FormIsSound`), hence a save can only take back what came after; a correction is of the
  reading seen (`OcrIsSound`, `ActionIsSound`). `StaffInv`: a row is as the account was when it
  was read, and no older than the page's own last change (`RowsAreSound`), and so is the dialog
  (`EditIsSound`); unless two overlap, a transaction deletes the roles there are
  (`RequestsAreSound`). `TrackingInv`: an answer is of the proposal it was asked for, the latest
  of the one in the URL (`LoadsAreSound`); what is asked is of what was shown (`AsksAreSound`),
  and a network shown is gone only while the page has yet to hear of it (`ShownNetsAreThere`).

TLC checks each inductive invariant on its instance first (section 3); the proofs have one
lemma per action or group of actions and, under it, a step per conjunct it can disturb.

**Only model-checked:** every liveness property, with `IsInbox`'s liveness half (fairness and
ENABLED are beyond the prover), and `VerdictIsFounded` of the form's fields, which compares the
code's table of distances with the least cost over all names: that takes an induction over
data. No module with a theorem uses a RECURSIVE operator.

## 5. Where the code and its documents part

The models have these behaviours; each is a formula that fails, and adding it to the run
named shows the trace.

1. An event that comes before the row of its envelope (the signer is notified before the
   row is written, or the attempt failed in between) is recorded as not found, and every
   later delivery is silenced (*CWH*:113; `docs/architecture.md:175`). PROPERTY
   `EverySignatureIsProcessed` in `SignatureSettled.cfg`.
2. The resend sends the newest PDF of any type (*ADM*:954, whose error at 963 speaks of
   the contract). INVARIANT `OnlyContractsAreSigned` in `SignatureRetry.cfg`.
3. An attempt cut short between SYNCED and APPROVED leaves the proposal SIGNED for good: the
   next attempt stops at SYNCED (*TW*:89, 165; `docs/TOTVS_INTEGRATION.md:294`). A
   second signed event after the approval ends the same way. `SignedIsSettled` excepts both.
4. The pendency of an OCR mismatch is opened by the status read before the recognition
   (*OCR*:275; `docs/architecture.md:172`). PROPERTY `OcrFlagsInReview` in `DeskOverlap.cfg`.
5. Two submissions with one e-mail both pass the lookup, and no key forbids it (*PUB*:180;
   `docs/_spec_extract.txt:666`). INVARIANT `EmailIsUnique` in `IntakeRaces.cfg`.
6. An erasure leaves, without a row, what is stored after it has read its list
   (*PUB*:576; `docs/COMPLIANCE_LGPD.md:40`). INVARIANT `ErasureTakesEveryObject` in
   `RetentionKeeps.cfg`.

Other behaviours that a reader of the code may not expect. No property forbids them, either
because no document settles what is wanted or because a stated property already covers the
case.

*Signature and TOTVS.*
- Two overlapping deliveries of one event both take effect, so two TOTVS jobs are queued
  (*CWH*:68; `docs/security-checklist.md:18` promises idempotency); `EventInbox` says "again".
- If Clicksign reports a cancellation made through the API, a resend turns the proposal
  REJECTED (*CWH*:333). The cancel job takes an exception for success, and the replaced
  envelope can be signed (*SW*:323). A resend on a signed proposal writes CANCELED over its
  SIGNED envelope (*ADM*:943), and one without a PDF cancels the old envelope and then fails (*ADM*:962).
- TOTVS may report and so approve one who was a member before and has not signed (*TWH*:39); an
  answer without an id overwrites a known id with null (*TW*:147); the job approves by the
  status it read, undoing a cancellation in between (*TW*:165); a timeout leaves the row
  PENDING (*TW*:144), and so does reprocessing a proposal that the job then skips (*ADM*:1035).
- A reminder is due on one day only; a missed or cut-short run is not made up for; the list is
  not looked at again; after a second approval two envelopes can be out, and the reminder may
  carry the older link.

*Staff.*
- Most handlers have no guard on the status: REJECTED is reopened by an ordinary click (*ADM*:563).
- The automatic assignment may overwrite one made by hand after the list was read; `assign`
  does not ask whether the analyst is active; terms run on while documents are pending; a
  proposal erased meanwhile aborts the whole run.
- A bulk PENDING_DOCS names the missing items in its e-mail but writes no log of them, so the
  tracking page shows those of an earlier request (*ADM*:428); `requestChanges` writes its
  log after the status (*ADM*:577).
- "Limpar filtros" and the search chip do not clear the search: the text is put back by the
  debounce (`ProposalsFilters.tsx:87-95`). Loads are not cancelled. The bulk dialog may name no
  proposal any more, and the list is not loaded again after a bulk action.
- Saving a reading in the dossier throws away what was typed in the data form; a save
  of the data carries no version; a correction goes into whichever reading is the latest.
- Two changes of roles that overlap leave the union of both, or the second fails on the key;
  an edit writes `isActive` from its copy; an answer closes whichever dialog is open.
- `admin.push.controller.ts:36` subscribes a device for `req.user.sub`, where the token has
  `id`: no subscription can be written. `Notices` takes subscriptions to be there.

*Candidate.*
- A document row may have no file (*UPL*:61). A submission that stops after its transaction
  leaves a draft that can be submitted no more, its e-mail being taken (*PUB*:355).
- A field that was saved cannot be cleared again in the draft. `submitProposal` swallows a
  failed save and submits the older draft. Without a known draft, two uploads make one each.
  The callback of a network writes back a copy of the draft read before the exchange.
- Where the worker has no recogniser (`OCR_ENABLED=false` or no credentials) its jobs end as
  done, with no result and no failure to see (*OCR*:117).
- `handleUpload` and `PendingItems` do not look at the outcome of the PUT; the widget takes
  the failed document for the current one. A further reading request reads every document
  again, and of the results the API gives five. The widget waits four seconds after its sixth
  look and does not look again: a reading stored meanwhile is there, and the candidate is told
  that there is none (`SmartDocumentUpload.tsx:351-364`); asked for anew it is found.
- An image with too few letters is compared like any other; one too small has a result without
  a comparison (*OCR*:148, 173). A draft with a CPF that is not valid is refused in whole.
- After another CEP is typed, the street of the one before stays, is saved and can be
  submitted until the lookup answers, for good if it fails; a blanked field shows the looked-up value again; a
  save with half a CEP is refused in whole and submit goes on; the merge keeps the street of an
  earlier save.
- Disconnecting and erasing do not revoke anything at the network. Overlapping callbacks
  leave two accounts. A crash between the exchange and the update loses a rotated refresh
  token. Two submissions of one draft give two accounts that share tokens.
- On the tracking page a failed load keeps the old proposal, a disconnection takes the
  network off whichever proposal is shown by then, an erasure closes whatever is shown.

*Notices and retention.*
- A message about an erased proposal is still sent, up to the last attempt; a report that
  comes before the message id is stored is dropped; a row whose job used up its attempts may
  stay PENDING.
- The cleanup drops a row though the storage failed its object; objects of expired drafts are
  never deleted; audit rows go after 365 days, those that silence duplicates among them,
  while `COMPLIANCE_LGPD.md` speaks of five years for some.

## 6. What the models assume

- An event id names one event. The code falls back to `data.id` (*CWH*:365), so this is a
  fact about Clicksign's payloads; so is that an event names its envelope and its type: one
  without is put on record with no effect (*CWH*:90).
- Whether a worker has a recogniser is settled when it starts (`vision`), as long as a run lasts.
- `CancelEchoes` stands for whether Clicksign reports cancellations by API; the runs take
  TRUE, the proofs hold for both.
- `ReturnsId` stands for whether TOTVS puts the id in every answer. The runs take TRUE; the
  proofs cover both, and `SyncedHasId` is claimed for TRUE only.
- `Earlier` are proposals whose person TOTVS has as a member beforehand. The runs of
  `TotvsSync` take none, those of `ReviewDesk` both; the proofs cover any.
- The database is strongly consistent and a statement is atomic; transactions run at READ
  COMMITTED. What `schema.prisma` makes unique is unique: a TOTVS row per proposal, the
  protocol, an account's e-mail and its (account, role) pairs; e-mail hash, envelope id and
  (person, network) are not. A proposal takes its rows with it and leaves its audit rows.
- Equal OCR jobs that wait at one time count as one: they do the same twice.
- One CPF belongs to one proposal in `TotvsSync`; the lookup of a report over several
  proposals of one person is not modelled.
- One instance of the API runs the schedulers, and the daily run comes at the same hour.
- An action in flight when a page is left is taken to arrive.
- A network honours one refresh token of a consent at a time if it rotates them, and the
  same one for good if it does not.
- Neighbouring statements are one step where nothing that is claimed lies between them: the
  subscription and the row of a push that is given up (`Notices.GivesUp`,
  `notification.worker.ts:128-138`), the count of the list and its page
  (`ProposalList.ListRows`, *ADM*:142-150; no property compares them), the latest reading
  looked up and updated (`Dossier.ApiUpdatesReading`, *ADM*:726-760).
- `StaffAccounts` takes a role off by its name, the code the rows it knows: a row deleted and
  made anew by a transaction in between would stay (`admin.users.service.ts:116-124`). The
  properties except overlapping changes of roles.
- `DraftForm.Refreshes` asks for the networks once after a return from one;
  `pendingSocialRefresh` lasts until the answer (`CadastroForm.tsx:811-816`), so a draft that
  changes meanwhile is asked about again, with the same outcome as a later refresh.

## 7. Not modelled, and why

- The contents of PDFs, messages and profiles, recognition itself and the extraction of fields
  by regular expressions, encryption, storage and logging carry no state that the properties
  depend on: an exception of theirs is a step that stops. The dossier and audit jobs appear as
  the files they leave behind; the export only reads. Backoff delays are "later".
- Login, refresh and logout of the staff: tokens and cookies without a row of their own. (The
  refresh copies id and roles from the old token, so a role taken away lasts as long as the
  session, and a refresh that answers after a logout brings the session back.)
- The validators: pure functions, whose verdict is a constant set of the models.
- The backup runs a command. Subscriptions to push are there or not. The shell, the
  dashboards and the pages that only show a list or a queue keep no state to speak of; the
  camera, the crop and the masks of the form neither.
- The reading of audit logs by age (*MW*:73) beside the webhooks that look them up: a delivery
  repeated after a year.

## 8. Plan

The modules of section 2 are done. What is left, in order of weight:

1. **`Lifecycle`**: `Signature` and `TotvsSync` on one `Proposal.status`, with the abstract
   life of a proposal. Theorem: APPROVED implies a closed envelope, across both components.
2. **`Validators`**: CPF check digits against their definition, phone, e-mail, CEP, over
   bounded inputs (the area codes of `packages/shared` lack 87, for one).
3. **`Sessions`**: refresh, logout and deactivation of the staff.
