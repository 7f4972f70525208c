----------------------------- MODULE DraftIntake -----------------------------
(***************************************************************************)
(* From the draft of a candidate to a submitted proposal with its          *)
(* documents: PublicService (createDraft, requestDraftOcr, submitProposal, *)
(* cleanupExpiredDrafts), PublicUploadsService and the worker's            *)
(* ocr.process job.                                                        *)
(*                                                                         *)
(* submitProposal is a chain of awaits of which only the creation of the   *)
(* proposal is a transaction: the draft, the e-mail and the documents are  *)
(* read before it, the documents are handed over and the draft is deleted  *)
(* after it.  Uploads, a second submission (a double click, a retry of the *)
(* browser) and the daily cleanup may come between any two of these.       *)
(* One statement of the database is one step.                              *)
(*                                                                         *)
(* Left out: what a draft says (only its e-mail matters here), and the     *)
(* notifications after the hand-over, which can only end the request.      *)
(***************************************************************************)
EXTENDS Naturals

CONSTANTS
  Drafts,       (* drafts                                                  *)
  Docs,         (* ids of DocumentFile rows                                *)
  Submissions,  (* POST /public/proposals requests, and the proposal each  *)
                (* creates                                                 *)
  NoDraft,      (* a submission that has created nothing yet               *)
  TypeOf,       (* DocumentFile.type                                       *)
  Required,     (* types the draft's documentChoice asks for               *)
  OcrTypes,     (* types that are sent to OCR                              *)
  Email,        (* e-mail the candidate wrote in the draft                 *)
  MaxAttempts,  (* "attempts" of an ocr.process job: 3 in the code         *)
  MaxFaults     (* bound on submissions that stop half way                 *)

ASSUME NameAssumption ==
  /\ NoDraft \notin Drafts
  /\ Drafts \cap Submissions = {}
  /\ {"none", "deleted"} \cap (Drafts \cup Submissions) = {}
ASSUME AttemptsAssumption == MaxAttempts \in Nat \ {0}
ASSUME FaultsAssumption   == MaxFaults \in Nat

VARIABLES
  draft,     (* a Draft row: not there yet, there, deleted                 *)
  expired,   (* drafts whose expiresAt has passed                          *)
  owner,     (* draftId or proposalId of a DocumentFile                    *)
  stored,    (* documents whose file has come to the storage               *)
  uploads,   (* upload requests in flight                                  *)
  asked,     (* submissions made so far                                    *)
  subs,      (* those in flight                                            *)
  born,      (* the draft that a submission's proposal was made from       *)
  accepted,  (* submissions answered without an error                      *)
  sweep,     (* drafts the cleanup has yet to delete                       *)
  jobs,      (* the ocr queue; equal jobs that wait together count as one  *)
  failed,    (* its failed set, as far as proposals go                     *)
  results,   (* OcrResult rows                                             *)
  vision,    (* the worker has a text recogniser: set when it starts       *)
  skipped,   (* history variable: proposals' documents not read without it *)
  faults     (* submissions that have stopped half way                     *)

requests == <<uploads, asked, subs, accepted, sweep, faults>>
reader == <<vision, skipped>>
ocr == <<jobs, failed, results, reader>>
vars == <<draft, expired, owner, stored, uploads, asked, subs, born, accepted,
          sweep, jobs, failed, results, vision, skipped, faults>>

Holders == Drafts \cup Submissions

Upload == [doc : Docs, to : Holders, step : {"row", "file"}]

(* docs: the documents read for the checks; todo: those still to enqueue.  *)
Submission ==
  [ id : Submissions, d : Drafts, docs : SUBSET Docs, todo : SUBSET Docs,
    step : {"email", "docs", "create", "handOver", "finish"} ]

Job == [doc : Docs, of : Holders, step : {"read", "write"}, tries : 0 .. MaxAttempts - 1]

(* An OcrResult names its document and what that belonged to.              *)
Result == [doc : Docs, of : Holders]

TypeOK ==
  /\ draft \in [Drafts -> {"none", "live", "gone"}]
  /\ expired \subseteq Drafts
  /\ owner \in [Docs -> Holders \cup {"none", "deleted"}]
  /\ stored \subseteq Docs
  /\ uploads \subseteq Upload
  /\ asked \subseteq Submissions
  /\ subs \subseteq Submission
  /\ born \in [Submissions -> Drafts \cup {NoDraft}]
  /\ accepted \subseteq Submissions
  /\ sweep \subseteq Drafts
  /\ jobs \subseteq Job
  /\ failed \subseteq Result
  /\ results \subseteq Result
  /\ vision \in BOOLEAN
  /\ skipped \subseteq Result
  /\ faults \in 0 .. MaxFaults

Init ==
  /\ draft = [d \in Drafts |-> "none"]
  /\ expired = {}
  /\ owner = [doc \in Docs |-> "none"]
  /\ stored = {}
  /\ uploads = {}
  /\ asked = {}
  /\ subs = {}
  /\ born = [s \in Submissions |-> NoDraft]
  /\ accepted = {}
  /\ sweep = {}
  /\ jobs = {}
  /\ failed = {}
  /\ results = {}
  /\ vision \in BOOLEAN
  /\ skipped = {}
  /\ faults = 0

(* getDraftOrThrow and resolveOwner: the row is there and has not expired. *)
Usable(d) == draft[d] = "live" /\ d \notin expired

DocsOf(h) == { doc \in Docs : owner[doc] = h }

(* Deleting drafts takes along (onDelete: Cascade) the documents that are  *)
(* still theirs, and the OCR results that name them.                       *)
DocsWithout(ds) == [doc \in Docs |-> IF owner[doc] \in ds THEN "deleted" ELSE owner[doc]]
ResultsWithout(ds) == { r \in results : r.of \notin ds }

-----------------------------------------------------------------------------
CreateDraft(d) ==
  /\ draft[d] = "none"
  /\ draft' = [draft EXCEPT ![d] = "live"]
  /\ UNCHANGED <<expired, owner, stored, requests, born, ocr>>

(* The draft's days are over. *)
Expires(d) ==
  /\ Usable(d)
  /\ expired' = expired \cup {d}
  /\ UNCHANGED <<draft, owner, stored, requests, born, ocr>>

-----------------------------------------------------------------------------
(* PublicUploadsService: the owner is looked up, the row is written, and   *)
(* then the file is stored: by the API (uploadDirect) or by the browser    *)
(* (createPresign), which may not come to it.                              *)

UploadStarts(doc, h) ==
  /\ owner[doc] = "none"
  /\ \A u \in uploads : u.doc # doc
  /\ IF h \in Drafts THEN Usable(h) ELSE born[h] # NoDraft
  /\ uploads' = uploads \cup {[doc |-> doc, to |-> h, step |-> "row"]}
  /\ UNCHANGED <<draft, expired, owner, stored, asked, subs, born, accepted, sweep,
                 ocr, faults>>

(* Mutant: without the foreign key. *)
UploadWritesRowUnkeyed(u) ==
  /\ u.step = "row"
  /\ uploads' = (uploads \ {u}) \cup {[u EXCEPT !.step = "file"]}
  /\ owner' = [owner EXCEPT ![u.doc] = u.to]
  /\ UNCHANGED <<draft, expired, stored, asked, subs, born, accepted, sweep, ocr, faults>>

(* The row needs its owner: the foreign key.                               *)
UploadWritesRow(u) ==
  /\ u.step = "row"
  /\ IF u.to \in Drafts /\ draft[u.to] # "live"
     THEN /\ uploads' = uploads \ {u}
          /\ UNCHANGED owner
     ELSE /\ uploads' = (uploads \ {u}) \cup {[u EXCEPT !.step = "file"]}
          /\ owner' = [owner EXCEPT ![u.doc] = u.to]
  /\ UNCHANGED <<draft, expired, stored, asked, subs, born, accepted, sweep, ocr, faults>>

UploadStores(u) ==
  /\ u.step = "file"
  /\ stored' = stored \cup {u.doc}
  /\ uploads' = uploads \ {u}
  /\ UNCHANGED <<draft, expired, owner, asked, subs, born, accepted, sweep, ocr, faults>>

UploadStops(u) ==
  /\ uploads' = uploads \ {u}
  /\ UNCHANGED <<draft, expired, owner, stored, asked, subs, born, accepted, sweep,
                 ocr, faults>>

-----------------------------------------------------------------------------
(* PublicService.submitProposal *)

NewJob(doc, h) == [doc |-> doc, of |-> h, step |-> "read", tries |-> 0]
OfOcrType(docs) == { doc \in docs : TypeOf[doc] \in OcrTypes }

Advanced(k, step) == (subs \ {k}) \cup {[k EXCEPT !.step = step]}

SubmitReadsDraft(s, d) ==
  /\ s \notin asked
  /\ Usable(d)
  /\ asked' = asked \cup {s}
  /\ subs' = subs \cup {[id |-> s, d |-> d, docs |-> {}, todo |-> {}, step |-> "email"]}
  /\ UNCHANGED <<draft, expired, owner, stored, uploads, born, accepted, sweep, ocr, faults>>

(* 'Email ja utilizado' *)
EmailTaken(d) == \E s \in Submissions : born[s] # NoDraft /\ Email[born[s]] = Email[d]

SubmitChecksEmail(k) ==
  /\ k.step = "email"
  /\ subs' = IF EmailTaken(k.d) THEN subs \ {k} ELSE Advanced(k, "docs")
  /\ UNCHANGED <<draft, expired, owner, stored, uploads, asked, born, accepted, sweep,
                 ocr, faults>>

(* Mutant: the types are not checked. *)
SubmitReadsDocsUnchecked(k) ==
  /\ k.step = "docs"
  /\ subs' = (subs \ {k}) \cup {[k EXCEPT !.step = "create", !.docs = DocsOf(k.d)]}
  /\ UNCHANGED <<draft, expired, owner, stored, uploads, asked, born, accepted, sweep,
                 ocr, faults>>

(* 'RG frente e verso obrigatorios', 'CNH obrigatoria', ... *)
SubmitReadsDocs(k) ==
  /\ k.step = "docs"
  /\ subs' = IF Required \subseteq { TypeOf[doc] : doc \in DocsOf(k.d) }
             THEN (subs \ {k}) \cup {[k EXCEPT !.step = "create", !.docs = DocsOf(k.d)]}
             ELSE subs \ {k}
  /\ UNCHANGED <<draft, expired, owner, stored, uploads, asked, born, accepted, sweep,
                 ocr, faults>>

(* The transaction.  It fails when the draft is gone: the foreign key.     *)
SubmitCreates(k) ==
  /\ k.step = "create"
  /\ IF draft[k.d] = "live"
     THEN /\ born' = [born EXCEPT ![k.id] = k.d]
          /\ subs' = Advanced(k, IF k.docs = {} THEN "finish" ELSE "handOver")
     ELSE /\ subs' = subs \ {k}
          /\ UNCHANGED born
  /\ UNCHANGED <<draft, expired, owner, stored, uploads, asked, accepted, sweep, ocr, faults>>

(* Mutant: the documents are handed over by the ids that were read.        *)
SubmitHandsOverIds(k) ==
  /\ k.step = "handOver"
  /\ owner' = [doc \in Docs |-> IF doc \in k.docs THEN k.id ELSE owner[doc]]
  /\ subs' = (subs \ {k}) \cup {[k EXCEPT !.step = "finish", !.todo = OfOcrType(k.docs)]}
  /\ UNCHANGED <<draft, expired, stored, uploads, asked, born, accepted, sweep, ocr, faults>>

(* All that is the draft's by now goes to the proposal, whether it was     *)
(* checked or came since; what was checked is what will be enqueued.       *)
SubmitHandsOver(k) ==
  /\ k.step = "handOver"
  /\ owner' = [doc \in Docs |-> IF owner[doc] = k.d THEN k.id ELSE owner[doc]]
  /\ subs' = (subs \ {k}) \cup {[k EXCEPT !.step = "finish", !.todo = OfOcrType(k.docs)]}
  /\ UNCHANGED <<draft, expired, stored, uploads, asked, born, accepted, sweep, ocr, faults>>

(* Mutant: the job still names the draft. *)
SubmitEnqueuesForDraft(k, doc) ==
  /\ k.step = "finish"
  /\ doc \in k.todo
  /\ jobs' = jobs \cup {NewJob(doc, k.d)}
  /\ subs' = (subs \ {k}) \cup {[k EXCEPT !.todo = @ \ {doc}]}
  /\ UNCHANGED <<draft, expired, owner, stored, uploads, asked, born, accepted, sweep,
                 failed, results, reader, faults>>

SubmitEnqueues(k, doc) ==
  /\ k.step = "finish"
  /\ doc \in k.todo
  /\ jobs' = jobs \cup {NewJob(doc, k.id)}
  /\ subs' = (subs \ {k}) \cup {[k EXCEPT !.todo = @ \ {doc}]}
  /\ UNCHANGED <<draft, expired, owner, stored, uploads, asked, born, accepted, sweep,
                 failed, results, reader, faults>>

(* draft.delete throws when the draft is gone: the proposal stays, but the *)
(* candidate gets an error.                                                *)
SubmitDeletesDraft(k) ==
  /\ k.step = "finish"
  /\ k.todo = {}
  /\ subs' = subs \ {k}
  /\ IF draft[k.d] = "live"
     THEN /\ draft' = [draft EXCEPT ![k.d] = "gone"]
          /\ owner' = DocsWithout({k.d})
          /\ results' = ResultsWithout({k.d})
          /\ accepted' = accepted \cup {k.id}
     ELSE UNCHANGED <<draft, owner, results, accepted>>
  /\ UNCHANGED <<expired, stored, uploads, asked, born, sweep, jobs, failed, reader, faults>>

(* An await throws (the queue, a notification), or the process ends.       *)
SubmitStops(k) ==
  /\ faults < MaxFaults
  /\ faults' = faults + 1
  /\ subs' = subs \ {k}
  /\ UNCHANGED <<draft, expired, owner, stored, uploads, asked, born, accepted, sweep, ocr>>

-----------------------------------------------------------------------------
(* PublicService.cleanupExpiredDrafts, once a day.  Its third statement,   *)
(* on documents with neither draft nor proposal, finds none: a document    *)
(* goes with its draft.                                                    *)

(* Mutant: gt for lt. *)
CleanupDeletesFresh ==
  /\ sweep = {}
  /\ sweep' = { d \in Drafts : Usable(d) }
  /\ owner' = DocsWithout(sweep')
  /\ UNCHANGED <<draft, expired, stored, uploads, asked, subs, born, accepted, ocr, faults>>

CleanupDeletesDocs ==
  /\ sweep = {}
  /\ sweep' = { d \in expired : draft[d] = "live" }
  /\ owner' = DocsWithout(sweep')
  /\ UNCHANGED <<draft, expired, stored, uploads, asked, subs, born, accepted, ocr, faults>>

CleanupDeletesDrafts ==
  /\ sweep # {}
  /\ sweep' = {}
  /\ draft' = [d \in Drafts |-> IF d \in sweep THEN "gone" ELSE draft[d]]
  /\ owner' = DocsWithout(sweep)
  /\ results' = ResultsWithout(sweep)
  /\ UNCHANGED <<expired, stored, uploads, asked, subs, born, accepted, jobs, failed, reader,
                 faults>>

CleanupStops ==
  /\ sweep # {}
  /\ sweep' = {}
  /\ UNCHANGED <<draft, expired, owner, stored, uploads, asked, subs, born, accepted,
                 ocr, faults>>

-----------------------------------------------------------------------------
(* OCR *)

(* requestDraftOcr, one of the documents it enqueues.                      *)
RequestDraftOcr(d, doc) ==
  /\ Usable(d)
  /\ doc \in OfOcrType(DocsOf(d))
  /\ jobs' = jobs \cup {NewJob(doc, d)}
  /\ UNCHANGED <<draft, expired, owner, stored, requests, born, failed, results, reader>>

NextAttempt(j) == [doc |-> j.doc, of |-> j.of, step |-> "read", tries |-> j.tries + 1]

(* What is remembered of a job that ends with no result: that of a draft   *)
(* is asked for again by whoever wants it.                                 *)
OfProposal(j) == { [doc |-> j.doc, of |-> s] : s \in {j.of} \cap Submissions }

(* BullMQ: an attempt that throws is tried again from the first line.      *)
OcrFails(j) ==
  /\ IF j.tries + 1 < MaxAttempts
     THEN /\ jobs' = (jobs \ {j}) \cup {NextAttempt(j)}
          /\ UNCHANGED failed
     ELSE /\ jobs' = jobs \ {j}
          /\ failed' = failed \cup OfProposal(j)
  /\ UNCHANGED <<draft, expired, owner, stored, requests, born, results, reader>>

(* 'DocumentFile does not match proposal' (or draft).                      *)
OcrMatches(j) == owner[j.doc] = j.of

(* The match and the download.                                             *)
OcrReads(j) ==
  /\ j.step = "read"
  /\ OcrMatches(j) => vision
  /\ IF OcrMatches(j) /\ j.doc \in stored
     THEN /\ jobs' = (jobs \ {j}) \cup {[j EXCEPT !.step = "write"]}
          /\ UNCHANGED <<draft, expired, owner, stored, requests, born, failed, results, reader>>
     ELSE OcrFails(j)

(* 'ocr_disabled': the job is done, with nothing to show for it.           *)
OcrSkips(j) ==
  /\ j.step = "read"
  /\ OcrMatches(j) /\ ~vision
  /\ jobs' = jobs \ {j}
  /\ skipped' = skipped \cup OfProposal(j)
  /\ UNCHANGED <<draft, expired, owner, stored, requests, born, failed, results, vision>>

(* ocrResult.create; its foreign keys need the draft and the document.     *)
OcrWrites(j) ==
  /\ j.step = "write"
  /\ IF (j.of \in Drafts => draft[j.of] = "live") /\ owner[j.doc] # "deleted"
     THEN /\ jobs' = jobs \ {j}
          /\ results' = results \cup {[doc |-> j.doc, of |-> j.of]}
          /\ UNCHANGED <<draft, expired, owner, stored, requests, born, failed, reader>>
     ELSE OcrFails(j)

-----------------------------------------------------------------------------
Candidate ==
  \/ \E d \in Drafts :
       \/ CreateDraft(d)
       \/ \E doc \in Docs : RequestDraftOcr(d, doc)
       \/ \E s \in Submissions : SubmitReadsDraft(s, d)
  \/ \E doc \in Docs, h \in Holders : UploadStarts(doc, h)

Uploading == \E u \in uploads : UploadWritesRow(u) \/ UploadStores(u) \/ UploadStops(u)

SubmitAdvances(k) ==
  \/ SubmitChecksEmail(k) \/ SubmitReadsDocs(k) \/ SubmitCreates(k)
  \/ SubmitHandsOver(k) \/ SubmitDeletesDraft(k)
  \/ \E doc \in Docs : SubmitEnqueues(k, doc)

Submitting == \E k \in subs : SubmitAdvances(k) \/ SubmitStops(k)

Days ==
  \/ \E d \in Drafts : Expires(d)
  \/ CleanupDeletesDocs \/ CleanupDeletesDrafts \/ CleanupStops

JobAdvances(j) == OcrReads(j) \/ OcrSkips(j) \/ OcrWrites(j)

Worker == \E j \in jobs : JobAdvances(j) \/ OcrFails(j)

Next == Candidate \/ Uploading \/ Submitting \/ Days \/ Worker

Spec == Init /\ [][Next]_vars

-----------------------------------------------------------------------------
(* Safety. *)

(* What a candidate has filled in is there as a draft until it is a        *)
(* proposal or its days are over, whichever requests overlap or stop.      *)
DraftIsNotLost ==
  \A d \in Drafts :
    draft[d] = "gone" => d \in expired \/ \E s \in Submissions : born[s] = d

(* However often the form is sent, one submission of a draft at most is    *)
(* answered with a protocol.                                               *)
OneIsAccepted ==
  \A s, t \in accepted : born[s] = born[t] => s = t

(* A proposal the candidate was given a protocol for has the documents     *)
(* that were asked for: no upload, cleanup or stop between the check and   *)
(* the answer takes one away.  This needs that no other submission of the  *)
(* draft came in between, and that the draft did not expire meanwhile.     *)
AcceptedIsComplete ==
  \A s \in accepted :
    \/ Required \subseteq { TypeOf[doc] : doc \in DocsOf(s) }
    \/ born[s] \in expired
    \/ \E t \in Submissions \ {s} : born[t] = born[s]

(* What an analyst sees as the OCR of a proposal was read from a document  *)
(* of that proposal, though jobs name documents that have moved since.     *)
ResultsAreOfOwner ==
  \A r \in results : r.of \in Submissions => owner[r.doc] = r.of

(* The OCR of a document for its owner is done, waits or is being tried,   *)
(* has been given up in sight of the staff, or was passed over by a worker *)
(* that cannot read at all.                                                *)
ReadingIsKnown(doc, h) ==
  \/ [doc |-> doc, of |-> h] \in results \cup failed
  \/ \E j \in jobs : j.doc = doc /\ j.of = h
  \/ ~vision /\ [doc |-> doc, of |-> h] \in skipped

(* Of every type the candidate was asked for and OCR can read, a document  *)
(* of the accepted proposal has been read, waits to be, or is in the       *)
(* failed set; where the worker has no recogniser, its own job may have    *)
(* passed it over, and nothing else loses it: neither the hand-over of     *)
(* documents that are asked for at the same time by the draft's jobs, nor  *)
(* a second submission, nor an attempt that fails (submitProposal,         *)
(* handleJob).                                                             *)
AcceptedIsRead ==
  \A s \in accepted, t \in Required \cap OcrTypes :
    \E doc \in Docs : TypeOf[doc] = t /\ ReadingIsKnown(doc, s)

(* docs/_spec_extract.txt:666, "(formato valido, unico)": two proposals do *)
(* not share an e-mail.  Not kept: the lookup is made before the           *)
(* transaction, and emailHash has an index but no unique key.              *)
EmailIsUnique ==
  \A s, t \in Submissions :
    born[s] # NoDraft /\ born[t] # NoDraft /\ Email[born[s]] = Email[born[t]] => s = t

(* The documents of a proposal stay with it, whatever happens to the draft *)
(* they came from.                                                         *)
DocumentsAreKept ==
  [][\A doc \in Docs : owner[doc] \in Submissions => owner'[doc] = owner[doc]]_vars

(* What these rest on.  Together with them it is inductive.                *)

Created == { k \in subs : k.step \in {"handOver", "finish"} }

(* A request in flight has created its proposal exactly if it is past the  *)
(* transaction, and no other request is the same.                          *)
RequestsAreSound ==
  /\ \A k \in subs :
       /\ k.id \in asked \ accepted
       /\ IF k \in Created THEN born[k.id] = k.d ELSE born[k.id] = NoDraft
       /\ k.todo \subseteq k.docs
       /\ k.todo # {} => k.step = "finish"
       /\ \A l \in subs : l.id = k.id => l = k
  /\ \A s \in Submissions : born[s] # NoDraft => s \in asked

(* Accepted is who deleted the draft. *)
AcceptedHasDraft == \A s \in accepted : born[s] \in Drafts /\ draft[born[s]] = "gone"

(* The draft is there, or was, when something of it is in flight.          *)
DraftsAreThere ==
  /\ \A d \in expired : draft[d] # "none"
  /\ \A k \in subs : draft[k.d] # "none"
  /\ \A d \in sweep : d \in expired
  /\ \A u \in uploads : u.to \in Submissions => born[u.to] # NoDraft
  /\ \A doc \in Docs : owner[doc] \in Drafts => draft[owner[doc]] = "live"

(* An upload that has not written its row is the only one for its id.      *)
UploadsAreSound ==
  \A u \in uploads :
    /\ u.step = "row" => owner[u.doc] = "none"
    /\ \A w \in uploads : w.doc = u.doc => w = u

(* The checked documents are the draft's until they are the proposal's.    *)
Undisturbed(k) ==
  k.d \notin expired /\ \A t \in Submissions \ {k.id} : born[t] # k.d

CheckedAreHeld ==
  \A k \in subs :
    /\ k.step \in {"create", "handOver", "finish"} =>
         Required \subseteq { TypeOf[doc] : doc \in k.docs }
    /\ k.step \in {"create", "handOver", "finish"} /\ Undisturbed(k) =>
         \A doc \in k.docs : owner[doc] = IF k.step = "finish" THEN k.id ELSE k.d

(* A result about to be written for a proposal is of its document.         *)
JobsAreSound ==
  \A j \in jobs : j.step = "write" /\ j.of \in Submissions => owner[j.doc] = j.of

(* What a submission has enqueued is known from then on.                   *)
EnqueuedAreKnown ==
  \A k \in subs :
    k.step = "finish" => \A doc \in OfOcrType(k.docs) \ k.todo : ReadingIsKnown(doc, k.id)

IntakeInv ==
  /\ TypeOK
  /\ RequestsAreSound
  /\ AcceptedHasDraft
  /\ DraftsAreThere
  /\ UploadsAreSound
  /\ CheckedAreHeld
  /\ JobsAreSound
  /\ EnqueuedAreKnown
  /\ DraftIsNotLost
  /\ OneIsAccepted
  /\ AcceptedIsComplete
  /\ ResultsAreOfOwner

=============================================================================
