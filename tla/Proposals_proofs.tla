-------------------------- MODULE Proposals_proofs --------------------------
(***************************************************************************)
(* Proofs about what the API does with a proposal: DraftIntake, until it   *)
(* is submitted, and ReviewDesk, from then on.  For any number of drafts,  *)
(* documents and proposals, and of overlapping requests and handlers.      *)
(*                                                                         *)
(* IntakeInv is inductive.  The argument has three layers: what only grows *)
(* or stays (lemma Kept: a document of a proposal, an expiry, a proposal's *)
(* draft, a deleted draft), then the invariants about requests in flight,  *)
(* then the promises to the candidate, which follow from the two.  DeskInv *)
(* is inductive as it stands, and has the history be a timeline.           *)
(***************************************************************************)
EXTENDS DraftIntake, ReviewDesk, TLAPS

USE NameAssumption, AttemptsAssumption, FaultsAssumption, OpenAssumption

-----------------------------------------------------------------------------
(* The intake *)

(* The records that three steps write are of their types.                  *)
LEMMA StepAndDocs ==
  ASSUME NEW k \in Submission, NEW docs \in SUBSET Docs
  PROVE  [k EXCEPT !.step = "create", !.docs = docs] \in Submission
  BY DEF Submission

LEMMA StepAndTodo ==
  ASSUME NEW k \in Submission, NEW docs \in SUBSET Docs
  PROVE  [k EXCEPT !.step = "finish", !.todo = docs] \in Submission
  BY DEF Submission

LEMMA AttemptIsJob ==
  ASSUME NEW j \in Job, j.tries + 1 < MaxAttempts
  PROVE  NextAttempt(j) \in Job
<1>1. j.tries + 1 \in 0 .. MaxAttempts - 1
  BY DEF Job
<1> QED
  BY <1>1 DEF Job, NextAttempt

(* Every variable keeps its type. *)
LEMMA TypeKept ==
  ASSUME TypeOK, [Next]_vars
  PROVE  TypeOK'
<1> USE DEF TypeOK, Holders, Upload, Submission, Job, Result, DocsOf, DocsWithout, ResultsWithout
<1>1. ASSUME NEW d \in Drafts, CreateDraft(d) PROVE TypeOK'
  BY <1>1 DEF CreateDraft, requests, ocr, reader
<1>2. ASSUME NEW d \in Drafts, Expires(d) PROVE TypeOK'
  BY <1>2 DEF Expires, requests, ocr, reader
<1>3. ASSUME NEW doc \in Docs, NEW h \in Holders, UploadStarts(doc, h) PROVE TypeOK'
  BY <1>3 DEF UploadStarts, requests, ocr, reader
<1>4. ASSUME NEW u \in uploads, UploadWritesRow(u) PROVE TypeOK'
  BY <1>4 DEF UploadWritesRow, requests, ocr, reader
<1>5. ASSUME NEW u \in uploads, UploadStores(u) \/ UploadStops(u) PROVE TypeOK'
  BY <1>5 DEF UploadStores, UploadStops, requests, ocr, reader
<1>6. ASSUME NEW s \in Submissions, NEW d \in Drafts, SubmitReadsDraft(s, d) PROVE TypeOK'
  BY <1>6 DEF SubmitReadsDraft, requests, ocr, reader
<1>7. ASSUME NEW k \in subs, SubmitChecksEmail(k) PROVE TypeOK'
  BY <1>7 DEF SubmitChecksEmail, Advanced, requests, ocr, reader
<1>8. ASSUME NEW k \in subs, SubmitReadsDocs(k) PROVE TypeOK'
  <2> DEFINE r == [k EXCEPT !.step = "create", !.docs = DocsOf(k.d)]
  <2>1. r \in Submission
    BY StepAndDocs
  <2>2. subs' \subseteq Submission
    BY <1>8, <2>1 DEF SubmitReadsDocs
  <2> QED
    BY <1>8, <2>2 DEF SubmitReadsDocs, ocr, reader
<1>9. ASSUME NEW k \in subs, SubmitCreates(k) PROVE TypeOK'
  BY <1>9 DEF SubmitCreates, Advanced, requests, ocr, reader
<1>10. ASSUME NEW k \in subs, SubmitHandsOver(k) PROVE TypeOK'
  <2> DEFINE r == [k EXCEPT !.step = "finish", !.todo = OfOcrType(k.docs)]
  <2>1. r \in Submission
    BY StepAndTodo DEF OfOcrType
  <2>2. subs' \subseteq Submission
    BY <1>10, <2>1 DEF SubmitHandsOver
  <2> QED
    BY <1>10, <2>2 DEF SubmitHandsOver, ocr, reader
<1>11. ASSUME NEW k \in subs, NEW doc \in Docs, SubmitEnqueues(k, doc) PROVE TypeOK'
  BY <1>11 DEF SubmitEnqueues, NewJob, requests, ocr, reader
<1>12. ASSUME NEW k \in subs, SubmitDeletesDraft(k) PROVE TypeOK'
  BY <1>12 DEF SubmitDeletesDraft, requests, ocr, reader
<1>13. ASSUME NEW k \in subs, SubmitStops(k) PROVE TypeOK'
  BY <1>13 DEF SubmitStops, requests, ocr, reader
<1>14. ASSUME CleanupDeletesDocs \/ CleanupDeletesDrafts \/ CleanupStops PROVE TypeOK'
  BY <1>14 DEF CleanupDeletesDocs, CleanupDeletesDrafts, CleanupStops, requests, ocr, reader
<1>15. ASSUME NEW d \in Drafts, NEW doc \in Docs, RequestDraftOcr(d, doc) PROVE TypeOK'
  BY <1>15 DEF RequestDraftOcr, NewJob, requests, ocr, reader
<1>16. ASSUME NEW j \in jobs, OcrFails(j) PROVE TypeOK'
  <2>1. j.tries + 1 < MaxAttempts => NextAttempt(j) \in Job
    BY AttemptIsJob
  <2>2. jobs' \subseteq Job
    <3> HIDE DEF Job
    <3> QED  BY <1>16, <2>1 DEF OcrFails
  <2>3. failed' \subseteq Result
    BY <1>16 DEF OcrFails, OfProposal
  <2> QED
    BY <1>16, <2>2, <2>3 DEF OcrFails, requests, reader
<1>17. ASSUME NEW j \in jobs, OcrReads(j) \/ OcrWrites(j) PROVE TypeOK'
  BY <1>16, <1>17 DEF OcrReads, OcrWrites, requests, ocr, reader
<1>19. ASSUME NEW j \in jobs, OcrSkips(j) PROVE TypeOK'
  BY <1>19 DEF OcrSkips, OfProposal, requests, reader
<1>18. ASSUME UNCHANGED vars PROVE TypeOK'
  BY <1>18 DEF vars
<1> QED
  BY <1>1, <1>2, <1>3, <1>4, <1>5, <1>6, <1>7, <1>8, <1>9, <1>10, <1>11, <1>12,
     <1>13, <1>14, <1>15, <1>16, <1>17, <1>18, <1>19
     DEF Next, Candidate, Uploading, Submitting, SubmitAdvances, Days, Worker, JobAdvances

-----------------------------------------------------------------------------
(* What only grows or stays.  This is where the order of the statements    *)
(* does not matter: whatever step comes next, a document of a proposal     *)
(* stays with it.                                                          *)
StillSo ==
  /\ \A doc \in Docs : owner[doc] \in Submissions => owner'[doc] = owner[doc]
  /\ expired \subseteq expired'
  /\ \A s \in Submissions : born[s] # NoDraft => born'[s] = born[s]
  /\ \A d \in Drafts : draft[d] = "gone" => draft'[d] = "gone"
  /\ \A d \in Drafts : draft[d] # "none" => draft'[d] # "none"

LEMMA Kept ==
  ASSUME TypeOK, RequestsAreSound, UploadsAreSound, DraftsAreThere, [Next]_vars
  PROVE  StillSo
<1> USE DEF TypeOK, StillSo, DocsWithout
<1>1. ASSUME NEW u \in uploads, UploadWritesRow(u) PROVE StillSo
  BY <1>1 DEF UploadWritesRow, UploadsAreSound, ocr, reader
<1>2. ASSUME NEW k \in subs, SubmitCreates(k) PROVE StillSo
  BY <1>2 DEF SubmitCreates, RequestsAreSound, Created, ocr, reader
<1>3. ASSUME NEW k \in subs, SubmitHandsOver(k) PROVE StillSo
  <2>1. k.d \in Drafts
    BY DEF Submission
  <2> QED
    BY <1>3, <2>1 DEF SubmitHandsOver, ocr, reader
<1>4. ASSUME NEW k \in subs, SubmitDeletesDraft(k) PROVE StillSo
  <2>1. k.d \in Drafts
    BY DEF Submission
  <2> QED
    BY <1>4, <2>1 DEF SubmitDeletesDraft
<1>5. ASSUME CleanupDeletesDocs PROVE StillSo
  BY <1>5 DEF CleanupDeletesDocs, ocr, reader
<1>6. ASSUME CleanupDeletesDrafts PROVE StillSo
  BY <1>6 DEF CleanupDeletesDrafts
<1>7. ASSUME NEW d \in Drafts, CreateDraft(d) \/ Expires(d) PROVE StillSo
  BY <1>7 DEF CreateDraft, Expires
<1>8. ASSUME UNCHANGED <<draft, expired, owner, born>> PROVE StillSo
  BY <1>8
<1>9. ASSUME NEW k \in subs,
             \/ SubmitChecksEmail(k) \/ SubmitReadsDocs(k) \/ SubmitStops(k)
             \/ \E doc \in Docs : SubmitEnqueues(k, doc)
      PROVE  StillSo
  BY <1>9, <1>8 DEF SubmitChecksEmail, SubmitReadsDocs, SubmitStops, SubmitEnqueues
<1>10. ASSUME \/ \E d \in Drafts, doc \in Docs : RequestDraftOcr(d, doc)
              \/ \E s \in Submissions, d \in Drafts : SubmitReadsDraft(s, d)
              \/ \E doc \in Docs, h \in Holders : UploadStarts(doc, h)
              \/ \E u \in uploads : UploadStores(u) \/ UploadStops(u)
              \/ CleanupStops
       PROVE  StillSo
  BY <1>10, <1>8 DEF RequestDraftOcr, SubmitReadsDraft, UploadStarts, UploadStores,
     UploadStops, CleanupStops
<1>11. ASSUME NEW j \in jobs, OcrFails(j) \/ JobAdvances(j) PROVE StillSo
  BY <1>11, <1>8 DEF OcrFails, JobAdvances, OcrReads, OcrSkips, OcrWrites
<1>12. ASSUME UNCHANGED vars PROVE StillSo
  BY <1>12, <1>8 DEF vars
<1> QED
  BY <1>1, <1>2, <1>3, <1>4, <1>5, <1>6, <1>7, <1>9, <1>10, <1>11, <1>12
     DEF Next, Candidate, Uploading, Submitting, SubmitAdvances, Days, Worker

-----------------------------------------------------------------------------
(* The requests in flight. *)

(* A request that moves on, its proposal there or not as before.           *)
LEMMA MovedIsSound ==
  ASSUME RequestsAreSound, NEW k \in subs, NEW r,
         r.id = k.id, r.d = k.d,
         r.step \in {"handOver", "finish"} <=> k.step \in {"handOver", "finish"},
         r.todo \subseteq r.docs, r.todo # {} => r.step = "finish",
         subs' = (subs \ {k}) \cup {r}, UNCHANGED <<asked, accepted, born>>
  PROVE  RequestsAreSound'
  BY DEF RequestsAreSound, Created

LEMMA RequestsKept ==
  ASSUME TypeOK, RequestsAreSound, AcceptedHasDraft, [Next]_vars
  PROVE  RequestsAreSound'
<1> USE DEF TypeOK, RequestsAreSound, Created
<1>1. ASSUME NEW s \in Submissions, NEW d \in Drafts, SubmitReadsDraft(s, d)
      PROVE  RequestsAreSound'
  <2> DEFINE r == [id |-> s, d |-> d, docs |-> {}, todo |-> {}, step |-> "email"]
  <2>1. subs' = subs \cup {r} /\ asked' = asked \cup {s} /\ s \notin asked
        /\ UNCHANGED <<accepted, born>>
    BY <1>1 DEF SubmitReadsDraft
  <2>2. born[s] = NoDraft
    BY <2>1
  <2>3. s \notin accepted
    BY <2>2 DEF AcceptedHasDraft
  <2>4. \A k \in subs : k.id # s
    BY <2>1
  <2>5. r.id = s /\ r.d = d /\ r.docs = {} /\ r.todo = {} /\ r.step = "email"
    OBVIOUS
  <2> HIDE DEF r
  <2> QED  BY <2>1, <2>2, <2>3, <2>4, <2>5
<1>2. ASSUME NEW k \in subs, SubmitChecksEmail(k) PROVE RequestsAreSound'
  BY <1>2 DEF SubmitChecksEmail, Advanced, Submission
<1>3. ASSUME NEW k \in subs, SubmitReadsDocs(k) PROVE RequestsAreSound'
  <2> DEFINE r == [k EXCEPT !.step = "create", !.docs = DocsOf(k.d)]
  <2>1. CASE subs' = subs \ {k}
    BY <1>3, <2>1 DEF SubmitReadsDocs
  <2>2. CASE subs' = (subs \ {k}) \cup {r}
    <3>1. k \in Submission /\ k.todo = {}
      BY <1>3 DEF SubmitReadsDocs
    <3>2. r.id = k.id /\ r.d = k.d /\ r.step = "create" /\ r.todo = {}
      BY <3>1 DEF Submission
    <3>3. k.step = "docs" /\ UNCHANGED <<asked, accepted, born>>
      BY <1>3 DEF SubmitReadsDocs
    <3> HIDE DEF r
    <3> QED  BY <2>2, <3>2, <3>3, MovedIsSound
  <2> QED
    BY <1>3, <2>1, <2>2 DEF SubmitReadsDocs
<1>4. ASSUME NEW k \in subs, SubmitCreates(k) PROVE RequestsAreSound'
  BY <1>4 DEF SubmitCreates, Advanced, Submission
<1>5. ASSUME NEW k \in subs, SubmitHandsOver(k) PROVE RequestsAreSound'
  <2> DEFINE r == [k EXCEPT !.step = "finish", !.todo = OfOcrType(k.docs)]
  <2>1. r.id = k.id /\ r.d = k.d /\ r.step = "finish" /\ r.docs = k.docs
        /\ r.todo = OfOcrType(k.docs)
    BY DEF Submission
  <2>2. r.todo \subseteq r.docs
    BY <2>1 DEF OfOcrType
  <2>3. k.step = "handOver" /\ subs' = (subs \ {k}) \cup {r} /\ UNCHANGED <<asked, accepted, born>>
    BY <1>5 DEF SubmitHandsOver
  <2> HIDE DEF r
  <2> QED  BY <2>1, <2>2, <2>3, MovedIsSound
<1>6. ASSUME NEW k \in subs, NEW doc \in Docs, SubmitEnqueues(k, doc) PROVE RequestsAreSound'
  <2> DEFINE r == [k EXCEPT !.todo = @ \ {doc}]
  <2>1. r.id = k.id /\ r.d = k.d /\ r.step = k.step /\ r.docs = k.docs
        /\ r.todo = k.todo \ {doc}
    BY DEF Submission
  <2>2. r.todo \subseteq r.docs
    BY <2>1
  <2>3. k.step = "finish" /\ subs' = (subs \ {k}) \cup {r} /\ UNCHANGED <<asked, accepted, born>>
    BY <1>6 DEF SubmitEnqueues
  <2> HIDE DEF r
  <2> QED  BY <2>1, <2>2, <2>3, MovedIsSound
<1>7. ASSUME NEW k \in subs, SubmitDeletesDraft(k) PROVE RequestsAreSound'
  BY <1>7 DEF SubmitDeletesDraft
<1>8. ASSUME NEW k \in subs, SubmitStops(k) PROVE RequestsAreSound'
  BY <1>8 DEF SubmitStops
<1>9. ASSUME UNCHANGED <<asked, accepted, subs, born>> PROVE RequestsAreSound'
  BY <1>9
<1>10. ASSUME \/ \E d \in Drafts : CreateDraft(d) \/ Expires(d)
              \/ \E d \in Drafts, doc \in Docs : RequestDraftOcr(d, doc)
              \/ \E doc \in Docs, h \in Holders : UploadStarts(doc, h)
              \/ Uploading
              \/ CleanupDeletesDocs \/ CleanupDeletesDrafts \/ CleanupStops
       PROVE  RequestsAreSound'
  BY <1>10, <1>9 DEF CreateDraft, Expires, RequestDraftOcr, UploadStarts, Uploading,
     UploadWritesRow, UploadStores, UploadStops, CleanupDeletesDocs, CleanupDeletesDrafts,
     CleanupStops, requests
<1>11. ASSUME Worker PROVE RequestsAreSound'
  BY <1>11, <1>9 DEF Worker, JobAdvances, OcrFails, OcrReads, OcrSkips, OcrWrites, requests
<1>12. ASSUME UNCHANGED vars PROVE RequestsAreSound'
  BY <1>12, <1>9 DEF vars
<1> QED
  BY <1>1, <1>2, <1>3, <1>4, <1>5, <1>6, <1>7, <1>8, <1>10, <1>11, <1>12
     DEF Next, Candidate, Submitting, SubmitAdvances, Days

LEMMA UploadsKept ==
  ASSUME TypeOK, UploadsAreSound, [Next]_vars
  PROVE  UploadsAreSound'
<1> USE DEF TypeOK, UploadsAreSound, DocsWithout
<1>1. ASSUME NEW doc \in Docs, NEW h \in Holders, UploadStarts(doc, h)
      PROVE  UploadsAreSound'
  BY <1>1 DEF UploadStarts
<1>2. ASSUME NEW u \in uploads, UploadWritesRow(u) PROVE UploadsAreSound'
  BY <1>2 DEF UploadWritesRow, Upload
<1>3. ASSUME NEW u \in uploads, UploadStores(u) \/ UploadStops(u) PROVE UploadsAreSound'
  BY <1>3 DEF UploadStores, UploadStops
<1>4. ASSUME uploads' = uploads, \A doc \in Docs : owner[doc] = "none" => owner'[doc] = "none"
      PROVE  UploadsAreSound'
  BY <1>4 DEF Upload
<1>5. ASSUME NEW k \in subs, SubmitHandsOver(k) PROVE UploadsAreSound'
  BY <1>5, <1>4 DEF SubmitHandsOver, Submission
<1>6. ASSUME NEW k \in subs, SubmitDeletesDraft(k) PROVE UploadsAreSound'
  BY <1>6, <1>4 DEF SubmitDeletesDraft, Submission
<1>7. ASSUME CleanupDeletesDocs \/ CleanupDeletesDrafts \/ CleanupStops PROVE UploadsAreSound'
  BY <1>7, <1>4 DEF CleanupDeletesDocs, CleanupDeletesDrafts, CleanupStops
<1>8. ASSUME UNCHANGED <<uploads, owner>> PROVE UploadsAreSound'
  BY <1>8, <1>4
<1>9. ASSUME NEW k \in subs,
             \/ SubmitChecksEmail(k) \/ SubmitReadsDocs(k) \/ SubmitCreates(k)
             \/ SubmitStops(k) \/ \E doc \in Docs : SubmitEnqueues(k, doc)
      PROVE  UploadsAreSound'
  BY <1>9, <1>8 DEF SubmitChecksEmail, SubmitReadsDocs, SubmitCreates, SubmitStops, SubmitEnqueues
<1>10. ASSUME \/ \E d \in Drafts : CreateDraft(d) \/ Expires(d)
              \/ \E d \in Drafts, doc \in Docs : RequestDraftOcr(d, doc)
              \/ \E s \in Submissions, d \in Drafts : SubmitReadsDraft(s, d)
       PROVE  UploadsAreSound'
  BY <1>10, <1>8 DEF CreateDraft, Expires, RequestDraftOcr, SubmitReadsDraft, requests
<1>11. ASSUME Worker PROVE UploadsAreSound'
  BY <1>11, <1>8 DEF Worker, JobAdvances, OcrFails, OcrReads, OcrSkips, OcrWrites, requests
<1>12. ASSUME UNCHANGED vars PROVE UploadsAreSound'
  BY <1>12, <1>8 DEF vars
<1> QED
  BY <1>1, <1>2, <1>3, <1>5, <1>6, <1>7, <1>9, <1>10, <1>11, <1>12
     DEF Next, Candidate, Uploading, Submitting, SubmitAdvances, Days

-----------------------------------------------------------------------------
(* Who was accepted deleted the draft, and what is deleted stays deleted.  *)

(* Only one step accepts a submission, and only two delete a draft.        *)
LEMMA Deleting ==
  ASSUME TypeOK, [Next]_vars
  PROVE  \/ \E k \in subs : SubmitDeletesDraft(k)
         \/ CleanupDeletesDrafts /\ UNCHANGED accepted
         \/ /\ UNCHANGED accepted
            /\ \A d \in Drafts : draft'[d] = "gone" => draft[d] = "gone"
<1> USE DEF TypeOK
<1>1. ASSUME NEW d \in Drafts, CreateDraft(d)
      PROVE  UNCHANGED accepted /\ \A c \in Drafts : draft'[c] = "gone" => draft[c] = "gone"
  BY <1>1 DEF CreateDraft, requests
<1>2. CASE \/ \E d \in Drafts : Expires(d)
           \/ \E d \in Drafts, doc \in Docs : RequestDraftOcr(d, doc)
           \/ \E s \in Submissions, d \in Drafts : SubmitReadsDraft(s, d)
           \/ \E doc \in Docs, h \in Holders : UploadStarts(doc, h)
           \/ Uploading \/ CleanupDeletesDocs \/ CleanupStops \/ UNCHANGED vars
  BY <1>2 DEF Expires, RequestDraftOcr, SubmitReadsDraft, UploadStarts, Uploading,
     UploadWritesRow, UploadStores, UploadStops, CleanupDeletesDocs, CleanupStops, requests, vars
<1>3. CASE Worker
  BY <1>3 DEF Worker, JobAdvances, OcrFails, OcrReads, OcrSkips, OcrWrites, requests
<1>4. ASSUME NEW k \in subs,
             \/ SubmitChecksEmail(k) \/ SubmitReadsDocs(k) \/ SubmitCreates(k)
             \/ SubmitHandsOver(k) \/ SubmitStops(k)
             \/ \E doc \in Docs : SubmitEnqueues(k, doc)
      PROVE  UNCHANGED <<accepted, draft>>
  BY <1>4 DEF SubmitChecksEmail, SubmitReadsDocs, SubmitCreates, SubmitHandsOver,
     SubmitStops, SubmitEnqueues
<1>5. CASE CleanupDeletesDrafts
  BY <1>5 DEF CleanupDeletesDrafts
<1> QED
  BY <1>1, <1>2, <1>3, <1>4, <1>5
     DEF Next, Candidate, Submitting, SubmitAdvances, Days

(* The step that answers the candidate. *)
LEMMA Answer ==
  ASSUME TypeOK, RequestsAreSound, NEW k \in subs, SubmitDeletesDraft(k)
  PROVE  /\ k.id \in Submissions /\ k.d \in Drafts /\ born[k.id] = k.d
         /\ k.step = "finish" /\ k.id \notin accepted
         /\ UNCHANGED <<expired, born>>
         /\ \/ /\ draft[k.d] = "live"
               /\ draft' = [draft EXCEPT ![k.d] = "gone"]
               /\ accepted' = accepted \cup {k.id}
               /\ owner' = DocsWithout({k.d})
            \/ UNCHANGED <<accepted, draft, owner>>
  BY DEF TypeOK, Submission, RequestsAreSound, Created, SubmitDeletesDraft

LEMMA AcceptedKept ==
  ASSUME TypeOK, RequestsAreSound, UploadsAreSound, DraftsAreThere,
         AcceptedHasDraft, OneIsAccepted, DraftIsNotLost, [Next]_vars
  PROVE  AcceptedHasDraft' /\ OneIsAccepted' /\ DraftIsNotLost'
<1>1. StillSo
  BY Kept
<1> USE DEF TypeOK, AcceptedHasDraft, OneIsAccepted, DraftIsNotLost
<1>2. ASSUME NEW k \in subs, SubmitDeletesDraft(k)
      PROVE  AcceptedHasDraft' /\ OneIsAccepted' /\ DraftIsNotLost'
  <2>1. /\ k.id \in Submissions /\ k.d \in Drafts /\ born[k.id] = k.d
        /\ UNCHANGED <<expired, born>>
    BY <1>2, Answer
  <2>2. CASE UNCHANGED <<accepted, draft, owner>>
    BY <2>1, <2>2
  <2>3. CASE /\ draft[k.d] = "live"
             /\ draft' = [draft EXCEPT ![k.d] = "gone"]
             /\ accepted' = accepted \cup {k.id}
    <3>1. \A s \in accepted : s \in Submissions /\ born[s] # k.d
      BY <2>3
    <3>2. OneIsAccepted'
      BY <2>1, <2>3, <3>1
    <3>3. AcceptedHasDraft'
      BY <2>1, <2>3, <3>1
    <3>4. DraftIsNotLost'
      BY <2>1, <2>3
    <3> QED  BY <3>2, <3>3, <3>4
  <2> QED
    BY <1>2, <2>2, <2>3, Answer
<1>3. ASSUME CleanupDeletesDrafts, UNCHANGED accepted
      PROVE  AcceptedHasDraft' /\ OneIsAccepted' /\ DraftIsNotLost'
  BY <1>3 DEF CleanupDeletesDrafts, DraftsAreThere
<1>4. ASSUME UNCHANGED accepted, \A d \in Drafts : draft'[d] = "gone" => draft[d] = "gone"
      PROVE  AcceptedHasDraft' /\ OneIsAccepted' /\ DraftIsNotLost'
  BY <1>1, <1>4 DEF StillSo
<1> QED
  BY <1>2, <1>3, <1>4, Deleting

LEMMA DraftsKept ==
  ASSUME TypeOK, RequestsAreSound, UploadsAreSound, DraftsAreThere, [Next]_vars
  PROVE  DraftsAreThere'
<1>1. StillSo
  BY Kept
<1> USE DEF TypeOK, DraftsAreThere, DocsWithout, Usable
<1>2. ASSUME NEW d \in Drafts, CreateDraft(d) \/ Expires(d) PROVE DraftsAreThere'
  BY <1>2 DEF CreateDraft, Expires, Submission, requests
<1>3. ASSUME NEW u \in uploads, UploadWritesRow(u) PROVE DraftsAreThere'
  BY <1>3 DEF UploadWritesRow, Upload, Holders
<1>4. ASSUME NEW doc \in Docs, NEW h \in Holders, UploadStarts(doc, h) PROVE DraftsAreThere'
  BY <1>4 DEF UploadStarts, Holders
<1>5. ASSUME NEW u \in uploads, UploadStores(u) \/ UploadStops(u) PROVE DraftsAreThere'
  BY <1>5 DEF UploadStores, UploadStops
<1>6. ASSUME NEW s \in Submissions, NEW d \in Drafts, SubmitReadsDraft(s, d)
      PROVE  DraftsAreThere'
  BY <1>6 DEF SubmitReadsDraft
<1>7. ASSUME NEW k \in subs, SubmitChecksEmail(k) PROVE DraftsAreThere'
  BY <1>7 DEF SubmitChecksEmail, Advanced, Submission
<1>8. ASSUME NEW k \in subs, SubmitReadsDocs(k) PROVE DraftsAreThere'
  <2> DEFINE r == [k EXCEPT !.step = "create", !.docs = DocsOf(k.d)]
  <2>1. k \in Submission /\ r.d = k.d
    BY DEF Submission
  <2>2. subs' \subseteq subs \cup {r}
    BY <1>8 DEF SubmitReadsDocs
  <2> HIDE DEF r
  <2> QED  BY <1>8, <2>1, <2>2 DEF SubmitReadsDocs
<1>9. ASSUME NEW k \in subs, SubmitCreates(k) PROVE DraftsAreThere'
  BY <1>9, <1>1 DEF SubmitCreates, Advanced, Submission, StillSo
<1>10. ASSUME NEW k \in subs, SubmitHandsOver(k) PROVE DraftsAreThere'
  BY <1>10 DEF SubmitHandsOver, Submission
<1>11. ASSUME NEW k \in subs, NEW doc \in Docs, SubmitEnqueues(k, doc) PROVE DraftsAreThere'
  BY <1>11 DEF SubmitEnqueues, Submission
<1>12. ASSUME NEW k \in subs, SubmitDeletesDraft(k) PROVE DraftsAreThere'
  BY <1>12, Answer DEF SubmitDeletesDraft, Submission
<1>13. ASSUME NEW k \in subs, SubmitStops(k) PROVE DraftsAreThere'
  BY <1>13 DEF SubmitStops
<1>14. ASSUME CleanupDeletesDocs \/ CleanupDeletesDrafts \/ CleanupStops PROVE DraftsAreThere'
  BY <1>14 DEF CleanupDeletesDocs, CleanupDeletesDrafts, CleanupStops, Submission
<1>15. ASSUME UNCHANGED <<draft, expired, owner, uploads, subs, born, sweep>> PROVE DraftsAreThere'
  BY <1>15
<1>16. ASSUME \E d \in Drafts, doc \in Docs : RequestDraftOcr(d, doc) PROVE DraftsAreThere'
  BY <1>16, <1>15 DEF RequestDraftOcr, requests
<1>17. ASSUME Worker PROVE DraftsAreThere'
  BY <1>17, <1>15 DEF Worker, JobAdvances, OcrFails, OcrReads, OcrSkips, OcrWrites, requests
<1>18. ASSUME UNCHANGED vars PROVE DraftsAreThere'
  BY <1>18, <1>15 DEF vars
<1> QED
  BY <1>2, <1>3, <1>4, <1>5, <1>6, <1>7, <1>8, <1>9, <1>10, <1>11, <1>12, <1>13,
     <1>14, <1>16, <1>17, <1>18
     DEF Next, Candidate, Uploading, Submitting, SubmitAdvances, Days

-----------------------------------------------------------------------------
(* The documents of a submission. *)

(* A document leaves a draft only with a submission of it that moves on,   *)
(* or because the draft has expired.                                       *)
LEMMA DraftDocsStay ==
  ASSUME TypeOK, UploadsAreSound, DraftsAreThere, [Next]_vars,
         NEW doc \in Docs, owner[doc] \in Drafts
  PROVE  \/ owner'[doc] = owner[doc]
         \/ owner[doc] \in expired
         \/ \E k \in subs : k.step \in {"handOver", "finish"} /\ k.d = owner[doc] /\ k \notin subs'
<1> DEFINE Goal == \/ owner'[doc] = owner[doc]
                   \/ owner[doc] \in expired
                   \/ \E k \in subs : k.step \in {"handOver", "finish"} /\ k.d = owner[doc] /\ k \notin subs'
<1> USE DEF TypeOK, DocsWithout
<1>1. ASSUME NEW u \in uploads, UploadWritesRow(u) PROVE Goal
  BY <1>1 DEF UploadWritesRow, UploadsAreSound, Upload
<1>2. ASSUME NEW k \in subs, SubmitHandsOver(k) PROVE Goal
  <2> DEFINE r == [k EXCEPT !.step = "finish", !.todo = OfOcrType(k.docs)]
  <2>1. r.step = "finish"
    BY DEF Submission
  <2>2. k.step = "handOver" /\ subs' = (subs \ {k}) \cup {r}
    BY <1>2 DEF SubmitHandsOver
  <2>3. k \notin subs'
    <3> HIDE DEF r
    <3> QED  BY <2>1, <2>2
  <2>4. owner[doc] # k.d => owner'[doc] = owner[doc]
    BY <1>2 DEF SubmitHandsOver
  <2> QED
    BY <2>2, <2>3, <2>4
<1>3. ASSUME NEW k \in subs, SubmitDeletesDraft(k) PROVE Goal
  BY <1>3 DEF SubmitDeletesDraft
<1>4. ASSUME CleanupDeletesDocs \/ CleanupDeletesDrafts PROVE Goal
  BY <1>4 DEF CleanupDeletesDocs, CleanupDeletesDrafts, DraftsAreThere
<1>5. ASSUME \/ \E d \in Drafts : CreateDraft(d) \/ Expires(d)
             \/ \E d \in Drafts, c \in Docs : RequestDraftOcr(d, c)
             \/ \E s \in Submissions, d \in Drafts : SubmitReadsDraft(s, d)
             \/ \E c \in Docs, h \in Holders : UploadStarts(c, h)
             \/ \E u \in uploads : UploadStores(u) \/ UploadStops(u)
             \/ CleanupStops \/ Worker \/ UNCHANGED vars
      PROVE  Goal
  BY <1>5 DEF CreateDraft, Expires, RequestDraftOcr, SubmitReadsDraft, UploadStarts,
     UploadStores, UploadStops, CleanupStops, Worker, JobAdvances, OcrFails, OcrReads, OcrSkips,
     OcrWrites, vars
<1>6. ASSUME NEW k \in subs,
             \/ SubmitChecksEmail(k) \/ SubmitReadsDocs(k) \/ SubmitCreates(k)
             \/ SubmitStops(k) \/ \E c \in Docs : SubmitEnqueues(k, c)
      PROVE  Goal
  BY <1>6 DEF SubmitChecksEmail, SubmitReadsDocs, SubmitCreates, SubmitStops, SubmitEnqueues
<1> QED
  BY <1>1, <1>2, <1>3, <1>4, <1>5, <1>6
     DEF Next, Candidate, Uploading, Submitting, SubmitAdvances, Days

(* What CheckedAreHeld says of one request. *)
Held(k) ==
  /\ k.step \in {"create", "handOver", "finish"} =>
       Required \subseteq { TypeOf[doc] : doc \in k.docs }
  /\ k.step \in {"create", "handOver", "finish"} /\ Undisturbed(k) =>
       \A doc \in k.docs : owner[doc] = IF k.step = "finish" THEN k.id ELSE k.d

(* A request that stays where it is keeps its documents.                   *)
LEMMA HeldStays ==
  ASSUME TypeOK, RequestsAreSound, UploadsAreSound, DraftsAreThere, [Next]_vars,
         NEW k \in subs, k \in subs', Held(k)
  PROVE  Held(k)'
<1>1. StillSo
  BY Kept
<1>2. k.id \in Submissions /\ k.d \in Drafts /\ k.docs \subseteq Docs
  BY DEF TypeOK, Submission
<1>3. Undisturbed(k)' => Undisturbed(k)
  BY <1>1, <1>2 DEF StillSo, Undisturbed
<1>4. ASSUME Undisturbed(k), NEW doc \in k.docs, owner[doc] = k.d
      PROVE  owner'[doc] = k.d
  <2>1. \A l \in subs : l.step \in {"handOver", "finish"} /\ l.d = k.d => l = k
    BY <1>4 DEF Undisturbed, RequestsAreSound, Created, TypeOK, Submission
  <2> QED
    BY <1>2, <1>4, <2>1, DraftDocsStay DEF Undisturbed
<1>5. ASSUME NEW doc \in k.docs, owner[doc] = k.id PROVE owner'[doc] = k.id
  BY <1>1, <1>2, <1>5 DEF StillSo
<1> QED
  BY <1>3, <1>4, <1>5 DEF Held

LEMMA CheckedKept ==
  ASSUME TypeOK, RequestsAreSound, UploadsAreSound, DraftsAreThere, CheckedAreHeld,
         [Next]_vars
  PROVE  CheckedAreHeld'
<1>1. \A k \in subs : Held(k)
  BY DEF CheckedAreHeld, Held
<1> SUFFICES ASSUME NEW r \in subs', r \notin subs
             PROVE  Held(r)'
  BY <1>1, HeldStays DEF CheckedAreHeld, Held
<1> USE DEF TypeOK
<1>2. ASSUME NEW s \in Submissions, NEW d \in Drafts, SubmitReadsDraft(s, d) PROVE Held(r)'
  BY <1>2 DEF SubmitReadsDraft, Held
<1>3. ASSUME NEW k \in subs, SubmitChecksEmail(k) PROVE Held(r)'
  BY <1>3 DEF SubmitChecksEmail, Advanced, Held, Submission
<1>4. ASSUME NEW k \in subs, SubmitReadsDocs(k) PROVE Held(r)'
  <2>1. r = [k EXCEPT !.step = "create", !.docs = DocsOf(k.d)]
    BY <1>4 DEF SubmitReadsDocs
  <2>2. r.step = "create" /\ r.d = k.d /\ r.docs = DocsOf(k.d)
    BY <2>1 DEF Submission
  <2>3. UNCHANGED owner /\ Required \subseteq { TypeOf[doc] : doc \in DocsOf(k.d) }
    BY <1>4 DEF SubmitReadsDocs
  <2> QED
    BY <2>2, <2>3 DEF Held, DocsOf
<1>5. ASSUME NEW k \in subs, SubmitCreates(k) PROVE Held(r)'
  <2>1. /\ k.step = "create" /\ r.id = k.id /\ r.d = k.d /\ r.docs = k.docs
        /\ r.step = IF k.docs = {} THEN "finish" ELSE "handOver"
        /\ UNCHANGED <<owner, expired>>
        /\ born' = [born EXCEPT ![k.id] = k.d]
    BY <1>5 DEF SubmitCreates, Advanced, Submission
  <2>2. k.id \in Submissions /\ k.d \in Drafts /\ born[k.id] = NoDraft
    BY <2>1 DEF RequestsAreSound, Created, Submission
  <2>3. Undisturbed(r)' => Undisturbed(k)
    BY <2>1, <2>2 DEF Undisturbed
  <2> QED
    BY <1>1, <2>1, <2>3 DEF Held
<1>6. ASSUME NEW k \in subs, SubmitHandsOver(k) PROVE Held(r)'
  <2>1. r = [k EXCEPT !.step = "finish", !.todo = OfOcrType(k.docs)]
    BY <1>6 DEF SubmitHandsOver
  <2>2. r.step = "finish" /\ r.id = k.id /\ r.d = k.d /\ r.docs = k.docs
    BY <2>1 DEF Submission
  <2>3. /\ k.step = "handOver" /\ UNCHANGED <<expired, born>>
        /\ \A doc \in Docs : owner[doc] = k.d => owner'[doc] = k.id
    BY <1>6 DEF SubmitHandsOver
  <2>4. k.docs \subseteq Docs
    BY DEF Submission
  <2>5. Undisturbed(r)' => Undisturbed(k)
    BY <2>2, <2>3 DEF Undisturbed
  <2> QED
    BY <1>1, <2>2, <2>3, <2>4, <2>5 DEF Held
<1>7. ASSUME NEW k \in subs, NEW c \in Docs, SubmitEnqueues(k, c) PROVE Held(r)'
  <2>1. /\ k.step = "finish" /\ r.step = "finish" /\ r.id = k.id /\ r.d = k.d /\ r.docs = k.docs
        /\ UNCHANGED <<owner, expired, born>>
    BY <1>7 DEF SubmitEnqueues, Submission
  <2>2. Undisturbed(r)' => Undisturbed(k)
    BY <2>1 DEF Undisturbed
  <2> QED
    BY <1>1, <2>1, <2>2 DEF Held
<1>8. ASSUME NEW k \in subs, SubmitDeletesDraft(k) \/ SubmitStops(k) PROVE Held(r)'
  BY <1>8 DEF SubmitDeletesDraft, SubmitStops
<1>9. ASSUME \/ \E d \in Drafts : CreateDraft(d) \/ Expires(d)
             \/ \E d \in Drafts, c \in Docs : RequestDraftOcr(d, c)
             \/ \E c \in Docs, h \in Holders : UploadStarts(c, h)
             \/ Uploading \/ Days \/ Worker \/ UNCHANGED vars
      PROVE  Held(r)'
  BY <1>9 DEF CreateDraft, Expires, RequestDraftOcr, UploadStarts, Uploading,
     UploadWritesRow, UploadStores, UploadStops, Days, CleanupDeletesDocs,
     CleanupDeletesDrafts, CleanupStops, Worker, JobAdvances, OcrFails, OcrReads, OcrSkips,
     OcrWrites, requests, vars
<1> QED
  BY <1>2, <1>3, <1>4, <1>5, <1>6, <1>7, <1>8, <1>9
     DEF Next, Candidate, Submitting, SubmitAdvances

-----------------------------------------------------------------------------
(* The promises to the candidate and to the analyst. *)

LEMMA CompleteKept ==
  ASSUME TypeOK, RequestsAreSound, UploadsAreSound, DraftsAreThere, CheckedAreHeld,
         AcceptedHasDraft, AcceptedIsComplete, [Next]_vars
  PROVE  AcceptedIsComplete'
<1>1. StillSo
  BY Kept
<1> USE DEF TypeOK
<1>2. ASSUME NEW s \in accepted
      PROVE  \/ Required \subseteq { TypeOf[doc] : doc \in DocsOf(s)' }
             \/ born'[s] \in expired'
             \/ \E t \in Submissions \ {s} : born'[t] = born'[s]
  <2>1. s \in Submissions /\ born[s] # NoDraft /\ born'[s] = born[s]
    BY <1>1, <1>2 DEF AcceptedHasDraft, StillSo
  <2>2. DocsOf(s) \subseteq DocsOf(s)'
    BY <1>1, <2>1 DEF StillSo, DocsOf
  <2>3. \A t \in Submissions : born[t] = born[s] => born'[t] = born'[s]
    BY <1>1, <2>1 DEF StillSo
  <2>4. expired \subseteq expired'
    BY <1>1 DEF StillSo
  <2> QED
    BY <1>2, <2>1, <2>2, <2>3, <2>4 DEF AcceptedIsComplete
<1>3. ASSUME UNCHANGED accepted PROVE AcceptedIsComplete'
  BY <1>2, <1>3 DEF AcceptedIsComplete
<1>4. ASSUME NEW k \in subs, SubmitDeletesDraft(k) PROVE AcceptedIsComplete'
  <2>1. /\ k.id \in Submissions /\ k.d \in Drafts /\ born[k.id] = k.d
        /\ k.step = "finish" /\ UNCHANGED <<expired, born>>
    BY <1>4, Answer
  <2>2. CASE UNCHANGED accepted
    BY <1>3, <2>2
  <2>3. CASE accepted' = accepted \cup {k.id} /\ owner' = DocsWithout({k.d})
    <3>1. ASSUME Undisturbed(k)
          PROVE  Required \subseteq { TypeOf[doc] : doc \in DocsOf(k.id)' }
      <4>1. Required \subseteq { TypeOf[doc] : doc \in k.docs }
        BY <2>1 DEF CheckedAreHeld
      <4>2. \A doc \in k.docs : doc \in Docs /\ owner[doc] = k.id
        BY <2>1, <3>1 DEF CheckedAreHeld, Submission
      <4>3. \A doc \in k.docs : doc \in DocsOf(k.id)'
        BY <2>1, <2>3, <4>2 DEF DocsOf, DocsWithout
      <4> QED
        BY <4>1, <4>3
    <3>2. ~ Undisturbed(k) =>
            \/ born'[k.id] \in expired'
            \/ \E t \in Submissions \ {k.id} : born'[t] = born'[k.id]
      BY <2>1 DEF Undisturbed
    <3> QED
      BY <1>2, <2>3, <3>1, <3>2 DEF AcceptedIsComplete
  <2> QED
    BY <1>4, <2>2, <2>3, Answer
<1>5. ASSUME CleanupDeletesDrafts, UNCHANGED accepted PROVE AcceptedIsComplete'
  BY <1>3, <1>5
<1> QED
  BY <1>3, <1>4, <1>5, Deleting

(* Only the two steps of a job touch what these two invariants speak of.   *)
LEMMA ResultsKept ==
  ASSUME TypeOK, RequestsAreSound, UploadsAreSound, DraftsAreThere,
         JobsAreSound, ResultsAreOfOwner, [Next]_vars
  PROVE  JobsAreSound' /\ ResultsAreOfOwner'
<1>1. StillSo
  BY Kept
<1> USE DEF TypeOK, JobsAreSound, ResultsAreOfOwner
<1>2. ASSUME \A j \in jobs' : j.step = "write" => j \in jobs, results' \subseteq results
      PROVE  JobsAreSound' /\ ResultsAreOfOwner'
  BY <1>1, <1>2 DEF StillSo, Job, Result
<1>3. ASSUME NEW j \in jobs, OcrFails(j) PROVE JobsAreSound' /\ ResultsAreOfOwner'
  <2>1. NextAttempt(j).step = "read"
    BY DEF NextAttempt
  <2>2. \A i \in jobs' : i.step = "write" => i \in jobs
    BY <1>3, <2>1 DEF OcrFails
  <2> QED
    BY <1>2, <1>3, <2>2 DEF OcrFails, requests
<1>4. ASSUME NEW j \in jobs, OcrReads(j) PROVE JobsAreSound' /\ ResultsAreOfOwner'
  <2>1. CASE OcrFails(j)
    BY <1>3, <2>1
  <2>2. CASE /\ owner[j.doc] = j.of /\ UNCHANGED <<owner, results>>
             /\ jobs' = (jobs \ {j}) \cup {[j EXCEPT !.step = "write"]}
    BY <2>2 DEF Job
  <2> QED
    BY <1>4, <2>1, <2>2 DEF OcrReads, OcrMatches
<1>10. ASSUME NEW j \in jobs, OcrSkips(j) PROVE JobsAreSound' /\ ResultsAreOfOwner'
  BY <1>2, <1>10 DEF OcrSkips
<1>5. ASSUME NEW j \in jobs, OcrWrites(j) PROVE JobsAreSound' /\ ResultsAreOfOwner'
  <2>1. CASE OcrFails(j)
    BY <1>3, <2>1
  <2>2. CASE /\ j.step = "write" /\ UNCHANGED owner /\ jobs' = jobs \ {j}
             /\ results' = results \cup {[doc |-> j.doc, of |-> j.of]}
    BY <2>2
  <2> QED
    BY <1>5, <2>1, <2>2 DEF OcrWrites
<1>6. ASSUME NEW d \in Drafts, NEW doc \in Docs, RequestDraftOcr(d, doc)
      PROVE  JobsAreSound' /\ ResultsAreOfOwner'
  BY <1>2, <1>6 DEF RequestDraftOcr, NewJob
<1>7. ASSUME NEW k \in subs, NEW doc \in Docs, SubmitEnqueues(k, doc)
      PROVE  JobsAreSound' /\ ResultsAreOfOwner'
  BY <1>2, <1>7 DEF SubmitEnqueues, NewJob
<1>8. ASSUME NEW k \in subs,
             \/ SubmitChecksEmail(k) \/ SubmitReadsDocs(k) \/ SubmitCreates(k)
             \/ SubmitHandsOver(k) \/ SubmitDeletesDraft(k) \/ SubmitStops(k)
      PROVE  JobsAreSound' /\ ResultsAreOfOwner'
  BY <1>2, <1>8 DEF SubmitChecksEmail, SubmitReadsDocs, SubmitCreates, SubmitHandsOver,
     SubmitDeletesDraft, SubmitStops, ResultsWithout, ocr, reader
<1>9. ASSUME \/ \E d \in Drafts : CreateDraft(d) \/ Expires(d)
             \/ \E s \in Submissions, d \in Drafts : SubmitReadsDraft(s, d)
             \/ \E doc \in Docs, h \in Holders : UploadStarts(doc, h)
             \/ Uploading \/ Days \/ UNCHANGED vars
      PROVE  JobsAreSound' /\ ResultsAreOfOwner'
  BY <1>2, <1>9 DEF CreateDraft, Expires, SubmitReadsDraft, UploadStarts, Uploading,
     UploadWritesRow, UploadStores, UploadStops, Days, CleanupDeletesDocs,
     CleanupDeletesDrafts, CleanupStops, ResultsWithout, ocr, reader, vars
<1> QED
  BY <1>3, <1>4, <1>5, <1>6, <1>7, <1>8, <1>9, <1>10
     DEF Next, Candidate, Submitting, SubmitAdvances, Worker, JobAdvances

-----------------------------------------------------------------------------
(* The readings.  A job that is tried again names the same document, one   *)
(* that is not is in the failed set or was passed over unread, and what    *)
(* goes with a draft is not a proposal's.                                  *)
LEMMA ReadingStays ==
  ASSUME TypeOK, [Next]_vars, NEW c \in Docs, NEW s \in Submissions, ReadingIsKnown(c, s)
  PROVE  ReadingIsKnown(c, s)'
<1> USE DEF ReadingIsKnown
<1>1. ASSUME jobs \subseteq jobs', failed' = failed, UNCHANGED reader,
             \A r \in results : r.of = s => r \in results'
      PROVE  ReadingIsKnown(c, s)'
  BY <1>1 DEF reader
<1>2. ASSUME NEW j \in jobs, OcrFails(j) PROVE ReadingIsKnown(c, s)'
  <2>1. /\ failed \subseteq failed' /\ results' = results /\ UNCHANGED reader
        /\ \A i \in jobs : i # j => i \in jobs'
    BY <1>2 DEF OcrFails
  <2>2. \/ j.of = s => [doc |-> j.doc, of |-> s] \in failed'
        \/ NextAttempt(j) \in jobs'
    BY <1>2 DEF OcrFails, OfProposal
  <2>3. NextAttempt(j).doc = j.doc /\ NextAttempt(j).of = j.of
    BY DEF NextAttempt
  <2> QED
    BY <2>1, <2>2, <2>3 DEF reader
<1>3. ASSUME NEW j \in jobs, OcrReads(j) PROVE ReadingIsKnown(c, s)'
  <2>1. CASE OcrFails(j)
    BY <1>2, <2>1
  <2>2. CASE /\ jobs' = (jobs \ {j}) \cup {[j EXCEPT !.step = "write"]}
             /\ UNCHANGED <<failed, results, reader>>
    <3>1. [j EXCEPT !.step = "write"].doc = j.doc /\ [j EXCEPT !.step = "write"].of = j.of
      BY DEF TypeOK, Job
    <3> QED
      BY <2>2, <3>1 DEF reader
  <2> QED
    BY <1>3, <2>1, <2>2 DEF OcrReads
<1>4. ASSUME NEW j \in jobs, OcrWrites(j) PROVE ReadingIsKnown(c, s)'
  <2>1. CASE OcrFails(j)
    BY <1>2, <2>1
  <2>2. CASE /\ jobs' = jobs \ {j} /\ UNCHANGED <<failed, reader>>
             /\ results' = results \cup {[doc |-> j.doc, of |-> j.of]}
    BY <2>2 DEF reader
  <2> QED
    BY <1>4, <2>1, <2>2 DEF OcrWrites
<1>10. ASSUME NEW j \in jobs, OcrSkips(j) PROVE ReadingIsKnown(c, s)'
  <2>1. /\ UNCHANGED <<failed, results, vision>> /\ ~vision /\ skipped \subseteq skipped'
        /\ \A i \in jobs : i # j => i \in jobs'
        /\ j.of = s => [doc |-> j.doc, of |-> s] \in skipped'
    BY <1>10 DEF OcrSkips, OfProposal
  <2> QED
    BY <2>1
<1>5. s \notin Drafts
  OBVIOUS
<1>6. ASSUME NEW k \in subs, SubmitDeletesDraft(k) PROVE ReadingIsKnown(c, s)'
  <2>1. k.d \in Drafts
    BY DEF TypeOK, Submission
  <2> QED
    BY <1>1, <1>5, <1>6, <2>1 DEF SubmitDeletesDraft, ResultsWithout
<1>7. ASSUME CleanupDeletesDrafts PROVE ReadingIsKnown(c, s)'
  <2>1. sweep \subseteq Drafts
    BY DEF TypeOK
  <2> QED
    BY <1>1, <1>5, <1>7, <2>1 DEF CleanupDeletesDrafts, ResultsWithout
<1>8. ASSUME NEW k \in subs,
             \/ SubmitChecksEmail(k) \/ SubmitReadsDocs(k) \/ SubmitCreates(k)
             \/ SubmitHandsOver(k) \/ SubmitStops(k) \/ \E doc \in Docs : SubmitEnqueues(k, doc)
      PROVE  ReadingIsKnown(c, s)'
  BY <1>1, <1>8 DEF SubmitChecksEmail, SubmitReadsDocs, SubmitCreates, SubmitHandsOver,
     SubmitStops, SubmitEnqueues, ocr, reader
<1>9. ASSUME \/ Candidate \/ Uploading \/ CleanupDeletesDocs \/ CleanupStops
             \/ \E d \in Drafts : Expires(d)
             \/ UNCHANGED vars
      PROVE  ReadingIsKnown(c, s)'
  BY <1>1, <1>9 DEF Candidate, CreateDraft, RequestDraftOcr, SubmitReadsDraft, UploadStarts,
     Uploading, UploadWritesRow, UploadStores, UploadStops, CleanupDeletesDocs, CleanupStops,
     Expires, ocr, reader, vars
<1> QED
  BY <1>2, <1>3, <1>4, <1>6, <1>7, <1>8, <1>9, <1>10
     DEF Next, Submitting, SubmitAdvances, Days, Worker, JobAdvances

(* What EnqueuedAreKnown says of one request. *)
Enqueued(k) ==
  k.step = "finish" => \A doc \in OfOcrType(k.docs) \ k.todo : ReadingIsKnown(doc, k.id)

LEMMA EnqueuedKept ==
  ASSUME TypeOK, EnqueuedAreKnown, [Next]_vars
  PROVE  EnqueuedAreKnown'
<1>1. ASSUME NEW k \in subs, k.step = "finish", NEW doc \in OfOcrType(k.docs) \ k.todo
      PROVE  ReadingIsKnown(doc, k.id)'
  <2>1. k.id \in Submissions /\ doc \in Docs
    BY <1>1 DEF TypeOK, Submission, OfOcrType
  <2>2. ReadingIsKnown(doc, k.id)
    BY <1>1 DEF EnqueuedAreKnown
  <2> QED
    BY <2>1, <2>2, ReadingStays
<1> SUFFICES ASSUME NEW r \in subs', r \notin subs
             PROVE  Enqueued(r)'
  BY <1>1 DEF EnqueuedAreKnown, Enqueued
<1>2. ASSUME NEW k \in subs, SubmitHandsOver(k) PROVE Enqueued(r)'
  <2>1. r = [k EXCEPT !.step = "finish", !.todo = OfOcrType(k.docs)] /\ k \in Submission
    BY <1>2 DEF SubmitHandsOver, TypeOK
  <2>2. r.docs = k.docs /\ r.todo = OfOcrType(k.docs)
    BY <2>1 DEF Submission
  <2> QED
    BY <2>2 DEF Enqueued
<1>3. ASSUME NEW k \in subs, NEW doc \in Docs, SubmitEnqueues(k, doc) PROVE Enqueued(r)'
  <2>1. r = [k EXCEPT !.todo = @ \ {doc}] /\ k \in Submission /\ k.step = "finish"
    BY <1>3 DEF SubmitEnqueues, TypeOK
  <2>2. r.id = k.id /\ r.docs = k.docs /\ r.todo = k.todo \ {doc}
    BY <2>1 DEF Submission
  <2>3. ReadingIsKnown(doc, k.id)'
    <3>1. NewJob(doc, k.id) \in jobs'
      BY <1>3 DEF SubmitEnqueues
    <3>2. NewJob(doc, k.id).doc = doc /\ NewJob(doc, k.id).of = k.id
      BY DEF NewJob
    <3> QED
      BY <3>1, <3>2 DEF ReadingIsKnown
  <2> QED
    BY <1>1, <2>1, <2>2, <2>3 DEF Enqueued
<1>4. ASSUME NEW k \in subs, SubmitCreates(k) PROVE Enqueued(r)'
  <2>1. r.docs = k.docs /\ r.step = IF k.docs = {} THEN "finish" ELSE "handOver"
    BY <1>4 DEF SubmitCreates, Advanced, TypeOK, Submission
  <2> QED
    BY <2>1 DEF Enqueued, OfOcrType
<1>5. ASSUME NEW k \in subs,
             \/ SubmitChecksEmail(k) \/ SubmitReadsDocs(k) \/ SubmitDeletesDraft(k)
             \/ SubmitStops(k)
      PROVE  Enqueued(r)'
  <2>1. r = [k EXCEPT !.step = "docs"] \/ r = [k EXCEPT !.step = "create", !.docs = DocsOf(k.d)]
    BY <1>5 DEF SubmitChecksEmail, SubmitReadsDocs, SubmitDeletesDraft, SubmitStops, Advanced
  <2>2. k \in Submission
    BY DEF TypeOK
  <2>3. r.step # "finish"
    BY <2>1, <2>2 DEF Submission
  <2> QED
    BY <2>3 DEF Enqueued
<1>6. ASSUME NEW s \in Submissions, NEW d \in Drafts, SubmitReadsDraft(s, d) PROVE Enqueued(r)'
  BY <1>6 DEF SubmitReadsDraft, Enqueued
<1>7. ASSUME \/ \E d \in Drafts : CreateDraft(d) \/ Expires(d)
             \/ \E d \in Drafts, c \in Docs : RequestDraftOcr(d, c)
             \/ \E c \in Docs, h \in Holders : UploadStarts(c, h)
             \/ Uploading \/ Days \/ Worker \/ UNCHANGED vars
      PROVE  Enqueued(r)'
  BY <1>7 DEF CreateDraft, Expires, RequestDraftOcr, UploadStarts, Uploading,
     UploadWritesRow, UploadStores, UploadStops, Days, CleanupDeletesDocs,
     CleanupDeletesDrafts, CleanupStops, Worker, JobAdvances, OcrFails, OcrReads, OcrSkips,
     OcrWrites, requests, vars
<1> QED
  BY <1>2, <1>3, <1>4, <1>5, <1>6, <1>7 DEF Next, Candidate, Submitting, SubmitAdvances

(* Who is accepted has enqueued all that was checked.                      *)
LEMMA ReadKept ==
  ASSUME TypeOK, RequestsAreSound, CheckedAreHeld, EnqueuedAreKnown, AcceptedIsRead, [Next]_vars
  PROVE  AcceptedIsRead'
<1>1. ASSUME NEW s \in accepted, NEW t \in Required \cap OcrTypes
      PROVE  \E doc \in Docs : TypeOf[doc] = t /\ ReadingIsKnown(doc, s)'
  <2>1. PICK doc \in Docs : TypeOf[doc] = t /\ ReadingIsKnown(doc, s)
    BY <1>1 DEF AcceptedIsRead
  <2>2. s \in Submissions
    BY DEF TypeOK
  <2> QED
    BY <2>1, <2>2, ReadingStays
<1>2. ASSUME UNCHANGED accepted PROVE AcceptedIsRead'
  BY <1>1, <1>2 DEF AcceptedIsRead
<1>3. ASSUME NEW k \in subs, SubmitDeletesDraft(k) PROVE AcceptedIsRead'
  <2>1. k.id \in Submissions /\ k.docs \subseteq Docs /\ k.step = "finish" /\ k.todo = {}
    BY <1>3 DEF SubmitDeletesDraft, TypeOK, Submission
  <2>2. accepted' \subseteq accepted \cup {k.id}
    BY <1>3 DEF SubmitDeletesDraft
  <2>3. ASSUME NEW t \in Required \cap OcrTypes
        PROVE  \E doc \in Docs : TypeOf[doc] = t /\ ReadingIsKnown(doc, k.id)'
    <3>1. PICK doc \in k.docs : TypeOf[doc] = t
      BY <2>1 DEF CheckedAreHeld
    <3>2. ReadingIsKnown(doc, k.id)
      BY <2>1, <3>1 DEF EnqueuedAreKnown, OfOcrType
    <3> QED
      BY <2>1, <3>1, <3>2, ReadingStays
  <2> QED
    BY <1>1, <2>2, <2>3 DEF AcceptedIsRead
<1>4. ASSUME CleanupDeletesDrafts, UNCHANGED accepted PROVE AcceptedIsRead'
  BY <1>2, <1>4
<1> QED
  BY <1>2, <1>3, <1>4, Deleting

-----------------------------------------------------------------------------
LEMMA InitIntake == Init => IntakeInv
  BY DEF Init, IntakeInv, TypeOK, RequestsAreSound, Created, AcceptedHasDraft,
     DraftsAreThere, UploadsAreSound, CheckedAreHeld, JobsAreSound, EnqueuedAreKnown,
     DraftIsNotLost, OneIsAccepted, AcceptedIsComplete, ResultsAreOfOwner, Holders

LEMMA NextIntake == IntakeInv /\ [Next]_vars => IntakeInv'
  BY TypeKept, RequestsKept, AcceptedKept, DraftsKept, UploadsKept, CheckedKept,
     CompleteKept, ResultsKept, EnqueuedKept DEF IntakeInv

(* The inductive invariant of the intake: however submissions of a draft,  *)
(* uploads, OCR jobs and the cleanup interleave.                           *)
THEOREM IntakeInvariant == Spec => []IntakeInv
  BY InitIntake, NextIntake, PTL DEF Spec

(* Every variable keeps its type. *)
THEOREM IntakeTypeCorrect == Spec => []TypeOK
<1>1. IntakeInv => TypeOK
  BY DEF IntakeInv
<1> QED
  BY <1>1, IntakeInvariant, PTL

(* A draft goes only for a proposal made of it, or with its days over.     *)
THEOREM DraftsAreNotLost == Spec => []DraftIsNotLost
<1>1. IntakeInv => DraftIsNotLost
  BY DEF IntakeInv
<1> QED
  BY <1>1, IntakeInvariant, PTL

(* One submission of a draft at most is answered with a protocol.          *)
THEOREM OneSubmissionAccepted == Spec => []OneIsAccepted
<1>1. IntakeInv => OneIsAccepted
  BY DEF IntakeInv
<1> QED
  BY <1>1, IntakeInvariant, PTL

(* An accepted proposal has the documents that were asked for, but for a   *)
(* second submission of the draft or its expiry.                           *)
THEOREM AcceptedAreComplete == Spec => []AcceptedIsComplete
<1>1. IntakeInv => AcceptedIsComplete
  BY DEF IntakeInv
<1> QED
  BY <1>1, IntakeInvariant, PTL

(* The OCR of a proposal is of its own documents.                          *)
THEOREM OcrIsOfOwner == Spec => []ResultsAreOfOwner
<1>1. IntakeInv => ResultsAreOfOwner
  BY DEF IntakeInv
<1> QED
  BY <1>1, IntakeInvariant, PTL

(* Of every type that was asked for and can be read, a document of an      *)
(* accepted proposal is read, waits to be, or is in the failed set; or the *)
(* worker has no recogniser, and its job passed the document over.         *)
THEOREM AcceptedAreRead == Spec => []AcceptedIsRead
<1>1. Init => AcceptedIsRead
  BY DEF Init, AcceptedIsRead
<1>2. IntakeInv /\ AcceptedIsRead /\ [Next]_vars => AcceptedIsRead'
  BY ReadKept DEF IntakeInv
<1> QED
  BY <1>1, <1>2, IntakeInvariant, PTL DEF Spec

(* No step takes a document from a proposal.                               *)
THEOREM ProposalsKeepDocuments == Spec => DocumentsAreKept
<1>1. IntakeInv /\ [Next]_vars =>
        [\A doc \in Docs : owner[doc] \in Submissions => owner'[doc] = owner[doc]]_vars
  BY Kept DEF IntakeInv, StillSo
<1> QED
  BY <1>1, IntakeInvariant, PTL DEF Spec, DocumentsAreKept


-----------------------------------------------------------------------------
(* The desk *)

Past(history) == AsTimeline!Past(history)

(* One more entry: what a history told of it still tells of. *)
LEMMA PastGrows ==
  ASSUME NEW history \in Seq(Entry), NEW en \in Entry
  PROVE  /\ Append(history, en) \in Seq(Entry)
         /\ Past(history) \subseteq Past(Append(history, en))
         /\ en.to \in Past(Append(history, en))
<1>1. /\ Append(history, en) \in Seq(Entry)
      /\ Len(Append(history, en)) = Len(history) + 1
      /\ \A i \in 1 .. Len(history) : Append(history, en)[i] = history[i]
      /\ Append(history, en)[Len(history) + 1] = en
  OBVIOUS
<1>2. /\ DOMAIN history = 1 .. Len(history)
      /\ DOMAIN Append(history, en) = 1 .. Len(Append(history, en))
      /\ Len(history) \in Nat
  BY <1>1
<1> QED
  BY <1>1, <1>2 DEF Past, AsTimeline!Past

(* The entries of the desk are those of the timeline. *)
LEMMA SameEntry == AsTimeline!Entry = Entry
BY DEF Entry, AsTimeline!Entry, ProposalStatus, AsTimeline!ProposalStatus

(* A copy covers proposals only, and is of statuses. *)
LEMMA SeenType ==
  ASSUME NEW k \in Call
  PROVE  /\ DOMAIN k.seen \subseteq Proposals
         /\ \A p \in DOMAIN k.seen : k.seen[p] \in ProposalStatus
         /\ k.to \in ProposalStatus \cup {"SAME"}
<1>1. PICK ps \in SUBSET Proposals : k.seen \in [ps -> ProposalStatus]
  BY DEF Call
<1> QED
  BY <1>1 DEF Call

LEMMA DeskInvInit == DeskInit => DeskInv /\ AsTimeline!Init
<1> SUFFICES ASSUME DeskInit PROVE DeskInv /\ AsTimeline!Init
  OBVIOUS
<1>1. "SUBMITTED" \in ProposalStatus
  BY DEF ProposalStatus
<1>2. [from |-> "NONE", to |-> "SUBMITTED"] \in Entry
  BY <1>1 DEF Entry
<1>3. <<[from |-> "NONE", to |-> "SUBMITTED"]>> \in Seq(Entry)
  BY <1>2
<1>4. DeskTypeOK
  BY <1>1, <1>3, EarlierAssumption DEF DeskInit, DeskTypeOK
<1>5. "SUBMITTED" \in AsTimeline!Past(<<[from |-> "NONE", to |-> "SUBMITTED"]>>)
  BY DEF AsTimeline!Past
<1> QED
  BY <1>4, <1>5 DEF DeskInit, DeskInv, StatusIsTold, CopiesAreTold, AsTimeline!Init

(* A read leaves the history alone, and copies what it tells of. *)
LEMMA OpensStep ==
  ASSUME DeskInv, NEW c, NEW by \in Handler, NEW ps \in SUBSET Proposals,
         NEW to \in ProposalStatus \cup {"SAME"}, Opens(c, by, ps, to)
  PROVE  /\ UNCHANGED <<status, log>>
         /\ calls' \subseteq Call
         /\ used' \subseteq Calls
         /\ StatusIsTold'
         /\ CopiesAreTold'
<1> DEFINE seen == [p \in ps |-> status[p]]
           k == [id |-> c, by |-> by, to |-> to, seen |-> seen]
<1>1. seen \in [ps -> ProposalStatus]
  BY DEF DeskInv, DeskTypeOK
<1>2. seen \in UNION { [qs -> ProposalStatus] : qs \in SUBSET Proposals }
  BY <1>1
<1>3. k \in Call
  BY <1>2 DEF Opens, Call
<1>4. calls' = calls \cup {k} /\ UNCHANGED <<status, log>>
  BY DEF Opens
<1>5. calls' \subseteq Call /\ used' \subseteq Calls
  BY <1>3, <1>4 DEF Opens, DeskInv, DeskTypeOK
<1>6. \A p \in DOMAIN k.seen : k.seen[p] \in AsTimeline!Past(log[p])
  BY DEF DeskInv, StatusIsTold
<1>7. StatusIsTold'
  BY <1>4 DEF DeskInv, StatusIsTold
<1>8. CopiesAreTold'
  <2>1. SUFFICES ASSUME NEW l \in calls', NEW p \in DOMAIN l.seen
                 PROVE  l.seen[p] \in AsTimeline!Past(log[p])
    BY <1>4 DEF CopiesAreTold
  <2>2. CASE l = k
    BY <2>2, <1>6
  <2>3. CASE l \in calls
    BY <2>3 DEF DeskInv, CopiesAreTold
  <2> QED
    BY <2>1, <2>2, <2>3, <1>4
<1> QED
  BY <1>4, <1>5, <1>7, <1>8

LEMMA BulkAndEvents ==
  /\ BulkStatus \subseteq ProposalStatus
  /\ \A t \in EventType : ProposalStatusOf(t) \in ProposalStatus
BY DEF BulkStatus, ProposalStatus, ProposalStatusOf

(* Every action of Staff and Others but the report of TOTVS opens a call.  *)
LEMMA ReadsOpen ==
  ASSUME Staff \/ Others
  PROVE  \/ \E c \in Calls, by \in Handler, ps \in SUBSET Proposals,
              to \in ProposalStatus \cup {"SAME"} :
              Opens(c, by, ps, to) /\ sent' \in SUBSET (sent \cup Proposals)
                                  /\ registered' \in SUBSET (registered \cup Proposals)
         \/ \E c \in Calls, p \in Proposals, to \in {"APPROVED", "CANCELED"} :
              TotvsReports(c, p, to)
<1> DEFINE Read(by, ps, to) ==
             /\ \E c \in Calls : Opens(c, by, ps, to)
             /\ sent' \in SUBSET (sent \cup Proposals)
             /\ registered' \in SUBSET (registered \cup Proposals)
<1>1. {"UNDER_REVIEW", "PENDING_DOCS", "REJECTED", "PENDING_SIGNATURE", "APPROVED"} \subseteq ProposalStatus
  BY DEF ProposalStatus
<1>2. ASSUME NEW c \in Calls, NEW p \in Proposals,
             \/ StartReview(c, p) \/ RequestChanges(c, p) \/ Reject(c, p) \/ Approve(c, p)
             \/ ResendSignatureLink(c, p) \/ AutoAssign(c, p) \/ UploadDocument(c, p)
             \/ OcrMismatch(c, p) \/ TotvsRegisters(c, p)
      PROVE  \E by \in Handler, to \in ProposalStatus \cup {"SAME"} : Read(by, {p}, to)
  <2>1. CASE StartReview(c, p)
    BY <2>1, <1>1 DEF StartReview, Handler
  <2>2. CASE RequestChanges(c, p)
    BY <2>2, <1>1 DEF RequestChanges, Handler
  <2>3. CASE Reject(c, p)
    BY <2>3, <1>1 DEF Reject, Handler
  <2>4. CASE Approve(c, p)
    BY <2>4, <1>1 DEF Approve, Handler
  <2>5. CASE ResendSignatureLink(c, p)
    BY <2>5 DEF ResendSignatureLink, Handler
  <2>6. CASE AutoAssign(c, p)
    BY <2>6 DEF AutoAssign, Handler
  <2>7. CASE UploadDocument(c, p)
    BY <2>7, <1>1 DEF UploadDocument, Handler
  <2>8. CASE OcrMismatch(c, p)
    BY <2>8, <1>1 DEF OcrMismatch, Handler
  <2>9. CASE TotvsRegisters(c, p)
    BY <2>9, <1>1 DEF TotvsRegisters, Handler
  <2> QED
    BY <1>2, <2>1, <2>2, <2>3, <2>4, <2>5, <2>6, <2>7, <2>8, <2>9
<1>3. ASSUME NEW c \in Calls, NEW ps \in SUBSET Proposals, Assign(c, ps)
      PROVE  Read("assign", ps, "SAME")
  BY <1>3 DEF Assign
<1>4. ASSUME NEW c \in Calls, NEW ps \in SUBSET Proposals, NEW to \in BulkStatus,
             BulkSetStatus(c, ps, to)
      PROVE  Read("bulkStatus", ps, to)
  BY <1>4 DEF BulkSetStatus
<1>5. ASSUME NEW c \in Calls, NEW p \in Proposals, NEW type \in EventType,
             ClicksignEvent(c, p, type)
      PROVE  Read("clicksign", {p}, ProposalStatusOf(type))
  BY <1>5 DEF ClicksignEvent
<1>6. {"assign", "bulkStatus", "clicksign"} \subseteq Handler
  BY DEF Handler
<1> HIDE DEF Read
<1>7. CASE \E by \in Handler, ps \in SUBSET Proposals, to \in ProposalStatus \cup {"SAME"} :
             Read(by, ps, to)
  BY <1>7 DEF Read
<1>8. CASE Staff
  <2>1. \/ \E c \in Calls, p \in Proposals :
              \/ StartReview(c, p) \/ RequestChanges(c, p) \/ Reject(c, p)
              \/ Approve(c, p) \/ ResendSignatureLink(c, p)
        \/ \E c \in Calls, ps \in SUBSET Proposals : Assign(c, ps)
        \/ \E c \in Calls, ps \in SUBSET Proposals, to \in BulkStatus : BulkSetStatus(c, ps, to)
    BY <1>8 DEF Staff
  <2>2. \E by \in Handler, ps \in SUBSET Proposals, to \in ProposalStatus \cup {"SAME"} :
          Read(by, ps, to)
    <3>1. CASE \E c \in Calls, p \in Proposals :
                 \/ StartReview(c, p) \/ RequestChanges(c, p) \/ Reject(c, p)
                 \/ Approve(c, p) \/ ResendSignatureLink(c, p)
      <4>1. PICK c \in Calls, p \in Proposals :
                 \/ StartReview(c, p) \/ RequestChanges(c, p) \/ Reject(c, p)
                 \/ Approve(c, p) \/ ResendSignatureLink(c, p)
        BY <3>1
      <4>2. {p} \in SUBSET Proposals
        OBVIOUS
      <4> QED
        BY <4>1, <4>2, <1>2
    <3>2. CASE \E c \in Calls, ps \in SUBSET Proposals : Assign(c, ps)
      BY <3>2, <1>3, <1>6
    <3>3. CASE \E c \in Calls, ps \in SUBSET Proposals, to \in BulkStatus :
                 BulkSetStatus(c, ps, to)
      BY <3>3, <1>4, <1>6, BulkAndEvents
    <3> QED
      BY <2>1, <3>1, <3>2, <3>3
  <2> QED
    BY <2>2, <1>7
<1>9. CASE Others
  <2>1. \/ \E c \in Calls, p \in Proposals :
              AutoAssign(c, p) \/ UploadDocument(c, p) \/ OcrMismatch(c, p) \/ TotvsRegisters(c, p)
        \/ \E c \in Calls, p \in Proposals, type \in EventType : ClicksignEvent(c, p, type)
        \/ \E c \in Calls, p \in Proposals, to \in {"APPROVED", "CANCELED"} :
              TotvsReports(c, p, to)
    BY <1>9 DEF Others
  <2>2. CASE \E c \in Calls, p \in Proposals, to \in {"APPROVED", "CANCELED"} :
               TotvsReports(c, p, to)
    BY <2>2
  <2>3. ASSUME ~ \E c \in Calls, p \in Proposals, to \in {"APPROVED", "CANCELED"} :
                   TotvsReports(c, p, to)
        PROVE  \E by \in Handler, ps \in SUBSET Proposals, to \in ProposalStatus \cup {"SAME"} :
                 Read(by, ps, to)
    <3>1. CASE \E c \in Calls, p \in Proposals :
                 \/ AutoAssign(c, p) \/ UploadDocument(c, p) \/ OcrMismatch(c, p)
                 \/ TotvsRegisters(c, p)
      <4>1. PICK c \in Calls, p \in Proposals :
                 \/ AutoAssign(c, p) \/ UploadDocument(c, p) \/ OcrMismatch(c, p)
                 \/ TotvsRegisters(c, p)
        BY <3>1
      <4>2. {p} \in SUBSET Proposals
        OBVIOUS
      <4> QED
        BY <4>1, <4>2, <1>2
    <3>2. CASE \E c \in Calls, p \in Proposals, type \in EventType : ClicksignEvent(c, p, type)
      <4>1. PICK c \in Calls, p \in Proposals, type \in EventType : ClicksignEvent(c, p, type)
        BY <3>2
      <4>2. {p} \in SUBSET Proposals /\ ProposalStatusOf(type) \in ProposalStatus
        BY BulkAndEvents
      <4> QED
        BY <4>1, <4>2, <1>5, <1>6
    <3> QED
      BY <2>1, <2>3, <3>1, <3>2
  <2> QED
    BY <2>2, <2>3, <1>7
<1> QED
  BY <1>8, <1>9

-----------------------------------------------------------------------------
(* An action that adds at most one entry to a history, of a status that it *)
(* tells of already, keeps the copies.                                     *)
LEMMA ToldStep ==
  ASSUME DeskInv, calls' \subseteq calls,
         status' \in [Proposals -> ProposalStatus], log' \in [Proposals -> Seq(Entry)],
         \A p \in Proposals :
           /\ Past(log[p]) \subseteq Past(log[p])'
           /\ status'[p] \in Past(log[p])'
  PROVE  StatusIsTold' /\ CopiesAreTold'
<1>1. StatusIsTold'
  BY DEF StatusIsTold, Past
<1>2. ASSUME NEW k \in calls', NEW p \in DOMAIN k.seen
      PROVE  k.seen[p] \in AsTimeline!Past(log'[p])
  <2>1. k \in calls /\ k \in Call
    BY DEF DeskInv, DeskTypeOK
  <2>2. p \in Proposals
    BY <2>1, SeenType
  <2> QED
    BY <2>1, <2>2 DEF DeskInv, CopiesAreTold, Past
<1> QED
  BY <1>1, <1>2 DEF CopiesAreTold

LEMMA ClosesStep ==
  ASSUME DeskInv, NEW k \in calls, Closes(k)
  PROVE  DeskInv' /\ AsTimeline!Next
<1> DEFINE en(p) == [ from |-> k.seen[p], to |-> IF k.to = "SAME" THEN k.seen[p] ELSE k.to ]
<1>1. k \in Call
  BY DEF DeskInv, DeskTypeOK
<1>2. /\ DOMAIN k.seen \subseteq Proposals
      /\ \A p \in DOMAIN k.seen : k.seen[p] \in ProposalStatus
      /\ k.to \in ProposalStatus \cup {"SAME"}
  BY <1>1, SeenType
<1>3. ASSUME NEW p \in Proposals, p \in DOMAIN k.seen
      PROVE  /\ log[p] \in Seq(Entry)
             /\ en(p) \in Entry
             /\ log'[p] = Append(log[p], en(p))
             /\ status'[p] = IF k.to # "SAME" THEN k.to ELSE status[p]
             /\ k.seen[p] \in Past(log[p])
  BY <1>2, <1>3 DEF Closes, Entry, DeskInv, DeskTypeOK, CopiesAreTold, Past
<1>4. ASSUME NEW p \in Proposals, p \notin DOMAIN k.seen
      PROVE  status'[p] = status[p] /\ log'[p] = log[p]
  BY <1>4 DEF Closes
<1>5. \A p \in Proposals : status[p] \in ProposalStatus /\ log[p] \in Seq(Entry)
                             /\ status[p] \in Past(log[p])
  BY DEF DeskInv, DeskTypeOK, StatusIsTold, Past
<1>6. ASSUME NEW p \in Proposals
      PROVE  /\ status'[p] \in ProposalStatus
             /\ log'[p] \in Seq(Entry)
             /\ Past(log[p]) \subseteq Past(log'[p])
             /\ status'[p] \in Past(log'[p])
  <2>1. CASE p \in DOMAIN k.seen
    <3> HIDE DEF en
    <3>1. /\ Append(log[p], en(p)) \in Seq(Entry)
          /\ Past(log[p]) \subseteq Past(Append(log[p], en(p)))
          /\ en(p).to \in Past(Append(log[p], en(p)))
      BY <2>1, <1>3, PastGrows
    <3>2. en(p).to = IF k.to = "SAME" THEN k.seen[p] ELSE k.to
      BY DEF en
    <3> QED
      BY <2>1, <1>2, <1>3, <1>5, <3>1, <3>2
  <2>2. CASE p \notin DOMAIN k.seen
    BY <2>2, <1>4, <1>5
  <2> QED
    BY <2>1, <2>2
<1>7. /\ status' \in [Proposals -> ProposalStatus]
      /\ log' \in [Proposals -> Seq(Entry)]
      /\ calls' \subseteq calls
  BY <1>6 DEF Closes
<1>8. DeskInv'
  <2>1. StatusIsTold' /\ CopiesAreTold'
    BY <1>6, <1>7, ToldStep
  <2> QED
    BY <2>1, <1>7 DEF DeskInv, DeskTypeOK, Closes
<1>9. ASSUME NEW p \in Proposals, p \in DOMAIN k.seen
      PROVE  AsTimeline!Told(p)
  <2>1. en(p) \in AsTimeline!Entry
    BY <1>3, <1>9, SameEntry
  <2>2. en(p).from = k.seen[p] /\ en(p).to = IF k.to = "SAME" THEN k.seen[p] ELSE k.to
    OBVIOUS
  <2> HIDE DEF en
  <2> QED
    BY <2>1, <2>2, <1>3, <1>9 DEF AsTimeline!Told, Past
<1>10. AsTimeline!Next
  BY <1>4, <1>9 DEF AsTimeline!Next, AsTimeline!Untouched
<1> QED
  BY <1>8, <1>10

LEMMA ReportStep ==
  ASSUME DeskInv, NEW c, NEW p \in Proposals, NEW to \in {"APPROVED", "CANCELED"},
         TotvsReports(c, p, to)
  PROVE  DeskInv' /\ AsTimeline!Next
<1> DEFINE en == [from |-> "NONE", to |-> to]
<1>1. to \in ProposalStatus
  BY DEF ProposalStatus
<1>2. en \in Entry
  BY <1>1 DEF Entry
<1>3. /\ status' = [status EXCEPT ![p] = to]
      /\ log' = [log EXCEPT ![p] = Append(@, en)]
      /\ calls' = calls
      /\ used' \subseteq Calls /\ sent' \subseteq Proposals /\ registered' \subseteq Proposals
  BY DEF TotvsReports, DeskInv, DeskTypeOK
<1>4. \A q \in Proposals : status[q] \in ProposalStatus /\ log[q] \in Seq(Entry)
                             /\ status[q] \in Past(log[q])
  BY DEF DeskInv, DeskTypeOK, StatusIsTold, Past
<1>5. /\ Append(log[p], en) \in Seq(Entry)
      /\ Past(log[p]) \subseteq Past(Append(log[p], en))
      /\ en.to \in Past(Append(log[p], en))
  BY <1>2, <1>4, PastGrows
<1>6. /\ status' \in [Proposals -> ProposalStatus]
      /\ log' \in [Proposals -> Seq(Entry)]
      /\ status'[p] = to
      /\ log'[p] = Append(log[p], en)
      /\ \A q \in Proposals \ {p} : status'[q] = status[q] /\ log'[q] = log[q]
  BY <1>1, <1>3, <1>5 DEF DeskInv, DeskTypeOK
<1>7. en.to = to
  OBVIOUS
<1>8. \A q \in Proposals : Past(log[q]) \subseteq Past(log'[q]) /\ status'[q] \in Past(log'[q])
  <2> HIDE DEF en
  <2> QED
    BY <1>4, <1>5, <1>6, <1>7
<1>9. DeskInv'
  <2>1. StatusIsTold' /\ CopiesAreTold'
    BY <1>3, <1>6, <1>8, ToldStep
  <2> QED
    BY <2>1, <1>3, <1>6 DEF DeskInv, DeskTypeOK
<1>10. AsTimeline!Told(p)
  <2>1. en \in AsTimeline!Entry
    BY <1>2, SameEntry
  <2>2. en.from = "NONE" /\ en.to = to
    OBVIOUS
  <2> HIDE DEF en
  <2> QED
    BY <1>6, <2>1, <2>2 DEF AsTimeline!Told
<1>11. AsTimeline!Next
  BY <1>6, <1>10 DEF AsTimeline!Next, AsTimeline!Untouched
<1> QED
  BY <1>9, <1>11

LEMMA DeskInvStep ==
  ASSUME DeskInv, [DeskNext]_deskVars
  PROVE  DeskInv' /\ [AsTimeline!Next]_(AsTimeline!vars)
<1> USE DEF AsTimeline!vars
<1>1. CASE UNCHANGED deskVars
  BY <1>1 DEF deskVars, DeskInv, DeskTypeOK, StatusIsTold, CopiesAreTold
<1>2. CASE Staff \/ Others
  <2>1. ASSUME NEW c \in Calls, NEW by \in Handler, NEW ps \in SUBSET Proposals,
               NEW to \in ProposalStatus \cup {"SAME"}, Opens(c, by, ps, to),
               sent' \in SUBSET (sent \cup Proposals),
               registered' \in SUBSET (registered \cup Proposals)
        PROVE  DeskInv' /\ UNCHANGED <<status, log>>
    <3>1. /\ UNCHANGED <<status, log>>
          /\ calls' \subseteq Call
          /\ used' \subseteq Calls
          /\ StatusIsTold'
          /\ CopiesAreTold'
      BY <2>1, OpensStep
    <3> QED
      BY <2>1, <3>1 DEF DeskInv, DeskTypeOK
  <2> QED
    BY <1>2, <2>1, ReadsOpen, ReportStep
<1>3. CASE \E k \in calls : Closes(k)
  BY <1>3, ClosesStep
<1>4. CASE \E k \in calls : Stops(k)
  BY <1>4 DEF Stops, DeskInv, DeskTypeOK, StatusIsTold, CopiesAreTold
<1> QED
  BY <1>1, <1>2, <1>3, <1>4 DEF DeskNext

-----------------------------------------------------------------------------
(* Types, the status is told of, and every copy a handler works from is.   *)
THEOREM DeskInvariant == DeskSpec => []DeskInv
<1>1. DeskInit => DeskInv
  BY DeskInvInit
<1>2. DeskInv /\ [DeskNext]_deskVars => DeskInv'
  BY DeskInvStep
<1> QED
  BY <1>1, <1>2, PTL DEF DeskSpec

(* The desk implements the timeline: however its handlers overlap and      *)
(* wherever they stop, the history only grows, the status changes only     *)
(* together with an entry that names the new one, and no entry tells of a  *)
(* status that the proposal never had.                                     *)
THEOREM DeskKeepsTimeline == DeskSpec => IsTimeline
<1>1. DeskInit => AsTimeline!Init
  BY DeskInvInit
<1>2. DeskInv /\ [DeskNext]_deskVars => [AsTimeline!Next]_(AsTimeline!vars)
  BY DeskInvStep
<1> QED
  BY <1>1, <1>2, DeskInvariant, PTL DEF DeskSpec, IsTimeline, AsTimeline!Spec

=============================================================================
