----------------------------- MODULE Retention ------------------------------
(***************************************************************************)
(* The files of one applicant: an object in the storage and a DocumentFile *)
(* row that names it, written and removed in two steps each, in neither    *)
(* case together.                                                          *)
(*                                                                         *)
(* An upload writes the row first and the object later (the browser puts   *)
(* it, when it likes); a file that the system makes (contract, dossier,    *)
(* trail, signed copy, certificate) is stored first and gets its row       *)
(* after.  Three processes remove files: the applicant's erasure, the      *)
(* nightly retention and the nightly cleanup of drafts.  Each lists rows   *)
(* first and acts on that list.                                            *)
(***************************************************************************)
EXTENDS Naturals, FiniteSets

CONSTANTS
  Uploads,     (* files that the applicant uploads                         *)
  Made,        (* files that the system makes, one per attempt             *)
  BatchSize,   (* rows per round of the retention: 50 in the code          *)
  MaxFaults    (* bound on storage errors and processes that stop          *)

ASSUME FilesAssumption  == Uploads \cap Made = {} /\ IsFiniteSet(Uploads \cup Made)
ASSUME BatchAssumption  == BatchSize \in Nat \ {0}
ASSUME FaultsAssumption == MaxFaults \in Nat

VARIABLES
  owner,     (* whose the files are: a draft, then a proposal              *)
  row,       (* the DocumentFile row                                       *)
  stored,    (* keys that have an object in the storage (external)         *)
  old,       (* rows past RETENTION_DAYS_DOCUMENTS                         *)
  writer,    (* who writes the file: before, between or past its two steps *)
  eraser,    (* PublicService.deleteProposal                               *)
  cleaner,   (* MaintenanceWorker.cleanupDocuments                         *)
  asked,     (* history variable: an erasure was asked for                 *)
  faults     (* faults so far                                              *)

vars == <<owner, row, stored, old, writer, eraser, cleaner, asked, faults>>

Files == Uploads \cup Made

(* A process that removes files: the rows it listed, those whose object it *)
(* has yet to delete, and two history fields: those whose deletion the     *)
(* storage failed, and those written to since the list was read.           *)
Remover ==
  { r \in [ step : {"idle", "deleting"}, list : SUBSET Files, left : SUBSET Files,
            failed : SUBSET Files, fresh : SUBSET Files ] :
      /\ r.left \cup r.failed \subseteq r.list
      /\ r.left \cap r.failed = {} }

Idle == [step |-> "idle", list |-> {}, left |-> {}, failed |-> {}, fresh |-> {}]

Listed(files) ==
  [step |-> "deleting", list |-> files, left |-> files, failed |-> {}, fresh |-> {}]

TypeOK ==
  /\ owner \in {"draft", "expiring", "expired", "proposal", "erased"}
  /\ row \in [Files -> {"none", "live", "gone"}]
  /\ stored \subseteq Files
  /\ old \subseteq Files
  /\ writer \in [Files -> {"before", "between", "past"}]
  /\ eraser \in Remover
  /\ cleaner \in Remover
  /\ asked \in BOOLEAN
  /\ faults \in 0 .. MaxFaults

Init ==
  /\ owner = "draft"
  /\ row = [f \in Files |-> "none"]
  /\ stored = {}
  /\ old = {}
  /\ writer = [f \in Files |-> "before"]
  /\ eraser = Idle
  /\ cleaner = Idle
  /\ asked = FALSE
  /\ faults = 0

-----------------------------------------------------------------------------
(* Shorthands *)

Live == { f \in Files : row[f] = "live" }
Fault == faults < MaxFaults /\ faults' = faults + 1
WriterGoes(f, step) == writer' = [writer EXCEPT ![f] = step]
RowsGo(files) == row' = [f \in Files |-> IF f \in files THEN "gone" ELSE row[f]]

(* Whoever has a list does not know of what is written now. *)
Touches(f) ==
  /\ eraser' = [eraser EXCEPT !.fresh = IF eraser.step = "idle" THEN @ ELSE @ \cup {f}]
  /\ cleaner' = [cleaner EXCEPT !.fresh = IF cleaner.step = "idle" THEN @ ELSE @ \cup {f}]

-----------------------------------------------------------------------------
(* Writing a file *)

(* PublicUploadsService.createPresign, uploadDirect: the row, for a draft  *)
(* that was alive when it was looked up, or for a proposal.                *)
UploadsRow(f) ==
  /\ f \in Uploads /\ writer[f] = "before"
  /\ owner \in {"draft", "expiring", "proposal"}
  /\ row' = [row EXCEPT ![f] = "live"]
  /\ WriterGoes(f, "between")
  /\ Touches(f)
  /\ UNCHANGED <<owner, stored, old, asked, faults>>

(* The object of an upload arrives, be its row there or not; a presigned   *)
(* URL may be used again.                                                  *)
UploadsObject(f) ==
  /\ f \in Uploads /\ writer[f] # "before"
  /\ stored' = stored \cup {f}
  /\ WriterGoes(f, "past")
  /\ Touches(f)
  /\ UNCHANGED <<owner, row, old, asked, faults>>

(* handlePdfJob, handleDossierJob, handleAuditJob, storeDocument: what is  *)
(* made of the proposal is stored.                                         *)
MakesObject(f) ==
  /\ f \in Made /\ writer[f] = "before"
  /\ owner = "proposal"
  /\ stored' = stored \cup {f}
  /\ WriterGoes(f, "between")
  /\ Touches(f)
  /\ UNCHANGED <<owner, row, old, asked, faults>>

(* Its row follows, unless the proposal is gone: then the job throws, and  *)
(* its next attempt makes another file or none.                            *)
MakesRow(f) ==
  /\ f \in Made /\ writer[f] = "between"
  /\ row' = [row EXCEPT ![f] = IF owner = "proposal" THEN "live" ELSE @]
  /\ WriterGoes(f, "past")
  /\ Touches(f)
  /\ UNCHANGED <<owner, stored, old, asked, faults>>

(* The job stops between the two. *)
MakerStops(f) ==
  /\ f \in Made /\ writer[f] = "between"
  /\ Fault
  /\ WriterGoes(f, "past")
  /\ UNCHANGED <<owner, row, stored, old, eraser, cleaner, asked>>

-----------------------------------------------------------------------------
(* The owner *)

(* submitProposal takes the draft's rows over. *)
Submits ==
  /\ owner = "draft"
  /\ owner' = "proposal"
  /\ UNCHANGED <<row, stored, old, writer, eraser, cleaner, asked, faults>>

(* cleanupExpiredDrafts deletes the rows of drafts that have expired, then *)
(* the drafts, and with them what was added in between; no object.         *)
Expires ==
  /\ owner \in {"draft", "expiring"}
  /\ owner' = IF owner = "draft" THEN "expiring" ELSE "expired"
  /\ RowsGo(Live)
  /\ UNCHANGED <<stored, old, writer, eraser, cleaner, asked, faults>>

(* Time passes for a row (a year, as delivered). *)
Ages(f) ==
  /\ f \in Live
  /\ owner = "proposal"
  /\ old' = old \cup {f}
  /\ UNCHANGED <<owner, row, stored, writer, eraser, cleaner, asked, faults>>

-----------------------------------------------------------------------------
(* PublicService.deleteProposal *)

EraserReads ==
  /\ eraser.step = "idle" /\ owner = "proposal"
  /\ eraser' = Listed(Live)
  /\ asked' = TRUE
  /\ UNCHANGED <<owner, row, stored, old, writer, cleaner, faults>>

(* One of the deletions that Promise.all waits for; one that fails is      *)
(* noted in storageErrors.                                                 *)
EraserDeletes(f) ==
  /\ f \in eraser.left
  /\ \/ /\ stored' = stored \ {f}
        /\ eraser' = [eraser EXCEPT !.left = @ \ {f}]
        /\ UNCHANGED faults
     \/ /\ Fault
        /\ eraser' = [eraser EXCEPT !.left = @ \ {f}, !.failed = @ \cup {f}]
        /\ UNCHANGED stored
  /\ UNCHANGED <<owner, row, old, writer, cleaner, asked>>

(* Mutant: the deletions are started and not waited for.                   *)
EraserCommitsEarly ==
  /\ eraser.step = "deleting"
  /\ owner' = "erased"
  /\ RowsGo(Live)
  /\ eraser' = Idle
  /\ UNCHANGED <<stored, old, writer, cleaner, asked, faults>>

(* The transaction deletes the proposal, and its rows go with it.          *)
EraserCommits ==
  /\ eraser.step = "deleting" /\ eraser.left = {}
  /\ owner' = "erased"
  /\ RowsGo(Live)
  /\ eraser' = Idle
  /\ UNCHANGED <<stored, old, writer, cleaner, asked, faults>>

(* The transaction fails, or the process stops: nothing is taken back.     *)
EraserStops ==
  /\ eraser.step = "deleting"
  /\ Fault
  /\ eraser' = Idle
  /\ UNCHANGED <<owner, row, stored, old, writer, cleaner, asked>>

-----------------------------------------------------------------------------
(* MaintenanceWorker.cleanupDocuments *)

(* Mutant: the cutoff is compared the wrong way round.                     *)
PastCutoffWrong == Live \ old

PastCutoff == Live \cap old

(* A round lists the oldest rows past the cutoff, BatchSize at most (which *)
(* of them are the oldest is left open).                                   *)
CleanerReads ==
  /\ cleaner.step = "idle"
  /\ \E batch \in SUBSET PastCutoff :
       /\ batch # {}
       /\ Cardinality(batch) <= BatchSize
       /\ Cardinality(batch) < BatchSize => batch = PastCutoff
       /\ cleaner' = Listed(batch)
  /\ UNCHANGED <<owner, row, stored, old, writer, eraser, asked, faults>>

(* A deletion that fails is logged, no more. *)
CleanerDeletes(f) ==
  /\ f \in cleaner.left
  /\ \/ /\ stored' = stored \ {f}
        /\ cleaner' = [cleaner EXCEPT !.left = @ \ {f}]
        /\ UNCHANGED faults
     \/ /\ Fault
        /\ cleaner' = [cleaner EXCEPT !.left = @ \ {f}, !.failed = @ \cup {f}]
        /\ UNCHANGED stored
  /\ UNCHANGED <<owner, row, old, writer, eraser, asked>>

(* Mutant: a row whose object never arrived is left alone.                 *)
CleanerDropsStored ==
  /\ cleaner.step = "deleting" /\ cleaner.left = {}
  /\ RowsGo({ f \in cleaner.list \cap Live : writer[f] = "past" })
  /\ cleaner' = Idle
  /\ UNCHANGED <<owner, stored, old, writer, eraser, asked, faults>>

(* deleteMany over the batch, whatever came of the objects; then the next  *)
(* round.                                                                  *)
CleanerDrops ==
  /\ cleaner.step = "deleting" /\ cleaner.left = {}
  /\ RowsGo(cleaner.list \cap Live)
  /\ cleaner' = Idle
  /\ UNCHANGED <<owner, stored, old, writer, eraser, asked, faults>>

(* The worker stops or the database fails: the job's second attempt, or    *)
(* the next night's, starts over.                                          *)
CleanerStops ==
  /\ cleaner.step = "deleting"
  /\ Fault
  /\ cleaner' = Idle
  /\ UNCHANGED <<owner, row, stored, old, writer, eraser, asked>>

-----------------------------------------------------------------------------
Write(f) == UploadsRow(f) \/ UploadsObject(f) \/ MakesObject(f) \/ MakesRow(f) \/ MakerStops(f)

Erase == EraserReads \/ (\E f \in Files : EraserDeletes(f)) \/ EraserCommits \/ EraserStops

Clean == CleanerReads \/ (\E f \in Files : CleanerDeletes(f)) \/ CleanerDrops \/ CleanerStops

Next == (\E f \in Files : Write(f) \/ Ages(f)) \/ Submits \/ Expires \/ Erase \/ Clean

(* The retention is run every night until nothing is left to do.  Nobody   *)
(* has to upload, to submit or to ask for an erasure.                      *)
Fairness == WF_vars(CleanerReads \/ (\E f \in Files : CleanerDeletes(f)) \/ CleanerDrops)

Spec == Init /\ [][Next]_vars
FairSpec == Spec /\ Fairness

-----------------------------------------------------------------------------
(* A row goes only after its object: whoever drops it has had the object   *)
(* deleted, or the storage failed to, or what is dropped was written after *)
(* the list was read.  A draft that expires is the exception: its objects  *)
(* stay for good (deleteProposal, cleanupDocuments, cleanupExpiredDrafts). *)
RowGoes(f) == row[f] = "live" /\ row'[f] = "gone"

RowGoesAfterItsObject ==
  [][ \A f \in Files :
        (RowGoes(f) /\ f \in stored /\ owner \notin {"draft", "expiring"}) =>
          \/ owner' = "erased" /\ f \in eraser.failed \cup eraser.fresh
          \/ f \in cleaner.failed \cup cleaner.fresh ]_vars

(* A file that is on record, uploaded or made in full, and neither too old *)
(* nor asked to be erased can be opened: none of the three removers, nor   *)
(* two of them at once, takes an object it was not told to.                *)
RecordedFileIsThere ==
  \A f \in Files :
    (row[f] = "live" /\ writer[f] = "past" /\ f \notin old /\ ~asked) => f \in stored

(* Nothing of an applicant comes back after the erasure, or after the      *)
(* draft is gone: a job or an upload that was under way then writes no row *)
(* (the foreign keys of DocumentFile, resolveOwner).                       *)
NothingComesBack == owner \in {"expired", "erased"} => Live = {}

(* A row past its time goes in the end, though rounds stop half way and    *)
(* though the storage fails its object or never had one.                   *)
OldRowsGo == \A f \in Files : (f \in old /\ row[f] = "live") ~> row[f] = "gone"

(* docs/COMPLIANCE_LGPD.md: an erasure takes the objects of the proposal   *)
(* with it (deleteProposal).  With no fault at all it does not: what is    *)
(* uploaded or made after the list was read stays, without a row.          *)
ErasureTakesEveryObject == owner = "erased" => stored = {}

(* What a process that removes files has done so far: an object it was     *)
(* told to delete is there only if its turn has yet to come, the storage   *)
(* failed it, or it was written again (Promise.all of deleteProposal, the  *)
(* loop of cleanupDocuments).  The retention lists what is old, and never  *)
(* takes from its list what is in use; an erasure lists all there is.      *)
ListIsWorkedOff(r) ==
  /\ r.step = "idle" => r = Idle
  /\ (r.list \ (r.left \cup r.failed \cup r.fresh)) \cap stored = {}

RemoversAreSound ==
  /\ ListIsWorkedOff(eraser) /\ ListIsWorkedOff(cleaner)
  /\ cleaner.list \subseteq old
  /\ eraser.step = "deleting" => asked /\ Live \subseteq eraser.list \cup eraser.fresh

(* A file that the system makes has its object before it has its row, so   *)
(* that a job that stops between the two leaves no row that points to      *)
(* nothing.                                                                *)
MadeFileIsStored ==
  \A f \in Made :
    /\ writer[f] # "past" => row[f] = "none"
    /\ writer[f] = "between" /\ f \notin old /\ ~asked => f \in stored

(* The invariants of the files: those in use are there, and those of an    *)
(* applicant who is gone are not; with what makes it so, the invariant is  *)
(* inductive (Retention_proofs).                                           *)
RetentionInv ==
  /\ TypeOK
  /\ RemoversAreSound /\ MadeFileIsStored
  /\ RecordedFileIsThere /\ NothingComesBack

=============================================================================
