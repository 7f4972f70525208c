----------------------------- MODULE OcrReading -----------------------------
(***************************************************************************)
(* The reading of an identity document while the form is filled in: the    *)
(* upload widget (SmartDocumentUpload) with its quality alert, upload and  *)
(* preview, the API's request for readings, the ocr.process job that reads *)
(* the image and compares the name and the CPF on it with the draft's, and *)
(* the form, which takes over what the candidate confirms.  One draft, one *)
(* widget.                                                                 *)
(* Whose a document is, the attempts of a job and what becomes of results  *)
(* on submission are in DraftIntake; the rest of the form is in DraftForm. *)
(***************************************************************************)
EXTENDS Integers, Sequences, FiniteSets, FiniteSetsExt, SequencesExt

CONSTANTS
  Docs,        (* DocumentFile rows the draft may get (a bound)            *)
  NoDoc,       (* no document                                              *)
  Papers,      (* what a photograph may show                               *)
  Typed,       (* names the candidate may type                             *)
  Cpfs,        (* CPFs that may be typed or read                           *)
  InvalidCpfs, (* those of them whose check digits are wrong               *)
  NoCpf,       (* no CPF                                                   *)
  MaxPct,      (* OCR_DIVERGENCE_THRESHOLD, in percent: 20 in the code     *)
  Take,        (* results the API gives: the latest 5 in the code          *)
  Tries,       (* times the widget looks for a result: 6 in the code       *)
  MaxTriggers, (* bound on the readings asked for                          *)
  MaxEdits,    (* bound on what is typed                                   *)
  MaxFaults    (* bound on what goes wrong                                 *)

(* small: too small an image to be read.  few: too few letters on it.      *)
(* name: the name as found and normalised, empty where none is.  cpf: the  *)
(* CPF as found.  rg, cnh: keywords of either kind.                        *)
ASSUME PapersAssumption ==
  /\ Papers # {}
  /\ \A p \in Papers : /\ p.small \in BOOLEAN /\ p.few \in BOOLEAN
                       /\ p.cpf \in Cpfs \cup {NoCpf}
                       /\ p.rg \in Nat /\ p.cnh \in Nat
ASSUME CpfsAssumption == InvalidCpfs \subseteq Cpfs /\ NoCpf \notin Cpfs
ASSUME ReadingBounds ==
  {MaxPct, Take, Tries, MaxTriggers, MaxEdits, MaxFaults} \subseteq Nat /\ Tries > 0
ASSUME NoDocAssumption == NoDoc \notin Docs

Names == Typed \cup {<<>>} \cup { p.name : p \in Papers }
Persons == [name : Names, cpf : Cpfs \cup {NoCpf}]

VARIABLES
  paper,       (* what the photograph of each document shows               *)
  rows,        (* DocumentFile rows of the draft                           *)
  stored,      (* documents whose object is in the storage                 *)
  jobs,        (* ocr.process jobs that wait, per document                 *)
  work,        (* the job under way                                        *)
  results,     (* OcrResult rows, oldest first                             *)
  vision,      (* vision.enabled: the worker has a recogniser              *)
  draftData,   (* Draft.data: fullName and cpf                             *)
  widget,      (* the state of SmartDocumentUpload                         *)
  fields,      (* the form's name and CPF, and the document of this kind   *)
  failed,      (* history: an upload failed since the last that worked     *)
  used         (* triggers, edits and faults so far                        *)

readingVars ==
  <<paper, rows, stored, jobs, work, results, vision, draftData, widget, fields, failed, used>>
uploads == <<paper, rows, stored>>
reading == <<jobs, work, results, vision>>

Some == Docs \cup {NoDoc}
NoPhoto == CHOOSE p \in Papers : TRUE   (* where none has been chosen      *)

Nobody == [name |-> <<>>, cpf |-> NoCpf]

(* was: the draft's data when the job began.  held: what they have been    *)
(* since the image was read, none before (history, but for which of them   *)
(* the job gets).                                                          *)
NoWork == [doc |-> NoDoc, was |-> Nobody, held |-> {}]

(* heuristics: legibility, comparison and docType.                         *)
Result == [doc : Docs, legible : BOOLEAN, mismatch : BOOLEAN, wrongKind : BOOLEAN]

(* photo: the file chosen; current: currentDocumentId; info:               *)
(* uploadedDraftInfo; preview: the document whose data is shown to be      *)
(* confirmed; tries: looks at the results so far; seen: how many there     *)
(* were at the last look, when none was found (history).  ok: the form has *)
(* the document as uploaded.                                               *)
ReadingTypeOK ==
  /\ paper \in [Docs -> Papers]
  /\ rows \subseteq Docs /\ stored \subseteq rows
  /\ jobs \in [Docs -> 0 .. MaxTriggers]
  /\ work \in [doc : Docs, was : Persons, held : SUBSET Persons] \cup {NoWork}
  /\ results \in Seq(Result)
  /\ vision \in BOOLEAN
  /\ draftData \in Persons
  /\ widget \in [ flow : {"idle", "alert", "presign", "put", "ask", "poll", "preview"},
                  photo : Papers, current : Some, info : Some, preview : Some,
                  tries : 0 .. Tries, seen : Nat ]
  /\ fields \in [name : Names, cpf : Cpfs \cup {NoCpf}, doc : Some, ok : BOOLEAN]
  /\ failed \in BOOLEAN
  /\ used \in [triggers : 0 .. MaxTriggers, edits : 0 .. MaxEdits, faults : 0 .. MaxFaults]

ReadingInit ==
  /\ paper = [d \in Docs |-> NoPhoto]
  /\ widget = [ flow |-> "idle", photo |-> NoPhoto, current |-> NoDoc, info |-> NoDoc,
                preview |-> NoDoc, tries |-> 0, seen |-> 0 ]
  /\ rows = {} /\ stored = {}
  /\ jobs = [d \in Docs |-> 0]
  /\ work = NoWork
  /\ results = <<>>
  /\ vision \in BOOLEAN
  /\ \E n \in Typed, c \in (Cpfs \ InvalidCpfs) \cup {NoCpf} :
       /\ draftData = [name |-> n, cpf |-> c]
       /\ fields = [name |-> n, cpf |-> c, doc |-> NoDoc, ok |-> FALSE]
  /\ failed = FALSE
  /\ used = [triggers |-> 0, edits |-> 0, faults |-> 0]

Flows(flow) == widget.flow = flow
Goes(flow) == widget' = [widget EXCEPT !.flow = flow]
Edited == used.edits < MaxEdits /\ used' = [used EXCEPT !.edits = @ + 1]
Faulty == used.faults < MaxFaults /\ used' = [used EXCEPT !.faults = @ + 1]

-----------------------------------------------------------------------------
(* Names and CPFs compared (ocr-parser, ocr-compare)                       *)

(* Mutant: a letter in the place of another costs nothing.                 *)
NoCost(a, b) == 0

Cost(a, b) == IF a = b THEN 0 ELSE 1

(* levenshteinDistance: the matrix, row by row. *)
Distance(a, b) ==
  LET m[i \in 0 .. Len(a), j \in 0 .. Len(b)] ==
        IF i = 0 THEN j
        ELSE IF j = 0 THEN i
        ELSE Min({ m[i - 1, j] + 1, m[i, j - 1] + 1,
                   m[i - 1, j - 1] + Cost(a[i], b[j]) })
  IN m[Len(a), Len(b)]

(* stringSimilarity: 1 - distance / maxLen; no divergence where either     *)
(* name is missing.                                                        *)
Diverges(found, typed) ==
  /\ found # <<>> /\ typed # <<>>
  /\ 100 * Distance(found, typed) > MaxPct * Max({Len(found), Len(typed)})

(* hashValue tells CPFs apart as they are; none differs from a missing one. *)
CpfDiffers(found, typed) == found # NoCpf /\ typed # NoCpf /\ found # typed

(* compareOcrWithProposal: either reason is enough. *)
Mismatch(found, data) == Diverges(found.name, data.name) \/ CpfDiffers(found.cpf, data.cpf)

(* detectDocumentType: more keywords of one kind than of the other. *)
Detected(p) ==
  IF p.rg > p.cnh THEN "RG" ELSE IF p.cnh > p.rg THEN "CNH" ELSE "UNKNOWN"

(* parseDocumentText.  An image that is too small is not read             *)
(* (recordLegibilityFailure).                                              *)
FoundOn(p) == IF p.small THEN Nobody ELSE [name |-> p.name, cpf |-> p.cpf]

(* handleJob on a document uploaded as RG, given the draft's data; few     *)
(* letters are compared as many are.                                       *)
Reading(doc, data) ==
  LET p == paper[doc] IN
  [ doc |-> doc, legible |-> ~p.small /\ ~p.few, mismatch |-> Mismatch(FoundOn(p), data),
    wrongKind |-> ~p.small /\ Detected(p) = "CNH" ]

-----------------------------------------------------------------------------
(* The form *)

Types ==
  /\ Edited
  /\ \/ \E n \in Typed \ {fields.name} : fields' = [fields EXCEPT !.name = n]
     \/ \E c \in Cpfs \ {fields.cpf} : fields' = [fields EXCEPT !.cpf = c]
  /\ UNCHANGED <<uploads, reading, draftData, widget, failed>>

(* buildDraftPayload leaves out what is blank, mergeDraftData keeps it. *)
Merged ==
  [ name |-> IF fields.name = <<>> THEN draftData.name ELSE fields.name,
    cpf |-> IF fields.cpf = NoCpf THEN draftData.cpf ELSE fields.cpf ]

(* syncDraft, updateDraft: all is refused where the CPF is not valid. *)
SavesPerson ==
  /\ fields.cpf \notin InvalidCpfs
  /\ draftData # Merged
  /\ draftData' = Merged
  /\ work' = [work EXCEPT !.held = IF @ = {} THEN @ ELSE @ \cup {Merged}]
  /\ UNCHANGED <<uploads, jobs, results, vision, widget, fields, failed, used>>

-----------------------------------------------------------------------------
(* The widget: choosing and uploading a file *)

(* handleFileSelect: a photograph that looks poor is asked about first.    *)
Chooses(p) ==
  /\ Flows("idle") /\ rows # Docs
  /\ \E warned \in BOOLEAN :
       widget' = [widget EXCEPT !.photo = p, !.flow = IF warned THEN "alert" ELSE "presign"]
  /\ UNCHANGED <<uploads, reading, draftData, fields, failed, used>>

Proceeds ==
  /\ Flows("alert") /\ Goes("presign")
  /\ UNCHANGED <<uploads, reading, draftData, fields, failed, used>>

Cancels ==
  /\ Flows("alert")
  /\ widget' = [widget EXCEPT !.flow = "idle", !.photo = NoPhoto]
  /\ UNCHANGED <<uploads, reading, draftData, fields, failed, used>>

(* The id of a new row: which one does not matter. *)
NewDocs == { d \in Docs \ rows : d = CHOOSE e \in Docs \ rows : TRUE }

(* createPresign: there is a row before there is an object. *)
Presigns(d) ==
  /\ Flows("presign")
  /\ rows' = rows \cup {d}
  /\ paper' = [paper EXCEPT ![d] = widget.photo]
  /\ widget' = [widget EXCEPT !.flow = "put", !.current = d, !.photo = NoPhoto]
  /\ UNCHANGED <<stored, reading, draftData, fields, failed, used>>

PutWorked(arrives, answer) == answer = "ok"

(* The PUT: the storage takes the object or not, and its answer comes or   *)
(* is lost.                                                                *)
Puts ==
  /\ Flows("put")
  /\ \E arrives \in BOOLEAN, answer \in {"ok", "error", "none"} :
       /\ answer = "ok" => arrives
       /\ answer = "error" => ~arrives
       /\ stored' = IF arrives THEN stored \cup {widget.current} ELSE stored
       /\ IF answer = "ok" THEN UNCHANGED used ELSE Faulty
       /\ IF PutWorked(arrives, answer)
            THEN /\ widget' = [widget EXCEPT !.flow = "idle", !.info = widget.current]
                 /\ fields' = [fields EXCEPT !.doc = widget.current, !.ok = TRUE]
                 /\ failed' = FALSE
            ELSE /\ Goes("idle")
                 /\ fields' = [fields EXCEPT !.ok = FALSE]
                 /\ failed' = TRUE
  /\ UNCHANGED <<paper, rows, reading, draftData>>

(* The presign is refused or lost (a row may be left), or the request for  *)
(* readings or a look at the results is.                                   *)
RequestFails ==
  /\ Flows("presign") \/ Flows("ask") \/ (Flows("poll") /\ widget.tries < Tries)
  /\ Faulty
  /\ widget' = [widget EXCEPT !.flow = "idle", !.photo = NoPhoto, !.tries = 0, !.seen = 0]
  /\ IF Flows("presign")
       THEN /\ fields' = [fields EXCEPT !.ok = FALSE]
            /\ rows' \in {rows} \cup { rows \cup {d} : d \in NewDocs }
       ELSE UNCHANGED <<fields, rows>>
  /\ UNCHANGED <<paper, stored, reading, draftData, failed>>

-----------------------------------------------------------------------------
(* The widget: reading, preview, confirmation *)

(* handleTriggerOcr, of the document that was uploaded last. *)
Triggers ==
  /\ Flows("idle") /\ widget.info # NoDoc
  /\ used.triggers < MaxTriggers /\ used' = [used EXCEPT !.triggers = @ + 1]
  /\ Goes("ask")
  /\ UNCHANGED <<uploads, reading, draftData, fields, failed>>

(* requestDraftOcr: a job for each document of the draft, read before or   *)
(* not.                                                                    *)
AsksForReadings ==
  /\ Flows("ask")
  /\ jobs' = [d \in Docs |-> IF d \in rows THEN jobs[d] + 1 ELSE 0]
  /\ widget' = [widget EXCEPT !.flow = "poll", !.tries = 0]
  /\ UNCHANGED <<uploads, work, results, vision, draftData, fields, failed, used>>

(* Mutant: the oldest results are given.                                   *)
FirstResults == { results[i] : i \in 1 .. Min({Take, Len(results)}) }

(* getDraftOcr: the latest results of the draft. *)
LatestResults == { results[i] : i \in Max({0, Len(results) - Take}) + 1 .. Len(results) }

(* Mutant: the first result given is taken, whichever document it is of.   *)
FoundAny == { r.doc : r \in LatestResults }

Found == { r.doc : r \in LatestResults } \cap {widget.info}

(* pollDraftOcr: a look, after which the widget waits if it was in vain.   *)
Polls ==
  /\ Flows("poll") /\ widget.tries < Tries
  /\ \/ \E d \in Found :
          widget' = [widget EXCEPT !.flow = "preview", !.preview = d, !.tries = 0, !.seen = 0]
     \/ /\ Found = {}
        /\ widget' = [widget EXCEPT !.tries = @ + 1, !.seen = Len(results)]
  /\ UNCHANGED <<uploads, reading, draftData, fields, failed, used>>

(* The wait after the last look is over; what has been stored meanwhile is *)
(* not looked at.                                                          *)
GivesUp ==
  /\ Flows("poll") /\ widget.tries = Tries
  /\ widget' = [widget EXCEPT !.flow = "idle", !.tries = 0, !.seen = 0]
  /\ UNCHANGED <<uploads, reading, draftData, fields, failed, used>>

(* OcrPreview: what was read may be corrected, or emptied. *)
Corrections(found) ==
  { [name |-> n, cpf |-> c] :
      n \in IF found.name = <<>> THEN {<<>>} ELSE Typed \cup {<<>>, found.name},
      c \in IF found.cpf = NoCpf THEN {NoCpf} ELSE Cpfs \cup {NoCpf} }

(* handleOcrConfirm, applyOcrToForm: the form takes name and CPF, as read  *)
(* or as corrected, and the document the widget has as its current one, or *)
(* else its own.                                                           *)
Confirms ==
  /\ Flows("preview")
  /\ LET found == FoundOn(paper[widget.preview]) IN
     \E told \in Corrections(found) :
       /\ IF told = found THEN UNCHANGED used ELSE Edited
       /\ fields' = [ name |-> IF told.name = <<>> THEN fields.name ELSE told.name,
                      cpf |-> IF told.cpf = NoCpf THEN fields.cpf ELSE told.cpf,
                      doc |-> IF widget.current # NoDoc THEN widget.current ELSE fields.doc,
                      ok |-> TRUE ]
  /\ widget' = [widget EXCEPT !.flow = "idle", !.preview = NoDoc]
  /\ UNCHANGED <<uploads, reading, draftData, failed>>

(* handleOcrRetake *)
Retakes ==
  /\ Flows("preview")
  /\ widget' = [widget EXCEPT !.flow = "idle", !.preview = NoDoc, !.current = NoDoc]
  /\ UNCHANGED <<uploads, reading, draftData, fields, failed, used>>

-----------------------------------------------------------------------------
(* The job *)

JobStarts(d) ==
  /\ work = NoWork /\ jobs[d] > 0
  /\ jobs' = [jobs EXCEPT ![d] = @ - 1]
  /\ work' = [doc |-> d, was |-> draftData, held |-> {}]
  /\ UNCHANGED <<uploads, results, vision, draftData, widget, fields, failed, used>>

(* The object is fetched, and the image read. *)
ReadsImage ==
  /\ work # NoWork /\ work.held = {} /\ vision /\ work.doc \in stored
  /\ work' = [work EXCEPT !.held = {draftData}]
  /\ UNCHANGED <<uploads, jobs, results, vision, draftData, widget, fields, failed, used>>

(* Mutant: the draft is read with the document, before the image is.       *)
ComparedWithEarlier == {work.was}

ComparedWith == work.held

(* The draft's data are looked up, and the result written. *)
Records ==
  /\ work.held # {}
  /\ \E data \in ComparedWith : results' = Append(results, Reading(work.doc, data))
  /\ work' = NoWork
  /\ UNCHANGED <<uploads, jobs, vision, draftData, widget, fields, failed, used>>

(* The job ends without a result: the worker has no recogniser, there is   *)
(* no object, or storage or service fail at every attempt.                 *)
JobFails ==
  /\ work # NoWork
  /\ IF vision /\ work.doc \in stored THEN Faulty ELSE UNCHANGED used
  /\ work' = NoWork
  /\ UNCHANGED <<uploads, jobs, results, vision, draftData, widget, fields, failed>>

-----------------------------------------------------------------------------
Own ==
  (\E d \in NewDocs : Presigns(d)) \/ Puts \/ RequestFails \/ AsksForReadings \/ Polls \/ GivesUp

ReadingNext ==
  \/ Types \/ SavesPerson \/ Proceeds \/ Cancels \/ Own \/ Triggers \/ Confirms \/ Retakes
  \/ ReadsImage \/ Records \/ JobFails
  \/ \E p \in Papers : Chooses(p)
  \/ \E d \in Docs : JobStarts(d)

(* The page goes on by itself once a request is sent: each is answered, or *)
(* fails.                                                                  *)
ReadingSpec == ReadingInit /\ [][ReadingNext]_readingVars /\ WF_readingVars(Own)

-----------------------------------------------------------------------------
(* The least cost of turning one name into the other: of all ways to pair  *)
(* letters in order, the one with the fewest letters unpaired or unequal.  *)
InOrder(s) == SetToSortSeq(s, <)

EditCost(a, b) ==
  Min({ Len(a) + Len(b) - 2 * Cardinality(st[1])
          + Cardinality({ k \in 1 .. Cardinality(st[1]) :
              a[InOrder(st[1])[k]] # b[InOrder(st[2])[k]] }) :
        st \in { st \in (SUBSET (1 .. Len(a))) \X (SUBSET (1 .. Len(b))) :
                 Cardinality(st[1]) = Cardinality(st[2]) } })

IsFar(a, b) == 100 * EditCost(a, b) > MaxPct * Max({Len(a), Len(b)})

(* A result says mismatch just where the name on the paper is far, by the  *)
(* least number of changes, from one that the draft had after the image    *)
(* was read, or the CPF is another than the draft's at that time: not from *)
(* what the candidate had corrected while the image was being read.  An    *)
(* image too small to be read never says so (handleJob,                    *)
(* compareOcrWithProposal, levenshteinDistance).                           *)
VerdictIsFounded ==
  [][ results' # results =>
        LET r == Last(results')
            p == paper[r.doc]
            OtherName(n) == p.name # <<>> /\ n # <<>> /\ IsFar(p.name, n)
            OtherCpf(c) == p.cpf # NoCpf /\ c # NoCpf /\ p.cpf # c IN
        IF p.small THEN ~r.mismatch
        ELSE \E data \in work.held :
               r.mismatch = (OtherName(data.name) \/ OtherCpf(data.cpf)) ]_readingVars

(* What the candidate confirms was read from the document that the form    *)
(* then shows, unless an upload has failed since the last that worked: the *)
(* widget then has the failed one as current and reads the one before      *)
(* (handleOcrConfirm).                                                     *)
ConfirmedIsOfShown ==
  [][ (Flows("preview") /\ fields' # fields) =>
        (failed \/ widget.preview = fields'.doc) ]_readingVars

(* Unless an upload has failed since the last that worked, the form, the   *)
(* widget's current document and the one it may have read are the same,    *)
(* which is in the storage; what is previewed is that which was asked for. *)
(* A job that waits was asked for, and each request makes one a document.  *)
WidgetIsSound ==
  /\ ~failed => /\ fields.doc = widget.info
                /\ ~Flows("put") => widget.current \in {widget.info, NoDoc}
  /\ widget.info # NoDoc => widget.info \in stored
  /\ fields.ok \/ Flows("ask") \/ Flows("poll") \/ Flows("preview") => widget.info # NoDoc
  /\ Flows("put") => widget.current \in rows
  /\ Flows("preview") => widget.preview = widget.info
  /\ \A d \in Docs : jobs[d] + (IF Flows("ask") THEN 1 ELSE 0) <= used.triggers

(* A document the form has as uploaded is in the storage, unless an upload *)
(* has failed since the last that worked (processUpload).                  *)
ShownIsStored == fields.ok => (failed \/ fields.doc \in stored)

(* Whatever there was at the last look in vain, readings of the document  *)
(* that the widget waits for had been crowded out of what the API gives by *)
(* later ones of others.                                                   *)
LooksAreSound ==
  /\ widget.seen <= Len(results)
  /\ widget.seen # 0 => Flows("poll")
  /\ \A i \in 1 .. widget.seen :
       results[i].doc = widget.info =>
         Cardinality({ j \in i + 1 .. widget.seen : results[j].doc # widget.info }) >= Take

(* The candidate is told that a document cannot be read, though a reading  *)
(* of it was stored before the last look, only where later readings of     *)
(* other documents had taken up all that the API gives, or a request has   *)
(* failed (pollDraftOcr, getDraftOcr).  One stored in the wait after that  *)
(* look is there, and not found.                                           *)
ReadingIsFound ==
  [][ (Flows("poll") /\ widget'.flow = "idle" /\ used' = used) =>
        \A i \in 1 .. widget.seen :
          results[i].doc = widget.info =>
            Cardinality({ j \in i + 1 .. widget.seen : results[j].doc # widget.info }) >= Take
    ]_readingVars

(* The widget does not go on showing that it is busy: an upload or a       *)
(* reading ends, well or in an error, whatever the worker does             *)
(* (processUpload, handleTriggerOcr).                                      *)
Busy == widget.flow \in {"presign", "put", "ask", "poll"}
BusyEnds == Busy ~> ~Busy

(* The wait for a reading comes to an end, and in the reading if there is  *)
(* one that the API gives.                                                 *)
WaitEndsWell == BusyEnds /\ ReadingIsFound

=============================================================================
