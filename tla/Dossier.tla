------------------------------- MODULE Dossier -------------------------------
(***************************************************************************)
(* The dossier of one proposal in the back office's browser, with what it  *)
(* edits at the API: the data of the candidate, the latest reading of a    *)
(* document, and the viewer of documents.  Other analysts and the workers  *)
(* change the same rows meanwhile; neither side locks or compares versions.*)
(*                                                                         *)
(* The form and the reading's form are copies made by effects of React     *)
(* that run when the dossier is loaded; each is a step with the load.      *)
(***************************************************************************)
EXTENDS Naturals, Sequences

CONSTANTS
  Fields,        \* the fields of the data form
  Contact,       \* those the form leaves blank: e-mail and phone
  Mine, Others,  \* values: what the analyst types, and what anyone else does
  Docs,
  MaxWrites,     \* bounds: writes by others
  MaxReadings,   \*         readings of the proposal's documents
  MaxActions,    \*         actions of the analyst
  OpensEach,     \*         documents opened for each of those not made
  Given, Blank, Nothing

ASSUME DossierAssumption ==
  /\ Contact \subseteq Fields
  /\ {MaxWrites, MaxActions, OpensEach} \subseteq Nat /\ MaxReadings \in Nat \ {0}

VARIABLES
  data,       \* the candidate's data
  version,    \* how often anyone else wrote each field
  readings,   \* the readings of the proposal's documents, oldest first
  details, form, typedIn, ocrEdit,           \* the screen
  load,                                      \* the dossier on its way
  action, actions, refused,                  \* the one action at work
  active, url, opened, docCalls, overtook,   \* the viewer
  writes

dataVars    == <<data, version, readings, writes>>
formVars    == <<details, form, typedIn, ocrEdit, load>>
actionVars  == <<action, actions, refused>>
viewVars    == <<active, url, opened, docCalls, overtook>>
dossierVars == <<dataVars, formVars, actionVars, viewVars>>

Values  == {Given, Mine, Others}
Idle    == [kind |-> "none", at |-> "none"]
Sending == action.at # "none"

(* What is left of the bound on the analyst. *)
Unspent == OpensEach * (MaxActions - actions) - opened

----------------------------------------------------------------------------
(* The API's dossier: the data (of contacts only that they are there) and
   the readings, the latest first on the screen. *)
GetById == [data |-> data, version |-> version, readings |-> readings]

(* What of it the analyst has in sight from then on. *)
InSight(d) == [version |-> d.version, readings |-> Len(d.readings)]

(* Each load fills the form anew; contacts stay blank, "to keep" them. *)
FilledForm(d) == [f \in Fields |-> IF f \in Contact THEN Blank ELSE d.data[f]]

(* The reading's form is kept as long as the latest reading is the same row. *)
FilledOcr(d, prev) ==
  IF d.readings = <<>> THEN Nothing
  ELSE IF prev # Nothing /\ prev.id = Len(d.readings) THEN prev
  ELSE [id |-> Len(d.readings), value |-> d.readings[Len(d.readings)]]

ApiReads ==
  /\ load.at = "sent"
  /\ load' = [at |-> "read", d |-> GetById]
  /\ UNCHANGED <<dataVars, details, form, typedIn, ocrEdit, actionVars, viewVars>>

(* The save of a reading ends with the load that follows it. *)
EndsWithLoad == action' = IF action.at = "loading" THEN Idle ELSE action

LoadAnswers ==
  /\ load.at = "read"
  /\ details' = InSight(load.d)
  /\ form' = FilledForm(load.d)
  /\ typedIn' = {}
  /\ ocrEdit' = FilledOcr(load.d, ocrEdit)
  /\ load' = Idle
  /\ EndsWithLoad
  /\ UNCHANGED <<dataVars, actions, refused, viewVars>>

DetailsFail ==
  /\ load.at # "none"
  /\ load' = Idle
  /\ EndsWithLoad
  /\ UNCHANGED <<dataVars, details, form, typedIn, ocrEdit, actions, refused,
                 viewVars>>

----------------------------------------------------------------------------
(* What the analyst types. *)
EditField(f, v) ==
  /\ form # Nothing /\ v # form[f]
  /\ form' = [form EXCEPT ![f] = v]
  /\ typedIn' = typedIn \cup {f}
  /\ UNCHANGED <<dataVars, details, ocrEdit, load, actionVars, viewVars>>

EditReading(v) ==
  /\ ocrEdit # Nothing /\ v # ocrEdit.value
  /\ ocrEdit' = [ocrEdit EXCEPT !.value = v]
  /\ UNCHANGED <<dataVars, details, form, typedIn, load, actionVars, viewVars>>

(***************************************************************************)
(* One action at a time: all the buttons wait for it.  The dossier loaded  *)
(* is what its sender had in sight.                                        *)
(***************************************************************************)
Send(a) ==
  /\ ~Sending /\ Unspent >= OpensEach /\ details # Nothing
  /\ action' = a
  /\ actions' = actions + 1 /\ refused' = FALSE
  /\ UNCHANGED <<dataVars, formVars, viewVars>>

SaveData ==
  /\ form # Nothing
  /\ Send([kind |-> "data", at |-> "sent", payload |-> form, typedIn |-> typedIn,
           seen |-> details.version])

SaveReading ==
  /\ ocrEdit # Nothing
  /\ Send([kind |-> "reading", at |-> "sent", id |-> ocrEdit.id,
           value |-> ocrEdit.value, seen |-> details.readings])

(* Notes, messages, decisions: the other modules say what they do; here they
   only hold the buttons. *)
SendOther == Send([kind |-> "other", at |-> "sent"])

(* A field left blank is not sent, and one not sent is not written. *)
Updated(d, payload) ==
  [f \in Fields |-> IF payload[f] = Blank THEN d[f] ELSE payload[f]]

ApiUpdates ==
  /\ action.kind = "data" /\ action.at = "sent"
  /\ data' = Updated(data, action.payload)
  /\ action' = [action EXCEPT !.at = "written"]
  /\ UNCHANGED <<version, readings, writes, formVars, actions, refused, viewVars>>

(* The API writes into the latest reading there is then. *)
ApiUpdatesReading ==
  /\ action.kind = "reading" /\ action.at = "sent"
  /\ readings # <<>>
  /\ readings' = IF action.value = Blank THEN readings
                 ELSE [readings EXCEPT ![Len(readings)] = action.value]
  /\ action' = [action EXCEPT !.at = "written"]
  /\ UNCHANGED <<data, version, writes, formVars, actions, refused, viewVars>>

ApiDoesOther ==
  /\ action.kind = "other" /\ action.at = "sent"
  /\ action' = [action EXCEPT !.at = "written"]
  /\ UNCHANGED <<dataVars, formVars, actions, refused, viewVars>>

(* Only the save of a reading loads the dossier again. *)
ActionAnswers ==
  /\ action.at = "written"
  /\ IF action.kind = "reading"
     THEN action' = [action EXCEPT !.at = "loading"] /\ load' = [at |-> "sent"]
     ELSE action' = Idle /\ load' = load
  /\ UNCHANGED <<dataVars, details, form, typedIn, ocrEdit, actions, refused,
                 viewVars>>

(* Refused, or its answer lost after it was done. *)
ActionFails ==
  /\ action.at \in {"sent", "written"}
  /\ action' = Idle /\ refused' = TRUE
  /\ UNCHANGED <<dataVars, formVars, actions, viewVars>>

----------------------------------------------------------------------------
(* The viewer: the URL of a document is asked for when it is opened, and
   whatever answer comes is taken for the document that is open. *)
OpenDoc(d) ==
  /\ details # Nothing /\ active = Nothing
  /\ Unspent > 0
  /\ active' = d /\ url' = Nothing
  /\ opened' = opened + 1
  /\ docCalls' = docCalls \cup {[n |-> opened + 1, doc |-> d]}
  /\ overtook' = FALSE
  /\ UNCHANGED <<dataVars, formVars, actionVars>>

CloseDoc ==
  /\ active # Nothing
  /\ active' = Nothing
  /\ UNCHANGED <<dataVars, formVars, actionVars, url, opened, docCalls, overtook>>

Overtakes(c) ==
  overtook' = (overtook \/ (c.n < opened /\ \A o \in docCalls : o.n # opened))

UrlAnswers(c) ==
  /\ c \in docCalls
  /\ url' = c.doc
  /\ docCalls' = docCalls \ {c}
  /\ Overtakes(c)
  /\ UNCHANGED <<dataVars, formVars, actionVars, active, opened>>

UrlAfterFailure == Nothing

UrlFails(c) ==
  /\ c \in docCalls
  /\ url' = UrlAfterFailure
  /\ docCalls' = docCalls \ {c}
  /\ Overtakes(c)
  /\ UNCHANGED <<dataVars, formVars, actionVars, active, opened>>

----------------------------------------------------------------------------
(* Anyone else: another analyst saves a field or corrects the latest reading,
   the OCR worker adds one. *)
OtherWrites(f) ==
  /\ writes < MaxWrites
  /\ data' = [data EXCEPT ![f] = Others]
  /\ version' = [version EXCEPT ![f] = @ + 1]
  /\ writes' = writes + 1
  /\ UNCHANGED <<readings, formVars, actionVars, viewVars>>

OtherCorrects ==
  /\ writes < MaxWrites /\ readings # <<>>
  /\ readings' = [readings EXCEPT ![Len(readings)] = Others]
  /\ writes' = writes + 1
  /\ UNCHANGED <<data, version, formVars, actionVars, viewVars>>

NewReading ==
  /\ Len(readings) < MaxReadings
  /\ readings' = Append(readings, Given)
  /\ UNCHANGED <<data, version, writes, formVars, actionVars, viewVars>>

(* Of a dossier just opened, what the screen keeps. *)
Unopened ==
  /\ details = Nothing /\ form = Nothing /\ typedIn = {} /\ ocrEdit = Nothing
  /\ action = Idle /\ actions = 0 /\ refused = FALSE
  /\ active = Nothing /\ url = Nothing /\ opened = 0 /\ docCalls = {}
  /\ overtook = FALSE

DossierInit ==
  /\ data = [f \in Fields |-> Given] /\ version = [f \in Fields |-> 0]
  /\ readings \in {<<>>, <<Given>>} /\ writes = 0
  /\ Unopened /\ load = [at |-> "sent"]

DossierNext ==
  \/ ApiReads \/ LoadAnswers \/ DetailsFail
  \/ \E f \in Fields, v \in {Mine, Blank} : EditField(f, v)
  \/ \E v \in {Mine, Blank} : EditReading(v)
  \/ SaveData \/ SaveReading \/ SendOther
  \/ ApiUpdates \/ ApiUpdatesReading \/ ApiDoesOther
  \/ ActionAnswers \/ ActionFails
  \/ \E d \in Docs : OpenDoc(d)
  \/ CloseDoc
  \/ \E c \in docCalls : UrlAnswers(c) \/ UrlFails(c)
  \/ \E f \in Fields : OtherWrites(f)
  \/ OtherCorrects \/ NewReading

DossierSpec == DossierInit /\ [][DossierNext]_dossierVars

----------------------------------------------------------------------------
Entries  == Values \cup {Blank}
Versions == [Fields -> 0..MaxWrites]
Sights   == [version : Versions, readings : Nat]
Stages   == {"none", "sent", "written", "loading"}
Actions  == [kind : {"none", "other"}, at : Stages]
              \cup [kind : {"data"}, at : Stages, payload : [Fields -> Entries],
                    typedIn : SUBSET Fields, seen : Versions]
              \cup [kind : {"reading"}, at : Stages, id : Nat, value : Entries, seen : Nat]

(* The type invariant of the dossier's state. *)
DossierTypeOK ==
  /\ data \in [Fields -> Entries] /\ version \in Versions
  /\ readings \in Seq(Entries) /\ Len(readings) <= MaxReadings
  /\ details \in Sights \cup {Nothing}
  /\ form = Nothing \/ form \in [Fields -> Entries]
  /\ typedIn \subseteq Fields
  /\ ocrEdit = Nothing \/ ocrEdit \in [id : Nat, value : Entries]
  /\ load.at \in {"none", "sent", "read"}
  /\ action \in Actions /\ {actions, opened} \subseteq Nat
  /\ {active, url} \subseteq Docs \cup {Nothing} /\ overtook \in BOOLEAN
  /\ docCalls \subseteq [n : 1..opened, doc : Docs]
  /\ writes \in 0..MaxWrites /\ \A f \in Fields : version[f] <= writes

(* A save of the data form writes every field of the form, typed in or not.
   A field not typed in changes by it only when it was prefilled and somebody
   wrote it after the dossier on the screen was read; a contact, never. *)
SaveLosesOnlyByCrossing ==
  [][\A f \in Fields :
       action.kind = "data" /\ action.at = "sent" /\ action'.at = "written"
         /\ data'[f] # data[f] /\ f \notin action.typedIn
       => f \notin Contact /\ version[f] > action.seen[f]]_<<action, data>>

(* A correction is written into the reading it was made on, or into one that
   came after the dossier on the screen was read. *)
EditLandsOnItsReading ==
  [][action.kind = "reading" /\ action.at = "sent" /\ action'.at = "written"
     => action.id = Len(readings) \/ Len(readings) > action.seen]_action

(* When all the answers have come, the viewer shows the document that it
   names or none, unless an answer came after that of the document opened
   last. *)
UrlIsOfActiveDoc ==
  docCalls = {} /\ active # Nothing /\ url # Nothing => url = active \/ overtook

(***************************************************************************)
(* What those rest on.  What was read of a field, by a load under way or   *)
(* by the form, is what it is as long as nobody else wrote it: the page's  *)
(* own saves are over when a load starts, and no save starts before it     *)
(* ends.                                                                   *)
(***************************************************************************)
(* "v" and "d" are the versions and the data that were read. *)
IsAsRead(f, v, d) == v <= version[f] /\ (v = version[f] => d = data[f])

LoadIsSound ==
  /\ load.at # "none" =>
       action.at = "loading" \/ (action.at = "none" /\ details = Nothing)
  /\ load.at = "read" =>
       /\ load.d.data \in [Fields -> Entries] /\ load.d.version \in Versions
       /\ load.d.readings \in Seq(Entries) /\ Len(load.d.readings) <= Len(readings)
       /\ \A f \in Fields : IsAsRead(f, load.d.version[f], load.d.data[f])

(* What is to be saved, untouched, is of its time. *)
IsOfItsTime(entries, entered, seen) ==
  \A f \in Fields \ entered :
    IF f \in Contact THEN entries[f] = Blank ELSE IsAsRead(f, seen[f], entries[f])

FormIsSound ==
  form # Nothing => details \in Sights /\ IsOfItsTime(form, typedIn, details.version)

OcrIsSound ==
  /\ ocrEdit # Nothing => details \in Sights /\ ocrEdit.id = details.readings
  /\ details # Nothing => details.readings <= Len(readings)

ActionIsSound ==
  /\ action.kind = "data" /\ action.at = "sent" =>
       /\ action.seen = details.version /\ action.typedIn \subseteq typedIn
       /\ IsOfItsTime(action.payload, action.typedIn, action.seen)
  /\ action.kind = "reading" /\ action.at = "sent" =>
       action.id = action.seen /\ action.seen <= Len(readings)

(* The viewer's last URL is of the document that is open. *)
ViewerIsSound ==
  active # Nothing =>
    /\ \A c \in docCalls : c.n = opened => c.doc = active
    /\ url # Nothing /\ ~overtook /\ (\A c \in docCalls : c.n # opened) => url = active

DossierInv ==
  /\ DossierTypeOK /\ LoadIsSound /\ FormIsSound /\ OcrIsSound /\ ActionIsSound
  /\ ViewerIsSound
  /\ UrlIsOfActiveDoc
=============================================================================
