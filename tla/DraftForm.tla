------------------------------ MODULE DraftForm ------------------------------
(***************************************************************************)
(* The candidate's form and the draft behind it: CadastroForm.tsx in the   *)
(* browser, and the handlers it calls, PublicService (createDraft,         *)
(* updateDraft, getDraft) and PublicSocialService (authorize, callback and *)
(* disconnect of a draft).                                                 *)
(*                                                                         *)
(* The form saves itself: on blur, on the way to the next step, every 15   *)
(* seconds when something was typed, and once more when it is sent.  None  *)
(* of these waits for another, each works on the form and the draft id of  *)
(* the render it was started in (a closure), and the API answers each with *)
(* a read of the draft's data and a write of all of it.  What they do to   *)
(* each other is the subject of this module; what happens inside           *)
(* submitProposal is DraftIntake's.                                        *)
(*                                                                         *)
(* What is typed is one field here, by the number of the edit; 0 is blank. *)
(* The wizard has two positions: up to the documents, and past them (the   *)
(* networks, the review).                                                  *)
(***************************************************************************)
EXTENDS Naturals

CONSTANTS
  Drafts,     (* Draft rows                                                *)
  NoDraft,    (* draftMeta === null                                        *)
  Nets,       (* social networks                                           *)
  NoNets,     (* a draft's data without a socialConnections list           *)
  Calls,      (* places for what is under way at once                      *)
  MaxMoves    (* bound on what the candidate changes and what goes wrong   *)

ASSUME BoundsAssumption == MaxMoves \in Nat
ASSUME NamesAssumption  == NoDraft \notin Drafts /\ \A s \in SUBSET Nets : s # NoNets

VARIABLES
  page,     (* the tab: asking whether to restore, open, or at a network   *)
  form,     (* what the form shows; up and letter are the drafts that its  *)
            (* document, and the letter of someone who leaves another      *)
            (* entity, went to, if it shows them as uploaded               *)
  meta,     (* draftMeta                                                   *)
  pos,      (* stepIndex                                                   *)
  sent,     (* submitStatus; after an error the form can be sent again     *)
  kept,     (* what localStorage holds while the page is not open          *)
  back,     (* pendingSocialRefresh: the tab came back from a network      *)
  row,      (* the Draft rows                                              *)
  files,    (* drafts with the DocumentFile of the document                *)
  calls,    (* what is under way                                           *)
  accepted, (* proposals made, with what the form showed when it was sent  *)
  crossed,  (* two drafts have been asked for where one was meant          *)
  moves     (* changes and mishaps so far: texts are numbered by it        *)

tab == <<page, form, meta, pos, sent, kept, back>>
api == <<row, files, accepted>>
vars == <<tab, api, calls, crossed, moves>>

Name == 0 .. MaxMoves
MaybeDraft == Drafts \cup {NoDraft}
NetList == {NoNets} \cup SUBSET Nets

Data == [name : Name, nets : NetList]
Form == [name : Name, nets : SUBSET Nets, up : MaybeDraft, letter : MaybeDraft]

(* d, name and nets are those of the closure; base is the copy that the    *)
(* API has read; saved says of a submission that its save came through,    *)
(* and that no other writer of the draft was under way then.               *)
Call ==
  [ kind : {"none", "sync", "next", "submit", "upload", "letter", "connect", "callback",
            "disconnect", "refresh"},
    step : {"idle", "post", "again", "read", "write", "presign", "propose", "create",
            "answer"},
    d : MaybeDraft, name : Name, nets : SUBSET Nets, net : Nets \cup {NoNets},
    base : Data, heard : BOOLEAN, saved : BOOLEAN ]

TypeOK ==
  /\ page \in {"prompt", "open", "away"}
  /\ form \in Form
  /\ meta \in MaybeDraft
  /\ pos \in {"fill", "past"}
  /\ sent \in {"idle", "submitting", "done"}
  /\ kept \in [form : Form, meta : MaybeDraft, pos : {"fill", "past"}]
  /\ back \in BOOLEAN
  /\ row \in [Drafts -> [state : {"none", "live", "gone"}, data : Data]]
  /\ files \subseteq Drafts
  /\ calls \in [Calls -> Call]
  /\ accepted \subseteq [name : Name, shown : Name, saved : BOOLEAN]
  /\ crossed \in BOOLEAN
  /\ moves \in Name

NoData == [name |-> 0, nets |-> NoNets]
defaultForm == [name |-> 0, nets |-> {}, up |-> NoDraft, letter |-> NoDraft]

NothingKept == [form |-> defaultForm, meta |-> NoDraft, pos |-> "fill"]

Idle == [ kind |-> "none", step |-> "idle", d |-> NoDraft, name |-> 0,
          nets |-> {}, net |-> NoNets, base |-> NoData,
          heard |-> FALSE, saved |-> FALSE ]

Init ==
  /\ page = "open"
  /\ form = defaultForm
  /\ meta = NoDraft
  /\ pos = "fill"
  /\ sent = "idle"
  /\ kept = NothingKept
  /\ back = FALSE
  /\ row = [d \in Drafts |-> [state |-> "none", data |-> NoData]]
  /\ files = {}
  /\ calls = [c \in Calls |-> Idle]
  /\ accepted = {}
  /\ crossed = FALSE
  /\ moves = 0

Live(d) == d \in Drafts /\ row[d].state = "live"
DataOf(d) == IF d \in Drafts THEN row[d].data ELSE NoData

Free(c) == calls[c].kind = "none"
Put(c, call) == calls' = [calls EXCEPT ![c] = call]
Ends(c) == Put(c, Idle)

(* ensureDraft: `if (draftMeta) return draftMeta` looks at the draftMeta of *)
(* the render the call began in.  Another call may be asking for a draft   *)
(* by then, and a submission without one asks twice.                       *)
Asking(c) == calls[c].heard /\ calls[c].step \in {"post", "again"}

Asks(step, kind) ==
  crossed' = (crossed \/ (step = "post" /\ (kind = "submit" \/ \E o \in Calls : Asking(o))))

(* Mutant: without `if (draftMeta)`, each call asks for a draft.           *)
BeginsAnew(c, kind, first, net) ==
  /\ Free(c)
  /\ Put(c, [ Idle EXCEPT !.kind = kind, !.step = "post", !.name = form.name, !.net = net,
                         !.heard = TRUE ])
  /\ Asks("post", kind)

Begins(c, kind, first, net) ==
  LET step == IF meta = NoDraft THEN "post" ELSE first
      saves == step = "post" \/ kind \in {"sync", "next", "submit"}
  IN /\ Free(c)
     /\ Put(c, [ Idle EXCEPT !.kind = kind, !.step = step, !.d = meta, !.net = net,
                            !.heard = TRUE,
                            !.name = IF saves THEN form.name ELSE 0,
                            !.nets = IF kind = "disconnect" THEN form.nets ELSE {} ])
     /\ Asks(step, kind)

-----------------------------------------------------------------------------
(* The candidate. *)

Moves ==
  /\ moves < MaxMoves
  /\ moves' = moves + 1

(* updateForm, and what else marks the form dirty: a new text, or a blank. *)
Edits ==
  /\ page = "open" /\ pos = "fill"
  /\ Moves
  /\ \E name \in {moves + 1, 0} : form' = [form EXCEPT !.name = name]
  /\ UNCHANGED <<page, meta, pos, sent, kept, back, api, calls, crossed>>

(* syncDraft, on blur (forced) and by the 15 s timer.  dirtyRef and         *)
(* lastPayloadRef, which keep the timer from saving when nothing changed,  *)
(* are left out: the timer may fire here whether they would let it or not. *)
Saves(c) ==
  /\ page = "open"
  /\ Begins(c, "sync", "read", NoNets)
  /\ UNCHANGED <<tab, api, moves>>

(* handleNext, where the documents are asked for. *)
ClicksNext(c) ==
  /\ page = "open" /\ pos = "fill"
  /\ form.up # NoDraft
  /\ Begins(c, "next", "read", NoNets)
  /\ UNCHANGED <<tab, api, moves>>

ClicksBack ==
  /\ page = "open" /\ pos = "past"
  /\ pos' = "fill"
  /\ UNCHANGED <<page, form, meta, sent, kept, back, api, calls,
                 crossed, moves>>

(* SmartDocumentUpload.processUpload, which shows nothing else meanwhile.  *)
Uploads(c) ==
  /\ page = "open" /\ pos = "fill"
  /\ \A o \in Calls : ~(calls[o].kind = "upload" /\ calls[o].heard)
  /\ Begins(c, "upload", "presign", NoNets)
  /\ UNCHANGED <<tab, api, moves>>

(* handleUpload, which a second letter does not wait for.                  *)
UploadsLetter(c) ==
  /\ page = "open" /\ pos = "fill"
  /\ Begins(c, "letter", "presign", NoNets)
  /\ form' = [form EXCEPT !.letter = NoDraft]
  /\ UNCHANGED <<page, meta, pos, sent, kept, back, api, moves>>

(* clearDocument: the row of the document stays. *)
ClearsDocument ==
  /\ page = "open" /\ pos = "fill"
  /\ form.up # NoDraft
  /\ Moves
  /\ form' = [form EXCEPT !.up = NoDraft]
  /\ UNCHANGED <<page, meta, pos, sent, kept, back, api, calls, crossed>>

(* Mutant: what was typed last is taken to be saved already. *)
SubmitsUnsaved(c) ==
  /\ page = "open" /\ pos = "past"
  /\ sent = "idle"
  /\ Free(c)
  /\ sent' = "submitting"
  /\ Put(c, [ Idle EXCEPT !.kind = "submit", !.d = meta, !.name = form.name, !.heard = TRUE,
                         !.step = IF meta = NoDraft THEN "again" ELSE "propose",
                         !.saved = TRUE ])
  /\ UNCHANGED <<page, form, meta, pos, kept, back, api, crossed, moves>>

(* submitProposal; canSubmit says when. *)
Submits(c) ==
  /\ page = "open" /\ pos = "past"
  /\ sent = "idle"
  /\ sent' = "submitting"
  /\ Begins(c, "submit", "read", NoNets)
  /\ UNCHANGED <<page, form, meta, pos, kept, back, api, moves>>

(* The tab is left: what was under way goes on at the API, and nobody      *)
(* hears of it.  localStorage holds what the form showed: it is written on *)
(* every change of form, draftMeta and stepIndex, also on the one that     *)
(* follows removeItem.                                                     *)
Unheard ==
  [ c \in Calls |->
      IF calls[c].step = "answer" THEN Idle ELSE [calls[c] EXCEPT !.heard = FALSE] ]

Leaves ==
  /\ form' = defaultForm
  /\ meta' = NoDraft
  /\ pos' = "fill"
  /\ sent' = "idle"
  /\ back' = FALSE

Reloads ==
  /\ Moves
  /\ Leaves
  /\ page' = "prompt"
  /\ kept' = IF page = "open" THEN [form |-> form, meta |-> meta, pos |-> pos] ELSE kept
  /\ calls' = Unheard
  /\ UNCHANGED <<api, crossed>>

(* restoreFromStorage (applyStoredDraft), discardStoredDraft: the draft is *)
(* forgotten, not deleted.                                                 *)
Restores ==
  /\ page = "prompt"
  /\ page' = "open"
  /\ form' = kept.form
  /\ meta' = kept.meta
  /\ pos' = kept.pos
  /\ kept' = NothingKept
  /\ UNCHANGED <<sent, back, api, calls, crossed, moves>>

Discards ==
  /\ page = "prompt"
  /\ page' = "open"
  /\ kept' = NothingKept
  /\ UNCHANGED <<form, meta, pos, sent, back, api, calls, crossed, moves>>

-----------------------------------------------------------------------------
(* Social networks of a draft. *)

(* handleConnect: the tab goes to the network, and with the candidate's    *)
(* consent from there to the callback.                                     *)
GoesToNetwork(c, d, n) ==
  /\ Leaves
  /\ page' = "away"
  /\ kept' = [form |-> form, meta |-> d, pos |-> pos]
  /\ calls' = [Unheard EXCEPT ![c] = [Idle EXCEPT !.kind = "callback", !.step = "read", !.d = d,
                                                 !.net = n, !.heard = TRUE]]
  /\ UNCHANGED crossed

Connects(c, n) ==
  /\ page = "open" /\ pos = "past" /\ sent # "done"
  /\ n \notin form.nets
  /\ Moves
  /\ Free(c)
  /\ IF meta # NoDraft THEN GoesToNetwork(c, meta, n)
     ELSE Begins(c, "connect", "post", n) /\ UNCHANGED tab
  /\ UNCHANGED api

(* handleDisconnect *)
Disconnects(c, n) ==
  /\ page = "open" /\ pos = "past" /\ sent # "done"
  /\ n \in form.nets
  /\ Moves
  /\ IF meta # NoDraft
     THEN Begins(c, "disconnect", "read", n) /\ UNCHANGED <<form>>
     ELSE /\ form' = [form EXCEPT !.nets = @ \ {n}]
          /\ UNCHANGED <<calls, crossed>>
  /\ UNCHANGED <<page, meta, pos, sent, kept, back, api>>

(* refreshDraftSocial, once the tab is back and knows its draft.           *)
Refreshes(c) ==
  /\ page = "open" /\ back /\ meta # NoDraft
  /\ back' = FALSE
  /\ Begins(c, "refresh", "read", NoNets)
  /\ UNCHANGED <<page, form, meta, pos, sent, kept, api, moves>>

-----------------------------------------------------------------------------
(* The API: what a request does to the rows.                               *)

Step(c, step) == [calls[c] EXCEPT !.step = step]

(* createDraft *)
CreatesDraft(c, d) ==
  /\ calls[c].step \in {"post", "again"}
  /\ row[d].state = "none"
  /\ row' = [row EXCEPT ![d] = [state |-> "live",
                                data |-> [name |-> calls[c].name, nets |-> NoNets]]]
  /\ UNCHANGED <<files, accepted>>

Listed(nets) == IF nets = NoNets THEN {} ELSE nets

(* Mutant: what is left blank in the form is blanked in the draft. *)
ReplacedData(base, call) == [base EXCEPT !.name = call.name]

(* mergeDraftData: buildDraftPayload leaves out what is blank, and what it *)
(* leaves out stays as it was.                                             *)
MergedData(base, call) == IF call.name = 0 THEN base ELSE [base EXCEPT !.name = call.name]

(* buildDraftSocialData *)
WithNet(base, call) == [base EXCEPT !.nets = Listed(@) \cup {call.net}]

WithoutNet(base, call) == [base EXCEPT !.nets = Listed(@) \ {call.net}]

NextData(call) ==
  CASE call.kind = "callback"   -> WithNet(call.base, call)
    [] call.kind = "disconnect" -> WithoutNet(call.base, call)
    [] OTHER                    -> MergedData(call.base, call)

(* draft.update, of updateDraft, handleDraftCallback and disconnect.       *)
WritesDraft(c) ==
  /\ calls[c].step = "write"
  /\ Live(calls[c].d)
  /\ row' = [row EXCEPT ![calls[c].d].data = NextData(calls[c])]
  /\ UNCHANGED <<files, accepted>>

(* createPresign, and the PUT of the file.                                 *)
TakesFile(c) ==
  /\ calls[c].step = "presign"
  /\ Live(calls[c].d)
  /\ files' = IF calls[c].kind = "letter" THEN files ELSE files \cup {calls[c].d}
  /\ UNCHANGED <<row, accepted>>

(* submitProposal makes the proposal from the copy it has read.            *)
MakesProposal(c) ==
  LET call == calls[c]
  IN /\ call.step = "create"
     /\ Live(call.d)
     /\ accepted' = accepted \cup
                       {[name |-> call.base.name, shown |-> call.name, saved |-> call.saved]}
     /\ row' = [row EXCEPT ![call.d] = [state |-> "gone", data |-> NoData]]
     /\ files' = files \ {call.d}

(* getDraftOrThrow, and the copy of the data that the handler works on;    *)
(* submitProposal also wants the document.                                 *)
ReadsDraft(c) ==
  /\ calls[c].step \in {"read", "propose"}
  /\ Live(calls[c].d)
  /\ calls[c].step = "propose" => calls[c].d \in files
  /\ Put(c, [calls[c] EXCEPT !.base = DataOf(calls[c].d),
                !.step = CASE @ = "propose"                   -> "create"
                           [] calls[c].kind = "refresh"       -> "answer"
                           [] OTHER                           -> "write"])
  /\ UNCHANGED <<tab, api, crossed, moves>>

(* The draft's days are over. *)
DraftGoes(d) ==
  /\ Live(d)
  /\ Moves
  /\ row' = [row EXCEPT ![d] = [state |-> "gone", data |-> NoData]]
  /\ files' = files \ {d}
  /\ UNCHANGED <<tab, accepted, calls, crossed>>

-----------------------------------------------------------------------------
(* The form, when it has its answer.  A tab that was left hears nothing.   *)

Forgotten(c) ==
  /\ ~calls[c].heard
  /\ Ends(c)
  /\ UNCHANGED <<tab, crossed>>

(* Others that have yet to write the draft.                                *)
Alone(c) == \A o \in Calls \ {c} : calls[o].step \in {"read", "write"} => calls[o].d # calls[c].d

(* setStepIndex, counted from the step of the render that was clicked in.  *)
Turns(call) == pos' = IF call.kind = "next" THEN "past" ELSE pos

(* ensureDraft: setDraftMeta, and on to what the draft was for.            *)
HearsOfDraft(c, d) ==
  LET call == [calls[c] EXCEPT !.d = d]
  IN /\ call.heard
     /\ CASE call.kind = "connect" -> GoesToNetwork(c, d, call.net)
          [] call.kind \in {"upload", "letter"} ->
               /\ meta' = d
               /\ Put(c, [call EXCEPT !.step = "presign", !.name = 0])
               /\ UNCHANGED <<page, form, pos, sent, kept, back, crossed>>
          [] call.kind = "submit"  ->
               /\ meta' = d
               /\ Put(c, [call EXCEPT !.step = IF @ = "post" THEN "again" ELSE "propose",
                                     !.saved = TRUE])
               /\ UNCHANGED <<page, form, pos, sent, kept, back, crossed>>
          [] call.kind \in {"sync", "next"} ->
               /\ meta' = d
               /\ Turns(call)
               /\ Ends(c)
               /\ UNCHANGED <<page, form, sent, kept, back, crossed>>

(* syncDraft is done, or the social endpoint; a disconnection puts back    *)
(* the list of its own render, without the network.                        *)
HearsOfWrite(c) ==
  LET call == calls[c]
  IN /\ call.heard
     /\ UNCHANGED <<meta, sent, kept, crossed>>
     /\ CASE call.kind = "callback" ->
               /\ page' = "prompt"
               /\ back' = TRUE
               /\ Ends(c)
               /\ UNCHANGED <<form, pos>>
          [] call.kind = "disconnect" ->
               /\ form' = [form EXCEPT !.nets = call.nets \ {call.net}]
               /\ Ends(c)
               /\ UNCHANGED <<page, pos, back>>
          [] call.kind = "submit" ->
               /\ Put(c, [call EXCEPT !.step = "propose", !.saved = Alone(c),
                                     !.base = NoData])
               /\ UNCHANGED <<page, form, pos, back>>
          [] call.kind \in {"sync", "next"} ->
               /\ Turns(call)
               /\ Ends(c)
               /\ UNCHANGED <<page, form, back>>

HearsOfFile(c) ==
  /\ calls[c].heard
  /\ form' = IF calls[c].kind = "letter" THEN [form EXCEPT !.letter = calls[c].d]
                                         ELSE [form EXCEPT !.up = calls[c].d]
  /\ Ends(c)
  /\ UNCHANGED <<page, meta, pos, sent, kept, back, crossed>>

HearsOfProposal(c) ==
  /\ calls[c].heard
  /\ sent' = "done"
  /\ meta' = NoDraft
  /\ Ends(c)
  /\ UNCHANGED <<page, form, pos, kept, back, crossed>>

(* refreshDraftSocial has the list, if there is one.                       *)
HearsOfNets(c) ==
  /\ calls[c].step = "answer"
  /\ \/ Forgotten(c)
     \/ /\ calls[c].heard
        /\ form' = IF calls[c].base.nets = NoNets THEN form
                   ELSE [form EXCEPT !.nets = calls[c].base.nets]
        /\ Ends(c)
        /\ UNCHANGED <<page, meta, pos, sent, kept, back, crossed>>
  /\ UNCHANGED <<api, moves>>

(* A request and its answer; what the tab does between the two makes no    *)
(* difference, since it only looks at what it has been told.               *)
Served(c) ==
  /\ \/ \E d \in Drafts : CreatesDraft(c, d) /\ (HearsOfDraft(c, d) \/ Forgotten(c))
     \/ WritesDraft(c) /\ (HearsOfWrite(c) \/ Forgotten(c))
     \/ TakesFile(c) /\ (HearsOfFile(c) \/ Forgotten(c))
     \/ MakesProposal(c) /\ (HearsOfProposal(c) \/ Forgotten(c))
  /\ UNCHANGED <<moves>>

-----------------------------------------------------------------------------
(* Failures.  syncDraft swallows its errors: the form shows "error", and a *)
(* submission goes on with whatever the draft holds.                       *)

SubmitFails(c) ==
  LET call == calls[c]
  IN /\ call.kind = "submit"
     /\ IF call.step \in {"post", "read", "write"}
        THEN /\ Put(c, [call EXCEPT !.step = IF call.step = "post" THEN "again" ELSE "propose",
                                   !.base = NoData])
             /\ UNCHANGED sent
        ELSE Ends(c) /\ sent' = "idle"
     /\ UNCHANGED <<page, form, pos>>

OtherFails(c) ==
  /\ calls[c].kind # "submit"
  /\ Ends(c)
  /\ Turns(calls[c])
  /\ page' = IF calls[c].kind = "callback" THEN "prompt" ELSE page
  /\ form' = CASE calls[c].kind = "upload" -> [form EXCEPT !.up = NoDraft]
               [] calls[c].kind = "letter" -> [form EXCEPT !.letter = NoDraft]
               [] OTHER                    -> form
  /\ UNCHANGED sent

Fails(c) ==
  \/ Forgotten(c)
  \/ /\ calls[c].heard
     /\ SubmitFails(c) \/ OtherFails(c)
     /\ UNCHANGED <<meta, kept, back, crossed>>

(* The draft is gone, or holds no document.                                *)
IsRefused(c) ==
  /\ \/ calls[c].step \in {"read", "write", "presign", "propose", "create"} /\ ~Live(calls[c].d)
     \/ calls[c].step = "propose" /\ calls[c].d \notin files
  /\ Fails(c)
  /\ UNCHANGED <<api, moves>>

(* The payload is not valid (a field that is half typed), the candidate    *)
(* says no to the network; or the connection is gone, before the API has   *)
(* done what was asked or after.                                           *)
IsLost(c) ==
  /\ ~Free(c)
  /\ Moves
  /\ \/ UNCHANGED api
     \/ \E d \in Drafts : CreatesDraft(c, d)
     \/ WritesDraft(c) \/ TakesFile(c) \/ MakesProposal(c)
  /\ Fails(c)

-----------------------------------------------------------------------------
Candidate ==
  \/ Edits \/ ClicksBack \/ ClearsDocument \/ Reloads \/ Restores \/ Discards
  \/ \E c \in Calls :
       \/ Saves(c) \/ ClicksNext(c) \/ Uploads(c) \/ UploadsLetter(c) \/ Submits(c) \/ Refreshes(c)
       \/ \E n \in Nets : Connects(c, n) \/ Disconnects(c, n)

Calling == \E c \in Calls : ReadsDraft(c) \/ Served(c) \/ HearsOfNets(c) \/ IsRefused(c) \/ IsLost(c)

Next == Candidate \/ Calling \/ \E d \in Drafts : DraftGoes(d)

Spec == Init /\ [][Next]_vars

-----------------------------------------------------------------------------
(* A proposal is never made from an older text than the form showed when   *)
(* it was sent: autosaves that answer late, retries, reloads and stale     *)
(* closures do not matter, because submitProposal saves once more.  This   *)
(* needs that the save came through (its failure is swallowed) and that no *)
(* other writer of the draft had read it and was yet to write it.          *)
AcceptedIsNotOlder ==
  \A a \in accepted : a.saved => a.name >= a.shown

(* What the form shows as uploaded is held by the draft that               *)
(* the form saves to and will submit, and not by another one, unless two   *)
(* calls asked for a draft at once or the document's draft is a proposal   *)
(* by now or has expired.                                                  *)
ShownUploadIsOfDraft ==
  page = "open" /\ meta # NoDraft =>
    \A d \in {form.up, form.letter} \ {meta, NoDraft} : crossed \/ ~Live(d)

(* What a draft holds goes back to an older text only by a call that works *)
(* on a copy from before the newer text (a social callback reads the draft *)
(* and then talks to the network), or by a save that was overtaken; and a  *)
(* network is connected until the candidate disconnects it, but for a call *)
(* with a copy from before it was there (updateDraft, buildDraftSocialData)*)
DraftGoesBackOnlyByCrossing ==
  [][\A d \in Drafts : Live(d) /\ Live(d)' =>
       /\ DataOf(d)'.name < DataOf(d).name =>
            \E c \in Calls :
              /\ calls[c].step = "write" /\ calls'[c] # calls[c] /\ calls[c].d = d
              /\ calls[c].base.name < DataOf(d).name \/ calls[c].name \in 1 .. DataOf(d).name - 1
       /\ \A n \in Listed(DataOf(d).nets) \ Listed(DataOf(d)'.nets) :
            \E c \in Calls :
              /\ calls[c].step = "write" /\ calls'[c] # calls[c] /\ calls[c].d = d
              /\ \/ calls[c].kind = "disconnect" /\ calls[c].net = n
                 \/ n \notin Listed(calls[c].base.nets)]_vars

(* The steps of each kind of call; what a submission saved is only known   *)
(* once it is past that.                                                   *)
IsSound(call) ==
  /\ \/ call.kind = "none" /\ call.step = "idle"
     \/ call.kind \in {"sync", "next"} /\ call.step \in {"post", "read", "write"}
     \/ /\ call.kind = "submit"
        /\ call.step \in {"post", "again", "read", "write", "propose", "create"}
     \/ call.kind \in {"upload", "letter"} /\ call.step \in {"post", "presign"}
     \/ call.kind = "connect" /\ call.step = "post" /\ call.net \in Nets
     \/ call.kind = "callback" /\ call.step \in {"read", "write"} /\ call.net \in Nets
     \/ call.kind = "disconnect" /\ call.step \in {"read", "write"}
     \/ call.kind = "refresh" /\ call.step \in {"read", "answer"}
  /\ call.saved => call.step \in {"again", "propose", "create"}
  /\ call.heard => call.kind # "none"

CallsAreSound == \A c \in Calls : IsSound(calls[c])

(* The form and the draft are on the page or kept, not both; and a page    *)
(* that is not open hears of nothing, but at a network of its callback.    *)
PagesAreSound ==
  /\ IF page = "open" THEN kept = NothingKept ELSE form = defaultForm /\ meta = NoDraft
  /\ \A c \in Calls : calls[c].heard =>
       /\ page # "prompt"
       /\ page = "away" <=> calls[c].kind = "callback"
       /\ page = "away" => \A o \in Calls : calls[o].heard => o = c

ItsForm == IF page = "open" THEN form ELSE kept.form
ItsMeta == IF page = "open" THEN meta ELSE kept.meta

(* The drafts that the page knows of or that are asked something.          *)
KnownDrafts ==
  {form.up, form.letter, kept.form.up, kept.form.letter, meta, kept.meta}
    \cup { calls[c].d : c \in Calls }

DraftsAreMade == \A d \in KnownDrafts \cap Drafts : row[d].state # "none"

(* The drafts of which something is shown, or goes on and is waited for.   *)
ItsDrafts ==
  {ItsForm.up, ItsForm.letter} \cup { calls[c].d : c \in { o \in Calls : calls[o].heard } }

(* Unless two drafts have been asked for where one was meant, one call at  *)
(* a time asks for a draft, where there is none, and what is shown and     *)
(* what goes on is of the draft that the candidate has.                    *)
TabHasOneDraft ==
  ~crossed =>
    /\ \A c \in Calls : Asking(c) =>
         /\ meta = NoDraft /\ calls[c].kind # "submit"
         /\ \A o \in Calls : Asking(o) => o = c
    /\ \A d \in ItsDrafts : d = ItsMeta \/ ~Live(d)

(* A text is newer than those that calls have taken with them, or blank.   *)
TextsAreNewer ==
  \A t \in {form.name, kept.form.name} :
    t <= moves /\ \A c \in Calls : calls[c].name <= moves /\ (t = 0 \/ calls[c].name <= t)

(* Once a submission has saved, and until the API has read the draft for   *)
(* it, the draft does not go back to an older text: who writes it later    *)
(* has a newer text or none, and a copy that is not older.                 *)
SavedTextStays ==
  \A s \in Calls :
    calls[s].saved =>
      /\ calls[s].step = "create" => calls[s].base.name >= calls[s].name
      /\ calls[s].step = "propose" /\ Live(calls[s].d) =>
           /\ DataOf(calls[s].d).name >= calls[s].name
           /\ \A o \in Calls :
                calls[o].d = calls[s].d /\ calls[o].step \in {"read", "write"} =>
                  /\ calls[o].name = 0 \/ calls[o].name >= calls[s].name
                  /\ calls[o].step = "write" => calls[o].base.name >= calls[s].name

(* The invariants of the form's drafts; with AcceptedIsNotOlder these are  *)
(* inductive.                                                              *)
FormInv ==
  /\ TypeOK /\ CallsAreSound /\ PagesAreSound
  /\ DraftsAreMade /\ TabHasOneDraft /\ ShownUploadIsOfDraft
  /\ TextsAreNewer /\ SavedTextStays

=============================================================================
