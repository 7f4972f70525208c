---------------------------- MODULE AddressFields ----------------------------
(***************************************************************************)
(* The address on the candidate's form: the CEP is typed, or taken from a  *)
(* proof of residence that was read, ViaCEP is asked what it stands for,   *)
(* and what the candidate has left blank is shown, saved and sent as the   *)
(* answer has it (useViaCepAutofill, resolvedAddress of CadastroForm).     *)
(*                                                                         *)
(* An answer stands for its CEP; street, district, city and state are      *)
(* filled alike, so two of them are enough, one of which a CEP of a whole  *)
(* town does not give.  Saving is syncDraft on a draft that exists, by     *)
(* itself, on the way to the next step and when the form is sent; what the *)
(* rest of the form has in it is DraftForm's.                              *)
(***************************************************************************)
EXTENDS Naturals

CONSTANTS
  Ceps,         \* those that isValidCep accepts
  HalfCep,      \* a CEP that is not typed to its end
  Unfilled,
  Unanswered,
  Parts,        \* the fields that a CEP may fill
  MaxTypings,   \* bounds: what the candidate types,
  MaxSaves,     \*         saves,
  MaxLost       \*         saves that fail

ASSUME AddressAssumption ==
  {MaxTypings, MaxSaves, MaxLost} \subseteq Nat /\ {HalfCep, Unfilled} \cap Ceps = {}

VARIABLES
  cep,          \* form.address.cep
  filled,       \* the other fields of form.address: Unfilled, or typed, under a CEP
  held,         \* viaCep.data
  hint,         \* viaCep.error
  busy,         \* viaCep.loading
  lookups,      \* requests to ViaCEP; one at most is not aborted
  dirty,        \* dirtyRef
  lastPayload,  \* lastPayloadRef, as far as the address goes
  overtaken,    \* history: an edit fell between that save and its answer
  saves,        \* calls of syncDraft under way
  draftAddress, \* Draft.data.address
  past,         \* the step of the form is behind the personal data
  proposalAddress, \* the address of the proposal
  typings, saved, lost

lookupVars  == <<held, hint, busy, lookups>>
savingVars  == <<lastPayload, overtaken, saves, draftAddress, proposalAddress, saved, lost>>
addressVars == <<cep, filled, lookupVars, dirty, savingVars, past, typings>>

ByHand(c) == [typed |-> TRUE, cep |-> c]
ByCep(c) == [typed |-> FALSE, cep |-> c]
Pending == {l \in lookups : ~l.aborted}

----------------------------------------------------------------------------
(* resolvedAddress: what is typed comes first. *)
Resolved(f) ==
  IF filled[f] # Unfilled THEN filled[f]
  ELSE IF held # Unanswered /\ f \in held.gives THEN ByCep(held.cep)
  ELSE Unfilled

(* buildPayload.  loose is history: a part may be another CEP's, as a lookup was
   under way or had failed, or as an earlier save left it. *)
Payload == [cep |-> cep, parts |-> [f \in Parts |-> Resolved(f)],
            loose |-> Pending # {} \/ hint = "failed"]

AddressOf(p) == [cep |-> p.cep, parts |-> p.parts]
NoAddress == [cep |-> Unfilled, parts |-> [f \in Parts |-> Unfilled], loose |-> FALSE]

(* addressRequiredValid, as the API has it too (validateDraftData). *)
IsComplete(p) == p.cep \in Ceps /\ \A f \in Parts : p.parts[f] # Unfilled

(* mergeDraftData: what is blank is not in the request, and stays. *)
Over(old, p) ==
  LET keeps == {f \in Parts : p.parts[f] = Unfilled /\ old.parts[f] # Unfilled}
  IN [cep |-> IF p.cep = Unfilled THEN old.cep ELSE p.cep,
      parts |-> [f \in Parts |-> IF f \in keeps THEN old.parts[f] ELSE p.parts[f]],
      loose |-> p.loose \/ keeps # {} \/ (p.cep = Unfilled /\ old.cep # Unfilled)]

Aborted == {[l EXCEPT !.aborted = TRUE] : l \in lookups}

(* The effect of useViaCepAutofill, on another CEP.  The answer for the one
   before stays until there is another, unless the CEP is not whole. *)
Looks(c) ==
  /\ hint' = "none"
  /\ IF c \in Ceps
       THEN /\ lookups' = Aborted \cup {[n |-> typings', cep |-> c, aborted |-> FALSE]}
            /\ busy' = TRUE /\ UNCHANGED held
       ELSE /\ lookups' = Aborted
            /\ held' = Unanswered /\ UNCHANGED busy

IsTyping == ~past /\ typings < MaxTypings /\ typings' = typings + 1

TypesCep(c) ==
  /\ IsTyping /\ c # cep
  /\ cep' = c /\ Looks(c)
  /\ dirty' = TRUE
  /\ UNCHANGED <<filled, savingVars, past>>

(* Readings arrive, one of them of a proof of residence. *)
ReadingFillsCep(c) ==
  /\ cep = Unfilled
  /\ typings < MaxTypings /\ typings' = typings + 1
  /\ cep' = c /\ Looks(c)
  /\ dirty' = TRUE
  /\ UNCHANGED <<filled, savingVars, past>>

(* updateAddress.  A field that is emptied shows the answer again. *)
TypesPart(f) ==
  /\ IsTyping /\ filled[f] # ByHand(cep)
  /\ filled' = [filled EXCEPT ![f] = ByHand(cep)]
  /\ dirty' = TRUE
  /\ UNCHANGED <<cep, lookupVars, savingVars, past>>

EmptiesPart(f) ==
  /\ IsTyping /\ Resolved(f) # Unfilled
  /\ filled' = [filled EXCEPT ![f] = Unfilled]
  /\ dirty' = TRUE
  /\ UNCHANGED <<cep, lookupVars, savingVars, past>>

----------------------------------------------------------------------------
(* ViaCEP answers. *)
Ended(l) == lookups' = lookups \ {l} /\ busy' = FALSE

(* Mutant: an answer is not something to save. *)
AnswerIsNoEdit == dirty

AnswerIsEdit == TRUE

LookupAnswers(l, gives) ==
  /\ l \in Pending
  /\ held' = [cep |-> l.cep, gives |-> gives]
  /\ dirty' = AnswerIsEdit
  /\ Ended(l)
  /\ UNCHANGED <<cep, filled, hint, savingVars, past, typings>>

(* Mutant: where there is no such CEP the answer before stays. *)
Keeps == held

Drops == Unanswered

(* payload.erro *)
LookupFindsNone(l) ==
  /\ l \in Pending
  /\ held' = Drops /\ hint' = "unknown"
  /\ Ended(l)
  /\ UNCHANGED <<cep, filled, dirty, savingVars, past, typings>>

LookupFails(l) ==
  /\ l \in Pending
  /\ hint' = "failed" /\ Ended(l)
  /\ UNCHANGED <<cep, filled, held, dirty, savingVars, past, typings>>

(* An aborted request throws; "finally" says that none is under way, though
   the next may be. *)
LookupIsAborted(l) ==
  /\ l \in lookups \ Pending
  /\ Ended(l)
  /\ UNCHANGED <<cep, filled, held, hint, dirty, savingVars, past, typings>>

----------------------------------------------------------------------------
(* syncDraft, by itself (forced on blur, every fifteen seconds where dirty), or
   forced by handleNext, on the step of the data where they are complete, and by
   submitProposal.  Blurs that would write the same again are left out. *)
SavesAddress(why) ==
  /\ proposalAddress = Unfilled /\ saved < MaxSaves /\ saved' = saved + 1
  /\ CASE why = "itself" -> AddressOf(Payload) # AddressOf(lastPayload)
       [] why = "next"   -> ~past /\ IsComplete(Payload)
       [] why = "send"   -> past
  /\ saves' = saves \cup {[n |-> saved', payload |-> Payload, why |-> why, at |-> "sent"]}
  /\ UNCHANGED <<cep, filled, lookupVars, dirty, lastPayload, overtaken, draftAddress, past,
                 proposalAddress, typings, lost>>

ApiSaves(s) ==
  /\ s \in saves /\ s.at = "sent" /\ s.payload.cep # HalfCep
  /\ draftAddress' = Over(draftAddress, s.payload)
  /\ saves' = (saves \ {s}) \cup {[s EXCEPT !.at = "stored"]}
  /\ UNCHANGED <<cep, filled, lookupVars, dirty, lastPayload, overtaken, past, proposalAddress,
                 typings, saved, lost>>

(* What was waiting for the save goes on. *)
GoesOnAfter(s) ==
  /\ past' = (past \/ s.why = "next")
  /\ saves' = (saves \ {s}) \cup {[t EXCEPT !.at = "send"] : t \in {u \in {s} : u.why = "send"}}

SaveAnswers(s) ==
  /\ s \in saves /\ s.at = "stored"
  /\ lastPayload' = s.payload /\ dirty' = FALSE
  /\ overtaken' = (AddressOf(Payload) # AddressOf(s.payload))
  /\ GoesOnAfter(s)
  /\ UNCHANGED <<cep, filled, lookupVars, draftAddress, proposalAddress, typings, saved, lost>>

(* A save that fails is only shown: the next step comes, the form is sent, all
   the same.  A CEP that is not whole is refused; anything else may be lost,
   before the API wrote or after. *)
AddressSaveFails(s) ==
  /\ s \in saves /\ s.at \in {"sent", "stored"}
  /\ \/ s.payload.cep = HalfCep /\ UNCHANGED lost
     \/ s.payload.cep # HalfCep /\ lost < MaxLost /\ lost' = lost + 1
  /\ GoesOnAfter(s)
  /\ UNCHANGED <<cep, filled, lookupVars, dirty, lastPayload, overtaken, draftAddress,
                 proposalAddress, typings, saved>>

(* submitProposal: the draft's address becomes the proposal's, or is refused. *)
SendsForm(s) ==
  /\ s \in saves /\ s.at = "send"
  /\ proposalAddress' = IF proposalAddress = Unfilled /\ IsComplete(draftAddress) THEN draftAddress
                 ELSE proposalAddress
  /\ saves' = saves \ {s}
  /\ UNCHANGED <<cep, filled, lookupVars, dirty, lastPayload, overtaken, draftAddress, past,
                 typings, saved, lost>>

(* handleBack *)
GoesBack ==
  /\ past /\ past' = FALSE
  /\ UNCHANGED <<cep, filled, lookupVars, dirty, savingVars, typings>>

----------------------------------------------------------------------------
AddressAtRest ==
  /\ cep = Unfilled /\ filled = [f \in Parts |-> Unfilled]
  /\ held = Unanswered /\ hint = "none" /\ busy = FALSE /\ lookups = {}
  /\ dirty = FALSE /\ lastPayload = NoAddress /\ overtaken = FALSE
  /\ saves = {} /\ draftAddress = NoAddress
  /\ past = FALSE /\ proposalAddress = Unfilled /\ typings = 0 /\ saved = 0 /\ lost = 0

AddressInit == AddressAtRest

AddressNext ==
  \/ \E c \in Ceps \cup {HalfCep, Unfilled} : TypesCep(c)
  \/ \E c \in Ceps : ReadingFillsCep(c)
  \/ \E f \in Parts : TypesPart(f) \/ EmptiesPart(f)
  \/ \E l \in lookups : \/ \E gives \in SUBSET Parts : LookupAnswers(l, gives)
                        \/ LookupFindsNone(l) \/ LookupFails(l) \/ LookupIsAborted(l)
  \/ \E why \in {"itself", "next", "send"} : SavesAddress(why)
  \/ \E s \in saves : ApiSaves(s) \/ SaveAnswers(s) \/ AddressSaveFails(s) \/ SendsForm(s)
  \/ GoesBack

AddressSpec == AddressInit /\ [][AddressNext]_addressVars

----------------------------------------------------------------------------
CepField == Ceps \cup {HalfCep, Unfilled}
Part == {Unfilled} \cup [typed : BOOLEAN, cep : CepField]
Address == [cep : CepField, parts : [Parts -> Part], loose : BOOLEAN]

(* The type invariant of the address. *)
AddressTypeOK ==
  /\ cep \in CepField
  /\ filled \in [Parts -> {Unfilled} \cup {ByHand(c) : c \in CepField}]
  /\ held = Unanswered \/ held \in [cep : Ceps, gives : SUBSET Parts]
  /\ hint \in {"none", "unknown", "failed"}
  /\ {busy, dirty, past, overtaken} \subseteq BOOLEAN
  /\ lookups \subseteq [n : 1..MaxTypings, cep : Ceps, aborted : BOOLEAN]
  /\ {lastPayload, draftAddress} \subseteq Address
  /\ saves \subseteq [n : 1..MaxSaves, payload : Address, why : {"itself", "next", "send"},
                      at : {"sent", "stored", "send"}]
  /\ proposalAddress = Unfilled \/ proposalAddress \in Address
  /\ typings \in 0..MaxTypings /\ saved \in 0..MaxSaves /\ lost \in 0..MaxLost

(* One lookup at most is not aborted, it is of the CEP in the field, and none
   is left once it has failed or found nothing (useViaCepAutofill). *)
LookupsAreSound ==
  /\ \A l \in Pending : l.cep = cep
  /\ \A k, l \in Pending : k = l
  /\ hint # "none" => Pending = {}

(* The answer is that for the CEP in the field, unless that one is still being
   looked up or its lookup failed. *)
AnswerIsOfCep ==
  held # Unanswered => held.cep = cep \/ Pending # {} \/ hint = "failed"

(* What the lookup has filled in goes with the CEP in the field, unless that
   one is still being looked up or its lookup failed: then the address of the
   CEP before is on the screen (useViaCepAutofill). *)
ShownIsOfCep ==
  \A f \in Parts :
    filled[f] = Unfilled /\ Resolved(f) # Unfilled =>
      Resolved(f).cep = cep \/ (\E l \in Pending : l.cep = cep) \/ hint = "failed"

(* A street goes with the CEP beside it, or the candidate typed that street, or
   what the draft got last was built with a lookup under way or failed, or left
   the street as it was. *)
GoesWithItsCep(p) ==
  \A f \in Parts : p.parts[f] = Unfilled \/ p.parts[f].typed \/ p.parts[f].cep = p.cep \/ p.loose

(* What is saved is like that, on its way and in the draft (syncDraft,
   mergeDraftData). *)
SavedIsOfItsCep == \A p \in {draftAddress} \cup {s.payload : s \in saves} : GoesWithItsCep(p)

(* And so is what a proposal is accepted with, where no part is missing
   (submitProposal). *)
AcceptedIsOfItsCep ==
  proposalAddress # Unfilled =>
    \A f \in Parts : proposalAddress.parts[f].typed
                     \/ proposalAddress.parts[f].cep = proposalAddress.cep \/ proposalAddress.loose

(* The form knows that its address is not saved, unless it was changed between
   a save and its answer, or the CEP it was changed to does not exist: dropping
   the answer before is no edit (the effect on viaCep.data). *)
UnsavedIsDirty ==
  ~dirty => AddressOf(Payload) = AddressOf(lastPayload) \/ overtaken \/ hint = "unknown"

(* An address goes with its CEP, on the screen, in the draft and in the proposal;
   with the types this is inductive. *)
AddressIsOfItsCep ==
  /\ LookupsAreSound /\ AnswerIsOfCep /\ ShownIsOfCep
  /\ SavedIsOfItsCep /\ AcceptedIsOfItsCep

=============================================================================
