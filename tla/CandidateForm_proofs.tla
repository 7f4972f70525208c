----------------------- MODULE CandidateForm_proofs -----------------------
(***************************************************************************)
(* Proofs about the candidate's form: the address (AddressFields) and the  *)
(* reading of documents (OcrReading) that fill it in, for any documents,   *)
(* CEPs, parts of an address and bounds; and the draft that it is saved to *)
(* (DraftForm), for any drafts, networks, calls at once and changes.       *)
(*                                                                         *)
(* Each has an inductive invariant of its own, AddressInv, ReadingInv and  *)
(* FormSound; FieldsSpec moves one of the first two and leaves the other   *)
(* as it was.                                                              *)
(***************************************************************************)
EXTENDS MCFormFields, DraftForm, FiniteSetTheorems, TLAPS

(* The address on the form *)

USE AddressAssumption

(* The inductive invariant of the address. *)
AddressInv == AddressTypeOK /\ UnsavedIsDirty /\ AddressIsOfItsCep

-----------------------------------------------------------------------------
(* What the form has and what it shows *)

LEMMA FilledIsTyped ==
  ASSUME AddressTypeOK, NEW f \in Parts, filled[f] # Unfilled
  PROVE  filled[f] \in [typed : {TRUE}, cep : CepField]
<1>1. PICK c \in CepField : filled[f] = ByHand(c)
  BY DEF AddressTypeOK
<1> QED  BY <1>1 DEF ByHand

LEMMA ByCepType ==
  ASSUME NEW c \in Ceps
  PROVE  ByCep(c) \in Part /\ ByCep(c).cep = c
  BY DEF ByCep, Part, CepField

LEMMA ResolvedType ==
  ASSUME AddressTypeOK, NEW f \in Parts
  PROVE  Resolved(f) \in Part
<1>1. CASE filled[f] # Unfilled
  BY <1>1, FilledIsTyped DEF Resolved, Part
<1>2. CASE filled[f] = Unfilled /\ held # Unanswered /\ f \in held.gives
  <2>1. held.cep \in Ceps  BY <1>2 DEF AddressTypeOK
  <2> QED  BY <1>2, <2>1, ByCepType DEF Resolved
<1>3. CASE filled[f] = Unfilled /\ ~(held # Unanswered /\ f \in held.gives)
  BY <1>3 DEF Resolved, Part
<1> QED  BY <1>1, <1>2, <1>3

(* What the form shows under its CEP is typed, or the answer for a CEP. *)
LEMMA ResolvedFrom ==
  ASSUME AddressTypeOK, NEW f \in Parts
  PROVE  \/ Resolved(f) = Unfilled
         \/ filled[f] # Unfilled /\ Resolved(f).typed
         \/ filled[f] = Unfilled /\ held # Unanswered /\ Resolved(f).cep = held.cep
<1>1. CASE filled[f] # Unfilled
  BY <1>1, FilledIsTyped DEF Resolved
<1>2. CASE filled[f] = Unfilled /\ held # Unanswered /\ f \in held.gives
  <2>1. held.cep \in Ceps  BY <1>2 DEF AddressTypeOK
  <2> QED  BY <1>2, <2>1, ByCepType DEF Resolved
<1>3. CASE filled[f] = Unfilled /\ ~(held # Unanswered /\ f \in held.gives)
  BY <1>3 DEF Resolved
<1> QED  BY <1>1, <1>2, <1>3

LEMMA PayloadType ==
  ASSUME AddressTypeOK
  PROVE  Payload \in Address
<1>1. [f \in Parts |-> Resolved(f)] \in [Parts -> Part]
  BY ResolvedType
<1>2. (Pending # {} \/ hint = "failed") \in BOOLEAN
  OBVIOUS
<1>3. cep \in CepField  BY DEF AddressTypeOK
<1> QED  BY <1>1, <1>2, <1>3 DEF Payload, Address

(* ShownIsOfCep is what AnswerIsOfCep is for. *)
LEMMA ShownFollows ==
  ASSUME AddressTypeOK, LookupsAreSound, AnswerIsOfCep
  PROVE  ShownIsOfCep
<1> SUFFICES ASSUME NEW f \in Parts, filled[f] = Unfilled, Resolved(f) # Unfilled
             PROVE  Resolved(f).cep = cep \/ (\E l \in Pending : l.cep = cep) \/ hint = "failed"
  BY DEF ShownIsOfCep
<1>1. held # Unanswered /\ Resolved(f).cep = held.cep
  BY ResolvedFrom
<1> QED  BY <1>1 DEF AnswerIsOfCep, LookupsAreSound

LEMMA PayloadGoesWithItsCep ==
  ASSUME AddressTypeOK, AnswerIsOfCep
  PROVE  GoesWithItsCep(Payload)
<1> SUFFICES ASSUME NEW f \in Parts
             PROVE  \/ Payload.parts[f] = Unfilled \/ Payload.parts[f].typed
                    \/ Payload.parts[f].cep = Payload.cep \/ Payload.loose
  BY DEF GoesWithItsCep
<1>1. /\ Payload.cep = cep /\ Payload.parts[f] = Resolved(f)
      /\ Payload.loose = (Pending # {} \/ hint = "failed")
  BY DEF Payload
<1>2. \/ Resolved(f) = Unfilled \/ Resolved(f).typed
      \/ held # Unanswered /\ Resolved(f).cep = held.cep
  BY ResolvedFrom
<1> QED  BY <1>1, <1>2 DEF AnswerIsOfCep

LEMMA OverKeepsIt ==
  ASSUME NEW old \in Address, NEW p \in Address, GoesWithItsCep(p)
  PROVE  Over(old, p) \in Address /\ GoesWithItsCep(Over(old, p))
<1> DEFINE keeps == {f \in Parts : p.parts[f] = Unfilled /\ old.parts[f] # Unfilled}
           new == Over(old, p)
<1>1. /\ new.cep = IF p.cep = Unfilled THEN old.cep ELSE p.cep
      /\ new.parts = [f \in Parts |-> IF f \in keeps THEN old.parts[f] ELSE p.parts[f]]
      /\ new.loose = (p.loose \/ keeps # {} \/ (p.cep = Unfilled /\ old.cep # Unfilled))
  BY DEF Over
<1>2. new \in Address
  <2>1. new.cep \in CepField  BY <1>1 DEF Address
  <2>2. new.parts \in [Parts -> Part]  BY <1>1 DEF Address
  <2>3. new.loose \in BOOLEAN  BY <1>1
  <2>4. new = [cep |-> new.cep, parts |-> new.parts, loose |-> new.loose]  BY DEF Over
  <2> HIDE DEF new
  <2> QED  BY <2>1, <2>2, <2>3, <2>4 DEF Address
<1>3. GoesWithItsCep(new)
  <2> SUFFICES ASSUME NEW f \in Parts
               PROVE  \/ new.parts[f] = Unfilled \/ new.parts[f].typed
                      \/ new.parts[f].cep = new.cep \/ new.loose
    BY DEF GoesWithItsCep
  <2>1. CASE f \in keeps  BY <2>1, <1>1
  <2>2. CASE f \notin keeps
    <3>1. new.parts[f] = p.parts[f]  BY <2>2, <1>1
    <3>2. \/ p.parts[f] = Unfilled \/ p.parts[f].typed
          \/ p.parts[f].cep = p.cep \/ p.loose
      BY DEF GoesWithItsCep
    <3>3. new.cep = p.cep \/ new.loose  BY <1>1
    <3>4. p.loose => new.loose  BY <1>1
    <3> HIDE DEF new, keeps
    <3> QED  BY <3>1, <3>2, <3>3, <3>4
  <2> QED  BY <2>1, <2>2
<1> QED  BY <1>2, <1>3

-----------------------------------------------------------------------------
(* What several actions share *)

(* Where nothing is saved or sent, what was stays. *)
LEMMA SavedStays ==
  ASSUME SavedIsOfItsCep, AcceptedIsOfItsCep, UNCHANGED <<draftAddress, saves, proposalAddress>>
  PROVE  SavedIsOfItsCep' /\ AcceptedIsOfItsCep'
  BY DEF SavedIsOfItsCep, AcceptedIsOfItsCep, GoesWithItsCep

LEMMA LookupsStay ==
  ASSUME LookupsAreSound, AnswerIsOfCep, UNCHANGED <<cep, held, hint, lookups>>
  PROVE  LookupsAreSound' /\ AnswerIsOfCep'
  BY DEF LookupsAreSound, AnswerIsOfCep, Pending

(* What is shown depends on the field, the parts and the answer alone. *)
LEMMA ShownStays ==
  ASSUME UNCHANGED <<cep, filled, held>>
  PROVE  AddressOf(Payload)' = AddressOf(Payload)
<1>1. \A f \in Parts : Resolved(f)' = Resolved(f)
  BY DEF Resolved
<1>2. /\ AddressOf(Payload) = [cep |-> cep, parts |-> [f \in Parts |-> Resolved(f)]]
      /\ AddressOf(Payload)' = [cep |-> cep', parts |-> [f \in Parts |-> Resolved(f)']]
  BY DEF AddressOf, Payload
<1> QED  BY <1>1, <1>2

(* Another CEP in the field: useViaCepAutofill aborts the lookups there are. *)
LEMMA LooksKeepsIt ==
  ASSUME AddressInv, NEW c \in CepField,
         cep' = c, Looks(c), typings < MaxTypings, typings' = typings + 1, dirty' = TRUE,
         UNCHANGED <<filled, savingVars, past>>
  PROVE  AddressInv'
<1> USE DEF AddressInv, AddressIsOfItsCep, savingVars
<1>1. /\ Aborted \subseteq [n : 1..MaxTypings, cep : Ceps, aborted : BOOLEAN]
      /\ \A l \in Aborted : l.aborted
  <2> SUFFICES ASSUME NEW l \in lookups
               PROVE  /\ [l EXCEPT !.aborted = TRUE]
                           \in [n : 1..MaxTypings, cep : Ceps, aborted : BOOLEAN]
                      /\ [l EXCEPT !.aborted = TRUE].aborted
    BY DEF Aborted
  <2>1. l \in [n : 1..MaxTypings, cep : Ceps, aborted : BOOLEAN]  BY DEF AddressTypeOK
  <2> QED  BY <2>1
<1>2. typings' \in 1..MaxTypings /\ typings' \in 0..MaxTypings
  BY DEF AddressTypeOK
<1> DEFINE asked == [n |-> typings', cep |-> c, aborted |-> FALSE]
<1>3. c \in Ceps => lookups' = Aborted \cup {asked} /\ Pending' = {asked}
  <2> SUFFICES ASSUME c \in Ceps  PROVE  lookups' = Aborted \cup {asked} /\ Pending' = {asked}
    OBVIOUS
  <2>1. lookups' = Aborted \cup {asked}  BY DEF Looks
  <2>2. asked.aborted = FALSE  OBVIOUS
  <2>3. Pending' = {l \in lookups' : ~l.aborted}  BY DEF Pending
  <2> HIDE DEF asked
  <2> QED  BY <2>1, <2>2, <2>3, <1>1
<1>4. c \notin Ceps => lookups' = Aborted /\ Pending' = {}
  BY <1>1 DEF Looks, Pending
<1>5. AddressTypeOK'
  <2>1. lookups' \subseteq [n : 1..MaxTypings, cep : Ceps, aborted : BOOLEAN]
    <3>1. CASE c \in Ceps
      <4>1. asked \in [n : 1..MaxTypings, cep : Ceps, aborted : BOOLEAN]  BY <3>1, <1>2
      <4> HIDE DEF asked
      <4> QED  BY <3>1, <4>1, <1>1, <1>3
    <3>2. CASE c \notin Ceps  BY <3>2, <1>1, <1>4
    <3> QED  BY <3>1, <3>2
  <2>2. held' = Unanswered \/ held' \in [cep : Ceps, gives : SUBSET Parts]
    BY DEF Looks, AddressTypeOK
  <2>3. hint' = "none" /\ busy' \in BOOLEAN
    BY DEF Looks, AddressTypeOK
  <2> QED  BY <2>1, <2>2, <2>3, <1>2 DEF AddressTypeOK
<1>6. LookupsAreSound'
  <2>1. asked.cep = cep'  OBVIOUS
  <2>2. hint' = "none"  BY DEF Looks
  <2> HIDE DEF asked
  <2> QED  BY <2>1, <2>2, <1>3, <1>4 DEF LookupsAreSound
<1>7. AnswerIsOfCep'
  <2> HIDE DEF asked
  <2> QED  BY <1>3, <1>4 DEF Looks, AnswerIsOfCep
<1>8. ShownIsOfCep'  BY <1>5, <1>6, <1>7, ShownFollows, PTL
<1>9. UnsavedIsDirty'  BY DEF UnsavedIsDirty
<1> QED  BY <1>5, <1>6, <1>7, <1>8, <1>9, SavedStays

-----------------------------------------------------------------------------
(* The candidate types *)

LEMMA PartsKeepIt ==
  ASSUME AddressInv, NEW g \in Parts, NEW v \in {Unfilled, ByHand(cep)},
         IsTyping, filled' = [filled EXCEPT ![g] = v], dirty' = TRUE,
         UNCHANGED <<cep, lookupVars, savingVars, past>>
  PROVE  AddressInv'
<1> USE DEF AddressInv, AddressIsOfItsCep, savingVars, lookupVars
<1>1. AddressTypeOK'
  <2>1. v \in {Unfilled} \cup {ByHand(c) : c \in CepField}
    BY DEF AddressTypeOK
  <2>2. filled' \in [Parts -> {Unfilled} \cup {ByHand(c) : c \in CepField}]
    BY <2>1 DEF AddressTypeOK
  <2>3. typings' \in 0..MaxTypings  BY DEF IsTyping, AddressTypeOK
  <2> QED  BY <2>2, <2>3 DEF AddressTypeOK
<1>2. LookupsAreSound' /\ AnswerIsOfCep'  BY LookupsStay
<1>3. ShownIsOfCep'  BY <1>1, <1>2, ShownFollows, PTL
<1>4. UnsavedIsDirty'  BY DEF UnsavedIsDirty
<1> QED  BY <1>1, <1>2, <1>3, <1>4, SavedStays

LEMMA TypingKeepsIt ==
  ASSUME AddressInv,
         \/ \E c \in Ceps \cup {HalfCep, Unfilled} : TypesCep(c)
         \/ \E c \in Ceps : ReadingFillsCep(c)
         \/ \E f \in Parts : TypesPart(f) \/ EmptiesPart(f)
  PROVE  AddressInv'
<1>1. CASE \E c \in Ceps \cup {HalfCep, Unfilled} : TypesCep(c)
  BY <1>1, LooksKeepsIt DEF TypesCep, IsTyping, CepField
<1>2. CASE \E c \in Ceps : ReadingFillsCep(c)
  BY <1>2, LooksKeepsIt DEF ReadingFillsCep, CepField
<1>3. CASE \E f \in Parts : TypesPart(f) \/ EmptiesPart(f)
  BY <1>3, PartsKeepIt DEF TypesPart, EmptiesPart
<1> QED  BY <1>1, <1>2, <1>3

-----------------------------------------------------------------------------
(* ViaCEP answers *)

(* What a lookup that is not aborted leaves, once it has ended. *)
LEMMA EndedLeavesNone ==
  ASSUME LookupsAreSound, NEW l \in Pending, Ended(l)
  PROVE  l \in lookups /\ Pending' = {}
  BY DEF LookupsAreSound, Pending, Ended

LEMMA EndedType ==
  ASSUME AddressTypeOK, NEW l \in lookups, Ended(l)
  PROVE  /\ lookups' \subseteq [n : 1..MaxTypings, cep : Ceps, aborted : BOOLEAN]
         /\ busy' \in BOOLEAN /\ l.cep \in Ceps
  BY DEF AddressTypeOK, Ended

LEMMA AnswerKeepsIt ==
  ASSUME AddressInv, NEW l \in lookups, NEW gives \in SUBSET Parts, LookupAnswers(l, gives)
  PROVE  AddressInv'
<1> USE DEF AddressInv, AddressIsOfItsCep, LookupAnswers, savingVars
<1>1. Pending' = {}  BY EndedLeavesNone
<1>2. l.cep = cep /\ hint = "none"  BY DEF LookupsAreSound, AddressTypeOK
<1>3. held' = [cep |-> l.cep, gives |-> gives] /\ held' \in [cep : Ceps, gives : SUBSET Parts]
  BY EndedType
<1>4. AddressTypeOK'
  <2>1. dirty' \in BOOLEAN  BY DEF AnswerIsEdit
  <2> QED  BY <1>3, <2>1, EndedType DEF AddressTypeOK
<1>5. LookupsAreSound'  BY <1>1 DEF LookupsAreSound
<1>6. AnswerIsOfCep'
  <2>1. held'.cep = cep'  BY <1>2, <1>3
  <2> QED  BY <2>1 DEF AnswerIsOfCep
<1>7. ShownIsOfCep'  BY <1>4, <1>5, <1>6, ShownFollows, PTL
<1>8. UnsavedIsDirty'  BY DEF UnsavedIsDirty, AnswerIsEdit
<1> QED  BY <1>4, <1>5, <1>6, <1>7, <1>8, SavedStays

LEMMA NoSuchCepKeepsIt ==
  ASSUME AddressInv, NEW l \in lookups, LookupFindsNone(l)
  PROVE  AddressInv'
<1> USE DEF AddressInv, AddressIsOfItsCep, LookupFindsNone, savingVars
<1>1. Pending' = {}  BY EndedLeavesNone
<1>2. held' = Unanswered  BY DEF Drops
<1>3. AddressTypeOK'  BY <1>2, EndedType DEF AddressTypeOK
<1>4. LookupsAreSound'  BY <1>1 DEF LookupsAreSound
<1>5. AnswerIsOfCep'  BY <1>2 DEF AnswerIsOfCep
<1>6. ShownIsOfCep'  BY <1>3, <1>4, <1>5, ShownFollows, PTL
<1>7. UnsavedIsDirty'  BY DEF UnsavedIsDirty
<1> QED  BY <1>3, <1>4, <1>5, <1>6, <1>7, SavedStays

LEMMA FailureKeepsIt ==
  ASSUME AddressInv, NEW l \in lookups, LookupFails(l)
  PROVE  AddressInv'
<1> USE DEF AddressInv, AddressIsOfItsCep, LookupFails, savingVars
<1>1. Pending' = {}  BY EndedLeavesNone
<1>2. hint = "none"  BY DEF LookupsAreSound, AddressTypeOK
<1>3. AddressTypeOK'  BY EndedType DEF AddressTypeOK
<1>4. LookupsAreSound'  BY <1>1 DEF LookupsAreSound
<1>5. AnswerIsOfCep'  BY DEF AnswerIsOfCep
<1>6. ShownIsOfCep'  BY <1>3, <1>4, <1>5, ShownFollows, PTL
<1>7. UnsavedIsDirty'
  <2>1. AddressOf(Payload)' = AddressOf(Payload) /\ AddressOf(lastPayload)' = AddressOf(lastPayload)
    BY ShownStays DEF AddressOf
  <2> QED  BY <2>1, <1>2 DEF UnsavedIsDirty
<1> QED  BY <1>3, <1>4, <1>5, <1>6, <1>7, SavedStays

LEMMA AbortedKeepsIt ==
  ASSUME AddressInv, NEW l \in lookups, LookupIsAborted(l)
  PROVE  AddressInv'
<1> USE DEF AddressInv, AddressIsOfItsCep, LookupIsAborted, savingVars
<1>1. Pending' = Pending  BY DEF Pending, Ended
<1>2. AddressTypeOK'  BY EndedType DEF AddressTypeOK
<1>3. LookupsAreSound'  BY <1>1 DEF LookupsAreSound
<1>4. AnswerIsOfCep'  BY <1>1 DEF AnswerIsOfCep
<1>5. ShownIsOfCep'  BY <1>2, <1>3, <1>4, ShownFollows, PTL
<1>6. UnsavedIsDirty'
  <2>1. AddressOf(Payload)' = AddressOf(Payload) /\ AddressOf(lastPayload)' = AddressOf(lastPayload)
    BY ShownStays DEF AddressOf
  <2> QED  BY <2>1 DEF UnsavedIsDirty
<1> QED  BY <1>2, <1>3, <1>4, <1>5, <1>6, SavedStays

-----------------------------------------------------------------------------
(* The form saves, and is sent *)

(* What no action on saves touches. *)
LEMMA FieldsStay ==
  ASSUME AddressInv, AddressTypeOK', UNCHANGED <<cep, filled, lookupVars>>
  PROVE  LookupsAreSound' /\ AnswerIsOfCep' /\ ShownIsOfCep'
<1>1. LookupsAreSound' /\ AnswerIsOfCep'
  BY LookupsStay DEF AddressInv, AddressIsOfItsCep, lookupVars
<1> QED  BY <1>1, ShownFollows, PTL

LEMMA DirtyStays ==
  ASSUME AddressInv, UNCHANGED <<cep, filled, lookupVars, dirty, lastPayload, overtaken>>
  PROVE  UnsavedIsDirty'
<1>1. AddressOf(Payload)' = AddressOf(Payload) /\ AddressOf(lastPayload)' = AddressOf(lastPayload)
  BY ShownStays DEF AddressOf, lookupVars
<1> QED  BY <1>1 DEF UnsavedIsDirty, AddressInv, lookupVars

Save == [n : 1..MaxSaves, payload : Address, why : {"itself", "next", "send"},
         at : {"sent", "stored", "send"}]

LEMMA SaveMoves ==
  ASSUME NEW s \in Save, NEW at \in {"sent", "stored", "send"}
  PROVE  /\ [s EXCEPT !.at = at] \in Save
         /\ [s EXCEPT !.at = at].payload = s.payload
  BY DEF Save

LEMMA SavesKeepIt ==
  ASSUME AddressInv, NEW why \in {"itself", "next", "send"}, SavesAddress(why)
  PROVE  AddressInv'
<1> USE DEF AddressInv, AddressIsOfItsCep, SavesAddress
<1> DEFINE s == [n |-> saved', payload |-> Payload, why |-> why, at |-> "sent"]
<1>1. saved' \in 1..MaxSaves /\ saved' \in 0..MaxSaves
  BY DEF AddressTypeOK
<1>2. s \in Save /\ s.payload = Payload
  BY <1>1, PayloadType DEF Save
<1>3. saves' = saves \cup {s}  OBVIOUS
<1> HIDE DEF s
<1>4. AddressTypeOK'
  <2>1. saves' \subseteq Save  BY <1>2, <1>3 DEF AddressTypeOK, Save
  <2> QED  BY <2>1, <1>1 DEF AddressTypeOK, Save, lookupVars
<1>5. LookupsAreSound' /\ AnswerIsOfCep' /\ ShownIsOfCep'  BY <1>4, FieldsStay
<1>6. SavedIsOfItsCep'
  <2>1. GoesWithItsCep(s.payload)  BY <1>2, PayloadGoesWithItsCep
  <2> QED  BY <2>1, <1>3 DEF SavedIsOfItsCep, GoesWithItsCep
<1>7. AcceptedIsOfItsCep'  BY DEF AcceptedIsOfItsCep
<1>8. UnsavedIsDirty'  BY DirtyStays
<1> QED  BY <1>4, <1>5, <1>6, <1>7, <1>8

LEMMA ApiKeepsIt ==
  ASSUME AddressInv, NEW s \in saves, ApiSaves(s)
  PROVE  AddressInv'
<1> USE DEF AddressInv, AddressIsOfItsCep, ApiSaves
<1> DEFINE t == [s EXCEPT !.at = "stored"]
<1>1. s \in Save /\ s.payload \in Address /\ draftAddress \in Address
  BY DEF AddressTypeOK, Save
<1>2. t \in Save /\ t.payload = s.payload
  BY <1>1, SaveMoves
<1>3. saves' = (saves \ {s}) \cup {t}  OBVIOUS
<1> HIDE DEF t
<1>4. draftAddress' \in Address /\ GoesWithItsCep(draftAddress')
  BY <1>1, OverKeepsIt DEF SavedIsOfItsCep
<1>5. AddressTypeOK'
  <2>1. saves' \subseteq Save  BY <1>2, <1>3 DEF AddressTypeOK, Save
  <2> QED  BY <2>1, <1>4 DEF AddressTypeOK, Save, lookupVars
<1>6. LookupsAreSound' /\ AnswerIsOfCep' /\ ShownIsOfCep'  BY <1>5, FieldsStay
<1>7. SavedIsOfItsCep'  BY <1>2, <1>3, <1>4 DEF SavedIsOfItsCep, GoesWithItsCep
<1>8. AcceptedIsOfItsCep'  BY DEF AcceptedIsOfItsCep
<1>9. UnsavedIsDirty'  BY DirtyStays
<1> QED  BY <1>5, <1>6, <1>7, <1>8, <1>9

(* What goes on after a save is the save itself, where it was to send the form. *)
LEMMA GoesOnType ==
  ASSUME AddressInv, NEW s \in saves, GoesOnAfter(s)
  PROVE  /\ saves' \subseteq Save /\ past' \in BOOLEAN
         /\ \A t \in saves' : \E u \in saves : t.payload = u.payload
<1>1. s \in Save /\ saves \subseteq Save /\ past \in BOOLEAN
  BY DEF AddressInv, AddressTypeOK, Save
<1>2. [s EXCEPT !.at = "send"] \in Save /\ [s EXCEPT !.at = "send"].payload = s.payload
  BY <1>1, SaveMoves
<1>3. \A t \in saves' : t \in saves \/ t = [s EXCEPT !.at = "send"]
  BY DEF GoesOnAfter
<1>4. past' = (past \/ s.why = "next")
  BY DEF GoesOnAfter
<1> QED  BY <1>1, <1>2, <1>3, <1>4

LEMMA GoingOnKeepsIt ==
  ASSUME AddressInv, NEW s \in saves, GoesOnAfter(s),
         UNCHANGED <<draftAddress, proposalAddress>>
  PROVE  SavedIsOfItsCep' /\ AcceptedIsOfItsCep'
<1>1. SavedIsOfItsCep'
  BY GoesOnType DEF AddressInv, AddressIsOfItsCep, SavedIsOfItsCep, GoesWithItsCep
<1>2. AcceptedIsOfItsCep'
  BY DEF AddressInv, AddressIsOfItsCep, AcceptedIsOfItsCep
<1> QED  BY <1>1, <1>2

LEMMA SaveAnswersKeepsIt ==
  ASSUME AddressInv, NEW s \in saves, SaveAnswers(s)
  PROVE  AddressInv'
<1> USE DEF AddressInv, AddressIsOfItsCep, SaveAnswers
<1>1. s.payload \in Address  BY DEF AddressTypeOK
<1>2. AddressTypeOK'
  <2>1. overtaken' \in BOOLEAN  OBVIOUS
  <2> QED  BY <1>1, <2>1, GoesOnType DEF AddressTypeOK, Save, lookupVars
<1>3. LookupsAreSound' /\ AnswerIsOfCep' /\ ShownIsOfCep'  BY <1>2, FieldsStay
<1>4. UnsavedIsDirty'
  <2>1. AddressOf(Payload)' = AddressOf(Payload)  BY ShownStays DEF lookupVars
  <2>2. AddressOf(lastPayload)' = AddressOf(s.payload)  BY DEF AddressOf
  <2> QED  BY <2>1, <2>2 DEF UnsavedIsDirty
<1> QED  BY <1>2, <1>3, <1>4, GoingOnKeepsIt

LEMMA SaveFailsKeepsIt ==
  ASSUME AddressInv, NEW s \in saves, AddressSaveFails(s)
  PROVE  AddressInv'
<1> USE DEF AddressInv, AddressIsOfItsCep, AddressSaveFails
<1>1. AddressTypeOK'
  <2>1. lost' \in 0..MaxLost  BY DEF AddressTypeOK
  <2> QED  BY <2>1, GoesOnType DEF AddressTypeOK, Save, lookupVars
<1>2. LookupsAreSound' /\ AnswerIsOfCep' /\ ShownIsOfCep'  BY <1>1, FieldsStay
<1>3. UnsavedIsDirty'  BY DirtyStays
<1> QED  BY <1>1, <1>2, <1>3, GoingOnKeepsIt

LEMMA SendingKeepsIt ==
  ASSUME AddressInv, NEW s \in saves, SendsForm(s)
  PROVE  AddressInv'
<1> USE DEF AddressInv, AddressIsOfItsCep, SendsForm
<1>1. AddressTypeOK'
  BY DEF AddressTypeOK, lookupVars
<1>2. LookupsAreSound' /\ AnswerIsOfCep' /\ ShownIsOfCep'  BY <1>1, FieldsStay
<1>3. SavedIsOfItsCep'  BY DEF SavedIsOfItsCep, GoesWithItsCep
<1>4. AcceptedIsOfItsCep'
  <2>1. CASE proposalAddress' = proposalAddress  BY <2>1 DEF AcceptedIsOfItsCep
  <2>2. CASE proposalAddress' = draftAddress /\ IsComplete(draftAddress)
    <3>1. GoesWithItsCep(draftAddress)  BY DEF SavedIsOfItsCep
    <3> QED  BY <2>2, <3>1 DEF AcceptedIsOfItsCep, GoesWithItsCep, IsComplete
  <2> QED  BY <2>1, <2>2
<1>5. UnsavedIsDirty'  BY DirtyStays
<1> QED  BY <1>1, <1>2, <1>3, <1>4, <1>5

LEMMA GoingBackKeepsIt ==
  ASSUME AddressInv, GoesBack
  PROVE  AddressInv'
<1> USE DEF AddressInv, AddressIsOfItsCep, GoesBack, savingVars
<1>1. AddressTypeOK'  BY DEF AddressTypeOK, lookupVars
<1>2. LookupsAreSound' /\ AnswerIsOfCep' /\ ShownIsOfCep'  BY <1>1, FieldsStay
<1> QED  BY <1>1, <1>2, SavedStays, DirtyStays

-----------------------------------------------------------------------------
(* Together *)

LEMMA NoAddressType == NoAddress \in Address /\ GoesWithItsCep(NoAddress)
<1>1. [f \in Parts |-> Unfilled] \in [Parts -> Part]  BY DEF Part
<1> QED  BY <1>1 DEF NoAddress, Address, GoesWithItsCep, CepField

LEMMA AddressInitially == AddressInit => AddressInv
<1> SUFFICES ASSUME AddressAtRest  PROVE AddressInv
  BY DEF AddressInit
<1> USE DEF AddressAtRest
<1>1. NoAddress \in Address /\ GoesWithItsCep(NoAddress)  BY NoAddressType
<1>2. Pending = {}  BY DEF Pending
<1>3. AddressTypeOK
  <2>1. filled \in [Parts -> {Unfilled} \cup {ByHand(c) : c \in CepField}]
    OBVIOUS
  <2>2. /\ cep \in CepField /\ lookups = {} /\ saves = {}
        /\ {busy, dirty, past, overtaken} \subseteq BOOLEAN
    BY DEF CepField
  <2>3. typings \in 0..MaxTypings /\ saved \in 0..MaxSaves /\ lost \in 0..MaxLost
    OBVIOUS
  <2> QED  BY <1>1, <2>1, <2>2, <2>3 DEF AddressTypeOK
<1>4. LookupsAreSound /\ AnswerIsOfCep  BY <1>2 DEF LookupsAreSound, AnswerIsOfCep
<1>5. ShownIsOfCep  BY <1>3, <1>4, ShownFollows
<1>6. SavedIsOfItsCep /\ AcceptedIsOfItsCep
  BY <1>1 DEF SavedIsOfItsCep, AcceptedIsOfItsCep
<1>7. UnsavedIsDirty
  <2>1. \A f \in Parts : Resolved(f) = Unfilled  BY DEF Resolved
  <2>2. AddressOf(Payload) = [cep |-> Unfilled, parts |-> [f \in Parts |-> Unfilled]]
    BY <2>1 DEF AddressOf, Payload
  <2>3. AddressOf(lastPayload) = [cep |-> Unfilled, parts |-> [f \in Parts |-> Unfilled]]
    BY DEF AddressOf, NoAddress
  <2> QED  BY <2>2, <2>3 DEF UnsavedIsDirty
<1> QED  BY <1>3, <1>4, <1>5, <1>6, <1>7 DEF AddressInv, AddressIsOfItsCep

LEMMA AddressStepKeepsIt == AddressInv /\ [AddressNext]_addressVars => AddressInv'
<1> SUFFICES ASSUME AddressInv, [AddressNext]_addressVars  PROVE AddressInv'
  OBVIOUS
<1>1. CASE \/ \E c \in Ceps \cup {HalfCep, Unfilled} : TypesCep(c)
           \/ \E c \in Ceps : ReadingFillsCep(c)
           \/ \E f \in Parts : TypesPart(f) \/ EmptiesPart(f)
  BY <1>1, TypingKeepsIt
<1>2. CASE \E l \in lookups : \/ \E gives \in SUBSET Parts : LookupAnswers(l, gives)
                              \/ LookupFindsNone(l) \/ LookupFails(l) \/ LookupIsAborted(l)
  BY <1>2, AnswerKeepsIt, NoSuchCepKeepsIt, FailureKeepsIt, AbortedKeepsIt
<1>3. CASE \E why \in {"itself", "next", "send"} : SavesAddress(why)
  BY <1>3, SavesKeepIt
<1>4. CASE \E s \in saves : ApiSaves(s) \/ SaveAnswers(s) \/ AddressSaveFails(s) \/ SendsForm(s)
  BY <1>4, ApiKeepsIt, SaveAnswersKeepsIt, SaveFailsKeepsIt, SendingKeepsIt
<1>5. CASE GoesBack
  BY <1>5, GoingBackKeepsIt
<1>6. CASE UNCHANGED addressVars
  <2> USE <1>6 DEF addressVars, AddressInv, AddressIsOfItsCep
  <2>1. AddressTypeOK'
    <3>1. UNCHANGED <<cep, filled, held, hint, busy, lookups, dirty, lastPayload, overtaken, saves,
                      draftAddress, past, proposalAddress, typings, saved, lost>>
      BY DEF lookupVars, savingVars
    <3> QED  BY <3>1 DEF AddressTypeOK
  <2>2. LookupsAreSound' /\ AnswerIsOfCep' /\ ShownIsOfCep'  BY <2>1, FieldsStay
  <2>3. UnsavedIsDirty'  BY DirtyStays DEF savingVars
  <2> QED  BY <2>1, <2>2, <2>3, SavedStays DEF savingVars
<1> QED  BY <1>1, <1>2, <1>3, <1>4, <1>5, <1>6 DEF AddressNext

-----------------------------------------------------------------------------
(* The reading of documents *)

USE PapersAssumption, CpfsAssumption, ReadingBounds, NoDocAssumption

(* The inductive invariant of the widget with its jobs. *)
ReadingInv == ReadingTypeOK /\ WidgetIsSound /\ LooksAreSound

Widget == [ flow : {"idle", "alert", "presign", "put", "ask", "poll", "preview"},
            photo : Papers, current : Some, info : Some, preview : Some, tries : 0 .. Tries,
            seen : Nat ]
FormOf == [name : Names, cpf : Cpfs \cup {NoCpf}, doc : Some, ok : BOOLEAN]
UsedOf == [triggers : 0 .. MaxTriggers, edits : 0 .. MaxEdits, faults : 0 .. MaxFaults]

LEMMA NoPhotoType == NoPhoto \in Papers
  BY DEF NoPhoto

LEMMA WidgetType ==
  ASSUME ReadingTypeOK
  PROVE  /\ widget \in Widget
         /\ fields \in FormOf
         /\ used \in UsedOf
         /\ rows \subseteq Docs /\ stored \subseteq rows
         /\ paper \in [Docs -> Papers]
         /\ jobs \in [Docs -> 0 .. MaxTriggers]
  BY DEF ReadingTypeOK, Widget, FormOf, UsedOf

LEMMA NoTries == 0 \in 0 .. Tries /\ Tries \in Nat
  OBVIOUS

LEMMA OneMoreTry ==
  ASSUME widget \in Widget, widget.tries < Tries
  PROVE  widget.tries + 1 \in 0 .. Tries
<1>1. widget.tries \in 0 .. Tries  BY DEF Widget
<1> QED  BY <1>1, NoTries

(* What a step of the widget's flow leaves of it. *)
LEMMA FlowMoves ==
  ASSUME NEW w \in Widget,
         NEW flow \in {"idle", "alert", "presign", "put", "ask", "poll", "preview"}
  PROVE  /\ [w EXCEPT !.flow = flow] \in Widget
         /\ [w EXCEPT !.flow = flow].flow = flow
         /\ [w EXCEPT !.flow = flow].current = w.current
         /\ [w EXCEPT !.flow = flow].info = w.info
         /\ [w EXCEPT !.flow = flow].preview = w.preview
         /\ [w EXCEPT !.flow = flow].seen = w.seen
  BY DEF Widget

LEMMA FaultyType ==
  ASSUME ReadingTypeOK, Faulty
  PROVE  used' \in UsedOf /\ used'.triggers = used.triggers
  BY WidgetType DEF Faulty, UsedOf

LEMMA EditedType ==
  ASSUME ReadingTypeOK, Edited
  PROVE  used' \in UsedOf /\ used'.triggers = used.triggers
  BY WidgetType DEF Edited, UsedOf

(* A step of the form or the worker that leaves the widget and its jobs. *)
LEMMA WidgetStays ==
  ASSUME WidgetIsSound, UNCHANGED <<widget, stored, rows, failed, jobs>>,
         fields'.doc = fields.doc, fields'.ok = fields.ok, used'.triggers = used.triggers
  PROVE  WidgetIsSound'
  BY DEF WidgetIsSound, Flows

(* What has been looked at stays as it was, as results are only appended.  *)
LEMMA LooksStay ==
  ASSUME LooksAreSound, widget' = widget, results' = results
  PROVE  LooksAreSound'
  BY DEF LooksAreSound, Flows

(* A widget that is not waiting has nothing it looked at. *)
LEMMA NoLooks ==
  ASSUME ReadingTypeOK', widget'.seen = 0
  PROVE  LooksAreSound'
<1>1. Len(results') \in Nat  BY DEF ReadingTypeOK
<1> QED  BY <1>1 DEF LooksAreSound

LEMMA OnlyPollsLook ==
  ASSUME ReadingInv, ~Flows("poll")
  PROVE  widget.seen = 0
  BY DEF ReadingInv, LooksAreSound

LEMMA Typing ==
  ASSUME ReadingInv, Types
  PROVE  ReadingInv'
<1> USE DEF ReadingInv, uploads, reading
<1>1. fields \in FormOf
  BY WidgetType
<1>2. fields' \in FormOf /\ fields'.doc = fields.doc /\ fields'.ok = fields.ok
  <2>1. ASSUME NEW n \in Typed, fields' = [fields EXCEPT !.name = n]
        PROVE  fields' \in FormOf /\ fields'.doc = fields.doc /\ fields'.ok = fields.ok
    BY <1>1, <2>1 DEF FormOf, Names
  <2>2. ASSUME NEW c \in Cpfs, fields' = [fields EXCEPT !.cpf = c]
        PROVE  fields' \in FormOf /\ fields'.doc = fields.doc /\ fields'.ok = fields.ok
    BY <1>1, <2>2 DEF FormOf
  <2> QED  BY <2>1, <2>2 DEF Types
<1>3. used' \in UsedOf /\ used'.triggers = used.triggers
  BY EditedType DEF Types
<1>4. UNCHANGED <<uploads, reading, draftData, widget, failed>>  BY DEF Types
<1>5. ReadingTypeOK'  BY <1>2, <1>3, <1>4 DEF ReadingTypeOK, FormOf, UsedOf
<1> QED  BY <1>2, <1>3, <1>4, <1>5, WidgetStays, LooksStay

WorkOf == [doc : Docs, was : Persons, held : SUBSET Persons] \cup {NoWork}

LEMMA MergedType ==
  ASSUME ReadingTypeOK
  PROVE  Merged \in Persons
<1>1. fields \in FormOf /\ draftData \in Persons
  BY WidgetType DEF ReadingTypeOK
<1> QED  BY <1>1 DEF Merged, FormOf, Persons

LEMMA Saving ==
  ASSUME ReadingInv, SavesPerson
  PROVE  ReadingInv'
<1> USE DEF ReadingInv, SavesPerson, uploads
<1>1. Merged \in Persons /\ work \in WorkOf
  BY MergedType DEF ReadingTypeOK, WorkOf
<1>2. work' \in WorkOf
  <2>1. CASE work = NoWork
    <3>1. work' = NoWork  BY <2>1 DEF NoWork
    <3> QED  BY <3>1 DEF WorkOf
  <2>2. CASE work \in [doc : Docs, was : Persons, held : SUBSET Persons]
    <3>1. (IF work.held = {} THEN work.held ELSE work.held \cup {Merged}) \in SUBSET Persons
      BY <2>2, <1>1
    <3>2. work' \in [doc : Docs, was : Persons, held : SUBSET Persons]
      BY <2>2, <3>1
    <3> QED  BY <3>2 DEF WorkOf
  <2> QED  BY <2>1, <2>2, <1>1 DEF WorkOf
<1>3. ReadingTypeOK'  BY <1>1, <1>2 DEF ReadingTypeOK, WorkOf
<1> QED  BY <1>3, WidgetStays, LooksStay

(* A step of the widget alone, on which nothing it has shown depends. *)
LEMMA OnlyTheFlow ==
  ASSUME ReadingInv, UNCHANGED <<uploads, reading, draftData, fields, failed, used>>,
         widget' \in Widget, widget'.info = widget.info, widget'.seen = widget.seen,
         ~Flows("poll"), ~Flows("put"), ~Flows("put")', ~Flows("ask")', ~Flows("poll")', ~Flows("preview")',
         widget'.current \in {widget.current, NoDoc}
  PROVE  ReadingInv'
<1> USE DEF ReadingInv, uploads, reading
<1>1. ReadingTypeOK'  BY DEF ReadingTypeOK, Widget
<1>2. WidgetIsSound'
  <2>1. \A d \in Docs : jobs[d] \in Nat /\ used.triggers \in Nat
    BY WidgetType DEF UsedOf
  <2> QED  BY <2>1 DEF WidgetIsSound, Flows
<1>3. LooksAreSound'  BY <1>1, OnlyPollsLook, NoLooks
<1> QED  BY <1>1, <1>2, <1>3

LEMMA Choosing ==
  ASSUME ReadingInv,
         (\E p \in Papers : Chooses(p)) \/ Proceeds \/ Cancels \/ Retakes
  PROVE  ReadingInv'
<1> USE DEF ReadingInv
<1>0. widget \in Widget  BY WidgetType
<1>1. ASSUME NEW p \in Papers, Chooses(p)  PROVE ReadingInv'
  <2>1. PICK warned \in BOOLEAN :
          widget' = [widget EXCEPT !.photo = p, !.flow = IF warned THEN "alert" ELSE "presign"]
    BY <1>1 DEF Chooses
  <2>2. /\ widget' \in Widget /\ widget'.info = widget.info /\ widget'.current = widget.current
        /\ widget'.seen = widget.seen /\ widget'.flow \in {"alert", "presign"}
    BY <1>0, <2>1 DEF Widget
  <2> QED  BY <1>1, <2>2, OnlyTheFlow DEF Chooses, Flows
<1>2. CASE Proceeds
  BY <1>0, <1>2, FlowMoves, OnlyTheFlow DEF Proceeds, Flows, Goes
<1>3. CASE Cancels
  <2>1. /\ widget' \in Widget /\ widget'.info = widget.info /\ widget'.current = widget.current
        /\ widget'.seen = widget.seen /\ widget'.flow = "idle"
    BY <1>0, <1>3, NoPhotoType DEF Cancels, Widget
  <2> QED  BY <1>3, <2>1, OnlyTheFlow DEF Cancels, Flows
<1>4. CASE Retakes
  <2>1. /\ widget' \in Widget /\ widget'.info = widget.info /\ widget'.current = NoDoc
        /\ widget'.seen = widget.seen /\ widget'.flow = "idle"
    BY <1>0, <1>4 DEF Retakes, Widget, Some
  <2> QED  BY <1>4, <2>1, OnlyTheFlow DEF Retakes, Flows
<1> QED  BY <1>1, <1>2, <1>3, <1>4

LEMMA JobsCount ==
  ASSUME ReadingTypeOK
  PROVE  /\ used.triggers \in 0 .. MaxTriggers
         /\ \A d \in Docs : jobs[d] \in 0 .. MaxTriggers
  BY WidgetType DEF UsedOf

LEMMA Presigning ==
  ASSUME ReadingInv, NEW d \in Docs, Presigns(d)
  PROVE  ReadingInv'
<1> USE DEF ReadingInv, Presigns, reading
<1>1. widget \in Widget  BY WidgetType
<1>2. /\ widget' \in Widget /\ widget'.info = widget.info /\ widget'.current = d
      /\ widget'.flow = "put" /\ widget'.seen = 0
  BY <1>1, NoPhotoType, OnlyPollsLook DEF Widget, Some, Flows
<1>3. rows' \subseteq Docs /\ stored' \subseteq rows' /\ paper' \in [Docs -> Papers]
  BY <1>1, WidgetType DEF Widget
<1>4. ReadingTypeOK'  BY <1>2, <1>3 DEF ReadingTypeOK, Widget
<1>5. WidgetIsSound'  BY <1>2, JobsCount DEF WidgetIsSound, Flows
<1> QED  BY <1>2, <1>4, <1>5, NoLooks

LEMMA Putting ==
  ASSUME ReadingInv, Puts
  PROVE  ReadingInv'
<1> USE DEF ReadingInv, reading
<1>0. /\ widget \in Widget /\ fields \in FormOf /\ used \in UsedOf
      /\ widget.current \in rows /\ widget.current \in Docs /\ widget.flow = "put"
      /\ widget.seen = 0
  BY WidgetType, OnlyPollsLook DEF Puts, Flows, WidgetIsSound
<1>1. PICK arrives \in BOOLEAN, answer \in {"ok", "error", "none"} :
       /\ answer = "ok" => arrives
       /\ stored' = IF arrives THEN stored \cup {widget.current} ELSE stored
       /\ IF answer = "ok" THEN UNCHANGED used ELSE Faulty
       /\ IF answer = "ok"
            THEN /\ widget' = [widget EXCEPT !.flow = "idle", !.info = widget.current]
                 /\ fields' = [fields EXCEPT !.doc = widget.current, !.ok = TRUE]
                 /\ failed' = FALSE
            ELSE /\ Goes("idle")
                 /\ fields' = [fields EXCEPT !.ok = FALSE]
                 /\ failed' = TRUE
  BY DEF Puts, PutWorked
<1>2. UNCHANGED <<paper, rows, reading, draftData>>  BY DEF Puts
<1>3. stored' \subseteq rows' /\ stored \subseteq stored'  BY <1>0, <1>1, <1>2, WidgetType
<1>4. used' \in UsedOf /\ used'.triggers = used.triggers
  BY <1>0, <1>1, FaultyType
<1>5. CASE answer = "ok"
  <2>1. /\ widget' \in Widget /\ widget'.info = widget.current
        /\ widget'.current = widget.current /\ widget'.flow = "idle" /\ widget'.seen = 0
    <3>1. widget.current \in Some  BY <1>0 DEF Some
    <3>2. widget' = [widget EXCEPT !.flow = "idle", !.info = widget.current]  BY <1>1, <1>5
    <3> QED  BY <1>0, <3>1, <3>2 DEF Widget
  <2>2. /\ fields' \in FormOf /\ fields'.doc = widget.current
    BY <1>0, <1>1, <1>5 DEF FormOf, Some
  <2>3. widget.current \in stored' /\ failed' = FALSE  BY <1>1, <1>5
  <2>4. ReadingTypeOK'
    BY <1>2, <1>3, <1>4, <2>1, <2>2, <2>3 DEF ReadingTypeOK, Widget, FormOf, UsedOf
  <2>5. widget.current # NoDoc  BY <1>0
  <2>6. WidgetIsSound'
    BY <1>2, <1>4, <2>1, <2>2, <2>3, <2>5, JobsCount, <1>0 DEF WidgetIsSound, Flows
  <2> QED  BY <2>1, <2>4, <2>6, NoLooks
<1>6. CASE answer # "ok"
  <2>1. /\ widget' \in Widget /\ widget'.info = widget.info
        /\ widget'.current = widget.current /\ widget'.flow = "idle" /\ widget'.seen = 0
    <3>1. widget' = [widget EXCEPT !.flow = "idle"]  BY <1>1, <1>6 DEF Goes
    <3> QED  BY <1>0, <3>1, FlowMoves
  <2>2. fields' \in FormOf /\ fields'.ok = FALSE /\ failed' = TRUE
    BY <1>0, <1>1, <1>6 DEF FormOf
  <2>3. ReadingTypeOK'  BY <1>2, <1>3, <1>4, <2>1, <2>2 DEF ReadingTypeOK, Widget, FormOf, UsedOf
  <2>4. WidgetIsSound'
    BY <1>2, <1>3, <1>4, <2>1, <2>2, JobsCount, <1>0 DEF WidgetIsSound, Flows
  <2> QED  BY <2>1, <2>3, <2>4, NoLooks
<1> QED  BY <1>5, <1>6

LEMMA RequestFailing ==
  ASSUME ReadingInv, RequestFails
  PROVE  ReadingInv'
<1> USE DEF ReadingInv, RequestFails, reading
<1>0. widget \in Widget /\ fields \in FormOf  BY WidgetType
<1>1. /\ widget' \in Widget /\ widget'.info = widget.info
      /\ widget'.current = widget.current /\ widget'.flow = "idle"
      /\ widget'.seen = 0
  BY <1>0, NoPhotoType, NoTries DEF Widget
<1>2. fields' \in FormOf /\ fields'.doc = fields.doc /\ (fields'.ok => fields.ok)
  BY <1>0 DEF FormOf
<1>3. rows' \subseteq Docs /\ rows \subseteq rows'
  BY WidgetType DEF NewDocs
<1>4. used' \in UsedOf /\ used'.triggers = used.triggers  BY FaultyType
<1>5. ReadingTypeOK'  BY <1>1, <1>2, <1>3, <1>4 DEF ReadingTypeOK, Widget, FormOf, UsedOf
<1>6. ~Flows("put")  BY DEF Flows
<1>7. WidgetIsSound'
  BY <1>1, <1>2, <1>3, <1>4, <1>6, JobsCount DEF WidgetIsSound, Flows
<1> QED  BY <1>1, <1>5, <1>7, NoLooks

LEMMA Triggering ==
  ASSUME ReadingInv, Triggers
  PROVE  ReadingInv'
<1> USE DEF ReadingInv, Triggers, reading, uploads
<1>0. widget \in Widget /\ used \in UsedOf  BY WidgetType
<1>1. /\ widget' \in Widget /\ widget'.info = widget.info
      /\ widget'.current = widget.current /\ widget'.flow = "ask"
      /\ widget'.seen = 0
  BY <1>0, FlowMoves, OnlyPollsLook DEF Goes, Flows
<1>2. used' \in UsedOf /\ used'.triggers = used.triggers + 1
  BY <1>0 DEF UsedOf
<1>3. ReadingTypeOK'  BY <1>1, <1>2 DEF ReadingTypeOK, Widget, UsedOf
<1>4. WidgetIsSound'
  BY <1>1, <1>2, JobsCount DEF WidgetIsSound, Flows
<1> QED  BY <1>1, <1>3, <1>4, NoLooks

LEMMA AskingForReadings ==
  ASSUME ReadingInv, AsksForReadings
  PROVE  ReadingInv'
<1> USE DEF ReadingInv, AsksForReadings, uploads
<1>0. widget \in Widget /\ widget.flow = "ask"  BY WidgetType DEF Flows
<1>1. /\ widget' \in Widget /\ widget'.info = widget.info
      /\ widget'.current = widget.current /\ widget'.flow = "poll"
      /\ widget'.seen = 0
  BY <1>0, NoTries, OnlyPollsLook DEF Widget, Flows
<1>2. \A d \in Docs : jobs[d] + 1 <= used.triggers
  BY <1>0 DEF WidgetIsSound, Flows
<1>3. \A d \in Docs : jobs'[d] \in 0 .. MaxTriggers /\ jobs'[d] <= used.triggers
  BY <1>2, JobsCount
<1>4. jobs' \in [Docs -> 0 .. MaxTriggers]
  BY <1>2, JobsCount
<1>5. ReadingTypeOK'  BY <1>1, <1>4 DEF ReadingTypeOK, Widget
<1>6. WidgetIsSound'
  BY <1>0, <1>1, <1>3 DEF WidgetIsSound, Flows
<1> QED  BY <1>1, <1>5, <1>6, NoLooks

(* The latest results are those at the end.                                *)
LEMMA LatestAreLast ==
  ASSUME ReadingTypeOK, NEW i \in 1 .. Len(results), i > Len(results) - Take
  PROVE  results[i] \in LatestResults
<1>1. Len(results) \in Nat /\ Take \in Nat  BY DEF ReadingTypeOK
<1>2. Max({0, Len(results) - Take}) \in {0, Len(results) - Take}
  <2>1. \E x \in {0, Len(results) - Take} : \A y \in {0, Len(results) - Take} : x >= y
    BY <1>1
  <2> QED  BY <2>1 DEF Max
<1>3. i \in Max({0, Len(results) - Take}) + 1 .. Len(results)
  BY <1>1, <1>2
<1> QED  BY <1>3 DEF LatestResults

(* Where none of what the API gives is of the widget's document, what there *)
(* is of it has been crowded out by others.                                *)
LEMMA NotFoundIsCrowdedOut ==
  ASSUME ReadingTypeOK, Found = {}, NEW i \in 1 .. Len(results), results[i].doc = widget.info
  PROVE  Cardinality({ j \in i + 1 .. Len(results) : results[j].doc # widget.info }) >= Take
<1> DEFINE others == { j \in i + 1 .. Len(results) : results[j].doc # widget.info }
           latest == Len(results) - Take + 1 .. Len(results)
<1>0. Len(results) \in Nat /\ Take \in Nat  BY DEF ReadingTypeOK
<1>1. \A j \in latest : j \in 1 .. Len(results) => results[j].doc # widget.info
  <2> SUFFICES ASSUME NEW j \in latest, j \in 1 .. Len(results), results[j].doc = widget.info
               PROVE  FALSE
    OBVIOUS
  <2>1. results[j] \in LatestResults  BY <1>0, LatestAreLast
  <2> QED  BY <2>1 DEF Found
<1>2. i < Len(results) - Take + 1  BY <1>0, <1>1
<1>3. latest \subseteq others
  <2> SUFFICES ASSUME NEW j \in latest  PROVE j \in others
    OBVIOUS
  <2>1. j \in i + 1 .. Len(results) /\ j \in 1 .. Len(results)  BY <1>0, <1>2
  <2>2. results[j].doc # widget.info  BY <1>1, <2>1
  <2> QED  BY <2>1, <2>2
<1>4. IsFiniteSet(others)
  <2>0. i + 1 \in Int /\ Len(results) \in Int  BY <1>0
  <2>1. IsFiniteSet(i + 1 .. Len(results))  BY <2>0, FS_Interval
  <2>2. others \subseteq i + 1 .. Len(results)  OBVIOUS
  <2> QED  BY <2>1, <2>2, FS_Subset
<1>5. Cardinality(latest) = Take
  <2>1. Len(results) - Take + 1 \in Int /\ Len(results) \in Int  BY <1>0
  <2> QED  BY <1>0, <2>1, FS_Interval
<1>6. Cardinality(latest) <= Cardinality(others)
  BY <1>3, <1>4, FS_Subset
<1>7. Cardinality(others) \in Nat  BY <1>4, FS_CardinalityType
<1> QED  BY <1>0, <1>5, <1>6, <1>7

LEMMA Polling ==
  ASSUME ReadingInv, Polls
  PROVE  ReadingInv'
<1> USE DEF ReadingInv, reading, uploads
<1>0. /\ widget \in Widget /\ widget.flow = "poll" /\ widget.info # NoDoc
      /\ widget.tries < Tries
  BY WidgetType DEF Polls, Flows, WidgetIsSound
<1>3. UNCHANGED <<uploads, reading, draftData, fields, failed, used>>  BY DEF Polls
<1>4. Len(results) \in Nat  BY DEF ReadingTypeOK
<1>1. CASE \E d \in Found :
             widget' = [widget EXCEPT !.flow = "preview", !.preview = d, !.tries = 0, !.seen = 0]
  <2>1. widget' = [widget EXCEPT !.flow = "preview", !.preview = widget.info, !.tries = 0,
                                 !.seen = 0]
    BY <1>1 DEF Found
  <2>2. widget.info \in Some  BY <1>0 DEF Widget
  <2>3. /\ widget' \in Widget /\ widget'.info = widget.info /\ widget'.current = widget.current
        /\ widget'.flow = "preview" /\ widget'.preview = widget.info /\ widget'.seen = 0
    BY <1>0, <2>1, <2>2, NoTries DEF Widget
  <2>4. ReadingTypeOK'  BY <1>3, <2>3 DEF ReadingTypeOK, Widget
  <2>5. WidgetIsSound'
    BY <1>0, <1>3, <2>3, JobsCount DEF WidgetIsSound, Flows
  <2> QED  BY <2>3, <2>4, <2>5, NoLooks
<1>2. CASE Found = {} /\ widget' = [widget EXCEPT !.tries = @ + 1, !.seen = Len(results)]
  <2>1. widget.tries + 1 \in 0 .. Tries  BY <1>0, OneMoreTry
  <2>2. /\ widget' \in Widget /\ widget'.info = widget.info /\ widget'.current = widget.current
        /\ widget'.flow = "poll" /\ widget'.seen = Len(results)
    BY <1>0, <1>2, <1>4, <2>1 DEF Widget
  <2>3. ReadingTypeOK'  BY <1>3, <2>2 DEF ReadingTypeOK, Widget
  <2>4. WidgetIsSound'
    BY <1>0, <1>3, <2>2, JobsCount DEF WidgetIsSound, Flows
  <2>5. \A i \in 1 .. Len(results) :
          results[i].doc = widget.info =>
            Cardinality({ j \in i + 1 .. Len(results) : results[j].doc # widget.info }) >= Take
    BY <1>2, NotFoundIsCrowdedOut
  <2>6. LooksAreSound'  BY <1>3, <1>4, <2>2, <2>5 DEF LooksAreSound, Flows
  <2> QED  BY <2>3, <2>4, <2>6
<1> QED  BY <1>1, <1>2 DEF Polls

LEMMA GivingUp ==
  ASSUME ReadingInv, GivesUp
  PROVE  ReadingInv'
<1> USE DEF ReadingInv, GivesUp, reading, uploads
<1>0. widget \in Widget /\ widget.flow = "poll" /\ widget.info # NoDoc
  BY WidgetType DEF Flows, WidgetIsSound
<1>1. /\ widget' \in Widget /\ widget'.info = widget.info /\ widget'.current = widget.current
      /\ widget'.flow = "idle" /\ widget'.seen = 0
  BY <1>0, NoTries DEF Widget
<1>2. ReadingTypeOK'  BY <1>1 DEF ReadingTypeOK, Widget
<1>3. WidgetIsSound'
  BY <1>0, <1>1, JobsCount DEF WidgetIsSound, Flows
<1> QED  BY <1>1, <1>2, <1>3, NoLooks

LEMMA FoundOnType ==
  ASSUME NEW p \in Papers
  PROVE  FoundOn(p) \in Persons
<1>1. p.name \in Names /\ p.cpf \in Cpfs \cup {NoCpf} /\ <<>> \in Names  BY DEF Names
<1> QED  BY <1>1 DEF FoundOn, Nobody, Persons

LEMMA CorrectionsType ==
  ASSUME NEW found \in Persons
  PROVE  Corrections(found) \subseteq Persons
<1>1. found.name \in Names /\ found.cpf \in Cpfs \cup {NoCpf}  BY DEF Persons
<1>2. Typed \subseteq Names /\ <<>> \in Names  BY DEF Names
<1> QED  BY <1>1, <1>2 DEF Corrections, Persons

LEMMA Confirming ==
  ASSUME ReadingInv, Confirms
  PROVE  ReadingInv'
<1> USE DEF ReadingInv
<1>0. /\ widget \in Widget /\ widget.flow = "preview" /\ fields \in FormOf
      /\ widget.preview = widget.info /\ widget.info # NoDoc /\ widget.seen = 0
  BY WidgetType, OnlyPollsLook DEF Confirms, Flows, WidgetIsSound
<1>1. widget.preview \in Docs  BY <1>0 DEF Widget, Some
<1>2. paper[widget.preview] \in Papers  BY <1>1, WidgetType
<1> DEFINE found == FoundOn(paper[widget.preview])
<1>3. PICK told \in Corrections(found) :
        /\ IF told = found THEN UNCHANGED used ELSE Edited
        /\ fields' = [ name |-> IF told.name = <<>> THEN fields.name ELSE told.name,
                       cpf |-> IF told.cpf = NoCpf THEN fields.cpf ELSE told.cpf,
                       doc |-> IF widget.current # NoDoc THEN widget.current ELSE fields.doc,
                       ok |-> TRUE ]
  BY DEF Confirms
<1>4. told \in Persons
  <2>1. found \in Persons  BY <1>2, FoundOnType
  <2> HIDE DEF found
  <2> QED  BY <1>3, <2>1, CorrectionsType
<1>5. /\ fields' \in FormOf
      /\ fields'.doc = IF widget.current # NoDoc THEN widget.current ELSE fields.doc
  <2>1. told.name \in Names /\ told.cpf \in Cpfs \cup {NoCpf}  BY <1>4 DEF Persons
  <2> QED  BY <1>0, <1>3, <2>1 DEF FormOf, Widget
<1>6. /\ widget' \in Widget /\ widget'.info = widget.info /\ widget'.current = widget.current
      /\ widget'.flow = "idle" /\ widget'.seen = 0
  <2>1. widget' = [widget EXCEPT !.flow = "idle", !.preview = NoDoc]  BY DEF Confirms
  <2>2. NoDoc \in Some  BY DEF Some
  <2> QED  BY <1>0, <2>1, <2>2 DEF Widget
<1>7. UNCHANGED <<uploads, reading, draftData, failed>>  BY DEF Confirms
<1>8. used' \in UsedOf /\ used'.triggers = used.triggers  BY <1>3, EditedType, WidgetType
<1>9. ReadingTypeOK'
  BY <1>5, <1>6, <1>7, <1>8 DEF ReadingTypeOK, Widget, FormOf, UsedOf, uploads, reading
<1>10. WidgetIsSound'
  BY <1>0, <1>5, <1>6, <1>7, <1>8, JobsCount DEF WidgetIsSound, Flows, uploads, reading
<1> QED  BY <1>6, <1>9, <1>10, NoLooks

-----------------------------------------------------------------------------
(* The job *)

LEMMA JobStarting ==
  ASSUME ReadingInv, NEW d \in Docs, JobStarts(d)
  PROVE  ReadingInv'
<1> USE DEF ReadingInv, JobStarts, uploads
<1>1. work' \in WorkOf  BY DEF ReadingTypeOK, WorkOf
<1>2. /\ jobs' \in [Docs -> 0 .. MaxTriggers]
      /\ \A e \in Docs : jobs'[e] <= jobs[e] /\ jobs'[e] \in 0 .. MaxTriggers
  BY WidgetType, JobsCount
<1>3. ReadingTypeOK'  BY <1>1, <1>2 DEF ReadingTypeOK, WorkOf
<1>4. WidgetIsSound'
  <2>1. \A e \in Docs : jobs[e] + (IF Flows("ask") THEN 1 ELSE 0) <= used.triggers
    BY DEF WidgetIsSound
  <2>2. \A e \in Docs : jobs'[e] + (IF Flows("ask") THEN 1 ELSE 0) <= used.triggers
    BY <1>2, <2>1, JobsCount
  <2> QED  BY <2>2 DEF WidgetIsSound, Flows
<1> QED  BY <1>3, <1>4, LooksStay

LEMMA ImageReading ==
  ASSUME ReadingInv, ReadsImage
  PROVE  ReadingInv'
<1> USE DEF ReadingInv, ReadsImage, uploads
<1>1. work \in [doc : Docs, was : Persons, held : SUBSET Persons] /\ draftData \in Persons
  BY DEF ReadingTypeOK
<1>2. work' \in WorkOf  BY <1>1 DEF WorkOf
<1>3. ReadingTypeOK'  BY <1>2 DEF ReadingTypeOK, WorkOf
<1> QED  BY <1>3, WidgetStays, LooksStay

LEMMA ReadingType ==
  ASSUME ReadingTypeOK, NEW d \in Docs, NEW data
  PROVE  Reading(d, data) \in Result
<1>1. paper[d].small \in BOOLEAN /\ paper[d].few \in BOOLEAN  BY WidgetType
<1>2. Mismatch(FoundOn(paper[d]), data) \in BOOLEAN
  BY DEF Mismatch, Diverges, CpfDiffers
<1>3. (~paper[d].small /\ Detected(paper[d]) = "CNH") \in BOOLEAN
  BY <1>1
<1> QED  BY <1>1, <1>2, <1>3 DEF Reading, Result

LEMMA Recording ==
  ASSUME ReadingInv, Records
  PROVE  ReadingInv'
<1> USE DEF ReadingInv, uploads
<1>1. work.doc \in Docs  BY DEF Records, ReadingTypeOK, NoWork
<1>2. PICK data \in ComparedWith : results' = Append(results, Reading(work.doc, data))
  BY DEF Records
<1>3. Reading(work.doc, data) \in Result /\ results \in Seq(Result)
  BY <1>1, ReadingType DEF ReadingTypeOK
<1>4. /\ results' \in Seq(Result) /\ Len(results') = Len(results) + 1
      /\ Len(results) \in Nat /\ \A i \in 1 .. Len(results) : results'[i] = results[i]
  BY <1>2, <1>3
<1>5. work' \in WorkOf  BY DEF Records, WorkOf
<1>6. UNCHANGED <<uploads, jobs, vision, draftData, widget, fields, failed, used>>  BY DEF Records
<1>7. ReadingTypeOK'  BY <1>4, <1>5, <1>6 DEF ReadingTypeOK, WorkOf
<1>8. LooksAreSound'
  <2>1. widget.seen \in Nat /\ widget.seen <= Len(results) /\ widget' = widget
    BY <1>6, WidgetType DEF Widget, LooksAreSound
  <2>2. \A i \in 1 .. widget.seen : results'[i] = results[i]
    <3>1. \A i \in 1 .. widget.seen : i \in 1 .. Len(results)  BY <1>4, <2>1
    <3> QED  BY <1>4, <3>1
  <2>3. ASSUME NEW i \in 1 .. widget.seen
        PROVE  { j \in i + 1 .. widget.seen : results'[j].doc # widget.info }
                 = { j \in i + 1 .. widget.seen : results[j].doc # widget.info }
    <3>1. i + 1 .. widget.seen \subseteq 1 .. widget.seen  BY <2>1
    <3> QED  BY <2>2, <3>1
  <2>4. \A i \in 1 .. widget.seen :
          results'[i].doc = widget.info =>
            Cardinality({ j \in i + 1 .. widget.seen : results'[j].doc # widget.info }) >= Take
    BY <2>2, <2>3 DEF LooksAreSound
  <2> QED  BY <1>4, <2>1, <2>4 DEF LooksAreSound, Flows
<1> QED  BY <1>6, <1>7, <1>8, WidgetStays

LEMMA JobFailing ==
  ASSUME ReadingInv, JobFails
  PROVE  ReadingInv'
<1> USE DEF ReadingInv, JobFails, uploads
<1>1. used' \in UsedOf /\ used'.triggers = used.triggers
  BY FaultyType, WidgetType
<1>2. ReadingTypeOK'  BY <1>1 DEF ReadingTypeOK, UsedOf
<1> QED  BY <1>1, <1>2, WidgetStays, LooksStay

-----------------------------------------------------------------------------
LEMMA ReadingInitially == ReadingInit => ReadingInv
<1> SUFFICES ASSUME ReadingInit  PROVE ReadingInv
  OBVIOUS
<1> USE DEF ReadingInit
<1>1. widget \in Widget /\ widget.flow = "idle" /\ widget.info = NoDoc /\ widget.current = NoDoc
      /\ widget.seen = 0
  BY NoPhotoType, NoTries DEF Widget, Some
<1>2. PICK n \in Typed, c \in Cpfs \cup {NoCpf} :
        /\ draftData = [name |-> n, cpf |-> c]
        /\ fields = [name |-> n, cpf |-> c, doc |-> NoDoc, ok |-> FALSE]
  OBVIOUS
<1>3. fields \in FormOf /\ fields.doc = NoDoc /\ fields.ok = FALSE /\ draftData \in Persons
  BY <1>2 DEF FormOf, Names, Persons, Some
<1>4. used \in UsedOf /\ used.triggers = 0
  BY DEF UsedOf
<1>5. jobs \in [Docs -> 0 .. MaxTriggers] /\ \A d \in Docs : jobs[d] = 0
  OBVIOUS
<1>6. ReadingTypeOK
  <2>1. results \in Seq(Result) /\ paper \in [Docs -> Papers] /\ failed \in BOOLEAN
    <3>1. results = <<>>  OBVIOUS
    <3>2. paper = [d \in Docs |-> NoPhoto] /\ failed = FALSE  OBVIOUS
    <3> HIDE DEF ReadingInit
    <3>3. results \in Seq(Result)  BY <3>1
    <3>4. paper \in [Docs -> Papers]  BY <3>2, NoPhotoType
    <3> QED  BY <3>2, <3>3, <3>4
  <2>2. rows \subseteq Docs /\ stored \subseteq rows /\ work = NoWork /\ vision \in BOOLEAN
    OBVIOUS
  <2> HIDE DEF ReadingInit
  <2> QED  BY <1>1, <1>3, <1>4, <1>5, <2>1, <2>2 DEF ReadingTypeOK, Widget, FormOf, UsedOf
<1>7. WidgetIsSound
  BY <1>1, <1>3, <1>4, <1>5 DEF WidgetIsSound, Flows
<1>8. results = <<>>  OBVIOUS
<1>9. LooksAreSound  BY <1>1, <1>8 DEF LooksAreSound
<1> QED  BY <1>6, <1>7, <1>9 DEF ReadingInv

LEMMA ReadingStepKeepsIt == ReadingInv /\ [ReadingNext]_readingVars => ReadingInv'
<1> SUFFICES ASSUME ReadingInv, [ReadingNext]_readingVars  PROVE ReadingInv'
  OBVIOUS
<1>1. CASE UNCHANGED readingVars
  <2>1. ReadingTypeOK'  BY <1>1 DEF ReadingInv, ReadingTypeOK, readingVars
  <2>2. WidgetIsSound'  BY <1>1, WidgetStays DEF ReadingInv, readingVars
  <2>3. LooksAreSound'  BY <1>1, LooksStay DEF ReadingInv, readingVars
  <2> QED  BY <2>1, <2>2, <2>3 DEF ReadingInv
<1>2. NewDocs \subseteq Docs  BY DEF NewDocs
<1> QED
  BY <1>1, <1>2, Typing, Saving, Choosing, Presigning, Putting, RequestFailing, Triggering,
     AskingForReadings, Polling, GivingUp, Confirming, JobStarting, ImageReading, Recording, JobFailing
  DEF ReadingNext, Own

(* A document shown as uploaded is in the storage: it is the one that the  *)
(* last upload that worked put there.                                      *)
LEMMA ShownFollowsFromWidget == ReadingInv => ShownIsStored
  BY DEF ReadingInv, WidgetIsSound, ShownIsStored

(* What a step changes of the form during a preview is its name, or what is *)
(* confirmed of the document that the form has.                            *)
LEMMA ConfirmsOfShown ==
  ASSUME ReadingInv, ReadingNext, Flows("preview"), fields' # fields
  PROVE  failed \/ widget.preview = fields'.doc
<1>0. /\ widget.preview = widget.info
      /\ ~failed => fields.doc = widget.info /\ widget.current \in {widget.info, NoDoc}
      /\ fields \in FormOf
  BY WidgetType DEF ReadingInv, WidgetIsSound, Flows
<1>1. ASSUME Types  PROVE fields'.doc = fields.doc
  BY <1>0, <1>1 DEF Types, FormOf
<1>2. ASSUME Confirms
      PROVE  fields'.doc = IF widget.current # NoDoc THEN widget.current ELSE fields.doc
  BY <1>2 DEF Confirms
<1>3. Types \/ Confirms
  BY DEF ReadingNext, Own, SavesPerson, Proceeds, Cancels, Presigns, Puts, RequestFails,
         AsksForReadings, Polls, GivesUp, Triggers, Retakes, ReadsImage, Records, JobFails, Chooses, JobStarts, Flows
<1> QED  BY <1>0, <1>1, <1>2, <1>3

-----------------------------------------------------------------------------
(* Both, as the form has them *)

LEMMA EitherMoves ==
  ASSUME [FieldsNext]_fieldsVars
  PROVE  [ReadingNext]_readingVars /\ [AddressNext]_addressVars
<1>1. CASE UNCHANGED fieldsVars
  BY <1>1 DEF fieldsVars
<1>2. CASE FieldsNext
  BY <1>2 DEF FieldsNext
<1> QED  BY <1>1, <1>2

LEMMA BothAreSound == FieldsSpec => [](ReadingInv /\ AddressInv)
<1>1. FieldsInit => ReadingInv /\ AddressInv
  BY ReadingInitially, AddressInitially DEF FieldsInit
<1>2. ReadingInv /\ AddressInv /\ [FieldsNext]_fieldsVars => (ReadingInv /\ AddressInv)'
  BY EitherMoves, ReadingStepKeepsIt, AddressStepKeepsIt
<1> QED  BY <1>1, <1>2, PTL DEF FieldsSpec

(* Whatever the order in which photographs are uploaded, read and          *)
(* confirmed, and CEPs typed, looked up and saved: every variable keeps    *)
(* its type, a document shown as uploaded is in the storage unless an      *)
(* upload failed since the last that worked, and the form knows what of    *)
(* its address is not saved, but for the cases the property names.         *)
THEOREM FieldsAreSafe == FieldsSpec => []FieldsInv
<1>1. ReadingInv /\ AddressInv => FieldsInv
  BY ShownFollowsFromWidget DEF FieldsInv, ReadingInv, AddressInv
<1> QED  BY <1>1, BothAreSound, PTL

(* On the screen, in the draft and in the proposal, a street goes with the *)
(* CEP beside it, or was typed, or was built with a lookup under way or    *)
(* failed (useViaCepAutofill, syncDraft, mergeDraftData, submitProposal).  *)
THEOREM AddressGoesWithItsCep == FieldsSpec => []AddressIsOfItsCep
<1>1. AddressInv => AddressIsOfItsCep
  BY DEF AddressInv
<1> QED  BY <1>1, BothAreSound, PTL

(* The candidate confirms what was read from the document that the form    *)
(* then shows, unless an upload has failed since the last that worked      *)
(* (handleOcrConfirm).                                                     *)
THEOREM ConfirmedWasShown == FieldsSpec => ConfirmedIsOfShown
<1>1. ReadingInv /\ [FieldsNext]_fieldsVars
        => [(Flows("preview") /\ fields' # fields)
              => (failed \/ widget.preview = fields'.doc)]_readingVars
  <2> SUFFICES ASSUME ReadingInv, ReadingNext, Flows("preview"), fields' # fields
               PROVE  failed \/ widget.preview = fields'.doc
    BY EitherMoves DEF readingVars
  <2> QED  BY ConfirmsOfShown
<1> QED  BY <1>1, BothAreSound, PTL DEF FieldsSpec, ConfirmedIsOfShown

(* The widget gives up on a document of which a reading was stored before  *)
(* its last look only where later readings of other documents had taken up *)
(* all that the API gives, or a request failed (pollDraftOcr, getDraftOcr). *)
THEOREM ReadingsAreFound == FieldsSpec => ReadingIsFound
<1>1. ReadingInv => LooksAreSound
  BY DEF ReadingInv
<1> QED  BY <1>1, BothAreSound, PTL DEF LooksAreSound, ReadingIsFound

-----------------------------------------------------------------------------
(* The form and its drafts *)

USE BoundsAssumption, NamesAssumption

(* The inductive invariant of the form and its drafts.                     *)
FormSound == FormInv /\ AcceptedIsNotOlder

Kept == [form : Form, meta : MaybeDraft, pos : {"fill", "past"}]

(* What the other calls do while one moves: they go on, and perhaps nobody *)
(* waits for them any more, or are forgotten.                              *)
Same(o) ==
  /\ calls'[o].kind = calls[o].kind /\ calls'[o].step = calls[o].step
  /\ calls'[o].d = calls[o].d /\ calls'[o].name = calls[o].name
  /\ calls'[o].net = calls[o].net /\ calls'[o].base = calls[o].base
  /\ calls'[o].saved = calls[o].saved
  /\ calls'[o].heard => calls[o].heard
Rests(o) == calls'[o] = Idle \/ Same(o)

(* The rows after a step.                                                  *)
LiveNext(d) == d \in Drafts /\ row'[d].state = "live"

(* What the API does to the rows for call c.                               *)
RowGoes(c) ==
  /\ row' \in [Drafts -> [state : {"none", "live", "gone"}, data : Data]]
  /\ \A d \in Drafts :
       /\ row[d].state # "none" => row'[d].state # "none"
       /\ LiveNext(d) => Live(d) \/ row[d].state = "none"
       /\ Live(d) /\ LiveNext(d) =>
            \/ row'[d].data.name = row[d].data.name
            \/ /\ calls[c].step = "write" /\ calls[c].d = d
               /\ row'[d].data.name = NextData(calls[c]).name

ApiGoes(c) ==
  /\ RowGoes(c)
  /\ files' \subseteq Drafts
  /\ accepted' \subseteq [name : Name, shown : Name, saved : BOOLEAN]
  /\ AcceptedIsNotOlder'

-----------------------------------------------------------------------------
(* Types and fields *)

LEMMA FormTypes ==
  ASSUME TypeOK
  PROVE  /\ calls \in [Calls -> Call]
         /\ form \in Form /\ kept \in Kept
         /\ row \in [Drafts -> [state : {"none", "live", "gone"}, data : Data]]
         /\ meta \in MaybeDraft /\ moves \in Name
  BY DEF TypeOK, Kept

LEMMA IdleIs ==
  /\ Idle \in Call /\ IsSound(Idle)
  /\ Idle.kind = "none" /\ Idle.step = "idle" /\ Idle.d = NoDraft /\ Idle.name = 0
  /\ Idle.heard = FALSE /\ Idle.saved = FALSE
<1>1. 0 \in Name /\ NoData \in Data /\ NoDraft \in MaybeDraft
  BY DEF Name, NoData, Data, NetList, MaybeDraft
<1> QED  BY <1>1 DEF Idle, Call, IsSound

LEMMA BlankIs ==
  /\ defaultForm \in Form /\ defaultForm.name = 0
  /\ defaultForm.up = NoDraft /\ defaultForm.letter = NoDraft
  /\ NothingKept \in Kept /\ NothingKept.form = defaultForm /\ NothingKept.meta = NoDraft
<1>1. 0 \in Name /\ NoDraft \in MaybeDraft
  BY DEF Name, MaybeDraft
<1>2. defaultForm \in Form  BY <1>1 DEF defaultForm, Form
<1> QED  BY <1>1, <1>2 DEF defaultForm, NothingKept, Kept

LEMMA FieldsOfForm ==
  ASSUME NEW f \in Form
  PROVE  /\ f.name \in Name /\ f.nets \in SUBSET Nets
         /\ f.up \in MaybeDraft /\ f.letter \in MaybeDraft
         /\ \A x \in Name : [f EXCEPT !.name = x] \in Form
                            /\ [f EXCEPT !.name = x].name = x
                            /\ [f EXCEPT !.name = x].up = f.up
                            /\ [f EXCEPT !.name = x].letter = f.letter
         /\ \A x \in MaybeDraft : [f EXCEPT !.up = x] \in Form
                            /\ [f EXCEPT !.up = x].name = f.name
                            /\ [f EXCEPT !.up = x].up = x
                            /\ [f EXCEPT !.up = x].letter = f.letter
         /\ \A x \in MaybeDraft : [f EXCEPT !.letter = x] \in Form
                            /\ [f EXCEPT !.letter = x].name = f.name
                            /\ [f EXCEPT !.letter = x].up = f.up
                            /\ [f EXCEPT !.letter = x].letter = x
         /\ \A x \in SUBSET Nets : [f EXCEPT !.nets = x] \in Form
                            /\ [f EXCEPT !.nets = x].name = f.name
                            /\ [f EXCEPT !.nets = x].up = f.up
                            /\ [f EXCEPT !.nets = x].letter = f.letter
  BY DEF Form

LEMMA FieldsOfCall ==
  ASSUME NEW k \in Call
  PROVE  /\ k.d \in MaybeDraft /\ k.name \in Name /\ k.nets \in SUBSET Nets
         /\ k.base \in Data /\ k.base.name \in Name /\ k.base.nets \in NetList
         /\ k.heard \in BOOLEAN /\ k.saved \in BOOLEAN
<1>1. k.d \in MaybeDraft /\ k.name \in Name /\ k.nets \in SUBSET Nets
      /\ k.base \in Data /\ k.heard \in BOOLEAN /\ k.saved \in BOOLEAN
  BY DEF Call
<1> QED  BY <1>1 DEF Data

LEMMA NameIs == Name \subseteq Nat /\ 0 \in Name /\ MaxMoves \in Nat
  BY DEF Name

(* One call moves, the others stay. *)
LEMMA PutGives ==
  ASSUME calls \in [Calls -> Call], NEW c \in Calls, NEW k \in Call, Put(c, k)
  PROVE  /\ calls' \in [Calls -> Call] /\ calls'[c] = k
         /\ \A o \in Calls \ {c} : calls'[o] = calls[o] /\ Rests(o)
<1>1. calls' = [calls EXCEPT ![c] = k]  BY DEF Put
<1>2. calls' \in [Calls -> Call] /\ calls'[c] = k /\ \A o \in Calls \ {c} : calls'[o] = calls[o]
  BY <1>1
<1> QED  BY <1>2 DEF Rests, Same

LEMMA EndsGives ==
  ASSUME calls \in [Calls -> Call], NEW c \in Calls, Ends(c)
  PROVE  /\ calls' \in [Calls -> Call] /\ calls'[c] = Idle
         /\ \A o \in Calls : Rests(o)
         /\ \A o \in Calls \ {c} : calls'[o] = calls[o]
  BY PutGives, IdleIs DEF Ends, Rests

LEMMA UnheardIs ==
  ASSUME calls \in [Calls -> Call]
  PROVE  /\ Unheard \in [Calls -> Call]
         /\ \A o \in Calls : /\ ~Unheard[o].heard
                             /\ calls'[o] = Unheard[o] => Rests(o)
<1>1. \A o \in Calls : Unheard[o] = IF calls[o].step = "answer" THEN Idle
                                    ELSE [calls[o] EXCEPT !.heard = FALSE]
  BY DEF Unheard
<1>2. \A o \in Calls : Unheard[o] \in Call
  <2> SUFFICES ASSUME NEW o \in Calls  PROVE Unheard[o] \in Call
    OBVIOUS
  <2>1. [calls[o] EXCEPT !.heard = FALSE] \in Call
    <3>1. calls[o] \in Call  OBVIOUS
    <3> QED  BY <3>1 DEF Call
  <2> QED  BY <1>1, <2>1, IdleIs
<1>3. Unheard \in [Calls -> Call]
  BY <1>2 DEF Unheard
<1>4. ASSUME NEW o \in Calls
      PROVE  ~Unheard[o].heard /\ (calls'[o] = Unheard[o] => Rests(o))
  <2>1. CASE calls[o].step = "answer"
    BY <2>1, <1>1, IdleIs DEF Rests
  <2>2. CASE calls[o].step # "answer"
    <3>1. Unheard[o] = [calls[o] EXCEPT !.heard = FALSE]  BY <1>1, <2>2
    <3>2. calls[o] \in Call  OBVIOUS
    <3>3. /\ Unheard[o].kind = calls[o].kind /\ Unheard[o].step = calls[o].step
          /\ Unheard[o].d = calls[o].d /\ Unheard[o].name = calls[o].name
          /\ Unheard[o].net = calls[o].net /\ Unheard[o].base = calls[o].base
          /\ Unheard[o].saved = calls[o].saved /\ Unheard[o].heard = FALSE
      BY <3>1, <3>2 DEF Call
    <3> QED  BY <3>3 DEF Rests, Same
  <2> QED  BY <2>1, <2>2
<1> QED  BY <1>3, <1>4

-----------------------------------------------------------------------------
(* What keeps each part of the invariant *)

LEMMA CallsStay ==
  ASSUME CallsAreSound, \A o \in Calls : Rests(o) \/ IsSound(calls'[o])
  PROVE  CallsAreSound'
<1> SUFFICES ASSUME NEW o \in Calls PROVE IsSound(calls'[o])
  BY DEF CallsAreSound, IsSound
<1>1. CASE calls'[o] = Idle  BY <1>1, IdleIs
<1>2. CASE Same(o)
  BY <1>2 DEF Same, IsSound, CallsAreSound
<1> QED  BY <1>1, <1>2 DEF Rests

LEMMA PagesStay ==
  ASSUME PagesAreSound, page' = page,
         page = "open" => kept' = kept,
         page # "open" => UNCHANGED <<form, meta>>,
         \A o \in Calls : \/ Rests(o)
                          \/ calls'[o].heard =>
                               \/ calls[o].heard /\ calls'[o].kind = calls[o].kind
                               \/ page = "open" /\ calls'[o].kind # "callback"
  PROVE  PagesAreSound'
<1>1. ASSUME NEW o \in Calls, calls'[o].heard
      PROVE  \/ calls[o].heard /\ calls'[o].kind = calls[o].kind
             \/ page = "open" /\ calls'[o].kind # "callback"
  BY <1>1, IdleIs DEF Rests, Same
<1>2. (IF page = "open" THEN kept = NothingKept ELSE form = defaultForm /\ meta = NoDraft)'
  BY DEF PagesAreSound
<1>3. ASSUME NEW o \in Calls, calls'[o].heard
      PROVE  page' # "prompt" /\ (page' = "away" <=> calls'[o].kind = "callback")
  BY <1>1, <1>3 DEF PagesAreSound
<1>4. ASSUME NEW o \in Calls, calls'[o].heard, page' = "away", NEW p \in Calls, calls'[p].heard
      PROVE  p = o
  BY <1>1, <1>4 DEF PagesAreSound
<1> QED  BY <1>2, <1>3, <1>4 DEF PagesAreSound

LEMMA DraftsStay ==
  ASSUME DraftsAreMade, NEW c, RowGoes(c), NEW new,
         new \in Drafts => row'[new].state # "none",
         {form'.up, form'.letter, kept'.form.up, kept'.form.letter, meta', kept'.meta}
           \subseteq KnownDrafts \cup {NoDraft, new},
         \A o \in Calls : Rests(o) \/ calls'[o].d \in KnownDrafts \cup {NoDraft, new}
  PROVE  DraftsAreMade'
<1>1. \A o \in Calls : calls'[o].d \in KnownDrafts \cup {NoDraft, new}
  BY IdleIs DEF Rests, Same, KnownDrafts
<1>2. KnownDrafts' \subseteq KnownDrafts \cup {NoDraft, new}
  BY <1>1 DEF KnownDrafts
<1> QED  BY <1>2 DEF DraftsAreMade, RowGoes

LEMMA ItsAreKnown == ItsDrafts \subseteq KnownDrafts
  BY DEF ItsDrafts, KnownDrafts, ItsForm

LEMMA OneDraftStays ==
  ASSUME DraftsAreMade, TabHasOneDraft, NEW c, RowGoes(c),
         crossed => crossed',
         ItsMeta' = ItsMeta,
         meta' = meta \/ \A o \in Calls : ~Asking(o)',
         {ItsForm'.up, ItsForm'.letter} \subseteq ItsDrafts \cup {NoDraft, ItsMeta},
         \A o \in Calls : \/ Rests(o)
                          \/ /\ ~Asking(o)'
                             /\ calls'[o].heard =>
                                  calls'[o].d \in ItsDrafts \cup {NoDraft, ItsMeta}
  PROVE  TabHasOneDraft'
<1> SUFFICES ASSUME ~crossed'  PROVE TabHasOneDraft'
  BY DEF TabHasOneDraft
<1>1. ASSUME NEW o \in Calls, Asking(o)'
      PROVE  Asking(o) /\ calls'[o].kind = calls[o].kind
  BY <1>1, IdleIs DEF Rests, Same, Asking
<1>2. ASSUME NEW o \in Calls, Asking(o)'
      PROVE  meta' = NoDraft /\ calls'[o].kind # "submit" /\ \A p \in Calls : Asking(p)' => p = o
  BY <1>1, <1>2 DEF TabHasOneDraft
<1>3. ASSUME NEW o \in Calls, calls'[o].heard
      PROVE  calls'[o].d \in ItsDrafts \cup {NoDraft, ItsMeta}
  BY <1>3, IdleIs DEF Rests, Same, ItsDrafts
<1>4. ItsDrafts' \subseteq ItsDrafts \cup {NoDraft, ItsMeta}
  BY <1>3 DEF ItsDrafts
<1>5. ASSUME NEW d \in ItsDrafts', d # ItsMeta  PROVE ~LiveNext(d)
  <2>1. CASE d = NoDraft  BY <2>1 DEF LiveNext
  <2>2. CASE d \in ItsDrafts
    <3>1. ~Live(d)  BY <2>2, <1>5 DEF TabHasOneDraft
    <3>2. d \in Drafts => row[d].state # "none"  BY <2>2, ItsAreKnown DEF DraftsAreMade
    <3> QED  BY <3>1, <3>2 DEF RowGoes, Live, LiveNext
  <2> QED  BY <1>4, <1>5, <2>1, <2>2
<1> QED  BY <1>2, <1>5 DEF TabHasOneDraft, Live, LiveNext

LEMMA ShownFollowsFromOne ==
  ASSUME TabHasOneDraft  PROVE ShownUploadIsOfDraft
  BY DEF TabHasOneDraft, ShownUploadIsOfDraft, ItsDrafts, ItsForm, ItsMeta

LEMMA TextsStay ==
  ASSUME TypeOK, TextsAreNewer, moves' \in Name, moves' >= moves,
         calls' \in [Calls -> Call],
         \A t \in {form'.name, kept'.form.name} :
           \/ t \in {0, form.name, kept.form.name}
           \/ t = moves + 1 /\ moves' = moves + 1,
         \A o \in Calls : \/ Rests(o)
                          \/ calls'[o].name \in {0, calls[o].name}
                          \/ /\ calls'[o].name = form.name
                             /\ {form'.name, kept'.form.name} \subseteq {0, form.name}
  PROVE  TextsAreNewer'
<1>1. /\ moves \in Nat /\ moves' \in Nat
      /\ form.name \in Nat /\ kept.form.name \in Nat
      /\ \A o \in Calls : calls[o].name \in Nat /\ calls'[o].name \in Nat
  <2>1. \A o \in Calls : calls[o] \in Call /\ calls'[o] \in Call  BY FormTypes
  <2>2. kept.form \in Form  BY FormTypes DEF Kept
  <2> QED  BY <2>1, <2>2, FormTypes, FieldsOfForm, FieldsOfCall, NameIs
<1> SUFFICES ASSUME NEW t \in {form'.name, kept'.form.name}
             PROVE  t <= moves' /\ \A o \in Calls : calls'[o].name <= moves'
                                                    /\ (t = 0 \/ calls'[o].name <= t)
  BY DEF TextsAreNewer
<1>2. form.name <= moves /\ kept.form.name <= moves
  BY DEF TextsAreNewer
<1>3. t <= moves'
  BY <1>1, <1>2
<1>4. ASSUME NEW o \in Calls
      PROVE  calls'[o].name <= moves' /\ (t = 0 \/ calls'[o].name <= t)
  <2>1. \/ calls'[o].name = 0 \/ calls'[o].name = calls[o].name
        \/ calls'[o].name = form.name /\ t \in {0, form.name}
    BY IdleIs DEF Rests, Same
  <2>2. calls[o].name <= moves  BY DEF TextsAreNewer
  <2>3. \A u \in {form.name, kept.form.name} : u = 0 \/ calls[o].name <= u
    BY DEF TextsAreNewer
  <2>4. CASE calls'[o].name = 0  BY <2>4, <1>1, <1>2
  <2>5. CASE calls'[o].name = calls[o].name
    BY <2>5, <2>2, <2>3, <1>1, <1>2
  <2>6. CASE calls'[o].name = form.name /\ t \in {0, form.name}
    BY <2>6, <1>1, <1>2
  <2> QED  BY <2>1, <2>4, <2>5, <2>6
<1> QED  BY <1>3, <1>4

LEMMA NextName ==
  ASSUME NEW k \in Call, k.kind # "callback" \/ k.net \in Nets
  PROVE  /\ NextData(k) \in Data
         /\ \/ NextData(k).name = k.base.name
            \/ k.name # 0 /\ NextData(k).name = k.name
<1>1. k.base \in Data /\ k.name \in Name /\ k.base.name \in Name /\ k.base.nets \in NetList
  BY FieldsOfCall
<1>2. Listed(k.base.nets) \in SUBSET Nets
  BY <1>1 DEF Listed, NetList
<1>3. CASE k.kind = "callback"
  <2>1. Listed(k.base.nets) \cup {k.net} \in NetList  BY <1>2, <1>3 DEF NetList
  <2>2. NextData(k) = [k.base EXCEPT !.nets = Listed(k.base.nets) \cup {k.net}]
    BY <1>3 DEF NextData, WithNet
  <2> QED  BY <1>1, <2>1, <2>2 DEF Data
<1>4. CASE k.kind = "disconnect"
  <2>1. Listed(k.base.nets) \ {k.net} \in NetList  BY <1>2 DEF NetList
  <2>2. NextData(k) = [k.base EXCEPT !.nets = Listed(k.base.nets) \ {k.net}]
    BY <1>4 DEF NextData, WithoutNet
  <2> QED  BY <1>1, <2>1, <2>2 DEF Data
<1>5. CASE k.kind \notin {"callback", "disconnect"}
  <2>1. NextData(k) = IF k.name = 0 THEN k.base ELSE [k.base EXCEPT !.name = k.name]
    BY <1>5 DEF NextData, MergedData
  <2> QED  BY <1>1, <2>1 DEF Data
<1> QED  BY <1>3, <1>4, <1>5

(* Where c is the call that moves.                                         *)
LEMMA SavedIsKept ==
  ASSUME FormSound, NEW c \in Calls, RowGoes(c), calls' \in [Calls -> Call],
         \A o \in Calls \ {c} : Rests(o),
         \/ Rests(c)
         \/ LET k == calls'[c] IN
              /\ k.step \in {"read", "write"} =>
                   \/ k.name = 0
                   \/ \A s \in Calls : calls[s].name <= k.name
                   \/ calls[c].step = "read" /\ k.d = calls[c].d /\ k.name = calls[c].name
              /\ k.step = "write" => k.base = DataOf(k.d) /\ UNCHANGED row
              /\ k.saved =>
                   /\ k.step = "create" => k.base.name >= k.name
                   /\ k.step = "propose" /\ LiveNext(k.d) =>
                        /\ row'[k.d].data.name >= k.name
                        /\ \A o \in Calls \ {c} : calls[o].d = k.d =>
                             calls[o].step \notin {"read", "write"}
  PROVE  SavedTextStays'
<1>1. /\ \A o \in Calls : calls[o] \in Call /\ calls'[o] \in Call
      /\ \A o \in Calls : calls[o].name \in Nat /\ calls'[o].name \in Nat
                          /\ calls[o].base.name \in Nat /\ calls'[o].base.name \in Nat
  BY FormTypes, FieldsOfCall, NameIs DEF FormSound, FormInv
<1>2. \A d \in Drafts : row[d].data.name \in Nat /\ row'[d].data.name \in Nat
  <2>1. \A d \in Drafts : row[d].data \in Data /\ row'[d].data \in Data
    BY FormTypes DEF FormSound, FormInv, RowGoes
  <2> QED  BY <2>1, NameIs DEF Data
<1>3. ASSUME NEW s \in Calls, Same(s), calls'[s].saved, calls'[s].step = "propose",
             LiveNext(calls'[s].d)
      PROVE  /\ Live(calls[s].d) /\ calls[s].saved /\ calls[s].step = "propose"
             /\ calls[s].d \in Drafts
             /\ row[calls[s].d].data.name >= calls[s].name
             /\ \A o \in Calls :
                  calls[o].d = calls[s].d /\ calls[o].step \in {"read", "write"} =>
                    /\ calls[o].name = 0 \/ calls[o].name >= calls[s].name
                    /\ calls[o].step = "write" => calls[o].base.name >= calls[s].name
  <2>1. calls[s].saved /\ calls[s].step = "propose" /\ LiveNext(calls[s].d)
    BY <1>3 DEF Same
  <2>2. calls[s].d \in KnownDrafts  BY DEF KnownDrafts
  <2>3. calls[s].d \in Drafts  BY <2>1 DEF LiveNext
  <2>4. row[calls[s].d].state # "none"  BY <2>2, <2>3 DEF DraftsAreMade, FormSound, FormInv
  <2>5. Live(calls[s].d)  BY <2>1, <2>3, <2>4 DEF RowGoes, Live, LiveNext
  <2> QED  BY <2>1, <2>3, <2>5 DEF SavedTextStays, FormSound, FormInv, DataOf
<1>4. ASSUME NEW s \in Calls, Same(s), calls'[s].saved, calls'[s].step = "propose",
             LiveNext(calls'[s].d)
      PROVE  row'[calls'[s].d].data.name >= calls'[s].name
  <2> DEFINE d == calls[s].d
  <2>1. calls'[s].d = d /\ calls'[s].name = calls[s].name  BY <1>4 DEF Same
  <2>2. d \in Drafts /\ Live(d) /\ row[d].data.name >= calls[s].name  BY <1>3, <1>4
  <2>3. CASE row'[d].data.name = row[d].data.name
    BY <2>1, <2>2, <2>3
  <2>4. CASE /\ calls[c].step = "write" /\ calls[c].d = d
             /\ row'[d].data.name = NextData(calls[c]).name
    <3>1. /\ calls[c].name = 0 \/ calls[c].name >= calls[s].name
          /\ calls[c].base.name >= calls[s].name
      BY <1>3, <1>4, <2>4
    <3>2. calls[c].kind # "callback" \/ calls[c].net \in Nets
      BY DEF FormSound, FormInv, CallsAreSound, IsSound
    <3>3. \/ NextData(calls[c]).name = calls[c].base.name
          \/ calls[c].name # 0 /\ NextData(calls[c]).name = calls[c].name
      BY <1>1, <3>2, NextName
    <3> QED  BY <2>1, <2>4, <3>1, <3>3
  <2>5. LiveNext(d)  BY <1>4, <2>1
  <2> QED  BY <2>2, <2>3, <2>4, <2>5 DEF RowGoes
<1>5. ASSUME NEW s \in Calls, Same(s), calls'[s].saved, calls'[s].step = "propose",
             LiveNext(calls'[s].d),
             NEW o \in Calls, calls'[o].d = calls'[s].d, calls'[o].step \in {"read", "write"}
      PROVE  /\ calls'[o].name = 0 \/ calls'[o].name >= calls'[s].name
             /\ calls'[o].step = "write" => calls'[o].base.name >= calls'[s].name
  <2>1. calls'[s].d = calls[s].d /\ calls'[s].name = calls[s].name  BY <1>5 DEF Same
  <2>2. calls'[o] # Idle  BY <1>5, IdleIs
  <2>3. CASE Same(o)
    BY <1>3, <1>5, <2>1, <2>3 DEF Same
  <2>4. CASE ~Rests(o)
    <3>1. o = c  BY <2>4
    <3>2. \/ calls'[c].name = 0
          \/ calls[s].name <= calls'[c].name
          \/ calls[c].step = "read" /\ calls'[c].d = calls[c].d /\ calls'[c].name = calls[c].name
      BY <1>5, <2>4, <3>1
    <3>3. calls'[c].name = 0 \/ calls'[c].name >= calls'[s].name
      <4>1. CASE calls[c].step = "read" /\ calls'[c].d = calls[c].d
                 /\ calls'[c].name = calls[c].name
        BY <1>3, <1>5, <2>1, <3>1, <4>1
      <4> QED  BY <1>1, <2>1, <3>2, <4>1
    <3>4. ASSUME calls'[c].step = "write"  PROVE calls'[c].base.name >= calls'[s].name
      <4>1. calls'[c].base = DataOf(calls'[c].d)  BY <2>4, <3>1, <3>4
      <4>2. calls'[c].d = calls[s].d  BY <1>5, <2>1, <3>1
      <4>3. row[calls[s].d].data.name >= calls[s].name /\ calls[s].d \in Drafts  BY <1>3, <1>5
      <4> QED  BY <2>1, <4>1, <4>2, <4>3 DEF DataOf
    <3> QED  BY <3>1, <3>3, <3>4
  <2> QED  BY <2>2, <2>3, <2>4 DEF Rests
<1>6. ASSUME NEW s \in Calls, Same(s), calls'[s].saved, calls'[s].step = "create"
      PROVE  calls'[s].base.name >= calls'[s].name
  BY <1>6 DEF Same, SavedTextStays, FormSound, FormInv
<1>7. ASSUME NEW s \in Calls, calls'[s].saved, ~Rests(s), calls'[s].step = "propose",
             LiveNext(calls'[s].d)
      PROVE  /\ row'[calls'[s].d].data.name >= calls'[s].name
             /\ \A o \in Calls : calls'[o].d = calls'[s].d =>
                                   calls'[o].step \notin {"read", "write"}
  <2>1. s = c  BY <1>7
  <2>2. /\ row'[calls'[c].d].data.name >= calls'[c].name
        /\ \A o \in Calls \ {c} : calls[o].d = calls'[c].d =>
                                    calls[o].step \notin {"read", "write"}
    BY <1>7, <2>1
  <2>3. ASSUME NEW o \in Calls \ {c}, calls'[o].d = calls'[c].d
        PROVE  calls'[o].step \notin {"read", "write"}
    BY <2>2, <2>3, IdleIs DEF Rests, Same
  <2> QED  BY <1>7, <2>1, <2>2, <2>3
<1>8. ASSUME NEW s \in Calls, calls'[s].saved, ~Rests(s), calls'[s].step = "create"
      PROVE  calls'[s].base.name >= calls'[s].name
  BY <1>8
<1> SUFFICES ASSUME NEW s \in Calls, calls'[s].saved
    PROVE /\ calls'[s].step = "create" => calls'[s].base.name >= calls'[s].name
          /\ calls'[s].step = "propose" /\ LiveNext(calls'[s].d) =>
               /\ row'[calls'[s].d].data.name >= calls'[s].name
               /\ \A o \in Calls :
                    calls'[o].d = calls'[s].d /\ calls'[o].step \in {"read", "write"} =>
                      /\ calls'[o].name = 0 \/ calls'[o].name >= calls'[s].name
                      /\ calls'[o].step = "write" => calls'[o].base.name >= calls'[s].name
  BY DEF SavedTextStays, DataOf, Live, LiveNext
<1>9. calls'[s] # Idle  BY IdleIs
<1>10. CASE Same(s)  BY <1>10, <1>4, <1>5, <1>6
<1>11. CASE ~Rests(s)  BY <1>11, <1>7, <1>8
<1> QED  BY <1>9, <1>10, <1>11 DEF Rests

-----------------------------------------------------------------------------
(* The API *)

LEMMA NoRowMoves ==
  ASSUME FormSound, UNCHANGED row
  PROVE  \A c : RowGoes(c)
  BY FormTypes DEF FormSound, FormInv, RowGoes, Live, LiveNext

LEMMA NothingAtApi ==
  ASSUME FormSound, UNCHANGED api
  PROVE  \A c : ApiGoes(c)
<1>1. UNCHANGED <<row, files, accepted>>  BY DEF api
<1>2. TypeOK /\ AcceptedIsNotOlder  BY DEF FormSound, FormInv
<1> QED  BY <1>1, <1>2, NoRowMoves DEF ApiGoes, TypeOK, AcceptedIsNotOlder

LEMMA Creating ==
  ASSUME FormSound, NEW c \in Calls, NEW d \in Drafts, CreatesDraft(c, d)
  PROVE  /\ ApiGoes(c)
         /\ row[d].state = "none" /\ row'[d].state = "live"
         /\ row'[d].data.name = calls[c].name
         /\ d \notin KnownDrafts
<1>1. row' = [row EXCEPT ![d] = [state |-> "live",
                                 data |-> [name |-> calls[c].name, nets |-> NoNets]]]
      /\ row[d].state = "none" /\ UNCHANGED <<files, accepted>>
  BY DEF CreatesDraft
<1>2. [state |-> "live", data |-> [name |-> calls[c].name, nets |-> NoNets]]
        \in [state : {"none", "live", "gone"}, data : Data]
  <2>1. calls[c].name \in Name  BY FormTypes, FieldsOfCall DEF FormSound, FormInv
  <2> QED  BY <2>1 DEF Data, NetList
<1>3. /\ row' \in [Drafts -> [state : {"none", "live", "gone"}, data : Data]]
      /\ row'[d] = [state |-> "live", data |-> [name |-> calls[c].name, nets |-> NoNets]]
      /\ \A e \in Drafts \ {d} : row'[e] = row[e]
  BY <1>1, <1>2, FormTypes DEF FormSound, FormInv
<1>4. RowGoes(c)
  BY <1>1, <1>3 DEF RowGoes, Live, LiveNext
<1>5. ApiGoes(c)
  BY <1>1, <1>4 DEF ApiGoes, FormSound, FormInv, TypeOK, AcceptedIsNotOlder
<1>6. d \notin KnownDrafts  BY <1>1 DEF FormSound, FormInv, DraftsAreMade
<1> QED  BY <1>1, <1>3, <1>5, <1>6

LEMMA Writing ==
  ASSUME FormSound, NEW c \in Calls, WritesDraft(c)
  PROVE  /\ ApiGoes(c)
         /\ calls[c].step = "write" /\ calls[c].d \in Drafts /\ Live(calls[c].d)
         /\ row'[calls[c].d].data = NextData(calls[c])
<1> DEFINE d == calls[c].d
<1>1. /\ d \in Drafts /\ Live(d) /\ calls[c].step = "write"
      /\ row' = [row EXCEPT ![d].data = NextData(calls[c])] /\ UNCHANGED <<files, accepted>>
  BY DEF WritesDraft, Live
<1>2. NextData(calls[c]) \in Data
  <2>1. calls[c].kind # "callback" \/ calls[c].net \in Nets
    BY DEF FormSound, FormInv, CallsAreSound, IsSound
  <2> QED  BY <2>1, FormTypes, NextName DEF FormSound, FormInv
<1>3. /\ row' \in [Drafts -> [state : {"none", "live", "gone"}, data : Data]]
      /\ row'[d].state = row[d].state /\ row'[d].data = NextData(calls[c])
      /\ \A e \in Drafts \ {d} : row'[e] = row[e]
  BY <1>1, <1>2, FormTypes DEF FormSound, FormInv
<1>4. RowGoes(c)
  BY <1>1, <1>3 DEF RowGoes, Live, LiveNext
<1>5. ApiGoes(c)
  BY <1>1, <1>4 DEF ApiGoes, FormSound, FormInv, TypeOK, AcceptedIsNotOlder
<1> QED  BY <1>1, <1>3, <1>5

LEMMA TakingFile ==
  ASSUME FormSound, NEW c \in Calls, TakesFile(c)
  PROVE  /\ ApiGoes(c)
         /\ calls[c].step = "presign" /\ calls[c].d \in Drafts /\ Live(calls[c].d)
         /\ UNCHANGED row
<1>1. calls[c].step = "presign" /\ calls[c].d \in Drafts /\ Live(calls[c].d)
      /\ UNCHANGED <<row, accepted>>
  BY DEF TakesFile, Live
<1>2. files' \subseteq Drafts
  BY <1>1 DEF TakesFile, FormSound, FormInv, TypeOK
<1>3. ApiGoes(c)
  BY <1>1, <1>2, NoRowMoves DEF ApiGoes, FormSound, FormInv, TypeOK, AcceptedIsNotOlder
<1> QED  BY <1>1, <1>3

LEMMA RowLeaves ==
  ASSUME FormSound, NEW c, NEW d \in Drafts, Live(d),
         row' = [row EXCEPT ![d] = [state |-> "gone", data |-> NoData]]
  PROVE  /\ RowGoes(c) /\ ~LiveNext(d)
         /\ \A e \in Drafts : LiveNext(e) => Live(e)
<1>1. [state |-> "gone", data |-> NoData] \in [state : {"none", "live", "gone"}, data : Data]
  BY NameIs DEF NoData, Data, NetList
<1>2. /\ row' \in [Drafts -> [state : {"none", "live", "gone"}, data : Data]]
      /\ row'[d].state = "gone"
      /\ \A e \in Drafts \ {d} : row'[e] = row[e]
  BY <1>1, FormTypes DEF FormSound, FormInv
<1> QED  BY <1>2 DEF RowGoes, Live, LiveNext

LEMMA MakingProposal ==
  ASSUME FormSound, NEW c \in Calls, MakesProposal(c)
  PROVE  /\ ApiGoes(c)
         /\ calls[c].step = "create" /\ calls[c].d \in Drafts /\ Live(calls[c].d)
         /\ ~LiveNext(calls[c].d) /\ \A e \in Drafts : LiveNext(e) => Live(e)
<1> DEFINE d == calls[c].d
           new == [name |-> calls[c].base.name, shown |-> calls[c].name,
                   saved |-> calls[c].saved]
<1>1. /\ d \in Drafts /\ Live(d) /\ calls[c].step = "create"
      /\ accepted' = accepted \cup {new}
      /\ row' = [row EXCEPT ![d] = [state |-> "gone", data |-> NoData]]
      /\ files' = files \ {d}
  BY DEF MakesProposal, Live
<1>2. RowGoes(c) /\ ~LiveNext(d) /\ \A e \in Drafts : LiveNext(e) => Live(e)
  BY <1>1, RowLeaves
<1>3. /\ new \in [name : Name, shown : Name, saved : BOOLEAN]
      /\ new.saved => new.name >= new.shown
  <2>1. calls[c].base.name \in Name /\ calls[c].name \in Name /\ calls[c].saved \in BOOLEAN
    BY FormTypes, FieldsOfCall DEF FormSound, FormInv
  <2> QED  BY <1>1, <2>1 DEF FormSound, FormInv, SavedTextStays
<1>4. accepted' \subseteq [name : Name, shown : Name, saved : BOOLEAN]
  BY <1>1, <1>3 DEF FormSound, FormInv, TypeOK
<1>5. AcceptedIsNotOlder'
  <2> HIDE DEF new
  <2> QED  BY <1>1, <1>3 DEF AcceptedIsNotOlder, FormSound
<1>6. files' \subseteq Drafts  BY <1>1 DEF FormSound, FormInv, TypeOK
<1> QED  BY <1>1, <1>2, <1>4, <1>5, <1>6 DEF ApiGoes

-----------------------------------------------------------------------------
(* Steps in which no call gets further *)

TabTypes ==
  /\ page \in {"prompt", "open", "away"} /\ form \in Form /\ meta \in MaybeDraft
  /\ pos \in {"fill", "past"} /\ sent \in {"idle", "submitting", "done"}
  /\ kept \in Kept /\ back \in BOOLEAN

LEMMA TabIsTyped ==
  ASSUME TypeOK  PROVE TabTypes
  BY DEF TypeOK, TabTypes, Kept

LEMMA AllTyped ==
  ASSUME TabTypes', NEW c, ApiGoes(c), calls' \in [Calls -> Call], crossed' \in BOOLEAN,
         moves' \in Name
  PROVE  TypeOK'
  BY DEF TabTypes, ApiGoes, RowGoes, TypeOK, Kept

LEMMA PartsMakeIt ==
  ASSUME TypeOK', CallsAreSound', PagesAreSound', DraftsAreMade', TabHasOneDraft',
         TextsAreNewer', SavedTextStays', AcceptedIsNotOlder'
  PROVE  FormSound'
<1>1. ShownUploadIsOfDraft'  BY ShownFollowsFromOne, PTL
<1> QED  BY <1>1 DEF FormSound, FormInv

LEMMA OnlyTheTab ==
  ASSUME FormSound, NEW a, ApiGoes(a), a \in Calls \/ \A c : ApiGoes(c),
         \A o \in Calls : Rests(o), calls' \in [Calls -> Call],
         TabTypes', crossed' \in BOOLEAN, moves' \in Name, moves' >= moves,
         PagesAreSound', TabHasOneDraft',
         {form'.up, form'.letter, kept'.form.up, kept'.form.letter, meta', kept'.meta}
           \subseteq KnownDrafts \cup {NoDraft},
         \A t \in {form'.name, kept'.form.name} :
           \/ t \in {0, form.name, kept.form.name}
           \/ t = moves + 1 /\ moves' = moves + 1
  PROVE  FormSound'
<1> USE DEF FormSound, FormInv
<1>1. RowGoes(a)  BY DEF ApiGoes
<1>2. TypeOK'  BY AllTyped
<1>3. CallsAreSound'  BY CallsStay
<1>4. DraftsAreMade'
  <2>1. NoDraft \in Drafts => row'[NoDraft].state # "none"  OBVIOUS
  <2> HIDE DEF FormSound, FormInv
  <2>2. DraftsAreMade  BY DEF FormSound, FormInv
  <2> QED  BY <1>1, <2>1, <2>2, DraftsStay
<1>5. TextsAreNewer'  BY TextsStay
<1>6. SavedTextStays'
  <2>1. ASSUME NEW s \in Calls  PROVE SavedTextStays'
    <3>1. PICK b \in Calls : RowGoes(b)
      BY <1>1, <2>1 DEF ApiGoes
    <3> QED  BY <3>1, SavedIsKept
  <2> QED  BY <2>1 DEF SavedTextStays
<1>7. AcceptedIsNotOlder'  BY DEF ApiGoes
<1> QED  BY <1>2, <1>3, <1>4, <1>5, <1>6, <1>7, PartsMakeIt

LEMMA NoCallMoves ==
  ASSUME UNCHANGED calls  PROVE \A o \in Calls : Rests(o)
  BY DEF Rests, Same

LEMMA MovesType ==
  ASSUME TypeOK, Moves
  PROVE  moves' \in Name /\ moves' = moves + 1 /\ moves + 1 \in Name /\ moves' >= moves
  BY DEF TypeOK, Moves, Name

LEMMA StaysNumber ==
  ASSUME TypeOK, UNCHANGED moves
  PROVE  moves' \in Name /\ moves' >= moves
  BY DEF TypeOK, Name

(* The open page, where calls and drafts stay as they are.                 *)
LEMMA OnThePage ==
  ASSUME FormSound, page = "open", UNCHANGED <<page, meta, sent, kept, back, api, calls, crossed>>,
         form' \in Form, pos' \in {"fill", "past"}, moves' \in Name, moves' >= moves,
         {form'.up, form'.letter} \subseteq {form.up, form.letter, NoDraft},
         form'.name \notin {0, form.name} => form'.name = moves + 1 /\ moves' = moves + 1
  PROVE  FormSound'
<1> USE DEF FormSound, FormInv
<1>1. \A c : ApiGoes(c) /\ RowGoes(c)  BY NothingAtApi DEF ApiGoes
<1>2. \A o \in Calls : Rests(o)  BY NoCallMoves
<1>3. TabTypes'  BY TabIsTyped DEF TabTypes
<1>4. PagesAreSound'  BY <1>2, PagesStay
<1>5. TabHasOneDraft'
  <2>1. ItsMeta' = ItsMeta  BY DEF ItsMeta
  <2>2. {ItsForm'.up, ItsForm'.letter} \subseteq ItsDrafts \cup {NoDraft, ItsMeta}
    BY DEF ItsForm, ItsDrafts
  <2> QED  BY <1>1, <1>2, <2>1, <2>2, OneDraftStays
<1>6. {form'.up, form'.letter, kept'.form.up, kept'.form.letter, meta', kept'.meta}
           \subseteq KnownDrafts \cup {NoDraft}
  BY DEF KnownDrafts
<1>7. calls' \in [Calls -> Call] /\ crossed' \in BOOLEAN  BY DEF TypeOK
<1> QED  BY <1>1, <1>2, <1>3, <1>4, <1>5, <1>6, <1>7, OnlyTheTab

LEMMA PageKeepsIt ==
  ASSUME FormSound, Edits \/ ClicksBack \/ ClearsDocument
  PROVE  FormSound'
<1>0. TypeOK /\ form \in Form  BY FormTypes DEF FormSound, FormInv
<1>1. CASE Edits
  <2>1. PICK name \in {moves + 1, 0} : form' = [form EXCEPT !.name = name]
    BY <1>1 DEF Edits
  <2>2. moves' \in Name /\ moves' = moves + 1 /\ name \in Name /\ moves' >= moves
    BY <1>0, <1>1, MovesType, NameIs DEF Edits
  <2>3. form' \in Form /\ form'.name = name /\ form'.up = form.up /\ form'.letter = form.letter
    BY <1>0, <2>1, <2>2, FieldsOfForm
  <2>4. page = "open" /\ UNCHANGED <<page, meta, pos, sent, kept, back, api, calls, crossed>>
    BY <1>1 DEF Edits
  <2>5. pos' \in {"fill", "past"}  BY <1>0, <2>4 DEF TypeOK
  <2> QED  BY <2>2, <2>3, <2>4, <2>5, OnThePage
<1>2. CASE ClicksBack
  <2>1. /\ page = "open" /\ pos' = "fill"
        /\ UNCHANGED <<page, form, meta, sent, kept, back, api, calls, crossed, moves>>
    BY <1>2 DEF ClicksBack
  <2>2. moves' \in Name /\ moves' >= moves  BY <1>0, <2>1, StaysNumber
  <2>3. page = "open" /\ form' \in Form /\ pos' \in {"fill", "past"}  BY <1>0, <2>1
  <2>4. UNCHANGED <<page, meta, sent, kept, back, api, calls, crossed>>  BY <2>1
  <2>5. form'.name \in {0, form.name}  BY <2>1
  <2>6. {form'.up, form'.letter} \subseteq {form.up, form.letter, NoDraft}  BY <2>1
  <2>7. form'.name \notin {0, form.name} => form'.name = moves + 1 /\ moves' = moves + 1  BY <2>5
  <2> QED  BY <2>2, <2>3, <2>4, <2>6, <2>7, OnThePage
<1>3. CASE ClearsDocument
  <2>1. /\ page = "open" /\ form' = [form EXCEPT !.up = NoDraft] /\ Moves
        /\ UNCHANGED <<page, meta, pos, sent, kept, back, api, calls, crossed>>
    BY <1>3 DEF ClearsDocument
  <2>2. moves' \in Name /\ moves' >= moves  BY <1>0, <2>1, MovesType
  <2>3. NoDraft \in MaybeDraft  BY DEF MaybeDraft
  <2>4. form' \in Form /\ form'.name = form.name /\ form'.up = NoDraft
        /\ form'.letter = form.letter
    BY <1>0, <2>1, <2>3, FieldsOfForm
  <2>5. pos' \in {"fill", "past"}  BY <1>0, <2>1 DEF TypeOK
  <2>6. page = "open" /\ UNCHANGED <<page, meta, sent, kept, back, api, calls, crossed>>
    BY <2>1
  <2>7. form'.name \in {0, form.name} /\ form' \in Form  BY <2>4
  <2>8. {form'.up, form'.letter} \subseteq {form.up, form.letter, NoDraft}  BY <2>4
  <2>9. form'.name \notin {0, form.name} => form'.name = moves + 1 /\ moves' = moves + 1  BY <2>7
  <2> QED  BY <2>2, <2>5, <2>6, <2>7, <2>8, <2>9, OnThePage
<1> QED  BY <1>1, <1>2, <1>3

LEMMA ReloadKeepsIt ==
  ASSUME FormSound, Reloads
  PROVE  FormSound'
<1> USE DEF FormSound, FormInv
<1>1. /\ form' = defaultForm /\ meta' = NoDraft /\ pos' = "fill" /\ sent' = "idle"
      /\ back' = FALSE /\ page' = "prompt" /\ calls' = Unheard /\ UNCHANGED <<api, crossed>>
      /\ kept' = IF page = "open" THEN [form |-> form, meta |-> meta, pos |-> pos] ELSE kept
      /\ Moves
  BY DEF Reloads, Leaves
<1>2. \A c : ApiGoes(c) /\ RowGoes(c)  BY <1>1, NothingAtApi DEF ApiGoes
<1>3. /\ calls' \in [Calls -> Call]
      /\ \A o \in Calls : Rests(o) /\ ~calls'[o].heard
  BY <1>1, FormTypes, UnheardIs
<1>4. /\ kept' \in Kept /\ kept'.form = ItsForm /\ kept'.meta = ItsMeta
  BY <1>1, FormTypes DEF Kept, ItsForm, ItsMeta, TypeOK
<1>5. TabTypes'
  BY <1>1, <1>4, BlankIs DEF TabTypes, MaybeDraft
<1>6. PagesAreSound'
  BY <1>1, <1>3 DEF PagesAreSound
<1>7. TabHasOneDraft'
  <2>1. ItsMeta' = ItsMeta /\ ItsForm' = ItsForm  BY <1>1, <1>4 DEF ItsMeta, ItsForm
  <2>2. {ItsForm'.up, ItsForm'.letter} \subseteq ItsDrafts \cup {NoDraft, ItsMeta}
    BY <2>1 DEF ItsDrafts
  <2>3. \A o \in Calls : ~Asking(o)'  BY <1>3 DEF Asking
  <2> QED  BY <1>1, <1>2, <1>3, <2>1, <2>2, <2>3, OneDraftStays
<1>8. {form'.up, form'.letter, kept'.form.up, kept'.form.letter, meta', kept'.meta}
           \subseteq KnownDrafts \cup {NoDraft}
  BY <1>1, <1>4, BlankIs DEF KnownDrafts, ItsForm, ItsMeta
<1>9. \A t \in {form'.name, kept'.form.name} : t \in {0, form.name, kept.form.name}
  BY <1>1, <1>4, BlankIs DEF ItsForm
<1>10. moves' \in Name /\ moves' >= moves  BY <1>1, MovesType
<1>11. crossed' \in BOOLEAN  BY <1>1 DEF TypeOK
<1> QED  BY <1>2, <1>3, <1>5, <1>6, <1>7, <1>8, <1>9, <1>10, <1>11, OnlyTheTab

LEMMA PromptKeepsIt ==
  ASSUME FormSound, Restores \/ Discards
  PROVE  FormSound'
<1> USE DEF FormSound, FormInv
<1>1. /\ page = "prompt" /\ page' = "open" /\ kept' = NothingKept
      /\ UNCHANGED <<sent, back, api, calls, crossed, moves>>
      /\ \/ form' = kept.form /\ meta' = kept.meta /\ pos' = kept.pos
         \/ UNCHANGED <<form, meta, pos>>
  BY DEF Restores, Discards
<1>2. \A c : ApiGoes(c) /\ RowGoes(c)  BY <1>1, NothingAtApi DEF ApiGoes
<1>3. /\ calls' \in [Calls -> Call] /\ \A o \in Calls : Rests(o)
      /\ \A o \in Calls : ~calls[o].heard /\ ~calls'[o].heard
  BY <1>1, NoCallMoves DEF TypeOK, PagesAreSound
<1>4. form = defaultForm /\ meta = NoDraft  BY <1>1 DEF PagesAreSound
<1>5. form' \in Form /\ meta' \in MaybeDraft /\ pos' \in {"fill", "past"}
  BY <1>1, FormTypes DEF Kept, TypeOK
<1>6. TabTypes'
  BY <1>1, <1>5, BlankIs, TabIsTyped DEF TabTypes
<1>7. PagesAreSound'
  BY <1>1, <1>3 DEF PagesAreSound
<1>8. TabHasOneDraft'
  <2>1. \A o \in Calls : ~Asking(o)'  BY <1>3 DEF Asking
  <2>2. CASE form' = kept.form /\ meta' = kept.meta
    <3>1. ItsMeta' = ItsMeta /\ ItsForm' = ItsForm  BY <1>1, <2>2 DEF ItsMeta, ItsForm
    <3>2. {ItsForm'.up, ItsForm'.letter} \subseteq ItsDrafts \cup {NoDraft, ItsMeta}
      BY <3>1 DEF ItsDrafts
    <3> QED  BY <1>1, <1>2, <1>3, <2>1, <3>1, <3>2, OneDraftStays
  <2>3. CASE UNCHANGED <<form, meta>>
    <3>1. ItsDrafts' \subseteq {NoDraft}
      BY <1>1, <1>3, <1>4, <2>3, BlankIs DEF ItsDrafts, ItsForm
    <3>2. ItsMeta' = NoDraft  BY <1>1, <1>4, <2>3 DEF ItsMeta
    <3> QED  BY <2>1, <3>1, <3>2 DEF TabHasOneDraft
  <2> QED  BY <1>1, <2>2, <2>3
<1>9. {form'.up, form'.letter, kept'.form.up, kept'.form.letter, meta', kept'.meta}
           \subseteq KnownDrafts \cup {NoDraft}
  BY <1>1, BlankIs DEF KnownDrafts
<1>10. \A t \in {form'.name, kept'.form.name} : t \in {0, form.name, kept.form.name}
  BY <1>1, BlankIs
<1>11. moves' \in Name /\ moves' >= moves  BY <1>1, StaysNumber
<1>12. crossed' \in BOOLEAN  BY <1>1 DEF TypeOK
<1> QED  BY <1>2, <1>3, <1>6, <1>7, <1>8, <1>9, <1>10, <1>11, <1>12, OnlyTheTab

LEMMA ExpiryKeepsIt ==
  ASSUME FormSound, NEW d \in Drafts, DraftGoes(d)
  PROVE  FormSound'
<1> USE DEF FormSound, FormInv
<1>1. /\ Live(d) /\ Moves /\ files' = files \ {d}
      /\ row' = [row EXCEPT ![d] = [state |-> "gone", data |-> NoData]]
      /\ UNCHANGED <<page, form, meta, pos, sent, kept, back, accepted, calls, crossed>>
  BY DEF DraftGoes, tab
<1>2. \A c : ApiGoes(c) /\ RowGoes(c)
  BY <1>1, RowLeaves DEF ApiGoes, TypeOK, AcceptedIsNotOlder
<1>3. calls' \in [Calls -> Call] /\ \A o \in Calls : Rests(o)
  BY <1>1, NoCallMoves DEF TypeOK
<1>4. TabTypes'  BY <1>1, TabIsTyped DEF TabTypes
<1>5. PagesAreSound'  BY <1>1, <1>3, PagesStay
<1>6. TabHasOneDraft'
  <2>1. ItsMeta' = ItsMeta /\ ItsForm' = ItsForm  BY <1>1 DEF ItsMeta, ItsForm
  <2>2. {ItsForm'.up, ItsForm'.letter} \subseteq ItsDrafts \cup {NoDraft, ItsMeta}
    BY <2>1 DEF ItsDrafts
  <2> QED  BY <1>1, <1>2, <1>3, <2>1, <2>2, OneDraftStays
<1>7. {form'.up, form'.letter, kept'.form.up, kept'.form.letter, meta', kept'.meta}
           \subseteq KnownDrafts \cup {NoDraft}
  BY <1>1 DEF KnownDrafts
<1>8. \A t \in {form'.name, kept'.form.name} : t \in {0, form.name, kept.form.name}
  BY <1>1
<1>9. moves' \in Name /\ moves' >= moves  BY <1>1, MovesType
<1>10. crossed' \in BOOLEAN  BY <1>1 DEF TypeOK
<1> QED  BY <1>2, <1>3, <1>4, <1>5, <1>6, <1>7, <1>8, <1>9, <1>10, OnlyTheTab

-----------------------------------------------------------------------------
(* A call begins *)

LEMMA PartsOfStep ==
  ASSUME FormSound, NEW c, ApiGoes(c), calls' \in [Calls -> Call],
         \A o \in Calls : Rests(o) \/ IsSound(calls'[o]),
         TabTypes', crossed' \in BOOLEAN, moves' \in Name,
         PagesAreSound', DraftsAreMade', TabHasOneDraft', TextsAreNewer', SavedTextStays'
  PROVE  FormSound'
<1>1. TypeOK'  BY AllTyped
<1>2. CallsAreSound'  BY CallsStay DEF FormSound, FormInv
<1>3. AcceptedIsNotOlder'  BY DEF ApiGoes
<1> QED  BY <1>1, <1>2, <1>3, PartsMakeIt

(* The kinds of call, with what each does first when there is a draft.     *)
Beginning(kind, first, net) ==
  \/ kind \in {"sync", "next", "submit"} /\ first = "read" /\ net = NoNets
  \/ kind \in {"upload", "letter"} /\ first = "presign" /\ net = NoNets
  \/ kind = "connect" /\ first = "post" /\ net \in Nets /\ meta = NoDraft
  \/ kind = "disconnect" /\ first = "read" /\ net \in Nets /\ meta # NoDraft
  \/ kind = "refresh" /\ first = "read" /\ net = NoNets /\ meta # NoDraft

LEMMA BeginsGives ==
  ASSUME TypeOK, NEW c \in Calls, NEW kind, NEW first, NEW net,
         Beginning(kind, first, net), Begins(c, kind, first, net)
  PROVE  /\ calls' \in [Calls -> Call] /\ \A o \in Calls \ {c} : Rests(o) /\ calls'[o] = calls[o]
         /\ IsSound(calls'[c]) /\ calls'[c].kind # "callback"
         /\ calls'[c].d = meta /\ calls'[c].name \in {0, form.name} /\ ~calls'[c].saved
         /\ calls'[c].step \in {"post", "read", "presign"}
         /\ calls'[c].step = "post" => meta = NoDraft
         /\ crossed' \in BOOLEAN /\ (crossed => crossed')
         /\ ~crossed' /\ calls'[c].step = "post" =>
              calls'[c].kind # "submit" /\ \A o \in Calls : ~Asking(o)
<1> DEFINE step == IF meta = NoDraft THEN "post" ELSE first
           name == IF step = "post" \/ kind \in {"sync", "next", "submit"} THEN form.name ELSE 0
           nets == IF kind = "disconnect" THEN form.nets ELSE {}
           k == [Idle EXCEPT !.kind = kind, !.step = step, !.d = meta, !.net = net,
                             !.heard = TRUE, !.name = name, !.nets = nets]
<1>1. Put(c, k) /\ Asks(step, kind)
  BY DEF Begins
<1>2. name \in Name /\ nets \in SUBSET Nets /\ meta \in MaybeDraft /\ name \in {0, form.name}
  BY FormTypes, FieldsOfForm, NameIs
<1>3. /\ step \in {"post", "read", "presign"} /\ (step = "post" => meta = NoDraft)
      /\ kind \in {"sync", "next", "submit", "upload", "letter", "connect", "disconnect", "refresh"}
      /\ net \in Nets \cup {NoNets}
  BY DEF Beginning
<1>4. k \in Call /\ k.kind = kind /\ k.step = step /\ k.d = meta /\ k.net = net /\ k.heard
      /\ k.name = name /\ ~k.saved
  <2> HIDE DEF step, name, nets
  <2>1. k \in Call  BY <1>2, <1>3, IdleIs DEF Call
  <2>2. /\ k.kind = kind /\ k.step = step /\ k.d = meta /\ k.net = net /\ k.heard = TRUE
        /\ k.name = name /\ k.saved = FALSE
    BY DEF Idle
  <2> QED  BY <2>1, <2>2
<1>5. IsSound(k)
  <2> HIDE DEF k
  <2> QED  BY <1>4 DEF Beginning, IsSound
<1> HIDE DEF k
<1>6. /\ calls' \in [Calls -> Call] /\ calls'[c] = k
      /\ \A o \in Calls \ {c} : Rests(o) /\ calls'[o] = calls[o]
  BY <1>1, <1>4, PutGives DEF TypeOK
<1>7. /\ crossed' \in BOOLEAN /\ (crossed => crossed')
      /\ ~crossed' /\ step = "post" => kind # "submit" /\ \A o \in Calls : ~Asking(o)
  <2> HIDE DEF step
  <2> QED  BY <1>1 DEF Asks, TypeOK
<1> HIDE DEF step, name, nets
<1>8. /\ calls'[c].kind = kind /\ calls'[c].step = step /\ calls'[c].d = meta
      /\ calls'[c].name = name /\ ~calls'[c].saved /\ IsSound(calls'[c])
  BY <1>4, <1>5, <1>6
<1>9. /\ crossed' \in BOOLEAN /\ (crossed => crossed')
      /\ ~crossed' /\ calls'[c].step = "post" =>
           calls'[c].kind # "submit" /\ \A o \in Calls : ~Asking(o)
  BY <1>7, <1>8
<1>10. calls'[c].kind # "callback"  BY <1>3, <1>8
<1> QED  BY <1>2, <1>3, <1>6, <1>8, <1>9, <1>10

LEMMA BeginningKeepsIt ==
  ASSUME FormSound, page = "open", NEW c \in Calls, NEW kind, NEW first, NEW net,
         Beginning(kind, first, net), Begins(c, kind, first, net),
         UNCHANGED <<page, meta, kept, api>>, TabTypes', moves' \in Name, moves' >= moves,
         form'.name = form.name, {form'.up, form'.letter} \subseteq {form.up, form.letter, NoDraft}
  PROVE  FormSound'
<1>0. /\ TypeOK /\ PagesAreSound /\ DraftsAreMade /\ TabHasOneDraft /\ TextsAreNewer
      /\ CallsAreSound
  BY DEF FormSound, FormInv
<1>1. /\ calls' \in [Calls -> Call] /\ \A o \in Calls \ {c} : Rests(o) /\ calls'[o] = calls[o]
      /\ IsSound(calls'[c]) /\ calls'[c].kind # "callback"
      /\ calls'[c].d = meta /\ calls'[c].name \in {0, form.name} /\ ~calls'[c].saved
      /\ calls'[c].step \in {"post", "read", "presign"}
      /\ calls'[c].step = "post" => meta = NoDraft
      /\ crossed' \in BOOLEAN /\ (crossed => crossed')
      /\ ~crossed' /\ calls'[c].step = "post" =>
              calls'[c].kind # "submit" /\ \A o \in Calls : ~Asking(o)
  BY <1>0, BeginsGives
<1>2. \A a : ApiGoes(a) /\ RowGoes(a)  BY NothingAtApi DEF ApiGoes
<1>3. PagesAreSound'
  <2>1. \A o \in Calls : \/ Rests(o)
                         \/ calls'[o].heard => page = "open" /\ calls'[o].kind # "callback"
    BY <1>1
  <2> QED  BY <1>0, <2>1, PagesStay
<1>4. DraftsAreMade'
  <2>1. NoDraft \in Drafts => row'[NoDraft].state # "none"  OBVIOUS
  <2>2. {form'.up, form'.letter, kept'.form.up, kept'.form.letter, meta', kept'.meta}
           \subseteq KnownDrafts \cup {NoDraft}
    BY DEF KnownDrafts
  <2>3. \A o \in Calls : Rests(o) \/ calls'[o].d \in KnownDrafts \cup {NoDraft}
    BY <1>1 DEF KnownDrafts
  <2> QED  BY <1>0, <1>2, <2>1, <2>2, <2>3, DraftsStay
<1>5. TabHasOneDraft'
  <2>1. ItsMeta' = ItsMeta /\ ItsMeta = meta  BY DEF ItsMeta
  <2>2. {ItsForm'.up, ItsForm'.letter} \subseteq ItsDrafts \cup {NoDraft, ItsMeta}
    BY DEF ItsForm, ItsDrafts
  <2>3. CASE calls'[c].step # "post"
    <3>1. ~Asking(c)'  BY <1>1, <2>3 DEF Asking
    <3>2. \A o \in Calls : \/ Rests(o)
                           \/ /\ ~Asking(o)'
                              /\ calls'[o].heard =>
                                   calls'[o].d \in ItsDrafts \cup {NoDraft, ItsMeta}
      BY <1>1, <2>1, <3>1
    <3>3. crossed => crossed'  BY <1>1
    <3>4. meta' = meta  OBVIOUS
    <3>5. RowGoes(c)  BY <1>2
    <3> QED  BY <1>0, <2>1, <2>2, <3>2, <3>3, <3>4, <3>5, OneDraftStays
  <2>4. CASE calls'[c].step = "post"
    <3> SUFFICES ASSUME ~crossed'  PROVE TabHasOneDraft'
      BY DEF TabHasOneDraft
    <3>1. calls'[c].kind # "submit" /\ meta' = NoDraft
      BY <1>1, <2>4
    <3>2. \A o \in Calls : Asking(o)' => o = c
      BY <1>1, <2>4 DEF Asking
    <3>3. ItsDrafts' \subseteq ItsDrafts \cup {NoDraft}
      BY <1>1, <2>1, <2>2, <3>1 DEF ItsDrafts
    <3>4. UNCHANGED row  BY DEF api
    <3>5. \A d \in ItsDrafts : d = ItsMeta \/ ~Live(d)
      BY <1>0, <1>1 DEF TabHasOneDraft
    <3>6. \A d \in ItsDrafts' : d = ItsMeta \/ ~LiveNext(d)
      BY <3>3, <3>4, <3>5 DEF Live, LiveNext
    <3>7. \A o \in Calls : Asking(o)' =>
            meta' = NoDraft /\ calls'[o].kind # "submit" /\ \A p \in Calls : Asking(p)' => p = o
      BY <3>1, <3>2
    <3> QED  BY <2>1, <3>6, <3>7 DEF TabHasOneDraft, Live, LiveNext
  <2> QED  BY <2>3, <2>4
<1>6. kept = NothingKept /\ kept.form.name = 0
  BY <1>0, BlankIs DEF PagesAreSound
<1>7. TextsAreNewer'
  <2>1. \A t \in {form'.name, kept'.form.name} : t \in {0, form.name, kept.form.name}
    OBVIOUS
  <2>2. {form'.name, kept'.form.name} \subseteq {0, form.name}  BY <1>6
  <2> QED  BY <1>0, <1>1, <2>1, <2>2, TextsStay
<1>8. SavedTextStays'
  <2>1. calls'[c].name = 0 \/ \A s \in Calls : calls[s].name <= calls'[c].name
    BY <1>0, <1>1 DEF TextsAreNewer
  <2> QED  BY <1>1, <1>2, <2>1, SavedIsKept
<1>9. \A o \in Calls : Rests(o) \/ IsSound(calls'[o])
  BY <1>1
<1>10. ApiGoes(c) /\ calls' \in [Calls -> Call] /\ crossed' \in BOOLEAN  BY <1>1, <1>2
<1> QED  BY <1>3, <1>4, <1>5, <1>7, <1>8, <1>9, <1>10, PartsOfStep

LEMMA SavingKeepsIt ==
  ASSUME FormSound, NEW c \in Calls,
         Saves(c) \/ ClicksNext(c) \/ Uploads(c)
  PROVE  FormSound'
<1>0. TypeOK  BY DEF FormSound, FormInv
<1>1. page = "open" /\ UNCHANGED <<page, form, meta, pos, sent, kept, back, api, moves>>
  BY DEF Saves, ClicksNext, Uploads, tab
<1>2. PICK kind, first : Beginning(kind, first, NoNets) /\ Begins(c, kind, first, NoNets)
  <2>1. CASE Saves(c)  BY <2>1 DEF Saves, Beginning
  <2>2. CASE ClicksNext(c)  BY <2>2 DEF ClicksNext, Beginning
  <2>3. CASE Uploads(c)  BY <2>3 DEF Uploads, Beginning
  <2> QED  BY <2>1, <2>2, <2>3
<1>3. TabTypes'  BY <1>0, <1>1, TabIsTyped DEF TabTypes
<1>4. moves' \in Name /\ moves' >= moves  BY <1>0, <1>1, StaysNumber
<1>5. UNCHANGED <<page, meta, kept, api>>  BY <1>1
<1>6. form'.name = form.name /\ {form'.up, form'.letter} \subseteq {form.up, form.letter, NoDraft}
  BY <1>1
<1>7. page = "open"  BY <1>1
<1> QED  BY <1>2, <1>3, <1>4, <1>5, <1>6, <1>7, BeginningKeepsIt

LEMMA LetterKeepsIt ==
  ASSUME FormSound, NEW c \in Calls, UploadsLetter(c)
  PROVE  FormSound'
<1>0. TypeOK /\ form \in Form /\ NoDraft \in MaybeDraft  BY DEF FormSound, FormInv, TypeOK, MaybeDraft
<1>1. /\ page = "open" /\ form' = [form EXCEPT !.letter = NoDraft]
      /\ UNCHANGED <<page, meta, pos, sent, kept, back, api, moves>>
      /\ Begins(c, "letter", "presign", NoNets)
  BY DEF UploadsLetter
<1>2. Beginning("letter", "presign", NoNets)  BY DEF Beginning
<1>3. /\ form' \in Form /\ form'.name = form.name /\ form'.up = form.up
      /\ form'.letter = NoDraft
  BY <1>0, <1>1, FieldsOfForm
<1>4. TabTypes'  BY <1>0, <1>1, <1>3, TabIsTyped DEF TabTypes
<1>5. moves' \in Name /\ moves' >= moves  BY <1>0, <1>1, StaysNumber
<1>6. page = "open" /\ UNCHANGED <<page, meta, kept, api>>  BY <1>1
<1>7. form'.name = form.name /\ {form'.up, form'.letter} \subseteq {form.up, form.letter, NoDraft}
  BY <1>3
<1>8. Begins(c, "letter", "presign", NoNets)  BY <1>1
<1> QED  BY <1>2, <1>4, <1>5, <1>6, <1>7, <1>8, BeginningKeepsIt

LEMMA SubmittingKeepsIt ==
  ASSUME FormSound, NEW c \in Calls, Submits(c)
  PROVE  FormSound'
<1>0. TypeOK  BY DEF FormSound, FormInv
<1>1. /\ page = "open" /\ sent' = "submitting"
      /\ UNCHANGED <<page, form, meta, pos, kept, back, api, moves>>
  BY DEF Submits
<1>2. Beginning("submit", "read", NoNets) /\ Begins(c, "submit", "read", NoNets)
  BY DEF Submits, Beginning
<1>3. TabTypes'  BY <1>0, <1>1, TabIsTyped DEF TabTypes
<1>4. moves' \in Name /\ moves' >= moves  BY <1>0, <1>1, StaysNumber
<1>5. page = "open" /\ UNCHANGED <<page, meta, kept, api>>  BY <1>1
<1>6. form'.name = form.name /\ {form'.up, form'.letter} \subseteq {form.up, form.letter, NoDraft}
  BY <1>1
<1> QED  BY <1>2, <1>3, <1>4, <1>5, <1>6, BeginningKeepsIt

LEMMA RefreshKeepsIt ==
  ASSUME FormSound, NEW c \in Calls, Refreshes(c)
  PROVE  FormSound'
<1>0. TypeOK  BY DEF FormSound, FormInv
<1>1. /\ page = "open" /\ back' = FALSE
      /\ UNCHANGED <<page, form, meta, pos, sent, kept, api, moves>>
  BY DEF Refreshes
<1>2. Beginning("refresh", "read", NoNets) /\ Begins(c, "refresh", "read", NoNets)
  BY DEF Refreshes, Beginning
<1>3. TabTypes'  BY <1>0, <1>1, TabIsTyped DEF TabTypes
<1>4. moves' \in Name /\ moves' >= moves  BY <1>0, <1>1, StaysNumber
<1>5. page = "open" /\ UNCHANGED <<page, meta, kept, api>>  BY <1>1
<1>6. form'.name = form.name /\ {form'.up, form'.letter} \subseteq {form.up, form.letter, NoDraft}
  BY <1>1
<1> QED  BY <1>2, <1>3, <1>4, <1>5, <1>6, BeginningKeepsIt

LEMMA DisconnectKeepsIt ==
  ASSUME FormSound, NEW c \in Calls, NEW n \in Nets, Disconnects(c, n)
  PROVE  FormSound'
<1>0. TypeOK /\ form \in Form  BY DEF FormSound, FormInv, TypeOK
<1>1. /\ page = "open" /\ Moves
      /\ UNCHANGED <<page, meta, pos, sent, kept, back, api>>
  BY DEF Disconnects
<1>2. moves' \in Name /\ moves' >= moves  BY <1>0, <1>1, MovesType
<1>3. CASE meta # NoDraft
  <2>1. /\ Beginning("disconnect", "read", n) /\ Begins(c, "disconnect", "read", n)
        /\ UNCHANGED form
    BY <1>3 DEF Disconnects, Beginning
  <2>2. TabTypes'  BY <1>0, <1>1, <2>1, TabIsTyped DEF TabTypes
  <2>3. page = "open" /\ UNCHANGED <<page, meta, kept, api>>  BY <1>1
  <2>4. form'.name = form.name /\ {form'.up, form'.letter} \subseteq {form.up, form.letter, NoDraft}
    BY <2>1
  <2>5. Beginning("disconnect", "read", n) /\ Begins(c, "disconnect", "read", n)  BY <2>1
  <2> QED  BY <1>2, <2>2, <2>3, <2>4, <2>5, BeginningKeepsIt
<1>4. CASE meta = NoDraft
  <2>1. form' = [form EXCEPT !.nets = form.nets \ {n}] /\ UNCHANGED <<calls, crossed>>
    BY <1>4 DEF Disconnects
  <2>2. form.nets \ {n} \in SUBSET Nets  BY <1>0, FieldsOfForm
  <2>3. form' \in Form /\ form'.name = form.name /\ form'.up = form.up /\ form'.letter = form.letter
    BY <1>0, <2>1, <2>2, FieldsOfForm
  <2>4. page = "open" /\ UNCHANGED <<page, meta, sent, kept, back, api, calls, crossed>>
    BY <1>1, <2>1
  <2>5. pos' \in {"fill", "past"}  BY <1>0, <1>1 DEF TypeOK
  <2>6. form'.name \in {0, form.name}  BY <2>3
  <2>7. {form'.up, form'.letter} \subseteq {form.up, form.letter, NoDraft}  BY <2>3
  <2>8. form'.name \notin {0, form.name} => form'.name = moves + 1 /\ moves' = moves + 1  BY <2>6
  <2>9. form' \in Form  BY <2>3
  <2> QED  BY <1>2, <2>4, <2>5, <2>7, <2>8, <2>9, OnThePage
<1> QED  BY <1>3, <1>4

(* The tab goes to a network with draft d.                                 *)
LEMMA GoingKeepsIt ==
  ASSUME FormSound, page = "open", NEW c \in Calls, NEW d \in Drafts, NEW n \in Nets,
         GoesToNetwork(c, d, n), ApiGoes(c), row'[d].state # "none",
         ~crossed => meta \in {NoDraft, d}, moves' \in Name, moves' >= moves
  PROVE  FormSound'
<1> DEFINE k == [Idle EXCEPT !.kind = "callback", !.step = "read", !.d = d, !.net = n,
                             !.heard = TRUE]
<1>0. /\ TypeOK /\ PagesAreSound /\ DraftsAreMade /\ TabHasOneDraft /\ TextsAreNewer
      /\ RowGoes(c)
  BY DEF FormSound, FormInv, ApiGoes
<1>1. /\ form' = defaultForm /\ meta' = NoDraft /\ pos' = "fill" /\ sent' = "idle"
      /\ back' = FALSE /\ page' = "away" /\ UNCHANGED crossed
      /\ kept' = [form |-> form, meta |-> d, pos |-> pos]
      /\ calls' = [Unheard EXCEPT ![c] = k]
  BY DEF GoesToNetwork, Leaves
<1>2. /\ k \in Call /\ k.kind = "callback" /\ k.step = "read" /\ k.d = d /\ k.net = n
      /\ k.name = 0 /\ k.heard = TRUE /\ k.saved = FALSE
  <2>1. d \in MaybeDraft  BY DEF MaybeDraft
  <2> QED  BY <2>1, IdleIs DEF Call
<1> HIDE DEF k
<1>3. /\ calls' \in [Calls -> Call] /\ calls'[c] = k
      /\ \A o \in Calls \ {c} : Rests(o) /\ ~calls'[o].heard
  <2>1. Unheard \in [Calls -> Call]  BY <1>0, UnheardIs DEF TypeOK
  <2>2. /\ calls' \in [Calls -> Call] /\ calls'[c] = k
        /\ \A o \in Calls \ {c} : calls'[o] = Unheard[o]
    BY <1>1, <1>2, <2>1
  <2> QED  BY <1>0, <2>2, UnheardIs DEF TypeOK
<1>4. IsSound(calls'[c])  BY <1>2, <1>3 DEF IsSound
<1>5. /\ kept' \in Kept /\ kept'.form = form /\ kept'.meta = d
  BY <1>0, <1>1 DEF Kept, TypeOK, MaybeDraft
<1>6. TabTypes'
  BY <1>1, <1>5, BlankIs DEF TabTypes, MaybeDraft
<1>7. PagesAreSound'
  BY <1>1, <1>2, <1>3 DEF PagesAreSound
<1>8. DraftsAreMade'
  <2>1. {form'.up, form'.letter, kept'.form.up, kept'.form.letter, meta', kept'.meta}
           \subseteq KnownDrafts \cup {NoDraft, d}
    BY <1>1, <1>5, BlankIs DEF KnownDrafts
  <2>2. \A o \in Calls : Rests(o) \/ calls'[o].d \in KnownDrafts \cup {NoDraft, d}
    BY <1>2, <1>3
  <2> QED  BY <1>0, <2>1, <2>2, DraftsStay
<1>9. TabHasOneDraft'
  <2> SUFFICES ASSUME ~crossed  PROVE TabHasOneDraft'
    BY <1>1 DEF TabHasOneDraft
  <2>1. \A o \in Calls : ~Asking(o)'  BY <1>2, <1>3 DEF Asking
  <2>2. ItsMeta' = d /\ ItsForm' = form /\ ItsForm = form /\ ItsMeta = meta
    BY <1>1, <1>5 DEF ItsMeta, ItsForm
  <2>3. ItsDrafts' \subseteq {form.up, form.letter, d}
    BY <1>2, <1>3, <2>2 DEF ItsDrafts
  <2>4. \A e \in {form.up, form.letter} : e = meta \/ ~Live(e)
    BY <1>0, <2>2 DEF TabHasOneDraft, ItsDrafts
  <2>5. \A e \in {form.up, form.letter} \cap Drafts : row[e].state # "none"
    BY <1>0 DEF DraftsAreMade, KnownDrafts
  <2>6. \A e \in {form.up, form.letter} : e \in {d, NoDraft} \/ ~LiveNext(e)
    BY <1>0, <2>4, <2>5 DEF RowGoes, Live, LiveNext
  <2>7. \A e \in ItsDrafts' : e = d \/ ~LiveNext(e)
    BY <2>3, <2>6 DEF LiveNext
  <2> QED  BY <2>1, <2>2, <2>7 DEF TabHasOneDraft, Live, LiveNext
<1>10. TextsAreNewer'
  <2>1. \A t \in {form'.name, kept'.form.name} : t \in {0, form.name, kept.form.name}
    BY <1>1, <1>5, BlankIs
  <2>2. \A o \in Calls : Rests(o) \/ calls'[o].name \in {0, calls[o].name}
    BY <1>2, <1>3
  <2> QED  BY <1>0, <1>3, <2>1, <2>2, TextsStay
<1>11. SavedTextStays'
  BY <1>0, <1>2, <1>3, SavedIsKept
<1>12. \A o \in Calls : Rests(o) \/ IsSound(calls'[o])  BY <1>3, <1>4
<1>13. crossed' \in BOOLEAN /\ calls' \in [Calls -> Call]  BY <1>0, <1>1, <1>3 DEF TypeOK
<1> QED  BY <1>6, <1>7, <1>8, <1>9, <1>10, <1>11, <1>12, <1>13, PartsOfStep

LEMMA ConnectKeepsIt ==
  ASSUME FormSound, NEW c \in Calls, NEW n \in Nets, Connects(c, n)
  PROVE  FormSound'
<1>0. TypeOK /\ DraftsAreMade  BY DEF FormSound, FormInv
<1>1. page = "open" /\ Moves /\ UNCHANGED api  BY DEF Connects
<1>2. moves' \in Name /\ moves' >= moves  BY <1>0, <1>1, MovesType
<1>3. ApiGoes(c) /\ UNCHANGED row  BY <1>1, NothingAtApi DEF api
<1>4. CASE meta # NoDraft
  <2>1. meta \in Drafts /\ row[meta].state # "none"
    BY <1>0, <1>4 DEF TypeOK, MaybeDraft, DraftsAreMade, KnownDrafts
  <2>2. GoesToNetwork(c, meta, n)  BY <1>4 DEF Connects
  <2>3. row'[meta].state # "none"  BY <1>3, <2>1
  <2> QED  BY <1>1, <1>2, <1>3, <2>1, <2>2, <2>3, GoingKeepsIt
<1>5. CASE meta = NoDraft
  <2>1. Beginning("connect", "post", n) /\ Begins(c, "connect", "post", n)
    BY <1>5 DEF Connects, Beginning
  <2>2. UNCHANGED <<page, form, meta, pos, sent, kept, back>>
    BY <1>5 DEF Connects, tab
  <2>3. TabTypes'  BY <1>0, <2>2, TabIsTyped DEF TabTypes
  <2>4. page = "open" /\ UNCHANGED <<page, meta, kept, api>>  BY <1>1, <2>2
  <2>5. form'.name = form.name /\ {form'.up, form'.letter} \subseteq {form.up, form.letter, NoDraft}
    BY <2>2
  <2> QED  BY <1>2, <2>1, <2>3, <2>4, <2>5, BeginningKeepsIt
<1> QED  BY <1>4, <1>5

-----------------------------------------------------------------------------
(* A call ends, or goes on *)

LEMMA HeardIsOpen ==
  ASSUME FormSound, NEW c \in Calls, calls[c].heard
  PROVE  IF calls[c].kind = "callback" THEN page = "away" ELSE page = "open"
  BY DEF FormSound, FormInv, TypeOK, PagesAreSound

LEMMA EndsInPlace ==
  ASSUME FormSound, NEW c \in Calls, ApiGoes(c), Ends(c), TabTypes',
         UNCHANGED <<page, meta, kept, crossed>>, page # "open" => UNCHANGED form,
         form'.name = form.name,
         \A d \in {form'.up, form'.letter} :
           d \notin {form.up, form.letter, NoDraft} => calls[c].heard /\ d = calls[c].d,
         moves' \in Name, moves' >= moves
  PROVE  FormSound'
<1>0. /\ TypeOK /\ PagesAreSound /\ DraftsAreMade /\ TabHasOneDraft /\ RowGoes(c)
  BY DEF FormSound, FormInv, ApiGoes
<1>1. calls' \in [Calls -> Call] /\ \A o \in Calls : Rests(o)
  BY <1>0, EndsGives DEF TypeOK
<1>2. PagesAreSound'  BY <1>0, <1>1, PagesStay
<1>3. TabHasOneDraft'
  <2>1. ItsMeta' = ItsMeta  BY DEF ItsMeta
  <2>2. {ItsForm'.up, ItsForm'.letter} \subseteq ItsDrafts \cup {NoDraft, ItsMeta}
    BY DEF ItsForm, ItsDrafts
  <2>3. meta' = meta /\ (crossed => crossed')  OBVIOUS
  <2> QED  BY <1>0, <1>1, <2>1, <2>2, <2>3, OneDraftStays
<1>4. {form'.up, form'.letter, kept'.form.up, kept'.form.letter, meta', kept'.meta}
           \subseteq KnownDrafts \cup {NoDraft}
  BY DEF KnownDrafts
<1>5. \A t \in {form'.name, kept'.form.name} : t \in {0, form.name, kept.form.name}
  OBVIOUS
<1>6. crossed' \in BOOLEAN  BY <1>0 DEF TypeOK
<1> QED  BY <1>1, <1>2, <1>3, <1>4, <1>5, <1>6, OnlyTheTab

(* Back from the network, to the prompt.                                   *)
LEMMA ReturnKeepsIt ==
  ASSUME FormSound, NEW c \in Calls, ApiGoes(c), Ends(c), TabTypes',
         calls[c].heard, calls[c].kind = "callback", page' = "prompt",
         UNCHANGED <<form, meta, kept, crossed>>, moves' \in Name, moves' >= moves
  PROVE  FormSound'
<1>0. /\ TypeOK /\ PagesAreSound /\ DraftsAreMade /\ TabHasOneDraft /\ RowGoes(c)
  BY DEF FormSound, FormInv, ApiGoes
<1>1. calls' \in [Calls -> Call] /\ (\A o \in Calls : Rests(o)) /\ calls'[c] = Idle
      /\ \A o \in Calls \ {c} : calls'[o] = calls[o]
  BY <1>0, EndsGives DEF TypeOK
<1>2. page = "away"  BY HeardIsOpen
<1>3. \A o \in Calls : ~calls'[o].heard
  BY <1>0, <1>1, <1>2, IdleIs DEF PagesAreSound
<1>4. PagesAreSound'  BY <1>0, <1>2, <1>3 DEF PagesAreSound
<1>5. TabHasOneDraft'
  <2>1. ItsMeta' = ItsMeta /\ ItsForm' = ItsForm  BY <1>2 DEF ItsMeta, ItsForm
  <2>2. {ItsForm'.up, ItsForm'.letter} \subseteq ItsDrafts \cup {NoDraft, ItsMeta}
    BY <2>1 DEF ItsDrafts
  <2>3. meta' = meta /\ (crossed => crossed')  OBVIOUS
  <2> QED  BY <1>0, <1>1, <2>1, <2>2, <2>3, OneDraftStays
<1>6. {form'.up, form'.letter, kept'.form.up, kept'.form.letter, meta', kept'.meta}
           \subseteq KnownDrafts \cup {NoDraft}
  BY DEF KnownDrafts
<1>7. \A t \in {form'.name, kept'.form.name} : t \in {0, form.name, kept.form.name}
  OBVIOUS
<1>8. crossed' \in BOOLEAN  BY <1>0 DEF TypeOK
<1> QED  BY <1>1, <1>4, <1>5, <1>6, <1>7, <1>8, OnlyTheTab

(* The call goes on as k, of the same draft and with the same text.        *)
LEMMA CallGoingOnKeepsIt ==
  ASSUME FormSound, NEW c \in Calls, ApiGoes(c), NEW k \in Call, Put(c, k), IsSound(k),
         k.kind = calls[c].kind, k.heard = calls[c].heard, k.d = calls[c].d,
         k.name = calls[c].name, ~crossed /\ k.heard => k.step \notin {"post", "again"},
         UNCHANGED <<page, form, meta, kept, crossed>>, TabTypes',
         moves' \in Name, moves' >= moves, SavedTextStays'
  PROVE  FormSound'
<1>0. /\ TypeOK /\ PagesAreSound /\ DraftsAreMade /\ TabHasOneDraft /\ TextsAreNewer
      /\ RowGoes(c)
  BY DEF FormSound, FormInv, ApiGoes
<1>1. calls' \in [Calls -> Call] /\ calls'[c] = k /\ \A o \in Calls \ {c} : Rests(o)
  BY <1>0, PutGives DEF TypeOK
<1>2. PagesAreSound'
  <2>1. \A o \in Calls : \/ Rests(o)
                         \/ calls'[o].heard => calls[o].heard /\ calls'[o].kind = calls[o].kind
    BY <1>1
  <2> QED  BY <1>0, <2>1, PagesStay
<1>3. DraftsAreMade'
  <2>1. NoDraft \in Drafts => row'[NoDraft].state # "none"  OBVIOUS
  <2>2. {form'.up, form'.letter, kept'.form.up, kept'.form.letter, meta', kept'.meta}
           \subseteq KnownDrafts \cup {NoDraft}
    BY DEF KnownDrafts
  <2>3. \A o \in Calls : Rests(o) \/ calls'[o].d \in KnownDrafts \cup {NoDraft}
    BY <1>1 DEF KnownDrafts
  <2> QED  BY <1>0, <2>1, <2>2, <2>3, DraftsStay
<1>4. TabHasOneDraft'
  <2> SUFFICES ASSUME ~crossed  PROVE TabHasOneDraft'
    BY DEF TabHasOneDraft
  <2>1. ItsMeta' = ItsMeta /\ ItsForm' = ItsForm  BY DEF ItsMeta, ItsForm
  <2>2. {ItsForm'.up, ItsForm'.letter} \subseteq ItsDrafts \cup {NoDraft, ItsMeta}
    BY <2>1 DEF ItsDrafts
  <2>3. meta' = meta /\ (crossed => crossed')  OBVIOUS
  <2>4. \A o \in Calls : \/ Rests(o)
                         \/ /\ ~Asking(o)'
                            /\ calls'[o].heard =>
                                 calls'[o].d \in ItsDrafts \cup {NoDraft, ItsMeta}
    BY <1>1 DEF Asking, ItsDrafts
  <2> QED  BY <1>0, <2>1, <2>2, <2>3, <2>4, OneDraftStays
<1>5. TextsAreNewer'
  <2>1. \A t \in {form'.name, kept'.form.name} : t \in {0, form.name, kept.form.name}
    OBVIOUS
  <2>2. \A o \in Calls : Rests(o) \/ calls'[o].name \in {0, calls[o].name}
    BY <1>1
  <2> QED  BY <1>0, <1>1, <2>1, <2>2, TextsStay
<1>6. \A o \in Calls : Rests(o) \/ IsSound(calls'[o])  BY <1>1
<1>7. crossed' \in BOOLEAN  BY <1>0 DEF TypeOK
<1> QED  BY <1>1, <1>2, <1>3, <1>4, <1>5, <1>6, <1>7, PartsOfStep

(* Call c hears of the new draft d, and goes on as k or ends.              *)
LEMMA NewDraftKeepsIt ==
  ASSUME FormSound, NEW c \in Calls, Asking(c), ApiGoes(c),
         NEW d \in Drafts, row'[d].state # "none",
         NEW k \in Call, Put(c, k), IsSound(k), k.kind # "callback", k.d \in {d, NoDraft},
         k.name \in {0, calls[c].name}, calls[c].kind # "submit" => ~(k.step \in {"post", "again"}),
         meta' = d, UNCHANGED <<page, form, kept, crossed>>, TabTypes',
         moves' \in Name, moves' >= moves, SavedTextStays'
  PROVE  FormSound'
<1>0. /\ TypeOK /\ PagesAreSound /\ DraftsAreMade /\ TabHasOneDraft /\ TextsAreNewer
      /\ CallsAreSound /\ RowGoes(c)
  BY DEF FormSound, FormInv, ApiGoes
<1>1. calls' \in [Calls -> Call] /\ calls'[c] = k /\ \A o \in Calls \ {c} : Rests(o)
  BY <1>0, PutGives DEF TypeOK
<1>2. page = "open"
  <2>1. calls[c].kind # "callback" /\ calls[c].heard
    BY <1>0 DEF CallsAreSound, IsSound, Asking
  <2> QED  BY <2>1, HeardIsOpen
<1>3. PagesAreSound'
  <2>1. calls'[c].kind # "callback"  BY <1>1
  <2>2. \A o \in Calls : \/ Rests(o)
                         \/ calls'[o].heard => page = "open" /\ calls'[o].kind # "callback"
    BY <1>1, <1>2, <2>1
  <2> QED  BY <1>0, <1>2, <2>2, PagesStay
<1>4. DraftsAreMade'
  <2>1. {form'.up, form'.letter, kept'.form.up, kept'.form.letter, meta', kept'.meta}
           \subseteq KnownDrafts \cup {NoDraft, d}
    BY DEF KnownDrafts
  <2>2. \A o \in Calls : Rests(o) \/ calls'[o].d \in KnownDrafts \cup {NoDraft, d}
    BY <1>1
  <2> QED  BY <1>0, <2>1, <2>2, DraftsStay
<1>5. TabHasOneDraft'
  <2> SUFFICES ASSUME ~crossed  PROVE TabHasOneDraft'
    BY DEF TabHasOneDraft
  <2>1. meta = NoDraft /\ calls[c].kind # "submit" /\ \A o \in Calls : Asking(o) => o = c
    BY <1>0 DEF TabHasOneDraft
  <2>2. \A o \in Calls : ~Asking(o)'
    BY <1>1, <2>1, IdleIs DEF Rests, Same, Asking
  <2>3. ItsMeta' = d /\ ItsMeta = NoDraft /\ ItsForm' = ItsForm
    BY <1>2, <2>1 DEF ItsMeta, ItsForm
  <2>4. \A o \in Calls : calls'[o].heard => calls'[o].d \in ItsDrafts \cup {NoDraft, d}
    BY <1>1, IdleIs DEF Rests, Same, ItsDrafts
  <2>5. ItsDrafts' \subseteq ItsDrafts \cup {NoDraft, d}
    BY <2>3, <2>4 DEF ItsDrafts
  <2>6. ASSUME NEW e \in ItsDrafts, e # NoDraft  PROVE ~LiveNext(e)
    <3>1. ~Live(e)  BY <1>0, <2>3, <2>6 DEF TabHasOneDraft
    <3>2. e \in Drafts => row[e].state # "none"  BY <1>0, ItsAreKnown DEF DraftsAreMade
    <3> QED  BY <1>0, <3>1, <3>2 DEF RowGoes, LiveNext
  <2>7. \A e \in ItsDrafts' : e = d \/ ~LiveNext(e)
    BY <2>5, <2>6 DEF LiveNext
  <2> QED  BY <2>2, <2>3, <2>7 DEF TabHasOneDraft, Live, LiveNext
<1>6. TextsAreNewer'
  <2>1. \A t \in {form'.name, kept'.form.name} : t \in {0, form.name, kept.form.name}
    OBVIOUS
  <2>2. \A o \in Calls : Rests(o) \/ calls'[o].name \in {0, calls[o].name}
    BY <1>1
  <2> QED  BY <1>0, <1>1, <2>1, <2>2, TextsStay
<1>7. \A o \in Calls : Rests(o) \/ IsSound(calls'[o])  BY <1>1
<1>8. crossed' \in BOOLEAN  BY <1>0 DEF TypeOK
<1> QED  BY <1>1, <1>3, <1>4, <1>5, <1>6, <1>7, <1>8, PartsOfStep

LEMMA ForgettingKeepsIt ==
  ASSUME FormSound, NEW c \in Calls, ApiGoes(c), Forgotten(c), moves' \in Name, moves' >= moves
  PROVE  FormSound'
<1>1. Ends(c) /\ UNCHANGED <<page, form, meta, pos, sent, kept, back, crossed>>
  BY DEF Forgotten, tab
<1>2. TabTypes'  BY <1>1, TabIsTyped DEF TabTypes, FormSound, FormInv
<1>3. UNCHANGED <<page, meta, kept, crossed>> /\ UNCHANGED form /\ form'.name = form.name
  BY <1>1
<1>4. \A d \in {form'.up, form'.letter} :
           d \notin {form.up, form.letter, NoDraft} => calls[c].heard /\ d = calls[c].d
  BY <1>3
<1> QED  BY <1>1, <1>2, <1>3, <1>4, EndsInPlace

LEMMA SubmitFailureKeepsIt ==
  ASSUME FormSound, NEW c \in Calls, ApiGoes(c), calls[c].heard, SubmitFails(c),
         UNCHANGED <<meta, kept, back, crossed>>, moves' \in Name, moves' >= moves
  PROVE  FormSound'
<1> DEFINE k == [calls[c] EXCEPT !.step = IF calls[c].step = "post" THEN "again" ELSE "propose",
                                 !.base = NoData]
<1>0. /\ TypeOK /\ IsSound(calls[c]) /\ TabHasOneDraft /\ calls[c] \in Call /\ RowGoes(c)
  BY DEF FormSound, FormInv, CallsAreSound, TypeOK, ApiGoes
<1>1. calls[c].kind = "submit" /\ UNCHANGED <<page, form, pos>>
  BY DEF SubmitFails
<1>2. CASE calls[c].step \in {"post", "read", "write"}
  <2>1. Put(c, k) /\ UNCHANGED sent  BY <1>2 DEF SubmitFails
  <2>2. ~calls[c].saved  BY <1>0, <1>2 DEF IsSound
  <2>3. /\ k \in Call /\ k.kind = "submit" /\ k.heard = calls[c].heard /\ k.d = calls[c].d
        /\ k.name = calls[c].name /\ k.saved = calls[c].saved
        /\ k.step = IF calls[c].step = "post" THEN "again" ELSE "propose"
    <3>1. NoData \in Data  BY NameIs DEF NoData, Data, NetList
    <3> QED  BY <1>0, <1>1, <3>1 DEF Call
  <2> HIDE DEF k
  <2>4. IsSound(k)  BY <2>2, <2>3 DEF IsSound
  <2>5. ~crossed /\ k.heard => k.step \notin {"post", "again"}
    BY <1>0, <1>1, <2>3 DEF TabHasOneDraft, Asking
  <2>6. TabTypes'  BY <1>0, <1>1, <2>1, TabIsTyped DEF TabTypes
  <2>7. SavedTextStays'
    <3>1. calls' \in [Calls -> Call] /\ calls'[c] = k /\ \A o \in Calls \ {c} : Rests(o)
      BY <1>0, <2>1, <2>3, PutGives DEF TypeOK
    <3>2. ~calls'[c].saved /\ calls'[c].step \notin {"read", "write"}
      BY <2>2, <2>3, <3>1
    <3> QED  BY <1>0, <3>1, <3>2, SavedIsKept
  <2>8. UNCHANGED <<page, form, meta, kept, crossed>> /\ k.kind = calls[c].kind
    BY <1>1, <2>3
  <2> QED  BY <2>1, <2>3, <2>4, <2>5, <2>6, <2>7, <2>8, CallGoingOnKeepsIt
<1>3. CASE calls[c].step \notin {"post", "read", "write"}
  <2>1. Ends(c) /\ sent' = "idle"  BY <1>3 DEF SubmitFails
  <2>2. TabTypes'  BY <1>0, <1>1, <2>1, TabIsTyped DEF TabTypes
  <2>3. UNCHANGED <<page, meta, kept, crossed>> /\ UNCHANGED form /\ form'.name = form.name
    BY <1>1
  <2>4. \A d \in {form'.up, form'.letter} :
             d \notin {form.up, form.letter, NoDraft} => calls[c].heard /\ d = calls[c].d
    BY <2>3
  <2> QED  BY <2>1, <2>2, <2>3, <2>4, EndsInPlace
<1> QED  BY <1>2, <1>3

LEMMA OtherFailureKeepsIt ==
  ASSUME FormSound, NEW c \in Calls, ApiGoes(c), calls[c].heard, OtherFails(c),
         UNCHANGED <<meta, kept, back, crossed>>, moves' \in Name, moves' >= moves
  PROVE  FormSound'
<1>0. TypeOK /\ form \in Form /\ NoDraft \in MaybeDraft
  BY DEF FormSound, FormInv, TypeOK, MaybeDraft
<1>1. /\ Ends(c) /\ pos' = (IF calls[c].kind = "next" THEN "past" ELSE pos) /\ UNCHANGED sent
      /\ page' = IF calls[c].kind = "callback" THEN "prompt" ELSE page
  BY DEF OtherFails, Turns
<1>2. /\ form' \in Form /\ form'.name = form.name
      /\ form'.up \in {form.up, NoDraft} /\ form'.letter \in {form.letter, NoDraft}
      /\ calls[c].kind = "callback" => form' = form
  <2>1. form' = CASE calls[c].kind = "upload" -> [form EXCEPT !.up = NoDraft]
                  [] calls[c].kind = "letter" -> [form EXCEPT !.letter = NoDraft]
                  [] OTHER                    -> form
    BY DEF OtherFails
  <2>2. CASE calls[c].kind = "upload"
    <3>1. form' = [form EXCEPT !.up = NoDraft]  BY <2>1, <2>2
    <3> QED  BY <1>0, <2>2, <3>1, FieldsOfForm
  <2>3. CASE calls[c].kind = "letter"
    <3>1. form' = [form EXCEPT !.letter = NoDraft]  BY <2>1, <2>3
    <3> QED  BY <1>0, <2>3, <3>1, FieldsOfForm
  <2>4. CASE calls[c].kind \notin {"upload", "letter"}
    BY <1>0, <2>1, <2>4
  <2> QED  BY <2>2, <2>3, <2>4
<1>3. TabTypes'
  BY <1>0, <1>1, <1>2, TabIsTyped DEF TabTypes
<1>4. CASE calls[c].kind = "callback"
  <2>1. page' = "prompt" /\ UNCHANGED <<form, meta, kept, crossed>>  BY <1>1, <1>2, <1>4
  <2> QED  BY <1>1, <1>3, <1>4, <2>1, ReturnKeepsIt
<1>5. CASE calls[c].kind # "callback"
  <2>1. page = "open"  BY <1>5, HeardIsOpen
  <2>2. UNCHANGED <<page, meta, kept, crossed>>  BY <1>1, <1>5
  <2>3. \A d \in {form'.up, form'.letter} :
             d \notin {form.up, form.letter, NoDraft} => calls[c].heard /\ d = calls[c].d
    BY <1>2
  <2> QED  BY <1>1, <1>2, <1>3, <2>1, <2>2, <2>3, EndsInPlace
<1> QED  BY <1>4, <1>5

LEMMA CallFailureKeepsIt ==
  ASSUME FormSound, NEW c \in Calls, ApiGoes(c), Fails(c), moves' \in Name, moves' >= moves
  PROVE  FormSound'
  BY ForgettingKeepsIt, SubmitFailureKeepsIt, OtherFailureKeepsIt DEF Fails

LEMMA RefusalKeepsIt ==
  ASSUME FormSound, NEW c \in Calls, IsRefused(c)
  PROVE  FormSound'
<1>1. Fails(c) /\ UNCHANGED api /\ UNCHANGED moves  BY DEF IsRefused
<1>2. ApiGoes(c)  BY <1>1, NothingAtApi
<1>3. moves' \in Name /\ moves' >= moves  BY <1>1, StaysNumber DEF FormSound, FormInv
<1> QED  BY <1>1, <1>2, <1>3, CallFailureKeepsIt

LEMMA LossKeepsIt ==
  ASSUME FormSound, NEW c \in Calls, IsLost(c)
  PROVE  FormSound'
<1>1. Fails(c) /\ Moves  BY DEF IsLost
<1>2. ApiGoes(c)
  <2>1. \/ UNCHANGED api
        \/ \E d \in Drafts : CreatesDraft(c, d)
        \/ WritesDraft(c) \/ TakesFile(c) \/ MakesProposal(c)
    BY DEF IsLost
  <2> QED  BY <2>1, NothingAtApi, Creating, Writing, TakingFile, MakingProposal
<1>3. moves' \in Name /\ moves' >= moves  BY <1>1, MovesType DEF FormSound, FormInv
<1> QED  BY <1>1, <1>2, <1>3, CallFailureKeepsIt

LEMMA ReadingKeepsIt ==
  ASSUME FormSound, NEW c \in Calls, ReadsDraft(c)
  PROVE  FormSound'
<1> DEFINE next == CASE calls[c].step = "propose" -> "create"
                     [] calls[c].kind = "refresh" -> "answer"
                     [] OTHER                     -> "write"
           k == [calls[c] EXCEPT !.base = DataOf(calls[c].d), !.step = next]
<1>0. /\ TypeOK /\ IsSound(calls[c]) /\ SavedTextStays /\ calls[c] \in Call
      /\ calls[c].d \in Drafts /\ Live(calls[c].d) /\ calls[c].step \in {"read", "propose"}
  BY DEF FormSound, FormInv, CallsAreSound, TypeOK, ReadsDraft, Live
<1>1. Put(c, k) /\ UNCHANGED <<page, form, meta, pos, sent, kept, back, api, crossed, moves>>
  BY DEF ReadsDraft, tab
<1>2. ApiGoes(c) /\ UNCHANGED row /\ RowGoes(c)  BY <1>1, NothingAtApi DEF api, ApiGoes
<1>3. next \in {"create", "answer", "write"}  OBVIOUS
<1>4. /\ k \in Call /\ k.kind = calls[c].kind /\ k.heard = calls[c].heard /\ k.d = calls[c].d
      /\ k.name = calls[c].name /\ k.saved = calls[c].saved /\ k.net = calls[c].net
      /\ k.base = DataOf(calls[c].d) /\ k.step = next
  <2>1. DataOf(calls[c].d) \in Data  BY <1>0, FormTypes DEF DataOf
  <2> HIDE DEF next
  <2> QED  BY <1>0, <1>3, <2>1 DEF Call
<1> HIDE DEF k
<1>5. calls[c].saved => calls[c].step = "propose"  BY <1>0 DEF IsSound
<1>6. IsSound(k)
  BY <1>0, <1>4, <1>5 DEF IsSound
<1>7. ~crossed /\ k.heard => k.step \notin {"post", "again"}  BY <1>3, <1>4
<1>8. TabTypes'  BY <1>0, <1>1, TabIsTyped DEF TabTypes
<1>9. moves' \in Name /\ moves' >= moves  BY <1>0, <1>1, StaysNumber
<1>10. SavedTextStays'
  <2>1. calls' \in [Calls -> Call] /\ calls'[c] = k /\ \A o \in Calls \ {c} : Rests(o)
    BY <1>0, <1>1, <1>4, PutGives DEF TypeOK
  <2>2. k.step = "write" => calls[c].step = "read"  BY <1>0, <1>4
  <2>3. ASSUME k.saved  PROVE k.step = "create" /\ k.base.name >= k.name
    <3>1. calls[c].saved /\ calls[c].step = "propose"  BY <1>4, <1>5, <2>3
    <3>2. DataOf(calls[c].d).name >= calls[c].name  BY <1>0, <3>1 DEF SavedTextStays
    <3>3. next = "create"
      <4>1. calls[c].kind # "refresh"  BY <1>0, <3>1 DEF IsSound
      <4> QED  BY <3>1, <4>1
    <3>4. k.step = "create" /\ k.base.name >= k.name
      <4> HIDE DEF next
      <4>1. k.base.name = DataOf(calls[c].d).name /\ k.name = calls[c].name  BY <1>4
      <4> QED  BY <1>4, <3>2, <3>3, <4>1
    <3> QED  BY <3>4
  <2>4. k.step \notin {"read", "propose"}  BY <1>3, <1>4
  <2> QED  BY <1>2, <1>4, <2>1, <2>2, <2>3, <2>4, SavedIsKept
<1>11. UNCHANGED <<page, form, meta, kept, crossed>>  BY <1>1
<1> QED  BY <1>1, <1>2, <1>4, <1>6, <1>7, <1>8, <1>9, <1>10, <1>11, CallGoingOnKeepsIt

LEMMA NewDraftHeardKeepsIt ==
  ASSUME FormSound, NEW c \in Calls, NEW d \in Drafts, CreatesDraft(c, d), HearsOfDraft(c, d),
         UNCHANGED moves
  PROVE  FormSound'
<1> DEFINE call == [calls[c] EXCEPT !.d = d]
<1>0. /\ TypeOK /\ IsSound(calls[c]) /\ calls[c] \in Call /\ TabHasOneDraft
      /\ d \in MaybeDraft
  BY DEF FormSound, FormInv, CallsAreSound, TypeOK, MaybeDraft
<1>1. /\ ApiGoes(c) /\ row'[d].state = "live" /\ row'[d].data.name = calls[c].name
      /\ d \notin KnownDrafts /\ RowGoes(c)
  BY Creating DEF ApiGoes
<1>2. row'[d].state # "none"  BY <1>1
<1>3. /\ call \in Call /\ call.kind = calls[c].kind /\ call.step = calls[c].step /\ call.d = d
      /\ call.name = calls[c].name /\ call.net = calls[c].net /\ call.heard = calls[c].heard
      /\ call.saved = calls[c].saved /\ call.base = calls[c].base
  BY <1>0 DEF Call
<1>4. Asking(c) /\ calls[c].step \in {"post", "again"} /\ calls[c].heard
  BY <1>3 DEF CreatesDraft, HearsOfDraft, Asking
<1>5. calls[c].kind \in {"sync", "next", "submit", "upload", "letter", "connect"}
  BY <1>0, <1>4 DEF IsSound
<1>6. moves' \in Name /\ moves' >= moves  BY <1>0, StaysNumber
<1> HIDE DEF call
<1>7. CASE calls[c].kind = "connect"
  <2>1. GoesToNetwork(c, d, calls[c].net)  BY <1>3, <1>7 DEF HearsOfDraft, call
  <2>2. calls[c].net \in Nets  BY <1>0, <1>7 DEF IsSound
  <2>3. page = "open"  BY <1>4, <1>7, HeardIsOpen
  <2>4. ~crossed => meta \in {NoDraft, d}  BY <1>0, <1>4 DEF TabHasOneDraft
  <2> QED  BY <1>1, <1>2, <1>6, <2>1, <2>2, <2>3, <2>4, GoingKeepsIt
<1>8. CASE calls[c].kind \in {"upload", "letter"}
  <2> DEFINE k == [call EXCEPT !.step = "presign", !.name = 0]
  <2>1. meta' = d /\ Put(c, k) /\ UNCHANGED <<page, form, pos, sent, kept, back, crossed>>
    BY <1>3, <1>8 DEF HearsOfDraft, call
  <2>2. /\ k \in Call /\ k.kind = calls[c].kind /\ k.step = "presign" /\ k.d = d /\ k.name = 0
        /\ k.saved = calls[c].saved
    BY <1>3, NameIs DEF Call
  <2> HIDE DEF k
  <2>3. ~calls[c].saved  BY <1>0, <1>4, <1>8 DEF IsSound
  <2>4. IsSound(k)  BY <1>8, <2>2, <2>3 DEF IsSound
  <2>5. SavedTextStays'
    <3>1. calls' \in [Calls -> Call] /\ calls'[c] = k /\ \A o \in Calls \ {c} : Rests(o)
      BY <1>0, <2>1, <2>2, PutGives DEF TypeOK
    <3>2. ~calls'[c].saved /\ calls'[c].step \notin {"read", "write"}
      BY <2>2, <2>3, <3>1
    <3> QED  BY <1>1, <3>1, <3>2, SavedIsKept
  <2>6. TabTypes'  BY <1>0, <2>1, TabIsTyped DEF TabTypes
  <2>7. k.kind # "callback" /\ k.d \in {d, NoDraft} /\ k.name \in {0, calls[c].name}
        /\ ~(k.step \in {"post", "again"})
    BY <1>8, <2>2
  <2>8. UNCHANGED <<page, form, kept, crossed>> /\ meta' = d /\ Put(c, k) /\ k \in Call
    BY <2>1, <2>2
  <2> QED  BY <1>1, <1>2, <1>4, <1>6, <2>4, <2>5, <2>6, <2>7, <2>8, NewDraftKeepsIt
<1>9. CASE calls[c].kind = "submit"
  <2> DEFINE k == [call EXCEPT !.step = IF calls[c].step = "post" THEN "again" ELSE "propose",
                               !.saved = TRUE]
  <2>1. meta' = d /\ Put(c, k) /\ UNCHANGED <<page, form, pos, sent, kept, back, crossed>>
    BY <1>3, <1>9 DEF HearsOfDraft, call
  <2>2. /\ k \in Call /\ k.kind = calls[c].kind /\ k.step \in {"again", "propose"}
        /\ k.d = d /\ k.name = calls[c].name
    BY <1>3 DEF Call
  <2> HIDE DEF k
  <2>3. IsSound(k)  BY <1>9, <2>2 DEF IsSound
  <2>4. SavedTextStays'
    <3>1. calls' \in [Calls -> Call] /\ calls'[c] = k /\ \A o \in Calls \ {c} : Rests(o)
      BY <1>0, <2>1, <2>2, PutGives DEF TypeOK
    <3>2. k.step \notin {"read", "write", "create"}  BY <2>2
    <3>3. \A o \in Calls : calls[o].d # d
      BY <1>1 DEF KnownDrafts
    <3>4. row'[d].data.name >= k.name
      <4>1. calls[c].name \in Nat  BY <1>0, FieldsOfCall, NameIs
      <4> QED  BY <1>1, <2>2, <4>1
    <3> QED  BY <1>1, <2>2, <3>1, <3>2, <3>3, <3>4, SavedIsKept
  <2>5. TabTypes'  BY <1>0, <2>1, TabIsTyped DEF TabTypes
  <2>6. k.kind # "callback" /\ k.d \in {d, NoDraft} /\ k.name \in {0, calls[c].name}
    BY <1>9, <2>2
  <2>7. calls[c].kind # "submit" => ~(k.step \in {"post", "again"})  BY <1>9
  <2>8. UNCHANGED <<page, form, kept, crossed>> /\ meta' = d /\ Put(c, k) /\ k \in Call
    BY <2>1, <2>2
  <2> QED  BY <1>1, <1>2, <1>4, <1>6, <2>3, <2>4, <2>5, <2>6, <2>7, <2>8, NewDraftKeepsIt
<1>10. CASE calls[c].kind \in {"sync", "next"}
  <2>1. /\ meta' = d /\ Put(c, Idle) /\ UNCHANGED <<page, form, sent, kept, back, crossed>>
        /\ pos' \in {"past", pos}
    BY <1>3, <1>10 DEF HearsOfDraft, Ends, Turns, call
  <2>2. TabTypes'  BY <1>0, <2>1, TabIsTyped DEF TabTypes
  <2>3. SavedTextStays'
    <3>1. calls' \in [Calls -> Call] /\ \A o \in Calls : Rests(o)
      BY <1>0, <2>1, EndsGives DEF TypeOK, Ends
    <3> QED  BY <1>1, <3>1, SavedIsKept
  <2>4. UNCHANGED <<page, form, kept, crossed>> /\ meta' = d /\ Put(c, Idle)  BY <2>1
  <2>5. /\ Idle \in Call /\ IsSound(Idle) /\ Idle.kind # "callback" /\ Idle.d \in {d, NoDraft}
        /\ Idle.name \in {0, calls[c].name} /\ ~(Idle.step \in {"post", "again"})
    BY IdleIs
  <2> QED  BY <1>1, <1>2, <1>4, <1>6, <2>2, <2>3, <2>4, <2>5, NewDraftKeepsIt
<1> QED  BY <1>5, <1>7, <1>8, <1>9, <1>10

LEMMA WriteHeardKeepsIt ==
  ASSUME FormSound, NEW c \in Calls, WritesDraft(c), HearsOfWrite(c), UNCHANGED moves
  PROVE  FormSound'
<1> DEFINE call == calls[c]
<1>0. /\ TypeOK /\ IsSound(call) /\ call \in Call /\ form \in Form
  BY DEF FormSound, FormInv, CallsAreSound, TypeOK
<1>1. /\ ApiGoes(c) /\ call.step = "write" /\ call.d \in Drafts
      /\ row'[call.d].data = NextData(call) /\ RowGoes(c)
  BY Writing DEF ApiGoes
<1>2. call.heard /\ UNCHANGED <<meta, sent, kept, crossed>>
  BY DEF HearsOfWrite
<1>3. call.kind \in {"sync", "next", "submit", "callback", "disconnect"}
  BY <1>0, <1>1 DEF IsSound
<1>4. moves' \in Name /\ moves' >= moves  BY <1>0, StaysNumber
<1> HIDE DEF call
<1>5. CASE call.kind = "callback"
  <2>1. page' = "prompt" /\ back' = TRUE /\ Ends(c) /\ UNCHANGED <<form, pos>>
    BY <1>5 DEF HearsOfWrite, call
  <2>2. TabTypes'  BY <1>0, <1>2, <2>1, TabIsTyped DEF TabTypes
  <2>3. UNCHANGED <<form, meta, kept, crossed>> /\ page' = "prompt"  BY <1>2, <2>1
  <2> QED  BY <1>1, <1>2, <1>4, <1>5, <2>1, <2>2, <2>3, ReturnKeepsIt DEF call
<1>6. CASE call.kind = "disconnect"
  <2>1. form' = [form EXCEPT !.nets = call.nets \ {call.net}] /\ Ends(c)
        /\ UNCHANGED <<page, pos, back>>
    BY <1>6 DEF HearsOfWrite, call
  <2>2. call.nets \ {call.net} \in SUBSET Nets  BY <1>0, FieldsOfCall
  <2>3. form' \in Form /\ form'.name = form.name /\ form'.up = form.up /\ form'.letter = form.letter
    BY <1>0, <2>1, <2>2, FieldsOfForm
  <2>4. TabTypes'  BY <1>0, <1>2, <2>1, <2>3, TabIsTyped DEF TabTypes
  <2>5. page = "open"  BY <1>2, <1>6, HeardIsOpen DEF call
  <2>6. UNCHANGED <<page, meta, kept, crossed>> /\ form'.name = form.name  BY <1>2, <2>1, <2>3
  <2>7. \A d \in {form'.up, form'.letter} :
             d \notin {form.up, form.letter, NoDraft} => calls[c].heard /\ d = calls[c].d
    BY <2>3
  <2> QED  BY <1>1, <1>4, <2>1, <2>4, <2>5, <2>6, <2>7, EndsInPlace
<1>7. CASE call.kind = "submit"
  <2> DEFINE k == [call EXCEPT !.step = "propose", !.saved = Alone(c), !.base = NoData]
  <2>1. Put(c, k) /\ UNCHANGED <<page, form, pos, back>>
    BY <1>7 DEF HearsOfWrite, call
  <2>2. Alone(c) \in BOOLEAN  BY DEF Alone
  <2>3. /\ k \in Call /\ k.kind = "submit" /\ k.step = "propose" /\ k.d = call.d
        /\ k.name = call.name /\ k.heard = call.heard /\ k.saved = Alone(c)
    <3>1. NoData \in Data  BY NameIs DEF NoData, Data, NetList
    <3> QED  BY <1>0, <1>7, <2>2, <3>1 DEF Call
  <2> HIDE DEF k
  <2>4. IsSound(k)  BY <2>3 DEF IsSound
  <2>5. SavedTextStays'
    <3>1. calls' \in [Calls -> Call] /\ calls'[c] = k /\ \A o \in Calls \ {c} : Rests(o)
      BY <1>0, <2>1, <2>3, PutGives DEF TypeOK
    <3>2. row'[k.d].data.name >= k.name
      <4>1. call.name \in Nat /\ call.base \in Data /\ call.base.name \in Nat
        BY <1>0, FieldsOfCall, NameIs
      <4>2. NextData(call) = IF call.name = 0 THEN call.base ELSE [call.base EXCEPT !.name = call.name]
        BY <1>7 DEF NextData, MergedData
      <4>3. NextData(call).name >= call.name  BY <4>1, <4>2 DEF Data
      <4> QED  BY <1>1, <2>3, <4>3
    <3>3. ASSUME k.saved, NEW o \in Calls \ {c}, calls[o].d = k.d
          PROVE  calls[o].step \notin {"read", "write"}
      BY <2>3, <3>3 DEF Alone, call
    <3> QED  BY <1>1, <2>3, <3>1, <3>2, <3>3, SavedIsKept
  <2>6. TabTypes'  BY <1>0, <1>2, <2>1, TabIsTyped DEF TabTypes
  <2>7. /\ UNCHANGED <<page, form, meta, kept, crossed>> /\ k.kind = calls[c].kind
        /\ k.heard = calls[c].heard /\ k.d = calls[c].d /\ k.name = calls[c].name
    BY <1>2, <1>7, <2>1, <2>3 DEF call
  <2>8. ~crossed /\ k.heard => k.step \notin {"post", "again"}  BY <2>3
  <2> QED  BY <1>1, <1>4, <2>1, <2>3, <2>4, <2>5, <2>6, <2>7, <2>8, CallGoingOnKeepsIt
<1>8. CASE call.kind \in {"sync", "next"}
  <2>1. Ends(c) /\ pos' \in {"past", pos} /\ UNCHANGED <<page, form, back>>
    BY <1>8 DEF HearsOfWrite, Turns, call
  <2>2. TabTypes'  BY <1>0, <1>2, <2>1, TabIsTyped DEF TabTypes
  <2>3. UNCHANGED <<page, meta, kept, crossed>> /\ UNCHANGED form /\ form'.name = form.name
    BY <1>2, <2>1
  <2>4. \A d \in {form'.up, form'.letter} :
             d \notin {form.up, form.letter, NoDraft} => calls[c].heard /\ d = calls[c].d
    BY <2>3
  <2> QED  BY <1>1, <1>4, <2>1, <2>2, <2>3, <2>4, EndsInPlace
<1> QED  BY <1>3, <1>5, <1>6, <1>7, <1>8

LEMMA FileHeardKeepsIt ==
  ASSUME FormSound, NEW c \in Calls, TakesFile(c), HearsOfFile(c), UNCHANGED moves
  PROVE  FormSound'
<1>0. /\ TypeOK /\ IsSound(calls[c]) /\ calls[c] \in Call /\ form \in Form
  BY DEF FormSound, FormInv, CallsAreSound, TypeOK
<1>1. ApiGoes(c) /\ calls[c].step = "presign"  BY TakingFile
<1>2. calls[c].heard /\ Ends(c) /\ UNCHANGED <<page, meta, pos, sent, kept, back, crossed>>
  BY DEF HearsOfFile
<1>3. page = "open"
  <2>1. calls[c].kind # "callback"  BY <1>0, <1>1 DEF IsSound
  <2> QED  BY <1>2, <2>1, HeardIsOpen
<1>4. /\ form' \in Form /\ form'.name = form.name
      /\ form'.up \in {form.up, calls[c].d} /\ form'.letter \in {form.letter, calls[c].d}
  <2>1. calls[c].d \in MaybeDraft  BY <1>0, FieldsOfCall
  <2>2. \/ form' = [form EXCEPT !.letter = calls[c].d]
        \/ form' = [form EXCEPT !.up = calls[c].d]
    BY DEF HearsOfFile
  <2>3. CASE form' = [form EXCEPT !.letter = calls[c].d]
    BY <1>0, <2>1, <2>3, FieldsOfForm
  <2>4. CASE form' = [form EXCEPT !.up = calls[c].d]
    BY <1>0, <2>1, <2>4, FieldsOfForm
  <2> QED  BY <2>2, <2>3, <2>4
<1>5. TabTypes'  BY <1>0, <1>2, <1>4, TabIsTyped DEF TabTypes
<1>6. moves' \in Name /\ moves' >= moves  BY <1>0, StaysNumber
<1>7. \A d \in {form'.up, form'.letter} :
           d \notin {form.up, form.letter, NoDraft} => calls[c].heard /\ d = calls[c].d
  BY <1>2, <1>4
<1>8. UNCHANGED <<page, meta, kept, crossed>> /\ Ends(c)  BY <1>2
<1> QED  BY <1>1, <1>3, <1>4, <1>5, <1>6, <1>7, <1>8, EndsInPlace

LEMMA NetsHeardKeepsIt ==
  ASSUME FormSound, NEW c \in Calls, HearsOfNets(c)
  PROVE  FormSound'
<1>0. /\ TypeOK /\ IsSound(calls[c]) /\ calls[c] \in Call /\ form \in Form
  BY DEF FormSound, FormInv, CallsAreSound, TypeOK
<1>1. UNCHANGED api /\ UNCHANGED moves /\ calls[c].step = "answer"  BY DEF HearsOfNets
<1>2. ApiGoes(c)  BY <1>1, NothingAtApi
<1>3. moves' \in Name /\ moves' >= moves  BY <1>0, <1>1, StaysNumber
<1>4. CASE Forgotten(c)  BY <1>2, <1>3, <1>4, ForgettingKeepsIt
<1>5. CASE ~Forgotten(c)
  <2>1. /\ calls[c].heard /\ Ends(c)
        /\ UNCHANGED <<page, meta, pos, sent, kept, back, crossed>>
        /\ form' = IF calls[c].base.nets = NoNets THEN form
                   ELSE [form EXCEPT !.nets = calls[c].base.nets]
    BY <1>5 DEF HearsOfNets
  <2>2. calls[c].base.nets \in NetList  BY <1>0, FieldsOfCall
  <2>3. form' \in Form /\ form'.name = form.name /\ form'.up = form.up /\ form'.letter = form.letter
    <3>1. CASE calls[c].base.nets = NoNets  BY <1>0, <2>1, <3>1
    <3>2. CASE calls[c].base.nets # NoNets
      <4>1. form' = [form EXCEPT !.nets = calls[c].base.nets]  BY <2>1, <3>2
      <4>2. calls[c].base.nets \in SUBSET Nets  BY <2>2, <3>2 DEF NetList
      <4> QED  BY <1>0, <4>1, <4>2, FieldsOfForm
    <3> QED  BY <3>1, <3>2
  <2>4. page = "open"
    <3>1. calls[c].kind # "callback"  BY <1>0, <1>1 DEF IsSound
    <3> QED  BY <2>1, <3>1, HeardIsOpen
  <2>5. TabTypes'  BY <1>0, <2>1, <2>3, TabIsTyped DEF TabTypes
  <2>6. UNCHANGED <<page, meta, kept, crossed>> /\ Ends(c) /\ form'.name = form.name
    BY <2>1, <2>3
  <2>7. \A d \in {form'.up, form'.letter} :
             d \notin {form.up, form.letter, NoDraft} => calls[c].heard /\ d = calls[c].d
    BY <2>3
  <2> QED  BY <1>2, <1>3, <2>4, <2>5, <2>6, <2>7, EndsInPlace
<1> QED  BY <1>4, <1>5

LEMMA ProposalHeardKeepsIt ==
  ASSUME FormSound, NEW c \in Calls, MakesProposal(c), HearsOfProposal(c), UNCHANGED moves
  PROVE  FormSound'
<1>0. /\ TypeOK /\ IsSound(calls[c]) /\ PagesAreSound /\ TabHasOneDraft /\ DraftsAreMade
  BY DEF FormSound, FormInv, CallsAreSound, TypeOK
<1>1. /\ ApiGoes(c) /\ calls[c].step = "create" /\ calls[c].d \in Drafts /\ Live(calls[c].d)
      /\ ~LiveNext(calls[c].d) /\ \A e \in Drafts : LiveNext(e) => Live(e)
  BY MakingProposal
<1>2. /\ calls[c].heard /\ sent' = "done" /\ meta' = NoDraft /\ Ends(c)
      /\ UNCHANGED <<page, form, pos, kept, back, crossed>>
  BY DEF HearsOfProposal
<1>3. page = "open"
  <2>1. calls[c].kind # "callback"  BY <1>0, <1>1 DEF IsSound
  <2> QED  BY <1>2, <2>1, HeardIsOpen
<1>4. /\ calls' \in [Calls -> Call] /\ \A o \in Calls : Rests(o)
  BY <1>0, <1>2, EndsGives DEF TypeOK
<1>5. TabTypes'  BY <1>0, <1>2, TabIsTyped DEF TabTypes, MaybeDraft
<1>6. PagesAreSound'  BY <1>0, <1>2, <1>3, <1>4, PagesStay
<1>7. TabHasOneDraft'
  <2> SUFFICES ASSUME ~crossed  PROVE TabHasOneDraft'
    BY <1>2 DEF TabHasOneDraft
  <2>1. \A o \in Calls : Asking(o)' => Asking(o) /\ calls'[o].kind = calls[o].kind
    BY <1>4, IdleIs DEF Rests, Same, Asking
  <2>2. \A o \in Calls : Asking(o)' =>
          meta' = NoDraft /\ calls'[o].kind # "submit" /\ \A p \in Calls : Asking(p)' => p = o
    BY <1>0, <1>2, <2>1 DEF TabHasOneDraft
  <2>3. ItsMeta' = NoDraft /\ ItsMeta = meta /\ ItsForm' = ItsForm
    BY <1>2, <1>3 DEF ItsMeta, ItsForm
  <2>4. calls[c].d \in ItsDrafts  BY <1>2 DEF ItsDrafts
  <2>5. calls[c].d = meta  BY <1>0, <1>1, <2>3, <2>4 DEF TabHasOneDraft
  <2>6. \A e \in ItsDrafts : ~LiveNext(e)
    BY <1>0, <1>1, <2>3, <2>5 DEF TabHasOneDraft, LiveNext
  <2>7. \A o \in Calls : calls'[o].heard => calls'[o].d \in ItsDrafts
    BY <1>4, IdleIs DEF Rests, Same, ItsDrafts
  <2>8. ItsDrafts' \subseteq ItsDrafts  BY <2>3, <2>7 DEF ItsDrafts
  <2> QED  BY <2>2, <2>6, <2>8 DEF TabHasOneDraft, Live, LiveNext
<1>8. {form'.up, form'.letter, kept'.form.up, kept'.form.letter, meta', kept'.meta}
           \subseteq KnownDrafts \cup {NoDraft}
  BY <1>2 DEF KnownDrafts
<1>9. \A t \in {form'.name, kept'.form.name} : t \in {0, form.name, kept.form.name}
  BY <1>2
<1>10. moves' \in Name /\ moves' >= moves  BY <1>0, StaysNumber
<1>11. crossed' \in BOOLEAN  BY <1>0, <1>2 DEF TypeOK
<1> QED  BY <1>1, <1>4, <1>5, <1>6, <1>7, <1>8, <1>9, <1>10, <1>11, OnlyTheTab

LEMMA ServiceKeepsIt ==
  ASSUME FormSound, NEW c \in Calls, Served(c)
  PROVE  FormSound'
<1>1. UNCHANGED moves /\ moves' \in Name /\ moves' >= moves
  BY StaysNumber DEF Served, FormSound, FormInv
<1>2. CASE Forgotten(c)
  <2>1. \/ \E d \in Drafts : CreatesDraft(c, d)
        \/ WritesDraft(c) \/ TakesFile(c) \/ MakesProposal(c)
    BY DEF Served
  <2>2. ApiGoes(c)  BY <2>1, Creating, Writing, TakingFile, MakingProposal
  <2> QED  BY <1>1, <1>2, <2>2, ForgettingKeepsIt
<1>3. CASE ~Forgotten(c)
  <2>1. \/ \E d \in Drafts : CreatesDraft(c, d) /\ HearsOfDraft(c, d)
        \/ WritesDraft(c) /\ HearsOfWrite(c)
        \/ TakesFile(c) /\ HearsOfFile(c)
        \/ MakesProposal(c) /\ HearsOfProposal(c)
    BY <1>3 DEF Served
  <2> QED  BY <1>1, <2>1, NewDraftHeardKeepsIt, WriteHeardKeepsIt, FileHeardKeepsIt,
              ProposalHeardKeepsIt
<1> QED  BY <1>2, <1>3

-----------------------------------------------------------------------------
(* The theorems *)

LEMMA FormStarts == Init => FormSound
<1> SUFFICES ASSUME Init  PROVE FormSound
  OBVIOUS
<1>0. /\ page = "open" /\ form = defaultForm /\ meta = NoDraft /\ pos = "fill" /\ sent = "idle"
      /\ kept = NothingKept /\ back = FALSE /\ files = {} /\ accepted = {} /\ crossed = FALSE
      /\ row = [d \in Drafts |-> [state |-> "none", data |-> NoData]]
      /\ calls = [c \in Calls |-> Idle] /\ moves = 0
  BY DEF Init
<1>1. /\ calls \in [Calls -> Call]
      /\ \A c \in Calls : calls[c] = Idle
      /\ \A c \in Calls : calls[c].heard = FALSE /\ calls[c].saved = FALSE /\ calls[c].name = 0
                          /\ calls[c].d = NoDraft /\ IsSound(calls[c])
  BY <1>0, IdleIs
<1>2. /\ row \in [Drafts -> [state : {"none", "live", "gone"}, data : Data]]
      /\ \A d \in Drafts : row[d].state = "none"
  <2>1. NoData \in Data  BY NameIs DEF NoData, Data, NetList
  <2> QED  BY <1>0, <2>1
<1>3. TypeOK
  <2>1. kept \in [form : Form, meta : MaybeDraft, pos : {"fill", "past"}]
    BY <1>0, BlankIs DEF Kept
  <2> QED  BY <1>0, <1>1, <1>2, <2>1, BlankIs, NameIs DEF TypeOK, MaybeDraft
<1>4. CallsAreSound  BY <1>1 DEF CallsAreSound
<1>5. PagesAreSound  BY <1>0, <1>1 DEF PagesAreSound
<1>6. KnownDrafts \subseteq {NoDraft} /\ ItsDrafts \subseteq {NoDraft}
  BY <1>0, <1>1, BlankIs DEF KnownDrafts, ItsDrafts, ItsForm
<1>7. DraftsAreMade  BY <1>6 DEF DraftsAreMade
<1>8. TabHasOneDraft
  BY <1>1, <1>6 DEF TabHasOneDraft, Asking, Live
<1>9. TextsAreNewer  BY <1>0, <1>1, BlankIs DEF TextsAreNewer
<1>10. SavedTextStays  BY <1>1 DEF SavedTextStays
<1>11. AcceptedIsNotOlder  BY <1>0 DEF AcceptedIsNotOlder
<1> QED  BY <1>3, <1>4, <1>5, <1>7, <1>8, <1>9, <1>10, <1>11, ShownFollowsFromOne
         DEF FormSound, FormInv

LEMMA StutterKeepsIt ==
  ASSUME FormSound, UNCHANGED vars  PROVE FormSound'
<1>1. /\ UNCHANGED <<page, form, meta, pos, sent, kept, back, api, calls, crossed, moves>>
  BY DEF vars, tab
<1>2. \A c : ApiGoes(c)  BY <1>1, NothingAtApi
<1>3. calls' \in [Calls -> Call] /\ \A o \in Calls : Rests(o)
  BY <1>1, NoCallMoves DEF FormSound, FormInv, TypeOK
<1>4. TabTypes'  BY <1>1, TabIsTyped DEF TabTypes, FormSound, FormInv
<1>5. PagesAreSound'  BY <1>1, <1>3, PagesStay DEF FormSound, FormInv
<1>6. TabHasOneDraft'
  <2>1. UNCHANGED row  BY <1>1 DEF api
  <2>2. TabHasOneDraft /\ UNCHANGED <<page, form, meta, kept, calls, crossed, row>>
    BY <1>1, <2>1 DEF FormSound, FormInv
  <2> QED  BY <2>2 DEF TabHasOneDraft, Asking, ItsDrafts, ItsForm, ItsMeta, Live
<1>7. {form'.up, form'.letter, kept'.form.up, kept'.form.letter, meta', kept'.meta}
           \subseteq KnownDrafts \cup {NoDraft}
  BY <1>1 DEF KnownDrafts
<1>8. \A t \in {form'.name, kept'.form.name} : t \in {0, form.name, kept.form.name}
  BY <1>1
<1>9. moves' \in Name /\ moves' >= moves  BY <1>1, StaysNumber DEF FormSound, FormInv
<1>10. crossed' \in BOOLEAN  BY <1>1 DEF FormSound, FormInv, TypeOK
<1> QED  BY <1>2, <1>3, <1>4, <1>5, <1>6, <1>7, <1>8, <1>9, <1>10, OnlyTheTab

LEMMA FormSteps == FormSound /\ [Next]_vars => FormSound'
<1> SUFFICES ASSUME FormSound, [Next]_vars  PROVE FormSound'
  OBVIOUS
<1>1. CASE Candidate
  <2>1. CASE Edits \/ ClicksBack \/ ClearsDocument  BY <2>1, PageKeepsIt
  <2>2. CASE Reloads  BY <2>2, ReloadKeepsIt
  <2>3. CASE Restores \/ Discards  BY <2>3, PromptKeepsIt
  <2>4. ASSUME NEW c \in Calls,
               \/ Saves(c) \/ ClicksNext(c) \/ Uploads(c) \/ UploadsLetter(c) \/ Submits(c)
               \/ Refreshes(c)
               \/ \E n \in Nets : Connects(c, n) \/ Disconnects(c, n)
        PROVE  FormSound'
    <3>1. CASE Saves(c) \/ ClicksNext(c) \/ Uploads(c)  BY <3>1, SavingKeepsIt
    <3>2. CASE UploadsLetter(c)  BY <3>2, LetterKeepsIt
    <3>3. CASE Submits(c)  BY <3>3, SubmittingKeepsIt
    <3>4. CASE Refreshes(c)  BY <3>4, RefreshKeepsIt
    <3>5. ASSUME NEW n \in Nets, Connects(c, n)  PROVE FormSound'
      BY <3>5, ConnectKeepsIt
    <3>6. ASSUME NEW n \in Nets, Disconnects(c, n)  PROVE FormSound'
      BY <3>6, DisconnectKeepsIt
    <3> QED  BY <2>4, <3>1, <3>2, <3>3, <3>4, <3>5, <3>6
  <2> QED  BY <1>1, <2>1, <2>2, <2>3, <2>4 DEF Candidate
<1>2. CASE Calling
  <2>1. PICK c \in Calls :
          ReadsDraft(c) \/ Served(c) \/ HearsOfNets(c) \/ IsRefused(c) \/ IsLost(c)
    BY <1>2 DEF Calling
  <2> QED  BY <2>1, ReadingKeepsIt, ServiceKeepsIt, NetsHeardKeepsIt, RefusalKeepsIt, LossKeepsIt
<1>3. CASE \E d \in Drafts : DraftGoes(d)  BY <1>3, ExpiryKeepsIt
<1>4. CASE UNCHANGED vars  BY <1>4, StutterKeepsIt
<1> QED  BY <1>1, <1>2, <1>3, <1>4 DEF Next

(* The form saves to the draft that it shows, its calls are what it made   *)
(* them, and a text that a submission has saved is not lost from its draft *)
(* before the proposal is made from it (CadastroForm.tsx, PublicService).  *)
THEOREM FormIsSafe == Spec => []FormInv
<1>1. FormSound => FormInv  BY DEF FormSound
<1> QED  BY <1>1, FormStarts, FormSteps, PTL DEF Spec

(* A proposal is never made from an older text than the form showed when   *)
(* it was sent, if the save that submitProposal begins with came through   *)
(* and no other writer of the draft was under way then.                    *)
THEOREM AcceptedIsWhatWasShown == Spec => []AcceptedIsNotOlder
<1>1. FormSound => AcceptedIsNotOlder  BY DEF FormSound
<1> QED  BY <1>1, FormStarts, FormSteps, PTL DEF Spec

LEMMA WriterMovesOn ==
  ASSUME FormSound, NEW c \in Calls, calls[c].step = "write", HearsOfWrite(c) \/ Fails(c)
  PROVE  calls'[c] # calls[c]
<1>0. calls \in [Calls -> Call] /\ IsSound(calls[c]) /\ calls[c] \in Call
  BY DEF FormSound, FormInv, TypeOK, CallsAreSound
<1>1. calls[c].kind \in {"sync", "next", "submit", "callback", "disconnect"}
  BY <1>0 DEF IsSound
<1>2. CASE Ends(c)  BY <1>0, <1>2, EndsGives, IdleIs
<1>3. CASE ~Ends(c)
  <2>1. \E b, s : Put(c, [calls[c] EXCEPT !.step = "propose", !.base = b, !.saved = s])
    <3>1. CASE HearsOfWrite(c)
      <4>1. calls[c].kind = "submit"  BY <1>1, <1>3, <3>1 DEF HearsOfWrite
      <4>2. Put(c, [calls[c] EXCEPT !.step = "propose", !.saved = Alone(c), !.base = NoData])
        BY <3>1, <4>1 DEF HearsOfWrite
      <4>3. [calls[c] EXCEPT !.step = "propose", !.saved = Alone(c), !.base = NoData]
              = [calls[c] EXCEPT !.step = "propose", !.base = NoData, !.saved = Alone(c)]
        BY <1>0 DEF Call
      <4> QED  BY <4>2, <4>3
    <3>2. CASE Fails(c)
      <4>1. SubmitFails(c)  BY <1>3, <3>2 DEF Fails, Forgotten, OtherFails
      <4>2. Put(c, [calls[c] EXCEPT !.step = "propose", !.base = NoData])
        BY <1>3, <4>1 DEF SubmitFails
      <4>3. [calls[c] EXCEPT !.step = "propose", !.base = NoData]
              = [calls[c] EXCEPT !.step = "propose", !.base = NoData, !.saved = calls[c].saved]
        BY <1>0 DEF Call
      <4> QED  BY <4>2, <4>3
    <3> QED  BY <3>1, <3>2
  <2>2. calls'[c].step = "propose"
    BY <1>0, <2>1 DEF Put, Call
  <2> QED  BY <2>2
<1> QED  BY <1>2, <1>3

LEMMA DataChangesByWriting ==
  ASSUME FormSound, Next, NEW d \in Drafts, Live(d), LiveNext(d), row'[d] # row[d]
  PROVE  \E c \in Calls : WritesDraft(c) /\ calls[c].d = d /\ calls'[c] # calls[c]
<1>1. ~UNCHANGED row  OBVIOUS
<1>2. ~Candidate
  BY <1>1 DEF Candidate, Edits, ClicksBack, ClearsDocument, Reloads, Restores, Discards, Saves,
     ClicksNext, Uploads, UploadsLetter, Submits, Refreshes, Connects, Disconnects, api
<1>3. ASSUME NEW e \in Drafts, DraftGoes(e)  PROVE FALSE
  <2>1. ~LiveNext(e)  BY <1>3, RowLeaves DEF DraftGoes
  <2>2. e # d  BY <2>1
  <2> QED  BY <1>3, <2>2, FormTypes DEF DraftGoes, FormSound, FormInv
<1>4. PICK c \in Calls :
          ReadsDraft(c) \/ Served(c) \/ HearsOfNets(c) \/ IsRefused(c) \/ IsLost(c)
  BY <1>2, <1>3 DEF Next, Calling
<1>5. /\ \/ \E e \in Drafts : CreatesDraft(c, e)
         \/ WritesDraft(c) \/ TakesFile(c) \/ MakesProposal(c)
      /\ WritesDraft(c) => HearsOfWrite(c) \/ Fails(c)
  <2>1. Served(c) \/ IsLost(c)
    BY <1>1, <1>4 DEF ReadsDraft, HearsOfNets, IsRefused, api
  <2>2. CASE Served(c)
    <3>1. WritesDraft(c) => ~TakesFile(c) /\ ~MakesProposal(c) /\ \A e \in Drafts : ~CreatesDraft(c, e)
      BY DEF WritesDraft, TakesFile, MakesProposal, CreatesDraft
    <3>2. /\ \/ \E e \in Drafts : CreatesDraft(c, e)
             \/ WritesDraft(c) \/ TakesFile(c) \/ MakesProposal(c)
          /\ WritesDraft(c) => HearsOfWrite(c) \/ Forgotten(c)
      BY <2>2, <3>1 DEF Served
    <3> QED  BY <3>2 DEF Fails
  <2>3. CASE IsLost(c)  BY <1>1, <2>3 DEF IsLost, api
  <2> QED  BY <2>1, <2>2, <2>3
<1>6. ASSUME NEW e \in Drafts, CreatesDraft(c, e)  PROVE FALSE
  <2>1. row[e].state = "none" /\ e # d  BY <1>6 DEF CreatesDraft, Live
  <2> QED  BY <1>6, <2>1, FormTypes DEF CreatesDraft, FormSound, FormInv
<1>7. ~TakesFile(c)  BY <1>1 DEF TakesFile
<1>8. ~MakesProposal(c)
  <2> SUFFICES ASSUME MakesProposal(c)  PROVE FALSE
    OBVIOUS
  <2>1. calls[c].d \in Drafts /\ calls[c].d # d  BY MakingProposal
  <2> QED  BY <2>1, FormTypes DEF MakesProposal, FormSound, FormInv
<1>9. WritesDraft(c) /\ calls[c].step = "write"  BY <1>5, <1>6, <1>7, <1>8 DEF WritesDraft
<1>10. calls'[c] # calls[c]  BY <1>5, <1>9, WriterMovesOn
<1>11. calls[c].d = d
  BY <1>9, FormTypes DEF WritesDraft, Live, FormSound, FormInv
<1> QED  BY <1>9, <1>10, <1>11

LEMMA NextNets ==
  ASSUME NEW k \in Call, k.kind # "callback" \/ k.net \in Nets
  PROVE  \A n \in Listed(k.base.nets) \ Listed(NextData(k).nets) :
           k.kind = "disconnect" /\ k.net = n
<1>1. k.base \in Data /\ k.base.nets \in NetList /\ k.name \in Name
  BY FieldsOfCall
<1>2. Listed(k.base.nets) \in SUBSET Nets
  BY <1>1 DEF Listed, NetList
<1>3. \A s \in SUBSET Nets : Listed(s) = s  BY DEF Listed
<1>4. CASE k.kind = "callback"
  <2>1. NextData(k) = [k.base EXCEPT !.nets = Listed(k.base.nets) \cup {k.net}]
    BY <1>4 DEF NextData, WithNet
  <2>2. NextData(k).nets = Listed(k.base.nets) \cup {k.net}  BY <1>1, <2>1 DEF Data
  <2> QED  BY <1>2, <1>3, <1>4, <2>2
<1>5. CASE k.kind = "disconnect"
  <2>1. NextData(k) = [k.base EXCEPT !.nets = Listed(k.base.nets) \ {k.net}]
    BY <1>5 DEF NextData, WithoutNet
  <2>2. NextData(k).nets = Listed(k.base.nets) \ {k.net}  BY <1>1, <2>1 DEF Data
  <2> QED  BY <1>2, <1>3, <1>5, <2>2
<1>6. CASE k.kind \notin {"callback", "disconnect"}
  <2>1. NextData(k) = IF k.name = 0 THEN k.base ELSE [k.base EXCEPT !.name = k.name]
    BY <1>6 DEF NextData, MergedData
  <2>2. NextData(k).nets = k.base.nets  BY <1>1, <2>1 DEF Data
  <2> QED  BY <2>2
<1> QED  BY <1>4, <1>5, <1>6

(* What a write does to a draft that holds the data now.                   *)
LEMMA WriteGoesBack ==
  ASSUME FormSound, NEW c \in Calls, WritesDraft(c), NEW now \in Data
  PROVE  /\ NextData(calls[c]).name < now.name =>
              calls[c].base.name < now.name \/ calls[c].name \in 1 .. now.name - 1
         /\ \A n \in Listed(now.nets) \ Listed(NextData(calls[c]).nets) :
              \/ calls[c].kind = "disconnect" /\ calls[c].net = n
              \/ n \notin Listed(calls[c].base.nets)
<1>1. calls[c] \in Call /\ (calls[c].kind # "callback" \/ calls[c].net \in Nets)
  BY DEF FormSound, FormInv, TypeOK, CallsAreSound, IsSound
<1>2. /\ calls[c].name \in Nat /\ now.name \in Nat
  BY <1>1, FieldsOfCall, NameIs DEF Data
<1>3. \/ NextData(calls[c]).name = calls[c].base.name
      \/ calls[c].name # 0 /\ NextData(calls[c]).name = calls[c].name
  BY <1>1, NextName
<1>4. NextData(calls[c]).name < now.name =>
        calls[c].base.name < now.name \/ calls[c].name \in 1 .. now.name - 1
  BY <1>2, <1>3
<1>5. \A n \in Listed(calls[c].base.nets) \ Listed(NextData(calls[c]).nets) :
        calls[c].kind = "disconnect" /\ calls[c].net = n
  BY <1>1, NextNets
<1> QED  BY <1>4, <1>5

(* A draft's text and its networks go back to what they were only by a     *)
(* call that works on a copy from before, or that was told to (updateDraft,*)
(* handleDraftCallback and disconnect read, and later write the whole).    *)
THEOREM DraftsGoBackByCrossing == Spec => DraftGoesBackOnlyByCrossing
<1> DEFINE Crossing(d, c) ==
             calls[c].step = "write" /\ calls'[c] # calls[c] /\ calls[c].d = d
           Back ==
             \A d \in Drafts : Live(d) /\ Live(d)' =>
               /\ DataOf(d)'.name < DataOf(d).name =>
                    \E c \in Calls :
                      /\ calls[c].step = "write" /\ calls'[c] # calls[c] /\ calls[c].d = d
                      /\ calls[c].base.name < DataOf(d).name \/ calls[c].name \in 1 .. DataOf(d).name - 1
               /\ \A n \in Listed(DataOf(d).nets) \ Listed(DataOf(d)'.nets) :
                    \E c \in Calls :
                      /\ calls[c].step = "write" /\ calls'[c] # calls[c] /\ calls[c].d = d
                      /\ \/ calls[c].kind = "disconnect" /\ calls[c].net = n
                         \/ n \notin Listed(calls[c].base.nets)
<1>1. FormSound /\ [Next]_vars => [Back]_vars
  <2> SUFFICES ASSUME FormSound, Next, NEW d \in Drafts, Live(d), Live(d)'
               PROVE /\ DataOf(d)'.name < DataOf(d).name =>
                          \E c \in Calls :
                            /\ Crossing(d, c)
                            /\ \/ calls[c].base.name < DataOf(d).name
                               \/ calls[c].name \in 1 .. DataOf(d).name - 1
                     /\ \A n \in Listed(DataOf(d).nets) \ Listed(DataOf(d)'.nets) :
                          \E c \in Calls :
                            /\ Crossing(d, c)
                            /\ \/ calls[c].kind = "disconnect" /\ calls[c].net = n
                               \/ n \notin Listed(calls[c].base.nets)
    OBVIOUS
  <2>1. /\ LiveNext(d) /\ DataOf(d) = row[d].data /\ DataOf(d)' = row'[d].data
        /\ row[d].data \in Data
    BY FormTypes DEF Live, LiveNext, DataOf, FormSound, FormInv
  <2>2. CASE row'[d] = row[d]
    <3>1. row[d].data.name \in Nat  BY <2>1, NameIs DEF Data
    <3> QED  BY <2>1, <2>2, <3>1
  <2>3. CASE row'[d] # row[d]
    <3>1. PICK c \in Calls : WritesDraft(c) /\ calls[c].d = d /\ calls'[c] # calls[c]
      BY <2>1, <2>3, DataChangesByWriting
    <3>2. calls[c].step = "write" /\ row'[d].data = NextData(calls[c])
      BY <3>1, Writing
    <3>3. /\ row'[d].data.name < row[d].data.name =>
               calls[c].base.name < row[d].data.name \/ calls[c].name \in 1 .. row[d].data.name - 1
          /\ \A n \in Listed(row[d].data.nets) \ Listed(row'[d].data.nets) :
               \/ calls[c].kind = "disconnect" /\ calls[c].net = n
               \/ n \notin Listed(calls[c].base.nets)
      BY <2>1, <3>1, <3>2, WriteGoesBack
    <3>4. Crossing(d, c)  BY <3>1, <3>2
    <3> HIDE DEF Crossing
    <3> QED  BY <2>1, <3>3, <3>4
  <2> QED  BY <2>2, <2>3
<1>2. [][Back]_vars => DraftGoesBackOnlyByCrossing  BY DEF DraftGoesBackOnlyByCrossing
<1> HIDE DEF Back
<1> QED  BY <1>1, <1>2, FormStarts, FormSteps, PTL DEF Spec

=============================================================================
