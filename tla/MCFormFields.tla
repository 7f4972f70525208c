---------------------------- MODULE MCFormFields ----------------------------
(***************************************************************************)
(* The fields of the candidate's form that are filled in from elsewhere:   *)
(* those that a document is read for (OcrReading) and those of the address *)
(* (AddressFields).  What they share is the CEP of a proof of residence,   *)
(* which is ReadingFillsCep there, so each is followed with the other at   *)
(* rest.  Names of three letters, of which one may differ; two CEPs.       *)
(***************************************************************************)
EXTENDS OcrReading, AddressFields

Ana == <<"a", "n", "a">>
Ane == <<"a", "n", "e">>
Nia == <<"n", "i", "a">>

(* An RG as it should be; a CNH with few letters and a CPF misread, so     *)
(* that its check digits are wrong; an image that is too small.            *)
MCPapers ==
  { [small |-> FALSE, few |-> FALSE, name |-> Ana, cpf |-> "good", rg |-> 2, cnh |-> 1],
    [small |-> FALSE, few |-> TRUE, name |-> Nia, cpf |-> "bad", rg |-> 1, cnh |-> 2],
    [small |-> TRUE, few |-> FALSE, name |-> <<>>, cpf |-> "none", rg |-> 0, cnh |-> 0] }

(* The name typed is off by one letter from one read. *)
MCTyped == {Ane}

VARIABLE followed

fieldsVars == <<followed, readingVars, addressVars>>

FieldsInit ==
  /\ followed \in {"documents", "address"}
  /\ ReadingInit /\ AddressInit
  /\ fields.cpf = NoCpf
  /\ followed = "address" => vision

FieldsNext ==
  \/ followed = "documents" /\ ReadingNext /\ UNCHANGED <<followed, addressVars>>
  \/ followed = "address" /\ AddressNext /\ UNCHANGED <<followed, readingVars>>

(* The page's own steps are fair as in OcrReading. *)
FieldsSpec == FieldsInit /\ [][FieldsNext]_fieldsVars /\ WF_readingVars(Own)

(* The invariants of both: the types, a document shown as uploaded is in   *)
(* the storage, and the form knows what is not saved; with what makes it   *)
(* so, and with AddressIsOfItsCep, this is inductive.                      *)
FieldsInv ==
  /\ ReadingTypeOK /\ WidgetIsSound /\ LooksAreSound /\ ShownIsStored
  /\ AddressTypeOK /\ UnsavedIsDirty
=============================================================================
