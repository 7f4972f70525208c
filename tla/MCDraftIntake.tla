---------------------------- MODULE MCDraftIntake ----------------------------
(***************************************************************************)
(* The instances of DraftIntake that TLC checks: the candidate chose CNH,  *)
(* which is required and goes to OCR; a second document that is neither    *)
(* may come before the submission, during it or after it.                  *)
(***************************************************************************)
EXTENDS DraftIntake, TLC

CONSTANTS s1, s2, doc1

TypeOfDoc == [doc \in Docs |-> IF doc = doc1 THEN "CNH" ELSE "RESIDENCIA"]

SameEmail == [d \in Drafts |-> "a"]

(* The two submissions are interchangeable.                                *)
Symmetry == Permutations({s1, s2})

=============================================================================
