----------------------------- MODULE MCDraftForm -----------------------------
(***************************************************************************)
(* The instance of DraftForm that TLC checks.                              *)
(***************************************************************************)
EXTENDS DraftForm, TLC

(* Places for calls are interchangeable, and so are the ids of drafts.     *)
Symmetry == Permutations(Calls) \cup Permutations(Drafts)

=============================================================================
