-------------------------- MODULE MCSocialAccounts --------------------------
(***************************************************************************)
(* The instance of SocialAccounts that TLC checks.                         *)
(***************************************************************************)
EXTENDS SocialAccounts, TLC

(* Consents and views are interchangeable: nothing that lasts is checked.  *)
Symmetry == Permutations(Consents) \cup Permutations(Views)

=============================================================================
