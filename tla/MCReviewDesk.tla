---------------------------- MODULE MCReviewDesk ----------------------------
(***************************************************************************)
(* The instances of ReviewDesk that TLC checks.                            *)
(***************************************************************************)
EXTENDS ReviewDesk, TLC

(* Calls and proposals are interchangeable. *)
Symmetry == Permutations(Calls) \cup Permutations(Proposals)

=============================================================================
