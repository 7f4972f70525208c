---------------------------- MODULE MCTotvsSync ----------------------------
(***************************************************************************)
(* The instances of TotvsSync that TLC checks.                             *)
(***************************************************************************)
EXTENDS TotvsSync, TLC

(* Requests are interchangeable, and so are proposals of a like past; only *)
(* runs without liveness use this.                                         *)
Symmetry == Permutations(Requests)

=============================================================================
