---------------------------- MODULE MCSignature ----------------------------
(***************************************************************************)
(* The instances of Signature that TLC checks.                             *)
(***************************************************************************)
EXTENDS Signature, TLC

CONSTANTS p1, e1, e2

(* Every envelope is for one proposal. *)
OneOwner == [e \in Envelopes |-> p1]

(* Requests, deliveries and the envelopes of one proposal are              *)
(* interchangeable; only runs without liveness use this.                   *)
Symmetry == Permutations(Callers) \cup Permutations(Deliveries) \cup Permutations({e1, e2})

=============================================================================
