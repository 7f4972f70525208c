----------------------------- MODULE MCRetention -----------------------------
(***************************************************************************)
(* The instances of Retention that TLC checks.                             *)
(***************************************************************************)
EXTENDS Retention
=============================================================================
