------------------------------ MODULE MCNotices ------------------------------
(***************************************************************************)
(* The instance of Notices that TLC checks.                                *)
(***************************************************************************)
EXTENDS Notices
=============================================================================
