------------------------------ MODULE MCActions ------------------------------
(***************************************************************************)
(* Actions for TLC.  The .cfg files choose the bounds.                     *)
(***************************************************************************)
EXTENDS Actions
=============================================================================
