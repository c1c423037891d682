------------------------------ MODULE MCRunner ------------------------------
(***************************************************************************)
(* Runner and its refinement for TLC.  The .cfg files choose the bounds.   *)
(***************************************************************************)
EXTENDS RunnerRefinement
=============================================================================
