----------------------------- MODULE MCBrowserPage -----------------------------
(***************************************************************************)
(* BrowserPage for TLC.  No symmetry: the properties are temporal.         *)
(***************************************************************************)
EXTENDS BrowserPage

CONSTANTS d1, d2, local_scripts, screenshots

\* Two directories of a device, and one of another.
MCPlaces == {<< d1, local_scripts >>, << d1, screenshots >>, << d2, local_scripts >>}
===============================================================================
