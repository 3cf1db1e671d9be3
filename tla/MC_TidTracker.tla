--------------------------- MODULE MC_TidTracker ---------------------------
(* Two clients and a clock that wraps every few windows.                   *)
EXTENDS TidTracker
=============================================================================
