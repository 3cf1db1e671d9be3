---------------------------- MODULE MC_LampOutput ----------------------------
(* Levels and fades with room for roundings and for a change of mind.      *)
EXTENDS LampOutput
=============================================================================
