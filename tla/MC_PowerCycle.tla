--------------------------- MODULE MC_PowerCycle ---------------------------
(* Small instances of PowerCycle: a store of two records.                  *)
EXTENDS PowerCycle
=============================================================================
