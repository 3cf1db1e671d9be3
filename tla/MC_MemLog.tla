----------------------------- MODULE MC_MemLog -----------------------------
(* Small instances of MemLog: three records, three databases.             *)
EXTENDS MemLog
CONSTANTS d, a, b
MCValues == {d, a, b}
=============================================================================
