------------------------------- MODULE NvCell -------------------------------
(***************************************************************************)
(* What the record log of APP_MEM.c promises to the rest of the firmware:  *)
(* one non-volatile cell holding the last database that was saved.  A save *)
(* is atomic: power may be cut at any moment and the next start finds the  *)
(* old database or the new one.  The cell is emptied (the next start finds *)
(* the factory default) only by a factory reset, or when its Capacity      *)
(* saves are used up and the storage has to be erased for the next one.    *)
(***************************************************************************)
EXTENDS Naturals

CONSTANTS
  Values,     \* databases the application can hold
  Def,        \* the factory default, st_MemDef
  Capacity    \* saves between two erasures

VARIABLES
  stored,     \* the database the next start will find
  used,       \* saves since the last erasure
  ram,        \* the working copy
  up          \* the device is powered

nvVars == <<stored, used, ram, up>>

\* An erased cell, or one that was saved to before.
Init ==
  /\ used \in 0 .. Capacity
  /\ IF used = 0 THEN stored = Def ELSE stored \in Values
  /\ ram \in Values /\ up = FALSE

\* A start loads the working copy from the cell.
Restart ==
  /\ ~up /\ up' = TRUE
  /\ ram' = stored
  /\ UNCHANGED <<stored, used>>

\* The application changes its working copy.
Assign ==
  /\ up
  /\ ram' \in Values
  /\ UNCHANGED <<stored, used, up>>

\* A save takes effect.
Commit ==
  /\ up
  /\ used < Capacity
  /\ stored' = ram /\ used' = used + 1
  /\ UNCHANGED <<ram, up>>

\* The storage is erased: it was full, or the default is being restored.
Vacate ==
  /\ up
  /\ used = Capacity \/ ram = Def
  /\ stored' = Def /\ used' = 0
  /\ UNCHANGED <<ram, up>>

\* Power is cut: the working copy is lost, the cell is not touched.
Crash ==
  /\ up /\ up' = FALSE
  /\ ram' \in Values
  /\ UNCHANGED <<stored, used>>

Next == Restart \/ Assign \/ Commit \/ Vacate \/ Crash

Spec == Init /\ [][Next]_nvVars
=============================================================================
