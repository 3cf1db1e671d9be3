------------------------------- MODULE MemLog -------------------------------
(***************************************************************************)
(* APP_MEM.c: the database gst_AppMemDB is kept in flash as a log of       *)
(* records.  A save appends one record to the main sector; when the sector *)
(* is full the record is first put in the backup sector, the main sector   *)
(* is erased and the record is written again at index 0.  A start scans    *)
(* the main sector for the last record whose checksum is right.            *)
(*                                                                         *)
(* One action is one flash operation, because power can be cut between any *)
(* two of them.  Everything else the handlers do runs to completion in the *)
(* SDK's single event loop.  Records are members of Values: the checksum   *)
(* is taken to tell a complete record from anything else.                  *)
(***************************************************************************)
EXTENDS Naturals, FiniteSets

CONSTANTS
  Values,           \* contents of gst_AppMemDB
  Def,              \* st_MemDef
  RECORD_DATA_NUM,  \* records in the main sector
  TailLen,          \* bytes of the sector after its last record
  Blank, Torn,      \* an erased slot; a slot whose checksum is wrong
  MaxEvt,           \* bound on queued EVT_MEM_SAVE events
  MaxSet,           \* bound on changes of the database
  MaxLoss           \* bound on power losses

ASSUME ValuesAssumption ==
  Def \in Values /\ Blank \notin Values /\ Torn \notin Values /\ Blank # Torn
ASSUME GeometryAssumption == RECORD_DATA_NUM \in Nat \ {0} /\ TailLen \in Nat
ASSUME BoundsAssumption == MaxEvt \in Nat /\ MaxSet \in Nat /\ MaxLoss \in Nat

VARIABLES
  pc,     \* the flash operation MEM_Write or MEM_Erase is about to do
  main,   \* NVM_UESR_DATA_ADDR: the records of the main sector
  bk,     \* NVM_UESR_DATA_ADDR_BK: the record of the backup sector
  db,     \* gst_AppMemDB
  cur,    \* gst_AppMemTB.usCurIndex
  timer,  \* s_Save_Timer
  evt,    \* queued EVT_MEM_SAVE events
  sets, losses   \* counters for the bounds

flash == <<main, bk>>
ram == <<db, cur, timer, evt>>
vars == <<pc, main, bk, db, cur, timer, evt, sets, losses>>

Slot == 0 .. RECORD_DATA_NUM - 1
Content == Values \cup {Blank, Torn}

TypeOK ==
  /\ pc \in {"off", "run", "bkErase", "bkWrite", "erase", "write"}
  /\ main \in [Slot -> Content] /\ bk \in Content
  /\ db \in Values /\ cur \in 0 .. RECORD_DATA_NUM
  /\ timer \in {"stopped", "running"} /\ evt \in 0 .. MaxEvt
  /\ sets \in 0 .. MaxSet /\ losses \in 0 .. MaxLoss

\* A device with erased flash, before its first start.
Init ==
  /\ pc = "off"
  /\ main = [i \in Slot |-> Blank] /\ bk = Blank
  /\ db = Def /\ cur = 0 /\ timer = "stopped" /\ evt = 0
  /\ sets = 0 /\ losses = 0

-----------------------------------------------------------------------------
(* Reading.                                                                *)

\* The bytes MEM_Read looks at for index RECORD_DATA_NUM, which is meant to be
\* the backup sector: they begin right after the last record of the main
\* sector, so they are the backup record only if no tail is left.
BackupRead(b) == IF TailLen = 0 THEN b ELSE Torn

\* The scan of APP_MEM_Init stops at k in sector m: the first record that is
\* not good.
ScanStop(m, k) ==
  /\ \A i \in Slot : i < k => m[i] \in Values
  /\ k \in Slot => m[k] \notin Values

ScanLen(m) == CHOOSE k \in 0 .. RECORD_DATA_NUM : ScanStop(m, k)

\* The database the next start would load.
Recovered ==
  LET k == ScanLen(main)
  IN  IF k \in {0, RECORD_DATA_NUM} /\ BackupRead(bk) \in Values THEN BackupRead(bk)
      ELSE IF k = 0 THEN Def ELSE main[k - 1]

-----------------------------------------------------------------------------
(* APP_MEM_Init                                                            *)

\* Index 0 is bad: take the backup or the default and reformat the sector.
BootReformat ==
  /\ pc = "off" /\ ScanStop(main, 0)
  /\ db' = IF BackupRead(bk) \in Values THEN BackupRead(bk) ELSE Def
  /\ cur' = 0 /\ pc' = "erase"
  /\ UNCHANGED <<flash, timer, evt, sets, losses>>

\* Mutants: the record before the newest; the cursor left on the newest.
BootScanOlder(k) ==
  /\ pc = "off" /\ ScanStop(main, k)
  /\ db' = main[IF k > 1 THEN k - 2 ELSE 0] /\ cur' = k /\ pc' = "run"
  /\ UNCHANGED <<flash, timer, evt, sets, losses>>
BootScanBehind(k) ==
  /\ pc = "off" /\ ScanStop(main, k)
  /\ db' = main[k - 1] /\ cur' = k - 1 /\ pc' = "run"
  /\ UNCHANGED <<flash, timer, evt, sets, losses>>

\* Index k is the first bad one: the record before it is the last saved.
BootScan(k) ==
  /\ pc = "off" /\ ScanStop(main, k)
  /\ db' = main[k - 1] /\ cur' = k /\ pc' = "run"
  /\ UNCHANGED <<flash, timer, evt, sets, losses>>

\* Mutant: no way on when the backup is bad.
BootFullStuck ==
  /\ pc = "off" /\ ScanStop(main, RECORD_DATA_NUM) /\ BackupRead(bk) \in Values
  /\ db' = BackupRead(bk) /\ cur' = 0 /\ pc' = "erase"
  /\ UNCHANGED <<flash, timer, evt, sets, losses>>

\* Every record is good: a good backup is taken for a wrap that was cut short.
BootFull ==
  /\ pc = "off" /\ ScanStop(main, RECORD_DATA_NUM)
  /\ IF BackupRead(bk) \in Values
       THEN db' = BackupRead(bk) /\ cur' = 0 /\ pc' = "erase"
       ELSE db' = main[RECORD_DATA_NUM - 1] /\ cur' = RECORD_DATA_NUM /\ pc' = "run"
  /\ UNCHANGED <<flash, timer, evt, sets, losses>>

-----------------------------------------------------------------------------
(* MEM_Write and MEM_Erase, one flash operation at a time                  *)

\* Mutants: one record too many; no backup before the erasure.
MEM_WriteLate == pc' = IF cur > RECORD_DATA_NUM THEN "bkErase" ELSE "write"
MEM_WriteNoBackup == pc' = IF cur >= RECORD_DATA_NUM THEN "erase" ELSE "write"

\* MEM_Write is called: its first flash operation depends on the cursor.
MEM_Write == pc' = IF cur >= RECORD_DATA_NUM THEN "bkErase" ELSE "write"

BackupErase ==
  /\ pc = "bkErase" /\ pc' = "bkWrite"
  /\ bk' = Blank
  /\ UNCHANGED <<main, ram, sets, losses>>

BackupWrite ==
  /\ pc = "bkWrite" /\ pc' = "erase"
  /\ bk' = db
  /\ UNCHANGED <<main, ram, sets, losses>>

MEM_Erase ==
  /\ pc = "erase" /\ pc' = "write"
  /\ main' = [i \in Slot |-> Blank] /\ cur' = 0
  /\ UNCHANGED <<bk, db, timer, evt, sets, losses>>

\* Programming flash only clears bits: what a slot may hold after v was
\* written over its content.
Program(content, v) == IF content = Blank THEN {v} ELSE {v, Torn}

\* The write, the read-back and the comparison; the cursor moves on a match.
RecordWrite ==
  /\ pc = "write" /\ pc' = "run"
  /\ \E c \in Program(main[cur], db) :
       /\ main' = [main EXCEPT ![cur] = c]
       /\ cur' = IF c = db THEN cur + 1 ELSE cur
  /\ UNCHANGED <<bk, db, timer, evt, sets, losses>>

-----------------------------------------------------------------------------
(* The callers                                                             *)

\* Mutant: a delay that is running is stopped and not started again.
SlowSaveStops(v) ==
  /\ pc = "run" /\ sets < MaxSet
  /\ db' = v /\ timer' = (IF timer = "running" THEN "stopped" ELSE "running") /\ sets' = sets + 1
  /\ UNCHANGED <<pc, flash, cur, evt, losses>>

\* A module changes the database and asks for it to be saved in 3 s: the
\* one-shot timer is stopped and started.
SlowSave(v) ==
  /\ pc = "run" /\ sets < MaxSet
  /\ db' = v /\ timer' = "running" /\ sets' = sets + 1
  /\ UNCHANGED <<pc, flash, cur, evt, losses>>

\* A module changes the database and saves it in the same call.
FastSave(v) ==
  /\ pc = "run" /\ sets < MaxSet
  /\ db' = v /\ sets' = sets + 1 /\ MEM_Write
  /\ UNCHANGED <<flash, cur, timer, evt, losses>>

FactoryReset ==
  /\ pc = "run" /\ sets < MaxSet
  /\ db' = Def /\ cur' = 0 /\ pc' = "erase" /\ sets' = sets + 1
  /\ UNCHANGED <<flash, timer, evt, losses>>

\* Mutant: the timer's event is not posted.
SaveTimerSilent ==
  /\ pc = "run" /\ timer = "running" /\ evt < MaxEvt
  /\ timer' = "stopped"
  /\ UNCHANGED <<pc, flash, db, cur, evt, sets, losses>>

SaveTimer ==
  /\ pc = "run" /\ timer = "running" /\ evt < MaxEvt
  /\ timer' = "stopped" /\ evt' = evt + 1
  /\ UNCHANGED <<pc, flash, db, cur, sets, losses>>

MemTask ==
  /\ pc = "run" /\ evt > 0
  /\ evt' = evt - 1 /\ MEM_Write
  /\ UNCHANGED <<flash, db, cur, timer, sets, losses>>

\* Power is cut.  The slot being programmed may be left torn; RAM, timers
\* and queued events are gone.
PowerLoss ==
  /\ pc # "off" /\ losses < MaxLoss
  /\ pc' = "off" /\ losses' = losses + 1
  /\ db' = Def /\ cur' = 0 /\ timer' = "stopped" /\ evt' = 0
  /\ \/ UNCHANGED flash
     \/ pc = "write" /\ main' = [main EXCEPT ![cur] = Torn] /\ UNCHANGED bk
     \/ pc = "bkWrite" /\ bk' = Torn /\ UNCHANGED main
  /\ UNCHANGED sets

Boot == BootReformat \/ BootFull \/ \E k \in 1 .. RECORD_DATA_NUM - 1 : BootScan(k)
Flash == BackupErase \/ BackupWrite \/ MEM_Erase \/ RecordWrite
Call == FactoryReset \/ \E v \in Values : SlowSave(v) \/ FastSave(v)

Next == Boot \/ Flash \/ Call \/ SaveTimer \/ MemTask \/ PowerLoss

\* A powered device runs its code; the SDK fires timers and delivers events.
Fairness == WF_vars(Boot) /\ WF_vars(Flash) /\ WF_vars(SaveTimer) /\ WF_vars(MemTask)

Spec == Init /\ [][Next]_vars
FairSpec == Spec /\ Fairness

-----------------------------------------------------------------------------
(* Properties                                                              *)

\* Sector m is n good records, at most one slot that is not clean, and erased
\* slots.
Log(m, n) ==
  /\ \A i \in Slot : i < n => m[i] \in Values
  /\ \A i \in Slot : i = n => m[i] \in {Blank, Torn}
  /\ \A i \in Slot : i > n => m[i] = Blank

\* Whatever sequence of saves, resets and power losses came before, the
\* records of the main sector are contiguous, and outside an erasure the
\* cursor is just past the last good one: MEM_Write never overwrites a good
\* record and the scan of APP_MEM_Init never stops short of the newest one.
LogShape ==
  /\ \E n \in 0 .. RECORD_DATA_NUM : Log(main, n)
  /\ pc \in {"run", "bkErase", "bkWrite", "write"} => Log(main, cur)
  /\ pc \in {"bkErase", "bkWrite"} => cur = RECORD_DATA_NUM
  /\ pc = "write" => cur < RECORD_DATA_NUM

\* MEM_Write puts the record in the backup sector before it lets the main
\* sector be erased: from the decision to erase until the first record is
\* back, the database being saved is in the backup sector or is the default.
CopyBeforeErase ==
  pc = "erase" \/ (pc = "write" /\ cur = 0) => bk = db \/ db = Def

\* The purpose of the backup sector (MEM_MAP.h:29): power cut while the log
\* wraps, when the main sector holds no record, does not lose the database,
\* the next start finds the record being saved.
BackupCoversWrap ==
  pc = "write" /\ cur = 0 /\ db # Def => Recovered = db

\* A save fails its read-back only over a slot that a power loss left torn,
\* and never costs the record saved before it.
FailedSaveIsHarmless ==
  [][pc = "write" /\ pc' = "run" /\ cur' = cur
       => main[cur] = Torn /\ Recovered' = Recovered]_vars

\* A save is in flash when the call returns ("fast save, no 3 s wait",
\* APP_MEM.c:553): no caller of MEM_Write looks at its result.
SaveLands == [][pc = "write" /\ pc' = "run" => Recovered' = db]_vars

\* Nothing is left unsaved in silence: while neither the delay of a save nor its
\* event is pending, the next start finds the database the application works
\* with, unless the write met the slot that a power loss left torn.
IdleIsSaved ==
  pc = "run" /\ timer = "stopped" /\ evt = 0 =>
    Recovered = db \/ (cur \in Slot /\ main[cur] = Torn)

\* A delayed save reaches flash once the database is left alone, unless
\* power is lost first or the next slot is torn.
SlowSaveLands ==
  (timer = "running") ~> (\/ Recovered = db
                          \/ pc = "off"
                          \/ cur \in Slot /\ main[cur] = Torn)

\* Every start ends with the application running, however often it is cut.
StartCompletes == (pc = "off") ~> (pc = "run")

NV == INSTANCE NvCell WITH
        Capacity <- RECORD_DATA_NUM, stored <- Recovered, ram <- db,
        used <- ScanLen(main),
        up <- pc # "off"

\* The log implements the non-volatile cell.
ImplementsNvCell == NV!Spec
=============================================================================
