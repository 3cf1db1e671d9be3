--------------------------- MODULE MemLog_proofs ---------------------------
(***************************************************************************)
(* Proofs about the record log, for any number of records, any set of      *)
(* databases and any geometry of the sector.                               *)
(***************************************************************************)
EXTENDS MemLog, TLAPS

\* What MEM_Write may leave in a slot is a record or a torn slot.
LEMMA ProgramContent ==
  ASSUME NEW content, NEW v \in Values, NEW c \in Program(content, v)
  PROVE  c \in {v, Torn} /\ (content = Blank => c = v)
BY DEF Program

LEMMA BlankLog == Log([i \in Slot |-> Blank], 0)
BY GeometryAssumption DEF Log, Slot

\* The slot at the end of the log is programmed: the log grows by a record, or
\* keeps its length and ends in a torn slot.
LEMMA ProgramLog ==
  ASSUME NEW m \in [Slot -> Content], NEW n \in Slot, Log(m, n), NEW c
  PROVE  /\ c \in Values => Log([m EXCEPT ![n] = c], n + 1)
         /\ c = Torn => Log([m EXCEPT ![n] = c], n)
BY GeometryAssumption DEF Log, Slot

\* The scan of APP_MEM_Init stops at one place only, the end of the log.
LEMMA ScanUnique ==
  ASSUME NEW m, NEW j \in 0 .. RECORD_DATA_NUM, NEW k \in 0 .. RECORD_DATA_NUM,
         ScanStop(m, j), ScanStop(m, k)
  PROVE  j = k
BY GeometryAssumption DEF ScanStop, Slot

LEMMA LogScan ==
  ASSUME NEW m, NEW k \in 0 .. RECORD_DATA_NUM, Log(m, k)
  PROVE  ScanStop(m, k) /\ ScanLen(m) = k
<1>1. ScanStop(m, k)
  BY ValuesAssumption DEF Log, ScanStop, Slot
<1> QED
  BY <1>1, ScanUnique DEF ScanLen

\* Where the scan stops, the log ends.
LEMMA ScanLog ==
  ASSUME LogShape, NEW k \in 0 .. RECORD_DATA_NUM, ScanStop(main, k)
  PROVE  Log(main, k)
BY LogScan, ScanUnique DEF LogShape

-----------------------------------------------------------------------------
(* The shape of the log.                                                   *)

LEMMA InitShape == Init => TypeOK /\ LogShape
<1> SUFFICES ASSUME Init PROVE TypeOK /\ LogShape
  OBVIOUS
<1>1. TypeOK
  BY ValuesAssumption, GeometryAssumption, BoundsAssumption
  DEF Init, TypeOK, Slot, Content
<1>2. Log(main, 0)
  BY BlankLog DEF Init
<1> QED
  BY <1>1, <1>2, GeometryAssumption DEF LogShape, Init

LEMMA NextShape == TypeOK /\ LogShape /\ [Next]_vars => (TypeOK /\ LogShape)'
<1> SUFFICES ASSUME TypeOK, LogShape, [Next]_vars
             PROVE  TypeOK' /\ LogShape'
  OBVIOUS
<1> USE ValuesAssumption, GeometryAssumption, BoundsAssumption
<1> USE DEF TypeOK, Content, flash, ram
<1>0. ASSUME NEW n \in 0 .. RECORD_DATA_NUM, Log(main', n),
             pc' = "run" => n = cur', pc' \in {"off", "run", "erase"}
      PROVE  LogShape'
  BY <1>0 DEF LogShape
<1>1. CASE BootReformat
  <2>1. TypeOK'
    BY <1>1 DEF BootReformat
  <2> QED
    BY <1>0, <1>1, <2>1 DEF BootReformat, LogShape
<1>2. ASSUME NEW k \in 1 .. RECORD_DATA_NUM - 1, BootScan(k)
      PROVE  TypeOK' /\ LogShape'
  <2>1. Log(main, k)
    BY <1>2, ScanLog DEF BootScan
  <2>2. main[k - 1] \in Values
    BY <2>1 DEF Log, Slot
  <2> QED
    BY <1>0, <1>2, <2>1, <2>2 DEF BootScan
<1>3. CASE BootFull
  <2>1. Log(main, RECORD_DATA_NUM)
    BY <1>3, ScanLog DEF BootFull
  <2>2. main[RECORD_DATA_NUM - 1] \in Values
    BY <2>1 DEF Log, Slot
  <2> QED
    BY <1>0, <1>3, <2>1, <2>2 DEF BootFull
<1>4. CASE BackupErase
  BY <1>4 DEF BackupErase, LogShape
<1>5. CASE BackupWrite
  BY <1>5 DEF BackupWrite, LogShape
<1>6. CASE MEM_Erase
  <2>1. Log(main', 0)
    BY <1>6, BlankLog DEF MEM_Erase
  <2> QED
    BY <1>6, <2>1 DEF MEM_Erase, LogShape
<1>7. CASE RecordWrite
  <2>1. PICK c \in Program(main[cur], db) :
          /\ main' = [main EXCEPT ![cur] = c]
          /\ cur' = IF c = db THEN cur + 1 ELSE cur
    BY <1>7 DEF RecordWrite
  <2>2. cur \in Slot /\ Log(main, cur) /\ pc' = "run"
    BY <1>7 DEF RecordWrite, LogShape, Slot
  <2>3. c \in {db, Torn}
    BY <2>1, ProgramContent
  <2>4. Log(main', cur')
    BY <2>1, <2>2, <2>3, ProgramLog
  <2>5. cur' \in 0 .. RECORD_DATA_NUM
    BY <2>1, <2>2 DEF Slot
  <2>6. TypeOK'
    BY <1>7, <2>1, <2>3, <2>5 DEF RecordWrite
  <2> QED
    BY <1>0, <2>2, <2>4, <2>5, <2>6
<1>8. CASE FactoryReset
  BY <1>8 DEF FactoryReset, LogShape
<1>9. ASSUME NEW v \in Values, SlowSave(v)
      PROVE  TypeOK' /\ LogShape'
  BY <1>9 DEF SlowSave, LogShape
<1>10. ASSUME NEW v \in Values, FastSave(v)
       PROVE  TypeOK' /\ LogShape'
  BY <1>10 DEF FastSave, MEM_Write, LogShape
<1>11. CASE SaveTimer
  BY <1>11 DEF SaveTimer, LogShape
<1>12. CASE MemTask
  BY <1>12 DEF MemTask, MEM_Write, LogShape
<1>13. CASE PowerLoss
  <2>1. PICK n \in 0 .. RECORD_DATA_NUM : Log(main, n)
    BY DEF LogShape
  <2>2. CASE UNCHANGED main
    BY <1>0, <1>13, <2>1, <2>2 DEF PowerLoss
  <2>3. CASE pc = "write" /\ main' = [main EXCEPT ![cur] = Torn]
    <3>1. cur \in Slot /\ Log(main, cur)
      BY <2>3 DEF LogShape, Slot
    <3>2. Log(main', cur)
      BY <2>3, <3>1, ProgramLog
    <3> QED
      BY <1>0, <1>13, <2>3, <3>1, <3>2 DEF PowerLoss
  <2> QED
    BY <1>13, <2>2, <2>3 DEF PowerLoss
<1>14. CASE UNCHANGED vars
  BY <1>14 DEF vars, LogShape
<1> QED
  BY <1>1, <1>2, <1>3, <1>4, <1>5, <1>6, <1>7, <1>8, <1>9, <1>10, <1>11,
     <1>12, <1>13, <1>14
  DEF Next, Boot, Flash, Call

(***************************************************************************)
(* Every variable keeps its type: in particular usCurIndex stays within    *)
(* 0..RECORD_DATA_NUM, so that no record is written outside the sector.    *)
(***************************************************************************)
THEOREM TypeCorrect == Spec => []TypeOK
<1> QED
  BY InitShape, NextShape, PTL DEF Spec

(***************************************************************************)
(* The records of the main sector stay contiguous and the cursor stays     *)
(* just past the newest, through any sequence of saves, resets and power   *)
(* losses.                                                                 *)
(***************************************************************************)
THEOREM LogShapeHolds == Spec => []LogShape
<1> QED
  BY InitShape, NextShape, PTL DEF Spec

(***************************************************************************)
(* A write that fails its read-back found the slot torn, for the cursor is *)
(* on the end of the log; it leaves the slot as it was, and with it what   *)
(* the next start loads, in every geometry.                                *)
(***************************************************************************)
THEOREM FailedSaveIsHarmlessHolds == Spec => FailedSaveIsHarmless
<1>1. TypeOK /\ LogShape /\ [Next]_vars =>
        [pc = "write" /\ pc' = "run" /\ cur' = cur
           => main[cur] = Torn /\ Recovered' = Recovered]_vars
  <2> SUFFICES ASSUME TypeOK, LogShape, Next, pc = "write", pc' = "run", cur' = cur
               PROVE  main[cur] = Torn /\ Recovered' = Recovered
    OBVIOUS
  <2>1. RecordWrite
    BY DEF Next, Boot, BootReformat, BootFull, BootScan, Flash, BackupErase, BackupWrite, MEM_Erase,
           Call, FactoryReset, SlowSave, FastSave, SaveTimer, MemTask, PowerLoss
  <2>2. PICK c \in Program(main[cur], db) :
          /\ main' = [main EXCEPT ![cur] = c]
          /\ cur' = IF c = db THEN cur + 1 ELSE cur
    BY <2>1 DEF RecordWrite
  <2>3. cur \in Slot /\ Log(main, cur)
    BY GeometryAssumption DEF TypeOK, LogShape, Slot
  <2>4. c # db
    BY <2>2, <2>3, GeometryAssumption DEF Slot
  <2>5. c = Torn /\ main[cur] # Blank
    BY <2>2, <2>4, ProgramContent DEF TypeOK
  <2>6. main[cur] = Torn
    BY <2>3, <2>5 DEF Log
  <2>7. main' = main /\ bk' = bk
    BY <2>1, <2>2, <2>5, <2>6 DEF RecordWrite, TypeOK
  <2> QED
    BY <2>6, <2>7 DEF Recovered
<1> QED
  BY <1>1, InitShape, NextShape, PTL DEF Spec, FailedSaveIsHarmless

-----------------------------------------------------------------------------
(* The copy made before an erasure.                                        *)

\* A running device has at least one record, and the first record of a
\* formatted sector is written on erased flash, so that this write succeeds
\* and the copy is not needed again.
FirstRecord ==
  /\ pc \in {"run", "bkErase", "bkWrite"} => cur > 0
  /\ pc = "write" /\ cur = 0 => main[0] = Blank

CopyInv == CopyBeforeErase /\ FirstRecord

LEMMA NextCopy ==
  TypeOK /\ LogShape /\ CopyInv /\ [Next]_vars => CopyInv'
<1> SUFFICES ASSUME TypeOK, LogShape, CopyInv, [Next]_vars
             PROVE  CopyInv'
  OBVIOUS
<1> USE ValuesAssumption, GeometryAssumption
<1> USE DEF TypeOK, CopyInv, CopyBeforeErase, FirstRecord, flash, ram
<1>1. CASE BootReformat
  BY <1>1 DEF BootReformat, BackupRead
<1>2. ASSUME NEW k \in 1 .. RECORD_DATA_NUM - 1, BootScan(k)
      PROVE  CopyInv'
  BY <1>2 DEF BootScan
<1>3. CASE BootFull
  BY <1>3 DEF BootFull, BackupRead
<1>4. CASE BackupErase
  BY <1>4 DEF BackupErase
<1>5. CASE BackupWrite
  BY <1>5 DEF BackupWrite
<1>6. CASE MEM_Erase
  BY <1>6 DEF MEM_Erase, Slot
<1>7. CASE RecordWrite
  <2>1. PICK c \in Program(main[cur], db) :
          cur' = IF c = db THEN cur + 1 ELSE cur
    BY <1>7 DEF RecordWrite
  <2>2. cur = 0 => cur' = 1
    BY <1>7, <2>1, ProgramContent DEF RecordWrite
  <2> QED
    BY <1>7, <2>1, <2>2 DEF RecordWrite
<1>8. CASE FactoryReset
  BY <1>8 DEF FactoryReset
<1>9. ASSUME NEW v \in Values, SlowSave(v)
      PROVE  CopyInv'
  BY <1>9 DEF SlowSave
<1>10. ASSUME NEW v \in Values, FastSave(v)
       PROVE  CopyInv'
  BY <1>10 DEF FastSave, MEM_Write
<1>11. CASE SaveTimer
  BY <1>11 DEF SaveTimer
<1>12. CASE MemTask
  BY <1>12 DEF MemTask, MEM_Write
<1>13. CASE PowerLoss
  BY <1>13 DEF PowerLoss
<1>14. CASE UNCHANGED vars
  BY <1>14 DEF vars
<1> QED
  BY <1>1, <1>2, <1>3, <1>4, <1>5, <1>6, <1>7, <1>8, <1>9, <1>10, <1>11,
     <1>12, <1>13, <1>14
  DEF Next, Boot, Flash, Call

(***************************************************************************)
(* In every geometry, while the main sector holds no record the database   *)
(* being saved is in the backup sector, or is the factory default: the     *)
(* bytes are there, whether or not APP_MEM_Init reads them.                *)
(***************************************************************************)
THEOREM CopyBeforeEraseHolds == Spec => []CopyBeforeErase
<1>1. Init => CopyInv
  BY DEF Init, CopyInv, CopyBeforeErase, FirstRecord
<1> QED
  BY <1>1, InitShape, NextShape, NextCopy, PTL DEF Spec, CopyInv

(***************************************************************************)
(* What the backup sector is for (MEM_MAP.h:29) it would do if the records *)
(* filled the main sector to its last byte, so that index RECORD_DATA_NUM  *)
(* were the backup sector: power cut while the sector holds no record      *)
(* would lose nothing.  The bytes left after the last record are the whole *)
(* reason why the build does not meet BackupCoversWrap.                    *)
(***************************************************************************)
THEOREM BackupCoversWrapIfReached == TailLen = 0 /\ Spec => []BackupCoversWrap
<1> SUFFICES ASSUME TailLen = 0 PROVE Spec => []BackupCoversWrap
  OBVIOUS
<1>1. Init => CopyInv
  BY DEF Init, CopyInv, CopyBeforeErase, FirstRecord
<1>2. ASSUME TypeOK, LogShape, CopyInv, pc = "write", cur = 0, db # Def
      PROVE  Recovered = db
  <2>1. ScanLen(main) = 0
    BY <1>2, LogScan, GeometryAssumption DEF LogShape
  <2>2. BackupRead(bk) = db /\ db \in Values
    BY <1>2 DEF BackupRead, CopyInv, CopyBeforeErase, TypeOK
  <2> QED
    BY <2>1, <2>2 DEF Recovered
<1>3. TypeOK /\ LogShape /\ CopyInv => BackupCoversWrap
  BY <1>2 DEF BackupCoversWrap
<1> QED
  BY <1>1, <1>3, InitShape, NextShape, NextCopy, PTL DEF Spec

-----------------------------------------------------------------------------
(* The log implements the non-volatile cell of NvCell.                     *)

\* In the geometry of the build, where the backup sector is not reached by
\* the scan, the next start loads the newest record of the main sector.
LEMMA RecoveredNewest ==
  ASSUME TailLen # 0, NEW k \in 0 .. RECORD_DATA_NUM, Log(main, k)
  PROVE  Recovered = IF k = 0 THEN Def ELSE main[k - 1]
BY LogScan, ValuesAssumption DEF Recovered, BackupRead

LEMMA RecoveredNewestNext ==
  ASSUME TailLen # 0, NEW k \in 0 .. RECORD_DATA_NUM, Log(main', k)
  PROVE  Recovered' = IF k = 0 THEN Def ELSE main'[k - 1]
BY LogScan, ValuesAssumption DEF Recovered, BackupRead

\* Why the main sector is about to be erased: it is full, or the factory
\* default is being restored.
EraseReason == pc = "erase" => Log(main, RECORD_DATA_NUM) \/ db = Def

LEMMA NextReason ==
  TailLen # 0 /\ TypeOK /\ LogShape /\ EraseReason /\ [Next]_vars => EraseReason'
<1> SUFFICES ASSUME TailLen # 0, TypeOK, LogShape, EraseReason, [Next]_vars
             PROVE  EraseReason'
  OBVIOUS
<1>1. CASE BackupWrite
  BY <1>1 DEF BackupWrite, EraseReason, LogShape, ram
<1>2. CASE BootReformat
  BY <1>2, ValuesAssumption DEF BootReformat, BackupRead, EraseReason
<1>3. CASE BootFull
  BY <1>3, ValuesAssumption DEF BootFull, BackupRead, EraseReason
<1>4. CASE FactoryReset
  BY <1>4 DEF FactoryReset, EraseReason
<1>5. CASE UNCHANGED vars
  BY <1>5 DEF vars, EraseReason
<1>6. CASE pc' # "erase"
  BY <1>6 DEF EraseReason
<1>7. BackupErase \/ MEM_Erase \/ RecordWrite \/ MemTask \/ SaveTimer \/ PowerLoss
        => pc' # "erase"
  BY DEF BackupErase, MEM_Erase, RecordWrite, MemTask, SaveTimer, PowerLoss,
         MEM_Write
<1>8. ASSUME NEW v \in Values, SlowSave(v) \/ FastSave(v)
      PROVE  pc' # "erase"
  BY <1>8 DEF SlowSave, FastSave, MEM_Write
<1>9. ASSUME NEW k \in 1 .. RECORD_DATA_NUM - 1, BootScan(k)
      PROVE  pc' # "erase"
  BY <1>9 DEF BootScan
<1> QED
  BY <1>1, <1>2, <1>3, <1>4, <1>5, <1>6, <1>7, <1>8, <1>9
  DEF Next, Boot, Flash, Call

\* One step of the log is one step of the cell, or none.
LEMMA StepImplements ==
  TailLen # 0 /\ TypeOK /\ LogShape /\ EraseReason /\ (TypeOK /\ LogShape)' /\ [Next]_vars
    => [NV!Next]_(NV!nvVars)
<1> SUFFICES ASSUME TailLen # 0, TypeOK, LogShape, EraseReason,
                    TypeOK', LogShape', [Next]_vars
             PROVE  [NV!Next]_(NV!nvVars)
  OBVIOUS
<1> USE ValuesAssumption, GeometryAssumption DEF TypeOK, flash, ram
\* A step that leaves the main sector alone keeps the cell and its use.
<1>0. UNCHANGED main => UNCHANGED <<Recovered, ScanLen(main)>>
  <2> SUFFICES ASSUME UNCHANGED main PROVE UNCHANGED <<Recovered, ScanLen(main)>>
    OBVIOUS
  <2>1. PICK n \in 0 .. RECORD_DATA_NUM : Log(main, n)
    BY DEF LogShape
  <2> QED
    BY <2>1, RecoveredNewest, RecoveredNewestNext
<1>1. CASE BootReformat
  <2>1. Recovered = Def
    BY <1>1, ScanLog, RecoveredNewest DEF BootReformat
  <2>2. NV!Restart
    BY <1>0, <1>1, <2>1 DEF BootReformat, BackupRead, NV!Restart
  <2> QED
    BY <2>2 DEF NV!Next
<1>2. ASSUME NEW k \in 1 .. RECORD_DATA_NUM - 1, BootScan(k)
      PROVE  [NV!Next]_(NV!nvVars)
  <2>1. Recovered = main[k - 1]
    BY <1>2, ScanLog, RecoveredNewest DEF BootScan
  <2>2. NV!Restart
    BY <1>0, <1>2, <2>1 DEF BootScan, NV!Restart
  <2> QED
    BY <2>2 DEF NV!Next
<1>3. CASE BootFull
  <2>1. Recovered = main[RECORD_DATA_NUM - 1]
    BY <1>3, ScanLog, RecoveredNewest DEF BootFull
  <2>2. NV!Restart
    BY <1>0, <1>3, <2>1 DEF BootFull, BackupRead, NV!Restart
  <2> QED
    BY <2>2 DEF NV!Next
<1>4. CASE BackupErase
  BY <1>0, <1>4 DEF BackupErase, NV!nvVars
<1>5. CASE BackupWrite
  BY <1>0, <1>5 DEF BackupWrite, NV!nvVars
<1>6. CASE MEM_Erase
  <2>1. Log(main', 0)
    BY <1>6, BlankLog DEF MEM_Erase
  <2>2. Recovered' = Def /\ ScanLen(main)' = 0
    BY <2>1, LogScan, RecoveredNewestNext
  <2>3. ScanLen(main) = RECORD_DATA_NUM \/ db = Def
    BY <1>6, LogScan DEF MEM_Erase, EraseReason
  <2>4. NV!Vacate
    BY <1>6, <2>2, <2>3 DEF MEM_Erase, NV!Vacate
  <2> QED
    BY <2>4 DEF NV!Next
<1>7. CASE RecordWrite
  <2>1. PICK c \in Program(main[cur], db) :
          /\ main' = [main EXCEPT ![cur] = c]
          /\ cur' = IF c = db THEN cur + 1 ELSE cur
    BY <1>7 DEF RecordWrite
  <2>2. cur \in Slot /\ Log(main, cur) /\ Log(main', cur')
    BY <1>7 DEF RecordWrite, LogShape, Slot
  <2>3. ScanLen(main) = cur /\ ScanLen(main)' = cur'
    BY <2>2, LogScan
  <2>4. CASE c = db
    <3>0. cur' = cur + 1 /\ Log(main', cur + 1) /\ cur + 1 \in 0 .. RECORD_DATA_NUM
      BY <2>1, <2>2, <2>4 DEF Slot
    <3>1. Recovered' = IF cur + 1 = 0 THEN Def ELSE main'[(cur + 1) - 1]
      BY <3>0, RecoveredNewestNext
    <3>2. Recovered' = db
      BY <2>1, <2>2, <2>4, <3>1 DEF Slot
    <3>3. NV!Commit
      BY <1>7, <2>2, <2>3, <3>0, <3>2 DEF RecordWrite, NV!Commit, Slot
    <3> QED
      BY <3>3 DEF NV!Next
  <2>5. CASE c # db
    <3>1. cur' = cur /\ Log(main', cur)
      BY <2>1, <2>2, <2>5
    <3>2. Recovered' = IF cur = 0 THEN Def ELSE main'[cur - 1]
      BY <3>1, RecoveredNewestNext
    <3>3. Recovered = IF cur = 0 THEN Def ELSE main[cur - 1]
      BY <2>2, RecoveredNewest
    <3>4. cur # 0 => main'[cur - 1] = main[cur - 1]
      BY <2>1, <2>2 DEF Slot
    <3>5. Recovered' = Recovered
      BY <3>2, <3>3, <3>4
    <3> QED
      BY <1>7, <2>1, <2>3, <2>5, <3>5 DEF RecordWrite, NV!nvVars
  <2> QED
    BY <2>4, <2>5
<1>8. CASE FactoryReset
  BY <1>0, <1>8 DEF FactoryReset, NV!Assign, NV!Next
<1>9. ASSUME NEW v \in Values, SlowSave(v)
      PROVE  [NV!Next]_(NV!nvVars)
  BY <1>0, <1>9 DEF SlowSave, NV!Assign, NV!Next
<1>10. ASSUME NEW v \in Values, FastSave(v)
       PROVE  [NV!Next]_(NV!nvVars)
  BY <1>0, <1>10 DEF FastSave, MEM_Write, NV!Assign, NV!Next
<1>11. CASE SaveTimer
  BY <1>0, <1>11 DEF SaveTimer, NV!nvVars
<1>12. CASE MemTask
  BY <1>0, <1>12 DEF MemTask, MEM_Write, NV!nvVars
<1>13. CASE PowerLoss
  <2>1. UNCHANGED <<Recovered, ScanLen(main)>>
    <3>1. CASE UNCHANGED main
      BY <1>0, <3>1
    <3>2. CASE pc = "write" /\ main' = [main EXCEPT ![cur] = Torn]
      <4>1. cur \in Slot /\ Log(main, cur)
        BY <3>2 DEF LogShape, Slot
      <4>2. Log(main', cur)
        BY <3>2, <4>1, ProgramLog DEF Content
      <4>3. Recovered' = IF cur = 0 THEN Def ELSE main'[cur - 1]
        BY <4>2, RecoveredNewestNext
      <4>4. Recovered = IF cur = 0 THEN Def ELSE main[cur - 1]
        BY <4>1, RecoveredNewest
      <4>5. cur # 0 => main'[cur - 1] = main[cur - 1]
        BY <3>2, <4>1 DEF Slot
      <4> QED
        BY <4>1, <4>2, <4>3, <4>4, <4>5, LogScan
    <3> QED
      BY <1>13, <3>1, <3>2 DEF PowerLoss
  <2> QED
    BY <1>13, <2>1 DEF PowerLoss, NV!Crash, NV!Next
<1>14. CASE UNCHANGED vars
  BY <1>0, <1>14 DEF vars, NV!nvVars
<1> QED
  BY <1>1, <1>2, <1>3, <1>4, <1>5, <1>6, <1>7, <1>8, <1>9, <1>10, <1>11,
     <1>12, <1>13, <1>14
  DEF Next, Boot, Flash, Call

(***************************************************************************)
(* In the geometry of the build (4096 is not a multiple of the record      *)
(* length, so TailLen # 0) the log implements the cell: a save interrupted *)
(* by a power loss leaves the old database or the new one, and the stored  *)
(* database is given up only when the sector is full or on a factory reset.*)
(***************************************************************************)
THEOREM LogImplementsNvCell == TailLen # 0 /\ Spec => ImplementsNvCell
<1> SUFFICES ASSUME TailLen # 0 PROVE Spec => ImplementsNvCell
  OBVIOUS
<1>1. Init => NV!Init /\ EraseReason
  <2> SUFFICES ASSUME Init PROVE NV!Init /\ EraseReason
    OBVIOUS
  <2>1. Log(main, 0)
    BY BlankLog DEF Init
  <2>2. Recovered = Def /\ ScanLen(main) = 0
    BY <2>1, LogScan, RecoveredNewest, GeometryAssumption
  <2> QED
    BY <2>2, ValuesAssumption, GeometryAssumption DEF Init, NV!Init, EraseReason
<1>2. TypeOK /\ LogShape /\ EraseReason /\ [Next]_vars => EraseReason'
  BY NextReason
<1>3. TypeOK /\ LogShape /\ EraseReason /\ (TypeOK /\ LogShape)' /\ [Next]_vars
        => [NV!Next]_(NV!nvVars)
  BY StepImplements
<1> QED
  BY <1>1, <1>2, <1>3, InitShape, NextShape, PTL
  DEF Spec, ImplementsNvCell, NV!Spec

-----------------------------------------------------------------------------
(* What is in flash when a save returns, and when nothing is pending.      *)

\* RecordWrite puts the database at the end of the log, unless the slot is torn.
LEMMA WriteLands ==
  ASSUME TailLen # 0, TypeOK, LogShape, RecordWrite
  PROVE  Recovered' = db \/ (main[cur] = Torn /\ cur' = cur /\ cur \in Slot /\ main'[cur] = Torn)
<1> USE ValuesAssumption, GeometryAssumption DEF TypeOK
<1>1. PICK c \in Program(main[cur], db) :
        /\ main' = [main EXCEPT ![cur] = c]
        /\ cur' = IF c = db THEN cur + 1 ELSE cur
  BY DEF RecordWrite
<1>2. cur \in Slot /\ Log(main, cur)
  BY DEF RecordWrite, LogShape, Slot
<1>3. CASE c = db
  <2>0. cur + 1 \in 0 .. RECORD_DATA_NUM
    BY <1>2 DEF Slot
  <2>1. Log(main', cur + 1)
    BY <1>1, <1>2, <1>3, ProgramLog
  <2>2. Recovered' = IF cur + 1 = 0 THEN Def ELSE main'[(cur + 1) - 1]
    BY <2>0, <2>1, RecoveredNewestNext
  <2> QED
    BY <1>1, <1>2, <1>3, <2>0, <2>2 DEF Slot
<1>4. CASE c # db
  <2>1. c = Torn /\ main[cur] # Blank
    BY <1>1, <1>4, ProgramContent
  <2>2. main[cur] = Torn
    BY <1>2, <2>1 DEF Log
  <2> QED
    BY <1>1, <1>2, <1>4, <2>1, <2>2
<1> QED
  BY <1>3, <1>4

LEMMA OnlyWriteReturns ==
  ASSUME Next, pc = "write", pc' = "run"
  PROVE  RecordWrite
BY DEF Next, Boot, BootReformat, BootFull, BootScan, Flash, BackupErase, BackupWrite, MEM_Erase,
       Call, FactoryReset, SlowSave, FastSave, SaveTimer, MemTask, PowerLoss

(***************************************************************************)
(* SaveLands, which the code breaks, fails for one reason only: a save     *)
(* whose slot no power loss has torn is in flash when the call returns.    *)
(***************************************************************************)
THEOREM UntornSaveLands ==
  TailLen # 0 /\ Spec =>
    [][pc = "write" /\ pc' = "run" /\ main[cur] # Torn => Recovered' = db]_vars
<1> SUFFICES ASSUME TailLen # 0
             PROVE  Spec => [][pc = "write" /\ pc' = "run" /\ main[cur] # Torn
                                 => Recovered' = db]_vars
  OBVIOUS
<1>1. TypeOK /\ LogShape /\ [Next]_vars =>
        [pc = "write" /\ pc' = "run" /\ main[cur] # Torn => Recovered' = db]_vars
  BY WriteLands, OnlyWriteReturns
<1> QED
  BY <1>1, InitShape, NextShape, PTL DEF Spec

LEMMA NextIdle ==
  ASSUME TailLen # 0, TypeOK, LogShape, IdleIsSaved, TypeOK', LogShape', [Next]_vars
  PROVE  IdleIsSaved'
<1> USE ValuesAssumption, GeometryAssumption, BoundsAssumption DEF TypeOK, flash, ram
<1> SUFFICES ASSUME pc' = "run", timer' = "stopped", evt' = 0
             PROVE  Recovered' = db' \/ (cur' \in Slot /\ main'[cur'] = Torn)
  BY DEF IdleIsSaved
<1>1. CASE BootReformat
  BY <1>1 DEF BootReformat
<1>2. ASSUME NEW k \in 1 .. RECORD_DATA_NUM - 1, BootScan(k)
      PROVE  Recovered' = db'
  <2>1. Log(main', k)
    BY <1>2, ScanLog DEF BootScan
  <2> QED
    BY <1>2, <2>1, RecoveredNewestNext DEF BootScan
<1>3. CASE BootFull
  <2>1. Log(main', RECORD_DATA_NUM) /\ db' = main'[RECORD_DATA_NUM - 1]
    BY <1>3, ScanLog DEF BootFull
  <2> QED
    BY <2>1, RecoveredNewestNext
<1>4. CASE BackupErase \/ BackupWrite \/ MEM_Erase
  BY <1>4 DEF BackupErase, BackupWrite, MEM_Erase
<1>5. CASE RecordWrite
  <2>1. db' = db
    BY <1>5 DEF RecordWrite
  <2> QED
    BY <1>5, <2>1, WriteLands
<1>6. CASE Call
  BY <1>6 DEF Call, FactoryReset, SlowSave, FastSave, MEM_Write
<1>7. CASE SaveTimer
  BY <1>7 DEF SaveTimer
<1>8. CASE MemTask
  BY <1>8 DEF MemTask, MEM_Write
<1>9. CASE PowerLoss
  BY <1>9 DEF PowerLoss
<1>10. CASE UNCHANGED vars
  <2>1. PICK n \in 0 .. RECORD_DATA_NUM : Log(main, n) /\ Log(main', n)
    BY <1>10 DEF LogShape, vars
  <2>2. Recovered' = Recovered
    BY <1>10, <2>1, RecoveredNewest, RecoveredNewestNext DEF vars
  <2> QED
    BY <1>10, <2>2 DEF vars, IdleIsSaved
<1> QED
  BY <1>1, <1>2, <1>3, <1>4, <1>5, <1>6, <1>7, <1>8, <1>9, <1>10 DEF Next, Boot, Flash

(***************************************************************************)
(* Nothing is left unsaved in silence, in the geometry of the build: what  *)
(* SlowSaveLands waits for is all there is to wait for.                    *)
(***************************************************************************)
THEOREM IdleIsSavedHolds == TailLen # 0 /\ Spec => []IdleIsSaved
<1> SUFFICES ASSUME TailLen # 0 PROVE Spec => []IdleIsSaved
  OBVIOUS
<1>1. Init => IdleIsSaved
  BY DEF Init, IdleIsSaved
<1>2. TypeOK /\ LogShape /\ IdleIsSaved /\ (TypeOK /\ LogShape)' /\ [Next]_vars => IdleIsSaved'
  BY NextIdle
<1> QED
  BY <1>1, <1>2, InitShape, NextShape, PTL DEF Spec

-----------------------------------------------------------------------------
(* Towards an idle device.  StartCompletes and SlowSaveLands need fairness   *)
(* and stay with TLC; they rest on the device never working for ever.        *)

\* The flash operations of a running call or start, and those that pending
\* saves can still cause: a delay becomes an event, an event a call.
FlashLeft ==
  [run |-> 0, write |-> 1, erase |-> 2, bkWrite |-> 3, bkErase |-> 4, off |-> 5]
SavesLeft == (IF timer = "running" THEN 2 ELSE 0) + evt
WorkLeft == 6 * SavesLeft + FlashLeft[pc]

(***************************************************************************)
(* Every step the device makes by itself leaves less work, which is at an  *)
(* end when it runs with no save pending; a start is never without one of  *)
(* its ways on, for the scan of the main sector always stops.              *)
(***************************************************************************)
THEOREM WorkComesToAnEnd ==
  Spec => /\ [](/\ WorkLeft \in Nat
                /\ WorkLeft = 0 <=> pc = "run" /\ timer = "stopped" /\ evt = 0
                /\ \E k \in 0 .. RECORD_DATA_NUM : ScanStop(main, k))
          /\ [][Boot \/ Flash \/ SaveTimer \/ MemTask => WorkLeft' < WorkLeft]_vars
<1>1. TypeOK /\ LogShape =>
        /\ WorkLeft \in Nat
        /\ WorkLeft = 0 <=> pc = "run" /\ timer = "stopped" /\ evt = 0
        /\ \E k \in 0 .. RECORD_DATA_NUM : ScanStop(main, k)
  <2>1. TypeOK => /\ WorkLeft \in Nat
                  /\ WorkLeft = 0 <=> pc = "run" /\ timer = "stopped" /\ evt = 0
    BY BoundsAssumption DEF TypeOK, WorkLeft, SavesLeft, FlashLeft
  <2>2. LogShape => \E k \in 0 .. RECORD_DATA_NUM : ScanStop(main, k)
    BY LogScan DEF LogShape
  <2> QED
    BY <2>1, <2>2
<1>2. ASSUME TypeOK, Boot \/ Flash \/ SaveTimer \/ MemTask
      PROVE  WorkLeft' < WorkLeft
  <2>1. evt \in Nat /\ (timer = "running" \/ timer = "stopped")
    BY <1>2, BoundsAssumption DEF TypeOK
  <2>2. CASE Boot \/ Flash
    <3>1. FlashLeft[pc'] < FlashLeft[pc] /\ FlashLeft[pc'] \in 0 .. 5 /\ FlashLeft[pc] \in 0 .. 5
      BY <2>2 DEF Boot, Flash, BootReformat, BootFull, BootScan, BackupErase, BackupWrite, MEM_Erase,
                  RecordWrite, FlashLeft
    <3>2. timer' = timer /\ evt' = evt
      BY <2>2 DEF Boot, Flash, BootReformat, BootFull, BootScan, BackupErase, BackupWrite, MEM_Erase,
                  RecordWrite, ram
    <3> QED
      BY <2>1, <3>1, <3>2 DEF WorkLeft, SavesLeft
  <2>3. CASE SaveTimer
    BY <2>1, <2>3 DEF SaveTimer, WorkLeft, SavesLeft, FlashLeft
  <2>4. CASE MemTask
    BY <2>1, <2>4 DEF MemTask, MEM_Write, WorkLeft, SavesLeft, FlashLeft
  <2> QED
    BY <1>2, <2>2, <2>3, <2>4
<1>3. TypeOK /\ LogShape /\ [Next]_vars =>
        [Boot \/ Flash \/ SaveTimer \/ MemTask => WorkLeft' < WorkLeft]_vars
  BY <1>2
<1> QED
  BY <1>1, <1>3, InitShape, NextShape, PTL DEF Spec
=============================================================================
