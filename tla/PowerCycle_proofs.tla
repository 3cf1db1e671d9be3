------------------------- MODULE PowerCycle_proofs -------------------------
(***************************************************************************)
(* Proofs about PowerCycle for every capacity of the store: the wipe by    *)
(* power cycling is earned and resumed, the layout follows the mesh, the   *)
(* lamp stays reachable, and the store is used as a cell.                  *)
(***************************************************************************)
EXTENDS PowerCycle, TLAPS

(***************************************************************************)
(* The inductive invariant                                                 *)
(***************************************************************************)
\* How far the count in flash may run ahead of the short starts before this one.
CountBound ==
  /\ pc \in {"off", "platform"} =>
       stored.ResetCnt <= quick /\ ram.ResetCnt <= quick /\ radio = {} /\ "lived" \notin marks
  /\ stored.ResetCnt <= quick + 1 /\ ram.ResetCnt <= quick + 1
  /\ "lived" \in marks \/ (radio # {} /\ "clear" \notin timers) => ram.ResetCnt = 0
  /\ "lived" \in marks => stored.ResetCnt = 0
  /\ "owed" \in marks => quick >= ResetMax

\* A wipe that is owed is at one of its steps, or the lamp is off or starting.
WipeSteps ==
  /\ pc = "platform" => ram = stored
  /\ "owed" \in marks => /\ pc \in {"off", "platform", "clearMesh", "default", "erase"}
                         /\ stored.ResetCnt >= ResetMax

\* The working copy keeps the layout rule too.
RamLayout == ram.Provision = AMANZON => ram.Light = "mesh"

\* Where a handler that saves or resets the database returns to.
Reached == IF ram.Provision = AMANZON THEN "mesh" \in radio ELSE "ble" \in radio
Returns ==
  /\ adv \in {"on", "linked"} => "ble" \in radio
  /\ pc = "clearMesh" => ret = "reset"
  /\ pc \in {"default", "erase"} /\ ret # "reset" => ret = "run" /\ "ble" \in radio
  /\ pc \in {"light", "run"} => Reached
  /\ pc = "save" /\ ret \in {"light", "run"} => Reached
  /\ pc = "erase" => ram = Def

-----------------------------------------------------------------------------
(* One lemma per part, a case per action                                   *)

LEMMA DefIsDatabase == Def \in Database /\ Def.ResetCnt = 0 /\ Def.Provision = NONE
  BY DEF Def, Database, ProvType, ResetMax

LEMMA StacksKnown == \A p \in ProvType : StacksFor(p) \subseteq {"mesh", "ble"} /\ StacksFor(p) # {}
  BY DEF StacksFor, ProvType

LEMMA TypeNext ==
  TypeOK /\ [Next]_vars
    => TypeOK'
<1> SUFFICES ASSUME TypeOK /\ [Next]_vars
             PROVE TypeOK'
  OBVIOUS
<1> USE CapacityAssumption, QuickCapAssumption, ProvAssumption, DefIsDatabase, StacksKnown
    DEF TypeOK, store, air, history, Database, Def, ProvType, ResetMax, Timer
<1>1. CASE Boot
  BY <1>1 DEF Boot
<1>2. CASE StoreStep
  <2>1. CASE Save
    BY <2>1 DEF Save
  <2>2. CASE SaveFull
    BY <2>2 DEF SaveFull
  <2>3. CASE LoadDefault
    BY <2>3 DEF LoadDefault
  <2>4. CASE Erase
    BY <2>4 DEF Erase
  <2> QED
    BY <1>2, <2>1, <2>2, <2>3, <2>4 DEF StoreStep
<1>3. CASE StartStep
  <2>1. CASE CountStart
    BY <2>1 DEF CountStart, SaveThen
  <2>2. CASE WipeStart
    BY <2>2 DEF WipeStart
  <2>3. CASE ClearMesh
    BY <2>3 DEF ClearMesh
  <2>4. CASE CorrectType
    BY <2>4 DEF CorrectType, SaveThen
  <2>5. CASE StartStacks
    BY <2>5 DEF StartStacks, SaveThen, StacksFor
  <2>6. CASE LightInit
    BY <2>6 DEF LightInit
  <2> QED
    BY <1>3, <2>1, <2>2, <2>3, <2>4, <2>5, <2>6 DEF StartStep
<1>4. CASE TimerStep
  <2>1. CASE ClearCount
    BY <2>1 DEF ClearCount, SaveThen
  <2>2. CASE Reboot
    BY <2>2 DEF Reboot
  <2>3. CASE SlowSave
    BY <2>3 DEF SlowSave, SaveThen
  <2>4. CASE ApplyReset
    BY <2>4 DEF ApplyReset, SaveThen
  <2>5. CASE StoreMeshInfo
    BY <2>5 DEF StoreMeshInfo
  <2> QED
    BY <1>4, <2>1, <2>2, <2>3, <2>4, <2>5 DEF TimerStep
<1>5. CASE BleStep
  <2>1. CASE ServicesAdded
    BY <2>1 DEF ServicesAdded, Advertise, SaveThen
  <2>2. CASE Link
    BY <2>2 DEF Link
  <2>3. CASE Unlink
    BY <2>3 DEF Unlink, Advertise, SaveThen
  <2>4. CASE BindGoogle
    BY <2>4 DEF BindGoogle, SaveThen
  <2>5. CASE UnbindGoogle
    BY <2>5 DEF UnbindGoogle
  <2>6. CASE GoogleOnOff
    BY <2>6 DEF GoogleOnOff
  <2> QED
    BY <1>5, <2>1, <2>2, <2>3, <2>4, <2>5, <2>6 DEF BleStep
<1>6. CASE MeshStep
  <2>1. CASE MeshProvisioned
    BY <2>1 DEF MeshProvisioned, SaveThen
  <2>2. CASE MeshProvisionFailed
    BY <2>2 DEF MeshProvisionFailed
  <2>3. CASE MeshReset
    BY <2>3 DEF MeshReset
  <2>4. CASE MeshOnOff
    BY <2>4 DEF MeshOnOff
  <2>5. CASE MeshLight
    BY <2>5 DEF MeshLight
  <2>6. CASE MeshApply
    BY <2>6 DEF MeshApply
  <2> QED
    BY <1>6, <2>1, <2>2, <2>3, <2>4, <2>5, <2>6 DEF MeshStep
<1>7. CASE Restart
  BY <1>7 DEF Restart, GoOff
<1>8. CASE PowerLoss
  BY <1>8 DEF PowerLoss, GoOff
<1>9. CASE UNCHANGED vars
  BY <1>9 DEF vars
<1> QED
  BY <1>1, <1>2, <1>3, <1>4, <1>5, <1>6, <1>7, <1>8, <1>9 DEF Next

LEMMA WipeNext ==
  TypeOK /\ CountBound /\ WipeSteps /\ [Next]_vars
    => WipeSteps'
<1> SUFFICES ASSUME TypeOK /\ CountBound /\ WipeSteps /\ [Next]_vars
             PROVE WipeSteps'
  OBVIOUS
<1> USE DefIsDatabase
    DEF TypeOK, store, air, history, Database, Def, ProvType, ResetMax, CountBound, WipeSteps
<1>1. CASE Boot
  BY <1>1 DEF Boot
<1>2. CASE StoreStep
  <2>1. CASE Save
    BY <2>1 DEF Save
  <2>2. CASE SaveFull
    BY <2>2 DEF SaveFull
  <2>3. CASE LoadDefault
    BY <2>3 DEF LoadDefault
  <2>4. CASE Erase
    BY <2>4 DEF Erase
  <2> QED
    BY <1>2, <2>1, <2>2, <2>3, <2>4 DEF StoreStep
<1>3. CASE StartStep
  <2>1. CASE CountStart
    BY <2>1 DEF CountStart, SaveThen
  <2>2. CASE WipeStart
    BY <2>2 DEF WipeStart
  <2>3. CASE ClearMesh
    BY <2>3 DEF ClearMesh
  <2>4. CASE CorrectType
    BY <2>4 DEF CorrectType, SaveThen
  <2>5. CASE StartStacks
    BY <2>5 DEF StartStacks, SaveThen, StacksFor
  <2>6. CASE LightInit
    BY <2>6 DEF LightInit
  <2> QED
    BY <1>3, <2>1, <2>2, <2>3, <2>4, <2>5, <2>6 DEF StartStep
<1>4. CASE TimerStep
  <2>1. CASE ClearCount
    BY <2>1 DEF ClearCount, SaveThen
  <2>2. CASE Reboot
    BY <2>2 DEF Reboot
  <2>3. CASE SlowSave
    BY <2>3 DEF SlowSave, SaveThen
  <2>4. CASE ApplyReset
    BY <2>4 DEF ApplyReset, SaveThen
  <2>5. CASE StoreMeshInfo
    BY <2>5 DEF StoreMeshInfo
  <2> QED
    BY <1>4, <2>1, <2>2, <2>3, <2>4, <2>5 DEF TimerStep
<1>5. CASE BleStep
  <2>1. CASE ServicesAdded
    BY <2>1 DEF ServicesAdded, Advertise, SaveThen
  <2>2. CASE Link
    BY <2>2 DEF Link
  <2>3. CASE Unlink
    BY <2>3 DEF Unlink, Advertise, SaveThen
  <2>4. CASE BindGoogle
    BY <2>4 DEF BindGoogle, SaveThen
  <2>5. CASE UnbindGoogle
    BY <2>5 DEF UnbindGoogle
  <2>6. CASE GoogleOnOff
    BY <2>6 DEF GoogleOnOff
  <2> QED
    BY <1>5, <2>1, <2>2, <2>3, <2>4, <2>5, <2>6 DEF BleStep
<1>6. CASE MeshStep
  <2>1. CASE MeshProvisioned
    BY <2>1 DEF MeshProvisioned, SaveThen
  <2>2. CASE MeshProvisionFailed
    BY <2>2 DEF MeshProvisionFailed
  <2>3. CASE MeshReset
    BY <2>3 DEF MeshReset
  <2>4. CASE MeshOnOff
    BY <2>4 DEF MeshOnOff
  <2>5. CASE MeshLight
    BY <2>5 DEF MeshLight
  <2>6. CASE MeshApply
    BY <2>6 DEF MeshApply
  <2> QED
    BY <1>6, <2>1, <2>2, <2>3, <2>4, <2>5, <2>6 DEF MeshStep
<1>7. CASE Restart
  BY <1>7 DEF Restart, GoOff
<1>8. CASE PowerLoss
  BY <1>8 DEF PowerLoss, GoOff
<1>9. CASE UNCHANGED vars
  BY <1>9 DEF vars
<1> QED
  BY <1>1, <1>2, <1>3, <1>4, <1>5, <1>6, <1>7, <1>8, <1>9 DEF Next

LEMMA CountNext ==
  TypeOK /\ TypeOK' /\ CountBound /\ WipeSteps /\ [Next]_vars
    => CountBound'
<1> SUFFICES ASSUME TypeOK /\ TypeOK' /\ CountBound /\ WipeSteps /\ [Next]_vars
             PROVE CountBound'
  OBVIOUS
<1> USE QuickCapAssumption, DefIsDatabase, StacksKnown
    DEF TypeOK, store, air, history, Database, Def, ProvType, ResetMax, CountBound, WipeSteps
<1>1. CASE Boot
  BY <1>1 DEF Boot
<1>2. CASE StoreStep
  <2>1. CASE Save
    BY <2>1 DEF Save
  <2>2. CASE SaveFull
    BY <2>2 DEF SaveFull
  <2>3. CASE LoadDefault
    BY <2>3 DEF LoadDefault
  <2>4. CASE Erase
    BY <2>4 DEF Erase
  <2> QED
    BY <1>2, <2>1, <2>2, <2>3, <2>4 DEF StoreStep
<1>3. CASE StartStep
  <2>1. CASE CountStart
    BY <2>1 DEF CountStart, SaveThen
  <2>2. CASE WipeStart
    BY <2>2 DEF WipeStart
  <2>3. CASE ClearMesh
    BY <2>3 DEF ClearMesh
  <2>4. CASE CorrectType
    BY <2>4 DEF CorrectType, SaveThen
  <2>5. CASE StartStacks
    BY <2>5 DEF StartStacks, SaveThen, StacksFor
  <2>6. CASE LightInit
    BY <2>6 DEF LightInit
  <2> QED
    BY <1>3, <2>1, <2>2, <2>3, <2>4, <2>5, <2>6 DEF StartStep
<1>4. CASE TimerStep
  <2>1. CASE ClearCount
    BY <2>1 DEF ClearCount, SaveThen
  <2>2. CASE Reboot
    BY <2>2 DEF Reboot
  <2>3. CASE SlowSave
    BY <2>3 DEF SlowSave, SaveThen
  <2>4. CASE ApplyReset
    BY <2>4 DEF ApplyReset, SaveThen
  <2>5. CASE StoreMeshInfo
    BY <2>5 DEF StoreMeshInfo
  <2> QED
    BY <1>4, <2>1, <2>2, <2>3, <2>4, <2>5 DEF TimerStep
<1>5. CASE BleStep
  <2>1. CASE ServicesAdded
    BY <2>1 DEF ServicesAdded, Advertise, SaveThen
  <2>2. CASE Link
    BY <2>2 DEF Link
  <2>3. CASE Unlink
    BY <2>3 DEF Unlink, Advertise, SaveThen
  <2>4. CASE BindGoogle
    BY <2>4 DEF BindGoogle, SaveThen
  <2>5. CASE UnbindGoogle
    BY <2>5 DEF UnbindGoogle
  <2>6. CASE GoogleOnOff
    BY <2>6 DEF GoogleOnOff
  <2> QED
    BY <1>5, <2>1, <2>2, <2>3, <2>4, <2>5, <2>6 DEF BleStep
<1>6. CASE MeshStep
  <2>1. CASE MeshProvisioned
    BY <2>1 DEF MeshProvisioned, SaveThen
  <2>2. CASE MeshProvisionFailed
    BY <2>2 DEF MeshProvisionFailed
  <2>3. CASE MeshReset
    BY <2>3 DEF MeshReset
  <2>4. CASE MeshOnOff
    BY <2>4 DEF MeshOnOff
  <2>5. CASE MeshLight
    BY <2>5 DEF MeshLight
  <2>6. CASE MeshApply
    BY <2>6 DEF MeshApply
  <2> QED
    BY <1>6, <2>1, <2>2, <2>3, <2>4, <2>5, <2>6 DEF MeshStep
<1>7. CASE Restart
  BY <1>7 DEF Restart, GoOff
<1>8. CASE PowerLoss
  BY <1>8 DEF PowerLoss, GoOff
<1>9. CASE UNCHANGED vars
  BY <1>9 DEF vars
<1> QED
  BY <1>1, <1>2, <1>3, <1>4, <1>5, <1>6, <1>7, <1>8, <1>9 DEF Next

LEMMA LayoutNext ==
  TypeOK /\ RamLayout /\ LayoutFollowsMesh /\ [Next]_vars
    => RamLayout' /\ LayoutFollowsMesh'
<1> SUFFICES ASSUME TypeOK /\ RamLayout /\ LayoutFollowsMesh /\ [Next]_vars
             PROVE RamLayout' /\ LayoutFollowsMesh'
  OBVIOUS
<1> USE ProvAssumption, DefIsDatabase
    DEF TypeOK, store, Database, RamLayout, LayoutFollowsMesh
<1>1. CASE Boot
  BY <1>1 DEF Boot
<1>2. CASE StoreStep
  <2>1. CASE Save
    BY <2>1 DEF Save
  <2>2. CASE SaveFull
    BY <2>2 DEF SaveFull
  <2>3. CASE LoadDefault
    BY <2>3 DEF LoadDefault
  <2>4. CASE Erase
    BY <2>4 DEF Erase
  <2> QED
    BY <1>2, <2>1, <2>2, <2>3, <2>4 DEF StoreStep
<1>3. CASE StartStep
  <2>1. CASE CountStart
    BY <2>1 DEF CountStart, SaveThen
  <2>2. CASE WipeStart
    BY <2>2 DEF WipeStart
  <2>3. CASE ClearMesh
    BY <2>3 DEF ClearMesh
  <2>4. CASE CorrectType
    BY <2>4 DEF CorrectType, SaveThen
  <2>5. CASE StartStacks
    BY <2>5 DEF StartStacks, SaveThen, StacksFor
  <2>6. CASE LightInit
    BY <2>6 DEF LightInit
  <2> QED
    BY <1>3, <2>1, <2>2, <2>3, <2>4, <2>5, <2>6 DEF StartStep
<1>4. CASE TimerStep
  <2>1. CASE ClearCount
    BY <2>1 DEF ClearCount, SaveThen
  <2>2. CASE Reboot
    BY <2>2 DEF Reboot
  <2>3. CASE SlowSave
    BY <2>3 DEF SlowSave, SaveThen
  <2>4. CASE ApplyReset
    BY <2>4 DEF ApplyReset, SaveThen
  <2>5. CASE StoreMeshInfo
    BY <2>5 DEF StoreMeshInfo
  <2> QED
    BY <1>4, <2>1, <2>2, <2>3, <2>4, <2>5 DEF TimerStep
<1>5. CASE BleStep
  <2>1. CASE ServicesAdded
    BY <2>1 DEF ServicesAdded, Advertise, SaveThen
  <2>2. CASE Link
    BY <2>2 DEF Link
  <2>3. CASE Unlink
    BY <2>3 DEF Unlink, Advertise, SaveThen
  <2>4. CASE BindGoogle
    BY <2>4 DEF BindGoogle, SaveThen
  <2>5. CASE UnbindGoogle
    BY <2>5 DEF UnbindGoogle
  <2>6. CASE GoogleOnOff
    BY <2>6 DEF GoogleOnOff
  <2> QED
    BY <1>5, <2>1, <2>2, <2>3, <2>4, <2>5, <2>6 DEF BleStep
<1>6. CASE MeshStep
  <2>1. CASE MeshProvisioned
    BY <2>1 DEF MeshProvisioned, SaveThen
  <2>2. CASE MeshProvisionFailed
    BY <2>2 DEF MeshProvisionFailed
  <2>3. CASE MeshReset
    BY <2>3 DEF MeshReset
  <2>4. CASE MeshOnOff
    BY <2>4 DEF MeshOnOff
  <2>5. CASE MeshLight
    BY <2>5 DEF MeshLight
  <2>6. CASE MeshApply
    BY <2>6 DEF MeshApply
  <2> QED
    BY <1>6, <2>1, <2>2, <2>3, <2>4, <2>5, <2>6 DEF MeshStep
<1>7. CASE Restart
  BY <1>7 DEF Restart, GoOff
<1>8. CASE PowerLoss
  BY <1>8 DEF PowerLoss, GoOff
<1>9. CASE UNCHANGED vars
  BY <1>9 DEF vars
<1> QED
  BY <1>1, <1>2, <1>3, <1>4, <1>5, <1>6, <1>7, <1>8, <1>9 DEF Next

LEMMA ReachNext ==
  TypeOK /\ Returns /\ [Next]_vars
    => Returns'
<1> SUFFICES ASSUME TypeOK /\ Returns /\ [Next]_vars
             PROVE Returns'
  OBVIOUS
<1> USE ProvAssumption, DefIsDatabase
    DEF TypeOK, air, Database, ProvType, Returns, Reached
<1>1. CASE Boot
  BY <1>1 DEF Boot
<1>2. CASE StoreStep
  <2>1. CASE Save
    BY <2>1 DEF Save
  <2>2. CASE SaveFull
    BY <2>2 DEF SaveFull
  <2>3. CASE LoadDefault
    BY <2>3 DEF LoadDefault
  <2>4. CASE Erase
    BY <2>4 DEF Erase
  <2> QED
    BY <1>2, <2>1, <2>2, <2>3, <2>4 DEF StoreStep
<1>3. CASE StartStep
  <2>1. CASE CountStart
    BY <2>1 DEF CountStart, SaveThen
  <2>2. CASE WipeStart
    BY <2>2 DEF WipeStart
  <2>3. CASE ClearMesh
    BY <2>3 DEF ClearMesh
  <2>4. CASE CorrectType
    BY <2>4 DEF CorrectType, SaveThen
  <2>5. CASE StartStacks
    BY <2>5 DEF StartStacks, SaveThen, StacksFor
  <2>6. CASE LightInit
    BY <2>6 DEF LightInit
  <2> QED
    BY <1>3, <2>1, <2>2, <2>3, <2>4, <2>5, <2>6 DEF StartStep
<1>4. CASE TimerStep
  <2>1. CASE ClearCount
    BY <2>1 DEF ClearCount, SaveThen
  <2>2. CASE Reboot
    BY <2>2 DEF Reboot
  <2>3. CASE SlowSave
    BY <2>3 DEF SlowSave, SaveThen
  <2>4. CASE ApplyReset
    BY <2>4 DEF ApplyReset, SaveThen
  <2>5. CASE StoreMeshInfo
    BY <2>5 DEF StoreMeshInfo
  <2> QED
    BY <1>4, <2>1, <2>2, <2>3, <2>4, <2>5 DEF TimerStep
<1>5. CASE BleStep
  <2>1. CASE ServicesAdded
    BY <2>1 DEF ServicesAdded, Advertise, SaveThen
  <2>2. CASE Link
    BY <2>2 DEF Link
  <2>3. CASE Unlink
    BY <2>3 DEF Unlink, Advertise, SaveThen
  <2>4. CASE BindGoogle
    BY <2>4 DEF BindGoogle, SaveThen
  <2>5. CASE UnbindGoogle
    BY <2>5 DEF UnbindGoogle
  <2>6. CASE GoogleOnOff
    BY <2>6 DEF GoogleOnOff
  <2> QED
    BY <1>5, <2>1, <2>2, <2>3, <2>4, <2>5, <2>6 DEF BleStep
<1>6. CASE MeshStep
  <2>1. CASE MeshProvisioned
    BY <2>1 DEF MeshProvisioned, SaveThen
  <2>2. CASE MeshProvisionFailed
    BY <2>2 DEF MeshProvisionFailed
  <2>3. CASE MeshReset
    BY <2>3 DEF MeshReset
  <2>4. CASE MeshOnOff
    BY <2>4 DEF MeshOnOff
  <2>5. CASE MeshLight
    BY <2>5 DEF MeshLight
  <2>6. CASE MeshApply
    BY <2>6 DEF MeshApply
  <2> QED
    BY <1>6, <2>1, <2>2, <2>3, <2>4, <2>5, <2>6 DEF MeshStep
<1>7. CASE Restart
  BY <1>7 DEF Restart, GoOff
<1>8. CASE PowerLoss
  BY <1>8 DEF PowerLoss, GoOff
<1>9. CASE UNCHANGED vars
  BY <1>9 DEF vars
<1> QED
  BY <1>1, <1>2, <1>3, <1>4, <1>5, <1>6, <1>7, <1>8, <1>9 DEF Next

-----------------------------------------------------------------------------
IInv == TypeOK /\ CountBound /\ WipeSteps /\ RamLayout /\ LayoutFollowsMesh /\ Returns

LEMMA InitIInv == Init => IInv
<1> SUFFICES ASSUME Init PROVE IInv
  OBVIOUS
<1> USE CapacityAssumption, QuickCapAssumption, ProvAssumption, DefIsDatabase
<1>1. TypeOK
  BY DEF Init, TypeOK, Database, Def, ProvType, ResetMax
<1>2. CountBound /\ WipeSteps
  BY DEF Init, CountBound, WipeSteps, Def, ResetMax
<1>3. RamLayout /\ LayoutFollowsMesh
  BY DEF Init, RamLayout, LayoutFollowsMesh, Def, ProvType
<1>4. Returns
  BY DEF Init, Returns
<1> QED
  BY <1>1, <1>2, <1>3, <1>4 DEF IInv

LEMMA NextIInv == IInv /\ [Next]_vars => IInv'
  BY TypeNext, WipeNext, CountNext, LayoutNext, ReachNext DEF IInv

LEMMA Invariance == Spec => []IInv
  BY InitIInv, NextIInv, PTL DEF Spec

\* Every variable keeps its type.
THEOREM TypeCorrect == Spec => []TypeOK
<1>1. IInv => TypeOK
  BY DEF IInv
<1> QED
  BY <1>1, Invariance, PTL

\* Reset_Process wipes the lamp only after as many short starts in a row as it
\* counts, whatever else saves the database between them.
THEOREM WipeIsEarnedHolds == Spec => []WipeIsEarned
<1>1. IInv => WipeIsEarned
  BY DEF IInv, CountBound, WipeIsEarned
<1> QED
  BY <1>1, Invariance, PTL

\* A wipe cut by a power loss is taken up by the next start.
THEOREM WipeIsResumedHolds == Spec => []WipeIsResumed
<1>1. IInv => WipeIsResumed
  BY DEF IInv, WipeSteps, WipeIsResumed
<1> QED
  BY <1>1, Invariance, PTL

\* APP_MESH_Provision_Complete puts the type and the light values in flash
\* together.
THEOREM LayoutFollowsMeshHolds == Spec => []LayoutFollowsMesh
<1>1. IInv => LayoutFollowsMesh
  BY DEF IInv
<1> QED
  BY <1>1, Invariance, PTL

\* The stack of what the lamp is bound to is running.
THEOREM NeverDeafHolds == Spec => []NeverDeaf
<1>1. IInv => NeverDeaf
  BY DEF IInv, Returns, Reached, NeverDeaf
<1> QED
  BY <1>1, Invariance, PTL

(***************************************************************************)
(* Towards the end of a wipe.  WipeEnds needs fairness and stays with TLC; *)
(* it rests on a wipe that is owed being a path without branches.          *)
(***************************************************************************)
\* The steps that a wipe still has to make, and the step it is at.
WipePath == [off |-> 5, platform |-> 4, clearMesh |-> 3, default |-> 2, erase |-> 1]
WipeStep ==
  \/ pc = "off" /\ Boot
  \/ pc = "platform" /\ ram.ResetCnt >= ResetMax /\ WipeStart
  \/ pc = "clearMesh" /\ ClearMesh
  \/ pc = "default" /\ LoadDefault
  \/ pc = "erase" /\ Erase

LEMMA OnlyWipeSteps ==
  ASSUME IInv, "owed" \in marks, Next, ~PowerLoss
  PROVE  WipeStep
<1> USE DEF ResetMax
<1>1. /\ pc \in {"off", "platform", "clearMesh", "default", "erase"}
      /\ pc = "platform" => ram.ResetCnt >= ResetMax /\ ~(ram.ResetCnt < ResetMax)
  BY DEF IInv, WipeSteps, TypeOK, Database
<1>2. CASE Boot
  BY <1>2 DEF Boot, WipeStep
<1>3. CASE StoreStep
  BY <1>1, <1>3 DEF StoreStep, Save, SaveFull, WipeStep, LoadDefault, Erase
<1>4. CASE StartStep
  BY <1>1, <1>4
     DEF StartStep, CountStart, CorrectType, StartStacks, LightInit, WipeStep, WipeStart, ClearMesh
<1>5. CASE TimerStep
  BY <1>1, <1>5 DEF TimerStep, ClearCount, Reboot, SlowSave, ApplyReset, StoreMeshInfo
<1>6. CASE BleStep
  BY <1>1, <1>6 DEF BleStep, ServicesAdded, Link, Unlink, BindGoogle, UnbindGoogle, GoogleOnOff
<1>7. CASE MeshStep
  BY <1>1, <1>7
     DEF MeshStep, MeshProvisioned, MeshProvisionFailed, MeshReset, MeshOnOff, MeshLight, MeshApply
<1>8. CASE Restart
  BY <1>1, <1>8 DEF Restart
<1> QED
  BY <1>2, <1>3, <1>4, <1>5, <1>6, <1>7, <1>8 DEF Next

\* While a wipe is owed the lamp does nothing else: each step but a loss of power
\* brings the wipe one step on, and its last one, which erases the database,
\* pays it.  A power loss at any of them only sends it back to the next start.
THEOREM WipeAdvances ==
  Spec => /\ []("owed" \in marks => pc \in DOMAIN WipePath)
          /\ [][~PowerLoss /\ "owed" \in marks =>
                  \/ pc' \in DOMAIN WipePath /\ WipePath[pc'] = WipePath[pc] - 1
                  \/ WipePath[pc] = 1 /\ "owed" \notin marks']_vars
<1>1. IInv => ("owed" \in marks => pc \in DOMAIN WipePath)
  BY DEF IInv, WipeSteps, WipePath
<1>2. ASSUME WipeStep
      PROVE  \/ pc' \in DOMAIN WipePath /\ WipePath[pc'] = WipePath[pc] - 1
             \/ WipePath[pc] = 1 /\ "owed" \notin marks'
  BY <1>2 DEF WipeStep, WipePath, Boot, WipeStart, ClearMesh, LoadDefault, Erase
<1>3. IInv /\ [Next]_vars =>
        [~PowerLoss /\ "owed" \in marks =>
           \/ pc' \in DOMAIN WipePath /\ WipePath[pc'] = WipePath[pc] - 1
           \/ WipePath[pc] = 1 /\ "owed" \notin marks']_vars
  BY <1>2, OnlyWipeSteps
<1> QED
  BY <1>1, <1>3, Invariance, PTL DEF Spec

(***************************************************************************)
(* The application uses the store as NvCell describes it: every step is a  *)
(* step of the cell, or leaves the cell alone.                             *)
(***************************************************************************)
LEMMA StepUsesCell ==
  IInv /\ IInv' /\ [Next]_vars => [NV!Next]_(NV!nvVars)
<1> SUFFICES ASSUME IInv, IInv', [Next]_vars PROVE [NV!Next]_(NV!nvVars)
  OBVIOUS
<1>0. ram' \in Database
  BY DEF IInv, TypeOK
<1> USE CapacityAssumption, <1>0
    DEF NV!Next, store, history, air
<1>1. CASE Boot
  BY <1>1 DEF NV!Restart, Boot
<1>2. CASE StoreStep
  <2>1. CASE Save
    BY <2>1 DEF NV!Commit, Save, IInv, TypeOK
  <2>2. CASE SaveFull
    BY <2>2 DEF NV!Vacate, SaveFull
  <2>3. CASE LoadDefault
    BY <2>3 DEF NV!Assign, LoadDefault
  <2>4. CASE Erase
    BY <2>4 DEF NV!Vacate, Erase, IInv, Returns
  <2> QED
    BY <1>2, <2>1, <2>2, <2>3, <2>4 DEF StoreStep
<1>3. CASE StartStep
  <2>1. CASE CountStart
    BY <2>1 DEF NV!Assign, CountStart, SaveThen
  <2>2. CASE WipeStart
    BY <2>2 DEF NV!Assign, WipeStart
  <2>3. CASE ClearMesh
    BY <2>3 DEF NV!Assign, ClearMesh
  <2>4. CASE CorrectType
    BY <2>4 DEF NV!Assign, CorrectType, SaveThen
  <2>5. CASE StartStacks
    BY <2>5 DEF NV!Assign, StartStacks, SaveThen, StacksFor
  <2>6. CASE LightInit
    BY <2>6 DEF NV!Assign, LightInit
  <2> QED
    BY <1>3, <2>1, <2>2, <2>3, <2>4, <2>5, <2>6 DEF StartStep
<1>4. CASE TimerStep
  <2>1. CASE ClearCount
    BY <2>1 DEF NV!Assign, ClearCount, SaveThen
  <2>2. CASE Reboot
    BY <2>2 DEF NV!Assign, Reboot
  <2>3. CASE SlowSave
    BY <2>3 DEF NV!Assign, SlowSave, SaveThen
  <2>4. CASE ApplyReset
    BY <2>4 DEF NV!Assign, ApplyReset, SaveThen
  <2>5. CASE StoreMeshInfo
    BY <2>5 DEF NV!Assign, StoreMeshInfo
  <2> QED
    BY <1>4, <2>1, <2>2, <2>3, <2>4, <2>5 DEF TimerStep
<1>5. CASE BleStep
  <2>1. CASE ServicesAdded
    BY <2>1 DEF NV!Assign, ServicesAdded, Advertise, SaveThen
  <2>2. CASE Link
    BY <2>2 DEF NV!Assign, Link
  <2>3. CASE Unlink
    BY <2>3 DEF NV!Assign, Unlink, Advertise, SaveThen
  <2>4. CASE BindGoogle
    BY <2>4 DEF NV!Assign, BindGoogle, SaveThen
  <2>5. CASE UnbindGoogle
    BY <2>5 DEF NV!Assign, UnbindGoogle
  <2>6. CASE GoogleOnOff
    BY <2>6 DEF NV!Assign, GoogleOnOff
  <2> QED
    BY <1>5, <2>1, <2>2, <2>3, <2>4, <2>5, <2>6 DEF BleStep
<1>6. CASE MeshStep
  <2>1. CASE MeshProvisioned
    BY <2>1 DEF NV!Assign, MeshProvisioned, SaveThen
  <2>2. CASE MeshProvisionFailed
    BY <2>2 DEF NV!Assign, MeshProvisionFailed
  <2>3. CASE MeshReset
    BY <2>3 DEF NV!Assign, MeshReset
  <2>4. CASE MeshOnOff
    BY <2>4 DEF NV!Assign, MeshOnOff
  <2>5. CASE MeshLight
    BY <2>5 DEF NV!Assign, MeshLight
  <2>6. CASE MeshApply
    BY <2>6 DEF NV!Assign, MeshApply
  <2> QED
    BY <1>6, <2>1, <2>2, <2>3, <2>4, <2>5, <2>6 DEF MeshStep
<1>7. CASE Restart
  BY <1>7 DEF NV!Crash, Restart, GoOff
<1>8. CASE PowerLoss
  BY <1>8 DEF NV!Crash, PowerLoss, GoOff
<1>9. CASE UNCHANGED vars
  BY <1>9 DEF vars, store, NV!nvVars
<1> QED
  BY <1>1, <1>2, <1>3, <1>4, <1>5, <1>6, <1>7, <1>8, <1>9 DEF Next

\* APP_Platfrom.c and its callers use the record store as a non-volatile cell.
THEOREM UsesCell == Spec => UsesNvCell
<1>1. Init => NV!Init
  BY CapacityAssumption, DefIsDatabase, ProvAssumption
  DEF Init, NV!Init, Database, Def, ProvType, ResetMax
<1>2. IInv /\ IInv' /\ [Next]_vars => [NV!Next]_(NV!nvVars)
  BY StepUsesCell
<1> QED
  BY <1>1, <1>2, Invariance, PTL DEF Spec, UsesNvCell, NV!Spec
=============================================================================
