----------------------------- MODULE PowerCycle -----------------------------
(***************************************************************************)
(* What the lamp is bound to, over power cycles: APP_Platfrom.c with its   *)
(* callers (YK_APP_Init, the GAP and mesh callbacks of the application,    *)
(* the provisioning commands of APP_Google.c, the apply timer of sig_ota), *)
(* over the record store of APP_MEM.c taken as the non-volatile cell of    *)
(* NvCell, which MemLog implements.  One database record serves them all.  *)
(*                                                                         *)
(* Handlers run one at a time; a save may find the storage full and then   *)
(* erases it first, and power can be cut between any two flash operations. *)
(* The mesh stack, the peers and the supply are external.                  *)
(***************************************************************************)
EXTENDS Naturals

CONSTANTS
  Capacity,  \* saves between two erasures of the record store
  QuickCap   \* bound on the count of short starts kept for the properties

CONSTANTS NONE, GOOGLE, AMANZON, UNKNOWN  \* PROV_TYPE, and a value that is none of them

ProvType == {NONE, GOOGLE, AMANZON}
ResetMax == 4

\* The union of APP_MEM_DB holds the values of one of its two layouts.
Database == [Provision : ProvType \cup {UNKNOWN}, ResetCnt : 0 .. ResetMax,
             OTAWithOff : 0 .. 1, Light : {"ble", "mesh"}]
Def == [Provision |-> NONE, ResetCnt |-> 0, OTAWithOff |-> 0, Light |-> "ble"]

ASSUME CapacityAssumption == Capacity \in Nat \ {0}
ASSUME QuickCapAssumption == QuickCap \in Nat /\ QuickCap >= ResetMax
ASSUME ProvAssumption ==
  /\ NONE # GOOGLE /\ NONE # AMANZON /\ GOOGLE # AMANZON
  /\ UNKNOWN \notin ProvType

VARIABLES
  pc,        \* the step of the running handler; "run": none; "off": no power
  ret,       \* the step that follows the save being made
  stored, used,  \* the record the next start finds; saves since an erasure
  ram,       \* gst_AppMemDB
  network,   \* where the mesh stack has its network: in "ram" and in "flash"
  radio,     \* the stacks APP_Platfrom_Init started
  adv,       \* the BLE slave: "quiet", "waiting", "on" (advertising), "linked"
  onoff,     \* light.onoff, "ON" or "OFF"
  timers,    \* software timers running
  quick,     \* history: short starts in a row before this one
  marks      \* history, a set of:
             \*   "lived": Reset_Timer_Handler has done its work in this start
             \*   "owed":  a wipe of Reset_Process is not complete yet

store == <<stored, used>>
air == <<radio, adv>>
history == <<quick, marks>>
vars == <<pc, ret, store, ram, network, air, onoff, timers, history>>

Timer == {"clear", "reboot", "slow", "apply", "meshStore"}

TypeOK ==
  /\ pc \in {"off", "platform", "clearMesh", "default", "erase", "save", "stacks",
             "light", "reset", "run"}
  /\ ret \in {"stacks", "light", "reset", "run"}
  /\ stored \in Database /\ ram \in Database /\ used \in 0 .. Capacity
  /\ network \subseteq {"ram", "flash"}
  /\ radio \subseteq {"mesh", "ble"} /\ adv \in {"quiet", "waiting", "on", "linked"}
  /\ onoff \in {"ON", "OFF"} /\ timers \subseteq Timer
  /\ quick \in 0 .. QuickCap /\ marks \subseteq {"lived", "owed"}

\* A new lamp, or one with a record of another firmware that left a provisioning
\* type this one does not know.
Init ==
  /\ pc = "off" /\ ret = "run"
  /\ \/ stored = Def /\ used = 0
     \/ stored = [Def EXCEPT !.Provision = UNKNOWN] /\ used = 1
  /\ ram = Def
  /\ network = {} /\ radio = {} /\ adv = "quiet" /\ onoff = "OFF" /\ timers = {}
  /\ quick = 0 /\ marks = {}

-----------------------------------------------------------------------------
(* The record store                                                        *)

\* The tail of a handler that saves and goes on at step k.
SaveThen(k) == pc' = "save" /\ ret' = k

\* MEM_Write with room for the record.  A start has lived when a record is in
\* flash after its timer has cleared the count.
Save ==
  /\ pc = "save" /\ used < Capacity
  /\ stored' = ram /\ used' = used + 1 /\ pc' = ret
  /\ marks' = IF radio # {} /\ "clear" \notin timers THEN marks \cup {"lived"} ELSE marks
  /\ UNCHANGED <<ret, ram, network, air, onoff, timers, quick>>

\* MEM_Write with the store full: it is erased before the record is written.
SaveFull ==
  /\ pc = "save" /\ used = Capacity
  /\ stored' = Def /\ used' = 0
  /\ UNCHANGED <<pc, ret, ram, network, air, onoff, timers, history>>

\* Mutant: the working copy is not reset before the store is erased.
LoadDefaultLate ==
  /\ pc = "default"
  /\ pc' = "erase"
  /\ UNCHANGED <<ret, store, ram, network, air, onoff, timers, history>>

\* APP_MEM_Factory_Reset: the working copy takes the defaults, the store is
\* erased, the defaults are saved; the caller goes on at step ret.
LoadDefault ==
  /\ pc = "default"
  /\ ram' = Def /\ pc' = "erase"
  /\ UNCHANGED <<ret, store, network, air, onoff, timers, history>>

Erase ==
  /\ pc = "erase"
  /\ stored' = Def /\ used' = 0 /\ pc' = "save"
  /\ marks' = marks \ {"owed"}
  /\ UNCHANGED <<ret, ram, network, air, onoff, timers, quick>>

-----------------------------------------------------------------------------
(* A start: YK_APP_Init                                                    *)

\* APP_MEM_Init.
Boot ==
  /\ pc = "off"
  /\ ram' = stored /\ pc' = "platform"
  /\ UNCHANGED <<ret, store, network, air, onoff, timers, history>>

\* Reset_Process: the fifth start in a row that did not last wipes the lamp.
CountStart ==
  /\ pc = "platform" /\ ram.ResetCnt < ResetMax
  /\ ram' = [ram EXCEPT !.ResetCnt = @ + 1] /\ SaveThen("stacks")
  /\ UNCHANGED <<store, network, air, onoff, timers, history>>

\* Mutant: the count is cleared when the wipe begins, not by the wipe.
WipeStartClears ==
  /\ pc = "platform" /\ ram.ResetCnt >= ResetMax
  /\ pc' = "clearMesh" /\ ret' = "reset" /\ marks' = marks \cup {"owed"}
  /\ stored' = [stored EXCEPT !.ResetCnt = 0] /\ UNCHANGED used
  /\ UNCHANGED <<ram, network, air, onoff, timers, quick>>

WipeStart ==
  /\ pc = "platform" /\ ram.ResetCnt >= ResetMax
  /\ pc' = "clearMesh" /\ ret' = "reset" /\ marks' = marks \cup {"owed"}
  /\ UNCHANGED <<store, ram, network, air, onoff, timers, quick>>

\* mesh_info_clear, of a wipe and of the node reset the network asks for.
ClearMesh ==
  /\ pc = "clearMesh"
  /\ network' = network \ {"flash"} /\ pc' = "default"
  /\ UNCHANGED <<ret, store, ram, air, onoff, timers, history>>

\* A type the firmware does not know is corrected, and the correction saved.
CorrectType ==
  /\ pc = "stacks" /\ ram.Provision \notin ProvType
  /\ ram' = [ram EXCEPT !.Provision = NONE] /\ SaveThen("stacks")
  /\ timers' = timers \cup {"clear"}
  /\ UNCHANGED <<store, network, air, onoff, history>>

\* Mutant: an unprovisioned lamp starts the mesh only.
StacksForMesh(p) ==
  (IF p \in {NONE, AMANZON} THEN {"mesh"} ELSE {}) \cup
  (IF p = GOOGLE THEN {"ble"} ELSE {})

\* What APP_Platfrom_Init starts for a provisioning type.
StacksFor(p) ==
  (IF p \in {NONE, AMANZON} THEN {"mesh"} ELSE {}) \cup
  (IF p \in {NONE, GOOGLE} THEN {"ble"} ELSE {})

\* The rest of APP_Platfrom_Init: the timer that clears the count, the stacks.
\* Light_Status_Default_Init, called for the mesh, takes note of a firmware
\* applied with the light off and clears the flag.
StartStacks ==
  /\ pc = "stacks" /\ ram.Provision \in ProvType
  /\ timers' = timers \cup {"clear"}
  /\ radio' = StacksFor(ram.Provision) /\ adv' = "waiting"
  /\ network' = IF "mesh" \in radio' /\ "flash" \in network THEN {"ram", "flash"} ELSE network
  /\ IF "mesh" \in radio' /\ ram.OTAWithOff = 1
       THEN ram' = [ram EXCEPT !.OTAWithOff = 0] /\ SaveThen("light")
       ELSE pc' = "light" /\ UNCHANGED <<ret, ram>>
  /\ UNCHANGED <<store, onoff, history>>

\* APP_Light_Init.
LightInit ==
  /\ pc = "light"
  /\ onoff' = (IF ram.OTAWithOff = 1 THEN "OFF" ELSE "ON") /\ pc' = "run"
  /\ UNCHANGED <<ret, store, ram, network, air, timers, history>>

\* Power is lost, or the software restarts the device: RAM is gone.
GoOff ==
  /\ pc' = "off" /\ ram' = Def /\ ret' = "run"
  /\ network' = network \ {"ram"}
  /\ radio' = {} /\ adv' = "quiet" /\ onoff' = "OFF" /\ timers' = {}
  /\ quick' = IF "lived" \in marks THEN 0 ELSE IF quick < QuickCap THEN quick + 1 ELSE quick
  /\ marks' = marks \cap {"owed"}
  /\ UNCHANGED store

PowerLoss == pc # "off" /\ GoOff

\* SYSTEM_RESET.
Restart == pc = "reset" /\ GoOff

-----------------------------------------------------------------------------
(* Timers                                                                  *)

\* Mutant: Reset_Timer_Handler does not save.
ClearCountInRam ==
  /\ pc = "run" /\ "clear" \in timers
  /\ timers' = timers \ {"clear"}
  /\ ram' = [ram EXCEPT !.ResetCnt = 0] /\ marks' = marks \cup {"lived"}
  /\ UNCHANGED <<pc, ret, store, network, air, onoff, quick>>

\* Reset_Timer_Handler, 5 s after the start.
ClearCount ==
  /\ pc = "run" /\ "clear" \in timers
  /\ timers' = timers \ {"clear"}
  /\ ram' = [ram EXCEPT !.ResetCnt = 0] /\ SaveThen("run")
  /\ UNCHANGED <<store, network, air, onoff, history>>

\* EVT_Google_REBOOT, 300 ms after an unprovisioning.
Reboot ==
  /\ pc = "run" /\ "reboot" \in timers
  /\ timers' = timers \ {"reboot"} /\ pc' = "reset"
  /\ UNCHANGED <<ret, store, ram, network, air, onoff, history>>

\* EVT_MEM_SAVE, 3 s after the last change of a light value.
SlowSave ==
  /\ pc = "run" /\ "slow" \in timers
  /\ timers' = timers \ {"slow"} /\ SaveThen("run")
  /\ UNCHANGED <<store, ram, network, air, onoff, history>>

\* ota_apply_reset_cb, 3 s after a firmware was applied over the mesh.
ApplyReset ==
  /\ pc = "run" /\ "apply" \in timers
  /\ timers' = timers \ {"apply"}
  /\ ram' = [ram EXCEPT !.OTAWithOff = IF onoff = "ON" THEN 0 ELSE 1] /\ SaveThen("reset")
  /\ UNCHANGED <<store, network, air, onoff, history>>

\* The application stores the network information 2 s after it changed.
StoreMeshInfo ==
  /\ pc = "run" /\ "meshStore" \in timers
  /\ timers' = timers \ {"meshStore"} /\ network' = network \cup {"flash"}
  /\ UNCHANGED <<pc, ret, store, ram, air, onoff, history>>

-----------------------------------------------------------------------------
(* The BLE peripheral and the Google client                                *)

\* APP_Google_Start_Advertising forgets the provisioning, and saves that.
Advertise ==
  /\ adv' = "on"
  /\ ram' = [ram EXCEPT !.Provision = NONE] /\ SaveThen("run")

\* GAP_EVT_ALL_SVC_ADDED, once after a start.
ServicesAdded ==
  /\ pc = "run" /\ adv = "waiting"
  /\ IF ram.Provision # AMANZON
       THEN Advertise
       ELSE adv' = "quiet" /\ UNCHANGED <<pc, ret, ram>>
  /\ UNCHANGED <<store, network, radio, onoff, timers, history>>

Link ==
  /\ pc = "run" /\ adv = "on" /\ adv' = "linked"
  /\ UNCHANGED <<pc, ret, store, ram, network, radio, onoff, timers, history>>

\* GAP_EVT_DISCONNECT.
Unlink ==
  /\ pc = "run" /\ adv = "linked"
  /\ IF ram.Provision # AMANZON
       THEN Advertise
       ELSE adv' = "quiet" /\ UNCHANGED <<pc, ret, ram>>
  /\ UNCHANGED <<store, network, radio, onoff, timers, history>>

\* Proc_Provision, success.
BindGoogle ==
  /\ pc = "run" /\ adv = "linked"
  /\ ram' = [ram EXCEPT !.Provision = GOOGLE] /\ SaveThen("run")
  /\ UNCHANGED <<store, network, air, onoff, timers, history>>

\* Proc_Provision, failure, and Proc_UnProvision.
UnbindGoogle ==
  /\ pc = "run" /\ adv = "linked"
  /\ pc' = "default" /\ ret' = "run" /\ timers' = timers \cup {"reboot"}
  /\ UNCHANGED <<store, ram, network, air, onoff, history>>

\* Proc_OnOff: ignored unless bound (ProtocolProcess).
GoogleOnOff ==
  /\ pc = "run" /\ adv = "linked" /\ ram.Provision = GOOGLE
  /\ onoff' \in {"ON", "OFF"}
  /\ UNCHANGED <<pc, ret, store, ram, network, air, timers, history>>

-----------------------------------------------------------------------------
(* The mesh stack and its provisioner                                      *)

\* Mutant: the flag is saved, the light values only with the next save.
MeshProvisionedSplit ==
  /\ pc = "run" /\ "mesh" \in radio /\ "ram" \notin network
  /\ ram' = [ram EXCEPT !.Provision = AMANZON, !.OTAWithOff = 0]
  /\ network' = network \cup {"ram"} /\ timers' = timers \cup {"meshStore", "slow"} /\ SaveThen("run")
  /\ UNCHANGED <<store, air, onoff, history>>

\* MESH_EVT_PROV_RESULT, success: APP_MESH_Provision_Complete sets the type and
\* the light values of the mesh, and saves once with the flag of a firmware
\* applied with the light off cleared (a second, equal save is not told apart).
\* The network information follows with its timer.
MeshProvisioned ==
  /\ pc = "run" /\ "mesh" \in radio /\ "ram" \notin network
  /\ ram' = [ram EXCEPT !.Provision = AMANZON, !.Light = "mesh", !.OTAWithOff = 0]
  /\ network' = network \cup {"ram"} /\ timers' = timers \cup {"meshStore"} /\ SaveThen("run")
  /\ UNCHANGED <<store, air, onoff, history>>

\* MESH_EVT_PROV_RESULT, failure.
MeshProvisionFailed ==
  /\ pc = "run" /\ "mesh" \in radio /\ "ram" \notin network
  /\ pc' = "reset"
  /\ UNCHANGED <<ret, store, ram, network, air, onoff, timers, history>>

\* MESH_EVT_RESET: the provisioner removes the node.
MeshReset ==
  /\ pc = "run" /\ "ram" \in network
  /\ network' = network \ {"ram"} /\ pc' = "clearMesh" /\ ret' = "reset"
  /\ UNCHANGED <<store, ram, air, onoff, timers, history>>

\* Generic OnOff Set.
MeshOnOff ==
  /\ pc = "run" /\ "ram" \in network
  /\ onoff' \in {"ON", "OFF"}
  /\ UNCHANGED <<pc, ret, store, ram, network, air, timers, history>>

\* A light value is set: Light_Status_Save writes all of them in the layout of
\* the mesh and starts the delayed save.
MeshLight ==
  /\ pc = "run" /\ "ram" \in network
  /\ ram' = [ram EXCEPT !.Light = "mesh"] /\ timers' = timers \cup {"slow"}
  /\ UNCHANGED <<pc, ret, store, network, air, onoff, history>>

\* A firmware is applied (firmware_update_apply).
MeshApply ==
  /\ pc = "run" /\ "ram" \in network
  /\ timers' = timers \cup {"apply"}
  /\ UNCHANGED <<pc, ret, store, ram, network, air, onoff, history>>

-----------------------------------------------------------------------------
StoreStep == Save \/ SaveFull \/ LoadDefault \/ Erase
StartStep == CountStart \/ WipeStart \/ ClearMesh \/ CorrectType \/ StartStacks \/ LightInit
TimerStep == ClearCount \/ Reboot \/ SlowSave \/ ApplyReset \/ StoreMeshInfo
BleStep == ServicesAdded \/ Link \/ Unlink \/ BindGoogle \/ UnbindGoogle \/ GoogleOnOff
MeshStep == \/ MeshProvisioned \/ MeshProvisionFailed \/ MeshReset
            \/ MeshOnOff \/ MeshLight \/ MeshApply

Next == Boot \/ StoreStep \/ StartStep \/ TimerStep \/ BleStep \/ MeshStep \/ Restart \/ PowerLoss

\* A powered device runs its code and its timers fire.
Fairness ==
  /\ WF_vars(Boot) /\ WF_vars(StoreStep) /\ WF_vars(StartStep) /\ WF_vars(Restart)
  /\ WF_vars(ClearCount)

Spec == Init /\ [][Next]_vars
FairSpec == Spec /\ Fairness

-----------------------------------------------------------------------------
(* Properties                                                              *)

\* The lamp is wiped by power cycling only if the four starts before this one
\* all ended before their timer had cleared the count: the count in flash never
\* exceeds the short starts there really were, whatever else was saved between.
WipeIsEarned ==
  /\ pc = "off" => stored.ResetCnt <= quick
  /\ pc = "clearMesh" /\ "owed" \in marks => quick >= ResetMax

\* A wipe cut by a power loss, with the network information already gone, is
\* taken up again by the next start: the count stays at its limit until the
\* database has been erased.
WipeIsResumed == "owed" \in marks => stored.ResetCnt >= ResetMax

\* The provisioning type and the light values of the mesh go to flash together:
\* no start finds a lamp of the mesh network with the values of the BLE layout.
LayoutFollowsMesh == stored.Provision = AMANZON => stored.Light = "mesh"

\* A running lamp can be reached by what it is bound to: the mesh stack runs if
\* it is bound to the mesh, the BLE stack if it is not, in the session in which
\* the binding changed and after every start.
NeverDeaf ==
  pc = "run" => IF ram.Provision = AMANZON THEN "mesh" \in radio ELSE "ble" \in radio

\* A wipe that has begun comes to its end if the power stays in the end.
WipeEnds == <>[][~PowerLoss]_vars => ("owed" \in marks ~> "owed" \notin marks)

NV == INSTANCE NvCell WITH Values <- Database, up <- pc # "off"

\* The application uses its store as a cell: only the working copy is saved, and
\* nothing erases the store except to make room or to put the defaults back.
UsesNvCell == NV!Spec
=============================================================================
