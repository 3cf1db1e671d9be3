# Verification of the YK FR8010H light firmware

TLA+ models, TLC runs and machine-checked proofs about the firmware of a Bluetooth lamp
built on the FR8010H SDK. The application is in `src/Source/` with its callbacks in
`src/examples/developing/ble_mesh_PB_Remote/`; around it is the vendor's SDK, which is headers,
drivers and binary libraries. Source comments are Chinese in GB18030; they are quoted in
translation. Paths below leave out `src/Source/` where no other root is named.

## 1. The system and its parts

One lamp is at once a mesh node (Alexa, "AMANZON" in the code) and a BLE peripheral (Google). It
keeps one database record in flash, drives five PWM channels, and takes new firmware over either
link. There is one event loop: GATT handlers, event tasks and software-timer callbacks run one at
a time and to their end. Two things do not wait for them: the interrupt of TIMER1, which moves
the light every 10 ms, and the supply, which can fail between any two flash operations.

| Part (source) | State | Operations | Hard behaviour | What makes it correct |
|---|---|---|---|---|
| **APP_MEM** record log (`APP/APP_MEM.c`, `MEM_MAP.h`) | main sector of records, backup sector, cursor, RAM copy, delayed-save timer, queued events | start-up scan, write with read-back, wrap through the backup, erase, factory reset, slow (3 s) and fast save | power loss between and during flash operations; results nobody looks at | a start finds the last saved database or the one before; a delayed save lands; every start completes |
| **APP_TC_OTA** update over GATT (`APP/APP_TC_OTA.c`, `Profile/TC_OTA_Service.c`, `BSP/BSP_IAP.c`) | one-frame receive buffer, queued events, write position, first page in RAM, `ota_state`, CRC, reboot timer | inform, start, data, confirm, reset | frames overwritten before they are handled; lost links; repeats; power loss between erase and write | no write on unerased flash; the page that announces an image is written last; an acknowledged packet is held |
| **APP_Platfrom** binding and power cycling (`APP/APP_Platfrom.c` and its callers in `APP_MESH.c`, `APP_Google.c`, the application) | binding, short-start count, stacks started, flags, all in the one record | start, 5 s timer, bind/unbind from either stack, factory wipe after five short starts | several modules save the same record; restarts by power and by software; a wipe cut half way | a wipe is earned, resumed and completed; the lamp can be reached by what it is bound to |
| **sig_ota** update over the mesh (`model_spec/sig_ota/`) | phase of the update server, phase and BLOB of the transfer server, block, chunk bitmap, apply timer | update start/cancel/apply, transfer start, block start, chunk | two servers with a phase each; last block and last chunk shorter; sizes nobody checks, more chunks than the bitmap has bits; retries, duplicates, restarts | the bitmap tells which chunks came; a block is left only with all that have a bit, a BLOB only with all blocks; the servers agree |
| **APP_Light** output (`APP/APP_Light.c`, `BSP/FR801x_it.c`) | settings; start, current and target level of each channel; transition time | setters, `light_start_transition`, the interrupt of TIMER1, blinking in that of TIMER0 | the interrupts between any two writes of the same fields; unsigned widths | the lamp ends at what it was set to, and the white channels stay in their budget |
| **model_spec** lighting servers (`model_spec/light_*`, `generic_*`, `light_status/`) | `LightStatus`, the mesh values in the database, flash | some twenty Set messages of eight servers that are bound to each other | one value in four places, saved at different times; ranges changed after the value; starts | On has a lightness to return to; a start reports what it was told to, in range; what was set survives |
| **model_common** (`model_spec/model_common/`) | the last transaction of each server, a 32-bit clock | transaction check, 6 s window | wrap of the clock, the timer interrupt between two readings of it, lost replies | a transaction is carried out once, only a repeat is refused, and a client that repeats is answered |
| **APP_Google** (`APP/APP_Google.c`, `Profile/Google_Service.c`) | one-frame buffer, reply and its length, notification flag, blinking | control, bind, unbind; advertising | frames overwritten before they are handled, a reply left over, the flag shared by all links | a reply goes to the client that asked, with the status of that moment |
| **Callbacks** (`proj_main.c`, `pb_remote_central.c`, `sig_mesh_led.c` of the example) | indices of the lamp's link, of the link being made and of PB-Remote's; attempt timer and count | GAP and GATT events of every link, links to nodes it provisions | one handler for all links, told by index; events that lag behind the links; a timeout racing a late link | the lamp stays reachable, has one client at most, and answers the mesh stack |
| **YK_APP**, **APP_MESH** | order of start-up, event tasks | initialisation | a flag consumed before its reader runs | see APP_Platfrom |
| drivers, `APP_Switch`, SDK, other examples | registers; keys; vendor code | | | outside this project (section 7) |

How they interact: every part that keeps something changes its fields of `gst_AppMemDB` and calls
`APP_MEM_Fast_Save` or `APP_MEM_Slow_Save`, so the record and its single slow-save timer are
shared state. The mesh servers write `LightStatus`, the database and APP_Light, which is read by
the interrupt. Both updates end in a restart, on which APP_Platfrom runs. The GAP callback and the
services are told of every link of the lamp, whichever part it belongs to: a proxy client of the mesh
that leaves, or a link of PB-Remote, runs code of the Google service and of the update over GATT.
`PROJECT.json` lists the hazards, each at its line and with the property that covers it.

## 2. Modules

| Module | Is | Theorems in |
|---|---|---|
| `NvCell` | abstract: a non-volatile cell that a crash returns to its last value, or to the default while it is being vacated | |
| `ImageTransfer` | abstract: an image that is taken in whole or not at all; `BlobDfu` and `TcOtaSession` implement it | |
| `MemLog` | APP_MEM.c; implements `NvCell` | `MemLog_proofs` |
| `TidTracker` | a server's transactions, its clock and its clients | `TidTracker_proofs` |
| `PowerCycle` | binding and starts, on a store that is used as `NvCell` | `PowerCycle_proofs` |
| `Links` | every link of the lamp, as the callbacks, the Google service and PB-Remote see it | `Links_proofs` |
| `TcOta` | the device under any clients | `TcOta_proofs` |
| `TcOtaSession` | `TcOta` composed with one client in lock step | `TcOta_proofs` |
| `BlobDfu` | update over the mesh, both servers | `BlobDfu_proofs` |
| `LightSettings` | settings of APP_Light and the levels they ask for, used by both modules below | |
| `LampOutput` | transitions, blinking and the two interrupts | `LampOutput_proofs` |
| `MeshLight` | light values of the mesh and their saves and starts | `MeshLight_proofs` |
| `MC_*` | values of the constants for TLC | |

Variables and actions carry the names of the source where it has them (`APP_TC_OTA_Task`,
`light_start_transition`, `blob_block_start`, ...). `PROJECT.json` maps every definition to its
lines. A definition marked as a mutant stands before the one it is a wrong version of; it is used
by no run, and shows which mistake the property beside it would catch.

### MemLog and NvCell

`main` is the main sector as a function from slots to records, `bk` the backup record, `db`
`gst_AppMemDB`, `cur` `usCurIndex`. `pc` names the next flash operation of `MEM_Write`/`MEM_Erase`,
each of which is an action (`BackupErase`, `BackupWrite`, `MEM_Erase`, `RecordWrite`), so that
`PowerLoss` can fall between any two, and can leave the slot being programmed `Torn`. The three
`Boot...` actions are the outcomes of the scan in `APP_MEM_Init`. Checksums are ideal: a torn slot
is recognised. `TailLen` is the remainder of the sector behind the last record; with the build's
43-byte records it is not 0, and the read of the backup record at index `RECORD_DATA_NUM`
(APP_MEM.c:255) then finds no record. `NvCell` says what all this amounts to for a caller: the next
start finds the last committed value; when its `Capacity` saves are used up it is vacated before the
next commit and holds the default in between. That window is the loss shown by `memlog_wrap`: with
a backup that is read where it is written, `NvCell` could be stated without it.

### ImageTransfer

What both updates promise of an image on its way: it is announced with a number of parts, the parts come
from the first to the last, none is lost alone, and it is whole only with all of them. It may be dropped
at any time, with all of its parts. For `BlobDfu` the parts are the blocks and `stage` is the phase of the
BLOB server; for `TcOtaSession` they are the units the client has an acknowledgement for *and* the device
holds, so that an acknowledged unit that is not held would show as a part lost alone.

### TcOta and TcOtaSession

`buff` is the one frame `TC_OTA_Service` keeps, `evts` the events it posted, so `GattWrite` can
overwrite a frame that was not handled and `APP_TC_OTA_Task` can handle one twice. One procedure of
the command table is one action; `Cut` adds the outcomes of a power loss at every point of its
flash operations. A unit of flash stands for a half page or so: the first page is `PAGE` units,
sectors are `SECTOR` units. The CRC is ideal (`CrcOk`). A confirm command with a size below one
page computes with a wrapped length (APP_TC_OTA.c:61); it is `ConfirmFault`, after which the device
stops until restarted. `GapDisconnect` and `GattLinkCreate` are the events of any link: the loss of a
mesh proxy's link or of one of PB-Remote clears `ota_state` and the notification flag in the middle of
an update just as the client's own does (`mine`). `GattConfig` writes that one flag for both
characteristics.

In `TcOtaSession` a client sends the script start, packets, confirm, reset, waiting for each reply, and
begins anew after a lost link or a power loss (an inform changes nothing and is left out of the script).
`OtherLink` brings the links of others in between; a client that then waits in vain drops its link
(`Timeout`). The client is external: none is in the repository. `Resume = "repeat"` is a client that
repeats the command whose reply was lost.

### TidTracker

`tracker` is the `tid_tracker` of one server, `s_ulTick` the clock modulo `WRAP` (2^32 in the code).
`Check_Tid_Time` has its two branches, and takes the two readings of the clock it makes: TIMER0 is an
interrupt, so the clock may advance between them, or between the check and the recording of the
message (`a` and `b` in `Handle`; at most one tick falls into a handler). `ok` says that the message
passes the checks behind the tracker: an invalid one takes the tracker all the same. The clients and
the net are external: a client transmits at least every `RETRY` ticks until it is answered or gives
up, the net may lose `LOSSES` messages and replies of a transaction. `since` is history: the ticks
since the tracker took a message.

### PowerCycle

`stored`/`used` are the record store as a cell with `Capacity` saves between erasures (a save is
`SaveFull` and `Save` when it is full), `ram` the working copy, `network` the mesh stack's own
flash, `radio` the stacks that were started, `timers` the software timers. A start walks through
`pc` = platform, (clearMesh, default, erase, save), stacks, light, run. `GoOff` is the common part
of a power loss and of a restart by software; the reboot after an update over GATT is, for this
module, a power loss at rest. `quick` and `marks` are history variables: the short starts that
really happened, whether this start has lived long enough not to count, whether a wipe is owed. `Init` includes a record left by other firmware with an unknown binding (APP_Platfrom corrects
it).

### Links

`link` is what the stack uses each index for, `events` the messages to the application that it has not
handled yet, so the stack runs ahead of what the callbacks know: `slave_link_conidx_tmp` (the last link
a peer opened), `slave_link_conidx` and `adv_stopped` (the lamp's own), `client_idx` (PB-Remote's). A
handler is one action of `Handle`; all the code it calls is part of it, so that `Disconnect` clears the
notification flag (`LinkLostNtf`), tells `pb_remote_disconnected` and restarts the advertising if the
link was the one that ended it (`Mine`). `rx` and `tx` are the command in the one buffer and the reply in
the other; a refused frame leaves `tx` and its length as they were (APP_Google.c:396). `asking` is
history: the link the command came over has not been lost. `trying`, `conn_timer` and `try_times` are an
attempt to connect, `remote` is what the mesh stack waits for.

What is assumed of the stack, which is binary: messages are delivered in the order they were posted;
`ADV_END` follows the connection that ended the advertising at once; an index is used again only when
the loss of its last link was handled. GATT callbacks run before the messages queued behind them, so a
frame can still be in the queue when its link is gone. A client of the lamp's own advertising uses the
Google service only (the update service is `TcOta`). The blink command, which is answered with nothing as
bind and unbind are, is left out here to keep the run small; what it does is in `LampOutput`. A start keeps the binding (`Restart`) or clears it (`MeshReset`); what
it finds in flash is `PowerCycle`'s subject.

### BlobDfu

Requests come at any time and in any number, which covers lost, repeated and late messages; a power
loss or the restart after an apply is `Restart`. The bitmap, block and chunk arithmetic is that of
the code; `got`, `held` are history. Assumption on the client (`InTurn`): a block is asked for in
turn, as the transfer model says it is done. Of sizes nothing is assumed but the width of their fields.

The bitmap `received_chunks` has `Bits` bits: `1 << MAX_BLOCK_SIZE_LOG/MAX_CHUNK_SIZE/8` bytes
(blob_transfer_server.h:174) is one byte, eight bits, where blocks may have 100 chunks and, as the check
is made with the chunk size of the block before (blob_procedure_server.c:501), many more. The model follows the
code past it. A bit that is not there is one of the field behind: it reads as set or not
(`MayBeMissing`, `SomeOf`) and, since every block start and every reply rewrites those fields, is taken as
a new choice at each reading. Chunks are counted in a `uint8_t` (`Byte`) and blocks in a `uint16_t`
(`Word`). A handler that does not return is the phase `"hung"`, which only a restart ends: the loop over
the bits of a last block of no chunks (`Endless`), the reply to a start with no blocks, and
`status_send`, whose lists of blocks and chunks may run over the stack. What a write past the bitmap does to the
state behind it (the number of bits in the next reply, the flags of the capabilities) is followed no further than
that. A division by zero gives 0, as UDIV on the Cortex-M does.

The properties keep to what the code can do: `BitmapTrue` and `BlockWhole` speak of the chunks that
have a bit (`Tracked`), in blocks whose chunks can be counted (`Countable`), whatever else was asked for
before. For a block that fits the bitmap (`Fits`) that is all of it; for a larger one see section 5.

### LightSettings and LampOutput

The setters change the settings and call `light_start_transition`, whose writes are taken one at a
time by `at`, in the order of the source; `TakeBranch` is the reading of `onoff` that decides which targets
follow. `Move` and `Finish` are the interrupt of TIMER1, enabled between any two of them. The three
colour channels are one and the colour tables a choice; the products and the unsigned widths of the
white channels are kept. The history variable `spoilt` says that an interrupt came in the middle
of the writes, or that a level above full was set, since the last undisturbed end.

`Proc_Blink` starts and stops blinking in the main loop, `APP_Google_TimeProc` is the switch it makes
in the interrupt of TIMER0, at any time while `blinking` (the 500 ms are not counted). It may come in the
midst of the main loop's `light_start_transition`; what that had reached is kept in `held` and taken up
by the last write of the blink's own (`Begin`), as an interrupt returns. TIMER1 has the higher priority and
interrupts both. The warm target may be computed from the cold one as read back or from a register
(`Aims`): the two differ when a blink came in between. `torn` says that a blink came between the branch
and the last write of a setter.

### MeshLight

Each light value has four places: `status` (`LightStatus`), `db` (`MEM_DB_MESH` in RAM), `stored`
(flash) and `light` (APP_Light). An action is a whole message handler: checks, clipping to the range,
the values of the bound models, the save, the settings of the lamp. `pending` is the slow-save
timer. `wish` is history: the lightness a client was last told is the one to be restored. Ranges that
the handler must refuse (from zero, reversed) are among the inputs. The unacknowledged lightness set
writes its reply through a null pointer after its changes (light_lightness_setup_server.c:173); what
that leaves behind is covered by the message followed by `PowerLoss`. Handlers are atomic, saves are
taken to succeed (failing ones belong to `MemLog`), and `Init` is a lamp that has just joined the
mesh. Current and target values differ only inside a handler, so one variable holds both. The lamp gets
a lightness cut to a `uint8_t` (APP_Light.c:121, `% BYTE`), so that it may be dark at a start that reports On:
`DefaultReportsOn` speaks of the report, `PowersUpAsTold` of the lamp.

## 3. Runs

| Run | Shows | Distinct states |
|---|---|---|
| `memlog` | through saves, wraps, resets and power losses the log keeps its shape, copies before it erases, implements `NvCell`; a failed save costs no record; nothing is left unsaved with no save pending; delayed saves land and starts complete | 14,555 |
| `memlog_wrap` | **violation**, finding 1 | |
| `memlog_torn` | **violation**, finding 2 | |
| `tcota` | for any frames in any order, handled late or twice, and any links made and lost: packets go only to erased flash, the first page changes only in a step that ends the update, nothing is written outside an update. For a client in lock step: it installs its image whole through lost links, its own and others', power losses and restarts, is told of no packet that is not held, sees the image taken in as `ImageTransfer` says, and comes to the end | 1,488,533 |
| `tcota_repeat` | **violation**, finding 3 | |
| `tid` | a transaction is carried out once in its window, only repeats are refused, and a client that goes on repeating is answered, with a clock that wraps and ticks in the middle of handlers | 161,670 |
| `power_cycle` | wipes are earned, resumed and completed; binding and light layout agree; the lamp can be reached; the store is used as `NvCell` | 137,510 |
| `blob_dfu` | for any sizes asked for: the bitmap is true of the chunks that have a bit, no block is left before those are in, both servers agree, and the blocks are taken in whole or not at all (`ImageTransfer`) | 71,513 |
| `light` | a lamp at rest shows its settings wherever TIMER1 came and unless a blink has torn a setter; undisturbed transitions never turn back or exceed the white budget; the lamp comes to rest | 1,431,465 |
| `mesh_light` | On is lit; a start with DEFAULT reports On, in range; what was set survives once saved; the lamp can mix its temperature | 857,563 |
| `mesh_light_power` | **violation**, finding 4 | |
| `links` | once all events are handled the lamp can be reached; it never has two clients, nor advertises with one; replies go to the client that asked; PB-Remote forgets no request for a link and answers each | 2,110,668 |

On two workers `links` takes about three minutes, `light` and `tcota` about two, the others less. `tcota`
starts in one of two worlds, with clients that send anything (`AnyNext`) or with the session; they share no step.
`TypeOK` of each module is not checked by a run but proved, as is `CompleteIsWhole` of `BlobDfu`, which
`ImplementsTransfer` contains.

**Findings** (disagreements of the code with a statement of the repository; `PROJECT.json` quotes it):

1. `memlog_wrap`: the backup record is read at a place where it never is, since the record length does
   not divide the sector (APP_MEM.c:255). Power lost while the log wraps loses the database.
2. `memlog_torn`: after a torn record, the next saves are programmed over it, fail their read-back and
   nobody notices (APP_MEM.c:281, :570).
3. `tcota_repeat`: a client loses its link after the last packet, which clears `ota_state`; it connects
   again and confirms: the first page is erased, its write is refused, and the reply is "no error"
   (APP_TC_OTA.c:427). A confirm command that is merely repeated does the same.
4. `mesh_light_power`: generic_ponoff_common.h:65-66 says of RESTORE that "the element restores the state
   it was in when powered down". A switch is not saved (light_status.c:295): a lamp that was off
   starts lit. If it was saved with a lightness of zero, it starts at the least of its range (:133).

**Bounds and why they suffice.**

- `MemLog`: three slots instead of 95, two values besides the default, five saves, three power losses,
  two queued events. Together with the record of the
  first start, five saves wrap a log of three slots; three losses hit the write, the wrap and the start
  that repairs it. The log is the same
  at every length above one, and the theorems hold for all lengths. The bounds let the model stop, hence
  `CHECK_DEADLOCK FALSE`.
- `TidTracker`: two clients that can interleave, a clock of 6 and a window of 2: the clock wraps every
  three windows, every age up to a whole turn occurs, and the two branches meet at every tick. One
  message number and two transaction numbers give repeats, new transactions and a number used again.
- `TcOta`: a page of 2, sectors of 3 and a partition of 6 units, so that packets straddle the page, the
  image ends inside a sector, sizes exist on either side of `IMAGE_SIZE` (0x35000), and packets end on
  either side of `UPDATE_MAX` (0x30000). `MaxFrame = 2` is the least at which a frame is overwritten before it is
  handled. In the session the image has five units, the most `OTA_Image_Update` takes, in packets of three:
  one straddles the first page, the last is shorter. `MaxFail = 3` cuts one update more than once, or lets another link go between two cuts. The script ends, hence
  `CHECK_DEADLOCK FALSE`.
- `PowerCycle`: the real `RESET_MAX`; `QuickCap = 5` only saturates the history count above the limit of
  four; `Capacity = 2` makes a full store frequent. Each start makes up to two saves, so a store of 95
  records fills every 47 starts.
- `Links`: two indices, of which one can be the lamp's client while the other comes and goes, or both
  belong to others; `TRY_MAX = 1` instead of 3 gives a first attempt, a repeated one and the last. The
  stack opens a link only when fewer than `MaxEvents = 1` messages wait; losses, discoveries and
  frames (`MaxFrames = 2`, the least at which one is overwritten) are posted whatever waits, so queues of
  up to five messages occur. The theorems need none of these bounds.
- `BlobDfu`: a bitmap of 2 bits, bytes that count to 3 and words to 7. BLOB sizes 3, 5, 8 and 9 with
  blocks of 1, 3 or 4 and chunks of 1 or 2 give one block, several, a shorter last block, a shorter last chunk,
  an exact fit of each, chunks with and without a bit, and counts that overflow to none. A block or chunk size
  of zero and lists longer than a reply (`ReplyBlocks`) occur too. The theorems need no bound.
- `LampOutput`: two PWM levels above zero, brightness 0 and 1 of 1, temperatures 1 and 3, transitions of
  none or two periods: the smallest in which rounding of one rising and one falling channel differs from
  exact values, and in which a command or a blink comes half way. Any number of commands and blinks. The
  theorems need none of this. `BYTE` and `WORD` are the widths at which U8 and U16 wrap.
- `MeshLight`: `MaxAsked = 4` requests, with any number of saves, starts and losses. Four are enough for
  a change of range or power-up behaviour, a set, a switch and one more change, each before or after a
  save. Ranges, temperatures and lightness include zero, both limits and values outside.

**Fairness.** Only weak fairness is assumed, and only of steps a powered device takes by itself. Flash
operations and handlers run on (`MemLog`, `PowerCycle`, `LampOutput`), the loop takes the next message
and PB-Remote's timer fires (`Links`), the tick of TIMER0 comes (`TidTracker`), queued events are
delivered and the reboot timer fires (`DeviceStep` of `TcOtaSession`). The SDK's single loop runs every
callback to its end and then the next, software timers are served by it, and TIMER0 and TIMER1 interrupt
periodically, so none of these can stay enabled for ever and not happen. Of the environment little is
assumed fair: in `FairSession`, the session's part of `tcota`, that the client goes on with its script (`ClientStep`), in `TidTracker`
that a client goes on transmitting (`Transmit`; the losses of a transaction are bounded), in `Links`
that the stack ends a discovery. Nothing is assumed of the supply: `WipeEnds` and `ComesToRest` say "if
power losses (and new settings) cease", `MaxFail` and `MaxLoss` bound them elsewhere; `CreateAnswered`
holds with any number of restarts, as a restart forgets the request.

Every property of a passing run has a mutant in `PROJECT.json`: a plausible mistake in a definition
taken from the code (an action without its guard, a bound off by one, a missing reset) with which TLC
finds that property violated.

## 4. Theorems

The proofs hold for every value of the constants that meets the named assumptions. Each is the usual
argument: an inductive invariant, one step per action, temporal logic at the end.

| Module | Invariant that is inductive | Why the properties alone are not | Theorems |
|---|---|---|---|
| `MemLog_proofs` | `TypeOK` with `LogShape`; then `CopyInv` (`CopyBeforeErase` and `FirstRecord`); then `EraseReason`; `IdleIsSaved` with the first two | the copy is given up only once record 0 is back, which is only then in an erased slot (`FirstRecord`); an erasure is a step of the cell only if the log is full or the default is restored (`EraseReason`); what a start finds after a write follows from the shape of the log before it | the three invariants; `FailedSaveIsHarmlessHolds` (a write that fails leaves what flash holds). For `TailLen # 0`, the geometry of the build: `UntornSaveLands` (`SaveLands`, which is false, holds of every save whose slot is not torn), `IdleIsSavedHolds` and `LogImplementsNvCell`: the cell's `stored` is what a start would recover, and every flash operation is a step of the cell or a stutter. For `TailLen = 0`, which is not the build's: `BackupCoversWrapIfReached`, the property `memlog_wrap` refutes for the build: the unread tail is the whole of that finding. For every geometry `WorkComesToAnEnd` |
| `TcOta_proofs` | `TypeOK`, `ErasedAhead`, `PastFirstPage` (writes are behind the first page while an update runs), a buffered frame whenever an event is queued | a rest of a packet goes to flash only once the first page is full | `TypeCorrect`, `ErasedAheadHolds`, `FirstPageLastHolds`, `BodySealedHolds`; `SessionImplements`: every session is a behaviour of `TcOta`, so these hold for it too |
| `TcOta_proofs`, the session | `Turns` (at each turn of the script the buffer, the queued event and the reply on its way are those of the frame being sent), `Told` (a device that can reply can still write, and what is confirmed is in flash) and, for `Len(Image) <= UPDATE_MAX`, `Stored` (the units of the packets handled are at their places, the first page in RAM) | a lost link leaves data behind; only that the script begins anew, and that a closed gate also closes the notifications, keeps a client from believing it was taken. That the session advances needs `OnCourse` besides: what is queued is no reset and no confirm command of another length, and no reply is an error | for a client with `Resume = "start"`: `DoneIsWholeHolds` for every image; `AckedIsHeldHolds`, `SessionImplementsTransfer` for `Len(Image) <= UPDATE_MAX`; `SessionAdvances` for an image of at least a page besides |
| `TidTracker_proofs` | `TypeOK` and `Dated`: the clock is `since` ticks past the time in the tracker, modulo `WRAP` | ages are differences modulo 2^32 | `TypeCorrect`, `TakenOnceHolds`, `RefusedIsRepeatHolds` |
| `PowerCycle_proofs` | `TypeOK`, `CountBound` (count in RAM and flash against short starts), `WipeSteps` (what holds at each step of a wipe), `RamLayout`, `LayoutFollowsMesh`, `Returns` (where a save goes on) | a save copies RAM to flash, so what holds of flash must hold of RAM at each `pc` that can save | the four invariants, `TypeCorrect`, `UsesCell` and `WipeAdvances` |
| `BlobDfu_proofs` | `TypeOK`, `Sizes` (sizes of block and transfer agree), `AtHand`, `HeldInBlob`, and the four properties | the short last block needs its size related to the BLOB's; that a chunk of the block at hand with a bit is one of the bitmap's is lemma `ChunkTracked` | all properties of the run, `CompleteIsWholeHolds`; `DfuImplementsTransfer`: every request is a step of `ImageTransfer` or a stutter |
| `LampOutput_proofs` | `TypeOK`, `Heading` (which writes of a transition were made, by `at`), `Calls` (what a blink may have interrupted), `OnTheWay` (each channel between start and target) | a call a blink has interrupted after its branch can aim at neither setting, so aims are only known while not `torn`; the budget needs the exact point of the way: lemma `SumOnTheWay`, a rising and a falling channel, each rounded down, never exceed the larger end sum | `TypeCorrect`, `AtRestAsSetHolds`, `WhiteInBudgetHolds`, `NeverBackHolds`, `OwnStepsBringRest` |
| `Links_proofs` | `TypeOK` and what the application knows against what the stack knows and the queue still holds: `Ending` and `Settled` (whose index is in which variable before and after `ADV_END`), `Drops` (a loss is told once, after the end of the advertising), `First`, `Waiting`, `Served`, and `Behind` (frames of a lost client are handled with the notifications off, before a next client is let in); for PB-Remote `HandInv`: `Masters` and `Central` (which links it may hold, and by which index), `InHand` | each property is about what is known once the queue is empty; its messages must be related to the links one by one. Lemmas `FlowLinks`, `FlowServed`, `FlowBehind`: all of it is kept when a message leaves at the front or one is added | `TypeCorrect`, `ReachableHolds`, `OneClientHolds`, `ReplyIsToAskerHolds`, `RequestInHandHolds`, for any number of indices, messages and attempts |
| `MeshLight_proofs` | `Memory` (`status`, `db`, `stored` are good; with no save pending `stored = db`; with a wish, a start from `db` returns to it) and `LampOk` (settings of the lamp) | the promise about `stored` is kept by `db` until the delayed save | `TypeCorrect` and all properties of the run |

**Model-checked only.** Liveness (`SlowSaveLands`, `StartCompletes`, `SessionEnds`, `WipeEnds`,
`ComesToRest`, `Answered`, `CreateAnswered`) is outside what the prover handles. What of it can be said of
single steps is proved: a measure that every step of the program itself lessens, and steps that raise it
named. `WorkComesToAnEnd` does so for `MemLog`, `WipeAdvances` for a wipe, `OwnStepsBringRest` for the light,
and `SessionAdvances` for the update (only a failure sends the client back, and it is never kept from its
turn); `RequestInHandHolds` says that what `CreateAnswered` waits for is under way. That the steps happen is
fairness, and stays with TLC. For `Answered`, which needs the ticks of the clock weighed against the
repeats of every client, no such measure is stated. The properties of the violation runs are false.

**Assumptions to know of.** `LogImplementsNvCell`, `UntornSaveLands` and `IdleIsSavedHolds` need
`TailLen # 0`, and `BackupCoversWrapIfReached` is about the geometry the build does not have
(`TailLen = 0`). The theorems of the session need a client that starts again after a lost link;
`tcota_repeat` shows why. `DoneIsWholeHolds` asks nothing more: an image whose packets are thrown away, that
does not fit, or that is too short for `crc_cal` is never confirmed by mistake. The others need an image
OTA_Image_Update takes (section 5), `SessionAdvances` also one with a whole first page, since the confirm
command of a shorter one makes the device fall over (`ConfirmFault`), and room for one frame. The
assumptions of `Links` about the stack are in section 2. `BlobDfu` assumes `InTurn` of its client, and of its
sizes only their widths (`SizesAssumption`, `WidthAssumption`: the bitmap is narrower than a byte counts).
`MixInRange` rests on the fact that no code writes the `LightMode` of the mesh values, so that every start
of a mesh lamp is in colour mode; a start can leave the temperature of `LightStatus` at zero, which CW
mode could not mix.

## 5. Observed while modelling

Behaviour of the code that no run refutes, because no statement of the repository is plain enough to
refute it with, or because its part is not modelled yet.

*Update over GATT.* Proc_StartOTA never answers a size that does not fit (APP_TC_OTA.c:352). An image
between 0x30000 and 0x35000 bytes is accepted, but its packets above 0x30000 are thrown away and
acknowledged (:555). Proc_Confirm writes the first page even after a failed CRC (:427). A command equal
to `TC_OTA_PROT_CMD_MAX` indexes the command table past its end (:599). The loss of any link ends an
update that runs over another. The image of the session run stays below the first limit, and its client
sends none of those commands.

*Transactions.* BSP.c:37-38 asks for TIMER0 at 1 ms and TIMER1 at 10 ms, but both branches of
BSP_TIMER_Init set up TIMER0 (BSP_TIMER.c:45, :53). As the source stands TIMER0 has the 10 ms of the
second call, so that a window of 6000 ticks lasts 60 s and a blink of 500 ms five seconds, and TIMER1 runs
(APP_Light.c:160) with the period its registers have after a reset. The models count ticks, not
milliseconds. There is one tracker per server: of two clients that interleave, a repeat of the first is
carried out again (`TakenOnce` speaks of the last message taken). A refused repeat gets no reply, so a client whose reply was lost waits for the end
of the window; a message that fails the later checks has taken the tracker all the same.

*Binding.* APP_Google_Start_Advertising holds code marked as a test that clears the binding
(APP_Google.c:628); it runs after every start and disconnection of a lamp that is not in the mesh, so
a Google binding does not outlive the link and the branch after it (:630) is never taken. A BLE client
can unprovision, or bind to Google, a lamp that joined the mesh in the same session (:275, :281); the
mesh stack's network then outlives the binding. `PowerCycle` contains both. `OTAWithOff` is there so that
a lamp updated while off stays off (APP_MEM.h:103), but APP_Platfrom_Init clears it before APP_Light_Init
reads it (APP_Light.c:150; order in YK_APP.c:52): it starts with its light on.

*Links.* The Google service and the update service have one notification flag each, for all links: any
link that is made or lost silences the client until it writes its configuration again. A second write
over a frame that waits loses one and handles the other twice; a frame that is refused sends the last
reply again; a bind that was posted before the link was lost is carried out after it, so that a lamp in
the mesh is left bound to Google with nobody advertising (the mesh still reaches it, and `Reachable`
says no more). After off, a temperature or a colour is answered with a status that says on while the lamp
stays off (APP_Google.c:412). A client that leaves does not stop the blinking it started; stopping it
switches on a light that was off before (:238). As in the update service, a command equal to
`GOOGLE_PROT_CMD_MAX` indexes the command table past its end (:394). In PB-Remote
the timeout of an attempt can be followed by the link it waited for: that link stays, and the discovery of
its services answers a later request. `PB_REMOTE_CONN_TRY_MAX_COUNT` is 3, the attempts are 4.

*Light.* When the interrupt comes between the writes of the two white targets, the sum of both can
reach twice the budget, 200 %, for the 10 ms of one period (APP_Light.c:193, APP_Light.h:10-11);
`WhiteInBudget` therefore speaks of undisturbed transitions. When a blink comes after `onoff` was read
(APP_Light.c:187) and before the last target is written (:214), the targets left are those of the setter, or
half of each: the lamp can rest lit while it is set to off, or dark in one white channel, until the next
setter or blink. `AtRestAsSet` excludes just that (`torn = 0`); without the exclusion TLC finds it.

*Update over the mesh.* Cancelling does not stop the apply timer (firmware_update_procedure_server.c:328).
A start of the next block while one is received is answered with success and starts nothing
(blob_procedure_server.c:477). Every image is accepted, none is stored. Of a block with more than eight chunks
only the first eight have a bit; those behind may be called received without having come, so that the block is
left with chunks missing, or asked for again for ever. The comment "if all chunks has been received,
return true" (:215) is true of blocks of up to eight chunks only: TLC refutes `BlockWhole` when it is stated of every
chunk. With a multiple of 256 chunks none is counted, and any chunk finishes the block. A chunk size of
zero, or a last block whose count is a multiple of 256, ends in a loop without end (:107), a BLOB of no blocks in
another (blob_transfer_server.c:44).

*Lighting models.* Off is never saved (finding 4). A start whose lightness is a multiple of 256 leaves the
lamp dark while it reports On, since the lamp's own lightness is a `uint8_t` (APP_Light.c:121). A start with OFF or DEFAULT leaves the temperature at zero. A CTL set
passes a 16-bit lightness where a level of 0 to 100 is meant (light_ctl_setup_server.c:172). A Level
Delta passes the signed level, so a delta that ends at lightness zero lights the lamp at half while it is
reported off; lightness below 655 does the opposite. On after Level 0 leaves the lamp dark while it is reported on. The mesh light
mode is never saved.

## 6. What is not modelled

- The 500 ms of a blink are any time. In `MeshLight` a repeated
  transaction is a message that did not come; that it is not carried out is `TidTracker`'s.
- The transition-time codec of `model_common`, a table without state. Replies of the mesh models, Get
  messages, logging: they change no state of interest. The replies of `TcOta` and the address and
  freshness of those of `APP_Google` are modelled, since their clients depend on them.
- The mesh stack, the BLE stack, the kernel, the boot loader and the clients: outside `src/Source/`, or
  binary. They are the environment: messages at any time, timers that fire at any time.
- `APP_Switch` (no caller), LED and UART drivers, colour tables and floating-point HSL conversion.
- The SDK's drivers, profiles and examples, and the editor's backups under `SI/`.
- What PB-Remote passes between a node and the mesh stack, and the key material of the callbacks.
- Checksums and the CRC are ideal; commands 7 and above of the update over GATT are left out. Of the BLOB
  server, blocks asked for out of turn, and what a write past its bitmap changes in the fields behind it
  beyond the bits read back.

The mapped lines are a small share of the repository because most of it is the vendor's: headers of
binary stacks, kernel headers, drivers, fonts, and examples for other products. Of the application's own
state machines, all but those above are modelled.

## 7. Plan

The order was: the store on which everything rests (`NvCell`, `MemLog`), the update over GATT
(`TcOta`, `TcOtaSession`), the one component that all starts go through (`PowerCycle`), the update over
the mesh (`BlobDfu`), the light (`LightSettings`, `LampOutput`, `MeshLight`), the transactions
(`TidTracker`) and the links that all of these share (`Links`). These are written, checked and, for
their safety, proved. What could follow:

1. `BlobSession`: `BlobDfu` with replies and a client that believes them, as `TcOtaSession` does for
   `TcOta`. Property: a client told that a block is complete has sent all of it.
2. `MeshLight` over `LampOutput`: what the lamp shows against what is reported, through transitions.
3. `MeshLight` and `PowerCycle` over one record: the slow save of either saves the fields of both.

The abstract specification worth stating next is a switchable lamp with a remembered lightness for
`MeshLight`; what it would say of starts and saves is in `DefaultReportsOn`, `PowersUpAsTold` and
`SetSurvives` so far.
