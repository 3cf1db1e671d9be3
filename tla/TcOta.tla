------------------------------- MODULE TcOta -------------------------------
(***************************************************************************)
(* APP_TC_OTA.c with TC_OTA_Service.c: firmware update over GATT.  A write *)
(* to one of the two characteristics is copied to the single buffer of     *)
(* gst_AppTCOTATB and an event is posted; APP_TC_OTA_Task handles the      *)
(* events one by one and always reads the buffer, so frames that arrive    *)
(* before the task runs overwrite each other.  The first page of the image *)
(* is kept in RAM and written by Proc_Confirm, after everything else.      *)
(*                                                                         *)
(* Sizes are counted in units, of which PAGE make the 256 bytes of the     *)
(* first page.  The CRC is taken to identify the image.  A handler runs to *)
(* completion; only a power loss can cut it, between two flash operations. *)
(***************************************************************************)
EXTENDS Naturals, Sequences

CONSTANTS
  PAGE,        \* units in the first page (256 bytes)
  SECTOR,      \* units in a 4096-byte sector
  IMAGE_SIZE,  \* the partition, and the largest size Proc_StartOTA accepts
  UPDATE_MAX,  \* 0x30000, the largest size OTA_Image_Update accepts
  Token,       \* what a unit of an image can hold
  Zero, Blank, \* a unit of cleared RAM; an erased unit of flash
  Frames,      \* the frames clients send
  MaxFrame     \* bound on frames queued and notifications not yet delivered

Units == 0 .. IMAGE_SIZE - 1
Page == 0 .. PAGE - 1
Content == Token \cup {Blank}
Cmd == {"sync", "start", "confirm", "reset", "info", "data"}
Frame == [cmd : Cmd, flag : BOOLEAN, size : Nat, data : Seq(Token)]

ASSUME SizesAssumption ==
  /\ PAGE \in Nat \ {0} /\ SECTOR \in Nat /\ PAGE <= SECTOR
  /\ IMAGE_SIZE \in Nat /\ SECTOR <= IMAGE_SIZE
  /\ UPDATE_MAX \in Nat /\ UPDATE_MAX <= IMAGE_SIZE
ASSUME TokenAssumption == Blank \notin Token /\ Zero \in Token
ASSUME FramesAssumption == Frames \subseteq Frame /\ MaxFrame \in Nat

VARIABLES
  up,       \* "on" or "off"
  buff,     \* gst_AppTCOTATB.Buff, ucLen and ImageUpdate: at most one frame
  evts,     \* queued EVT_TC_OTA_RECV_FRAME events
  ntf,      \* g_ntf_TC_OTA_Ctrl_Enable
  state,    \* ota_state of BSP_IAP.c
  size,     \* FwInfoNew.size; ulAddrOffsetMax is set to the same value
  offset,   \* ulAddrOffset
  fpLen,    \* FirstPageReceiveLen
  fpData,   \* FirstPageData
  flash,    \* the storage partition
  reboot,   \* ota_reboot_timer: 1 while it runs
  rsp       \* the notifications on their way to the client

link == <<buff, evts, ntf>>
update == <<state, size, offset, fpLen, fpData>>
vars == <<up, link, update, flash, reboot, rsp>>

TypeOK ==
  /\ up \in {"on", "off"} /\ evts \in 0 .. MaxFrame /\ ntf \in {0, 1}
  /\ Len(buff) <= 1 /\ buff \in Seq(Frames)
  /\ state \in {0, 1} /\ size \in Nat /\ offset \in Nat
  /\ fpLen \in 0 .. PAGE /\ fpData \in [Page -> Token]
  /\ flash \in [Units -> Content] /\ reboot \in {0, 1}
  /\ rsp \in Seq([cmd : Cmd, err : 0 .. 3])

-----------------------------------------------------------------------------
(* Start and loss of power                                                 *)

\* RAM after a reset and APP_TC_OTA_Init.
Cleared(b, e, n, st, sz, o, fl, fd, r, s) ==
  /\ b = <<>> /\ e = 0 /\ n = 0
  /\ st = 0 /\ sz = 0 /\ o = 0 /\ fl = 0 /\ fd = [i \in Page |-> Zero]
  /\ r = 0 /\ s = <<>>

\* The partition holds an older image, or nothing.
Init ==
  /\ up = "off" /\ \E c \in Content : flash = [i \in Units |-> c]
  /\ Cleared(buff, evts, ntf, state, size, offset, fpLen, fpData, reboot, rsp)

APP_TC_OTA_Init == up = "off" /\ up' = "on" /\ UNCHANGED <<link, update, flash, reboot, rsp>>

\* The device stops with its flash as f.
Stop(f) ==
  /\ up = "on" /\ up' = "off" /\ flash' = f
  /\ Cleared(buff', evts', ntf', state', size', offset', fpLen', fpData', reboot', rsp')

Reboot_timer_handler == reboot = 1 /\ Stop(flash)

-----------------------------------------------------------------------------
(* TC_OTA_gatt_msg_handler                                                 *)

\* A frame is written to the data or the control characteristic.
GattWrite(f) ==
  /\ up = "on" /\ evts + Len(rsp) < MaxFrame
  /\ buff' = <<f>> /\ evts' = evts + 1
  /\ UNCHANGED <<up, ntf, update, flash, reboot, rsp>>

\* The client writes the notification configuration.
GattConfig(n) ==
  /\ up = "on" /\ ntf' = n
  /\ UNCHANGED <<up, buff, evts, update, flash, reboot, rsp>>

\* GATTC_MSG_LINK_CREATE, of any link of the device: the handler does not look
\* at the link it is about.
GattLinkCreate ==
  /\ up = "on" /\ ntf' = 0
  /\ UNCHANGED <<up, buff, evts, update, flash, reboot, rsp>>

\* Mutant: the loss of a link leaves the notifications on.
DisconnectKeepsNtf(mine) ==
  /\ up = "on" /\ UNCHANGED ntf /\ state' = 0
  /\ rsp' = IF mine THEN <<>> ELSE rsp
  /\ UNCHANGED <<up, buff, evts, size, offset, fpLen, fpData, flash, reboot>>

\* A link is lost: GATTC_MSG_LINK_LOST with GAP_EVT_DISCONNECT, which clears
\* ota_state whichever link it was.  mine: the one of the client, with what is
\* on its way.
GapDisconnect(mine) ==
  /\ up = "on" /\ ntf' = 0 /\ state' = 0
  /\ rsp' = IF mine THEN <<>> ELSE rsp
  /\ UNCHANGED <<up, buff, evts, size, offset, fpLen, fpData, flash, reboot>>

\* The client receives a notification.
Deliver ==
  /\ rsp # <<>> /\ rsp' = Tail(rsp)
  /\ UNCHANGED <<up, link, update, flash, reboot>>

-----------------------------------------------------------------------------
(* What the procedures do to flash.  n bounds how far they get: IMAGE_SIZE *)
(* units when nothing cuts them.                                           *)

\* Mutant: the last, partly used sector is not counted.
AlignDown(s) == SECTOR * (s \div SECTOR)

AlignUp(s) == SECTOR * ((s + SECTOR - 1) \div SECTOR)

\* Proc_StartOTA: all but the first page of the first sector, and the other
\* sectors the image needs.
StartErase(s, n) ==
  [i \in Units |-> IF PAGE <= i /\ i < n /\ (i < SECTOR \/ i < AlignUp(s)) THEN Blank ELSE flash[i]]

\* Mutant: flash_write is not gated.
ProgramAlways(o, d, n) ==
  [i \in Units |-> IF o <= i /\ i < o + Len(d) /\ i < n THEN d[i - o + 1] ELSE flash[i]]

\* flash_write is carried out only while ota_state is set.
Program(o, d, n) ==
  [i \in Units |-> IF state = 1 /\ o <= i /\ i < o + Len(d) /\ i < n THEN d[i - o + 1] ELSE flash[i]]

\* Mutant: the last packet of the image does not fit.
AcceptsBelow(o, d) == size # 0 /\ size <= UPDATE_MAX /\ o + Len(d) < size

\* OTA_Image_Update accepts the packet.
Accepts(o, d) == size # 0 /\ size <= UPDATE_MAX /\ o + Len(d) <= size

\* Mutant: ota_state is cleared before the first page is written.
ConfirmFlashLate(n) == [i \in Units |-> IF i >= PAGE THEN flash[i] ELSE Blank]

\* flash_page_erase is not gated by ota_state, the write that follows is.
ConfirmFlash(n) ==
  [i \in Units |-> IF i >= PAGE THEN flash[i]
                   ELSE IF state = 1 /\ i < n THEN fpData[i] ELSE Blank]

\* Mutants: the units already received are not deducted; ulAddrOffset is not
\* moved past the first page.
RoomWhole == PAGE
RestAtOffset == offset

\* The part of a packet that goes to the first page, where the rest of it is
\* written and the rest itself.
Room == PAGE - fpLen
RestAt == IF fpLen < PAGE THEN PAGE ELSE offset
Rest(d) == SubSeq(d, Room + 1, Len(d))

-----------------------------------------------------------------------------
(* The procedures                                                          *)

GATT_SendData(c, e) == rsp' = IF ntf = 1 THEN Append(rsp, [cmd |-> c, err |-> e]) ELSE rsp

\* Proc_SyncFwVersion and Proc_GetFwInfo.
Proc_Inform(f) ==
  /\ f.cmd \in {"sync", "info"}
  /\ GATT_SendData(f.cmd, 0)
  /\ UNCHANGED <<update, flash, reboot>>

\* A file that is neither application nor stack, or too large an image, ends
\* the update that is on; only the first of the two errors is replied.
StartRefused(f) ==
  /\ f.cmd = "start" /\ (~f.flag \/ f.size > IMAGE_SIZE)
  /\ size' = f.size /\ offset' = 0 /\ fpLen' = 0 /\ state' = 0
  /\ IF ~f.flag THEN GATT_SendData("start", 3) ELSE rsp' = rsp
  /\ UNCHANGED <<fpData, flash, reboot>>

Proc_StartOTA(f) ==
  /\ f.cmd = "start" /\ f.flag /\ f.size <= IMAGE_SIZE
  /\ size' = f.size /\ offset' = 0 /\ fpLen' = 0 /\ state' = 1
  /\ flash' = StartErase(f.size, IMAGE_SIZE)
  /\ GATT_SendData("start", 0)
  /\ UNCHANGED <<fpData, reboot>>

\* crc_cal: the first page from RAM and the rest from flash are the image.
CrcOk(image) ==
  /\ Len(image) = size /\ size <= IMAGE_SIZE
  /\ \A i \in 1 .. size : image[i] = IF i <= PAGE THEN fpData[i - 1] ELSE flash[i - 1]

Proc_Confirm(f) ==
  /\ f.cmd = "confirm" /\ size >= PAGE
  /\ flash' = ConfirmFlash(IMAGE_SIZE) /\ state' = 0
  /\ GATT_SendData("confirm", IF CrcOk(f.data) THEN 0 ELSE 1)
  /\ UNCHANGED <<size, offset, fpLen, fpData, reboot>>

\* The length crc_cal is given less than a page wraps around and its last
\* read runs over the heap: the device falls over.
ConfirmFault(f) == f.cmd = "confirm" /\ size < PAGE /\ Stop(flash)

Proc_Reset(f) ==
  /\ f.cmd = "reset" /\ reboot' = 1
  /\ UNCHANGED <<update, flash, rsp>>

Proc_ImageUpdate(f) ==
  /\ f.cmd = "data"
  /\ fpData' = [i \in Page |-> IF fpLen <= i /\ i < fpLen + Len(f.data)
                                 THEN f.data[i - fpLen + 1] ELSE fpData[i]]
  /\ IF Len(f.data) < Room
       THEN fpLen' = fpLen + Len(f.data) /\ UNCHANGED <<offset, flash>>
       ELSE LET d == Rest(f.data) IN
            /\ fpLen' = PAGE
            /\ IF Accepts(RestAt, d)
                 THEN flash' = Program(RestAt, d, IMAGE_SIZE) /\ offset' = RestAt + Len(d)
                 ELSE flash' = flash /\ offset' = RestAt
  /\ GATT_SendData("data", 0)
  /\ UNCHANGED <<state, size, reboot>>

\* APP_TC_OTA_Task: the frame in the buffer is handled, whichever write
\* posted the event.  The buffer keeps its content.
ProtocolProcess(f) ==
  \/ Proc_Inform(f) \/ StartRefused(f) \/ Proc_StartOTA(f)
  \/ Proc_Confirm(f) \/ Proc_Reset(f) \/ Proc_ImageUpdate(f)

APP_TC_OTA_Task ==
  /\ up = "on" /\ evts > 0
  /\ \/ evts' = evts - 1 /\ ProtocolProcess(buff[1]) /\ UNCHANGED <<up, buff, ntf>>
     \/ ConfirmFault(buff[1])

\* Power is lost while the task handles f, with n units reached.
Cut(f, n) ==
  \/ f.cmd = "start" /\ f.flag /\ f.size <= IMAGE_SIZE /\ Stop(StartErase(f.size, n))
  \/ f.cmd = "confirm" /\ size >= PAGE /\ Stop(ConfirmFlash(n))
  \/ /\ f.cmd = "data" /\ Len(f.data) >= Room /\ Accepts(RestAt, Rest(f.data))
     /\ Stop(Program(RestAt, Rest(f.data), n))

PowerLoss ==
  \/ Stop(flash)
  \/ evts > 0 /\ \E n \in 0 .. IMAGE_SIZE : Cut(buff[1], n)

Device == APP_TC_OTA_Init \/ APP_TC_OTA_Task \/ Reboot_timer_handler
Air ==
  \/ Deliver \/ GattLinkCreate \/ (\E mine \in BOOLEAN : GapDisconnect(mine))
  \/ (\E n \in {0, 1} : GattConfig(n)) \/ (\E f \in Frames : GattWrite(f))

Next == Device \/ Air \/ PowerLoss

Spec == Init /\ [][Next]_vars

-----------------------------------------------------------------------------
(* Properties.  Nothing is assumed of the clients: any frame at any time.  *)

\* Flash can be programmed only where it is erased.  Whatever frames came in
\* whatever order, updates given up and begun anew included, everything from
\* the write position to the end of the announced image is erased while
\* ota_state lets the image be written.
ErasedAhead ==
  state = 1 =>
    \A i \in Units : PAGE <= i /\ i < size /\ (fpLen = PAGE => offset <= i) => flash[i] = Blank

\* The first 256 bytes are written last (APP_TC_OTA.c:368): no packet and no
\* start of an update touches the first page of the partition; what does also
\* ends the update.
FirstPageLast ==
  [][(\E i \in Page : flash'[i] # flash[i]) => state' = 0]_vars

\* Once an update has ended, whether by Proc_Confirm, by a refused start or by
\* a reset, late or repeated packets do not reach the body of the image.
BodySealed ==
  [][state = 0 /\ up' = "on" /\ (\E i \in Units : i >= PAGE /\ flash'[i] # flash[i])
       => state' = 1]_vars
=============================================================================
