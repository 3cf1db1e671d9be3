---------------------------- MODULE TcOta_proofs ----------------------------
(***************************************************************************)
(* Proofs about TcOta and TcOtaSession.                                    *)
(***************************************************************************)
EXTENDS TcOtaSession, SequenceTheorems, TLAPS

-----------------------------------------------------------------------------
(* Arithmetic of sectors.                                                  *)

\* Rounding up to whole sectors loses nothing.
LEMMA AlignUpBounds ==
  ASSUME NEW s \in Nat, NEW S \in Nat \ {0}
  PROVE  s <= S * ((s + S - 1) \div S)
  <1> DEFINE x == s + S - 1
             q == x \div S
  <1>1. x \in Nat /\ q \in Nat OBVIOUS
  <1>2. x = S * q + (x % S) BY <1>1, Z3
  <1>3. x % S < S BY <1>1
  <1>4. S * q \in Nat BY <1>1
  <1> QED BY <1>1, <1>2, <1>3, <1>4

-----------------------------------------------------------------------------
(* The inductive invariant.  ErasedAhead needs the types, that an event in   *)
(* the queue means a frame in the buffer, and, for the first page, that the  *)
(* write position is past it once it is full.                                *)

PastFirstPage == fpLen = PAGE => PAGE <= offset

IInv == TypeOK /\ ErasedAhead /\ PastFirstPage /\ (evts > 0 => buff # <<>>)

LEMMA FrameTyped ==
  ASSUME NEW f \in Frames
  PROVE  f.cmd \in Cmd /\ f.flag \in BOOLEAN /\ f.size \in Nat /\ f.data \in Seq(Token)
BY FramesAssumption DEF Frame

LEMMA BuffTyped ==
  ASSUME IInv, evts > 0
  PROVE  buff[1] \in Frames
BY DEF IInv, TypeOK

\* What the procedures leave in flash is flash content.
LEMMA FlashTyped ==
  ASSUME TypeOK, NEW s \in Nat, NEW o \in Nat, NEW d \in Seq(Token), NEW n \in Nat
  PROVE  /\ StartErase(s, n) \in [Units -> Content]
         /\ Program(o, d, n) \in [Units -> Content]
         /\ ConfirmFlash(n) \in [Units -> Content]
<1>1. StartErase(s, n) \in [Units -> Content]
  BY DEF TypeOK, StartErase, Content
<1>2. Program(o, d, n) \in [Units -> Content]
  BY DEF TypeOK, Program, Content, Units
<1>3. ConfirmFlash(n) \in [Units -> Content]
  BY SizesAssumption DEF TypeOK, ConfirmFlash, Content, Units, Page
<1> QED
  BY <1>1, <1>2, <1>3

LEMMA RestTyped ==
  ASSUME TypeOK, NEW d \in Seq(Token), Len(d) >= Room
  PROVE  /\ Rest(d) \in Seq(Token) /\ Len(Rest(d)) = Len(d) - Room
         /\ Len(Rest(d)) \in Nat /\ RestAt \in Nat /\ Room \in 0 .. PAGE
         /\ fpLen < PAGE => RestAt = PAGE
         /\ fpLen = PAGE => RestAt = offset
BY SizesAssumption DEF TypeOK, Rest, Room, RestAt

LEMMA SendTyped ==
  ASSUME TypeOK, NEW c \in Cmd, NEW e \in 0 .. 3, GATT_SendData(c, e)
  PROVE  rsp' \in Seq([cmd : Cmd, err : 0 .. 3])
<1> DEFINE R == [cmd : Cmd, err : 0 .. 3]
           r == [cmd |-> c, err |-> e]
<1>1. r \in R
  OBVIOUS
<1>2. rsp \in Seq(R)
  BY DEF TypeOK
<1>3. rsp' = Append(rsp, r) \/ rsp' = rsp
  BY DEF GATT_SendData
<1> HIDE DEF R, r
<1>4. rsp' \in Seq(R)
  BY <1>1, <1>2, <1>3
<1> QED
  BY <1>4 DEF R

\* A stop leaves a cleared device, whatever it leaves in flash.
LEMMA StopStep ==
  ASSUME IInv, NEW f \in [Units -> Content], Stop(f)
  PROVE  IInv' /\ up' = "off" /\ state' = 0
BY SizesAssumption, TokenAssumption, FramesAssumption
DEF IInv, TypeOK, ErasedAhead, PastFirstPage, Stop, Cleared, Page

LEMMA CutStep ==
  ASSUME IInv, evts > 0, NEW n \in 0 .. IMAGE_SIZE, Cut(buff[1], n)
  PROVE  IInv' /\ up' = "off" /\ state' = 0
<1> DEFINE f == buff[1]
<1>1. f \in Frames
  BY BuffTyped
<1>2. f.size \in Nat /\ f.data \in Seq(Token) /\ n \in Nat /\ TypeOK
  BY <1>1, FrameTyped, SizesAssumption DEF IInv
<1>3. CASE Stop(StartErase(f.size, n))
  BY <1>2, <1>3, FlashTyped, StopStep
<1>4. CASE Stop(ConfirmFlash(n))
  BY <1>2, <1>4, FlashTyped, StopStep
<1>5. CASE Len(f.data) >= Room /\ Stop(Program(RestAt, Rest(f.data), n))
  <2>1. Rest(f.data) \in Seq(Token) /\ RestAt \in Nat
    BY <1>2, <1>5, RestTyped
  <2> QED
    BY <1>2, <1>5, <2>1, FlashTyped, StopStep
<1> QED
  BY <1>3, <1>4, <1>5 DEF Cut

-----------------------------------------------------------------------------
(* Each procedure preserves the invariant and respects the two rules about   *)
(* what it may change in flash.                                              *)

PageStep == (\E i \in Page : flash'[i] # flash[i]) => state' = 0
BodyStep ==
  state = 0 /\ up' = "on" /\ (\E i \in Units : i >= PAGE /\ flash'[i] # flash[i]) => state' = 1

Handled == up = "on" /\ evts > 0 /\ evts' = evts - 1 /\ UNCHANGED <<up, buff, ntf>>

LEMMA QuietStep ==
  ASSUME IInv, UNCHANGED <<update, flash>>,
         up' \in {"on", "off"}, buff' \in Seq(Frames), Len(buff') <= 1,
         evts' \in 0 .. MaxFrame, ntf' \in {0, 1}, reboot' \in {0, 1},
         rsp' \in Seq([cmd : Cmd, err : 0 .. 3]), evts' > 0 => buff' # <<>>
  PROVE  IInv' /\ PageStep /\ BodyStep
<1>1. TypeOK'
  BY DEF IInv, TypeOK, update
<1>2. ErasedAhead'
  BY DEF IInv, ErasedAhead, update
<1> QED
  BY <1>1, <1>2 DEF IInv, PastFirstPage, PageStep, BodyStep, update

LEMMA InformStep ==
  ASSUME IInv, Handled, NEW f \in Frames, Proc_Inform(f)
  PROVE  IInv' /\ PageStep /\ BodyStep
<1>1. rsp' \in Seq([cmd : Cmd, err : 0 .. 3])
  <2>1. f.cmd \in Cmd /\ 0 \in 0 .. 3 /\ TypeOK /\ GATT_SendData(f.cmd, 0)
    BY FrameTyped DEF Proc_Inform, IInv
  <2> QED
    BY <2>1, SendTyped
<1>2. evts' \in 0 .. MaxFrame
  BY FramesAssumption DEF IInv, TypeOK, Handled
<1> QED
  BY <1>1, <1>2, QuietStep DEF Proc_Inform, Handled, IInv, TypeOK

LEMMA ResetStepKeeps ==
  ASSUME IInv, Handled, NEW f \in Frames, Proc_Reset(f)
  PROVE  IInv' /\ PageStep /\ BodyStep
<1>1. evts' \in 0 .. MaxFrame
  BY FramesAssumption DEF IInv, TypeOK, Handled
<1> QED
  BY <1>1, QuietStep DEF Proc_Reset, Handled, IInv, TypeOK

LEMMA StartRefusedStep ==
  ASSUME IInv, Handled, NEW f \in Frames, StartRefused(f)
  PROVE  IInv' /\ PageStep /\ BodyStep
<1>1. rsp' \in Seq([cmd : Cmd, err : 0 .. 3])
  <2>1. "start" \in Cmd /\ 3 \in 0 .. 3
    BY DEF Cmd
  <2>2. rsp' = rsp \/ GATT_SendData("start", 3)
    BY DEF StartRefused
  <2> QED
    BY <2>1, <2>2, SendTyped DEF IInv, TypeOK
<1>2. TypeOK'
  BY <1>1, FrameTyped, SizesAssumption, FramesAssumption DEF IInv, TypeOK, Handled, StartRefused
<1> QED
  BY <1>2, SizesAssumption DEF IInv, ErasedAhead, PastFirstPage, Handled, StartRefused, PageStep, BodyStep

LEMMA StartStep ==
  ASSUME IInv, Handled, NEW f \in Frames, Proc_StartOTA(f)
  PROVE  IInv' /\ PageStep /\ BodyStep
<1>1. rsp' \in Seq([cmd : Cmd, err : 0 .. 3])
  <2>1. "start" \in Cmd /\ 0 \in 0 .. 3
    BY DEF Cmd
  <2> QED
    BY <2>1, SendTyped DEF Proc_StartOTA, IInv
<1>2. f.size \in Nat /\ IMAGE_SIZE \in Nat /\ TypeOK
  BY FrameTyped, SizesAssumption DEF IInv
<1>3. flash' = StartErase(f.size, IMAGE_SIZE) /\ flash' \in [Units -> Content]
  <2>1. <<>> \in Seq(Token)
    OBVIOUS
  <2> QED
    BY <1>2, <2>1, FlashTyped DEF Proc_StartOTA
<1>4. TypeOK'
  BY <1>1, <1>2, <1>3, SizesAssumption, FramesAssumption DEF IInv, TypeOK, Handled, Proc_StartOTA
<1>5. ErasedAhead'
  <2> SUFFICES ASSUME NEW i \in Units, PAGE <= i, i < f.size
               PROVE  flash'[i] = Blank
    BY DEF ErasedAhead, Proc_StartOTA
  <2>1. f.size <= AlignUp(f.size)
    <3>1. SECTOR \in Nat \ {0}
      BY SizesAssumption
    <3> QED
      BY <1>2, <3>1, AlignUpBounds DEF AlignUp
  <2>2. AlignUp(f.size) \in Nat
    BY <1>2, SizesAssumption DEF AlignUp
  <2>3. i < AlignUp(f.size) /\ i < IMAGE_SIZE
    BY <1>2, <2>1, <2>2 DEF Units
  <2> QED
    BY <1>3, <2>3 DEF StartErase
<1>6. PageStep
  BY <1>3, SizesAssumption DEF PageStep, StartErase, Page, Units
<1> QED
  BY <1>4, <1>5, <1>6, SizesAssumption DEF IInv, PastFirstPage, BodyStep, Handled, Proc_StartOTA

LEMMA ConfirmStepKeeps ==
  ASSUME IInv, Handled, NEW f \in Frames, Proc_Confirm(f)
  PROVE  IInv' /\ PageStep /\ BodyStep
<1>1. rsp' \in Seq([cmd : Cmd, err : 0 .. 3])
  <2>1. "confirm" \in Cmd /\ (IF CrcOk(f.data) THEN 0 ELSE 1) \in 0 .. 3
    BY DEF Cmd
  <2> QED
    BY <2>1, SendTyped DEF Proc_Confirm, IInv
<1>2. flash' = ConfirmFlash(IMAGE_SIZE) /\ flash' \in [Units -> Content]
  <2>1. <<>> \in Seq(Token) /\ IMAGE_SIZE \in Nat /\ 0 \in Nat /\ TypeOK
    BY SizesAssumption DEF IInv
  <2> QED
    BY <2>1, FlashTyped DEF Proc_Confirm
<1>3. TypeOK'
  BY <1>1, <1>2, FramesAssumption DEF IInv, TypeOK, Handled, Proc_Confirm
<1>4. BodyStep
  BY <1>2 DEF BodyStep, ConfirmFlash
<1> QED
  BY <1>3, <1>4 DEF IInv, ErasedAhead, PastFirstPage, PageStep, Handled, Proc_Confirm

LEMMA ImageUpdateStep ==
  ASSUME IInv, Handled, NEW f \in Frames, Proc_ImageUpdate(f)
  PROVE  IInv' /\ PageStep /\ BodyStep
<1> DEFINE d == Rest(f.data)
<1>1. rsp' \in Seq([cmd : Cmd, err : 0 .. 3])
  <2>1. "data" \in Cmd /\ 0 \in 0 .. 3
    BY DEF Cmd
  <2> QED
    BY <2>1, SendTyped DEF Proc_ImageUpdate, IInv
<1>2. f.data \in Seq(Token) /\ Len(f.data) \in Nat /\ TypeOK
  BY FrameTyped DEF IInv
<1>3. fpData' \in [Page -> Token]
  BY <1>2 DEF TypeOK, Proc_ImageUpdate, Page
<1>4. evts' \in 0 .. MaxFrame /\ (evts' > 0 => buff' # <<>>)
  BY FramesAssumption DEF IInv, TypeOK, Handled
<1>5. CASE Len(f.data) < Room
  <2>1. fpLen' = fpLen + Len(f.data) /\ UNCHANGED <<offset, flash, state, size, reboot>>
    BY <1>5 DEF Proc_ImageUpdate
  <2>2. fpLen' \in 0 .. PAGE - 1 /\ fpLen \in 0 .. PAGE - 1
    BY <1>2, <1>5, <2>1, SizesAssumption DEF TypeOK, Room
  <2>3. TypeOK'
    BY <1>1, <1>2, <1>3, <1>4, <2>1, <2>2, SizesAssumption DEF TypeOK, Handled
  <2>4. ErasedAhead'
    BY <2>1, <2>2, SizesAssumption DEF IInv, ErasedAhead
  <2> QED
    BY <1>4, <2>1, <2>2, <2>3, <2>4, SizesAssumption DEF IInv, PastFirstPage, PageStep, BodyStep
<1>6. CASE Len(f.data) >= Room
  <2>1. /\ d \in Seq(Token) /\ Len(d) \in Nat /\ RestAt \in Nat
        /\ fpLen < PAGE => RestAt = PAGE
        /\ fpLen = PAGE => RestAt = offset
        /\ PAGE <= RestAt
    BY <1>2, <1>6, RestTyped, SizesAssumption DEF IInv, PastFirstPage, TypeOK
  <2>2. fpLen' = PAGE /\ UNCHANGED <<state, size, reboot>>
    BY <1>2, <1>6, SizesAssumption DEF Proc_ImageUpdate, Room, TypeOK
  <2>3. CASE ~Accepts(RestAt, d)
    <3>1. flash' = flash /\ offset' = RestAt
      BY <1>2, <1>6, <2>3, SizesAssumption DEF Proc_ImageUpdate, Room, TypeOK
    <3>2. TypeOK'
      BY <1>1, <1>2, <1>3, <1>4, <2>1, <2>2, <3>1, SizesAssumption DEF TypeOK, Handled
    <3>3. ErasedAhead'
      BY <1>2, <2>1, <2>2, <3>1, SizesAssumption DEF IInv, ErasedAhead, TypeOK
    <3> QED
      BY <1>4, <2>1, <2>2, <3>1, <3>2, <3>3 DEF IInv, PastFirstPage, PageStep, BodyStep
  <2>4. CASE Accepts(RestAt, d)
    <3>1. flash' = Program(RestAt, d, IMAGE_SIZE) /\ offset' = RestAt + Len(d)
      BY <1>2, <1>6, <2>4, SizesAssumption DEF Proc_ImageUpdate, Room, TypeOK
    <3>2. flash' \in [Units -> Content]
      <4>1. IMAGE_SIZE \in Nat
        BY SizesAssumption
      <4> QED
        BY <1>2, <2>1, <3>1, <4>1, FlashTyped
    <3>3. TypeOK'
      BY <1>1, <1>2, <1>3, <1>4, <2>1, <2>2, <3>1, <3>2, SizesAssumption DEF TypeOK, Handled
    <3>4. ErasedAhead'
      <4> HIDE DEF d
      <4> SUFFICES ASSUME state = 1, NEW i \in Units, PAGE <= i, i < size, offset' <= i
                   PROVE  flash'[i] = Blank
        BY <2>2 DEF ErasedAhead
      <4>1. i \in Nat /\ ~(i < RestAt + Len(d))
        BY <2>1, <3>1 DEF Units
      <4>2. flash'[i] = flash[i]
        BY <3>1, <4>1 DEF Program
      <4>3. fpLen = PAGE => offset <= i
        BY <1>2, <2>1, <3>1, <4>1 DEF TypeOK
      <4> QED
        BY <4>2, <4>3 DEF IInv, ErasedAhead
    <3>5. state = 0 => flash' = flash
      BY <1>2, <3>1 DEF Program, TypeOK
    <3>6. PageStep
      <4> SUFFICES ASSUME NEW i \in Page PROVE flash'[i] = flash[i]
        BY DEF PageStep
      <4>1. i \in Units /\ i \in Nat /\ i < PAGE
        BY SizesAssumption DEF Page, Units
      <4>2. ~(RestAt <= i)
        BY <2>1, <4>1, SizesAssumption
      <4> QED
        BY <3>1, <4>1, <4>2 DEF Program
    <3>7. BodyStep
      BY <3>5 DEF BodyStep
    <3>8. PastFirstPage'
      BY <2>1, <3>1, SizesAssumption DEF PastFirstPage
    <3> QED
      BY <1>4, <3>3, <3>4, <3>6, <3>7, <3>8 DEF IInv
  <2> QED
    BY <2>3, <2>4
<1> QED
  BY <1>2, <1>5, <1>6, SizesAssumption DEF TypeOK, Room

-----------------------------------------------------------------------------
(* Every step of the device and of its clients.                              *)

LEMMA InitIInv == Init => IInv
<1> SUFFICES ASSUME Init PROVE IInv
  OBVIOUS
<1>1. TypeOK
  BY SizesAssumption, TokenAssumption, FramesAssumption
  DEF Init, Cleared, TypeOK, Content, Page
<1> QED
  BY <1>1, SizesAssumption DEF Init, Cleared, IInv, ErasedAhead, PastFirstPage

LEMMA TaskStep ==
  ASSUME IInv, APP_TC_OTA_Task
  PROVE  IInv' /\ PageStep /\ BodyStep
<1>1. buff[1] \in Frames
  BY BuffTyped DEF APP_TC_OTA_Task
<1>2. CASE ConfirmFault(buff[1])
  <2>1. flash \in [Units -> Content] /\ Stop(flash)
    BY <1>2 DEF ConfirmFault, IInv, TypeOK
  <2> QED
    BY <2>1, StopStep DEF PageStep, BodyStep
<1>3. CASE Handled /\ ProtocolProcess(buff[1])
  BY <1>1, <1>3, InformStep, StartRefusedStep, StartStep, ConfirmStepKeeps, ResetStepKeeps,
     ImageUpdateStep DEF ProtocolProcess
<1> QED
  BY <1>2, <1>3 DEF APP_TC_OTA_Task, Handled

LEMMA AirStep ==
  ASSUME IInv, Air
  PROVE  IInv' /\ PageStep /\ BodyStep
<1>1. CASE Deliver
  <2>1. rsp' \in Seq([cmd : Cmd, err : 0 .. 3])
    <3> DEFINE R == [cmd : Cmd, err : 0 .. 3]
    <3>1. rsp \in Seq(R) /\ rsp # <<>> /\ rsp' = Tail(rsp)
      BY <1>1 DEF IInv, TypeOK, Deliver
    <3> HIDE DEF R
    <3>2. rsp' \in Seq(R)
      BY <3>1
    <3> QED
      BY <3>2 DEF R
  <2> QED
    BY <1>1, <2>1, QuietStep DEF Deliver, link, IInv, TypeOK
<1>2. CASE GattLinkCreate
  BY <1>2, QuietStep DEF GattLinkCreate, IInv, TypeOK
<1>5. ASSUME NEW mine \in BOOLEAN, GapDisconnect(mine) PROVE IInv' /\ PageStep /\ BodyStep
  <2>1. rsp' \in Seq([cmd : Cmd, err : 0 .. 3])
    BY <1>5 DEF GapDisconnect, IInv, TypeOK
  <2>2. TypeOK' /\ state' = 0
    BY <1>5, <2>1 DEF GapDisconnect, IInv, TypeOK
  <2> QED
    BY <1>5, <2>2 DEF GapDisconnect, IInv, ErasedAhead, PastFirstPage, PageStep, BodyStep
<1>3. ASSUME NEW n \in {0, 1}, GattConfig(n) PROVE IInv' /\ PageStep /\ BodyStep
  BY <1>3, QuietStep DEF GattConfig, IInv, TypeOK
<1>4. ASSUME NEW f \in Frames, GattWrite(f) PROVE IInv' /\ PageStep /\ BodyStep
  <2>1. evts' \in 0 .. MaxFrame
    BY <1>4, FramesAssumption DEF GattWrite, IInv, TypeOK
  <2>2. buff' \in Seq(Frames) /\ Len(buff') <= 1 /\ buff' # <<>>
    BY <1>4 DEF GattWrite
  <2> QED
    BY <1>4, <2>1, <2>2, QuietStep DEF GattWrite, IInv, TypeOK
<1> QED
  BY <1>1, <1>2, <1>3, <1>4, <1>5 DEF Air

LEMMA NextStep ==
  ASSUME IInv, [Next]_vars
  PROVE  IInv' /\ [PageStep]_vars /\ [BodyStep]_vars
<1>1. flash \in [Units -> Content]
  BY DEF IInv, TypeOK
<1>2. CASE APP_TC_OTA_Init
  <2>1. up' \in {"on", "off"}
    BY <1>2 DEF APP_TC_OTA_Init
  <2> QED
    BY <1>2, <2>1, QuietStep DEF APP_TC_OTA_Init, link, IInv, TypeOK
<1>3. CASE APP_TC_OTA_Task
  BY <1>3, TaskStep
<1>4. CASE Reboot_timer_handler
  BY <1>1, <1>4, StopStep DEF Reboot_timer_handler, PageStep, BodyStep
<1>5. CASE Air
  BY <1>5, AirStep
<1>6. CASE PowerLoss
  BY <1>1, <1>6, StopStep, CutStep DEF PowerLoss, PageStep, BodyStep
<1>7. CASE UNCHANGED vars
  <2>1. UNCHANGED <<up, buff, evts, ntf, update, flash, reboot, rsp>>
    BY <1>7 DEF vars, link
  <2> QED
    BY <1>7, <2>1, QuietStep DEF IInv, TypeOK
<1> QED
  BY <1>2, <1>3, <1>4, <1>5, <1>6, <1>7 DEF Next, Device

\* Whatever clients send, the control block keeps its types: no more than a
\* page is kept of the first page, and no packet is written outside the
\* partition.
THEOREM TypeCorrect == Spec => []TypeOK
<1>1. Init => IInv
  BY InitIInv
<1>2. IInv /\ [Next]_vars => IInv'
  BY NextStep
<1>3. IInv => TypeOK
  BY DEF IInv
<1> QED
  BY <1>1, <1>2, <1>3, PTL DEF Spec

\* Proc_StartOTA erases all that OTA_Image_Update is going to write.
THEOREM ErasedAheadHolds == Spec => []ErasedAhead
<1>1. Init => IInv
  BY InitIInv
<1>2. IInv /\ [Next]_vars => IInv'
  BY NextStep
<1>3. IInv => ErasedAhead
  BY DEF IInv
<1> QED
  BY <1>1, <1>2, <1>3, PTL DEF Spec

\* The first page of the partition is changed by the end of an update only.
THEOREM FirstPageLastHolds == Spec => FirstPageLast
<1>1. Init => IInv
  BY InitIInv
<1>2. IInv /\ [Next]_vars => IInv'
  BY NextStep
<1>3. IInv /\ [Next]_vars => [(\E i \in Page : flash'[i] # flash[i]) => state' = 0]_vars
  BY NextStep DEF PageStep
<1> QED
  BY <1>1, <1>2, <1>3, PTL DEF Spec, FirstPageLast

\* The body of the partition is left alone between two updates.
THEOREM BodySealedHolds == Spec => BodySealed
<1>1. Init => IInv
  BY InitIInv
<1>2. IInv /\ [Next]_vars => IInv'
  BY NextStep
<1>3. IInv /\ [Next]_vars =>
        [state = 0 /\ up' = "on" /\ (\E i \in Units : i >= PAGE /\ flash'[i] # flash[i])
           => state' = 1]_vars
  BY NextStep DEF BodyStep
<1> QED
  BY <1>1, <1>2, <1>3, PTL DEF Spec, BodySealed

-----------------------------------------------------------------------------
(* The session of TcOtaSession.                                              *)

StepOK == step \in Nat \ {0}

LEMMA StepKept == StepOK /\ [SessionNext]_sessionVars => StepOK'
<1> SUFFICES ASSUME StepOK, [SessionNext]_sessionVars PROVE StepOK'
  OBVIOUS
<1> USE DEF StepOK
<1>1. CASE DeviceStep
  BY <1>1 DEF DeviceStep
<1>2. CASE ClientStep
  <2>1. CASE Connect \/ Send
    BY <2>1 DEF Connect, Send
  <2>2. CASE Receive
    BY <2>2 DEF Receive
  <2>3. CASE Timeout
    BY <2>3 DEF Timeout, Again
  <2> QED
    BY <1>2, <2>1, <2>2, <2>3 DEF ClientStep
<1>3. CASE LinkLost \/ OtherLink \/ PowerLost
  <2>1. CASE LinkLost
    BY <2>1 DEF LinkLost, Again
  <2>2. CASE OtherLink
    BY <2>2, Zenon DEF OtherLink
  <2>3. CASE PowerLost
    BY <2>3 DEF PowerLost
  <2> QED
    BY <1>3, <2>1, <2>2, <2>3
<1>4. CASE UNCHANGED sessionVars
  BY <1>4 DEF sessionVars, client
<1> QED
  BY <1>1, <1>2, <1>3, <1>4 DEF SessionNext

LEMMA StepOfTcOta ==
  ASSUME StepOK, [SessionNext]_sessionVars
  PROVE  [Next]_vars
<1>1. CASE DeviceStep
  BY <1>1 DEF DeviceStep, Next
<1>2. CASE Connect
  BY <1>2 DEF Connect, Next, Air
<1>3. CASE Send
  <2>1. ResetStep \in Nat
    BY SessionAssumption DEF ResetStep, Packets
  <2>2. step \in 1 .. ResetStep
    BY <1>3, <2>1 DEF Send, StepOK
  <2> QED
    BY <1>3, <2>2, ScriptAssumption DEF Send, Next, Air
<1>4. CASE Receive
  BY <1>4 DEF Receive, Next, Air
<1>5. CASE LinkLost \/ Timeout
  BY <1>5 DEF LinkLost, Timeout, Next, Air
<1>6. CASE OtherLink
  BY <1>6 DEF OtherLink, Next, Air
<1>7. CASE PowerLost
  BY <1>7 DEF PowerLost, Next
<1>8. CASE UNCHANGED sessionVars
  BY <1>8 DEF sessionVars
<1> QED
  BY <1>1, <1>2, <1>3, <1>4, <1>5, <1>6, <1>7, <1>8 DEF SessionNext, ClientStep

\* A client that follows the protocol is one of the clients of TcOta: every
\* step of a session is one of the device, of its clients or of the supply.
THEOREM SessionImplements == SessionSpec => Spec
<1>1. SessionInit => Init /\ StepOK
  BY DEF SessionInit, StepOK
<1>2. StepOK /\ [SessionNext]_sessionVars => [Next]_vars
  BY StepOfTcOta
<1> QED
  BY <1>1, <1>2, StepKept, PTL DEF SessionSpec, Spec

-----------------------------------------------------------------------------
(* What the client is told is so: AckedIsHeld and DoneIsWhole of a client    *)
(* that begins anew after a lost link.  The invariant says whose turn it is  *)
(* (Turns), that what it was told of the whole image is so (Told) and, of an *)
(* image OTA_Image_Update takes, what the device holds of it (Stored).  A    *)
(* reply counts as soon as it is on its way.                                 *)

Fits == Len(Image) <= UPDATE_MAX

\* The first n units of the image are held, the first page of them in RAM.
Kept(n) == \A i \in 1 .. n : Image[i] = IF i <= PAGE THEN fpData[i - 1] ELSE flash[i - 1]

\* The device has handled the start and k packets.
Ready(k) ==
  /\ size = Len(Image) /\ Kept(Sent(k))
  /\ fpLen = IF Sent(k) < PAGE THEN Sent(k) ELSE PAGE
  /\ fpLen = PAGE => offset = Sent(k)

\* A device that can reply can still write.
Open == ntf = 1 => state = 1

Whole == \A i \in 1 .. Len(Image) : flash[i - 1] = Image[i]

Turns ==
  /\ step \in 1 .. ResetStep + 1 /\ wait \in {"link", "none", "reply"}
  /\ up = "off" => wait = "link"
  /\ wait = "link" => ntf = 0 /\ rsp = <<>> /\ step \in {1, ResetStep + 1}
  /\ wait = "none" /\ step <= ResetStep => evts = 0 /\ rsp = <<>>
  /\ wait = "reply" => /\ step <= ConfirmStep /\ Len(rsp) <= 1
                       /\ evts = 0 \/ (evts = 1 /\ rsp = <<>> /\ buff = <<Script(step)>>)
  /\ step = ResetStep + 1 => rsp = <<>> /\ (evts > 0 => buff = <<Script(ResetStep)>>)

Told ==
  /\ step \in 2 .. ConfirmStep /\ (wait = "none" \/ (wait = "reply" /\ evts = 1)) => Open
  /\ step < ConfirmStep /\ wait = "reply" /\ rsp # <<>> => Open
  /\ step = ConfirmStep /\ wait = "reply" /\ rsp # <<>> /\ rsp[1].err = 0 => Whole
  /\ step > ConfirmStep => Whole

Stored ==
  /\ step \in 2 .. ConfirmStep /\ (wait = "none" \/ (wait = "reply" /\ evts = 1)) => Ready(step - 2)
  /\ step < ConfirmStep /\ wait = "reply" /\ rsp # <<>> /\ rsp[1].err = 0 => Ready(step - 1)
  /\ step \in 2 .. ConfirmStep /\ wait = "reply" => Kept(Sent(step - 2))

SInv == Turns /\ Told /\ (Fits => Stored)

\* The packets are the image, cut in pieces.
LEMMA Lengths ==
  /\ Len(Image) \in Nat /\ Packets \in Nat
  /\ ConfirmStep = Packets + 2 /\ ResetStep = Packets + 3
<1>1. Len(Image) \in Nat /\ Packet \in Nat \ {0}
  BY SessionAssumption
<1> QED
  BY <1>1 DEF Packets, ConfirmStep, ResetStep

LEMMA SentBounds ==
  ASSUME NEW k \in Nat
  PROVE  Sent(k) \in 0 .. Len(Image) /\ Sent(k + 1) \in 0 .. Len(Image) /\ Sent(k) <= Sent(k + 1)
<1>1. Packet \in Nat /\ Len(Image) \in Nat
  BY SessionAssumption
<1>2. Packet * k \in Nat /\ Packet * (k + 1) = Packet * k + Packet
  BY <1>1
<1> QED
  BY <1>1, <1>2 DEF Sent

LEMMA SentAll ==
  ASSUME NEW k \in Nat, Packets <= k
  PROVE  Sent(k) = Len(Image)
<1>1. Packet \in Nat \ {0} /\ Len(Image) \in Nat /\ Packets \in Nat
  BY SessionAssumption, Lengths
<1>2. Len(Image) <= Packet * Packets
  BY <1>1, AlignUpBounds DEF Packets
<1>3. PICK j \in Nat : k = Packets + j
  <2>1. k - Packets \in Nat /\ k = Packets + (k - Packets)
    BY <1>1
  <2> QED
    BY <2>1
<1>4. Packet * k = Packet * Packets + Packet * j /\ Packet * j \in Nat /\ Packet * Packets \in Nat
  BY <1>1, <1>3
<1> QED
  BY <1>1, <1>2, <1>4 DEF Sent

LEMMA SentNone == Sent(0) = 0
<1>1. Packet \in Nat /\ Len(Image) \in Nat /\ Packet * 0 = 0
  BY SessionAssumption
<1> QED
  BY <1>1 DEF Sent

LEMMA Scripts ==
  /\ Script(1) = Command("start", <<>>)
  /\ Script(ConfirmStep) = Command("confirm", Image)
  /\ Script(ResetStep) = Command("reset", <<>>)
  /\ \A s \in 2 .. ConfirmStep - 1 :
       Script(s) = Command("data", SubSeq(Image, Sent(s - 2) + 1, Sent(s - 1)))
<1>1. ConfirmStep \in Nat /\ 1 < ConfirmStep /\ ResetStep = ConfirmStep + 1
  BY Lengths
<1>2. Script(1) = Command("start", <<>>)
  <2>1. 1 # ConfirmStep /\ 1 # ResetStep
    BY <1>1
  <2> QED
    BY <2>1 DEF Script
<1>3. Script(ConfirmStep) = Command("confirm", Image)
  <2>1. ConfirmStep # 1 /\ ConfirmStep # ResetStep
    BY <1>1
  <2> QED
    BY <2>1 DEF Script
<1>4. Script(ResetStep) = Command("reset", <<>>)
  BY <1>1 DEF Script
<1>5. ASSUME NEW s \in 2 .. ConfirmStep - 1
      PROVE  Script(s) = Command("data", SubSeq(Image, Sent(s - 2) + 1, Sent(s - 1)))
  <2>1. s # 1 /\ s # ConfirmStep /\ s # ResetStep
    BY <1>1
  <2> QED
    BY <2>1 DEF Script
<1> QED
  BY <1>2, <1>3, <1>4, <1>5

LEMMA Piece ==
  ASSUME NEW s \in Seq(Token), NEW a \in Nat, NEW b \in Nat, a <= b, b <= Len(s)
  PROVE  /\ Len(SubSeq(s, a + 1, b)) = b - a
         /\ \A j \in 1 .. b - a : SubSeq(s, a + 1, b)[j] = s[a + j]
<1>1. a + 1 \in Int /\ b \in Int /\ \A i \in a + 1 .. b : s[i] \in Token
  OBVIOUS
<1> DEFINE t == SubSeq(s, a + 1, b)
<1>2. /\ Len(t) = IF a + 1 <= b THEN b - (a + 1) + 1 ELSE 0
      /\ \A i \in 1 .. b - (a + 1) + 1 : t[i] = s[a + 1 + i - 1]
  BY <1>1, SubSeqProperties
<1> HIDE DEF t
<1>3. Len(t) = b - a
  BY <1>2
<1>4. ASSUME NEW j \in 1 .. b - a PROVE t[j] = s[a + j]
  <2>1. j \in 1 .. b - (a + 1) + 1 /\ a + 1 + j - 1 = a + j
    BY <1>4
  <2> QED
    BY <1>2, <2>1
<1> QED
  BY <1>3, <1>4 DEF t

LEMMA OnlyWritten ==
  ASSUME NEW o \in Nat, NEW d, NEW n \in Nat, NEW u \in Units, state = 1, o <= u, u < o + Len(d), u < n
  PROVE  Program(o, d, n)[u] = d[u - o + 1]
BY DEF Program

\* No notification is sent while they are off.
LEMMA NoReply ==
  ASSUME ntf = 0, NEW f, ProtocolProcess(f)
  PROVE  rsp' = rsp
BY DEF ProtocolProcess, Proc_Inform, StartRefused, Proc_StartOTA, Proc_Confirm, Proc_Reset,
       Proc_ImageUpdate, GATT_SendData

\* A packet handled in its turn is stored at its place, one that finds the gate
\* closed leaves alone what was stored before it.
LEMMA PacketStored ==
  ASSUME TypeOK, Fits, Open, NEW k \in Nat, Ready(k), NEW f \in Frames,
         f.data = SubSeq(Image, Sent(k) + 1, Sent(k + 1)), Proc_ImageUpdate(f), ntf' = ntf
  PROVE  Kept(Sent(k))' /\ (ntf = 1 => Ready(k + 1)')
<1> DEFINE n == Sent(k)
           m == Sent(k + 1)
           d == Rest(f.data)
<1>1. /\ n \in Nat /\ m \in Nat /\ n <= m /\ m <= Len(Image) /\ Len(Image) \in Nat
      /\ PAGE \in Nat \ {0} /\ IMAGE_SIZE \in Nat /\ m <= IMAGE_SIZE /\ m <= UPDATE_MAX
      /\ UPDATE_MAX \in Nat
  <2>1. n \in 0 .. Len(Image) /\ m \in 0 .. Len(Image) /\ n <= m
    BY SentBounds
  <2> HIDE DEF n, m
  <2> QED
    BY <2>1, Lengths, SizesAssumption DEF Fits
<1>2. /\ f.data \in Seq(Token) /\ Len(f.data) = m - n
      /\ \A j \in 1 .. m - n : f.data[j] = Image[n + j]
  <2>1. Image \in Seq(Token) /\ f.data \in Seq(Token) /\ f.data = SubSeq(Image, n + 1, m)
    BY SessionAssumption, FrameTyped
  <2> HIDE DEF n, m
  <2> QED
    <3>1. n \in Nat /\ m \in Nat /\ n <= m /\ m <= Len(Image)
      BY <1>1
    <3>2. /\ Len(SubSeq(Image, n + 1, m)) = m - n
          /\ \A j \in 1 .. m - n : SubSeq(Image, n + 1, m)[j] = Image[n + j]
      BY <2>1, <3>1, Piece
    <3> QED
      BY <2>1, <3>2, Zenon
<1>3. /\ size = Len(Image) /\ Kept(n) /\ (fpLen = PAGE => offset = n) /\ (ntf = 1 => state = 1)
      /\ fpLen = IF n < PAGE THEN n ELSE PAGE
  BY DEF Ready, Open
<1>4. /\ \A i \in Page : fpData'[i] = IF fpLen <= i /\ i < fpLen + Len(f.data)
                                        THEN f.data[i - fpLen + 1] ELSE fpData[i]
      /\ UNCHANGED <<state, size>>
      /\ Len(f.data) < Room => fpLen' = fpLen + Len(f.data) /\ flash' = flash
      /\ ~(Len(f.data) < Room) /\ Accepts(RestAt, d) =>
            /\ fpLen' = PAGE /\ offset' = RestAt + Len(d)
            /\ flash' = Program(RestAt, d, IMAGE_SIZE)
  BY DEF Proc_ImageUpdate
<1> HIDE DEF n, m, d
<1>5. CASE n < PAGE
  <2>1. ASSUME NEW i \in 1 .. m, i <= PAGE PROVE Image[i] = fpData'[i - 1]
    <3>1. i - 1 \in Page
      BY <1>1, <2>1 DEF Page
    <3>2. CASE i <= n
      BY <1>1, <1>3, <1>4, <1>5, <2>1, <3>1, <3>2 DEF Kept
    <3>3. CASE n < i
      <4>1. fpData'[i - 1] = f.data[i - n]
        <5>1. fpLen <= i - 1 /\ i - 1 < fpLen + Len(f.data) /\ i - 1 - fpLen + 1 = i - n
          BY <1>1, <1>2, <1>3, <1>5, <2>1, <3>3
        <5> QED
          BY <1>4, <3>1, <5>1
      <4>2. i - n \in 1 .. m - n /\ n + (i - n) = i
        BY <1>1, <2>1, <3>3
      <4> QED
        BY <1>2, <4>1, <4>2
    <3> QED
      BY <1>1, <2>1, <3>2, <3>3
  <2>2. Kept(n)'
    BY <1>1, <1>5, <2>1 DEF Kept
  <2>3. CASE m < PAGE
    <3>1. fpLen' = m
      BY <1>1, <1>2, <1>3, <1>4, <1>5, <2>3 DEF Room
    <3>2. Kept(m)'
      BY <1>1, <2>1, <2>3 DEF Kept
    <3> QED
      BY <1>1, <1>3, <1>4, <2>2, <2>3, <3>1, <3>2 DEF Ready, n, m
  <2>4. CASE PAGE <= m /\ ntf = 1
    <3>1. Len(f.data) >= Room /\ Room = PAGE - n /\ RestAt = PAGE
      BY <1>1, <1>2, <1>3, <1>5, <2>4 DEF Room, RestAt
    <3>2. Len(d) = m - PAGE /\ \A j \in 1 .. m - PAGE : d[j] = Image[PAGE + j]
      <4>1. d = SubSeq(f.data, PAGE - n + 1, m - n)
        BY <1>2, <3>1 DEF Rest, d
      <4>2. /\ Len(d) = (m - n) - (PAGE - n)
            /\ \A j \in 1 .. m - PAGE : d[j] = f.data[(PAGE - n) + j]
        <5>1. /\ PAGE - n \in Nat /\ m - n \in Nat /\ PAGE - n <= m - n
              /\ m - n <= Len(f.data) /\ (m - n) - (PAGE - n) = m - PAGE
          BY <1>1, <1>2, <1>5, <2>4
        <5> QED
          <6> DEFINE p == PAGE - n
                     q == m - n
          <6>1. p \in Nat /\ q \in Nat /\ p <= q /\ q <= Len(f.data) /\ f.data \in Seq(Token)
            BY <1>2, <5>1
          <6>2. q - p = m - PAGE /\ d = SubSeq(f.data, p + 1, q)
            BY <4>1, <5>1
          <6> HIDE DEF p, q
          <6>3. /\ Len(SubSeq(f.data, p + 1, q)) = q - p
                /\ \A j \in 1 .. q - p : SubSeq(f.data, p + 1, q)[j] = f.data[p + j]
            BY <6>1, Piece
          <6>4. Len(d) = q - p /\ \A j \in 1 .. m - PAGE : d[j] = f.data[p + j]
            BY <6>2, <6>3, Zenon
          <6> QED
            BY <6>4 DEF p, q
      <4>3. ASSUME NEW j \in 1 .. m - PAGE PROVE d[j] = Image[PAGE + j]
        <5>1. (PAGE - n) + j \in 1 .. m - n /\ n + ((PAGE - n) + j) = PAGE + j
          BY <1>1, <1>5, <2>4, <4>3
        <5> QED
          BY <1>2, <4>2, <4>3, <5>1
      <4>4. Len(d) = m - PAGE
        BY <1>1, <1>5, <2>4, <4>2
      <4> QED
        BY <4>3, <4>4
    <3>3. Accepts(RestAt, d)
      BY <1>1, <1>3, <2>4, <3>1, <3>2 DEF Accepts, Fits
    <3>4. /\ fpLen' = PAGE /\ offset' = m
          /\ flash' = Program(PAGE, d, IMAGE_SIZE)
      <4>1. ~(Len(f.data) < Room)
        BY <1>1, <1>2, <3>1
      <4>2. fpLen' = PAGE /\ offset' = PAGE + Len(d) /\ flash' = Program(PAGE, d, IMAGE_SIZE)
        BY <1>4, <3>1, <3>3, <4>1, Zenon
      <4> QED
        BY <1>1, <2>4, <3>2, <4>2
    <3>5. ASSUME NEW i \in 1 .. m, PAGE < i PROVE Image[i] = flash'[i - 1]
      <4>1. i - 1 \in Units /\ i - PAGE \in 1 .. m - PAGE /\ PAGE + (i - PAGE) = i
        BY <1>1, <3>5 DEF Units
      <4>2. flash'[i - 1] = d[(i - 1) - PAGE + 1] /\ (i - 1) - PAGE + 1 = i - PAGE
        <5>1. state = 1 /\ PAGE <= i - 1 /\ i - 1 < PAGE + Len(d) /\ i - 1 < IMAGE_SIZE
          BY <1>1, <1>3, <2>4, <3>2, <3>5
        <5>2. PAGE \in Nat /\ IMAGE_SIZE \in Nat /\ i - 1 \in Units
          BY <1>1, <4>1
        <5>3. Program(PAGE, d, IMAGE_SIZE)[i - 1] = d[(i - 1) - PAGE + 1]
          BY <5>1, <5>2, OnlyWritten, Zenon
        <5>4. (i - 1) - PAGE + 1 = i - PAGE
          BY <1>1
        <5> QED
          BY <3>4, <5>3, <5>4
      <4> QED
        BY <3>2, <4>1, <4>2
    <3>6. Kept(m)'
      BY <1>1, <2>1, <3>5 DEF Kept
    <3> QED
      BY <1>1, <1>3, <1>4, <2>2, <2>4, <3>4, <3>6 DEF Ready, n, m
  <2> QED
    BY <1>1, <2>2, <2>3, <2>4 DEF n
<1>6. CASE PAGE <= n
  <2>1. fpLen = PAGE /\ offset = n /\ Room = 0 /\ RestAt = n /\ Len(f.data) >= Room
    BY <1>1, <1>2, <1>3, <1>6 DEF Room, RestAt
  <2>2. \A i \in Page : fpData'[i] = fpData[i]
    BY <1>1, <1>4, <2>1 DEF Page
  <2>3. Len(d) = m - n /\ \A j \in 1 .. m - n : d[j] = Image[n + j]
    <3>1. d = SubSeq(f.data, 1, m - n)
      BY <1>2, <2>1 DEF Rest, d
    <3>2. Len(d) = m - n /\ \A j \in 1 .. m - n : d[j] = f.data[j]
      <4>1. 0 \in Nat /\ m - n \in Nat /\ 0 <= m - n /\ (m - n) - 0 = m - n /\ 0 + 1 = 1
            /\ \A j \in 1 .. m - n : 0 + j = j
        BY <1>1
      <4> QED
        BY <1>2, <3>1, <4>1, SubSeqFull
    <3> QED
      BY <1>2, <3>2
  <2>4. Accepts(RestAt, d)
    BY <1>1, <1>3, <1>6, <2>1, <2>3 DEF Accepts, Fits
  <2>5. /\ fpLen' = PAGE /\ offset' = m
        /\ flash' = Program(n, d, IMAGE_SIZE)
    <3>1. ~(Len(f.data) < Room)
      BY <1>1, <1>2, <2>1
    <3>2. fpLen' = PAGE /\ offset' = n + Len(d) /\ flash' = Program(n, d, IMAGE_SIZE)
      BY <1>4, <2>1, <2>4, <3>1, Zenon
    <3> QED
      BY <1>1, <2>3, <3>2
  <2>6. ASSUME NEW i \in 1 .. m, i <= PAGE PROVE Image[i] = fpData'[i - 1]
    <3>1. i - 1 \in Page /\ i \in 1 .. n
      BY <1>1, <1>6, <2>6 DEF Page
    <3> QED
      BY <1>3, <2>2, <2>6, <3>1 DEF Kept
  <2>7. ASSUME NEW i \in 1 .. n, PAGE < i PROVE Image[i] = flash'[i - 1]
    <3>1. i - 1 \in Units /\ ~(n <= i - 1)
      BY <1>1, <2>7 DEF Units
    <3>2. flash'[i - 1] = flash[i - 1]
      BY <2>5, <3>1 DEF Program
    <3> QED
      BY <1>1, <1>3, <2>7, <3>2 DEF Kept
  <2>8. Kept(n)'
    BY <1>1, <2>6, <2>7 DEF Kept
  <2>9. ASSUME ntf = 1 PROVE Kept(m)'
    <3>1. ASSUME NEW i \in 1 .. m, n < i PROVE Image[i] = flash'[i - 1]
      <4>1. i - 1 \in Units /\ i - n \in 1 .. m - n /\ n + (i - n) = i
        BY <1>1, <3>1 DEF Units
      <4>2. flash'[i - 1] = d[(i - 1) - n + 1] /\ (i - 1) - n + 1 = i - n
        <5>1. state = 1 /\ n <= i - 1 /\ i - 1 < n + Len(d) /\ i - 1 < IMAGE_SIZE
          BY <1>1, <1>3, <2>3, <2>9, <3>1
        <5>2. n \in Nat /\ IMAGE_SIZE \in Nat /\ i - 1 \in Units
          BY <1>1, <4>1
        <5>3. Program(n, d, IMAGE_SIZE)[i - 1] = d[(i - 1) - n + 1]
          BY <5>1, <5>2, OnlyWritten, Zenon
        <5>4. (i - 1) - n + 1 = i - n
          BY <1>1
        <5> QED
          BY <2>5, <5>3, <5>4
      <4> QED
        BY <2>3, <4>1, <4>2
    <3> QED
      BY <1>1, <2>6, <2>7, <3>1 DEF Kept
  <2> QED
    BY <1>1, <1>3, <1>4, <1>6, <2>5, <2>8, <2>9 DEF Ready, n, m
<1> QED
  BY <1>1, <1>5, <1>6

JInv == IInv /\ StepOK /\ SInv

\* The client has to connect again: nothing is promised but what it was told.
LEMMA Unlinked ==
  ASSUME SInv, wait' = "link", ntf' = 0, rsp' = <<>>,
         step' = 1 \/ (step = ResetStep + 1 /\ step' = step /\ flash' = flash
                         /\ (evts' > 0 => buff' = <<Script(ResetStep)>>))
  PROVE  SInv'
<1>1. ConfirmStep \in Nat /\ 1 < ConfirmStep /\ ResetStep = ConfirmStep + 1
  BY Lengths
<1>2. Turns'
  BY <1>1 DEF SInv, Turns
<1>3. Told'
  BY <1>1 DEF SInv, Told, Whole
<1>4. Stored'
  BY <1>1 DEF SInv, Stored
<1> QED
  BY <1>2, <1>3, <1>4 DEF SInv

\* What is left of a client that had sent its reset can only restart the device.
LEMMA StopIsSafe ==
  ASSUME JInv, NEW f, Stop(f), wait' = "link",
         step' = IF step > ResetStep THEN step ELSE 1, step > ResetStep => f = flash
  PROVE  SInv'
<1>1. step \in 1 .. ResetStep + 1 /\ ResetStep \in Nat
  BY Lengths DEF JInv, SInv, Turns
<1>2. ntf' = 0 /\ rsp' = <<>> /\ evts' = 0 /\ flash' = f
  BY DEF Stop, Cleared
<1> QED
  BY <1>1, <1>2, Unlinked DEF JInv

\* The frame that is handled when the client has sent its reset.
LEMMA LastFrame ==
  ASSUME JInv, evts > 0, step > ResetStep
  PROVE  buff[1] = Command("reset", <<>>)
<1>1. step = ResetStep + 1
  BY Lengths DEF JInv, SInv, Turns
<1> QED
  BY <1>1, Scripts DEF JInv, SInv, Turns

LEMMA CutIsSafe ==
  ASSUME JInv, PowerLoss, wait' = "link", step' = IF step > ResetStep THEN step ELSE 1
  PROVE  SInv'
<1>1. CASE Stop(flash)
  BY <1>1, StopIsSafe
<1>2. ASSUME evts > 0, NEW n \in 0 .. IMAGE_SIZE, Cut(buff[1], n) PROVE SInv'
  <2>1. step <= ResetStep
    <3>1. buff[1].cmd \in {"start", "confirm", "data"}
      BY <1>2 DEF Cut
    <3>2. step > ResetStep => buff[1].cmd = "reset"
      BY <1>2, LastFrame DEF Command
    <3>3. step \in Nat /\ ResetStep \in Nat
      BY Lengths DEF JInv, StepOK
    <3> QED
      BY <3>1, <3>2, <3>3
  <2>2. ~(step > ResetStep)
    BY <2>1, Lengths DEF JInv, StepOK
  <2> QED
    BY <1>2, <2>2, StopIsSafe DEF Cut
<1> QED
  BY <1>1, <1>2 DEF PowerLoss

-----------------------------------------------------------------------------
(* The task handles the client's frame.                                      *)

Unmoved == UNCHANGED <<step, wait>>

\* No reply and no turn: a frame of a client that has left, or its reset.
LEMMA LateFrame ==
  ASSUME JInv, Handled, ProtocolProcess(buff[1]), Unmoved, wait # "reply"
  PROVE  SInv'
<1>1. ConfirmStep \in Nat /\ 1 < ConfirmStep /\ ResetStep = ConfirmStep + 1
  BY Lengths
<1>2. evts \in Nat /\ evts > 0 /\ evts' = evts - 1
  BY FramesAssumption DEF JInv, IInv, TypeOK, Handled
<1>3. CASE step = 1 /\ wait = "link"
  <2>1. rsp' = <<>> /\ ntf' = 0
    BY <1>3, NoReply DEF JInv, SInv, Turns, Handled
  <2> QED
    BY <1>3, <2>1, Unlinked DEF JInv, Unmoved
<1>4. CASE step = ResetStep + 1
  <2>1. buff[1].cmd = "reset" /\ buff = <<Script(ResetStep)>>
    <3>1. step > ResetStep
      BY <1>1, <1>4
    <3> QED
      BY <1>2, <1>4, <3>1, LastFrame DEF Command, JInv, SInv, Turns
  <2>2. UNCHANGED <<flash, rsp>>
    BY <2>1 DEF ProtocolProcess, Proc_Inform, StartRefused, Proc_StartOTA, Proc_Confirm, Proc_Reset,
                Proc_ImageUpdate
  <2>3. Turns'
    BY <1>1, <1>2, <1>4, <2>1, <2>2 DEF JInv, SInv, Turns, Handled, Unmoved
  <2>4. Told' /\ Stored'
    BY <1>1, <1>4, <2>2 DEF JInv, SInv, Told, Stored, Whole, Unmoved
  <2> QED
    BY <2>3, <2>4 DEF SInv
<1> QED
  BY <1>1, <1>2, <1>3, <1>4 DEF JInv, SInv, Turns

LEMMA OneReply ==
  ASSUME rsp = <<>>
  PROVE  /\ Len(rsp) <= 1
         /\ \A c, e : GATT_SendData(c, e) => Len(rsp') <= 1
<1>1. ASSUME NEW c, NEW e, GATT_SendData(c, e) PROVE Len(rsp') <= 1
  <2> DEFINE r == [cmd |-> c, err |-> e]
  <2>1. rsp' = Append(<<>>, r) \/ rsp' = <<>>
    BY <1>1 DEF GATT_SendData
  <2> HIDE DEF r
  <2>2. Append(<<>>, r) = <<r>> /\ Len(<<r>>) = 1 /\ Len(<<>>) = 0
    OBVIOUS
  <2>3. CASE rsp' = Append(<<>>, r)
    <3>1. rsp' = <<r>>
      BY <2>2, <2>3
    <3>2. Len(rsp') = Len(<<r>>)
      BY <3>1
    <3> QED
      BY <2>2, <3>2
  <2>4. CASE rsp' = <<>>
    BY <2>4
  <2> QED
    BY <2>1, <2>3, <2>4
<1> QED
  BY <1>1

\* A frame in its turn: the client waits, and gets at most one reply.
LEMMA FrameHandled ==
  ASSUME JInv, Handled, ProtocolProcess(buff[1]), Unmoved, wait = "reply"
  PROVE  /\ evts = 1 /\ rsp = <<>> /\ buff[1] = Script(step) /\ step \in 1 .. ConfirmStep
         /\ evts' = 0 /\ ntf' = ntf /\ wait' = "reply" /\ step' = step
         /\ Turns'
<1>1. ConfirmStep \in Nat /\ 1 < ConfirmStep /\ ResetStep = ConfirmStep + 1
  BY Lengths
<1>2. /\ evts = 1 /\ rsp = <<>> /\ buff = <<Script(step)>> /\ step \in 1 .. ConfirmStep
      /\ evts' = 0 /\ ntf' = ntf /\ wait' = "reply" /\ step' = step /\ up' = "on"
  BY <1>1, FramesAssumption DEF JInv, SInv, Turns, IInv, TypeOK, Handled, Unmoved
<1>3. Len(rsp') <= 1
  <2> DEFINE f == buff[1]
  <2>1. CASE Proc_Inform(f) \/ StartRefused(f)
    BY <1>2, <2>1, OneReply DEF Proc_Inform, StartRefused
  <2>2. CASE Proc_StartOTA(f) \/ Proc_ImageUpdate(f)
    BY <1>2, <2>2, OneReply DEF Proc_StartOTA, Proc_ImageUpdate
  <2>3. CASE Proc_Confirm(f) \/ Proc_Reset(f)
    BY <1>2, <2>3, OneReply DEF Proc_Confirm, Proc_Reset
  <2> QED
    BY <2>1, <2>2, <2>3 DEF ProtocolProcess
<1>4. Turns'
  BY <1>1, <1>2, <1>3 DEF Turns
<1> QED
  BY <1>2, <1>4

\* The start is handled: the device holds nothing yet, and goes on if it replies.
LEMMA StartInTurn ==
  ASSUME JInv, Handled, ProtocolProcess(buff[1]), Unmoved, wait = "reply", step = 1
  PROVE  SInv'
<1> DEFINE f == buff[1]
<1>1. ConfirmStep \in Nat /\ 1 < ConfirmStep /\ ResetStep = ConfirmStep + 1
  BY Lengths
<1>2. /\ f = Command("start", <<>>) /\ rsp = <<>> /\ evts' = 0 /\ ntf' = ntf
      /\ wait' = "reply" /\ step' = 1 /\ Turns'
  BY FrameHandled, Scripts
<1>3. f.cmd = "start" /\ f.flag /\ f.size = Len(Image)
  BY <1>2 DEF Command
<1>4. StartRefused(f) \/ Proc_StartOTA(f)
  BY <1>3 DEF ProtocolProcess, Proc_Inform, Proc_Confirm, Proc_Reset, Proc_ImageUpdate
<1>5. rsp' # <<>> => state' = 1
  BY <1>2, <1>3, <1>4 DEF StartRefused, Proc_StartOTA
<1>6. Told'
  BY <1>1, <1>2, <1>5 DEF Told, Open
<1>7. ASSUME Fits PROVE Stored'
  <2>1. size' = Len(Image) /\ fpLen' = 0
    BY <1>3, <1>4 DEF StartRefused, Proc_StartOTA
  <2>2. Sent(0) = 0 /\ 0 < PAGE /\ fpLen' # PAGE
    BY <2>1, SentNone, SizesAssumption
  <2>3. Kept(Sent(0))'
    BY <2>2 DEF Kept
  <2>4. Ready(0)'
    BY <2>1, <2>2, <2>3 DEF Ready
  <2> QED
    BY <1>1, <1>2, <2>4 DEF Stored
<1> QED
  BY <1>2, <1>6, <1>7 DEF SInv

\* A packet is handled.
LEMMA PacketInTurn ==
  ASSUME JInv, Handled, ProtocolProcess(buff[1]), Unmoved, wait = "reply",
         1 < step, step < ConfirmStep
  PROVE  SInv'
<1> DEFINE f == buff[1]
<1>1. ConfirmStep \in Nat /\ ResetStep = ConfirmStep + 1 /\ step \in 2 .. ConfirmStep - 1
  BY Lengths DEF JInv, StepOK
<1>k. PICK k \in Nat : step - 2 = k /\ step - 1 = k + 1
  BY <1>1
<1>2. /\ f = Script(step) /\ evts = 1 /\ rsp = <<>> /\ evts' = 0 /\ ntf' = ntf
      /\ wait' = "reply" /\ step' = step /\ Turns'
  BY FrameHandled
<1>3. f = Command("data", SubSeq(Image, Sent(step - 2) + 1, Sent(step - 1)))
  BY <1>1, <1>2, Scripts
<1>4. f \in Frames /\ TypeOK
  BY BuffTyped DEF Handled, JInv, IInv
<1>5. Proc_ImageUpdate(f) /\ f.data = SubSeq(Image, Sent(k) + 1, Sent(k + 1))
  <2> DEFINE d == SubSeq(Image, Sent(k) + 1, Sent(k + 1))
  <2>1. f = Command("data", d)
    BY <1>k, <1>3, Zenon
  <2> HIDE DEF d
  <2>2. f.cmd = "data" /\ f.data = d
    BY <2>1 DEF Command
  <2>3. f.data = SubSeq(Image, Sent(k) + 1, Sent(k + 1))
    BY <2>2 DEF d
  <2> QED
    BY <2>2, <2>3 DEF ProtocolProcess, Proc_Inform, StartRefused, Proc_StartOTA, Proc_Confirm, Proc_Reset
<1>6. Told'
  <2>1. Open /\ state' = state
    BY <1>1, <1>2, <1>5 DEF JInv, SInv, Told, Proc_ImageUpdate
  <2> QED
    BY <1>1, <1>2, <2>1 DEF Told, Open
<1>7. ASSUME Fits PROVE Kept(Sent(k))' /\ (ntf = 1 => Ready(k + 1)')
  <2>1. Ready(k) /\ Open
    BY <1>k, <1>1, <1>2, <1>7 DEF JInv, SInv, Told, Stored
  <2> QED
    BY <1>1, <1>2, <1>4, <1>5, <1>7, <2>1, PacketStored
<1>8. rsp' # <<>> => ntf = 1
  BY <1>2, <1>5 DEF Proc_ImageUpdate, GATT_SendData
<1>9. ASSUME Fits PROVE Stored'
  <2>1. (step - 2)' = k /\ (step - 1)' = k + 1
    BY <1>k, <1>1, <1>2
  <2>2. Kept(Sent(step - 2))'
    BY <1>7, <1>9, <2>1
  <2>3. rsp' # <<>> => Ready(step - 1)'
    BY <1>7, <1>8, <1>9, <2>1
  <2> QED
    BY <1>1, <1>2, <2>2, <2>3 DEF Stored
<1> QED
  BY <1>2, <1>6, <1>9 DEF SInv

\* The confirm command is handled: who is told of no error can rely on the flash,
\* for the CRC was taken over the pages as they are written.
LEMMA ConfirmInTurn ==
  ASSUME JInv, Handled, ProtocolProcess(buff[1]), Unmoved, wait = "reply", step = ConfirmStep
  PROVE  SInv'
<1> DEFINE f == buff[1]
           L == Len(Image)
<1>1. /\ ConfirmStep \in Nat /\ 1 < ConfirmStep /\ ResetStep = ConfirmStep + 1
      /\ step - 2 = Packets /\ Packets \in Nat /\ L \in Nat
      /\ PAGE \in Nat \ {0} /\ IMAGE_SIZE \in Nat /\ Sent(Packets) = L
  BY Lengths, SentAll, SizesAssumption
<1>2. /\ f = Command("confirm", Image) /\ evts = 1 /\ rsp = <<>> /\ evts' = 0 /\ ntf' = ntf
      /\ wait' = "reply" /\ step' = step /\ Turns'
  BY FrameHandled, Scripts
<1>3. Proc_Confirm(f) /\ f.data = Image
  <2>1. f.cmd = "confirm" /\ f.data = Image
    BY <1>2 DEF Command
  <2> QED
    BY <2>1 DEF ProtocolProcess, Proc_Inform, StartRefused, Proc_StartOTA, Proc_Reset, Proc_ImageUpdate
<1>4. flash' = ConfirmFlash(IMAGE_SIZE) /\ fpData' = fpData
  BY <1>3 DEF Proc_Confirm
<1>5. ASSUME rsp' # <<>>, rsp'[1].err = 0 PROVE CrcOk(Image) /\ state = 1
  <2> DEFINE e == IF CrcOk(Image) THEN 0 ELSE 1
             r == [cmd |-> "confirm", err |-> e]
  <2>1. rsp' = IF ntf = 1 THEN Append(<<>>, r) ELSE <<>>
    BY <1>2, <1>3 DEF Proc_Confirm, GATT_SendData
  <2>2. r.err = e
    OBVIOUS
  <2> HIDE DEF r
  <2>3. Append(<<>>, r)[1] = r
    OBVIOUS
  <2>4. ntf = 1 /\ e = 0
    BY <1>5, <2>1, <2>2, <2>3
  <2>5. Open
    BY <1>1, <1>2 DEF JInv, SInv, Told
  <2> QED
    BY <2>4, <2>5 DEF Open
<1>6. ASSUME CrcOk(Image), state = 1 PROVE Whole'
  <2> SUFFICES ASSUME NEW i \in 1 .. L PROVE flash'[i - 1] = Image[i]
    BY DEF Whole
  <2>1. L <= IMAGE_SIZE /\ Image[i] = IF i <= PAGE THEN fpData[i - 1] ELSE flash[i - 1]
    BY <1>6 DEF CrcOk
  <2>2. i - 1 \in Units /\ i - 1 < IMAGE_SIZE /\ (i - 1 >= PAGE <=> ~(i <= PAGE))
    BY <1>1, <2>1 DEF Units
  <2>3. flash'[i - 1] = IF i - 1 >= PAGE THEN flash[i - 1] ELSE fpData[i - 1]
    BY <1>4, <1>6, <2>2 DEF ConfirmFlash
  <2> QED
    BY <2>1, <2>2, <2>3
<1>7. Told'
  BY <1>1, <1>2, <1>5, <1>6 DEF Told
<1>8. ASSUME Fits PROVE Stored'
  <2>1. Kept(L) /\ L <= IMAGE_SIZE
    <3>1. Ready(Packets)
      BY <1>1, <1>2, <1>8 DEF JInv, SInv, Stored
    <3> QED
      BY <1>1, <1>8, <3>1, SizesAssumption DEF Ready, Fits
  <2>2. ASSUME NEW i \in 1 .. L, PAGE < i PROVE flash'[i - 1] = Image[i]
    <3>1. i - 1 \in Units /\ i - 1 >= PAGE
      BY <1>1, <2>1, <2>2 DEF Units
    <3>2. flash'[i - 1] = flash[i - 1]
      BY <1>4, <3>1 DEF ConfirmFlash
    <3> QED
      BY <1>1, <2>1, <2>2, <3>2 DEF Kept
  <2>3. Kept(L)'
    BY <1>1, <1>4, <2>1, <2>2 DEF Kept
  <2>4. (step - 2)' = Packets /\ Sent(Packets) = L
    BY <1>1, <1>2
  <2>5. Kept(Sent(step - 2))'
    BY <2>3, <2>4
  <2> QED
    BY <1>1, <1>2, <2>5 DEF Stored
<1> QED
  BY <1>2, <1>7, <1>8 DEF SInv

\* The task handles an event, whosever turn it is.
LEMMA TaskInTurn ==
  ASSUME JInv, DeviceStep, APP_TC_OTA_Task
  PROVE  SInv'
<1>1. CASE ConfirmFault(buff[1])
  <2>1. Stop(flash)
    BY <1>1 DEF ConfirmFault
  <2>2. wait' = "link" /\ step' = IF step > ResetStep THEN step ELSE 1
    BY <2>1 DEF DeviceStep, Stop
  <2> QED
    BY <2>1, <2>2, StopIsSafe
<1>2. CASE evts' = evts - 1 /\ ProtocolProcess(buff[1]) /\ UNCHANGED <<up, buff, ntf>>
  <2>1. Handled
    BY <1>2 DEF Handled, APP_TC_OTA_Task
  <2>2. Unmoved
    BY <1>2 DEF DeviceStep, Unmoved
  <2>3. CASE wait # "reply"
    BY <1>2, <2>1, <2>2, <2>3, LateFrame
  <2>4. CASE wait = "reply"
    <3>1. step \in 1 .. ConfirmStep /\ ConfirmStep \in Nat
      BY <1>2, <2>1, <2>2, <2>4, FrameHandled, Lengths
    <3>2. CASE step = 1
      BY <1>2, <2>1, <2>2, <2>4, <3>2, StartInTurn
    <3>3. CASE step = ConfirmStep
      BY <1>2, <2>1, <2>2, <2>4, <3>3, ConfirmInTurn
    <3>4. CASE 1 < step /\ step < ConfirmStep
      BY <1>2, <2>1, <2>2, <2>4, <3>4, PacketInTurn
    <3> QED
      BY <3>1, <3>2, <3>3, <3>4
  <2> QED
    BY <2>3, <2>4
<1> QED
  BY <1>1, <1>2 DEF APP_TC_OTA_Task

\* The other steps of the device: nothing is running, or nothing goes on.
LEMMA DeviceInTurn ==
  ASSUME JInv, DeviceStep
  PROVE  SInv'
<1>1. CASE APP_TC_OTA_Init
  <2>1. UNCHANGED <<buff, evts, ntf, state, size, offset, fpLen, fpData, flash, rsp, step, wait>> /\ up' = "on"
    BY <1>1 DEF DeviceStep, APP_TC_OTA_Init, link, update
  <2>2. Turns'
    BY <2>1 DEF JInv, SInv, Turns
  <2>3. Told' /\ (Fits => Stored')
    BY <2>1 DEF JInv, SInv, Told, Open, Stored, Ready, Kept, Whole
  <2> QED
    BY <2>2, <2>3 DEF SInv
<1>2. CASE APP_TC_OTA_Task
  BY <1>2, TaskInTurn
<1>3. CASE Reboot_timer_handler
  <2>1. Stop(flash)
    BY <1>3 DEF Reboot_timer_handler
  <2>2. wait' = "link" /\ step' = IF step > ResetStep THEN step ELSE 1
    BY <2>1 DEF DeviceStep, Stop
  <2> QED
    BY <2>1, <2>2, StopIsSafe
<1> QED
  BY <1>1, <1>2, <1>3 DEF DeviceStep, Device

-----------------------------------------------------------------------------
(* The client's steps, and those of the links and of the supply.             *)

UpdateKept == UNCHANGED <<state, size, offset, fpLen, fpData, flash>>

LEMMA StoredKept ==
  ASSUME UpdateKept
  PROVE  /\ Whole' <=> Whole
         /\ \A k \in Nat : Ready(k) => Ready(k)'
         /\ \A n \in Nat : Kept(n) => Kept(n)'
BY DEF UpdateKept, Ready, Kept, Whole

LEMMA ConnectInTurn == ASSUME JInv, Connect PROVE SInv'
<1>1. /\ wait = "link" /\ evts = 0 /\ rsp = <<>> /\ step \in {1, ResetStep + 1}
      /\ wait' = "none" /\ step' = step /\ evts' = 0 /\ rsp' = <<>> /\ up = "on" /\ up' = up
      /\ UpdateKept
  BY DEF JInv, SInv, Turns, Connect, GattConfig, update, UpdateKept
<1>2. ConfirmStep \in Nat /\ 1 < ConfirmStep /\ ResetStep = ConfirmStep + 1
  BY Lengths
<1>3. Turns'
  BY <1>1, <1>2 DEF Turns
<1>4. step > ConfirmStep => Whole
  BY DEF JInv, SInv, Told
<1>5. Told' /\ Stored'
  BY <1>1, <1>2, <1>4, StoredKept DEF Told, Stored
<1> QED
  BY <1>3, <1>5 DEF SInv

LEMMA SendInTurn == ASSUME JInv, Send PROVE SInv'
<1>1. ConfirmStep \in Nat /\ 1 < ConfirmStep /\ ResetStep = ConfirmStep + 1
  BY Lengths
<1>2. /\ wait = "none" /\ step \in 1 .. ResetStep /\ evts = 0 /\ rsp = <<>>
      /\ buff' = <<Script(step)>> /\ evts' = 1 /\ rsp' = <<>> /\ up = "on" /\ up' = up
      /\ ntf' = ntf /\ UpdateKept
  BY <1>1 DEF JInv, SInv, Turns, Send, GattWrite, update, UpdateKept
<1>3. CASE step = ResetStep
  <2>1. step' = ResetStep + 1 /\ wait' = "none"
    BY <1>3 DEF Send
  <2>2. Turns'
    BY <1>1, <1>2, <1>3, <2>1 DEF Turns
  <2>3. Whole
    BY <1>1, <1>3 DEF JInv, SInv, Told
  <2>4. Told' /\ Stored'
    BY <1>1, <1>2, <2>1, <2>3, StoredKept DEF Told, Stored
  <2> QED
    BY <2>2, <2>4 DEF SInv
<1>4. CASE step # ResetStep
  <2>1. step' = step /\ wait' = "reply" /\ step \in 1 .. ConfirmStep
    BY <1>1, <1>2, <1>4 DEF Send
  <2>2. Turns'
    BY <1>1, <1>2, <2>1 DEF Turns
  <2>3. Told'
    <3>1. step \in 2 .. ConfirmStep => Open'
      BY <1>2 DEF JInv, SInv, Told, UpdateKept, Open
    <3> QED
      BY <1>1, <1>2, <2>1, <3>1 DEF Told
  <2>4. ASSUME Fits, step \in 2 .. ConfirmStep
        PROVE  Ready(step - 2)' /\ Kept(Sent(step - 2))'
    <3>1. Ready(step - 2) /\ step - 2 \in Nat
      BY <1>1, <1>2, <2>4 DEF JInv, SInv, Stored
    <3>2. Ready(step - 2)'
      BY <1>2, <2>1, <3>1 DEF UpdateKept, Ready, Kept
    <3> QED
      BY <3>2 DEF Ready
  <2>5. Fits => Stored'
    BY <1>1, <1>2, <2>1, <2>4 DEF Stored
  <2> QED
    BY <2>2, <2>3, <2>5 DEF SInv
<1> QED
  BY <1>3, <1>4

\* The client takes the one reply there is.
LEMMA Received ==
  ASSUME JInv, Receive
  PROVE  /\ wait = "reply" /\ step \in 1 .. ConfirmStep /\ evts = 0 /\ rsp # <<>> /\ rsp' = <<>>
         /\ wait' = "none" /\ evts' = 0 /\ up = "on" /\ up' = up /\ ntf' = ntf /\ UpdateKept
         /\ reboot' = reboot /\ step' = IF rsp[1].err = 0 THEN step + 1 ELSE 1
<1>1. ConfirmStep \in Nat /\ 1 < ConfirmStep /\ ResetStep = ConfirmStep + 1
  BY Lengths
<1>2. /\ wait = "reply" /\ step \in 1 .. ConfirmStep /\ evts = 0 /\ rsp # <<>> /\ Len(rsp) <= 1
      /\ wait' = "none" /\ evts' = 0 /\ up = "on" /\ up' = up /\ ntf' = ntf /\ UpdateKept
      /\ reboot' = reboot
  BY <1>1 DEF JInv, IInv, TypeOK, SInv, Turns, Receive, Deliver, update, link, UpdateKept
<1>3. rsp' = <<>>
  <2>1. rsp \in Seq([cmd : Cmd, err : 0 .. 3]) /\ rsp' = Tail(rsp)
    BY DEF Receive, Deliver, JInv, IInv, TypeOK
  <2> DEFINE R == [cmd : Cmd, err : 0 .. 3]
  <2> HIDE DEF R
  <2>2. rsp \in Seq(R) /\ rsp # <<>> /\ Len(rsp) <= 1
    BY <1>2, <2>1 DEF R
  <2>3. Tail(rsp) \in Seq(R) /\ Len(Tail(rsp)) = Len(rsp) - 1 /\ Len(rsp) \in Nat /\ Len(rsp) # 0
    BY <2>2, HeadTailProperties, EmptySeq
  <2>4. Len(Tail(rsp)) = 0
    BY <2>2, <2>3
  <2> QED
    BY <2>1, <2>3, <2>4, EmptySeq
<1>4. Head(rsp).err = rsp[1].err
  OBVIOUS
<1> QED
  BY <1>2, <1>3, <1>4 DEF Receive

LEMMA ReceiveInTurn == ASSUME JInv, Receive PROVE SInv'
<1>1. ConfirmStep \in Nat /\ 1 < ConfirmStep /\ ResetStep = ConfirmStep + 1
  BY Lengths
<1>2. /\ wait = "reply" /\ step \in 1 .. ConfirmStep /\ evts = 0 /\ rsp # <<>> /\ rsp' = <<>>
      /\ wait' = "none" /\ evts' = 0 /\ up = "on" /\ up' = up /\ ntf' = ntf /\ UpdateKept
  BY Received
<1>4. Turns'
  BY <1>1, <1>2, Received DEF Turns
<1>5. CASE rsp[1].err # 0
  <2>1. step' = 1
    BY <1>5, Received
  <2>2. Told' /\ Stored'
    BY <1>1, <1>2, <2>1 DEF Told, Stored
  <2> QED
    BY <1>4, <2>2 DEF SInv
<1>6. CASE rsp[1].err = 0
  <2>1. step' = step + 1 /\ rsp[1].err = 0
    BY <1>6, Received
  <2>2. CASE step < ConfirmStep
    <3>1. step' \in 2 .. ConfirmStep /\ step' - 2 = step - 1
      BY <1>1, <1>2, <2>1, <2>2
    <3>2. Open'
      BY <1>1, <1>2, <2>2 DEF JInv, SInv, Told, Open, UpdateKept
    <3>3. Told'
      BY <1>1, <1>2, <3>1, <3>2 DEF Told
    <3>4. ASSUME Fits PROVE Stored'
      <4>1. Ready(step' - 2)
        BY <1>1, <1>2, <2>1, <2>2, <3>1, <3>4 DEF JInv, SInv, Stored
      <4>2. Ready(step - 2)'
        BY <1>2, <4>1 DEF UpdateKept, Ready, Kept
      <4> QED
        BY <1>1, <1>2, <3>1, <4>2 DEF Stored
    <3> QED
      BY <1>4, <3>3, <3>4 DEF SInv
  <2>3. CASE step = ConfirmStep
    <3>1. Whole /\ step' = ConfirmStep + 1
      BY <1>2, <2>1, <2>3 DEF JInv, SInv, Told
    <3>2. Told' /\ Stored'
      BY <1>1, <1>2, <3>1, StoredKept DEF Told, Stored
    <3> QED
      BY <1>4, <3>2 DEF SInv
  <2> QED
    BY <1>1, <1>2, <2>2, <2>3
<1> QED
  BY <1>5, <1>6

\* The client drops the link, or loses it.
LEMMA LostInTurn ==
  ASSUME JInv, Resume = "start", wait # "link", GapDisconnect(TRUE), wait' = "link", step' = Again
  PROVE  SInv'
<1>1. ntf' = 0 /\ rsp' = <<>> /\ flash' = flash /\ buff' = buff /\ evts' = evts
  BY DEF GapDisconnect
<1>2. step' = IF step > ResetStep THEN step ELSE 1
  BY DEF Again
<1>3. step \in 1 .. ResetStep + 1 /\ ResetStep \in Nat
  BY Lengths DEF JInv, SInv, Turns
<1>4. step = ResetStep + 1 /\ evts > 0 => buff = <<Script(ResetStep)>>
  BY DEF JInv, SInv, Turns
<1> QED
  BY <1>1, <1>2, <1>3, <1>4, Unlinked DEF JInv

\* Other links only close the gate and switch the notifications off.
LEMMA OthersPass ==
  ASSUME OtherLink
  PROVE  ntf' = 0 /\ UNCHANGED <<up, buff, evts, rsp, reboot, size, offset, fpLen, fpData, flash, step, wait>>
<1>1. CASE GattLinkCreate
  BY <1>1 DEF GattLinkCreate, OtherLink, update
<1>2. CASE GapDisconnect(FALSE)
  <2>1. UNCHANGED <<step, wait>>
    BY DEF OtherLink
  <2>2. ntf' = 0 /\ UNCHANGED <<up, buff, evts, rsp, reboot, size, offset, fpLen, fpData, flash>>
    BY <1>2, Zenon DEF GapDisconnect
  <2> QED
    BY <2>1, <2>2
<1>3. GattLinkCreate \/ GapDisconnect(FALSE)
  BY Zenon DEF OtherLink
<1> QED
  BY <1>1, <1>2, <1>3

LEMMA OtherInTurn == ASSUME JInv, OtherLink PROVE SInv'
<1>1. /\ ntf' = 0 /\ UNCHANGED <<up, buff, evts, rsp, size, offset, fpLen, fpData, flash, step, wait>>
  BY OthersPass
<1>2. Turns'
  BY <1>1 DEF JInv, SInv, Turns
<1>3. Told' /\ (Fits => Stored')
  BY <1>1 DEF JInv, SInv, Told, Open, Stored, Ready, Kept, Whole
<1> QED
  BY <1>2, <1>3 DEF SInv

LEMMA SessionKept ==
  ASSUME JInv, [SessionNext]_sessionVars, Resume = "start"
  PROVE  SInv'
<1>1. CASE DeviceStep
  BY <1>1, DeviceInTurn
<1>2. CASE Connect \/ Send \/ Receive
  BY <1>2, ConnectInTurn, SendInTurn, ReceiveInTurn
<1>3. CASE Timeout
  BY <1>3, LostInTurn DEF Timeout
<1>4. CASE LinkLost
  BY <1>4, LostInTurn DEF LinkLost
<1>5. CASE OtherLink
  BY <1>5, OtherInTurn
<1>6. CASE PowerLost
  BY <1>6, CutIsSafe DEF PowerLost
<1>7. CASE UNCHANGED sessionVars
  <2>1. UNCHANGED <<up, buff, evts, ntf, state, size, offset, fpLen, fpData, flash, rsp, step, wait>>
    BY <1>7 DEF sessionVars, vars, client, link, update
  <2> QED
    BY <2>1 DEF JInv, SInv, Turns, Told, Open, Stored, Ready, Kept, Whole
<1> QED
  BY <1>1, <1>2, <1>3, <1>4, <1>5, <1>6, <1>7 DEF SessionNext, ClientStep

LEMMA SessionStart == SessionInit => JInv
<1> SUFFICES ASSUME SessionInit PROVE JInv
  OBVIOUS
<1>1. IInv /\ StepOK
  BY InitIInv DEF SessionInit, StepOK
<1>2. /\ step = 1 /\ wait = "link" /\ ntf = 0 /\ rsp = <<>> /\ up = "off"
      /\ ConfirmStep \in Nat /\ 1 < ConfirmStep /\ ResetStep = ConfirmStep + 1
  BY Lengths DEF SessionInit, Init, Cleared
<1>3. SInv
  BY <1>2 DEF SInv, Turns, Told, Stored
<1> QED
  BY <1>1, <1>3 DEF JInv

LEMMA SessionNextKept ==
  ASSUME Resume = "start"
  PROVE  JInv /\ [SessionNext]_sessionVars => JInv'
BY SessionKept, StepOfTcOta, StepKept, NextStep DEF JInv

\* A client that starts its update again after a lost link, with an image
\* OTA_Image_Update takes: all it got an acknowledgement for is held by the
\* device at its place, whatever frames, links and supply do.
THEOREM AckedIsHeldHolds ==
  ASSUME Resume = "start", Len(Image) <= UPDATE_MAX
  PROVE  SessionSpec => []AckedIsHeld
<1>1. SessionInit => JInv
  BY SessionStart
<1>2. JInv /\ [SessionNext]_sessionVars => JInv'
  BY SessionNextKept
<1>3. JInv => AckedIsHeld
  <2> SUFFICES ASSUME JInv, wait # "link", step > 2, NEW i \in 1 .. Sent(step - 2)
               PROVE  Held(i) = Image[i]
    BY DEF AckedIsHeld
  <2>1. /\ ConfirmStep \in Nat /\ 1 < ConfirmStep /\ ResetStep = ConfirmStep + 1
        /\ step \in 1 .. ResetStep + 1 /\ wait \in {"none", "reply"} /\ Len(Image) \in Nat
    BY Lengths DEF JInv, SInv, Turns
  <2>2. CASE step <= ConfirmStep
    <3>1. Kept(Sent(step - 2))
      BY <2>1, <2>2 DEF JInv, SInv, Fits, Stored, Ready
    <3> QED
      BY <2>2, <3>1 DEF Kept, Held
  <2>3. CASE step > ConfirmStep
    <3>1. Whole
      BY <2>3 DEF JInv, SInv, Told
    <3>2. step - 2 \in Nat
      BY <2>1
    <3>3. i \in 1 .. Len(Image)
      BY <2>1, <3>2, SentBounds
    <3> QED
      BY <2>1, <2>3, <3>1, <3>3 DEF Whole, Held
  <2> QED
    BY <2>1, <2>2, <2>3
<1> QED
  BY <1>1, <1>2, <1>3, PTL DEF SessionSpec

\* A client that starts again, once told that its image is confirmed, finds it in
\* the partition whatever comes after.  This needs nothing of the image: one that
\* OTA_Image_Update throws away, that does not fit, or that is too short for the
\* arithmetic of crc_cal is never confirmed by mistake.
THEOREM DoneIsWholeHolds ==
  ASSUME Resume = "start"
  PROVE  SessionSpec => []DoneIsWhole
<1>1. SessionInit => JInv
  BY SessionStart
<1>2. JInv /\ [SessionNext]_sessionVars => JInv'
  BY SessionNextKept
<1>3. JInv => DoneIsWhole
  BY DEF JInv, SInv, Told, Whole, DoneIsWhole
<1> QED
  BY <1>1, <1>2, <1>3, PTL DEF SessionSpec

-----------------------------------------------------------------------------
(* The session implements ImageTransfer.  What the client has an             *)
(* acknowledgement for grows packet by packet, and all of it is held.        *)

Acked == Sent(IF step = 1 THEN 0 ELSE step - 2)
PartsHeld == {i \in 0 .. Acked - 1 : Held(i + 1) = Image[i + 1]} = 0 .. Acked - 1

LEMMA AckedPartsHeld ==
  ASSUME Fits
  PROVE  JInv => Acked \in 0 .. Len(Image) /\ PartsHeld
<1> SUFFICES ASSUME JInv PROVE Acked \in 0 .. Len(Image) /\ PartsHeld
  OBVIOUS
<1>1. /\ ConfirmStep \in Nat /\ 1 < ConfirmStep /\ ResetStep = ConfirmStep + 1
      /\ step \in 1 .. ResetStep + 1 /\ Len(Image) \in Nat
  BY Lengths DEF JInv, SInv, Turns
<1>2. CASE step <= 2
  <2>1. Acked = 0
    BY <1>1, <1>2, SentNone DEF Acked
  <2> QED
    BY <1>1, <2>1 DEF PartsHeld
<1>3. CASE step > 2
  <2>1. PICK k \in Nat : k = step - 2 /\ Acked = Sent(k)
    BY <1>1, <1>3 DEF Acked
  <2>2. Acked \in 0 .. Len(Image)
    BY <2>1, SentBounds
  <2>3. ASSUME NEW i \in 0 .. Acked - 1 PROVE Held(i + 1) = Image[i + 1]
    <3>1. i + 1 \in 1 .. Acked /\ i + 1 \in 1 .. Len(Image)
      BY <1>1, <2>2
    <3>2. CASE step <= ConfirmStep
      <4>1. wait \in {"none", "reply"}
        BY <1>1, <1>3, <3>2 DEF JInv, SInv, Turns
      <4>2. Kept(Sent(step - 2))
        BY <1>1, <1>3, <3>2, <4>1 DEF JInv, SInv, Stored, Ready
      <4>3. Kept(Acked)
        BY <2>1, <4>2
      <4> QED
        BY <3>1, <3>2, <4>3 DEF Kept, Held
    <3>3. CASE step > ConfirmStep
      <4>1. Whole
        BY <3>3 DEF JInv, SInv, Told
      <4> QED
        BY <1>1, <3>1, <3>3, <4>1 DEF Whole, Held
    <3> QED
      BY <1>1, <3>2, <3>3
  <2> QED
    BY <2>2, <2>3 DEF PartsHeld
<1> QED
  BY <1>1, <1>2, <1>3

\* The client goes to its next frame, or begins anew.
LEMMA NextFrame ==
  ASSUME [SessionNext]_sessionVars, Resume = "start"
  PROVE  step' \in {1, step, step + 1}
<1>1. CASE DeviceStep
  BY <1>1 DEF DeviceStep
<1>2. CASE ClientStep
  <2>1. CASE Connect \/ Send
    BY <2>1 DEF Connect, Send
  <2>2. CASE Receive
    BY <2>2 DEF Receive
  <2>3. CASE Timeout
    BY <2>3 DEF Timeout, Again
  <2> QED
    BY <1>2, <2>1, <2>2, <2>3 DEF ClientStep
<1>3. CASE LinkLost
  BY <1>3 DEF LinkLost, Again
<1>4. CASE OtherLink
  BY <1>4, Zenon DEF OtherLink
<1>5. CASE PowerLost
  BY <1>5 DEF PowerLost
<1>6. CASE UNCHANGED sessionVars
  BY <1>6 DEF sessionVars, client
<1> QED
  BY <1>1, <1>2, <1>3, <1>4, <1>5, <1>6 DEF SessionNext

\* Each of these is a step of the image transfer, or none.
LEMMA SessionTransfers ==
  ASSUME JInv, JInv', PartsHeld, PartsHeld', [SessionNext]_sessionVars, Resume = "start"
  PROVE  [IT!Next]_(IT!transfer)
<1> DEFINE stage(s) == IF s = 1 THEN "none" ELSE IF s <= ConfirmStep THEN "receiving" ELSE "whole"
           total(s) == IF s = 1 THEN 0 ELSE Len(Image)
           acked(s) == Sent(IF s = 1 THEN 0 ELSE s - 2)
           parts == {i \in 0 .. acked(step) - 1 : Held(i + 1) = Image[i + 1]}
<1>1. /\ ConfirmStep \in Nat /\ 1 < ConfirmStep /\ ResetStep = ConfirmStep + 1
      /\ ConfirmStep = Packets + 2 /\ Packets \in Nat
      /\ step \in 1 .. ResetStep + 1 /\ step' \in 1 .. ResetStep + 1 /\ Len(Image) \in Nat
  BY Lengths DEF JInv, SInv, Turns
<1>2. parts = 0 .. acked(step) - 1 /\ parts' = 0 .. acked(step') - 1
  BY DEF PartsHeld, Acked
<1>3. acked(1) = 0 /\ acked(2) = 0
  BY SentNone
<1>4. CASE step' = step
  BY <1>2, <1>4 DEF IT!transfer
<1>5. CASE step' = 1 /\ step # 1
  <2>1. parts' = {}
    BY <1>2, <1>3, <1>5
  <2>2. IT!Drop
    BY <1>5, <2>1 DEF IT!Drop, IT!Nothing
  <2> QED
    BY <2>2 DEF IT!Next
<1>6. CASE step = 1 /\ step' = 2
  <2>1. parts' = {}
    BY <1>2, <1>3, <1>6
  <2>2. IT!Begin
    BY <1>1, <1>6, <2>1 DEF IT!Begin
  <2> QED
    BY <2>2 DEF IT!Next
<1>7. CASE step # 1 /\ step' = step + 1
  <2>1. PICK k \in Nat : step = k + 2 /\ step' = (k + 1) + 2
    <3>1. step - 2 \in Nat /\ step = (step - 2) + 2
      BY <1>1, <1>7
    <3> QED
      BY <1>1, <1>7, <3>1
  <2>2. acked(step) = Sent(k) /\ acked(step') = Sent(k + 1)
    BY <2>1
  <2>3. Sent(k) \in 0 .. Len(Image) /\ Sent(k + 1) \in 0 .. Len(Image) /\ Sent(k) <= Sent(k + 1)
    BY SentBounds
  <2>4. parts = 0 .. Sent(k) - 1 /\ parts' = 0 .. Sent(k + 1) - 1 /\ parts \subseteq parts'
    BY <1>1, <1>2, <2>2, <2>3
  <2>5. CASE step < ConfirmStep
    <3>1. IT!Take(Sent(k + 1))
      BY <1>1, <1>7, <2>4, <2>5 DEF IT!Take
    <3>2. Sent(k + 1) \in 0 .. total(step)
      BY <1>7, <2>3
    <3> QED
      BY <3>1, <3>2 DEF IT!Next
  <2>6. CASE step = ConfirmStep
    <3>1. Sent(k + 1) = Len(Image)
      BY <1>1, <2>1, <2>6, SentAll
    <3>2. IT!Complete
      BY <1>1, <1>7, <2>4, <2>6, <3>1 DEF IT!Complete
    <3> QED
      BY <3>2 DEF IT!Next
  <2>7. CASE step > ConfirmStep
    <3>1. Sent(k) = Len(Image) /\ Sent(k + 1) = Len(Image)
      BY <1>1, <2>1, <2>7, SentAll
    <3>2. parts' = parts
      BY <2>4, <3>1
    <3> QED
      BY <1>1, <1>7, <2>7, <3>2 DEF IT!transfer
  <2> QED
    BY <1>1, <2>5, <2>6, <2>7
<1> QED
  BY <1>1, <1>4, <1>5, <1>6, <1>7, NextFrame

\* The same client sees its image taken in whole or not at all: what it has an
\* acknowledgement for is never lost packet by packet, only dropped as a whole,
\* and the image counts as confirmed only with every unit of it in flash.
THEOREM SessionImplementsTransfer ==
  ASSUME Resume = "start", Len(Image) <= UPDATE_MAX
  PROVE  SessionSpec => ImplementsTransfer
<1>1. SessionInit => JInv
  BY SessionStart
<1>2. JInv /\ [SessionNext]_sessionVars => JInv'
  BY SessionNextKept
<1>3. SessionInit /\ PartsHeld => IT!Init
  <2> SUFFICES ASSUME SessionInit, PartsHeld PROVE IT!Init
    OBVIOUS
  <2>1. step = 1 /\ Acked = 0
    BY SentNone DEF SessionInit, Acked
  <2> QED
    BY <2>1, SentNone DEF IT!Init, IT!Nothing
<1>4. JInv /\ JInv' /\ PartsHeld /\ PartsHeld' /\ [SessionNext]_sessionVars
        => [IT!Next]_(IT!transfer)
  BY SessionTransfers
<1>5. JInv => PartsHeld
  BY AckedPartsHeld DEF Fits
<1> QED
  BY <1>1, <1>2, <1>3, <1>4, <1>5, PTL DEF SessionSpec, ImplementsTransfer, IT!Spec

-----------------------------------------------------------------------------
(* The safety half of SessionEnds: what each step is worth.  The client's    *)
(* commands are good, so that the device answers each of them without an     *)
(* error while its notifications are on.                                     *)

OnCourse ==
  /\ step <= ResetStep => reboot = 0
  /\ step <= ResetStep /\ evts > 0 =>
       buff[1].cmd # "reset" /\ (buff[1].cmd = "confirm" => size = Len(Image))
  /\ wait = "reply" => /\ ntf = 1 => evts > 0 \/ rsp # <<>>
                       /\ rsp # <<>> => rsp[1].err = 0

\* A loss of power or a fall leaves nothing queued.
LEMMA StopOnCourse ==
  ASSUME NEW f, Stop(f), wait' = "link"
  PROVE  OnCourse'
BY DEF Stop, Cleared, OnCourse

\* A loss of a link leaves what is queued, and the client gone.
LEMMA LinkOnCourse ==
  ASSUME JInv, OnCourse, wait' = "link", UNCHANGED <<buff, evts, size, reboot>>,
         step <= ResetStep \/ step' = step
  PROVE  OnCourse'
BY DEF OnCourse

\* The replies to the script: no error, and none withheld.
LEMMA GoodReply ==
  ASSUME rsp = <<>>, NEW c, GATT_SendData(c, 0)
  PROVE  /\ ntf = 1 => rsp' # <<>>
         /\ rsp' # <<>> => rsp'[1].err = 0
<1> DEFINE r == [cmd |-> c, err |-> 0]
<1>1. rsp' = IF ntf = 1 THEN Append(<<>>, r) ELSE <<>>
  BY DEF GATT_SendData
<1>2. r.err = 0
  OBVIOUS
<1> HIDE DEF r
<1>3. Append(<<>>, r) # <<>> /\ Append(<<>>, r)[1] = r
  OBVIOUS
<1> QED
  BY <1>1, <1>2, <1>3

\* The image confirmed in its turn passes the CRC if a reply can tell.
LEMMA FrameAnswered ==
  ASSUME JInv, Handled, ProtocolProcess(buff[1]), Unmoved, wait = "reply", Fits
  PROVE  \E c : rsp = <<>> /\ (ntf = 1 => GATT_SendData(c, 0))
<1> DEFINE f == buff[1]
<1>1. /\ ConfirmStep \in Nat /\ 1 < ConfirmStep /\ ResetStep = ConfirmStep + 1
      /\ ConfirmStep - 2 = Packets /\ Packets \in Nat /\ Len(Image) \in Nat
      /\ Len(Image) <= IMAGE_SIZE /\ Sent(Packets) = Len(Image)
  BY Lengths, SentAll, SizesAssumption DEF Fits
<1>2. rsp = <<>> /\ evts = 1 /\ f = Script(step) /\ step \in 1 .. ConfirmStep
  BY FrameHandled
<1>3. CASE step = 1
  <2>1. f = Command("start", <<>>)
    BY <1>2, <1>3, Scripts
  <2>2. f.cmd = "start" /\ f.flag /\ f.size = Len(Image)
    BY <2>1 DEF Command
  <2>3. GATT_SendData("start", 0)
    BY <1>1, <2>2, SizesAssumption
    DEF ProtocolProcess, Proc_Inform, StartRefused, Proc_StartOTA, Proc_Confirm, Proc_Reset, Proc_ImageUpdate
  <2> QED
    BY <1>2, <2>3
<1>4. CASE step \in 2 .. ConfirmStep - 1
  <2> DEFINE d == SubSeq(Image, Sent(step - 2) + 1, Sent(step - 1))
  <2>1. f = Command("data", d)
    BY <1>2, <1>4, Scripts
  <2> HIDE DEF d
  <2>2. f.cmd = "data"
    BY <2>1 DEF Command
  <2>3. GATT_SendData("data", 0)
    BY <2>2
    DEF ProtocolProcess, Proc_Inform, StartRefused, Proc_StartOTA, Proc_Confirm, Proc_Reset, Proc_ImageUpdate
  <2> QED
    BY <1>2, <2>3
<1>5. CASE step = ConfirmStep
  <2>1. f = Command("confirm", Image)
    BY <1>2, <1>5, Scripts
  <2>2. f.cmd = "confirm" /\ f.data = Image
    BY <2>1 DEF Command
  <2>3. Proc_Confirm(f)
    BY <2>2 DEF ProtocolProcess, Proc_Inform, StartRefused, Proc_StartOTA, Proc_Reset, Proc_ImageUpdate
  <2>4. Ready(Packets)
    BY <1>1, <1>2, <1>5 DEF JInv, SInv, Stored
  <2>5. CrcOk(Image)
    BY <1>1, <2>4 DEF Ready, Kept, CrcOk
  <2>6. GATT_SendData("confirm", 0)
    BY <2>2, <2>3, <2>5 DEF Proc_Confirm
  <2> QED
    BY <1>2, <2>6
<1> QED
  BY <1>1, <1>2, <1>3, <1>4, <1>5

\* The task handles an event of the client, or what a client has left behind.
LEMMA TaskOnCourse ==
  ASSUME JInv, OnCourse, Handled, ProtocolProcess(buff[1]), Unmoved, Fits
  PROVE  OnCourse'
<1>1. evts \in Nat /\ evts > 0 /\ evts' = evts - 1 /\ buff' = buff /\ step' = step
      /\ wait' = wait /\ ntf' = ntf
  BY DEF Handled, Unmoved, JInv, IInv, TypeOK
<1>2. step <= ResetStep => reboot' = 0
  BY <1>1
  DEF OnCourse, ProtocolProcess, Proc_Inform, StartRefused, Proc_StartOTA, Proc_Confirm, Proc_Reset, Proc_ImageUpdate
<1>3. buff[1].cmd = "confirm" => size' = size
  BY DEF ProtocolProcess, Proc_Inform, StartRefused, Proc_StartOTA, Proc_Confirm, Proc_Reset,
         Proc_ImageUpdate, update
<1>4. ASSUME wait = "reply"
      PROVE  (ntf = 1 => rsp' # <<>>) /\ (rsp' # <<>> => rsp'[1].err = 0)
  <2>1. CASE ntf = 1
    BY <1>4, <2>1, FrameAnswered, GoodReply
  <2>2. CASE ntf # 1
    <3>1. ntf = 0
      BY <2>2 DEF JInv, IInv, TypeOK
    <3>2. rsp' = <<>>
      BY <1>4, <3>1, FrameAnswered, NoReply
    <3> QED
      BY <2>2, <3>2
  <2> QED
    BY <2>1, <2>2
<1> QED
  BY <1>1, <1>2, <1>3, <1>4 DEF OnCourse

LEMMA DeviceOnCourse ==
  ASSUME JInv, OnCourse, DeviceStep, Fits
  PROVE  OnCourse'
<1>1. CASE APP_TC_OTA_Init
  <2>1. UNCHANGED <<buff, evts, ntf, size, rsp, reboot, step, wait>>
    BY <1>1 DEF DeviceStep, APP_TC_OTA_Init, link, update
  <2> QED
    BY <2>1 DEF OnCourse
<1>2. CASE APP_TC_OTA_Task
  <2>1. CASE ConfirmFault(buff[1])
    <3>1. Stop(flash)
      BY <2>1 DEF ConfirmFault
    <3>2. wait' = "link"
      BY <3>1 DEF DeviceStep, Stop
    <3> QED
      BY <3>1, <3>2, StopOnCourse
  <2>2. CASE evts' = evts - 1 /\ ProtocolProcess(buff[1]) /\ UNCHANGED <<up, buff, ntf>>
    <3>1. Handled
      BY <1>2, <2>2 DEF Handled, APP_TC_OTA_Task
    <3>2. Unmoved
      BY <2>2 DEF DeviceStep, Unmoved
    <3> QED
      BY <2>2, <3>1, <3>2, TaskOnCourse
  <2> QED
    BY <1>2, <2>1, <2>2 DEF APP_TC_OTA_Task
<1>3. CASE Reboot_timer_handler
  <2>1. Stop(flash)
    BY <1>3 DEF Reboot_timer_handler
  <2>2. wait' = "link"
    BY <2>1 DEF DeviceStep, Stop
  <2> QED
    BY <2>1, <2>2, StopOnCourse
<1> QED
  BY <1>1, <1>2, <1>3 DEF DeviceStep, Device

\* What the client sends is what its script has.
LEMMA SendOnCourse ==
  ASSUME JInv, OnCourse, Send, Fits
  PROVE  OnCourse'
<1>1. ConfirmStep \in Nat /\ 1 < ConfirmStep /\ ResetStep = ConfirmStep + 1
  BY Lengths
<1>2. /\ wait = "none" /\ step \in 1 .. ResetStep /\ evts = 0 /\ rsp = <<>>
      /\ buff' = <<Script(step)>> /\ evts' = 1 /\ rsp' = <<>> /\ UpdateKept /\ reboot' = reboot
      /\ IF step = ResetStep THEN step' = ResetStep + 1 /\ wait' = "none" ELSE step' = step
  BY <1>1 DEF JInv, SInv, Turns, Send, GattWrite, update, UpdateKept
<1>3. ASSUME step \in 1 .. ConfirmStep
      PROVE  Script(step).cmd # "reset" /\ (Script(step).cmd = "confirm" => size = Len(Image))
  <2>1. CASE step = 1
    BY <2>1, Scripts DEF Command
  <2>2. CASE step \in 2 .. ConfirmStep - 1
    BY <2>2, Scripts DEF Command
  <2>3. CASE step = ConfirmStep
    <3>1. Ready(step - 2)
      BY <1>1, <1>2, <2>3 DEF JInv, SInv, Stored
    <3> QED
      BY <2>3, <3>1, Scripts DEF Command, Ready
  <2> QED
    BY <1>1, <1>3, <2>1, <2>2, <2>3
<1>4. buff'[1] = Script(step) /\ size' = size
  BY <1>2 DEF UpdateKept
<1> QED
  BY <1>1, <1>2, <1>3, <1>4 DEF OnCourse

LEMMA CourseKept ==
  ASSUME JInv, OnCourse, [SessionNext]_sessionVars, Resume = "start", Fits
  PROVE  OnCourse'
<1>1. CASE DeviceStep
  BY <1>1, DeviceOnCourse
<1>2. CASE Connect
  <2>1. wait' = "none" /\ UNCHANGED <<buff, evts, size, reboot, step>>
    BY <1>2 DEF Connect, GattConfig, update
  <2> QED
    BY <2>1 DEF OnCourse
<1>3. CASE Send
  BY <1>3, SendOnCourse
<1>4. CASE Receive
  <2>1. /\ wait' = "none" /\ reboot' = reboot /\ evts' = evts /\ evts = 0
        /\ step <= ConfirmStep /\ ResetStep = ConfirmStep + 1
    BY <1>4, Received, Lengths
  <2>2. reboot = 0
    BY <2>1, Lengths DEF OnCourse, JInv, StepOK
  <2> QED
    BY <2>1, <2>2 DEF OnCourse
<1>5. CASE Timeout \/ LinkLost
  <2>1. wait' = "link" /\ UNCHANGED <<buff, evts, size, reboot>> /\ step' = Again
    BY <1>5 DEF Timeout, LinkLost, GapDisconnect
  <2>2. step <= ResetStep \/ step' = step
    BY <2>1, Lengths DEF Again, JInv, StepOK
  <2> QED
    BY <2>1, <2>2, LinkOnCourse
<1>6. CASE OtherLink
  <2>1. ntf' = 0 /\ UNCHANGED <<buff, evts, rsp, size, reboot, step, wait>>
    BY <1>6, OthersPass
  <2> QED
    BY <2>1 DEF OnCourse
<1>7. CASE PowerLost
  <2>1. wait' = "link" /\ \E f : Stop(f)
    BY <1>7, Zenon DEF PowerLost, PowerLoss, Cut
  <2> QED
    BY <2>1, StopOnCourse
<1>8. CASE UNCHANGED sessionVars
  BY <1>8 DEF sessionVars, vars, client, link, update, OnCourse
<1> QED
  BY <1>1, <1>2, <1>3, <1>4, <1>5, <1>6, <1>7, <1>8 DEF SessionNext, ClientStep

\* What is left to do, in the order of its weight: failures to come, a link
\* that is to be dropped or made, frames to send, and the rest of a turn.
Mode == IF wait = "link" THEN 1 ELSE IF ntf = 0 THEN 2 ELSE 0
TurnLeft ==
  CASE wait = "link" -> evts + (IF up = "off" THEN 1 ELSE 0)
    [] wait = "none" -> 3
    [] OTHER -> IF evts > 0 THEN 2 ELSE IF rsp # <<>> THEN 1 ELSE 0

Closer ==
  \/ fails' > fails
  \/ fails' = fails /\ Mode' < Mode
  \/ fails' = fails /\ Mode' = Mode /\ step' > step
  \/ UNCHANGED <<fails, Mode, step>> /\ TurnLeft' < TurnLeft

FailsOK == fails \in 0 .. MaxFail

LEMMA FailsKept == FailsOK /\ [SessionNext]_sessionVars => FailsOK'
<1> SUFFICES ASSUME FailsOK, [SessionNext]_sessionVars PROVE FailsOK'
  OBVIOUS
<1>1. MaxFail \in Nat
  BY SessionAssumption
<1>2. CASE DeviceStep \/ ClientStep
  BY <1>2 DEF DeviceStep, ClientStep, Connect, Send, Receive, Timeout, FailsOK
<1>3. CASE LinkLost
  BY <1>1, <1>3 DEF LinkLost, FailsOK
<1>4. CASE OtherLink
  <2>1. fails < MaxFail /\ fails' = fails + 1
    BY <1>4, Zenon DEF OtherLink
  <2> QED
    BY <1>1, <2>1 DEF FailsOK
<1>5. CASE PowerLost
  <2>1. fails < MaxFail /\ fails' = fails + 1
    BY <1>5, Zenon DEF PowerLost
  <2> QED
    BY <1>1, <2>1 DEF FailsOK
<1>6. CASE UNCHANGED sessionVars
  BY <1>6 DEF sessionVars, client, FailsOK
<1> QED
  BY <1>2, <1>3, <1>4, <1>5, <1>6 DEF SessionNext

\* The device brings the turn on, and never falls over or restarts by itself.
LEMMA DeviceCloser ==
  ASSUME JInv, OnCourse, DeviceStep, step <= ResetStep, PAGE <= Len(Image)
  PROVE  Closer
<1>1. /\ evts \in Nat /\ up \in {"off", "on"} /\ wait \in {"link", "none", "reply"}
      /\ up = "off" => wait = "link"
      /\ wait = "none" => evts = 0
      /\ wait = "reply" => evts = 0 \/ (evts = 1 /\ rsp = <<>>)
      /\ fails' = fails
  BY DEF JInv, IInv, TypeOK, SInv, Turns, DeviceStep
<1>2. CASE APP_TC_OTA_Init
  <2>1. up = "off" /\ up' = "on" /\ UNCHANGED <<evts, ntf, rsp, step, wait>>
    BY <1>2 DEF DeviceStep, APP_TC_OTA_Init, link, update
  <2> QED
    BY <1>1, <2>1 DEF Closer, Mode, TurnLeft
<1>3. CASE APP_TC_OTA_Task
  <2>1. evts > 0 /\ up = "on"
    BY <1>3 DEF APP_TC_OTA_Task
  <2>2. ~ConfirmFault(buff[1])
    BY <2>1, Lengths, SizesAssumption DEF OnCourse, ConfirmFault
  <2>3. evts' = evts - 1 /\ up' = up /\ ntf' = ntf /\ step' = step /\ wait' = wait
    BY <1>3, <2>1, <2>2 DEF APP_TC_OTA_Task, DeviceStep
  <2> QED
    BY <1>1, <2>1, <2>3 DEF Closer, Mode, TurnLeft
<1>4. CASE Reboot_timer_handler
  BY <1>4 DEF Reboot_timer_handler, OnCourse
<1> QED
  BY <1>2, <1>3, <1>4 DEF DeviceStep, Device

LEMMA ClientCloser ==
  ASSUME JInv, OnCourse, ClientStep, step <= ResetStep
  PROVE  step' > ResetStep \/ Closer
<1>1. step \in Nat /\ ResetStep \in Nat /\ ntf \in {0, 1} /\ fails' = fails
  <2>1. fails' = fails
    BY Zenon DEF ClientStep, Connect, Send, Receive, Timeout
  <2>2. step \in Nat /\ ntf \in {0, 1}
    BY DEF JInv, IInv, TypeOK, StepOK
  <2> QED
    BY <2>1, <2>2, Lengths
<1>2. CASE Connect
  BY <1>1, <1>2 DEF Connect, GattConfig, Closer, Mode
<1>3. CASE Send
  <2>1. wait = "none" /\ evts = 0 /\ evts' = 1 /\ ntf' = ntf
    BY <1>3 DEF JInv, SInv, Turns, Send, GattWrite
  <2>2. step' > ResetStep \/ (step' = step /\ wait' = "reply")
    BY <1>1, <1>3 DEF Send
  <2> QED
    BY <1>1, <2>1, <2>2 DEF Closer, Mode, TurnLeft
<1>4. CASE Receive
  <2>1. wait = "reply" /\ wait' = "none" /\ ntf' = ntf /\ step' = step + 1
    BY <1>4, Received DEF OnCourse
  <2> QED
    BY <1>1, <2>1 DEF Closer, Mode
<1>5. CASE Timeout
  <2>1. wait = "reply" /\ evts = 0 /\ rsp = <<>> /\ wait' = "link"
    BY <1>5 DEF Timeout
  <2>2. ntf = 0
    BY <1>1, <2>1 DEF OnCourse
  <2> QED
    BY <1>1, <2>1, <2>2 DEF Closer, Mode
<1> QED
  BY <1>2, <1>3, <1>4, <1>5 DEF ClientStep

\* The same client, with an image that has a whole first page: every step until
\* its reset is sent either brings it nearer to that, or is one of the failures,
\* which are numbered.  Only a failure sends it back, a late one by its silence; no
\* reply is an error, no command makes the device fall over, and it is never
\* kept from its turn.
THEOREM SessionAdvances ==
  ASSUME Resume = "start", PAGE <= Len(Image), Len(Image) <= UPDATE_MAX, MaxFrame > 0
  PROVE  SessionSpec =>
           /\ [][step <= ResetStep => step' > ResetStep \/ Closer]_sessionVars
           /\ [](fails \in 0 .. MaxFail /\ Mode \in 0 .. 2 /\ TurnLeft \in Nat)
           /\ [](step <= ResetStep /\ wait = "none" => up = "on" /\ evts + Len(rsp) < MaxFrame)
<1> DEFINE SpecInv == JInv /\ OnCourse /\ FailsOK
           Ahead == [step <= ResetStep => step' > ResetStep \/ Closer]_sessionVars
           Measured == fails \in 0 .. MaxFail /\ Mode \in 0 .. 2 /\ TurnLeft \in Nat
           Turn == step <= ResetStep /\ wait = "none" => up = "on" /\ evts + Len(rsp) < MaxFrame
<1>1. SessionInit => SpecInv
  <2>1. SessionInit => OnCourse /\ FailsOK
    BY SessionAssumption DEF SessionInit, Init, Cleared, OnCourse, FailsOK
  <2> QED
    BY <2>1, SessionStart
<1>2. SpecInv /\ [SessionNext]_sessionVars => SpecInv'
  BY SessionNextKept, CourseKept, FailsKept DEF Fits
<1>3. SpecInv /\ [SessionNext]_sessionVars => Ahead
  <2> SUFFICES ASSUME SpecInv, SessionNext, step <= ResetStep PROVE step' > ResetStep \/ Closer
    OBVIOUS
  <2>1. CASE DeviceStep
    BY <2>1, DeviceCloser
  <2>2. CASE ClientStep
    BY <2>2, ClientCloser
  <2>3. CASE LinkLost \/ OtherLink \/ PowerLost
    <3>1. fails' = fails + 1
      BY <2>3, Zenon DEF LinkLost, OtherLink, PowerLost
    <3>2. fails \in Nat
      BY DEF FailsOK
    <3> QED
      BY <3>1, <3>2 DEF Closer
  <2> QED
    BY <2>1, <2>2, <2>3 DEF SessionNext
<1>4. SpecInv => Measured
  BY DEF JInv, IInv, TypeOK, FailsOK, Mode, TurnLeft
<1>5. SpecInv => Turn
  <2> SUFFICES ASSUME SpecInv, step <= ResetStep, wait = "none"
               PROVE  up = "on" /\ evts + Len(rsp) < MaxFrame
    OBVIOUS
  <2>1. evts = 0 /\ rsp = <<>> /\ up = "on"
    BY DEF JInv, IInv, TypeOK, SInv, Turns
  <2>2. Len(<<>>) = 0
    OBVIOUS
  <2> QED
    BY <2>1, <2>2
<1> QED
  BY <1>1, <1>2, <1>3, <1>4, <1>5, PTL DEF SessionSpec
=============================================================================
