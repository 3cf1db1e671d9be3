---------------------------- MODULE TcOtaSession ----------------------------
(***************************************************************************)
(* One update seen from both ends: the device of TcOta and a client that   *)
(* follows the protocol in lock step: start, the packets of one image,     *)
(* confirm, reset, each sent when the reply to the one before is in.  The  *)
(* link or the power can be lost at any time, and other links of the       *)
(* device (mesh proxy, PB-Remote) come and go.  The client is not part of  *)
(* the repository; the replies it waits for are those ProtocolProcess      *)
(* sends.                                                                  *)
(***************************************************************************)
EXTENDS TcOta

CONSTANTS
  Image,     \* the image the client installs
  Packet,    \* units in a packet
  Resume,    \* after a lost link: "start" the update again, or "repeat" the last frame
  MaxFail    \* bound on lost links, links of others and power losses

ASSUME SessionAssumption ==
  /\ Image \in Seq(Token) /\ Packet \in Nat \ {0}
  /\ Resume \in {"start", "repeat"} /\ MaxFail \in Nat

VARIABLES
  step,      \* the number of the frame being sent
  wait,      \* "reply", "none", or "link" before notifications are enabled
  fails

client == <<step, wait, fails>>

Packets == (Len(Image) + Packet - 1) \div Packet
\* The units of Image in the first k packets.
Sent(k) == IF Packet * k < Len(Image) THEN Packet * k ELSE Len(Image)

ConfirmStep == Packets + 2
ResetStep == Packets + 3

Command(c, d) == [cmd |-> c, flag |-> TRUE, size |-> Len(Image), data |-> d]
Script(s) ==
  CASE s = 1 -> Command("start", <<>>)
    [] s = ConfirmStep -> Command("confirm", Image)
    [] s = ResetStep -> Command("reset", <<>>)
    [] OTHER -> Command("data", SubSeq(Image, Sent(s - 2) + 1, Sent(s - 1)))

ASSUME ScriptAssumption == \A s \in 1 .. ResetStep : Script(s) \in Frames

SessionInit == Init /\ step = 1 /\ wait = "link" /\ fails = 0

\* A new connection.  The event of a frame sent over the old link has long
\* been handled by then.
Connect ==
  /\ wait = "link" /\ evts = 0 /\ GattConfig(1)
  /\ wait' = "none" /\ UNCHANGED <<step, fails>>

Send ==
  /\ wait = "none" /\ step <= ResetStep /\ GattWrite(Script(step))
  /\ IF step = ResetStep
       THEN step' = step + 1 /\ wait' = "none"
       ELSE step' = step /\ wait' = "reply"
  /\ UNCHANGED fails

Receive ==
  /\ wait = "reply" /\ Deliver
  /\ wait' = "none"
  /\ step' = IF Head(rsp).err = 0 THEN step + 1 ELSE 1
  /\ UNCHANGED fails

Again == IF step > ResetStep THEN step ELSE IF Resume = "start" THEN 1 ELSE step

LinkLost ==
  /\ fails < MaxFail /\ wait # "link" /\ GapDisconnect(TRUE)
  /\ step' = Again /\ wait' = "link" /\ fails' = fails + 1

\* No reply will come: the client drops the link.
Timeout ==
  /\ wait = "reply" /\ evts = 0 /\ rsp = <<>> /\ GapDisconnect(TRUE)
  /\ step' = Again /\ wait' = "link" /\ UNCHANGED fails

\* Another link of the device is made or lost.
OtherLink ==
  /\ fails < MaxFail /\ (GattLinkCreate \/ GapDisconnect(FALSE))
  /\ fails' = fails + 1 /\ UNCHANGED <<step, wait>>

PowerLost ==
  /\ fails < MaxFail /\ PowerLoss
  /\ step' = (IF step > ResetStep THEN step ELSE 1) /\ wait' = "link" /\ fails' = fails + 1

\* A device that reboots on its own drops the link as well.
DeviceStep ==
  /\ Device
  /\ IF up = "on" /\ up' = "off"
       THEN step' = (IF step > ResetStep THEN step ELSE 1) /\ wait' = "link"
       ELSE UNCHANGED <<step, wait>>
  /\ UNCHANGED fails

ClientStep == Connect \/ Send \/ Receive \/ Timeout

SessionNext == DeviceStep \/ ClientStep \/ LinkLost \/ OtherLink \/ PowerLost

sessionVars == <<vars, client>>

SessionSpec == SessionInit /\ [][SessionNext]_sessionVars

\* The SDK delivers events, fires timers and restarts the device; the client
\* goes on with its script.
FairSession ==
  SessionSpec /\ WF_sessionVars(DeviceStep) /\ WF_sessionVars(ClientStep)

-----------------------------------------------------------------------------
(* Properties                                                              *)

\* The image as the device holds it: first page in RAM until it is confirmed.
Held(i) == IF i <= PAGE /\ step <= ConfirmStep THEN fpData[i - 1] ELSE flash[i - 1]

\* Packets carry no sequence number; that the write position follows from the
\* packets handled must be enough.  Everything in the packets the device has
\* acknowledged is held at its place, whatever was interrupted before, and even
\* if another link was lost meanwhile and closed the gate of flash_write
\* (OTA_Image_Update returns FALSE when it is not, APP_TC_OTA.c:180, and
\* Proc_ImageUpdate has no way to say so).
AckedIsHeld ==
  wait # "link" /\ step > 2 => \A i \in 1 .. Sent(step - 2) : Held(i) = Image[i]

\* A client that was told its image is confirmed finds it in the partition,
\* first page included, and still there after the reset and any power loss.
DoneIsWhole ==
  step > ConfirmStep => \A i \in 1 .. Len(Image) : flash[i - 1] = Image[i]

IT == INSTANCE ImageTransfer WITH
        stage <- IF step = 1 THEN "none" ELSE IF step <= ConfirmStep THEN "receiving" ELSE "whole",
        total <- IF step = 1 THEN 0 ELSE Len(Image),
        parts <- {i \in 0 .. Sent(IF step = 1 THEN 0 ELSE step - 2) - 1 : Held(i + 1) = Image[i + 1]}

\* The client's view of its update is that of an image taken in whole or not at all:
\* its parts are the units the client has an acknowledgement for and the device holds.
\* It never finds one of them gone, nor the image confirmed that is not there.
ImplementsTransfer == IT!Spec

\* With the link and the power good in the end, an update that begins, or begins anew,
\* comes to its end.
SessionEnds == (step = 1 /\ wait = "link") ~> (step > ResetStep)
=============================================================================
