------------------------------ MODULE MC_TcOta ------------------------------
(* Two worlds beside each other: the client of TcOtaSession, with an image  *)
(* that has a partial last page, cut in packets that straddle pages; and    *)
(* ("any") clients that send any of a few frames at any time.               *)
EXTENDS TcOtaSession

CONSTANTS a, b

MCImage == <<b, a, b, b, a>>

Start(n, ok) == [cmd |-> "start", flag |-> ok, size |-> n, data |-> <<>>]
Data(d) == [cmd |-> "data", flag |-> TRUE, size |-> 0, data |-> d]
Plain(c) == [cmd |-> c, flag |-> TRUE, size |-> 0, data |-> <<>>]
Confirm(image) == [Plain("confirm") EXCEPT !.data = image]

AnyFrames ==
  {Start(3, TRUE), Start(5, TRUE), Start(5, FALSE), Start(7, TRUE), Data(<<a>>), Data(<<a, b, a>>),
   Confirm(<<a, b, a>>), Confirm(<<a, a, b, a, a>>), Plain("info"), Plain("reset")}
MCFrames == AnyFrames \cup {Script(s) : s \in 1 .. ResetStep}

AnyInit == Init /\ step = 1 /\ wait = "any" /\ fails = 0
\* The steps of TcOta!Next.
AnyNext ==
  /\ wait = "any" /\ UNCHANGED client
  /\ \/ Device \/ Deliver \/ GattLinkCreate \/ PowerLoss
     \/ \E mine \in BOOLEAN : GapDisconnect(mine)
     \/ \E n \in {0, 1} : GattConfig(n)
     \/ \E f \in AnyFrames : GattWrite(f)

\* FairSession, or TcOta!Spec with the client's variables at rest.
MCSpec ==
  /\ SessionInit \/ AnyInit
  /\ [][AnyNext \/ (wait # "any" /\ SessionNext)]_sessionVars
  /\ WF_sessionVars(wait # "any" /\ DeviceStep) /\ WF_sessionVars(ClientStep)
=============================================================================
