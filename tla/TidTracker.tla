----------------------------- MODULE TidTracker -----------------------------
(***************************************************************************)
(* Transactions of the mesh models (model_common.c).  A client repeats a   *)
(* Set until it is answered; the server must carry out one transaction     *)
(* once.  It keeps the last message it took and refuses an equal one for   *)
(* WINDOW ticks of s_ulTick, a 32-bit clock that wraps and that the        *)
(* interrupt of TIMER0 advances, also in the midst of a handler.           *)
(***************************************************************************)
EXTENDS Naturals

CONSTANTS
  Clients,      \* unicast addresses of clients
  Ids,          \* the message_id of each message of this server
  Tids,
  NoClient, NoId, NoTid,  \* what the zeroed tracker holds: 0, no client's address
  WRAP,         \* 2^32
  WINDOW,       \* TID_VALIDATION_INTERVAL_US
  RETRY,        \* ticks between two transmissions of a client, at most
  LOSSES        \* transmissions and replies lost of one transaction, at most

ASSUME ClientAssumption == NoClient \notin Clients /\ LOSSES \in Nat /\ RETRY \in Nat \ {0}
ASSUME ClockAssumption == WRAP \in Nat /\ WINDOW \in Nat /\ 0 < WINDOW /\ WINDOW + 1 < WRAP

VARIABLES
  s_ulTick,
  tracker,  \* tid_tracker
  open,     \* per client: the transaction it repeats
  due,      \* per client: ticks until it transmits again, at the latest
  lost,     \* per client: what the net has lost of the transaction
  since     \* history: ticks since the tracker took a message; WRAP: that many or
            \* more, or none was taken

vars == <<s_ulTick, tracker, open, due, lost, since>>

Transactions == [id : Ids, tid : Tids, ok : BOOLEAN]  \* ok: passes the checks behind the tracker
None == [id |-> NoId, tid |-> NoTid, ok |-> FALSE]
Ticks == 0 .. WRAP - 1

TypeOK ==
  /\ s_ulTick \in Ticks
  /\ tracker \in [src : Clients \cup {NoClient}, message_id : Ids \cup {NoId},
                  old_tid : Tids \cup {NoTid}, ulTime : Ticks, new_transaction : BOOLEAN]
  /\ open \in [Clients -> Transactions \cup {None}]
  /\ due \in [Clients -> 0 .. RETRY] /\ lost \in [Clients -> 0 .. LOSSES]
  /\ since \in 0 .. WRAP

Init ==
  /\ s_ulTick = 0
  /\ tracker = [src |-> NoClient, message_id |-> NoId, old_tid |-> NoTid, ulTime |-> 0,
                new_transaction |-> FALSE]
  /\ open = [c \in Clients |-> None] /\ due = [c \in Clients |-> 0]
  /\ lost = [c \in Clients |-> 0] /\ since = WRAP

-----------------------------------------------------------------------------
(* U32 arithmetic and the age of a transaction                             *)

Plus(a, b) == IF a + b >= WRAP THEN a + b - WRAP ELSE a + b
Minus(a, b) == IF a >= b THEN a - b ELSE a + WRAP - b
INFINITE == WRAP - 1

\* Mutant: a clock behind the time of the tracker counts as a new window.
CheckNoWrap(ulTime, first, second) ==
  IF ulTime <= first THEN Minus(second, ulTime) >= WINDOW ELSE TRUE

\* s_ulTick is read for the comparison (first) and again for the difference (second).
Check_Tid_Time(ulTime, first, second) ==
  IF ulTime <= first THEN Minus(second, ulTime) >= WINDOW
                     ELSE Minus(Plus(second, INFINITE), ulTime) >= WINDOW

Same(c) ==
  /\ tracker.src = c
  /\ tracker.old_tid = open[c].tid /\ tracker.message_id = open[c].id

\* Mutant: a repeat renews the window.
ValidateRenew(c, first, second, third) ==
  IF Same(c) /\ ~Check_Tid_Time(tracker.ulTime, first, second)
    THEN [tracker EXCEPT !.new_transaction = FALSE, !.ulTime = third]
    ELSE [src |-> c, message_id |-> open[c].id, old_tid |-> open[c].tid, ulTime |-> third,
          new_transaction |-> TRUE]

\* Mutant: the source is not compared.
ValidateAnySource(c, first, second, third) ==
  IF /\ tracker.old_tid = open[c].tid /\ tracker.message_id = open[c].id
     /\ ~Check_Tid_Time(tracker.ulTime, first, second)
    THEN [tracker EXCEPT !.new_transaction = FALSE]
    ELSE [src |-> c, message_id |-> open[c].id, old_tid |-> open[c].tid, ulTime |-> third,
          new_transaction |-> TRUE]

\* The tracker after a message of c; third is the clock when it is recorded.
model_tid_validate(c, first, second, third) ==
  IF Same(c) /\ ~Check_Tid_Time(tracker.ulTime, first, second)
    THEN [tracker EXCEPT !.new_transaction = FALSE]
    ELSE [src |-> c, message_id |-> open[c].id, old_tid |-> open[c].tid, ulTime |-> third,
          new_transaction |-> TRUE]

Later(s, n) == IF s + n >= WRAP THEN WRAP ELSE s + n

-----------------------------------------------------------------------------
(* Clients and the net                                                     *)

Ask(c) ==
  /\ open[c] = None
  /\ \E t \in Transactions : open' = [open EXCEPT ![c] = t]
  /\ due' = [due EXCEPT ![c] = RETRY]
  /\ UNCHANGED <<s_ulTick, tracker, lost, since>>

\* An unacknowledged message ends so too.
GiveUp(c) ==
  /\ open[c] # None
  /\ open' = [open EXCEPT ![c] = None] /\ due' = [due EXCEPT ![c] = 0]
  /\ lost' = [lost EXCEPT ![c] = 0]
  /\ UNCHANGED <<s_ulTick, tracker, since>>

LoseMessage(c) ==
  /\ open[c] # None /\ lost[c] < LOSSES
  /\ lost' = [lost EXCEPT ![c] = @ + 1] /\ due' = [due EXCEPT ![c] = RETRY]
  /\ UNCHANGED <<s_ulTick, tracker, open, since>>

-----------------------------------------------------------------------------
(* The server                                                              *)

\* n ticks come, unless another client is to transmit first.
Pass(n, others) ==
  /\ n > 0 => \A k \in others : open[k] # None => due[k] > 0
  /\ s_ulTick' = Plus(s_ulTick, n)

Waited(n, others) ==
  [k \in Clients |-> IF k \in others /\ open[k] # None THEN due[k] - n ELSE due[k]]

\* timer0_isr_ram, YK_APP_TimeProc and Mesh_Tid_TimeProc.
Mesh_Tid_TimeProc ==
  /\ Pass(1, Clients)
  /\ due' = Waited(1, Clients)
  /\ since' = Later(since, 1)
  /\ UNCHANGED <<tracker, open, lost>>

\* The handler of a Set: a is 1 if the tick comes between the two readings of
\* Check_Tid_Time, b if it comes before the message is recorded.
Handle(c, a, b) ==
  /\ open[c] # None
  /\ a + b <= 1
  /\ Pass(a + b, Clients \ {c})
  /\ tracker' = model_tid_validate(c, s_ulTick, Plus(s_ulTick, a), Plus(s_ulTick, a + b))
  /\ since' = IF tracker'.new_transaction THEN 0 ELSE Later(since, a + b)
  /\ \/ /\ tracker'.new_transaction /\ open[c].ok  \* carried out and answered
        /\ open' = [open EXCEPT ![c] = None]
        /\ due' = [Waited(a + b, Clients \ {c}) EXCEPT ![c] = 0]
        /\ lost' = [lost EXCEPT ![c] = 0]
     \/ /\ tracker'.new_transaction /\ open[c].ok /\ lost[c] < LOSSES
        /\ lost' = [lost EXCEPT ![c] = @ + 1]
        /\ due' = [Waited(a + b, Clients \ {c}) EXCEPT ![c] = RETRY]
        /\ UNCHANGED open
     \/ /\ ~(tracker'.new_transaction /\ open[c].ok)
        /\ due' = [Waited(a + b, Clients \ {c}) EXCEPT ![c] = RETRY]
        /\ UNCHANGED <<open, lost>>

Deliver(c) == \E a, b \in {0, 1} : Handle(c, a, b)

Transmit(c) == Deliver(c) \/ LoseMessage(c)

Next ==
  \/ \E c \in Clients : Ask(c) \/ GiveUp(c) \/ Transmit(c)
  \/ Mesh_Tid_TimeProc

Spec == Init /\ [][Next]_vars

\* The timer keeps firing and clients keep repeating.
FairSpec ==
  Spec /\ WF_vars(Mesh_Tid_TimeProc) /\ \A c \in Clients : WF_vars(Transmit(c))

-----------------------------------------------------------------------------
(* Properties                                                              *)

Taken(c) == Deliver(c) /\ tracker'.new_transaction
Refused(c) == Deliver(c) /\ ~tracker'.new_transaction

\* One transaction is carried out once: while no other message is taken, a
\* repeat is refused until the window has passed, wherever the clock wraps and
\* the interrupt comes between the readings.
TakenOnce ==
  [][\A c \in Clients :
       Taken(c) /\ Same(c) => since + Minus(s_ulTick', s_ulTick) >= WINDOW]_vars

\* A refused message is a repeat of the last one taken, and of this window: a
\* tick more where the clock has wrapped, for INFINITE is one less than 2^32.
\* (since = WRAP: the message came 49 days later.)
RefusedIsRepeat ==
  [][\A c \in Clients : Refused(c) => Same(c) /\ (since <= WINDOW \/ since >= WRAP - 1)]_vars

\* A client that goes on repeating a valid message is answered although replies
\* are lost: refused repeats do not keep the window open.
Answered == \A c \in Clients : open[c].ok ~> ~open[c].ok
=============================================================================
