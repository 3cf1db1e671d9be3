------------------------- MODULE TidTracker_proofs -------------------------
(***************************************************************************)
(* Proofs about TidTracker for every clock width, window and set of        *)
(* clients.  The strengthening Dated says that the time of the tracker and *)
(* the clock, which both wrap, differ by the ticks that really passed.     *)
(***************************************************************************)
EXTENDS TidTracker, TLAPS

Dated ==
  since < WRAP =>
    since = IF tracker.ulTime <= s_ulTick THEN s_ulTick - tracker.ulTime
                                          ELSE s_ulTick + WRAP - tracker.ulTime

IInv == TypeOK /\ Dated

(***************************************************************************)
(* Arithmetic of the clock                                                 *)
(***************************************************************************)
LEMMA Wraps ==
  ASSUME NEW a \in Ticks, NEW n \in 0 .. 1
  PROVE  /\ Plus(a, n) \in Ticks
         /\ Plus(a, n) = IF a = WRAP - 1 /\ n = 1 THEN 0 ELSE a + n
BY ClockAssumption DEF Ticks, Plus

LEMMA WrapsTwice ==
  ASSUME NEW t \in Ticks, NEW a \in 0 .. 1, NEW b \in 0 .. 1, a + b <= 1
  PROVE  /\ Plus(t, a + b) \in Ticks
         /\ Plus(t, a + b) = Plus(Plus(t, a), b)
<1>1. a + b \in 0 .. 1  OBVIOUS
<1> QED  BY <1>1, Wraps

LEMMA Difference ==
  ASSUME NEW a \in Ticks, NEW b \in Ticks
  PROVE  Minus(a, b) \in Ticks
BY ClockAssumption DEF Ticks, Minus

LEMMA LaterType ==
  ASSUME NEW s \in 0 .. WRAP, NEW n \in 0 .. 1
  PROVE  /\ Later(s, n) \in 0 .. WRAP
         /\ Later(s, n) < WRAP => Later(s, n) = s + n
         /\ Later(s, n) >= s
BY ClockAssumption DEF Later

\* The check is TRUE once the window has passed, and FALSE before it has.
LEMMA Age ==
  ASSUME NEW u \in Ticks, NEW t \in Ticks, NEW a \in 0 .. 1, NEW s \in 0 .. WRAP - 1,
         s = IF u <= t THEN t - u ELSE t + WRAP - u
  PROVE  /\ Check_Tid_Time(u, t, Plus(t, a)) => s + a >= WINDOW
         /\ s < WRAP - 1 /\ ~Check_Tid_Time(u, t, Plus(t, a)) => s <= WINDOW
<1> DEFINE second == Plus(t, a)
<1>1. second \in Ticks /\ second = IF t = WRAP - 1 /\ a = 1 THEN 0 ELSE t + a  BY Wraps
<1>2. CASE u <= t
  <2>1. Check_Tid_Time(u, t, second) <=> Minus(second, u) >= WINDOW
    BY <1>2 DEF Check_Tid_Time
  <2>2. s = t - u  BY <1>2
  <2>3. CASE t = WRAP - 1 /\ a = 1
    <3>1. second = 0  BY <1>1, <2>3
    <3>2. Minus(second, u) = IF u = 0 THEN 0 ELSE WRAP - u
      BY <3>1, ClockAssumption DEF Minus, Ticks
    <3>3. u \in Nat /\ s = WRAP - 1 - u  BY <2>2, <2>3, ClockAssumption DEF Ticks
    <3>4. u # 0 => Minus(second, u) = s + a  BY <3>2, <3>3, <2>3, ClockAssumption
    <3>5. u = 0 => s = WRAP - 1 /\ Minus(second, u) = 0  BY <3>2, <3>3, ClockAssumption
    <3> QED  BY <2>1, <2>3, <3>3, <3>4, <3>5, ClockAssumption
  <2>4. CASE ~(t = WRAP - 1 /\ a = 1)
    <3>1. second = t + a  BY <1>1, <2>4
    <3>2. Minus(second, u) = s + a
      BY <3>1, <2>2, <1>2, ClockAssumption DEF Minus, Ticks
    <3> QED  BY <2>1, <3>2, ClockAssumption
  <2> QED  BY <2>3, <2>4
<1>3. CASE u > t
  <2>1. Check_Tid_Time(u, t, second) <=> Minus(Plus(second, INFINITE), u) >= WINDOW
    BY <1>3, ClockAssumption DEF Check_Tid_Time, Ticks
  <2>2. second = t + a  BY <1>1, <1>3, ClockAssumption DEF Ticks
  <2>3. s = t + WRAP - u  BY <1>3, ClockAssumption DEF Ticks
  <2>4. Plus(second, INFINITE) = IF second = 0 THEN WRAP - 1 ELSE second - 1
    BY <1>1, ClockAssumption DEF Plus, INFINITE, Ticks
  <2>5. Minus(Plus(second, INFINITE), u) = s + a - 1
    BY <2>2, <2>3, <2>4, <1>3, ClockAssumption DEF Minus, Ticks
  <2> QED  BY <2>1, <2>5, ClockAssumption
<1> QED  BY <1>2, <1>3, ClockAssumption DEF Ticks

(***************************************************************************)
(* The invariant                                                           *)
(***************************************************************************)
LEMMA Initial == Init => IInv
BY ClientAssumption, ClockAssumption DEF Init, IInv, TypeOK, Dated, Ticks, None

LEMMA WaitedType ==
  ASSUME TypeOK, NEW n \in 0 .. 1, NEW others \in SUBSET Clients, Pass(n, others)
  PROVE  Waited(n, others) \in [Clients -> 0 .. RETRY]
<1>1. ASSUME NEW k \in Clients, k \in others, open[k] # None
      PROVE  due[k] - n \in 0 .. RETRY
  BY <1>1, ClientAssumption DEF TypeOK, Pass
<1> QED  BY <1>1 DEF TypeOK, Waited

LEMMA DatedTick ==
  ASSUME IInv, NEW n \in 0 .. 1, s_ulTick' = Plus(s_ulTick, n), since' = Later(since, n),
         tracker'.ulTime = tracker.ulTime
  PROVE  Dated'
<1> DEFINE u == tracker.ulTime
<1>1. u \in Ticks /\ s_ulTick \in Ticks /\ since \in 0 .. WRAP  BY DEF IInv, TypeOK
<1>2. SUFFICES ASSUME since' < WRAP
               PROVE  since' = IF u <= s_ulTick' THEN s_ulTick' - u ELSE s_ulTick' + WRAP - u
  BY DEF Dated
<1>3. since' = since + n /\ since < WRAP  BY <1>1, <1>2, LaterType, ClockAssumption
<1>4. since = IF u <= s_ulTick THEN s_ulTick - u ELSE s_ulTick + WRAP - u
  BY <1>3 DEF IInv, Dated
<1>5. s_ulTick' = IF s_ulTick = WRAP - 1 /\ n = 1 THEN 0 ELSE s_ulTick + n  BY <1>1, Wraps
<1>6. CASE s_ulTick = WRAP - 1 /\ n = 1
  <2>1. since' = WRAP - u /\ u # 0
    BY <1>1, <1>2, <1>3, <1>4, <1>6, ClockAssumption DEF Ticks
  <2> QED  BY <1>1, <1>5, <1>6, <2>1, ClockAssumption DEF Ticks
<1>7. CASE ~(s_ulTick = WRAP - 1 /\ n = 1) /\ u <= s_ulTick
  BY <1>1, <1>3, <1>4, <1>5, <1>7, ClockAssumption DEF Ticks
<1>8. CASE ~(s_ulTick = WRAP - 1 /\ n = 1) /\ ~(u <= s_ulTick)
  BY <1>1, <1>2, <1>3, <1>4, <1>5, <1>8, ClockAssumption DEF Ticks
<1> QED  BY <1>6, <1>7, <1>8

LEMMA TrackerStep ==
  ASSUME TypeOK, NEW c \in Clients, NEW f \in Ticks, NEW g \in Ticks, NEW h \in Ticks,
         open[c] # None
  PROVE  LET t == model_tid_validate(c, f, g, h)
         IN  /\ t \in [src : Clients \cup {NoClient}, message_id : Ids \cup {NoId},
                       old_tid : Tids \cup {NoTid}, ulTime : Ticks, new_transaction : BOOLEAN]
             /\ t.new_transaction => t.ulTime = h
             /\ ~t.new_transaction => /\ t.ulTime = tracker.ulTime /\ Same(c)
                                      /\ ~Check_Tid_Time(tracker.ulTime, f, g)
             /\ t.new_transaction /\ Same(c) => Check_Tid_Time(tracker.ulTime, f, g)
<1>1. open[c] \in Transactions  BY DEF TypeOK
<1>2. open[c].id \in Ids /\ open[c].tid \in Tids  BY <1>1 DEF Transactions
<1>3. CASE Same(c) /\ ~Check_Tid_Time(tracker.ulTime, f, g)
  BY <1>3 DEF TypeOK, model_tid_validate
<1>4. CASE ~(Same(c) /\ ~Check_Tid_Time(tracker.ulTime, f, g))
  BY <1>2, <1>4 DEF model_tid_validate
<1> QED  BY <1>3, <1>4

LEMMA HandleInv ==
  ASSUME IInv, NEW c \in Clients, NEW a \in {0, 1}, NEW b \in {0, 1}, Handle(c, a, b)
  PROVE  IInv'
<1> USE DEF IInv
<1>1. a \in 0 .. 1 /\ b \in 0 .. 1 /\ a + b \in 0 .. 1  BY DEF Handle
<1>2. s_ulTick' = Plus(s_ulTick, a + b) /\ s_ulTick' \in Ticks
  BY <1>1, Wraps DEF Handle, Pass, TypeOK
<1>3. /\ Plus(s_ulTick, a) \in Ticks /\ Plus(s_ulTick, a + b) \in Ticks
      /\ s_ulTick \in Ticks
  BY <1>1, Wraps DEF TypeOK
<1>4. /\ tracker' \in [src : Clients \cup {NoClient}, message_id : Ids \cup {NoId},
                       old_tid : Tids \cup {NoTid}, ulTime : Ticks, new_transaction : BOOLEAN]
      /\ tracker'.new_transaction => tracker'.ulTime = s_ulTick'
      /\ ~tracker'.new_transaction => tracker'.ulTime = tracker.ulTime
  <2>1. /\ open[c] # None
        /\ tracker' = model_tid_validate(c, s_ulTick, Plus(s_ulTick, a), Plus(s_ulTick, a + b))
    BY DEF Handle
  <2> QED  BY <1>2, <1>3, <2>1, TrackerStep
<1>5. since' = (IF tracker'.new_transaction THEN 0 ELSE Later(since, a + b))
      /\ since' \in 0 .. WRAP
  BY <1>1, LaterType, ClockAssumption DEF Handle, TypeOK
<1>6. Dated'
  <2>1. CASE tracker'.new_transaction
    BY <2>1, <1>2, <1>4, <1>5, ClockAssumption DEF Dated, Ticks
  <2>2. CASE ~tracker'.new_transaction
    BY <2>2, <1>1, <1>2, <1>4, <1>5, DatedTick
  <2> QED  BY <2>1, <2>2, <1>4
<1>7. Waited(a + b, Clients \ {c}) \in [Clients -> 0 .. RETRY]
  <2>1. Pass(a + b, Clients \ {c}) /\ Clients \ {c} \in SUBSET Clients
    BY DEF Handle
  <2> QED  BY <1>1, <2>1, WaitedType
<1>8. due' \in [Clients -> 0 .. RETRY]
  <2> DEFINE w == Waited(a + b, Clients \ {c})
  <2>1. due' = [w EXCEPT ![c] = 0] \/ due' = [w EXCEPT ![c] = RETRY]
    BY DEF Handle
  <2>2. w \in [Clients -> 0 .. RETRY]  BY <1>7
  <2> HIDE DEF w
  <2> QED  BY <2>1, <2>2, ClientAssumption
<1>9. lost' \in [Clients -> 0 .. LOSSES] /\ open' \in [Clients -> Transactions \cup {None}]
  BY ClientAssumption DEF Handle, TypeOK
<1> QED  BY <1>2, <1>4, <1>5, <1>6, <1>8, <1>9 DEF TypeOK

LEMMA NextInv == ASSUME IInv, [Next]_vars PROVE IInv'
<1>1. ASSUME NEW c \in Clients, Ask(c) PROVE IInv'
  BY <1>1, ClientAssumption DEF IInv, TypeOK, Dated, Ask, Ticks
<1>2. ASSUME NEW c \in Clients, GiveUp(c) PROVE IInv'
  BY <1>2, ClientAssumption DEF IInv, TypeOK, Dated, GiveUp, Ticks
<1>3. ASSUME NEW c \in Clients, LoseMessage(c) PROVE IInv'
  BY <1>3, ClientAssumption DEF IInv, TypeOK, Dated, LoseMessage, Ticks
<1>4. ASSUME NEW c \in Clients, Deliver(c) PROVE IInv'
  BY <1>4, HandleInv DEF Deliver
<1>5. CASE Mesh_Tid_TimeProc
  <2>1. due' \in [Clients -> 0 .. RETRY]
    BY <1>5, WaitedType DEF Mesh_Tid_TimeProc, IInv
  <2>2. s_ulTick' \in Ticks /\ since' \in 0 .. WRAP
    BY <1>5, Wraps, LaterType DEF Mesh_Tid_TimeProc, Pass, IInv, TypeOK
  <2>3. Dated'
    BY <1>5, DatedTick DEF Mesh_Tid_TimeProc, Pass
  <2> QED  BY <1>5, <2>1, <2>2, <2>3 DEF Mesh_Tid_TimeProc, IInv, TypeOK
<1>6. CASE UNCHANGED vars  BY <1>6 DEF IInv, TypeOK, Dated, vars
<1> QED  BY <1>1, <1>2, <1>3, <1>4, <1>5, <1>6 DEF Next, Transmit

LEMMA Invariant == Spec => []IInv
BY Initial, NextInv, PTL DEF Spec

\* Every field keeps its width.
THEOREM TypeCorrect == Spec => []TypeOK
BY Invariant, PTL DEF IInv

(***************************************************************************)
(* What the tracker takes and refuses                                      *)
(***************************************************************************)
LEMMA Judged ==
  ASSUME IInv, NEW c \in Clients, NEW a \in {0, 1}, NEW b \in {0, 1}, Handle(c, a, b)
  PROVE  /\ tracker'.new_transaction /\ Same(c) =>
              since + Minus(s_ulTick', s_ulTick) >= WINDOW
         /\ ~tracker'.new_transaction =>
              Same(c) /\ (since <= WINDOW \/ since >= WRAP - 1)
<1> USE DEF IInv
<1>1. a \in 0 .. 1 /\ b \in 0 .. 1 /\ a + b \in 0 .. 1  BY DEF Handle
<1>2. /\ s_ulTick \in Ticks /\ tracker.ulTime \in Ticks /\ since \in 0 .. WRAP
      /\ Plus(s_ulTick, a) \in Ticks /\ Plus(s_ulTick, a + b) \in Ticks
  BY <1>1, Wraps DEF TypeOK
<1>3. /\ tracker'.new_transaction /\ Same(c) =>
           Check_Tid_Time(tracker.ulTime, s_ulTick, Plus(s_ulTick, a))
      /\ ~tracker'.new_transaction =>
           Same(c) /\ ~Check_Tid_Time(tracker.ulTime, s_ulTick, Plus(s_ulTick, a))
  BY <1>2, TrackerStep DEF Handle
<1>4. Minus(s_ulTick', s_ulTick) = a + b
  <2>1. s_ulTick' = IF s_ulTick = WRAP - 1 /\ a + b = 1 THEN 0 ELSE s_ulTick + (a + b)
    BY <1>1, <1>2, Wraps DEF Handle, Pass
  <2> QED  BY <1>1, <1>2, <2>1, ClockAssumption DEF Minus, Ticks
<1>5. CASE since < WRAP
  <2>1. since \in 0 .. WRAP - 1
    BY <1>2, <1>5, ClockAssumption
  <2>2. since = IF tracker.ulTime <= s_ulTick THEN s_ulTick - tracker.ulTime
                                              ELSE s_ulTick + WRAP - tracker.ulTime
    BY <1>5 DEF Dated
  <2>3. /\ Check_Tid_Time(tracker.ulTime, s_ulTick, Plus(s_ulTick, a)) => since + a >= WINDOW
        /\ since < WRAP - 1 /\ ~Check_Tid_Time(tracker.ulTime, s_ulTick, Plus(s_ulTick, a))
             => since <= WINDOW
    BY <1>1, <1>2, <2>1, <2>2, Age
  <2> QED  BY <1>1, <1>2, <1>3, <1>4, <2>1, <2>3, ClockAssumption
<1>6. CASE since = WRAP
  BY <1>1, <1>3, <1>4, <1>6, ClockAssumption
<1> QED  BY <1>2, <1>5, <1>6, ClockAssumption

\* A repeat within the window is never carried out, for any clock and window.
THEOREM TakenOnceHolds == Spec => TakenOnce
<1>1. ASSUME IInv, [Next]_vars
      PROVE  [\A c \in Clients :
               Taken(c) /\ Same(c) => since + Minus(s_ulTick', s_ulTick) >= WINDOW]_vars
  BY <1>1, Judged DEF Taken, Deliver
<1> QED  BY <1>1, Invariant, PTL DEF Spec, TakenOnce

\* Only a repeat of the last message taken, within its window, is refused.
THEOREM RefusedIsRepeatHolds == Spec => RefusedIsRepeat
<1>1. ASSUME IInv, [Next]_vars
      PROVE  [\A c \in Clients :
               Refused(c) => Same(c) /\ (since <= WINDOW \/ since >= WRAP - 1)]_vars
  BY <1>1, Judged DEF Refused, Deliver
<1> QED  BY <1>1, Invariant, PTL DEF Spec, RefusedIsRepeat
=============================================================================
