----------------------------- MODULE Links_proofs -----------------------------
(***************************************************************************)
(* Proofs about Links for any number of link indices, of queued events and *)
(* frames, and of connection attempts.                                     *)
(***************************************************************************)
EXTENDS Links, SequenceTheorems, TLAPS

Positions == 1 .. Len(events)
Own(i) == link[i] = "own"
IsDrop(e, i) == e.type \in {"drop", "failed"} /\ e.idx = i

-----------------------------------------------------------------------------
(* The inductive invariant.  What the lamp knows of its own link lags behind *)
(* the stack by what is in the queue.                                        *)

Alone == \A i, j \in Idx : Own(i) /\ Own(j) => i = j
Quiet == adv => ~adv_stopped /\ \A i \in Idx : ~Own(i)

\* The end of the advertising follows its connection at once, and is not yet known.
Ending ==
  \A k \in Positions : events[k].type = "advEnd" =>
    /\ ~adv_stopped
    /\ \E i \in Idx : Own(i) /\ IF k = 1 THEN slave_link_conidx_tmp = i
                                          ELSE events[k - 1] = EventOf("raw", i)
OneEnd ==
  \A k, m \in Positions : events[k].type = "advEnd" /\ events[m].type = "advEnd" => k = m

\* Once it is known, the index is that of the link.
Settled ==
  \A i \in Idx : Own(i) /\ (\A k \in Positions : events[k].type # "advEnd")
                   => adv_stopped /\ slave_link_conidx = i

\* A loss is told once, after the connection and before the index is free again.
Drops ==
  \A k \in Positions : \A i \in Idx : IsDrop(events[k], i) =>
    /\ link[i] # "none"
    /\ \A m \in Positions : IsDrop(events[m], i) => m = k
    /\ Own(i) => \A m \in Positions : events[m].type = "advEnd" => m < k

First ==
  \A k \in Positions : events[k].type = "ready" =>
    k = 1 /\ ~adv /\ ~adv_stopped /\ \A i \in Idx : ~Own(i)

LinkInv == Alone /\ Quiet /\ Ending /\ OneEnd /\ Settled /\ Drops /\ First

\* A lamp that starts with a binding to the mesh but no network has no client that
\* could change the binding.
Waiting ==
  mesh # "in" /\ bound = AMANZON =>
    /\ ~adv /\ \A i \in Idx : ~Own(i)
    /\ \A k \in Positions : events[k].type # "frame"
Served ==
  \/ mesh = "in" \/ bound = AMANZON \/ adv \/ \E i \in Idx : Own(i)
  \/ \E k \in Positions : events[k].type = "ready"

\* Frames left behind by a client are handled before the next one is let in.
Behind ==
  ~asking => \A k \in Positions : events[k].type = "frame" =>
    ntf = 0 /\ \A i \in Idx : Own(i) => \E m \in Positions : m > k /\ events[m] = EventOf("raw", i)

IInv == TypeOK /\ LinkInv /\ Waiting /\ Served /\ Behind /\ tx # "stale"

-----------------------------------------------------------------------------
(* The queue                                                                 *)

LEMMA Fields ==
  /\ \A t \in {"raw", "master", "found", "missing", "drop", "failed"}, i \in Idx :
       EventOf(t, i) \in Event /\ EventOf(t, i).type = t /\ EventOf(t, i).idx = i
  /\ \A t \in {"ready", "advEnd", "frame"} : Event1(t) \in Event /\ Event1(t).type = t
  /\ \A e \in Event :
       /\ e.type \in {"ready", "advEnd", "frame"} => e = Event1(e.type)
       /\ e.type \in {"raw", "master", "found", "missing", "drop", "failed"}
            => e.idx \in Idx /\ e = EventOf(e.type, e.idx)
       /\ e.type \in {"ready", "advEnd", "frame", "raw", "master", "found", "missing", "drop", "failed"}
BY DEF Event, EventOf, Event1

\* s messages were taken from the front, and at most one appended.
Queue(s) ==
  /\ events' \in Seq(Event) /\ Len(events) \in Nat /\ s <= Len(events)
  /\ Len(events') \in {Len(events) - s, Len(events) - s + 1}
  /\ \A k \in 1 .. Len(events) - s : events'[k] = events[k + s]
New(s) == Len(events') = Len(events) - s + 1
Newest == events'[Len(events')]

LEMMA Appended ==
  ASSUME events \in Seq(Event), NEW e \in Event, events' = Append(events, e)
  PROVE  Queue(0) /\ New(0) /\ Newest = e
<1>1. /\ events' \in Seq(Event) /\ Len(events') = Len(events) + 1 /\ Len(events) \in Nat
      /\ \A k \in 1 .. Len(events) : events'[k] = events[k]
      /\ events'[Len(events) + 1] = e
  BY AppendProperties, LenProperties
<1> QED
  BY <1>1 DEF Queue, New, Newest

LEMMA Unmoved ==
  ASSUME events \in Seq(Event), events' = events
  PROVE  Queue(0) /\ ~New(0)
<1>1. Len(events) \in Nat
  BY LenProperties
<1> QED
  BY <1>1 DEF Queue, New

LEMMA Taken ==
  ASSUME events \in Seq(Event), events # <<>>, Take(<<>>)
  PROVE  Queue(1) /\ ~New(1) /\ Head(events) = events[1] /\ 1 \in Positions
<1>1. /\ Tail(events) \in Seq(Event) /\ Len(Tail(events)) = Len(events) - 1
      /\ \A k \in 1 .. Len(Tail(events)) : Tail(events)[k] = events[k + 1]
      /\ Len(events) \in Nat \ {0}
  BY HeadTailProperties, EmptySeq
<1>2. events' = Tail(events)
  <2>1. Tail(events) \o <<>> = Tail(events)
    BY <1>1, ConcatEmptySeq, Zenon
  <2> QED
    BY <2>1 DEF Take
<1>3. Head(events) = events[1]
  OBVIOUS
<1>4. /\ events' \in Seq(Event) /\ Len(events') = Len(events) - 1
      /\ \A k \in 1 .. Len(events') : events'[k] = events[k + 1]
  BY <1>1, <1>2, Zenon
<1>5. Len(events) \in Nat \ {0}
  BY <1>1
<1> QED
  BY <1>3, <1>4, <1>5 DEF Queue, New, Positions

LEMMA TakenAndAppended ==
  ASSUME events \in Seq(Event), events # <<>>, NEW e \in Event, Take(<<e>>)
  PROVE  Queue(1) /\ New(1) /\ Newest = e /\ Head(events) = events[1] /\ 1 \in Positions
<1>1. /\ Tail(events) \in Seq(Event) /\ Len(Tail(events)) = Len(events) - 1
      /\ \A k \in 1 .. Len(Tail(events)) : Tail(events)[k] = events[k + 1]
      /\ Len(events) \in Nat \ {0}
  BY HeadTailProperties, EmptySeq
<1>2. events' = Append(Tail(events), e)
  BY <1>1, AppendIsConcat DEF Take
<1>3. /\ events' \in Seq(Event) /\ Len(events') = Len(Tail(events)) + 1
      /\ \A k \in 1 .. Len(Tail(events)) : events'[k] = Tail(events)[k]
      /\ events'[Len(Tail(events)) + 1] = e
  BY <1>1, <1>2, AppendProperties
<1>4. Head(events) = events[1]
  OBVIOUS
<1> QED
  BY <1>1, <1>3, <1>4 DEF Queue, New, Newest, Positions

\* The position in the old queue of a message in the new one.
LEMMA Came ==
  ASSUME NEW s \in {0, 1}, Queue(s), NEW k \in Positions'
  PROVE  \/ k + s \in Positions /\ events'[k] = events[k + s]
         \/ New(s) /\ k = Len(events') /\ events'[k] = Newest /\ k = Len(events) - s + 1
BY DEF Queue, New, Newest, Positions

LEMMA Stays ==
  ASSUME NEW s \in {0, 1}, Queue(s), NEW k \in Positions, k > s
  PROVE  k - s \in Positions' /\ events'[k - s] = events[k]
<1>1. k - s \in 1 .. Len(events) - s /\ (k - s) + s = k
  BY DEF Queue, Positions
<1>2. events'[k - s] = events[(k - s) + s]
  BY <1>1 DEF Queue
<1>3. k - s \in Positions'
  BY <1>1 DEF Queue, Positions
<1> QED
  BY <1>1, <1>2, <1>3

LEMMA LiveMeans ==
  ASSUME TypeOK, NEW i \in Idx, Live(i)
  PROVE  link[i] # "none" /\ \A k \in Positions : ~IsDrop(events[k], i)
<1>1. ASSUME NEW k \in Positions, IsDrop(events[k], i) PROVE FALSE
  <2>1. events[k] \in Event
    BY DEF TypeOK, Positions
  <2>2. events[k] = EventOf(events[k].type, events[k].idx)
    BY <1>1, <2>1, Fields DEF IsDrop
  <2>3. events[k] \in {EventOf("drop", i), EventOf("failed", i)}
    BY <1>1, <2>2 DEF IsDrop
  <2> QED
    BY <2>3 DEF Live, Lost, Positions
<1> QED
  BY <1>1 DEF Live

-----------------------------------------------------------------------------
(* Most steps pass messages on and leave the lamp's own links alone.         *)

Plain(s) ==
  /\ Queue(s)
  /\ New(s) => /\ Newest.type \notin {"ready", "advEnd"}
               /\ \A i \in Idx : IsDrop(Newest, i) => Live(i)
  /\ \A k \in Positions' : \A i \in Idx : IsDrop(events'[k], i) =>
       (link[i] # "none" => link'[i] # "none") /\ (link'[i] = "own" => Own(i))

SameOwn == \A i \in Idx : link'[i] = "own" <=> Own(i)

Passed(s) ==
  /\ Plain(s) /\ SameOwn
  /\ s = 1 => /\ 1 \in Positions /\ events[1].type \notin {"ready", "advEnd"}
              /\ \A i \in Idx : events[1] = EventOf("raw", i) => slave_link_conidx_tmp' = i
  /\ s = 0 => slave_link_conidx_tmp' = slave_link_conidx_tmp
  /\ UNCHANGED <<adv, adv_stopped, slave_link_conidx>>

\* A message that was not just posted was there before, and of the same kind.
LEMMA Older ==
  ASSUME NEW s \in {0, 1}, Plain(s), NEW k \in Positions', events'[k].type \in {"ready", "advEnd"}
  PROVE  k + s \in Positions /\ events'[k] = events[k + s]
BY Came DEF Plain

LEMMA FlowEnding ==
  ASSUME LinkInv, NEW s \in {0, 1}, Passed(s)
  PROVE  Ending'
<1> SUFFICES ASSUME NEW k \in Positions', events'[k].type = "advEnd"
             PROVE  /\ ~adv_stopped'
                    /\ \E i \in Idx : link'[i] = "own" /\ IF k = 1 THEN slave_link_conidx_tmp' = i
                                                            ELSE events'[k - 1] = EventOf("raw", i)
  BY DEF Ending, Own
<1>1. PICK n \in Positions : n = k + s /\ events[n].type = "advEnd"
  BY Older DEF Passed
<1>2. PICK i \in Idx : Own(i) /\ IF n = 1 THEN slave_link_conidx_tmp = i
                                   ELSE events[n - 1] = EventOf("raw", i)
  BY <1>1 DEF LinkInv, Ending
<1>3. ~adv_stopped' /\ link'[i] = "own"
  BY <1>1, <1>2 DEF LinkInv, Ending, Passed, SameOwn
<1>4. k \in Nat \ {0} /\ n \in Nat /\ s \in {0, 1}
  BY DEF Positions
<1>5. CASE k = 1 /\ s = 0
  BY <1>1, <1>2, <1>3, <1>5 DEF Passed
<1>6. CASE k = 1 /\ s = 1
  <2>1. n # 1 /\ n - 1 = 1
    BY <1>1, <1>6
  <2>2. events[1] = EventOf("raw", i)
    BY <1>2, <2>1
  <2> QED
    BY <1>3, <1>6, <2>2 DEF Passed
<1>7. CASE k > 1
  <2>1. PICK m \in Positions : m = n - 1 /\ m > s /\ m - s = k - 1 /\ n # 1
    BY <1>1, <1>4, <1>7 DEF Positions
  <2>2. events'[m - s] = events[m]
    BY <2>1, Stays DEF Passed, Plain
  <2>3. events[m] = EventOf("raw", i)
    BY <1>2, <2>1
  <2>4. k # 1 /\ events'[k - 1] = events[m]
    BY <1>4, <1>7, <2>1, <2>2
  <2> QED
    BY <1>3, <2>3, <2>4
<1> QED
  BY <1>4, <1>5, <1>6, <1>7

LEMMA FlowDrops ==
  ASSUME TypeOK, Drops, NEW s \in {0, 1}, Plain(s)
  PROVE  Drops'
<1> SUFFICES ASSUME NEW k \in Positions', NEW i \in Idx, IsDrop(events'[k], i)
             PROVE  /\ link'[i] # "none"
                    /\ \A m \in Positions' : IsDrop(events'[m], i) => m = k
                    /\ link'[i] = "own" => \A m \in Positions' : events'[m].type = "advEnd" => m < k
  BY DEF Drops, Own, IsDrop
<1>1. CASE k + s \in Positions /\ events'[k] = events[k + s]
  <2>1. /\ link[i] # "none" /\ \A m \in Positions : IsDrop(events[m], i) => m = k + s
        /\ Own(i) => \A m \in Positions : events[m].type = "advEnd" => m < k + s
    BY <1>1 DEF Drops
  <2>2. ASSUME NEW m \in Positions', IsDrop(events'[m], i) PROVE m = k
    <3>1. CASE m + s \in Positions /\ events'[m] = events[m + s]
      <4>1. m + s = k + s
        BY <2>1, <2>2, <3>1
      <4> QED
        BY <4>1 DEF Positions
    <3>2. CASE New(s) /\ events'[m] = Newest
      <4>1. Live(i)
        BY <2>2, <3>2 DEF Plain
      <4> QED
        BY <1>1, <4>1, LiveMeans
    <3> QED
      BY <3>1, <3>2, Came DEF Plain
  <2>3. ASSUME link'[i] = "own", NEW m \in Positions', events'[m].type = "advEnd" PROVE m < k
    <3>1. m + s \in Positions /\ events[m + s].type = "advEnd" /\ Own(i)
      BY <2>3, Older DEF Plain
    <3>2. m + s < k + s
      BY <2>1, <3>1
    <3> QED
      BY <3>2 DEF Positions
  <2> QED
    BY <1>1, <2>1, <2>2, <2>3 DEF Plain
<1>2. CASE New(s) /\ k = Len(events') /\ events'[k] = Newest /\ k = Len(events) - s + 1
  <2>1. Live(i)
    BY <1>2 DEF Plain
  <2>2. link[i] # "none" /\ \A m \in Positions : ~IsDrop(events[m], i)
    BY <2>1, LiveMeans
  <2>3. ASSUME NEW m \in Positions', IsDrop(events'[m], i) PROVE m = k
    BY <1>2, <2>2, <2>3, Came DEF Plain
  <2>4. ASSUME NEW m \in Positions', events'[m].type = "advEnd" PROVE m < k
    <3>1. m + s \in Positions
      BY <2>4, Older
    <3> QED
      BY <1>2, <3>1 DEF Positions, Plain, Queue
  <2> QED
    BY <2>2, <2>3, <2>4 DEF Plain
<1> QED
  BY <1>1, <1>2, Came DEF Plain

LEMMA FlowLinks ==
  ASSUME TypeOK, LinkInv, NEW s \in {0, 1}, Passed(s)
  PROVE  LinkInv'
<1>1. Alone' /\ Quiet'
  BY DEF LinkInv, Alone, Quiet, Own, Passed, SameOwn
<1>2. OneEnd'
  <2> SUFFICES ASSUME NEW k \in Positions', NEW m \in Positions',
                      events'[k].type = "advEnd", events'[m].type = "advEnd"
               PROVE  k = m
    BY DEF OneEnd
  <2>1. k + s \in Positions /\ events[k + s].type = "advEnd"
    BY Older DEF Passed
  <2>2. m + s \in Positions /\ events[m + s].type = "advEnd"
    BY Older DEF Passed
  <2>3. k + s = m + s
    BY <2>1, <2>2 DEF LinkInv, OneEnd
  <2> QED
    BY <2>3 DEF Positions
<1>3. Settled'
  <2> SUFFICES ASSUME NEW i \in Idx, link'[i] = "own",
                      \A k \in Positions' : events'[k].type # "advEnd"
               PROVE  adv_stopped' /\ slave_link_conidx' = i
    BY DEF Settled, Own
  <2>1. ASSUME NEW k \in Positions, events[k].type = "advEnd" PROVE FALSE
    <3>1. k > s
      BY <2>1 DEF Passed, Positions
    <3>2. k - s \in Positions' /\ events'[k - s] = events[k]
      BY <3>1, Stays DEF Passed, Plain
    <3> QED
      BY <2>1, <3>2
  <2> QED
    BY <2>1 DEF LinkInv, Settled, Passed, SameOwn
<1>4. First'
  <2> SUFFICES ASSUME NEW k \in Positions', events'[k].type = "ready"
               PROVE  k = 1 /\ ~adv' /\ ~adv_stopped' /\ \A i \in Idx : link'[i] # "own"
    BY DEF First, Own
  <2>1. k + s \in Positions /\ events[k + s].type = "ready"
    BY Older DEF Passed
  <2>2. k + s = 1 /\ ~adv /\ ~adv_stopped /\ \A i \in Idx : ~Own(i)
    BY <2>1 DEF LinkInv, First
  <2> QED
    BY <2>2 DEF Passed, SameOwn, Positions
<1>5. Ending' /\ Drops'
  BY FlowEnding, FlowDrops DEF LinkInv, Passed
<1> QED
  BY <1>1, <1>2, <1>3, <1>4, <1>5 DEF LinkInv

\* The same for what is said of the binding and of frames.
LEMMA FlowServed ==
  ASSUME LinkInv, Waiting, Served, NEW s \in {0, 1}, Queue(s), SameOwn,
         New(s) => Newest.type # "frame",
         s = 1 => 1 \in Positions /\ events[1].type # "ready",
         UNCHANGED <<adv, bound, mesh>>
  PROVE  Waiting' /\ Served'
<1>1. ASSUME NEW k \in Positions', events'[k].type = "frame"
      PROVE  k + s \in Positions /\ events[k + s].type = "frame"
  BY <1>1, Came
<1>2. Waiting'
  <2>1. CASE mesh = "in" \/ bound # AMANZON
    BY <2>1 DEF Waiting
  <2>2. CASE mesh # "in" /\ bound = AMANZON
    <3>1. ~adv /\ (\A i \in Idx : ~Own(i)) /\ \A k \in Positions : events[k].type # "frame"
      BY <2>2, Zenon DEF Waiting
    <3>2. ~adv' /\ \A i \in Idx : link'[i] # "own"
      BY <3>1 DEF SameOwn
    <3>3. \A k \in Positions' : events'[k].type # "frame"
      BY <1>1, <3>1
    <3> QED
      BY <3>2, <3>3 DEF Waiting, Own
  <2> QED
    BY <2>1, <2>2
<1>3. Served'
  <2>1. CASE mesh = "in" \/ bound = AMANZON \/ adv
    BY <2>1 DEF Served
  <2>2. CASE \E i \in Idx : Own(i)
    BY <2>2 DEF Served, SameOwn, Own
  <2>3. ASSUME NEW k \in Positions, events[k].type = "ready" PROVE Served'
    <3>1. k = 1
      BY <2>3 DEF LinkInv, First
    <3>2. s = 0
      BY <2>3, <3>1
    <3>3. k > s /\ k - s = k
      BY <3>1, <3>2
    <3>4. k \in Positions' /\ events'[k] = events[k]
      BY <3>3, Stays
    <3> QED
      BY <2>3, <3>4 DEF Served
  <2> QED
    BY <2>1, <2>2, <2>3 DEF Served
<1> QED
  BY <1>2, <1>3

LEMMA FlowBehind ==
  ASSUME Behind, NEW s \in {0, 1}, Queue(s), New(s) => Newest.type # "frame",
         ntf' \in {ntf, 0}, asking' = asking, \A i \in Idx : link'[i] = "own" => Own(i)
  PROVE  Behind'
<1> SUFFICES ASSUME ~asking', NEW k \in Positions', events'[k].type = "frame"
             PROVE  /\ ntf' = 0
                    /\ \A i \in Idx : link'[i] = "own" =>
                         \E m \in Positions' : m > k /\ events'[m] = EventOf("raw", i)
  BY DEF Behind, Own
<1>1. PICK n \in Positions : n = k + s /\ events[n].type = "frame"
  BY Came
<1>2. ntf = 0 /\ \A i \in Idx : Own(i) => \E m \in Positions : m > n /\ events[m] = EventOf("raw", i)
  BY <1>1 DEF Behind
<1>3. ASSUME NEW i \in Idx, link'[i] = "own"
      PROVE  \E m \in Positions' : m > k /\ events'[m] = EventOf("raw", i)
  <2>1. PICK m \in Positions : m > n /\ events[m] = EventOf("raw", i)
    BY <1>2, <1>3
  <2>2. m > s /\ m - s > k
    BY <1>1, <2>1 DEF Positions
  <2>3. m - s \in Positions' /\ events'[m - s] = events[m]
    BY <2>2, Stays
  <2> QED
    BY <2>1, <2>2, <2>3
<1> QED
  BY <1>2, <1>3

LEMMA NoneBehind ==
  ASSUME \A k \in Positions' : events'[k].type # "frame"
  PROVE  Behind'
BY DEF Behind

-----------------------------------------------------------------------------
(* The steps that open, end or lose one of the lamp's own links.             *)

SafeInv == LinkInv /\ Waiting /\ Served /\ Behind

LEMMA StartSafe ==
  ASSUME events' = <<Event1("ready")>>, link' = [i \in Idx |-> "none"], adv' = FALSE,
         adv_stopped' = FALSE, asking' = FALSE, bound' \in {NONE, GOOGLE, AMANZON}
  PROVE  SafeInv'
<1>1. Positions' = {1} /\ events'[1].type = "ready"
  BY DEF Positions, Event1
<1>2. \A i \in Idx : link'[i] = "none"
  OBVIOUS
<1>3. LinkInv'
  BY <1>1, <1>2 DEF LinkInv, Alone, Quiet, Ending, OneEnd, Settled, Drops, First, IsDrop, Own
<1>4. Waiting' /\ Served'
  BY <1>1, <1>2 DEF Waiting, Served, Own
<1>5. Behind'
  BY <1>1 DEF Behind
<1> QED
  BY <1>3, <1>4, <1>5 DEF SafeInv

LEMMA OwnQueued ==
  ASSUME events \in Seq(Event), NEW i \in Idx, OwnConnect(i)
  PROVE  LET n == Len(events)
         IN  /\ n \in Nat /\ Len(events') = n + 2 /\ events'[n + 1] = EventOf("raw", i)
             /\ events'[n + 2] = Event1("advEnd") /\ \A k \in 1 .. n : events'[k] = events[k]
<1> DEFINE n == Len(events)
           p == EventOf("raw", i)
           q == Event1("advEnd")
           t == <<p, q>>
<1>1. p \in Event /\ q \in Event /\ events' = events \o t
  BY Fields DEF OwnConnect
<1> HIDE DEF p, q
<1>2. t \in Seq(Event) /\ Len(t) = 2 /\ t[1] = p /\ t[2] = q
  BY <1>1
<1> HIDE DEF t
<1>3. n \in Nat
  BY LenProperties
<1>4. /\ Len(events \o t) = n + Len(t)
      /\ \A k \in 1 .. n + Len(t) : (events \o t)[k] = IF k <= n THEN events[k] ELSE t[k - n]
  BY <1>2, ConcatProperties
<1> HIDE DEF n
<1>5. Len(events') = n + 2 /\ \A k \in 1 .. n + 2 : events'[k] = IF k <= n THEN events[k] ELSE t[k - n]
  BY <1>1, <1>2, <1>4
<1>6. events'[n + 1] = t[1] /\ events'[n + 2] = t[2]
  <2>1. n + 1 \in 1 .. n + 2 /\ ~(n + 1 <= n) /\ (n + 1) - n = 1
    BY <1>3
  <2>2. n + 2 \in 1 .. n + 2 /\ ~(n + 2 <= n) /\ (n + 2) - n = 2
    BY <1>3
  <2> QED
    BY <1>5, <2>1, <2>2
<1>7. \A k \in 1 .. n : events'[k] = events[k]
  BY <1>3, <1>5
<1>8. /\ n \in Nat /\ Len(events') = n + 2 /\ events'[n + 1] = p
      /\ events'[n + 2] = q /\ \A k \in 1 .. n : events'[k] = events[k]
  BY <1>2, <1>3, <1>5, <1>6, <1>7
<1> QED
  BY <1>8 DEF n, p, q

LEMMA OwnConnectSafe ==
  ASSUME TypeOK, SafeInv, NEW i \in Idx, OwnConnect(i)
  PROVE  SafeInv'
<1> DEFINE n == Len(events)
<1>1. /\ n \in Nat /\ Len(events') = n + 2 /\ events'[n + 1] = EventOf("raw", i)
      /\ events'[n + 2] = Event1("advEnd") /\ \A k \in 1 .. n : events'[k] = events[k]
  BY OwnQueued DEF TypeOK
<1> HIDE DEF n
<1>2. /\ adv /\ link[i] = "none" /\ link' = [link EXCEPT ![i] = "own"] /\ ~adv'
      /\ UNCHANGED <<bound, mesh, adv_stopped, ntf, asking>>
  BY Zenon DEF OwnConnect, own, google
<1>3. ~adv_stopped /\ \A j \in Idx : ~Own(j)
  BY <1>2 DEF SafeInv, LinkInv, Quiet
<1>4. \A k \in Positions : events[k].type \notin {"ready", "advEnd"}
  BY <1>2, <1>3 DEF SafeInv, LinkInv, Ending, First
<1>5. \A j \in Idx : link'[j] = IF j = i THEN "own" ELSE link[j]
  BY <1>2 DEF TypeOK
<1>6. /\ events'[n + 1].type = "raw" /\ events'[n + 2].type = "advEnd"
      /\ \A k \in Positions' : k \in Positions \/ k = n + 1 \/ k = n + 2
      /\ n + 1 \in Positions' /\ n + 2 \in Positions'
  BY <1>1, Fields DEF Positions, n
<1>7. \A k \in Positions : k \in 1 .. n /\ events'[k] = events[k]
  BY <1>1 DEF Positions, n
<1>8. \A k \in Positions' : events'[k].type = "advEnd" => k = n + 2
  BY <1>4, <1>6, <1>7
<1>9. Alone' /\ Quiet'
  BY <1>2, <1>3, <1>5 DEF Alone, Quiet, Own
<1>10. Ending' /\ OneEnd'
  <2>1. n + 2 # 1 /\ (n + 2) - 1 = n + 1
    BY <1>1
  <2>2. Ending'
    BY <1>1, <1>2, <1>3, <1>5, <1>8, <2>1 DEF Ending, Own
  <2> QED
    BY <1>8, <2>2 DEF OneEnd
<1>11. Settled'
  BY <1>3, <1>5, <1>6 DEF Settled, Own
<1>12. Drops'
  <2> SUFFICES ASSUME NEW k \in Positions', NEW j \in Idx, IsDrop(events'[k], j)
               PROVE  /\ link'[j] # "none" /\ link'[j] # "own"
                      /\ \A m \in Positions' : IsDrop(events'[m], j) => m = k
    BY DEF Drops, Own, IsDrop
  <2>1. k \in Positions /\ IsDrop(events[k], j)
    BY <1>6, <1>7 DEF IsDrop
  <2>2. link[j] # "none" /\ \A m \in Positions : IsDrop(events[m], j) => m = k
    BY <2>1 DEF SafeInv, LinkInv, Drops
  <2>3. j # i
    BY <1>2, <2>2
  <2>4. \A m \in Positions' : IsDrop(events'[m], j) => m = k
    BY <1>6, <1>7, <2>2 DEF IsDrop
  <2> QED
    BY <1>3, <1>5, <2>2, <2>3, <2>4 DEF Own
<1>13. First'
  BY <1>4, <1>6, <1>7 DEF First
<1>14. Waiting' /\ Served'
  BY <1>2, <1>5 DEF SafeInv, Waiting, Served, Own
<1>15. Behind'
  <2> SUFFICES ASSUME ~asking, NEW k \in Positions', events'[k].type = "frame"
               PROVE  /\ ntf = 0
                      /\ \A j \in Idx : link'[j] = "own" =>
                           \E m \in Positions' : m > k /\ events'[m] = EventOf("raw", j)
    BY <1>2 DEF Behind, Own
  <2>1. k \in Positions /\ events[k].type = "frame"
    BY <1>6, <1>7
  <2>2. ntf = 0
    BY <2>1 DEF SafeInv, Behind
  <2>3. ASSUME NEW j \in Idx, link'[j] = "own"
        PROVE  \E m \in Positions' : m > k /\ events'[m] = EventOf("raw", j)
    <3>1. j = i
      BY <1>3, <1>5, <2>3 DEF Own
    <3>2. n + 1 > k
      BY <1>1, <1>7, <2>1
    <3> QED
      BY <1>1, <1>6, <3>1, <3>2
  <2> QED
    BY <2>2, <2>3
<1> QED
  BY <1>9, <1>10, <1>11, <1>12, <1>13, <1>14, <1>15 DEF SafeInv, LinkInv

LEMMA AllSvcAddedSafe ==
  ASSUME TypeOK, SafeInv, events # <<>>, events[1].type = "ready", AllSvcAdded, Take(<<>>)
  PROVE  SafeInv'
<1>1. Queue(1) /\ ~New(1) /\ 1 \in Positions
  BY Taken DEF TypeOK
<1>2. ~adv /\ ~adv_stopped /\ \A i \in Idx : ~Own(i)
  BY <1>1 DEF SafeInv, LinkInv, First
<1>3. UNCHANGED <<link, mesh, slave_link_conidx, ntf, asking>>
  BY Zenon DEF AllSvcAdded, google
<1>4. \/ bound # AMANZON /\ adv' /\ bound' = NONE /\ ~adv_stopped'
      \/ bound = AMANZON /\ UNCHANGED <<adv, bound, adv_stopped>>
  BY Zenon DEF AllSvcAdded, StartAdvertising
<1>5. \A k \in Positions' : k + 1 \in Positions /\ events'[k] = events[k + 1]
  BY <1>1, Came
<1>6. \A k \in Positions' : events'[k].type \notin {"ready", "advEnd"}
  <2> SUFFICES ASSUME NEW k \in Positions', events'[k].type \in {"ready", "advEnd"} PROVE FALSE
    OBVIOUS
  <2>1. PICK m \in Positions : m = k + 1 /\ events[m].type \in {"ready", "advEnd"}
    BY <1>5
  <2>2. events[m].type = "ready" => m = 1
    BY DEF SafeInv, LinkInv, First
  <2>3. events[m].type # "advEnd"
    BY <1>2 DEF SafeInv, LinkInv, Ending
  <2> QED
    BY <2>1, <2>2, <2>3 DEF Positions
<1>7. Drops'
  <2>1. Plain(1)
    BY <1>1, <1>3 DEF Plain, Own
  <2> QED
    BY <2>1, FlowDrops DEF SafeInv, LinkInv
<1>8. LinkInv'
  BY <1>2, <1>3, <1>4, <1>6, <1>7 DEF LinkInv, Alone, Quiet, Ending, OneEnd, Settled, First, Own
<1>9. Waiting' /\ Served'
  <2>1. CASE bound # AMANZON
    BY <1>4, <2>1, ProvAssumption DEF Waiting, Served
  <2>2. CASE bound = AMANZON
    <3>1. UNCHANGED <<adv, bound>>
      BY <1>4, <2>2
    <3>2. \A k \in Positions' : mesh # "in" => events'[k].type # "frame"
      BY <1>5, <2>2 DEF SafeInv, Waiting
    <3> QED
      BY <1>2, <1>3, <2>2, <3>1, <3>2 DEF Waiting, Served, Own
  <2> QED
    BY <2>1, <2>2
<1>10. Behind'
  BY <1>1, <1>3, FlowBehind DEF SafeInv, Own
<1> QED
  BY <1>8, <1>9, <1>10 DEF SafeInv

LEMMA AdvEndSafe ==
  ASSUME TypeOK, SafeInv, events # <<>>, events[1].type = "advEnd", AdvEnd, Take(<<>>)
  PROVE  SafeInv'
<1>1. Queue(1) /\ ~New(1) /\ 1 \in Positions
  BY Taken DEF TypeOK
<1>2. PICK i \in Idx : Own(i) /\ slave_link_conidx_tmp = i
  BY <1>1 DEF SafeInv, LinkInv, Ending
<1>3. /\ UNCHANGED <<link, adv, mesh, bound, ntf, asking>>
      /\ adv_stopped' /\ slave_link_conidx' = i
  BY <1>2, Zenon DEF AdvEnd, google, air
<1>4. \A j \in Idx : Own(j) => j = i
  BY <1>2 DEF SafeInv, LinkInv, Alone
<1>5. \A k \in Positions' : k + 1 \in Positions /\ events'[k] = events[k + 1]
  BY <1>1, Came
<1>6. \A k \in Positions' : events'[k].type \notin {"ready", "advEnd"}
  <2> SUFFICES ASSUME NEW k \in Positions', events'[k].type \in {"ready", "advEnd"} PROVE FALSE
    OBVIOUS
  <2>1. PICK m \in Positions : m = k + 1 /\ events[m].type \in {"ready", "advEnd"}
    BY <1>5
  <2>2. m = 1
    BY <1>1, <2>1 DEF SafeInv, LinkInv, First, OneEnd
  <2> QED
    BY <2>1, <2>2 DEF Positions
<1>7. Plain(1) /\ SameOwn
  BY <1>1, <1>3 DEF Plain, Own, SameOwn
<1>8. Drops'
  BY <1>7, FlowDrops DEF SafeInv, LinkInv
<1>9. ~adv
  BY <1>2 DEF SafeInv, LinkInv, Quiet
<1>10. LinkInv'
  BY <1>3, <1>4, <1>6, <1>8, <1>9 DEF LinkInv, Alone, Quiet, Ending, OneEnd, Settled, First, Own
<1>11. Waiting' /\ Served'
  BY <1>1, <1>3, <1>7, FlowServed DEF SafeInv
<1>12. Behind'
  BY <1>1, <1>3, FlowBehind DEF SafeInv, Own
<1> QED
  BY <1>10, <1>11, <1>12 DEF SafeInv

LEMMA DisconnectSafe ==
  ASSUME TypeOK, SafeInv, events # <<>>, NEW i \in Idx, IsDrop(events[1], i),
         NEW failed \in BOOLEAN, Disconnect(i, failed), Take(<<>>)
  PROVE  SafeInv'
<1>1. Queue(1) /\ ~New(1) /\ 1 \in Positions
  BY Taken DEF TypeOK
<1>2. /\ link' = [link EXCEPT ![i] = "none"] /\ ntf' = 0 /\ UNCHANGED <<mesh, slave_link_conidx_tmp>>
      /\ asking' = (asking /\ link[i] # "own")
  BY Zenon DEF Disconnect, LinkLostNtf
<1>3. \A j \in Idx : link'[j] = IF j = i THEN "none" ELSE link[j]
  BY <1>2 DEF TypeOK
<1>4. \A k \in Positions : k # 1 => ~IsDrop(events[k], i)
  BY <1>1 DEF SafeInv, LinkInv, Drops
<1>5. Own(i) => \A k \in Positions : events[k].type # "advEnd"
  BY <1>1 DEF SafeInv, LinkInv, Drops, Positions
<1>6. \A k \in Positions' : k + 1 \in Positions /\ k + 1 # 1 /\ events'[k] = events[k + 1]
  <2>1. \A k \in Positions' : k + 1 \in Positions /\ events'[k] = events[k + 1]
    BY <1>1, Came
  <2> QED
    BY <2>1 DEF Positions
<1>7. Plain(1)
  <2>1. ASSUME NEW k \in Positions', NEW j \in Idx, IsDrop(events'[k], j) PROVE j # i
    BY <1>4, <1>6, <2>1
  <2> QED
    BY <1>1, <1>3, <2>1 DEF Plain, Own
<1>8. Drops'
  BY <1>7, FlowDrops DEF SafeInv, LinkInv
<1>9. \A k \in Positions' : events'[k].type # "ready"
  BY <1>6 DEF SafeInv, LinkInv, First
<1>10. Behind'
  <2>1. CASE asking' = asking
    BY <1>1, <1>2, <1>3, <2>1, FlowBehind DEF SafeInv, Own
  <2>2. CASE Own(i)
    <3>1. \A j \in Idx : link'[j] # "own"
      BY <1>3, <2>2 DEF SafeInv, LinkInv, Alone, Own
    <3> QED
      BY <1>2, <3>1 DEF Behind, Own
  <2>3. ~Own(i) => asking' = asking
    BY <1>2 DEF Own, TypeOK
  <2> QED
    BY <2>1, <2>2, <2>3
<1>11. CASE bound # AMANZON /\ Mine(i)
  <2>1. adv' /\ bound' = NONE /\ ~adv_stopped'
    BY <1>11, Zenon DEF Disconnect, StartAdvertising
  <2>2. adv_stopped /\ slave_link_conidx = i
    BY <1>11 DEF Mine
  <2>3. \A k \in Positions : events[k].type # "advEnd"
    BY <2>2 DEF SafeInv, LinkInv, Ending
  <2>4. \A j \in Idx : link'[j] # "own"
    BY <1>3, <2>2, <2>3 DEF SafeInv, LinkInv, Settled, Own
  <2>5. \A k \in Positions' : events'[k].type # "advEnd"
    BY <1>6, <2>3
  <2>6. LinkInv'
    BY <1>8, <1>9, <2>1, <2>4, <2>5 DEF LinkInv, Alone, Quiet, Ending, OneEnd, Settled, First, Own
  <2>7. Waiting' /\ Served'
    BY <2>1, ProvAssumption DEF Waiting, Served
  <2> QED
    BY <1>10, <2>6, <2>7 DEF SafeInv
<1>12. CASE ~(bound # AMANZON /\ Mine(i))
  <2>1. UNCHANGED <<adv, bound, adv_stopped, slave_link_conidx>>
    BY <1>12, Zenon DEF Disconnect
  <2>2. CASE Own(i)
    <3>1. \A j \in Idx : link'[j] # "own"
      BY <1>3, <2>2 DEF SafeInv, LinkInv, Alone, Own
    <3>2. \A k \in Positions' : events'[k].type # "advEnd"
      BY <1>5, <1>6, <2>2
    <3>3. ~adv
      BY <2>2 DEF SafeInv, LinkInv, Quiet
    <3>4. LinkInv'
      BY <1>8, <1>9, <2>1, <3>1, <3>2, <3>3
      DEF LinkInv, Alone, Quiet, Ending, OneEnd, Settled, First, Own
    <3>5. adv_stopped /\ slave_link_conidx = i
      BY <1>5, <2>2 DEF SafeInv, LinkInv, Settled
    <3>6. bound = AMANZON
      BY <1>12, <3>5 DEF Mine
    <3>7. mesh = "in"
      BY <2>2, <3>6 DEF SafeInv, Waiting
    <3>8. Waiting' /\ Served'
      BY <1>2, <3>7 DEF Waiting, Served
    <3> QED
      BY <1>10, <3>4, <3>8 DEF SafeInv
  <2>3. CASE ~Own(i)
    <3>1. SameOwn
      BY <1>3, <2>3 DEF SameOwn, Own
    <3>2. events[1].type \notin {"ready", "advEnd", "raw"}
      BY DEF IsDrop
    <3>3. \A j \in Idx : events[1] # EventOf("raw", j)
      BY <3>2, Fields
    <3>4. Passed(1)
      BY <1>1, <1>7, <2>1, <3>1, <3>2, <3>3 DEF Passed
    <3>5. LinkInv'
      BY <3>4, FlowLinks DEF SafeInv
    <3>6. Waiting' /\ Served'
      BY <1>1, <1>2, <2>1, <3>1, <3>2, FlowServed DEF SafeInv
    <3> QED
      BY <1>10, <3>5, <3>6 DEF SafeInv
  <2> QED
    BY <2>2, <2>3
<1> QED
  BY <1>11, <1>12

-----------------------------------------------------------------------------
(* Types                                                                     *)

\* What the variables other than the queue can hold.
Typed ==
  /\ link \in [Idx -> Use] /\ adv \in BOOLEAN /\ trying \in BOOLEAN
  /\ bound \in {NONE, GOOGLE, AMANZON} /\ mesh \in {"off", "out", "in"}
  /\ adv_stopped \in BOOLEAN
  /\ slave_link_conidx \in Idx \cup {NoIdx} /\ slave_link_conidx_tmp \in Idx \cup {NoIdx}
  /\ ntf \in {0, 1} /\ rx \in Cmd /\ asking \in BOOLEAN
  /\ tx \in {"none", "current", "stale"}
  /\ remote \in {"none", "create", "open", "close"}
  /\ client_idx \in Idx \cup {NoIdx} /\ conn_timer \in BOOLEAN /\ try_times \in 0 .. TRY_MAX + 1

LEMMA TypeSplit ==
  /\ TypeOK <=> events \in Seq(Event) /\ Typed
  /\ TypeOK' <=> events' \in Seq(Event) /\ Typed'
BY Zenon DEF TypeOK, Typed

LEMMA StartTypes ==
  ASSUME NEW b \in {NONE, GOOGLE, AMANZON}, Start(b)
  PROVE  TypeOK' /\ events' = <<Event1("ready")>>
<1>1. events' = <<Event1("ready")>> /\ Event1("ready") \in Event
  BY Fields DEF Start, Started, Event1
<1>2. events' \in Seq(Event)
  BY <1>1
<1>3. link' \in [Idx -> Use] /\ mesh' \in {"off", "out", "in"} /\ try_times' \in 0 .. TRY_MAX + 1
  <2>1. 0 \in 0 .. TRY_MAX + 1
    BY BoundsAssumption
  <2>2. link' = [i \in Idx |-> "none"] /\ try_times' = 0
        /\ mesh' \in IF b = GOOGLE THEN {"off"} ELSE {"out", "in"}
    BY Zenon DEF Start, Started
  <2> QED
    BY <2>1, <2>2 DEF Use
<1>4. Typed'
  BY <1>3, Zenon DEF Start, Started, Typed, Cmd
<1> QED
  BY <1>1, <1>2, <1>4, TypeSplit

LEMMA RequestTypes ==
  ASSUME TypeOK, NEW i \in Idx
  PROVE  /\ OwnConnect(i) => TypeOK'
         /\ MeshConnect(i) => TypeOK'
         /\ Connected(i) => TypeOK'
         /\ LinkLost(i) => TypeOK'
         /\ Discovered(i) => TypeOK'
         /\ \A f \in Cmd : GattWrite(i, f) => TypeOK'
         /\ \A n \in {0, 1} : GattConfig(i, n) => TypeOK'
<1> USE DEF air, own, google, central
<1>0. events \in Seq(Event) /\ Typed
  BY TypeSplit
<1>1. ASSUME OwnConnect(i) PROVE TypeOK'
  <2>1. events' \in Seq(Event)
    <3>1. EventOf("raw", i) \in Event /\ Event1("advEnd") \in Event
      BY Fields
    <3> DEFINE p == EventOf("raw", i)
               q == Event1("advEnd")
    <3>2. events' = events \o <<p, q>>
      BY <1>1 DEF OwnConnect
    <3> HIDE DEF p, q
    <3>3. <<p, q>> \in Seq(Event)
      BY <3>1 DEF p, q
    <3> QED
      BY <1>0, <3>2, <3>3
  <2>2. link' \in [Idx -> Use]
    BY <1>0, <1>1 DEF OwnConnect, Typed, Use
  <2>3. Typed'
    <3>1. adv' \in BOOLEAN
      BY <1>1, Zenon DEF OwnConnect
    <3>2. UNCHANGED <<trying, bound, mesh, own, google, central>>
      BY <1>1, Zenon DEF OwnConnect
    <3> QED
      BY <1>0, <2>2, <3>1, <3>2 DEF Typed
  <2> QED
    BY <2>1, <2>3, TypeSplit
<1>2. ASSUME MeshConnect(i) \/ Connected(i) PROVE TypeOK'
  <2>1. PICK e \in Event : events' = Append(events, e)
    BY <1>2, Fields DEF MeshConnect, Connected
  <2>2. events' \in Seq(Event)
    BY <1>0, <2>1, AppendProperties
  <2>3. Typed'
    <3>1. CASE MeshConnect(i)
      BY <1>0, <3>1 DEF MeshConnect, Typed, Use
    <3>2. CASE Connected(i)
      <4>1. link' \in [Idx -> Use]
        BY <1>0, <3>2 DEF Connected, Typed, Use
      <4> QED
        <5>1. trying' \in BOOLEAN
          BY <3>2, Zenon DEF Connected
        <5>2. UNCHANGED <<adv, bound, mesh, own, google, central>>
          BY <3>2, Zenon DEF Connected
        <5> QED
          BY <1>0, <4>1, <5>1, <5>2 DEF Typed
    <3> QED
      BY <1>2, <3>1, <3>2
  <2> QED
    BY <2>2, <2>3, TypeSplit
<1>3. ASSUME LinkLost(i) \/ Discovered(i) PROVE TypeOK'
  <2>1. PICK e \in Event : events' = Append(events, e)
    <3>1. CASE LinkLost(i)
      <4>1. PICK t \in {"drop", "failed"} : events' = Append(events, EventOf(t, i))
        BY <3>1 DEF LinkLost
      <4> QED
        BY <4>1, Fields
    <3>2. CASE Discovered(i)
      <4>1. PICK t \in {"found", "missing"} : events' = Append(events, EventOf(t, i))
        BY <3>2 DEF Discovered
      <4> QED
        BY <4>1, Fields
    <3> QED
      BY <1>3, <3>1, <3>2
  <2>2. events' \in Seq(Event)
    BY <1>0, <2>1, AppendProperties
  <2>3. Typed'
    <3>1. CASE LinkLost(i)
      BY <1>0, <3>1 DEF LinkLost, Typed
    <3>2. CASE Discovered(i)
      BY <1>0, <3>2 DEF Discovered, Typed, Use
    <3> QED
      BY <1>3, <3>1, <3>2
  <2> QED
    BY <2>2, <2>3, TypeSplit
<1>4. ASSUME NEW f \in Cmd, GattWrite(i, f) PROVE TypeOK'
  <2>1. events' \in Seq(Event)
    <3>1. Event1("frame") \in Event
      BY Fields
    <3> QED
      BY <1>0, <1>4, <3>1, AppendProperties DEF GattWrite
  <2>2. Typed'
    BY <1>0, <1>4 DEF GattWrite, Typed
  <2> QED
    BY <2>1, <2>2, TypeSplit
<1>5. ASSUME NEW n \in {0, 1}, GattConfig(i, n) PROVE TypeOK'
  <2>1. events' \in Seq(Event)
    BY <1>0, <1>5 DEF GattConfig
  <2>2. Typed'
    BY <1>0, <1>5 DEF GattConfig, Typed
  <2> QED
    BY <2>1, <2>2, TypeSplit
<1> QED
  BY <1>1, <1>2, <1>3, <1>4, <1>5

\* The handlers, apart from the queue.
LEMMA HandlerTypes ==
  ASSUME TypeOK
  PROVE  /\ AllSvcAdded \/ AdvEnd \/ APP_Google_Task => Typed'
         /\ \A i \in Idx : SlaveRawConnect(i) \/ MasterConnect(i) => Typed'
         /\ \A f \in BOOLEAN : Registered(f) => Typed'
         /\ \A i \in Idx, f \in BOOLEAN : Disconnect(i, f) => Typed'
<1> USE DEF air, own, google, central
<1>0. Typed
  BY TypeSplit
<1>1. AllSvcAdded => Typed'
  BY <1>0 DEF AllSvcAdded, StartAdvertising, Typed
<1>2. ASSUME NEW i \in Idx, SlaveRawConnect(i) PROVE Typed'
  <2>1. ntf' \in {0, 1} /\ slave_link_conidx_tmp' \in Idx \cup {NoIdx}
    BY <1>2 DEF SlaveRawConnect
  <2> QED
    BY <1>0, <1>2, <2>1 DEF SlaveRawConnect, Typed
<1>3. AdvEnd => Typed'
  BY <1>0 DEF AdvEnd, Typed
<1>4. ASSUME NEW i \in Idx, MasterConnect(i) PROVE Typed'
  <2>1. link' \in [Idx -> Use]
    <3>1. link \in [Idx -> Use] /\ "searched" \in Use
      BY <1>0 DEF Typed, Use
    <3>2. link' = [link EXCEPT ![i] = IF @ = "remote" THEN "searched" ELSE @]
      BY <1>4, Zenon DEF MasterConnect
    <3> QED
      BY <3>1, <3>2
  <2>2. ntf' \in {0, 1} /\ client_idx' \in Idx \cup {NoIdx}
    BY <1>4 DEF MasterConnect
  <2>3. conn_timer' \in BOOLEAN
    BY <1>4, Zenon DEF MasterConnect
  <2>4. UNCHANGED <<adv, trying, bound, mesh, own, rx, tx, asking, remote, try_times>>
    BY <1>4, Zenon DEF MasterConnect
  <2> QED
    BY <1>0, <2>1, <2>2, <2>3, <2>4 DEF Typed
<1>5. ASSUME APP_Google_Task PROVE Typed'
  <2>1. rx' \in Cmd /\ asking' \in BOOLEAN /\ tx' \in {"none", "current", "stale"}
        /\ bound' \in {NONE, GOOGLE, AMANZON}
    BY <1>0, <1>5 DEF APP_Google_Task, Reply, Typed, Cmd
  <2> QED
    BY <1>0, <1>5, <2>1 DEF APP_Google_Task, Typed
<1>6. \A f \in BOOLEAN : Registered(f) => Typed'
  BY <1>0 DEF Registered, Opened, Typed
<1>7. ASSUME NEW i \in Idx, NEW f \in BOOLEAN, Disconnect(i, f) PROVE Typed'
  <2>1. remote' \in {"none", "create", "open", "close"} /\ client_idx' \in Idx \cup {NoIdx}
        /\ conn_timer' \in BOOLEAN /\ try_times' \in 0 .. TRY_MAX + 1 /\ trying' \in BOOLEAN
    <3>1. pb_remote_disconnected(i, f) /\ Typed /\ TRY_MAX \in Nat
      BY <1>0, <1>7, BoundsAssumption, Zenon DEF Disconnect
    <3>2. CASE i # client_idx
      BY <3>1, <3>2, Zenon DEF pb_remote_disconnected, Typed
    <3>3. CASE i = client_idx /\ f /\ try_times <= TRY_MAX
      <4>1. /\ client_idx' = NoIdx /\ try_times' = try_times + 1 /\ trying' = TRUE
            /\ conn_timer' = TRUE /\ remote' = remote
        BY <3>1, <3>3, Zenon DEF pb_remote_disconnected, Retry
      <4>2. try_times \in 0 .. TRY_MAX + 1 /\ remote \in {"none", "create", "open", "close"}
        BY <3>1 DEF Typed
      <4> QED
        BY <3>1, <3>3, <4>1, <4>2
    <3>4. CASE i = client_idx /\ ~(f /\ try_times <= TRY_MAX)
      BY <3>1, <3>4, Zenon DEF pb_remote_disconnected, Closed, Typed
    <3> QED
      BY <3>2, <3>3, <3>4
  <2>2. link' \in [Idx -> Use]
    BY <1>0, <1>7 DEF Disconnect, Typed, Use
  <2>3. /\ adv' \in BOOLEAN /\ bound' \in {NONE, GOOGLE, AMANZON} /\ adv_stopped' \in BOOLEAN
        /\ slave_link_conidx' \in Idx \cup {NoIdx}
    BY <1>0, <1>7 DEF Disconnect, StartAdvertising, Typed
  <2> QED
    BY <1>0, <1>7, <2>1, <2>2, <2>3 DEF Disconnect, LinkLostNtf, Typed
<1> QED
  BY <1>1, <1>2, <1>3, <1>4, <1>5, <1>6, <1>7

-----------------------------------------------------------------------------
(* The other steps.                                                          *)

LEMMA Carried ==
  ASSUME TypeOK, SafeInv, NEW s \in {0, 1}, Passed(s), New(s) => Newest.type # "frame",
         UNCHANGED <<bound, mesh, asking>>, ntf' \in {ntf, 0}
  PROVE  SafeInv'
<1>1. LinkInv'
  BY FlowLinks DEF SafeInv
<1>2. Queue(s) /\ SameOwn /\ UNCHANGED adv /\ (s = 1 => 1 \in Positions /\ events[1].type # "ready")
  BY DEF Passed, Plain
<1>3. Waiting' /\ Served'
  BY <1>2, FlowServed DEF SafeInv
<1>4. Behind'
  BY <1>2, FlowBehind DEF SafeInv, SameOwn, Own
<1> QED
  BY <1>1, <1>3, <1>4 DEF SafeInv

\* An event of the stack.
LEMMA Posted ==
  ASSUME TypeOK, SafeInv, NEW i \in Idx,
         NEW t \in {"raw", "master", "found", "missing", "drop", "failed"},
         events' = Append(events, EventOf(t, i)), t \in {"drop", "failed"} => Live(i),
         \A j \in Idx : (link'[j] = "own" <=> Own(j)) /\ (link[j] # "none" => link'[j] # "none"),
         UNCHANGED <<adv, bound, mesh, adv_stopped, slave_link_conidx, slave_link_conidx_tmp, ntf, asking>>
  PROVE  SafeInv'
<1>1. EventOf(t, i) \in Event /\ EventOf(t, i).type = t /\ EventOf(t, i).idx = i
  BY Fields
<1>2. Queue(0) /\ New(0) /\ Newest = EventOf(t, i)
  BY <1>1, Appended DEF TypeOK
<1>3. \A j \in Idx : IsDrop(Newest, j) => Live(j)
  BY <1>1, <1>2 DEF IsDrop
<1>4. Newest.type \notin {"ready", "advEnd", "frame"}
  BY <1>1, <1>2
<1>5. Passed(0)
  BY <1>2, <1>3, <1>4 DEF Passed, Plain, SameOwn
<1> QED
  BY <1>4, <1>5, Carried

LEMMA StackSafe ==
  ASSUME TypeOK, SafeInv, NEW i \in Idx,
         MeshConnect(i) \/ Connected(i) \/ LinkLost(i) \/ Discovered(i)
  PROVE  SafeInv'
<1>1. CASE MeshConnect(i)
  <2>1. /\ link[i] = "none" /\ link' = [link EXCEPT ![i] = "mesh"]
        /\ events' = Append(events, EventOf("raw", i))
        /\ UNCHANGED <<adv, bound, mesh, adv_stopped, slave_link_conidx, slave_link_conidx_tmp, ntf, asking>>
    BY <1>1, Zenon DEF MeshConnect, own, google
  <2>2. \A j \in Idx : (link'[j] = "own" <=> Own(j)) /\ (link[j] # "none" => link'[j] # "none")
    BY <2>1 DEF TypeOK, Own
  <2> QED
    BY <2>1, <2>2, Posted
<1>2. CASE Connected(i)
  <2>1. /\ link[i] = "none" /\ link' = [link EXCEPT ![i] = "remote"]
        /\ events' = Append(events, EventOf("master", i))
        /\ UNCHANGED <<adv, bound, mesh, adv_stopped, slave_link_conidx, slave_link_conidx_tmp, ntf, asking>>
    BY <1>2, Zenon DEF Connected, own, google
  <2>2. \A j \in Idx : (link'[j] = "own" <=> Own(j)) /\ (link[j] # "none" => link'[j] # "none")
    BY <2>1 DEF TypeOK, Own
  <2> QED
    BY <2>1, <2>2, Posted
<1>3. CASE LinkLost(i)
  <2>1. /\ Live(i) /\ link' = link
        /\ UNCHANGED <<adv, bound, mesh, adv_stopped, slave_link_conidx, slave_link_conidx_tmp, ntf, asking>>
    BY <1>3, Zenon DEF LinkLost, own, google, air
  <2>2. PICK t \in {"drop", "failed"} : events' = Append(events, EventOf(t, i))
    BY <1>3 DEF LinkLost
  <2>3. \A j \in Idx : (link'[j] = "own" <=> Own(j)) /\ (link[j] # "none" => link'[j] # "none")
    BY <2>1 DEF Own
  <2> QED
    BY <2>1, <2>2, <2>3, Posted
<1>4. CASE Discovered(i)
  <2>1. /\ link[i] = "searched" /\ link' = [link EXCEPT ![i] = "known"]
        /\ UNCHANGED <<adv, bound, mesh, adv_stopped, slave_link_conidx, slave_link_conidx_tmp, ntf, asking>>
    BY <1>4, Zenon DEF Discovered, own, google
  <2>2. PICK t \in {"found", "missing"} : events' = Append(events, EventOf(t, i))
    BY <1>4 DEF Discovered
  <2>3. \A j \in Idx : (link'[j] = "own" <=> Own(j)) /\ (link[j] # "none" => link'[j] # "none")
    BY <2>1 DEF TypeOK, Own
  <2> QED
    BY <2>1, <2>2, <2>3, Posted
<1> QED
  BY <1>1, <1>2, <1>3, <1>4

LEMMA GattWriteSafe ==
  ASSUME TypeOK, SafeInv, NEW i \in Idx, NEW f, GattWrite(i, f)
  PROVE  SafeInv'
<1>1. /\ Own(i) /\ events' = Append(events, Event1("frame")) /\ asking'
      /\ UNCHANGED <<link, adv, bound, mesh, adv_stopped, slave_link_conidx, slave_link_conidx_tmp, ntf>>
  BY Zenon DEF GattWrite, Client, Own, air, own
<1>2. Queue(0) /\ New(0) /\ Newest = Event1("frame") /\ Newest.type = "frame"
  BY <1>1, Fields, Appended DEF TypeOK
<1>3. Passed(0)
  BY <1>1, <1>2 DEF Passed, Plain, SameOwn, IsDrop, Own
<1>4. LinkInv'
  BY <1>3, FlowLinks DEF SafeInv
<1>5. Waiting' /\ Served'
  <2>1. mesh = "in" \/ bound # AMANZON
    BY <1>1 DEF SafeInv, Waiting
  <2> QED
    BY <1>1, <2>1 DEF Waiting, Served, Own
<1>6. Behind'
  BY <1>1 DEF Behind
<1> QED
  BY <1>4, <1>5, <1>6 DEF SafeInv

\* Nothing enters or leaves the queue, and no link changes.
Still ==
  UNCHANGED <<events, link, adv, adv_stopped, slave_link_conidx, slave_link_conidx_tmp, asking>>

LEMMA StillPasses ==
  ASSUME TypeOK, Still
  PROVE  Passed(0) /\ Queue(0) /\ ~New(0) /\ SameOwn
<1>1. Queue(0) /\ ~New(0)
  BY Unmoved DEF TypeOK, Still
<1> QED
  BY <1>1 DEF Passed, Plain, SameOwn, Own, Still

LEMMA GattConfigSafe ==
  ASSUME TypeOK, SafeInv, NEW i \in Idx, NEW n, GattConfig(i, n)
  PROVE  SafeInv'
<1>1. /\ Own(i) /\ EventOf("raw", i) \notin {events[k] : k \in 1 .. Len(events)}
      /\ Still /\ UNCHANGED <<bound, mesh>>
  BY Zenon DEF GattConfig, Client, Own, air, own, Still
<1>2. Passed(0) /\ Queue(0) /\ ~New(0) /\ SameOwn
  BY <1>1, StillPasses
<1>3. LinkInv'
  BY <1>2, FlowLinks DEF SafeInv
<1>4. Waiting' /\ Served'
  BY <1>1, <1>2, FlowServed DEF SafeInv, Still
<1>5. ASSUME asking PROVE Behind'
  BY <1>1, <1>5 DEF Behind, Still
<1>6. ASSUME ~asking PROVE Behind'
  <2>1. \A m \in Positions : events[m] # EventOf("raw", i)
    BY <1>1 DEF Positions
  <2>2. \A k \in Positions : events[k].type # "frame"
    BY <1>1, <1>6, <2>1 DEF SafeInv, Behind
  <2> QED
    BY <1>1, <2>2 DEF Behind, Still, Positions
<1> QED
  BY <1>3, <1>4, <1>5, <1>6 DEF SafeInv

LEMMA MeshProvisionedSafe ==
  ASSUME TypeOK, SafeInv, MeshProvisioned
  PROVE  SafeInv'
<1>1. Still /\ mesh' = "in" /\ ntf' = ntf
  BY Zenon DEF MeshProvisioned, Still, air, own, google
<1>2. Passed(0) /\ Queue(0) /\ ~New(0) /\ SameOwn
  BY <1>1, StillPasses
<1>3. LinkInv'
  BY <1>2, FlowLinks DEF SafeInv
<1>4. Waiting' /\ Served'
  BY <1>1 DEF Waiting, Served
<1>5. Behind'
  BY <1>1, <1>2, FlowBehind DEF SafeInv, SameOwn, Own, Still
<1> QED
  BY <1>3, <1>4, <1>5 DEF SafeInv

\* A link PB-Remote gives up.
LEMMA DroppedLive ==
  ASSUME TypeOK
  PROVE  \/ Dropped = <<>>
         \/ \E i \in Idx : Live(i) /\ Dropped = <<EventOf("drop", i)>>
<1>1. CASE client_idx # NoIdx /\ Live(client_idx)
  <2>1. client_idx \in Idx
    BY <1>1 DEF TypeOK
  <2> QED
    BY <1>1, <2>1 DEF Dropped
<1>2. CASE ~(client_idx # NoIdx /\ Live(client_idx))
  BY <1>2, Zenon DEF Dropped
<1> QED
  BY <1>1, <1>2

LEMMA PbRemoteSafe ==
  ASSUME TypeOK, SafeInv,
         pb_remote_connect_timeout \/ pb_remote_gatt_create \/ pb_remote_gatt_close \/ UNCHANGED vars
  PROVE  SafeInv' /\ events' \in Seq(Event)
<1>1. UNCHANGED <<link, adv, bound, mesh, adv_stopped, slave_link_conidx, slave_link_conidx_tmp, ntf, asking>>
  BY Zenon DEF pb_remote_connect_timeout, pb_remote_gatt_create, pb_remote_gatt_close, vars, air,
               own, google
<1>2. CASE events' = events
  <2>1. Still
    BY <1>1, <1>2 DEF Still
  <2>2. Passed(0) /\ ~New(0)
    BY <2>1, StillPasses
  <2> QED
    BY <1>1, <1>2, <2>2, Carried DEF TypeOK
<1>3. ASSUME NEW i \in Idx, Live(i), events' = Append(events, EventOf("drop", i))
      PROVE  SafeInv' /\ events' \in Seq(Event)
  <2>1. \A j \in Idx : (link'[j] = "own" <=> Own(j)) /\ (link[j] # "none" => link'[j] # "none")
    BY <1>1 DEF Own
  <2>2. events' \in Seq(Event)
    BY <1>3, Fields, AppendProperties DEF TypeOK
  <2> QED
    BY <1>1, <1>3, <2>1, <2>2, Posted
<1>4. CASE events' = events \o Dropped
  <2>1. CASE Dropped = <<>>
    <3>1. events \o <<>> = events
      BY ConcatEmptySeq DEF TypeOK
    <3> QED
      BY <1>2, <1>4, <2>1, <3>1, Zenon
  <2>2. ASSUME NEW i \in Idx, Live(i), Dropped = <<EventOf("drop", i)>>
        PROVE  SafeInv' /\ events' \in Seq(Event)
    <3>1. EventOf("drop", i) \in Event
      BY Fields
    <3>2. events \o <<EventOf("drop", i)>> = Append(events, EventOf("drop", i))
      BY <3>1, AppendIsConcat DEF TypeOK
    <3>3. events' = Append(events, EventOf("drop", i))
      BY <1>4, <2>2, <3>2, Zenon
    <3> QED
      BY <1>3, <2>2, <3>3
  <2> QED
    BY <2>1, <2>2, DroppedLive
<1> QED
  BY <1>2, <1>4, Zenon
  DEF pb_remote_connect_timeout, pb_remote_gatt_create, pb_remote_gatt_close, vars

-----------------------------------------------------------------------------
(* A message is handled.                                                     *)

\* Handlers that only look at the message, and may give up a link.
LEMMA LookSafe ==
  ASSUME TypeOK, SafeInv, events # <<>>, Take(<<>>) \/ Take(Dropped),
         events[1].type \notin {"ready", "advEnd"},
         \A i \in Idx : events[1] = EventOf("raw", i) => slave_link_conidx_tmp' = i,
         \A i \in Idx : (link'[i] = "own" <=> Own(i)) /\ (link[i] # "none" => link'[i] # "none"),
         UNCHANGED <<adv, bound, mesh, adv_stopped, slave_link_conidx, asking>>, ntf' \in {ntf, 0}
  PROVE  SafeInv' /\ events' \in Seq(Event)
<1>1. ASSUME Take(<<>>) PROVE SafeInv' /\ events' \in Seq(Event)
  <2>1. Queue(1) /\ ~New(1) /\ 1 \in Positions
    BY <1>1, Taken DEF TypeOK
  <2>2. Passed(1)
    BY <2>1 DEF Passed, Plain, SameOwn
  <2> QED
    BY <2>1, <2>2, Carried DEF Queue
<1>2. ASSUME NEW j \in Idx, Live(j), Take(<<EventOf("drop", j)>>)
      PROVE  SafeInv' /\ events' \in Seq(Event)
  <2>1. EventOf("drop", j) \in Event /\ EventOf("drop", j).type = "drop" /\ EventOf("drop", j).idx = j
    BY Fields
  <2>2. Queue(1) /\ New(1) /\ Newest = EventOf("drop", j) /\ 1 \in Positions
    BY <1>2, <2>1, TakenAndAppended DEF TypeOK
  <2>3. \A i \in Idx : IsDrop(Newest, i) => Live(i)
    BY <1>2, <2>1, <2>2 DEF IsDrop
  <2>4. Newest.type \notin {"ready", "advEnd", "frame"}
    BY <2>1, <2>2
  <2>5. Passed(1)
    BY <2>2, <2>3, <2>4 DEF Passed, Plain, SameOwn
  <2> QED
    BY <2>2, <2>4, <2>5, Carried DEF Queue
<1> QED
  BY <1>1, <1>2, DroppedLive

LEMMA GoogleTaskSafe ==
  ASSUME TypeOK, SafeInv, events # <<>>, events[1].type = "frame", APP_Google_Task, Take(<<>>)
  PROVE  SafeInv'
<1>1. Queue(1) /\ ~New(1) /\ 1 \in Positions
  BY Taken DEF TypeOK
<1>2. UNCHANGED <<link, adv, mesh, adv_stopped, slave_link_conidx, slave_link_conidx_tmp, ntf>>
  BY Zenon DEF APP_Google_Task, air, own
<1>3. bound' \in {GOOGLE, NONE, bound}
  BY DEF APP_Google_Task
<1>4. \A i \in Idx : events[1] # EventOf("raw", i)
  BY Fields
<1>5. LinkInv'
  <2>1. Passed(1)
    BY <1>1, <1>2, <1>4 DEF Passed, Plain, SameOwn, Own
  <2> QED
    BY <2>1, FlowLinks DEF SafeInv
<1>6. mesh = "in" \/ bound # AMANZON
  BY <1>1 DEF SafeInv, Waiting
<1>7. Waiting'
  BY <1>2, <1>3, <1>6, ProvAssumption DEF Waiting
<1>8. Served'
  <2>1. \A k \in Positions : events[k].type # "ready"
    BY DEF SafeInv, LinkInv, First
  <2>2. mesh = "in" \/ adv \/ \E i \in Idx : Own(i)
    BY <1>6, <2>1 DEF SafeInv, Served
  <2> QED
    BY <1>2, <2>2 DEF Served, Own
<1>9. Behind'
  <2>1. CASE asking' = asking
    BY <1>1, <1>2, <2>1, FlowBehind DEF SafeInv, Own
  <2>2. CASE asking' # asking
    <3>1. Event1("frame") \notin {events[k] : k \in 2 .. Len(events)}
      BY <2>2, Zenon DEF APP_Google_Task
    <3>2. ASSUME NEW k \in Positions', events'[k].type = "frame" PROVE FALSE
      <4>1. PICK m \in Positions : m = k + 1 /\ events[m].type = "frame"
        BY <1>1, <3>2, Came
      <4>2. events[m] = Event1("frame")
        <5>1. events[m] \in Event
          BY DEF TypeOK, Positions
        <5> QED
          BY <4>1, <5>1, Fields
      <4>3. m \in 2 .. Len(events)
        BY <4>1 DEF Positions
      <4> QED
        BY <3>1, <4>2, <4>3
    <3> QED
      BY <3>2, NoneBehind
  <2> QED
    BY <2>1, <2>2
<1> QED
  BY <1>5, <1>7, <1>8, <1>9 DEF SafeInv

LEMMA HandleSafe ==
  ASSUME TypeOK, SafeInv, Handle
  PROVE  SafeInv' /\ TypeOK'
<1> DEFINE e == Head(events)
<1>1. events # <<>> /\ events \in Seq(Event)
  BY DEF Handle, TypeOK
<1>2. e = events[1] /\ e \in Event
  <2>1. Len(events) \in Nat \ {0} /\ Head(events) = events[1] /\ Head(events) \in Event
    BY <1>1, HeadTailProperties, EmptySeq
  <2> QED
    BY <2>1
<1>3. Take(<<>>) => events' \in Seq(Event)
  BY <1>1, Taken DEF Queue
<1>4. /\ e.type \in {"raw", "master", "found", "missing", "drop", "failed"}
            => e.idx \in Idx /\ e = EventOf(e.type, e.idx)
      /\ e.type \in {"ready", "advEnd", "frame"} => e = Event1(e.type)
  BY <1>2, Fields
<1> HIDE DEF e
<1>5. ASSUME e.type = "ready", AllSvcAdded, Take(<<>>) PROVE SafeInv' /\ Typed' /\ events' \in Seq(Event)
  BY <1>1, <1>2, <1>3, <1>5, HandlerTypes, AllSvcAddedSafe
<1>6. ASSUME e.type = "raw", SlaveRawConnect(e.idx), Take(<<>>)
      PROVE  SafeInv' /\ Typed' /\ events' \in Seq(Event)
  <2>1. PICK i \in Idx : i = e.idx
    BY <1>4, <1>6
  <2>2. events[1] = EventOf("raw", i) /\ events[1].type = "raw" /\ events[1].idx = i
    BY <1>2, <1>4, <1>6, <2>1
  <2>3. \A j \in Idx : events[1] = EventOf("raw", j) => j = i
    BY <2>2, Fields
  <2>4. /\ slave_link_conidx_tmp' = i /\ ntf' = 0
        /\ UNCHANGED <<link, adv, bound, mesh, adv_stopped, slave_link_conidx, asking>>
    BY <1>6, <2>1, Zenon DEF SlaveRawConnect, air
  <2>5. SafeInv' /\ events' \in Seq(Event)
    BY <1>1, <1>6, <2>2, <2>3, <2>4, LookSafe DEF Own
  <2> QED
    BY <1>6, <2>1, <2>5, HandlerTypes
<1>7. ASSUME e.type = "advEnd", AdvEnd, Take(<<>>) PROVE SafeInv' /\ Typed' /\ events' \in Seq(Event)
  BY <1>1, <1>2, <1>3, <1>7, HandlerTypes, AdvEndSafe
<1>8. ASSUME e.type = "master", MasterConnect(e.idx), Take(<<>>)
      PROVE  SafeInv' /\ Typed' /\ events' \in Seq(Event)
  <2>1. PICK i \in Idx : i = e.idx
    BY <1>4, <1>8
  <2>2. \A j \in Idx : events[1] # EventOf("raw", j)
    BY <1>2, <1>8, Fields
  <2>3. /\ link' = [link EXCEPT ![i] = IF @ = "remote" THEN "searched" ELSE @] /\ ntf' = 0
        /\ UNCHANGED <<adv, bound, mesh, adv_stopped, slave_link_conidx, asking>>
    BY <1>8, <2>1, Zenon DEF MasterConnect, own
  <2>4. \A j \in Idx : (link'[j] = "own" <=> Own(j)) /\ (link[j] # "none" => link'[j] # "none")
    BY <2>3 DEF TypeOK, Own
  <2>5. SafeInv' /\ events' \in Seq(Event)
    BY <1>1, <1>2, <1>8, <2>2, <2>3, <2>4, LookSafe
  <2> QED
    BY <1>8, <2>1, <2>5, HandlerTypes
<1>9. ASSUME e.type = "frame", APP_Google_Task, Take(<<>>) PROVE SafeInv' /\ Typed' /\ events' \in Seq(Event)
  BY <1>1, <1>2, <1>3, <1>9, HandlerTypes, GoogleTaskSafe
<1>10. ASSUME NEW f \in BOOLEAN, e.type \in {"found", "missing"}, Registered(f),
              Take(<<>>) \/ Take(Dropped)
       PROVE  SafeInv' /\ Typed' /\ events' \in Seq(Event)
  <2>1. PICK i \in Idx : i = e.idx
    BY <1>4, <1>10
  <2>2. \A j \in Idx : events[1] # EventOf("raw", j)
    BY <1>2, <1>10, Fields
  <2>3. UNCHANGED <<link, adv, bound, mesh, adv_stopped, slave_link_conidx, asking, ntf>>
    BY <1>10, Zenon DEF Registered, own, air, google
  <2>4. SafeInv' /\ events' \in Seq(Event)
    BY <1>1, <1>2, <1>10, <2>2, <2>3, LookSafe DEF Own
  <2> QED
    BY <1>10, <2>1, <2>4, HandlerTypes
<1>11. ASSUME e.type \in {"drop", "failed"}, Disconnect(e.idx, e.type = "failed"), Take(<<>>)
       PROVE  SafeInv' /\ Typed' /\ events' \in Seq(Event)
  <2>1. PICK i \in Idx, f \in BOOLEAN : i = e.idx /\ f = (e.type = "failed")
    BY <1>4, <1>11
  <2>2. Disconnect(i, f)
    BY <1>11, <2>1, Zenon
  <2>3. IsDrop(events[1], i)
    BY <1>2, <1>11, <2>1 DEF IsDrop
  <2>4. SafeInv'
    BY <1>1, <1>11, <2>2, <2>3, DisconnectSafe
  <2> QED
    BY <1>3, <1>11, <2>2, <2>4, HandlerTypes
<1>12. \/ e.type = "ready" /\ AllSvcAdded /\ Take(<<>>)
       \/ e.type = "raw" /\ SlaveRawConnect(e.idx) /\ Take(<<>>)
       \/ e.type = "advEnd" /\ AdvEnd /\ Take(<<>>)
       \/ e.type = "master" /\ MasterConnect(e.idx) /\ Take(<<>>)
       \/ e.type = "frame" /\ APP_Google_Task /\ Take(<<>>)
       \/ e.type = "found" /\ Registered(TRUE) /\ Take(<<>>)
       \/ e.type = "missing" /\ Registered(FALSE) /\ Take(Dropped)
       \/ e.type \in {"drop", "failed"} /\ Disconnect(e.idx, e.type = "failed") /\ Take(<<>>)
  BY Zenon DEF Handle, e
<1>13. SafeInv' /\ Typed' /\ events' \in Seq(Event)
  BY <1>5, <1>6, <1>7, <1>8, <1>9, <1>10, <1>11, <1>12
<1> QED
  BY <1>13, TypeSplit

-----------------------------------------------------------------------------
LEMMA InitInv == Init => IInv
<1> SUFFICES ASSUME Init PROVE IInv
  OBVIOUS
<1>1. PICK b \in {NONE, GOOGLE, AMANZON} :
        Started(b, events, link, adv, trying, bound, mesh, adv_stopped, slave_link_conidx,
                slave_link_conidx_tmp, ntf, rx, tx, asking, remote, client_idx, conn_timer,
                try_times)
  BY Zenon DEF Init
<1>2. /\ events = <<Event1("ready")>> /\ link = [i \in Idx |-> "none"] /\ adv = FALSE
      /\ bound = b /\ adv_stopped = FALSE /\ asking = FALSE /\ tx = "none" /\ try_times = 0
      /\ mesh \in IF b = GOOGLE THEN {"off"} ELSE {"out", "in"}
  BY <1>1, Zenon DEF Started, Event1
<1>3. Positions = {1} /\ events[1].type = "ready" /\ events \in Seq(Event)
  BY <1>2, Fields DEF Positions
<1>4. \A i \in Idx : link[i] = "none"
  BY <1>2
<1>5. TypeOK
  <2>1. link \in [Idx -> Use] /\ mesh \in {"off", "out", "in"} /\ try_times \in 0 .. TRY_MAX + 1
    BY <1>2, BoundsAssumption DEF Use
  <2>2. Typed
    BY <1>1, <2>1, Zenon DEF Started, Typed, Cmd
  <2> QED
    BY <1>3, <2>2, TypeSplit
<1>6. LinkInv
  BY <1>2, <1>3, <1>4 DEF LinkInv, Alone, Quiet, Ending, OneEnd, Settled, Drops, First, IsDrop, Own
<1>7. Waiting /\ Served /\ Behind
  BY <1>2, <1>3, <1>4 DEF Waiting, Served, Behind, Own
<1> QED
  BY <1>2, <1>5, <1>6, <1>7 DEF IInv

LEMMA StepInv == IInv /\ [Next]_vars => IInv'
<1> SUFFICES ASSUME IInv, [Next]_vars PROVE IInv'
  OBVIOUS
<1>1. TypeOK /\ SafeInv /\ tx # "stale"
  BY DEF IInv, SafeInv
<1>2. tx' # "stale"
  <2>1. CASE Handle
    <3>1. \/ AllSvcAdded \/ AdvEnd \/ APP_Google_Task
          \/ \E i : SlaveRawConnect(i) \/ MasterConnect(i)
          \/ \E f : Registered(f)
          \/ \E i, f : Disconnect(i, f)
      BY <2>1, Zenon DEF Handle
    <3>2. tx' = tx \/ Reply
      BY <3>1, Zenon DEF AllSvcAdded, AdvEnd, APP_Google_Task, SlaveRawConnect, MasterConnect,
                        Registered, Disconnect, google
    <3> QED
      BY <1>1, <3>2 DEF Reply
  <2>2. CASE Peers
    BY <1>1, <2>2, Zenon DEF Peers, OwnConnect, MeshConnect, Connected, LinkLost, Discovered,
                            GattWrite, GattConfig, google
  <2>3. CASE MeshProvisioned \/ pb_remote_gatt_create \/ pb_remote_gatt_close
             \/ pb_remote_connect_timeout \/ UNCHANGED vars
    BY <1>1, <2>3, Zenon DEF MeshProvisioned, pb_remote_gatt_create, pb_remote_gatt_close,
                            pb_remote_connect_timeout, google, vars
  <2>4. ASSUME NEW b, Start(b) PROVE tx' # "stale"
    <3>1. tx' = "none"
      BY <2>4, Zenon DEF Start, Started
    <3> QED
      BY <3>1
  <2> QED
    BY <2>1, <2>2, <2>3, <2>4, Zenon DEF Next, MeshStack, MeshReset, Restart
<1>3. CASE Handle
  BY <1>1, <1>2, <1>3, HandleSafe DEF IInv, SafeInv
<1>4. CASE Peers
  <2>1. PICK i \in Idx :
          \/ OwnConnect(i) \/ MeshConnect(i) \/ Connected(i) \/ LinkLost(i) \/ Discovered(i)
          \/ \E f \in Cmd : GattWrite(i, f)
          \/ \E n \in {0, 1} : GattConfig(i, n)
    BY <1>4, Zenon DEF Peers
  <2>2. TypeOK'
    BY <1>1, <2>1, RequestTypes, Zenon
  <2>3. SafeInv'
    BY <1>1, <2>1, OwnConnectSafe, StackSafe, GattWriteSafe, GattConfigSafe, Zenon
  <2> QED
    BY <1>2, <2>2, <2>3 DEF IInv, SafeInv
<1>5. CASE MeshProvisioned
  <2>1. Typed'
    BY <1>1, <1>5, TypeSplit DEF MeshProvisioned, Typed, air, own, google, central
  <2>2. events' \in Seq(Event)
    BY <1>1, <1>5 DEF MeshProvisioned, TypeOK
  <2> QED
    BY <1>1, <1>2, <1>5, <2>1, <2>2, TypeSplit, MeshProvisionedSafe DEF IInv, SafeInv
<1>6. CASE pb_remote_connect_timeout \/ pb_remote_gatt_create \/ pb_remote_gatt_close \/ UNCHANGED vars
  <2>1. SafeInv' /\ events' \in Seq(Event)
    BY <1>1, <1>6, PbRemoteSafe
  <2>2. Typed'
    <3>1. Typed /\ 1 \in 0 .. TRY_MAX + 1
      BY <1>1, TypeSplit, BoundsAssumption
    <3>2. UNCHANGED <<link, adv, bound, mesh, own, google, client_idx>>
      BY <1>6, Zenon DEF pb_remote_connect_timeout, pb_remote_gatt_create, pb_remote_gatt_close,
                         vars, air, central
    <3>3. /\ trying' \in {trying, FALSE, TRUE} /\ conn_timer' \in {conn_timer, FALSE, TRUE}
          /\ remote' \in {remote, "create", "open", "none", "close"} /\ try_times' \in {try_times, 1}
      BY <1>6 DEF pb_remote_connect_timeout, pb_remote_gatt_create, pb_remote_gatt_close,
                  Opened, vars, air, central
    <3>4. trying' \in BOOLEAN /\ conn_timer' \in BOOLEAN
      BY <3>1, <3>3, Zenon DEF Typed
    <3>5. remote' \in {"none", "create", "open", "close"} /\ try_times' \in 0 .. TRY_MAX + 1
      BY <3>1, <3>3 DEF Typed
    <3> QED
      BY <3>1, <3>2, <3>4, <3>5, Zenon DEF Typed, own, google
  <2> QED
    BY <1>2, <2>1, <2>2, TypeSplit DEF IInv, SafeInv
<1>7. ASSUME NEW b \in {NONE, GOOGLE, AMANZON}, Start(b) PROVE IInv'
  <2>1. TypeOK' /\ events' = <<Event1("ready")>>
    BY <1>7, StartTypes
  <2>2. /\ link' = [i \in Idx |-> "none"] /\ adv' = FALSE /\ adv_stopped' = FALSE
        /\ asking' = FALSE /\ bound' = b
    BY <1>7, Zenon DEF Start, Started
  <2>3. SafeInv'
    BY <2>1, <2>2, StartSafe
  <2> QED
    BY <1>2, <2>1, <2>3 DEF IInv, SafeInv
<1>8. CASE Restart \/ MeshReset
  <2>1. PICK b \in {NONE, GOOGLE, AMANZON} : Start(b)
    BY <1>1, <1>8 DEF Restart, MeshReset, TypeOK
  <2> QED
    BY <1>7, <2>1
<1> QED
  BY <1>3, <1>4, <1>5, <1>6, <1>8, Zenon DEF Next, MeshStack

LEMMA Invariant == Spec => []IInv
BY InitInv, StepInv, PTL DEF Spec

-----------------------------------------------------------------------------
(* What they add up to.                                                      *)

\* The variables keep their types: no index, count or command of a handler leaves
\* the range the code has for it.
THEOREM TypeCorrect == Spec => []TypeOK
<1>1. IInv => TypeOK
  BY DEF IInv
<1> QED
  BY <1>1, Invariant, PTL

\* The lamp can be reached whenever what happened to its links has been handled:
\* the GAP callback of proj_main.c starts the advertising again for its own client,
\* and for no other link.
THEOREM ReachableHolds == Spec => []Reachable
<1>1. IInv => Reachable
  <2> SUFFICES ASSUME IInv, events = <<>>
               PROVE  mesh = "in" \/ bound = AMANZON \/ adv \/ \E i \in Idx : link[i] = "own"
    BY DEF Reachable
  <2>1. Positions = {}
    BY DEF Positions
  <2> QED
    BY <2>1 DEF IInv, Served, Own
<1> QED
  BY <1>1, Invariant, PTL

\* The lamp never advertises while it has a client of its own, and never has two.
THEOREM OneClientHolds == Spec => []OneClient
<1>1. IInv => OneClient
  BY DEF IInv, LinkInv, Alone, Quiet, Own, OneClient
<1> QED
  BY <1>1, Invariant, PTL

\* ProtocolProcess replies only to the client whose command it carried out, and
\* with the status as it is then.
THEOREM ReplyIsToAskerHolds == Spec => ReplyIsToAsker
<1>1. IInv /\ [Next]_vars =>
        [Handle /\ Head(events).type = "frame" /\ ntf = 1 /\ tx' # "none"
           => asking /\ tx' = "current"]_vars
  <2> SUFFICES ASSUME IInv, [Next]_vars, Handle, Head(events).type = "frame", ntf = 1, tx' # "none"
               PROVE  asking /\ tx' = "current"
    OBVIOUS
  <2>1. 1 \in Positions /\ events[1].type = "frame"
    <3>1. Len(events) \in Nat \ {0} /\ Head(events) = events[1]
      BY HeadTailProperties, EmptySeq DEF IInv, TypeOK, Handle
    <3> QED
      BY <3>1 DEF Positions
  <2>2. asking
    BY <2>1 DEF IInv, Behind
  <2>3. APP_Google_Task
    BY DEF Handle
  <2>4. tx' \in {tx, "current", "none"} /\ tx \in {"none", "current"}
    BY <2>3 DEF APP_Google_Task, Reply, IInv, TypeOK
  <2> QED
    BY <2>2, <2>4
<1> QED
  BY <1>1, Invariant, PTL DEF Spec, ReplyIsToAsker

-----------------------------------------------------------------------------
(* Requests of PB-Remote.                                                    *)

Master(e, i) == e = EventOf("master", i)
Tells(e, i) == e.type \in {"found", "missing", "drop", "failed"} /\ e.idx = i

\* A connection is told once, before its loss, and waits until then.
Masters ==
  \A k \in Positions : \A i \in Idx : Master(events[k], i) =>
    /\ link[i] = "remote"
    /\ \A m \in Positions : Master(events[m], i) => m = k
    /\ \A m \in Positions : IsDrop(events[m], i) => k < m

\* The link PB-Remote takes for its own is one it has connected.
Central == client_idx \in Idx => link[client_idx] \in {"searched", "known"}

InHand ==
  remote = "create" /\ ~conn_timer =>
    /\ client_idx \in Idx
    /\ link[client_idx] = "searched" \/ \E k \in Positions : Tells(events[k], client_idx)

HandInv == Masters /\ Central /\ InHand

LEMMA InHandMeans == TypeOK /\ InHand => RequestInHand
<1> SUFFICES ASSUME TypeOK, InHand, remote = "create", ~conn_timer
             PROVE  /\ client_idx \in Idx
                    /\ \/ link[client_idx] = "searched" \/ Lost(client_idx)
                       \/ \E k \in 1 .. Len(events) :
                            events[k] \in {EventOf("found", client_idx), EventOf("missing", client_idx)}
  BY DEF RequestInHand
<1>1. client_idx \in Idx
      /\ (link[client_idx] = "searched" \/ \E k \in Positions : Tells(events[k], client_idx))
  BY DEF InHand
<1>2. ASSUME NEW k \in Positions, Tells(events[k], client_idx)
      PROVE  events[k] \in {EventOf("found", client_idx), EventOf("missing", client_idx),
                            EventOf("drop", client_idx), EventOf("failed", client_idx)}
  <2>1. events[k] \in Event
    BY DEF TypeOK, Positions
  <2>2. events[k] = EventOf(events[k].type, events[k].idx)
    BY <1>2, <2>1, Fields DEF Tells
  <2> QED
    BY <1>2, <2>2 DEF Tells
<1> QED
  BY <1>1, <1>2 DEF Lost, Positions

\* Every message but those taken is still there, before those that are fresh.
Fresh(s, k) == k + s \notin Positions
Moved(s) ==
  /\ \A k \in Positions : k > s => k - s \in Positions' /\ events'[k - s] = events[k]
  /\ \A k \in Positions' : Fresh(s, k) \/ events'[k] = events[k + s]

LEMMA QueueMoves ==
  ASSUME NEW s \in {0, 1}, Queue(s)
  PROVE  Moved(s) /\ \A k \in Positions' : Fresh(s, k) => New(s) /\ k = Len(events') /\ events'[k] = Newest
<1>1. ASSUME NEW k \in Positions, k > s PROVE k - s \in Positions' /\ events'[k - s] = events[k]
  BY <1>1, Stays
<1>2. ASSUME NEW k \in Positions', ~Fresh(s, k) PROVE events'[k] = events[k + s]
  <2>1. Len(events) \in Nat /\ k + s \in Positions
    BY <1>2 DEF Fresh, Queue
  <2>2. ~(k = Len(events) - s + 1)
    BY <2>1 DEF Positions
  <2> QED
    BY <2>2, Came
<1>3. ASSUME NEW k \in Positions', Fresh(s, k)
      PROVE  New(s) /\ k = Len(events') /\ events'[k] = Newest
  BY <1>3, Came DEF Fresh
<1> QED
  BY <1>1, <1>2, <1>3 DEF Moved

LEMMA FreshIsLast ==
  ASSUME NEW s \in {0, 1}, events \in Seq(Event), NEW k \in Positions', Fresh(s, k), NEW m \in Positions
  PROVE  m < k + s
<1>1. Len(events) \in Nat /\ k \in Nat /\ k >= 1
  BY LenProperties DEF Positions
<1> QED
  BY <1>1 DEF Fresh, Positions

LEMMA FlowMasters ==
  ASSUME TypeOK, Drops, Masters, NEW s \in {0, 1}, Moved(s),
         \A k \in Positions : \A i \in Idx :
           k > s /\ Master(events[k], i) => link'[i] = "remote",
         \A k \in Positions' : \A i \in Idx : Fresh(s, k) /\ Master(events'[k], i) =>
           link[i] = "none" /\ link'[i] = "remote" /\ \A m \in Positions' : Fresh(s, m) => m = k
  PROVE  Masters'
<1> SUFFICES ASSUME NEW k \in Positions', NEW i \in Idx, Master(events'[k], i)
             PROVE  /\ link'[i] = "remote"
                    /\ \A m \in Positions' : Master(events'[m], i) => m = k
                    /\ \A m \in Positions' : IsDrop(events'[m], i) => k < m
  BY DEF Masters, IsDrop, Master
<1>0. \A m \in Positions' : m \in Nat /\ (~Fresh(s, m) => m + s \in Positions /\ m + s > s)
  BY DEF Fresh, Positions
<1>1. CASE Fresh(s, k)
  <2>1. link[i] = "none" /\ link'[i] = "remote" /\ \A m \in Positions' : Fresh(s, m) => m = k
    BY <1>1
  <2>2. \A m \in Positions : ~Master(events[m], i) /\ ~IsDrop(events[m], i)
    BY <2>1 DEF Masters, Drops
  <2>3. \A m \in Positions' : Master(events'[m], i) => m = k
    BY <1>0, <2>1, <2>2 DEF Moved
  <2>4. ~IsDrop(events'[k], i)
    BY Fields DEF Master, IsDrop
  <2>5. \A m \in Positions' : ~IsDrop(events'[m], i)
    BY <1>0, <2>1, <2>2, <2>4 DEF Moved
  <2> QED
    BY <2>1, <2>3, <2>5
<1>2. CASE ~Fresh(s, k)
  <2>1. PICK n \in Positions : n = k + s /\ n > s /\ Master(events[n], i)
    BY <1>0, <1>2 DEF Moved
  <2>2. /\ link'[i] = "remote" /\ link[i] = "remote"
        /\ \A m \in Positions : Master(events[m], i) => m = n
        /\ \A m \in Positions : IsDrop(events[m], i) => n < m
    BY <2>1 DEF Masters
  <2>3. ASSUME NEW m \in Positions', Master(events'[m], i) PROVE m = k
    <3>1. ~Fresh(s, m)
      BY <2>2, <2>3
    <3>2. m + s = n
      BY <1>0, <2>2, <2>3, <3>1 DEF Moved
    <3> QED
      BY <1>0, <2>1, <3>2
  <2>4. ASSUME NEW m \in Positions', IsDrop(events'[m], i) PROVE k < m
    <3>1. CASE Fresh(s, m)
      <4>1. n < m + s
        BY <3>1, FreshIsLast DEF TypeOK
      <4> QED
        BY <1>0, <2>1, <4>1
    <3>2. CASE ~Fresh(s, m)
      <4>1. n < m + s
        BY <1>0, <2>2, <2>4, <3>2 DEF Moved
      <4> QED
        BY <1>0, <2>1, <4>1
    <3> QED
      BY <3>1, <3>2
  <2> QED
    BY <2>2, <2>3, <2>4
<1> QED
  BY <1>1, <1>2

\* A request stays in hand while nothing that concerns its link is taken.
LEMMA FlowHand ==
  ASSUME Central, InHand, NEW s \in {0, 1}, Moved(s), client_idx' = client_idx,
         remote' = "create" /\ ~conn_timer' =>
           remote = "create" /\ ~conn_timer /\ (s = 1 => ~Tells(events[1], client_idx)),
         \A i \in Idx : i = client_idx /\ link[i] \in {"searched", "known"} =>
           \/ link'[i] = link[i]
           \/ link'[i] = "known" /\ \E k \in Positions' : Tells(events'[k], i)
  PROVE  Central' /\ InHand'
<1>1. Central'
  BY DEF Central
<1>2. InHand'
  <2> SUFFICES ASSUME remote' = "create", ~conn_timer'
               PROVE  /\ client_idx' \in Idx
                      /\ \/ link'[client_idx'] = "searched"
                         \/ \E k \in Positions' : Tells(events'[k], client_idx')
    BY DEF InHand, Tells
  <2>1. PICK i \in Idx : i = client_idx
    BY DEF InHand
  <2>2. link[i] \in {"searched", "known"}
    BY <2>1 DEF Central
  <2>3. CASE link[i] = "searched"
    BY <2>1, <2>2, <2>3
  <2>4. ASSUME NEW k \in Positions, Tells(events[k], i)
        PROVE  \E m \in Positions' : Tells(events'[m], i)
    <3>1. k > s
      BY <2>1, <2>4 DEF Positions
    <3> QED
      BY <2>4, <3>1 DEF Moved
  <2> QED
    BY <2>1, <2>3, <2>4 DEF InHand
<1> QED
  BY <1>1, <1>2

LEMMA PostedHand ==
  ASSUME TypeOK, Drops, HandInv, NEW e \in Event, events' = Append(events, e),
         client_idx' = client_idx,
         remote' = "create" /\ ~conn_timer' => remote = "create" /\ ~conn_timer,
         \A i \in Idx : link[i] = "remote" => link'[i] = "remote",
         \A i \in Idx : Master(e, i) => link[i] = "none" /\ link'[i] = "remote",
         \A i \in Idx : link[i] \in {"searched", "known"} =>
           link'[i] = link[i] \/ (link'[i] = "known" /\ Tells(e, i))
  PROVE  HandInv'
<1>1. Queue(0) /\ New(0) /\ Newest = e
  BY Appended DEF TypeOK
<1>2. /\ Moved(0) /\ Len(events') \in Positions'
      /\ \A k \in Positions' : Fresh(0, k) => k = Len(events') /\ events'[k] = e
  <2>1. Len(events') \in Positions'
    BY <1>1 DEF Queue, New, Positions
  <2> QED
    BY <1>1, <2>1, QueueMoves
<1>3. Masters'
  <2>1. \A k \in Positions : \A i \in Idx : Master(events[k], i) => link'[i] = "remote"
    BY DEF HandInv, Masters
  <2>2. \A k \in Positions' : \A i \in Idx : Fresh(0, k) /\ Master(events'[k], i) =>
          link[i] = "none" /\ link'[i] = "remote" /\ \A m \in Positions' : Fresh(0, m) => m = k
    BY <1>2
  <2> QED
    BY <1>2, <2>1, <2>2, FlowMasters DEF HandInv
<1>4. ASSUME NEW i \in Idx, Tells(e, i) PROVE \E k \in Positions' : Tells(events'[k], i)
  BY <1>1, <1>2, <1>4 DEF Newest
<1>5. Central' /\ InHand'
  BY <1>2, <1>4, FlowHand DEF HandInv
<1> QED
  BY <1>3, <1>5 DEF HandInv

LEMMA StillHand ==
  ASSUME TypeOK, Drops, HandInv, events' = events, link' = link, client_idx' = client_idx,
         remote' = "create" /\ ~conn_timer' => remote = "create" /\ ~conn_timer
  PROVE  HandInv'
BY DEF HandInv, Masters, Central, InHand, Positions

LEMMA TakenMasters ==
  ASSUME TypeOK, Drops, Masters, events # <<>>, Take(<<>>),
         \A k \in Positions : \A i \in Idx : k > 1 /\ Master(events[k], i) => link'[i] = "remote"
  PROVE  Masters' /\ Moved(1)
<1>1. Queue(1) /\ ~New(1)
  BY Taken DEF TypeOK
<1>2. Moved(1) /\ \A k \in Positions' : ~Fresh(1, k)
  BY <1>1, QueueMoves
<1> QED
  BY <1>2, FlowMasters

LEMMA TakenHand ==
  ASSUME TypeOK, Drops, HandInv, events # <<>>, Take(<<>>), client_idx' = client_idx,
         remote' = "create" /\ ~conn_timer' =>
           remote = "create" /\ ~conn_timer /\ ~Tells(events[1], client_idx),
         \A k \in Positions : \A i \in Idx : k > 1 /\ Master(events[k], i) => link'[i] = "remote",
         client_idx \in Idx => link'[client_idx] = link[client_idx]
  PROVE  HandInv'
<1>1. Masters' /\ Moved(1)
  BY TakenMasters DEF HandInv
<1>2. Central' /\ InHand'
  BY <1>1, FlowHand DEF HandInv
<1> QED
  BY <1>1, <1>2 DEF HandInv

LEMMA OwnConnectHand ==
  ASSUME TypeOK, Drops, HandInv, NEW i \in Idx, OwnConnect(i)
  PROVE  HandInv'
<1> DEFINE n == Len(events)
<1>1. /\ n \in Nat /\ Len(events') = n + 2 /\ events'[n + 1] = EventOf("raw", i)
      /\ events'[n + 2] = Event1("advEnd") /\ \A k \in 1 .. n : events'[k] = events[k]
  BY OwnQueued DEF TypeOK
<1>2. /\ link[i] = "none" /\ link' = [link EXCEPT ![i] = "own"]
      /\ UNCHANGED <<remote, client_idx, conn_timer>>
  BY Zenon DEF OwnConnect, central
<1>3. \A j \in Idx : link'[j] = IF j = i THEN "own" ELSE link[j]
  BY <1>2 DEF TypeOK
<1>4. Moved(0) /\ \A k \in Positions' : Fresh(0, k) => events'[k].type \in {"raw", "advEnd"}
  <2>1. events'[n + 1].type = "raw" /\ events'[n + 2].type = "advEnd"
    BY <1>1, Fields
  <2>2. \A k \in Positions : k - 0 = k /\ k + 0 = k /\ k \in Positions' /\ events'[k] = events[k]
    BY <1>1 DEF Positions
  <2>3. \A k \in Positions' : k + 0 = k /\ (k \in Positions \/ k = n + 1 \/ k = n + 2)
    BY <1>1 DEF Positions
  <2> QED
    BY <2>1, <2>2, <2>3 DEF Moved, Fresh
<1>5. \A k \in Positions' : \A j \in Idx : Fresh(0, k) => ~Master(events'[k], j)
  BY <1>4, Fields DEF Master
<1>6. Masters'
  <2>1. \A k \in Positions : \A j \in Idx : Master(events[k], j) => link'[j] = "remote"
    BY <1>2, <1>3 DEF HandInv, Masters
  <2> QED
    BY <1>4, <1>5, <2>1, FlowMasters DEF HandInv
<1>7. Central' /\ InHand'
  BY <1>2, <1>3, <1>4, FlowHand DEF HandInv
<1> QED
  BY <1>6, <1>7 DEF HandInv

LEMMA PeersHand ==
  ASSUME TypeOK, Drops, HandInv, NEW i \in Idx,
         \/ OwnConnect(i) \/ MeshConnect(i) \/ Connected(i) \/ LinkLost(i) \/ Discovered(i)
         \/ \E f \in Cmd : GattWrite(i, f)
         \/ \E n \in {0, 1} : GattConfig(i, n)
  PROVE  HandInv'
<1>0. \A e \in Event : e.type \notin {"master"} => \A j \in Idx : ~Master(e, j)
  BY Fields DEF Master
<1>1. CASE MeshConnect(i)
  <2>1. /\ link[i] = "none" /\ link' = [link EXCEPT ![i] = "mesh"]
        /\ events' = Append(events, EventOf("raw", i)) /\ UNCHANGED <<remote, client_idx, conn_timer>>
    BY <1>1, Zenon DEF MeshConnect, central
  <2>2. \A j \in Idx : link'[j] = IF j = i THEN "mesh" ELSE link[j]
    BY <2>1 DEF TypeOK
  <2>3. EventOf("raw", i) \in Event /\ EventOf("raw", i).type = "raw"
    BY Fields
  <2> QED
    BY <1>0, <2>1, <2>2, <2>3, PostedHand
<1>2. CASE Connected(i)
  <2>1. /\ link[i] = "none" /\ link' = [link EXCEPT ![i] = "remote"]
        /\ events' = Append(events, EventOf("master", i)) /\ UNCHANGED <<remote, client_idx, conn_timer>>
    BY <1>2, Zenon DEF Connected, central
  <2>2. \A j \in Idx : link'[j] = IF j = i THEN "remote" ELSE link[j]
    BY <2>1 DEF TypeOK
  <2>3. EventOf("master", i) \in Event /\ \A j \in Idx : Master(EventOf("master", i), j) => j = i
    BY Fields DEF Master
  <2> QED
    BY <2>1, <2>2, <2>3, PostedHand
<1>3. CASE LinkLost(i)
  <2>1. PICK t \in {"drop", "failed"} : events' = Append(events, EventOf(t, i))
    BY <1>3 DEF LinkLost
  <2>2. link' = link /\ UNCHANGED <<remote, client_idx, conn_timer>>
    BY <1>3, Zenon DEF LinkLost, air, central
  <2>3. EventOf(t, i) \in Event /\ EventOf(t, i).type = t
    BY Fields
  <2> QED
    BY <1>0, <2>1, <2>2, <2>3, PostedHand
<1>4. CASE Discovered(i)
  <2>1. PICK t \in {"found", "missing"} : events' = Append(events, EventOf(t, i))
    BY <1>4 DEF Discovered
  <2>2. /\ link[i] = "searched" /\ link' = [link EXCEPT ![i] = "known"]
        /\ UNCHANGED <<remote, client_idx, conn_timer>>
    BY <1>4, Zenon DEF Discovered, central
  <2>3. \A j \in Idx : link'[j] = IF j = i THEN "known" ELSE link[j]
    BY <2>2 DEF TypeOK
  <2>4. EventOf(t, i) \in Event /\ EventOf(t, i).type = t /\ Tells(EventOf(t, i), i)
    BY Fields DEF Tells
  <2> QED
    BY <1>0, <2>1, <2>2, <2>3, <2>4, PostedHand
<1>5. ASSUME NEW f \in Cmd, GattWrite(i, f) PROVE HandInv'
  <2>1. /\ events' = Append(events, Event1("frame")) /\ link' = link
        /\ UNCHANGED <<remote, client_idx, conn_timer>>
    BY <1>5, Zenon DEF GattWrite, air, central
  <2>2. Event1("frame") \in Event /\ Event1("frame").type = "frame"
    BY Fields
  <2> QED
    BY <1>0, <2>1, <2>2, PostedHand
<1>6. ASSUME NEW n \in {0, 1}, GattConfig(i, n) PROVE HandInv'
  BY <1>6, StillHand DEF GattConfig, air, central
<1> QED
  BY <1>1, <1>2, <1>3, <1>4, <1>5, <1>6, OwnConnectHand

LEMMA CentralHand ==
  ASSUME TypeOK, Drops, HandInv,
         \/ pb_remote_connect_timeout \/ pb_remote_gatt_create \/ pb_remote_gatt_close
         \/ MeshProvisioned \/ UNCHANGED vars
  PROVE  HandInv'
<1>1. link' = link /\ client_idx' = client_idx
  BY Zenon DEF pb_remote_connect_timeout, pb_remote_gatt_create, pb_remote_gatt_close,
               MeshProvisioned, vars, air, central
<1>2. remote' = "create" /\ ~conn_timer' => remote = "create" /\ ~conn_timer
  BY DEF pb_remote_connect_timeout, pb_remote_gatt_create, pb_remote_gatt_close, MeshProvisioned,
         Opened, vars, central
<1>3. CASE events' = events
  BY <1>1, <1>2, <1>3, StillHand
<1>4. CASE events' = events \o Dropped
  <2>1. CASE Dropped = <<>>
    <3>1. events \o <<>> = events
      BY ConcatEmptySeq DEF TypeOK
    <3> QED
      BY <1>3, <1>4, <2>1, <3>1, Zenon
  <2>2. ASSUME NEW i \in Idx, Dropped = <<EventOf("drop", i)>> PROVE HandInv'
    <3>1. EventOf("drop", i) \in Event /\ \A j \in Idx : ~Master(EventOf("drop", i), j)
      BY Fields DEF Master
    <3>2. events \o <<EventOf("drop", i)>> = Append(events, EventOf("drop", i))
      BY <3>1, AppendIsConcat DEF TypeOK
    <3>3. events' = Append(events, EventOf("drop", i))
      BY <1>4, <2>2, <3>2, Zenon
    <3> QED
      BY <1>1, <1>2, <3>1, <3>3, PostedHand
  <2> QED
    BY <2>1, <2>2, DroppedLive
<1> QED
  BY <1>3, <1>4, Zenon
  DEF pb_remote_connect_timeout, pb_remote_gatt_create, pb_remote_gatt_close, MeshProvisioned, vars

\* The service is missing: the link is given up, and its loss will be told.
LEMMA MissingHand ==
  ASSUME TypeOK, Drops, HandInv, events # <<>>, events[1].type = "missing",
         Registered(FALSE), Take(Dropped)
  PROVE  HandInv'
<1>1. link' = link /\ UNCHANGED <<remote, client_idx, conn_timer>>
  BY Zenon DEF Registered, air
<1>2. CASE client_idx # NoIdx /\ Live(client_idx)
  <2>1. PICK i \in Idx : i = client_idx
    BY <1>2 DEF TypeOK
  <2> DEFINE e == EventOf("drop", i)
  <2>2. e \in Event /\ Take(<<e>>) /\ Tells(e, i) /\ \A j \in Idx : ~Master(e, j)
    BY <1>2, <2>1, Fields DEF Dropped, Tells, Master
  <2> HIDE DEF e
  <2>3. Queue(1) /\ New(1) /\ Newest = e
    BY <2>2, TakenAndAppended DEF TypeOK
  <2>4. /\ Moved(1) /\ Len(events') \in Positions'
        /\ \A k \in Positions' : Fresh(1, k) => events'[k] = e
    <3>1. Len(events') \in Positions'
      BY <2>3, TakenAndAppended, <2>2 DEF Queue, New, Positions, TypeOK
    <3> QED
      BY <2>3, <3>1, QueueMoves
  <2>5. Masters'
    <3>1. \A k \in Positions : \A j \in Idx : Master(events[k], j) => link'[j] = "remote"
      BY <1>1 DEF HandInv, Masters
    <3>2. \A k \in Positions' : \A j \in Idx : Fresh(1, k) => ~Master(events'[k], j)
      BY <2>2, <2>4
    <3> QED
      BY <2>4, <3>1, <3>2, FlowMasters DEF HandInv
  <2>6. Central'
    BY <1>1 DEF HandInv, Central
  <2>7. InHand'
    <3>1. Tells(events'[Len(events')], i)
      BY <2>2, <2>3 DEF Newest
    <3>2. \E k \in Positions' : Tells(events'[k], i)
      BY <2>4, <3>1
    <3> QED
      BY <1>1, <2>1, <3>2 DEF InHand, Tells
  <2> QED
    BY <2>5, <2>6, <2>7 DEF HandInv
<1>3. CASE ~(client_idx # NoIdx /\ Live(client_idx))
  <2>1. Take(<<>>)
    BY <1>3, Zenon DEF Dropped
  <2>2. Masters' /\ Moved(1)
    <3>1. \A k \in Positions : \A j \in Idx : k > 1 /\ Master(events[k], j) => link'[j] = "remote"
      BY <1>1 DEF HandInv, Masters
    <3> QED
      BY <2>1, <3>1, TakenMasters DEF HandInv
  <2>3. Central'
    BY <1>1 DEF HandInv, Central
  <2>4. InHand'
    <3> SUFFICES ASSUME remote = "create", ~conn_timer
                 PROVE  client_idx \in Idx /\ \E k \in Positions' : Tells(events'[k], client_idx)
      BY <1>1 DEF InHand, Tells
    <3>1. client_idx \in Idx /\ client_idx # NoIdx
      BY IdxAssumption DEF HandInv, InHand
    <3>2. link[client_idx] # "none"
      BY <3>1 DEF HandInv, Central
    <3>3. PICK k \in Positions : events[k] \in {EventOf("drop", client_idx), EventOf("failed", client_idx)}
      BY <1>3, <3>1, <3>2 DEF Live, Lost, Positions
    <3>4. Tells(events[k], client_idx) /\ events[k].type # "missing"
      BY <3>1, <3>3, Fields DEF Tells
    <3>5. k > 1
      BY <3>4 DEF Positions
    <3>6. k - 1 \in Positions' /\ events'[k - 1] = events[k]
      BY <2>2, <3>5 DEF Moved
    <3> QED
      BY <3>1, <3>4, <3>6
  <2> QED
    BY <2>2, <2>3, <2>4 DEF HandInv
<1> QED
  BY <1>2, <1>3

LEMMA MasterHand ==
  ASSUME TypeOK, Drops, HandInv, events # <<>>, NEW i \in Idx, Master(events[1], i),
         MasterConnect(i), Take(<<>>)
  PROVE  HandInv'
<1>1. 1 \in Positions
  BY Taken DEF TypeOK
<1>2. link[i] = "remote" /\ \A m \in Positions : Master(events[m], i) => m = 1
  BY <1>1 DEF HandInv, Masters
<1>3. /\ link' = [link EXCEPT ![i] = IF @ = "remote" THEN "searched" ELSE @]
      /\ client_idx' = i /\ remote' = remote
  BY Zenon DEF MasterConnect
<1>4. \A j \in Idx : link'[j] = IF j = i THEN "searched" ELSE link[j]
  BY <1>2, <1>3 DEF TypeOK
<1>5. Masters'
  <2>1. \A k \in Positions : \A j \in Idx : k > 1 /\ Master(events[k], j) => link'[j] = "remote"
    BY <1>2, <1>4 DEF HandInv, Masters
  <2> QED
    BY <2>1, TakenMasters DEF HandInv
<1>6. Central' /\ InHand'
  BY <1>3, <1>4 DEF Central, InHand
<1> QED
  BY <1>5, <1>6 DEF HandInv

LEMMA LossHand ==
  ASSUME TypeOK, Drops, HandInv, events # <<>>, NEW i \in Idx, IsDrop(events[1], i),
         NEW failed \in BOOLEAN, Disconnect(i, failed), Take(<<>>)
  PROVE  HandInv'
<1>1. 1 \in Positions
  BY Taken DEF TypeOK
<1>2. link' = [link EXCEPT ![i] = "none"] /\ pb_remote_disconnected(i, failed)
  BY Zenon DEF Disconnect
<1>3. \A j \in Idx : link'[j] = IF j = i THEN "none" ELSE link[j]
  BY <1>2 DEF TypeOK
<1>4. \A k \in Positions : \A j \in Idx : k > 1 /\ Master(events[k], j) => link'[j] = "remote"
  <2> SUFFICES ASSUME NEW k \in Positions, NEW j \in Idx, k > 1, Master(events[k], j)
               PROVE  link'[j] = "remote"
    OBVIOUS
  <2>1. link[j] = "remote" /\ \A m \in Positions : IsDrop(events[m], j) => k < m
    BY DEF HandInv, Masters
  <2>2. ~(k < 1)
    BY DEF Positions
  <2>3. j # i
    BY <1>1, <2>1, <2>2
  <2> QED
    BY <1>3, <2>1, <2>3
<1>5. CASE i # client_idx
  <2>1. UNCHANGED <<remote, client_idx, conn_timer>>
    BY <1>2, <1>5, Zenon DEF pb_remote_disconnected, central
  <2>2. ~Tells(events[1], client_idx)
    BY <1>5 DEF IsDrop, Tells
  <2>3. client_idx \in Idx => link'[client_idx] = link[client_idx]
    BY <1>3, <1>5
  <2> QED
    BY <1>4, <2>1, <2>2, <2>3, TakenHand
<1>6. CASE i = client_idx
  <2>1. Masters'
    BY <1>4, TakenMasters DEF HandInv
  <2>2. client_idx' = NoIdx /\ (conn_timer' = TRUE \/ remote' = "none")
    BY <1>2, <1>6, Zenon DEF pb_remote_disconnected, Retry, Closed
  <2>3. Central' /\ InHand'
    BY <2>2, IdxAssumption DEF Central, InHand
  <2> QED
    BY <2>1, <2>3 DEF HandInv
<1> QED
  BY <1>5, <1>6

LEMMA HandleHand ==
  ASSUME TypeOK, Drops, HandInv, Handle
  PROVE  HandInv'
<1> DEFINE e == Head(events)
<1>1. events # <<>> /\ events \in Seq(Event)
  BY DEF Handle, TypeOK
<1>2. e = events[1] /\ e \in Event
  <2>1. Len(events) \in Nat \ {0} /\ Head(events) = events[1] /\ Head(events) \in Event
    BY <1>1, HeadTailProperties, EmptySeq
  <2> QED
    BY <2>1
<1>3. e.type \in {"raw", "master", "found", "missing", "drop", "failed"}
        => e.idx \in Idx /\ e = EventOf(e.type, e.idx)
  BY <1>2, Fields
<1> HIDE DEF e
\* The handlers that have nothing to do with PB-Remote.
<1>4. ASSUME e.type \in {"ready", "raw", "advEnd", "frame", "found"}, Take(<<>>),
             link' = link, client_idx' = client_idx,
             remote' = "create" /\ ~conn_timer' =>
               remote = "create" /\ ~conn_timer /\ e.type # "found"
      PROVE  HandInv'
  <2>1. \A k \in Positions : \A i \in Idx : Master(events[k], i) => link'[i] = "remote"
    BY <1>4 DEF HandInv, Masters
  <2>2. e.type # "found" => ~Tells(events[1], client_idx)
    BY <1>2, <1>4 DEF Tells
  <2> QED
    BY <1>1, <1>4, <2>1, <2>2, TakenHand
<1>5. ASSUME \/ e.type = "ready" /\ AllSvcAdded
             \/ e.type = "advEnd" /\ AdvEnd
             \/ e.type = "frame" /\ APP_Google_Task
             \/ e.type = "raw" /\ SlaveRawConnect(e.idx),
             Take(<<>>)
      PROVE  HandInv'
  <2>1. link' = link /\ UNCHANGED <<remote, client_idx, conn_timer>>
    BY <1>5, Zenon DEF AllSvcAdded, AdvEnd, APP_Google_Task, SlaveRawConnect, air, central
  <2> QED
    BY <1>4, <1>5, <2>1
<1>6. ASSUME e.type = "found", Registered(TRUE), Take(<<>>) PROVE HandInv'
  <2>1. link' = link /\ client_idx' = client_idx /\ remote' # "create"
    BY <1>6 DEF Registered, Opened, air
  <2> QED
    BY <1>4, <1>6, <2>1
<1>7. ASSUME e.type = "master", MasterConnect(e.idx), Take(<<>>) PROVE HandInv'
  <2>1. PICK i \in Idx : i = e.idx
    BY <1>3, <1>7
  <2>2. Master(events[1], i) /\ MasterConnect(i)
    BY <1>2, <1>3, <1>7, <2>1 DEF Master
  <2> QED
    BY <1>1, <1>7, <2>2, MasterHand
<1>8. ASSUME e.type \in {"drop", "failed"}, Disconnect(e.idx, e.type = "failed"), Take(<<>>)
      PROVE  HandInv'
  <2>1. PICK i \in Idx, f \in BOOLEAN : i = e.idx /\ f = (e.type = "failed")
    BY <1>3, <1>8
  <2>2. Disconnect(i, f)
    BY <1>8, <2>1, Zenon
  <2>3. IsDrop(events[1], i)
    BY <1>2, <1>8, <2>1 DEF IsDrop
  <2> QED
    BY <1>1, <1>8, <2>2, <2>3, LossHand
<1>9. ASSUME e.type = "missing", Registered(FALSE), Take(Dropped) PROVE HandInv'
  BY <1>1, <1>2, <1>9, MissingHand
<1>10. \/ e.type = "ready" /\ AllSvcAdded /\ Take(<<>>)
       \/ e.type = "raw" /\ SlaveRawConnect(e.idx) /\ Take(<<>>)
       \/ e.type = "advEnd" /\ AdvEnd /\ Take(<<>>)
       \/ e.type = "master" /\ MasterConnect(e.idx) /\ Take(<<>>)
       \/ e.type = "frame" /\ APP_Google_Task /\ Take(<<>>)
       \/ e.type = "found" /\ Registered(TRUE) /\ Take(<<>>)
       \/ e.type = "missing" /\ Registered(FALSE) /\ Take(Dropped)
       \/ e.type \in {"drop", "failed"} /\ Disconnect(e.idx, e.type = "failed") /\ Take(<<>>)
  BY Zenon DEF Handle, e
<1> QED
  BY <1>5, <1>6, <1>7, <1>8, <1>9, <1>10, Zenon

LEMMA StepHand == IInv /\ HandInv /\ [Next]_vars => HandInv'
<1> SUFFICES ASSUME IInv, HandInv, [Next]_vars PROVE HandInv'
  OBVIOUS
<1>1. TypeOK /\ Drops
  BY DEF IInv, LinkInv
<1>2. CASE Handle
  BY <1>1, <1>2, HandleHand
<1>3. CASE Peers
  <2>1. PICK i \in Idx :
          \/ OwnConnect(i) \/ MeshConnect(i) \/ Connected(i) \/ LinkLost(i) \/ Discovered(i)
          \/ \E f \in Cmd : GattWrite(i, f)
          \/ \E n \in {0, 1} : GattConfig(i, n)
    BY <1>3, Zenon DEF Peers
  <2> QED
    BY <1>1, <2>1, PeersHand
<1>4. CASE MeshProvisioned \/ pb_remote_connect_timeout \/ pb_remote_gatt_create
             \/ pb_remote_gatt_close \/ UNCHANGED vars
  BY <1>1, <1>4, CentralHand
<1>5. ASSUME NEW b \in {NONE, GOOGLE, AMANZON}, Start(b) PROVE HandInv'
  <2>1. events' = <<Event1("ready")>>
    BY <1>5, StartTypes
  <2>2. remote' = "none" /\ client_idx' = NoIdx
    BY <1>5, Zenon DEF Start, Started
  <2>3. Positions' = {1} /\ events'[1].type = "ready"
    BY <2>1, Fields DEF Positions
  <2>4. Masters'
    BY <2>3, Fields DEF Masters, Master
  <2> QED
    BY <2>2, <2>4, IdxAssumption DEF HandInv, Central, InHand
<1>6. CASE Restart \/ MeshReset
  <2>1. PICK b \in {NONE, GOOGLE, AMANZON} : Start(b)
    BY <1>1, <1>6 DEF Restart, MeshReset, TypeOK
  <2> QED
    BY <1>5, <2>1
<1> QED
  BY <1>2, <1>3, <1>4, <1>6, Zenon DEF Next, MeshStack

\* PB-Remote never loses sight of a request: as long as the mesh stack waits for
\* an answer, a timer, a discovery or a message in the queue will bring it,
\* whatever connections and losses of other requests come in between.
THEOREM RequestInHandHolds == Spec => []RequestInHand
<1>1. Init => HandInv
  <2> SUFFICES ASSUME Init PROVE HandInv
    OBVIOUS
  <2>1. PICK b \in {NONE, GOOGLE, AMANZON} :
          Started(b, events, link, adv, trying, bound, mesh, adv_stopped, slave_link_conidx,
                  slave_link_conidx_tmp, ntf, rx, tx, asking, remote, client_idx, conn_timer,
                  try_times)
    BY Zenon DEF Init
  <2>2. events = <<Event1("ready")>> /\ remote = "none" /\ client_idx = NoIdx
    BY <2>1, Zenon DEF Started, Event1
  <2>3. Positions = {1} /\ events[1].type = "ready"
    BY <2>2, Fields DEF Positions
  <2>4. Masters
    BY <2>3, Fields DEF Masters, Master
  <2> QED
    BY <2>2, <2>4, IdxAssumption DEF HandInv, Central, InHand
<1>2. IInv /\ HandInv => RequestInHand
  BY InHandMeans DEF IInv, HandInv
<1> QED
  BY <1>1, <1>2, StepHand, Invariant, PTL DEF Spec
=============================================================================
