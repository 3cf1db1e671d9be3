-------------------------------- MODULE Links --------------------------------
(***************************************************************************)
(* The links of the lamp: the GAP callback of the application              *)
(* (proj_main.c), control over GATT (APP_Google.c, Google_Service.c) and   *)
(* the links PB-Remote opens to nodes it provisions (pb_remote_central.c). *)
(* All of them are told of every link by its index and must know their own.*)
(*                                                                         *)
(* Events of the stack and events the application posts are handled one by *)
(* one in the order they were posted; the stack runs ahead of them.  The   *)
(* stack, the mesh stack and the peers are external.                       *)
(***************************************************************************)
EXTENDS Naturals, Sequences, FiniteSets

CONSTANTS
  Idx,                    \* the indices of links
  NoIdx,                  \* 0xff
  NONE, GOOGLE, AMANZON,  \* PROV_TYPE
  TRY_MAX,                \* PB_REMOTE_CONN_TRY_MAX_COUNT
  MaxEvents,              \* bound on the events queued before a link opens
  MaxFrames               \* bound on the frames queued

ASSUME IdxAssumption == NoIdx \notin Idx
ASSUME ProvAssumption == NONE # GOOGLE /\ NONE # AMANZON /\ GOOGLE # AMANZON
ASSUME BoundsAssumption == TRY_MAX \in Nat /\ MaxEvents \in Nat /\ MaxFrames \in Nat

\* control: switch, level, temperature or colour; bad: one ProtocolProcess does not
\* know.  A blink, left out, is answered as bind and unbind are, with nothing, and
\* changes none of these variables; what it does to the light is in LampOutput.
Cmd == {"control", "bind", "unbind", "bad"}

Event ==
  [type : {"ready", "advEnd", "frame"}, idx : {NoIdx}]
  \cup [type : {"raw", "master", "found", "missing", "drop", "failed"}, idx : Idx]

Use == {"none", "own", "mesh", "remote", "searched", "known"}

VARIABLES
  events,   \* messages to the application
  link,     \* what each index is used for: "own" is a client of the lamp's own
            \* advertising; "remote", "searched" and "known" one of PB-Remote before,
            \* in and after the discovery of its services
  adv,      \* the lamp advertises
  trying,   \* gap_start_conn is under way
  bound,    \* the provisioning type
  mesh,     \* the mesh stack: "off", "out" of a network or "in" one
  adv_stopped, slave_link_conidx, slave_link_conidx_tmp,
  ntf,      \* g_ntf_Google_char6_Enable
  rx,       \* the command in RxBuff; "bad" when nothing will read it any more
  tx,       \* TxBuff and ucTxLen: "none", or a copy of DeviceStatus that is "current"
            \* or "stale"
  asking,   \* history: the link the command in RxBuff came over has not been lost;
            \* FALSE when nothing will read it any more
  remote,   \* PB-Remote as the mesh stack sees it: "none", "create", "open", "close"
  client_idx, conn_timer, try_times

air == <<link, adv, trying>>
own == <<adv_stopped, slave_link_conidx, slave_link_conidx_tmp>>
google == <<ntf, rx, tx, asking>>
central == <<remote, client_idx, conn_timer, try_times>>
vars == <<events, air, bound, mesh, own, google, central>>

TypeOK ==
  /\ events \in Seq(Event)
  /\ link \in [Idx -> Use] /\ adv \in BOOLEAN /\ trying \in BOOLEAN
  /\ bound \in {NONE, GOOGLE, AMANZON} /\ mesh \in {"off", "out", "in"}
  /\ adv_stopped \in BOOLEAN
  /\ slave_link_conidx \in Idx \cup {NoIdx} /\ slave_link_conidx_tmp \in Idx \cup {NoIdx}
  /\ ntf \in {0, 1} /\ rx \in Cmd /\ asking \in BOOLEAN
  /\ tx \in {"none", "current", "stale"}
  /\ remote \in {"none", "create", "open", "close"}
  /\ client_idx \in Idx \cup {NoIdx} /\ conn_timer \in BOOLEAN /\ try_times \in 0 .. TRY_MAX + 1

\* A start of a lamp bound to b.  A lamp bound to Google starts no mesh stack; a
\* network may be left in flash by a binding before, or not be there yet.
Started(b, e, l, a, t, bd, n, st, sl, tmp, nt, r, x, as, rm, cl, tm, tr) ==
  /\ e = <<[type |-> "ready", idx |-> NoIdx]>>
  /\ l = [i \in Idx |-> "none"] /\ a = FALSE /\ t = FALSE
  /\ bd = b /\ n \in (IF b = GOOGLE THEN {"off"} ELSE {"out", "in"})
  /\ st = FALSE /\ sl = NoIdx /\ tmp = NoIdx
  /\ nt = 0 /\ r = "bad" /\ x = "none" /\ as = FALSE
  /\ rm = "none" /\ cl = NoIdx /\ tm = FALSE /\ tr = 0

Init ==
  \E b \in {NONE, GOOGLE, AMANZON} :
    Started(b, events, link, adv, trying, bound, mesh, adv_stopped, slave_link_conidx,
            slave_link_conidx_tmp, ntf, rx, tx, asking, remote, client_idx, conn_timer,
            try_times)

Start(b) ==
  Started(b, events', link', adv', trying', bound', mesh', adv_stopped', slave_link_conidx',
          slave_link_conidx_tmp', ntf', rx', tx', asking', remote', client_idx',
          conn_timer', try_times')

\* The supply fails, or SYSTEM_RESET after an unprovisioning.
Restart == Start(bound)

\* MESH_EVT_RESET.
MeshReset == mesh = "in" /\ Start(NONE) /\ mesh' = "out"

-----------------------------------------------------------------------------
(* The stack and its peers                                                 *)

Event1(t) == [type |-> t, idx |-> NoIdx]
EventOf(t, i) == [type |-> t, idx |-> i]
Room == Len(events) < MaxEvents

\* The index is free again when the loss of the link has been handled.
Lost(i) == \E k \in 1 .. Len(events) : events[k] \in {EventOf("drop", i), EventOf("failed", i)}
Live(i) == link[i] # "none" /\ ~Lost(i)

\* A client of the lamp connects; ADV_END follows at once (proj_main.c:107).
OwnConnect(i) ==
  /\ Room /\ adv /\ link[i] = "none"
  /\ link' = [link EXCEPT ![i] = "own"] /\ adv' = FALSE
  /\ events' = events \o <<EventOf("raw", i), Event1("advEnd")>>
  /\ UNCHANGED <<trying, bound, mesh, own, google, central>>

\* A client of the mesh stack's advertising connects, to provision or as a proxy.
MeshConnect(i) ==
  /\ Room /\ mesh # "off" /\ link[i] = "none"
  /\ link' = [link EXCEPT ![i] = "mesh"] /\ events' = Append(events, EventOf("raw", i))
  /\ UNCHANGED <<adv, trying, bound, mesh, own, google, central>>

Connected(i) ==
  /\ Room /\ trying /\ link[i] = "none"
  /\ link' = [link EXCEPT ![i] = "remote"] /\ trying' = FALSE
  /\ events' = Append(events, EventOf("master", i))
  /\ UNCHANGED <<adv, bound, mesh, own, google, central>>

\* A link that was just opened can fail to be established (0x3e).
LinkLost(i) ==
  /\ Live(i)
  /\ \E t \in (IF link[i] \in {"remote", "searched"} THEN {"drop", "failed"} ELSE {"drop"}) :
       events' = Append(events, EventOf(t, i))
  /\ UNCHANGED <<air, bound, mesh, own, google, central>>

\* The services of the peer are known.
Discovered(i) ==
  /\ link[i] = "searched" /\ Live(i)
  /\ link' = [link EXCEPT ![i] = "known"]
  /\ \E t \in {"found", "missing"} : events' = Append(events, EventOf(t, i))
  /\ UNCHANGED <<adv, trying, bound, mesh, own, google, central>>

MeshProvisioned ==
  /\ mesh = "out" /\ mesh' = "in" /\ bound' = AMANZON
  /\ UNCHANGED <<events, air, own, google, central>>

-----------------------------------------------------------------------------
(* GATT: Google_gatt_msg_handler and the task                              *)

\* A client of the lamp is known to the application and has not left.
Client(i) == link[i] = "own" /\ EventOf("raw", i) \notin {events[k] : k \in 1 .. Len(events)}

GattWrite(i, f) ==
  /\ Client(i) /\ Cardinality({k \in 1 .. Len(events) : events[k] = Event1("frame")}) < MaxFrames
  /\ rx' = f /\ asking' = TRUE /\ events' = Append(events, Event1("frame"))
  /\ UNCHANGED <<air, bound, mesh, own, ntf, tx, central>>

GattConfig(i, n) ==
  /\ Client(i) /\ ntf' = n
  /\ UNCHANGED <<events, air, bound, mesh, own, rx, tx, asking, central>>

\* The control commands are refused unless the lamp is bound; what is refused
\* leaves the last reply and its length.
Refused == (rx = "bad") \/ (rx = "control" /\ bound # GOOGLE)

\* Mutant: the reply is made before the command is carried out.
ReplyBefore == tx' = IF Refused THEN tx ELSE IF rx = "control" THEN "stale" ELSE "none"

Reply == tx' = IF Refused THEN tx ELSE IF rx = "control" THEN "current" ELSE "none"

\* Proc_Provision and Proc_UnProvision; the restart after the latter is Restart.
APP_Google_Task ==
  /\ bound' = CASE rx = "bind" -> GOOGLE [] rx = "unbind" -> NONE [] OTHER -> bound
  /\ Reply
  /\ IF Event1("frame") \in {events[k] : k \in 2 .. Len(events)}
       THEN UNCHANGED <<rx, asking>>
       ELSE rx' = "bad" /\ asking' = FALSE
  /\ UNCHANGED <<air, mesh, own, ntf, central>>

-----------------------------------------------------------------------------
(* proj_ble_gap_evt_func                                                   *)

\* What is left of the queue, with what a handler appends to it.
Take(new) == events' = Tail(events) \o new

\* APP_Google_Start_Advertising, with the test code that clears the binding.
StartAdvertising == adv' = TRUE /\ bound' = NONE

AllSvcAdded ==
  /\ IF bound # AMANZON THEN StartAdvertising /\ adv_stopped' = FALSE
                        ELSE UNCHANGED <<adv, bound, adv_stopped>>
  /\ UNCHANGED <<link, trying, mesh, slave_link_conidx, slave_link_conidx_tmp, google, central>>

\* The services are told of the link as well.
SlaveRawConnect(i) ==
  /\ slave_link_conidx_tmp' = i /\ ntf' = 0
  /\ UNCHANGED <<air, bound, mesh, adv_stopped, slave_link_conidx, rx, tx, asking, central>>

\* Mutant: the index is cleared before it is taken over.
AdvEndSwapped ==
  /\ adv_stopped' = TRUE
  /\ slave_link_conidx_tmp' = NoIdx /\ slave_link_conidx' = NoIdx
  /\ UNCHANGED <<air, bound, mesh, google, central>>

AdvEnd ==
  /\ adv_stopped' = TRUE
  /\ slave_link_conidx' = slave_link_conidx_tmp /\ slave_link_conidx_tmp' = NoIdx
  /\ UNCHANGED <<air, bound, mesh, google, central>>

\* Mutant: any link that goes restarts the advertising.
MineAny(i) == adv_stopped

\* The link that ended the advertising.
Mine(i) == adv_stopped /\ slave_link_conidx = i

\* pb_remote_connected.
MasterConnect(i) ==
  /\ client_idx' = i /\ conn_timer' = FALSE /\ ntf' = 0
  /\ link' = [link EXCEPT ![i] = IF @ = "remote" THEN "searched" ELSE @]
  /\ UNCHANGED <<adv, trying, bound, mesh, own, rx, tx, asking, remote, try_times>>

-----------------------------------------------------------------------------
(* pb_remote_central.c                                                     *)

\* m_pbrs_prov_bearer_gatt_opened and _closed, to the mesh stack.
Opened(ok) == remote' = IF remote = "create" THEN (IF ok THEN "open" ELSE "none") ELSE remote
Closed == remote' = "none"

\* Mutant: the timer is not started for the attempts after the first.
RetryUntimed ==
  /\ try_times' = try_times + 1 /\ trying' = TRUE /\ UNCHANGED <<conn_timer, remote>>

Retry == try_times' = try_times + 1 /\ trying' = TRUE /\ conn_timer' = TRUE /\ UNCHANGED remote

\* failed: the link could not be established.
pb_remote_disconnected(i, failed) ==
  IF i # client_idx THEN UNCHANGED <<trying, central>>
  ELSE /\ client_idx' = NoIdx
       /\ IF failed /\ try_times <= TRY_MAX
            THEN Retry
            ELSE Closed /\ UNCHANGED <<trying, conn_timer, try_times>>

\* Mutant: the notifications stay on.
LostKeepsNtf(i) == UNCHANGED ntf

LinkLostNtf(i) == ntf' = 0

\* GAP_EVT_DISCONNECT.
Disconnect(i, failed) ==
  /\ link' = [link EXCEPT ![i] = "none"]
  /\ LinkLostNtf(i) /\ asking' = (asking /\ link[i] # "own")
  /\ pb_remote_disconnected(i, failed)
  /\ IF bound # AMANZON /\ Mine(i)
       THEN StartAdvertising /\ adv_stopped' = FALSE /\ slave_link_conidx' = NoIdx
       ELSE UNCHANGED <<adv, bound, adv_stopped, slave_link_conidx>>
  /\ UNCHANGED <<mesh, slave_link_conidx_tmp, rx, tx>>

\* Mutant: the link of a peer without the service stays up.
DroppedNot == <<>>

\* gap_disconnect_req(client_idx).
Dropped == IF client_idx # NoIdx /\ Live(client_idx) THEN <<EventOf("drop", client_idx)>> ELSE <<>>

\* GATT_OP_PEER_SVC_REGISTERED.
Registered(found) ==
  /\ IF found THEN Opened(TRUE) ELSE UNCHANGED remote
  /\ UNCHANGED <<air, bound, mesh, own, google, client_idx, conn_timer, try_times>>

pb_remote_connect_timeout ==
  /\ conn_timer /\ conn_timer' = FALSE
  /\ trying' = FALSE /\ Opened(FALSE)
  /\ UNCHANGED <<events, link, adv, bound, mesh, own, google, client_idx, try_times>>

pb_remote_gatt_create ==
  /\ mesh = "in" /\ remote = "none" /\ remote' = "create"
  /\ try_times' = 1 /\ trying' = TRUE /\ conn_timer' = TRUE
  /\ UNCHANGED <<events, link, adv, bound, mesh, own, google, client_idx>>

pb_remote_gatt_close ==
  /\ remote = "open" /\ remote' = "close"
  /\ events' = events \o Dropped
  /\ UNCHANGED <<air, bound, mesh, own, google, client_idx, conn_timer, try_times>>

-----------------------------------------------------------------------------
\* The application takes the next message.
Handle ==
  /\ events # <<>>
  /\ LET e == Head(events) IN
     \/ e.type = "ready" /\ AllSvcAdded /\ Take(<<>>)
     \/ e.type = "raw" /\ SlaveRawConnect(e.idx) /\ Take(<<>>)
     \/ e.type = "advEnd" /\ AdvEnd /\ Take(<<>>)
     \/ e.type = "master" /\ MasterConnect(e.idx) /\ Take(<<>>)
     \/ e.type = "frame" /\ APP_Google_Task /\ Take(<<>>)
     \/ e.type = "found" /\ Registered(TRUE) /\ Take(<<>>)
     \/ e.type = "missing" /\ Registered(FALSE) /\ Take(Dropped)
     \/ e.type \in {"drop", "failed"} /\ Disconnect(e.idx, e.type = "failed") /\ Take(<<>>)

Peers ==
  \E i \in Idx :
    \/ OwnConnect(i) \/ MeshConnect(i) \/ Connected(i) \/ LinkLost(i) \/ Discovered(i)
    \/ \E f \in Cmd : GattWrite(i, f)
    \/ \E n \in {0, 1} : GattConfig(i, n)

MeshStack == MeshProvisioned \/ MeshReset \/ pb_remote_gatt_create \/ pb_remote_gatt_close

Next == Handle \/ Peers \/ MeshStack \/ pb_remote_connect_timeout \/ Restart

Spec == Init /\ [][Next]_vars

\* The loop goes on, the timer fires, and a discovery comes to an end.
FairSpec ==
  /\ Spec /\ WF_vars(Handle) /\ WF_vars(pb_remote_connect_timeout)
  /\ \A i \in Idx : WF_vars(Discovered(i))

-----------------------------------------------------------------------------
(* Properties                                                              *)

\* The lamp can be reached: once everything that happened to its links has been
\* handled, it advertises, has a client, or belongs to the mesh, whichever
\* links of the mesh and of PB-Remote came and went meanwhile.
Reachable ==
  events = <<>> => mesh = "in" \/ bound = AMANZON \/ adv \/ \E i \in Idx : link[i] = "own"

\* The one buffer, the one flag and the one index are enough: the lamp never
\* advertises while it has a client, so it never has two.
OneClient ==
  /\ adv => \A i \in Idx : link[i] # "own"
  /\ \A i, j \in Idx : link[i] = "own" /\ link[j] = "own" => i = j

\* A reply goes to the client that asked, never to the next one on the same
\* index, and tells the status as it is, also when the length of the reply
\* before it was left over (APP_Google.c:396).
ReplyIsToAsker ==
  [][Handle /\ Head(events).type = "frame" /\ ntf = 1 /\ tx' # "none"
       => asking /\ tx' = "current"]_vars

\* A request is never forgotten: while PB-Remote owes the mesh stack an answer and
\* its timer does not run, it has a link whose discovery is under way, whose
\* outcome is in the queue, or whose loss is, whatever late connections of
\* requests before and losses of other links came in between.
RequestInHand ==
  remote = "create" /\ ~conn_timer =>
    /\ client_idx \in Idx
    /\ \/ link[client_idx] = "searched" \/ Lost(client_idx)
       \/ \E k \in 1 .. Len(events) :
            events[k] \in {EventOf("found", client_idx), EventOf("missing", client_idx)}

\* PB-Remote answers every request for a link, whether the peer appears, fails,
\* lacks the service or comes too late.
CreateAnswered == remote = "create" ~> remote # "create"
=============================================================================
