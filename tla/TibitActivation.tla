--------------------------- MODULE TibitActivation ---------------------------
(***************************************************************************)
(* Activation of Tibit OLTs and their ONUs: TibitOltAdapter                *)
(* (src/voltha/adapters/tibit_olt/tibit_olt.py) and TibitOnuAdapter        *)
(* (src/voltha/adapters/tibit_onu/tibit_onu.py), both on the Twisted       *)
(* reactor thread.  A step is what runs between two yields or reactor      *)
(* turns: an inlineCallbacks coroutine resumed by DeferredQueue.put runs   *)
(* on inside the put, so a frame that wakes a waiting activation and the   *)
(* code after the wait are one step.                                       *)
(*                                                                         *)
(* The environment: the core adopts each OLT, builds a device for each    *)
(* ONU child_device_detected reports, routes proxied messages to the ONU  *)
(* adapter once an ONU registered for them, and pushes flow tables.  The  *)
(* OLT hardware answers each request on the interface with one frame,     *)
(* forwards proxied messages to the ONU, which answers, and, once it has  *)
(* an upstream rule, traps subscriber frames to the host as packet-ins.   *)
(* Frames in flight are sets: delivery order is free.                      *)
(***************************************************************************)
EXTENDS Integers, Sequences, FiniteSets, TLC, TibitFlows

CONSTANTS
    Olts,       \* OLT devices, by MAC address
    Onus,       \* ONU devices
    PonOf,      \* PonOf[u]: the OLT whose PON ONU u hangs off
    OnuMac,     \* OnuMac[u]: the six bytes of u's macid in the links reply
    QueueSize,  \* the size of DeferredQueue(size=100), scaled down
    Bulks,      \* flow lists the core may hand to update_flows_bulk
    MaxRules,   \* bound on rules pushed to the OLTs
    Lossy,      \* whether the interface may lose frames
    AtProxyMac  \* the OLTs (none or one) whose MAC is 00:0c:e2:22:29:00

ASSUME PonOf \in [Onus -> Olts] /\ OnuMac \in [Onus -> [1 .. 6 -> 0 .. 255]]
ASSUME QueueSize \in Nat \ {0} /\ MaxRules \in Nat /\ Lossy \in BOOLEAN
ASSUME AtProxyMac \subseteq Olts /\ Cardinality(AtProxyMac) <= 1

VARIABLES
    io_port,            \* the frameio port has been added
    incoming_queues,    \* OLT mac -> frames queued for its activation
    device_ids,         \* OLT macs with a device_ids entry
    vlan_to_device_ids, \* c-vid -> the OLT (device and logical device)
    olt_pc,             \* where each OLT's activation is
    onu_pc,             \* where each ONU's activation is
    incoming_messages,  \* the ONU adapter's one DeferredQueue: channel ids
    waiters,            \* ONUs blocked in incoming_messages.get(), FIFO
    registered,         \* proxy addresses registered with the core
    toHw,               \* frames sent to the OLTs
    fromHw,             \* frames the OLTs sent to the host
    hwRules,            \* OLTs holding an upstream rule
    pushed,             \* rules pushed so far
    rcv_err,            \* the exception the last _rcv_io call raised
    packet_ins,         \* history: send_packet_in calls, [src, ld]
    answered            \* history: channel of the reply that woke each ONU

vars == <<io_port, incoming_queues, device_ids, vlan_to_device_ids, olt_pc,
          onu_pc, incoming_messages, waiters, registered, toHw, fromHw,
          hwRules, pushed, rcv_err, packet_ins, answered>>

Frame(k, o, c) == [kind |-> k, olt |-> o, ch |-> c]

\* int(macid['macid'][-4:-2], 16): hex digits 9 and 10 of the 12, the
\* fifth byte of the address.
macid_serial(mac) == mac[5]

\* _olt_side_onu_activation: the channel (c-vid) of an ONU.
_olt_side_onu_activation(serial) == serial + 200

VlanOf(u)  == _olt_side_onu_activation(macid_serial(OnuMac[u]))
ProxyOf(u) == [device_id |-> PonOf[u], channel_id |-> VlanOf(u)]

\* The reply the OLT hardware (or, for a proxied request, the ONU) gives.
Reply(req) ==
    CASE req.kind = "ping"  -> Frame("version", req.olt, 0)
      [] req.kind = "links" -> Frame("linksReply", req.olt, 0)
      [] req.kind = "set"   -> Frame("setReply", req.olt, req.ch)
      [] req.kind = "proxy" -> Frame("onuReply", req.olt, req.ch)

\* Frames _rcv_io hands to incoming_queues: a single Dot1Q whose type is
\* not 0x8100 (the OLT's own management responses).
MgmtReplies == {"version", "linksReply", "setReply"}

\* The device is ACTIVE with its logical device: every step after the one
\* that parsed the version response, a failed detection included.
HasLogicalDevice(o) == olt_pc[o] \in {"detectScheduled", "waitLinks", "done", "detectFailed"}

\* TibitOnuAdapter.__init__: an empty DeferredQueue nobody waits on yet.
OnuAdapterInit == incoming_messages = <<>> /\ waiters = <<>>

Init ==
    /\ OnuAdapterInit
    /\ io_port = FALSE
    /\ incoming_queues = <<>>
    /\ device_ids = {}
    /\ vlan_to_device_ids = <<>>
    /\ olt_pc = [o \in Olts |-> "new"]
    /\ onu_pc = [u \in Onus |-> "none"]
    /\ registered = {}
    /\ toHw = {}
    /\ fromHw = {}
    /\ hwRules = {}
    /\ pushed = 0
    /\ rcv_err = "none"
    /\ packet_ins = {}
    /\ answered = [u \in Onus |-> 0]

-----------------------------------------------------------------------------
(***************************************************************************)
(* TibitOltAdapter                                                         *)
(***************************************************************************)

\* adopt_device: _activate_io_port, then callLater(0, _launch_device_activation).
adopt_device(o) ==
    /\ olt_pc[o] = "new"
    /\ io_port' = TRUE
    /\ olt_pc' = [olt_pc EXCEPT ![o] = "launchScheduled"]
    /\ UNCHANGED <<incoming_queues, device_ids, vlan_to_device_ids, onu_pc,
                   incoming_messages, waiters, registered, toHw, fromHw,
                   hwRules, pushed, rcv_err, packet_ins, answered>>

\* The same without creating the OLT's incoming queue.
_launch_device_activation_unqueued(o) ==
    /\ olt_pc[o] = "launchScheduled"
    /\ device_ids' = device_ids \cup {o}
    /\ toHw' = toHw \cup {Frame("ping", o, 0)}
    /\ olt_pc' = [olt_pc EXCEPT ![o] = "waitPing"]
    /\ UNCHANGED <<io_port, incoming_queues, vlan_to_device_ids, onu_pc,
                   incoming_messages, waiters, registered, fromHw, hwRules,
                   pushed, rcv_err, packet_ins, answered>>

\* _launch_device_activation up to the first yield: a new queue, the
\* device_ids entry, the ping, and get() on the empty queue.
_launch_device_activation(o) ==
    /\ olt_pc[o] = "launchScheduled"
    /\ incoming_queues' = (o :> <<>>) @@ incoming_queues
    /\ device_ids' = device_ids \cup {o}
    /\ toHw' = toHw \cup {Frame("ping", o, 0)}
    /\ olt_pc' = [olt_pc EXCEPT ![o] = "waitPing"]
    /\ UNCHANGED <<io_port, vlan_to_device_ids, onu_pc, incoming_messages,
                   waiters, registered, fromHw, hwRules, pushed, rcv_err,
                   packet_ins, answered>>

(***************************************************************************)
(* The code after the yield of _launch_device_activation, given the frame  *)
(* get() returned.  `if 1` takes any frame; only a version response parses *)
(* as the JSON with results.datecode etc., anything else raises and the    *)
(* activation dies.  On success: ports, logical device, ACTIVE, and        *)
(* callLater(0.1, _detect_onus).                                           *)
(***************************************************************************)
AfterPing(o, r) ==
    /\ olt_pc' = [olt_pc EXCEPT ![o] = IF r.kind = "version" THEN "detectScheduled"
                                                             ELSE "failed"]
    /\ UNCHANGED <<onu_pc, vlan_to_device_ids>>

(***************************************************************************)
(* The code after the yield of _detect_onus.  Again any frame is taken;    *)
(* only the links response has a list of macids under results.  For each  *)
(* ONU of the list: its vlan from _olt_side_onu_activation,               *)
(* child_device_detected, and vlan_to_device_ids[vlan_id], later entries  *)
(* overwriting earlier ones.                                               *)
(***************************************************************************)
AfterLinks(o, r) ==
    IF r.kind = "linksReply"
    THEN LET new == {u \in Onus : PonOf[u] = o}
         IN  /\ onu_pc' = [u \in Onus |-> IF u \in new THEN "detected" ELSE onu_pc[u]]
             /\ vlan_to_device_ids' =
                    [v \in {VlanOf(u) : u \in new} |-> o] @@ vlan_to_device_ids
             /\ olt_pc' = [olt_pc EXCEPT ![o] = "done"]
    ELSE /\ olt_pc' = [olt_pc EXCEPT ![o] = "detectFailed"]
         /\ UNCHANGED <<onu_pc, vlan_to_device_ids>>

\* The coroutine waiting on incoming_queues[o] resumes with frame r.
Resume(o, r) == IF olt_pc[o] = "waitPing" THEN AfterPing(o, r) ELSE AfterLinks(o, r)

Waiting(o) == olt_pc[o] \in {"waitPing", "waitLinks"}

\* _detect_onus up to its get(): the links request, then get(), which hands
\* back a frame already queued at once.
_detect_onus(o) ==
    /\ olt_pc[o] = "detectScheduled"
    /\ toHw' = toHw \cup {Frame("links", o, 0)}
    /\ IF incoming_queues[o] # <<>>
       THEN /\ incoming_queues' = [incoming_queues EXCEPT ![o] = Tail(@)]
            /\ AfterLinks(o, Head(incoming_queues[o]))
       ELSE /\ olt_pc' = [olt_pc EXCEPT ![o] = "waitLinks"]
            /\ UNCHANGED <<incoming_queues, onu_pc, vlan_to_device_ids>>
    /\ UNCHANGED <<io_port, device_ids, incoming_messages, waiters, registered,
                   fromHw, hwRules, pushed, rcv_err, packet_ins, answered>>

(***************************************************************************)
(* _rcv_io, one action per branch.  A packet-in (outer VLAN 4000, inner    *)
(* c-vid): `_, logical_device_id = self.vlan_to_device_ids.get(cvid)`      *)
(* unpacks None for an unknown c-vid and raises TypeError before the None *)
(* check.                                                                  *)
(***************************************************************************)
RcvPacketIn(fr) ==
    /\ fr.kind = "packetIn"
    /\ fromHw' = fromHw \ {fr}
    /\ IF fr.ch \in DOMAIN vlan_to_device_ids
       THEN /\ packet_ins' = packet_ins \cup {[src |-> fr.olt, ld |-> vlan_to_device_ids[fr.ch]]}
            /\ rcv_err' = "none"
       ELSE /\ rcv_err' = "TypeError"
            /\ UNCHANGED packet_ins
    /\ UNCHANGED <<io_port, incoming_queues, device_ids, vlan_to_device_ids,
                   olt_pc, onu_pc, incoming_messages, waiters, registered, toHw,
                   hwRules, pushed, answered>>

(***************************************************************************)
(* TibitOnuAdapter.receive_proxied_message: incoming_messages.put(msg).    *)
(* The one queue serves every ONU: the reply goes to the activation that   *)
(* has waited longest, whichever ONU it came from, and that activation     *)
(* runs on to ACTIVE.                                                       *)
(***************************************************************************)
receive_proxied_message(ch) ==
    IF waiters # <<>>
    THEN /\ onu_pc' = [onu_pc EXCEPT ![Head(waiters)] = "active"]
         /\ answered' = [answered EXCEPT ![Head(waiters)] = ch]
         /\ waiters' = Tail(waiters)
         /\ UNCHANGED incoming_messages
    ELSE /\ incoming_messages' = Append(incoming_messages, ch)
         /\ UNCHANGED <<onu_pc, answered, waiters>>

\* A double-tagged response of an ONU: device_ids[olt_mac] (KeyError for an
\* unknown OLT), then adapter_agent.receive_proxied_message, which the core
\* passes on to the ONU adapter for a registered proxy address.
RcvOnuReply(fr) ==
    /\ fr.kind = "onuReply"
    /\ fromHw' = fromHw \ {fr}
    /\ IF fr.olt \notin device_ids
       THEN /\ rcv_err' = "KeyError"
            /\ UNCHANGED <<onu_pc, answered, waiters, incoming_messages>>
       ELSE /\ rcv_err' = "none"
            /\ IF [device_id |-> fr.olt, channel_id |-> fr.ch] \in registered
               THEN receive_proxied_message(fr.ch)
               ELSE UNCHANGED <<onu_pc, answered, waiters, incoming_messages>>
    /\ UNCHANGED <<io_port, incoming_queues, device_ids, vlan_to_device_ids,
                   olt_pc, registered, toHw, hwRules, pushed, packet_ins>>

\* The queue as DeferredQueue() without a size would be: never full.
QueueFullUnsized(o) == FALSE

\* DeferredQueue(size=100).put raises QueueOverflow once size frames wait.
QueueFull(o) == Len(incoming_queues[o]) >= QueueSize

\* An OLT management response: incoming_queues[response.src].put(response),
\* a KeyError for an OLT without a queue, QueueOverflow on a full queue.
RcvOltReply(fr) ==
    LET o == fr.olt IN
    /\ fr.kind \in MgmtReplies
    /\ fromHw' = fromHw \ {fr}
    /\ CASE o \notin DOMAIN incoming_queues ->
                /\ rcv_err' = "KeyError"
                /\ UNCHANGED <<incoming_queues, olt_pc, onu_pc, vlan_to_device_ids>>
         [] Waiting(o) ->
                /\ rcv_err' = "none"
                /\ Resume(o, fr)
                /\ UNCHANGED incoming_queues
         [] QueueFull(o) ->
                /\ rcv_err' = "QueueOverflow"
                /\ UNCHANGED <<incoming_queues, olt_pc, onu_pc, vlan_to_device_ids>>
         [] OTHER ->
                /\ rcv_err' = "none"
                /\ incoming_queues' = [incoming_queues EXCEPT ![o] = Append(@, fr)]
                /\ UNCHANGED <<olt_pc, onu_pc, vlan_to_device_ids>>
    /\ UNCHANGED <<io_port, device_ids, incoming_messages, waiters, registered,
                   toHw, hwRules, pushed, packet_ins, answered>>

-----------------------------------------------------------------------------
(***************************************************************************)
(* TibitOnuAdapter                                                         *)
(***************************************************************************)

\* The core hands a detected ONU to adopt_device: callLater(0.1, activation).
adopt_onu(u) ==
    /\ onu_pc[u] = "detected"
    /\ onu_pc' = [onu_pc EXCEPT ![u] = "scheduled"]
    /\ UNCHANGED <<io_port, incoming_queues, device_ids, vlan_to_device_ids,
                   olt_pc, incoming_messages, waiters, registered, toHw, fromHw,
                   hwRules, pushed, rcv_err, packet_ins, answered>>

(***************************************************************************)
(* TibitOltAdapter.send_proxied_message, reached through the core: the     *)
(* message under the management tag and the channel id as inner tag, sent  *)
(* to Ether(dst='00:0c:e2:22:29:00') whatever proxy_address.device_id is   *)
(* (the device it looks up is unused).  The frames that reach an OLT.      *)
(***************************************************************************)
send_proxied_message(proxy) == {Frame("proxy", o, proxy.channel_id) : o \in AtProxyMac}

\* _message_exchange without its register_for_proxied_messages call.
_message_exchange_unregistered(u) ==
    /\ UNCHANGED registered
    /\ incoming_messages' = <<>>
    /\ toHw' = toHw \cup send_proxied_message(ProxyOf(u))
    /\ waiters' = Append(waiters, u)

(***************************************************************************)
(* _message_exchange up to its last yield: register_for_proxied_messages,  *)
(* the drain of incoming_messages (every get() on a non-empty queue fires  *)
(* at once), send_proxied_message through the OLT adapter (a frame double- *)
(* tagged with the channel id), and get() on the now empty queue.          *)
(***************************************************************************)
_message_exchange(u) ==
    /\ registered' = registered \cup {ProxyOf(u)}
    /\ incoming_messages' = <<>>
    /\ toHw' = toHw \cup send_proxied_message(ProxyOf(u))
    /\ waiters' = Append(waiters, u)

\* _onu_device_activation: the asserts on parent, proxy address and the
\* parent's logical device hold for an ONU the OLT detected; device update,
\* ports and logical port; then _message_exchange.
_onu_device_activation(u) ==
    /\ onu_pc[u] = "scheduled"
    /\ HasLogicalDevice(PonOf[u])
    /\ _message_exchange(u)
    /\ onu_pc' = [onu_pc EXCEPT ![u] = "waiting"]
    /\ UNCHANGED <<io_port, incoming_queues, device_ids, vlan_to_device_ids,
                   olt_pc, fromHw, hwRules, pushed, rcv_err, packet_ins, answered>>

-----------------------------------------------------------------------------
(***************************************************************************)
(* Environment                                                             *)
(***************************************************************************)

\* The core calls update_flows_bulk on an OLT that has a logical device; the
\* rules it sends before any exception reach the interface.
PushFlows(o, bulk) ==
    LET r == OltUpdateFlowsBulk(bulk) IN
    /\ HasLogicalDevice(o)
    /\ pushed < MaxRules
    /\ toHw' = toHw \cup {Frame("set", o, pushed + k) : k \in DOMAIN r.rules}
    /\ pushed' = pushed + Len(r.rules)
    /\ UNCHANGED <<io_port, incoming_queues, device_ids, vlan_to_device_ids,
                   olt_pc, onu_pc, incoming_messages, waiters, registered,
                   fromHw, hwRules, rcv_err, packet_ins, answered>>

\* The answers to a frame sent to an OLT: a proxied message is passed to the
\* ONU on its PON with that channel, if there is one, and that ONU replies.
Answers(req) ==
    IF req.kind = "proxy" /\ ~\E u \in Onus : PonOf[u] = req.olt /\ VlanOf(u) = req.ch
    THEN {} ELSE {Reply(req)}

\* The OLT (or behind it the ONU) answers a frame sent to it.
HwAnswer(req) ==
    /\ toHw' = toHw \ {req}
    /\ fromHw' = fromHw \cup Answers(req)
    /\ hwRules' = IF req.kind = "set" THEN hwRules \cup {req.olt} ELSE hwRules
    /\ UNCHANGED <<io_port, incoming_queues, device_ids, vlan_to_device_ids,
                   olt_pc, onu_pc, incoming_messages, waiters, registered,
                   pushed, rcv_err, packet_ins, answered>>

\* An OLT with an upstream rule traps a subscriber frame of ONU u to the
\* host, outer VLAN 4000 over the ONU's c-vid.
HwPacketIn(u) ==
    /\ PonOf[u] \in hwRules
    /\ fromHw' = fromHw \cup {Frame("packetIn", PonOf[u], VlanOf(u))}
    /\ UNCHANGED <<io_port, incoming_queues, device_ids, vlan_to_device_ids,
                   olt_pc, onu_pc, incoming_messages, waiters, registered,
                   toHw, hwRules, pushed, rcv_err, packet_ins, answered>>

\* A raw Ethernet frame is lost.
Lose(fr) ==
    /\ Lossy
    /\ \/ fr \in toHw /\ toHw' = toHw \ {fr} /\ UNCHANGED fromHw
       \/ fr \in fromHw /\ fromHw' = fromHw \ {fr} /\ UNCHANGED toHw
    /\ UNCHANGED <<io_port, incoming_queues, device_ids, vlan_to_device_ids,
                   olt_pc, onu_pc, incoming_messages, waiters, registered,
                   hwRules, pushed, rcv_err, packet_ins, answered>>

-----------------------------------------------------------------------------
\* What runs without the core's say: the reactor's scheduled calls, frames
\* read from the interface, and the devices.
AdapterNext ==
    \/ \E o \in Olts : _launch_device_activation(o) \/ _detect_onus(o)
    \/ \E fr \in fromHw : RcvPacketIn(fr) \/ RcvOnuReply(fr) \/ RcvOltReply(fr)
    \/ \E u \in Onus : adopt_onu(u) \/ _onu_device_activation(u)
    \/ \E req \in toHw : HwAnswer(req)
    \/ \E u \in Onus : HwPacketIn(u)
    \/ \E fr \in toHw \cup fromHw : Lose(fr)

Next ==
    \/ \E o \in Olts : adopt_device(o)
    \/ \E o \in Olts, bulk \in Bulks : PushFlows(o, bulk)
    \/ AdapterNext

\* Every request the adapters can send, and every frame that can come back.
RuleChans == UNION {1 .. MaxRules + Len(b) : b \in Bulks}
Requests ==
    {Frame(k, o, 0) : k \in {"ping", "links"}, o \in Olts}
    \cup {Frame("set", o, c) : o \in Olts, c \in RuleChans}
    \cup UNION {send_proxied_message(ProxyOf(u)) : u \in Onus}
Incoming == {Reply(req) : req \in Requests} \cup {Frame("packetIn", PonOf[u], VlanOf(u)) : u \in Onus}

(***************************************************************************)
(* Fairness: the reactor runs every call it has scheduled, and _rcv_io     *)
(* every frame frameio has read (frames are read in order, so none is      *)
(* passed over for ever); the core adopts what it was given; the devices   *)
(* answer each request they receive.  Pushing flows, trapping subscriber   *)
(* frames and losing frames are never forced.                              *)
(***************************************************************************)
AdapterFairness ==
    /\ \A o \in Olts : WF_vars(_launch_device_activation(o)) /\ WF_vars(_detect_onus(o))
    /\ \A u \in Onus : WF_vars(adopt_onu(u)) /\ WF_vars(_onu_device_activation(u))
    /\ \A fr \in Incoming :
          WF_vars(fr \in fromHw /\ (RcvPacketIn(fr) \/ RcvOnuReply(fr) \/ RcvOltReply(fr)))
    /\ \A req \in Requests : WF_vars(req \in toHw /\ HwAnswer(req))

Fairness == AdapterFairness /\ \A o \in Olts : WF_vars(adopt_device(o))

Spec == Init /\ [][Next]_vars /\ Fairness

-----------------------------------------------------------------------------
OltPcs == {"new", "launchScheduled", "waitPing", "detectScheduled", "waitLinks", "done", "failed",
           "detectFailed"}
OnuPcs == {"none", "detected", "scheduled", "waiting", "active"}
FrameKinds == {"ping", "links", "set", "proxy", "version", "linksReply", "setReply",
               "onuReply", "packetIn"}

TypeOK ==
    /\ io_port \in BOOLEAN
    /\ DOMAIN incoming_queues \subseteq Olts
    /\ \A o \in DOMAIN incoming_queues : Len(incoming_queues[o]) <= QueueSize
    /\ device_ids \subseteq Olts
    /\ \A v \in DOMAIN vlan_to_device_ids : vlan_to_device_ids[v] \in Olts
    /\ olt_pc \in [Olts -> OltPcs]
    /\ onu_pc \in [Onus -> OnuPcs]
    /\ waiters \in Seq(Onus)
    /\ \A fr \in toHw \cup fromHw : fr.kind \in FrameKinds /\ fr.olt \in Olts
    /\ hwRules \subseteq Olts
    /\ pushed \in Nat
    /\ rcv_err \in {"none", "TypeError", "KeyError", "QueueOverflow"}


(***************************************************************************)
(* _message_exchange waits for "an" incoming message on the adapter-wide   *)
(* queue and then marks the ONU ACTIVE, "which indirectly verified that    *)
(* message passing works".  Stated: an ONU is ACTIVE only once the reply   *)
(* to its own proxied request, on its own channel, has come back.          *)
(***************************************************************************)
OnuActivatedByOwnReply ==
    \A u \in Onus : onu_pc[u] = "active" => answered[u] = VlanOf(u)

\* Every packet-in _rcv_io passes to send_packet_in goes to the logical
\* device of the OLT it came from: vlan_to_device_ids, keyed by the c-vid
\* _detect_onus derived from the ONU's MAC, never mixes up two OLTs' ONUs.
PacketInToOwnLogicalDevice == \A p \in packet_ins : p.ld = p.src

(***************************************************************************)
(* _rcv_io finds a home for every frame it reads: the OLT of a management  *)
(* response has its incoming queue (created in _launch_device_activation,  *)
(* after adopt_device has opened the port), the OLT of a proxied reply its *)
(* device_ids entry, and the c-vid of a packet-in its vlan_to_device_ids   *)
(* entry, written by _detect_onus; none of the lookups raises.             *)
(***************************************************************************)
FramesRoutedToKnownDevices == rcv_err \notin {"KeyError", "TypeError"}

(***************************************************************************)
(* Activation completes even when the core pushes flows as soon as the OLT *)
(* is ACTIVE: _detect_onus is to check that what it dequeued is the links  *)
(* response "and wait if not" (its TODO), so every ONU is eventually       *)
(* detected and driven to ACTIVE.                                          *)
(***************************************************************************)
EveryOnuEventuallyActive == \A u \in Onus : <>(onu_pc[u] = "active")

=============================================================================
