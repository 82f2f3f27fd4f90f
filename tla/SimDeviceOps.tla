---------------------------- MODULE SimDeviceOps ----------------------------
(***************************************************************************)
(* The match/action engine of one simulated device, class SimDevice of     *)
(* src/ponsim/ponsim.py, as pure operators over frames and flow tables.    *)
(*                                                                         *)
(* A frame is what scapy holds for Ether()/Dot1Q()*/payload:               *)
(*   type    the outer Ethernet ethertype,                                 *)
(*   tags    the Dot1Q layers, outermost first, each [vlan, prio, type],   *)
(*   payload the layers above them, read only: [proto, dst, dport], where  *)
(*           NoLayer (and <<>> for dst) says the IP or UDP layer is absent.*)
(* Addresses are never read or written by the engine and are left out.     *)
(*                                                                         *)
(* A flow is [priority, match, actions]: match is the sequence of OXM      *)
(* fields get_ofb_fields returns, each [type, val]; actions the sequence   *)
(* get_actions returns, each [type, field, val] (field only for SET_FIELD).*)
(***************************************************************************)
EXTENDS Integers, Sequences, FiniteSets, SequencesExt

NoLayer == -1   \* the None a layer getter returns when the layer is absent
NoPort  == -1   \* egress_port = None: no OUTPUT action ran

\* The exceptions the engine can raise; "none" when it raises nothing.
\* A Dot1Q layer: a 12-bit VLAN id, a 3-bit priority, the ethertype after it.
Dot1QType == [vlan : 0 .. 4095, prio : 0 .. 7, type : Int]

Errors == {"none", "AttributeError", "NotImplementedError"}

\* A freshly built Dot1Q(type=t): scapy's defaults are vlan=1, prio=0.
Dot1Q(t) == [vlan |-> 1, prio |-> 0, type |-> t]

\* ipv4int2str: the dotted string, kept as its four octets.
ipv4int2str(i) ==
    << (i \div 16777216) % 256, (i \div 65536) % 256, (i \div 256) % 256, i % 256 >>

\* The getters local to is_match. haslayer/getlayer(Dot1Q) see the
\* outermost shim.
get_non_shim_ether_type(f) == IF f.tags # <<>> THEN Head(f.tags).type ELSE f.type
get_vlan_pcp(f) == IF f.tags # <<>> THEN Head(f.tags).prio ELSE NoLayer
get_ip_proto(f) == f.payload.proto
get_ipv4_dst(f) == f.payload.dst
get_udp_dst(f) == f.payload.dport

Verdict(b) == IF b THEN "ok" ELSE "nomatch"

(***************************************************************************)
(* One arm of the field loop of is_match: "ok" to go on with the next      *)
(* field, "nomatch" for its return False, or the exception it raises.  The *)
(* UDP_DST arm reads field.udsp_dst, an attribute the protobuf message     *)
(* does not have.                                                          *)
(***************************************************************************)
FieldCheck(field, inPort, f) ==
    CASE field.type = "IN_PORT"  -> Verdict(field.val = inPort)
      [] field.type = "ETH_TYPE" -> Verdict(field.val = get_non_shim_ether_type(f))
      [] field.type = "IP_PROTO" -> Verdict(field.val = get_ip_proto(f))
      [] field.type = "VLAN_VID" ->
            LET tagged == f.tags # <<>>
            IN  Verdict(/\ ((field.val \div 4096) % 2 = 1) = tagged
                        /\ tagged => Head(f.tags).vlan = field.val % 4096)
      [] field.type = "VLAN_PCP" -> Verdict(field.val = get_vlan_pcp(f))
      [] field.type = "IPV4_DST" -> Verdict(ipv4int2str(field.val) = get_ipv4_dst(f))
      [] field.type = "UDP_DST"  -> "AttributeError"
      [] OTHER                   -> "NotImplementedError"

\* is_match: the verdict of the first field that is not "ok", in order.
is_match(flow, inPort, f) ==
    LET i == SelectInSeq(flow.match, LAMBDA fld : FieldCheck(fld, inPort, f) # "ok")
    IN  IF i = 0 THEN "ok" ELSE FieldCheck(flow.match[i], inPort, f)

(***************************************************************************)
(* process_actions threads a working frame through the action list.  POP   *)
(* and PUSH build a new packet (scapy's "/" copies); SET_FIELD assigns to  *)
(* the shim in place, so while no action has rebuilt the frame it also     *)
(* changes the object the caller passed in: orig tracks that object.       *)
(***************************************************************************)
PopVlan(f) == [type |-> Head(f.tags).type, tags |-> Tail(f.tags), payload |-> f.payload]

PushVlan(f, ethertype) ==
    [type |-> ethertype, tags |-> <<Dot1Q(f.type)>> \o f.tags, payload |-> f.payload]

\* SET_FIELD without the "& 4095" that strips OFPVID_PRESENT from vlan_vid.
SetShimUnmasked(f, field, v) ==
    IF field = "VLAN_VID" THEN [f EXCEPT !.tags[1].vlan = v]
                          ELSE [f EXCEPT !.tags[1].prio = v]

SetShim(f, field, v) ==
    IF field = "VLAN_VID" THEN [f EXCEPT !.tags[1].vlan = v % 4096]
                          ELSE [f EXCEPT !.tags[1].prio = v]

Rebuilt(st, f) == [st EXCEPT !.frame = f, !.fresh = TRUE]

ApplyAction(st, a) ==
    IF st.err # "none" THEN st
    ELSE CASE a.type = "OUTPUT"    -> [st EXCEPT !.port = a.val]
           [] a.type = "POP_VLAN"  -> IF st.frame.tags = <<>> THEN st
                                      ELSE Rebuilt(st, PopVlan(st.frame))
           [] a.type = "PUSH_VLAN" -> Rebuilt(st, PushVlan(st.frame, a.val))
           [] a.type = "SET_FIELD" /\ a.field \in {"VLAN_VID", "VLAN_PCP"} ->
                 IF st.frame.tags = <<>>
                 THEN [st EXCEPT !.err = "AttributeError"]   \* None.vlan = ...
                 ELSE LET g == SetShim(st.frame, a.field, a.val)
                      IN  [st EXCEPT !.frame = g, !.orig = IF st.fresh THEN @ ELSE g]
           [] OTHER -> [st EXCEPT !.err = "NotImplementedError"]

process_actions(flow, f) ==
    FoldLeft(ApplyAction,
             [port |-> NoPort, frame |-> f, fresh |-> FALSE, orig |-> f, err |-> "none"],
             flow.actions)

(***************************************************************************)
(* install_flows: sorted(flows, key=priority, reverse=True), a stable sort:*)
(* flow i goes to the place after every flow of higher priority and every  *)
(* earlier flow of equal priority.                                         *)
(***************************************************************************)
ReversedSortedFlows(flows) ==  \* list(reversed(sorted(flows, key=priority)))
    LET before(j, i) == \/ flows[j].priority > flows[i].priority
                        \/ flows[j].priority = flows[i].priority /\ j > i
        rank(i) == Cardinality({j \in DOMAIN flows : before(j, i)}) + 1
    IN  [k \in DOMAIN flows |-> flows[CHOOSE i \in DOMAIN flows : rank(i) = k]]

install_flows(flows) ==
    LET before(j, i) == \/ flows[j].priority > flows[i].priority
                        \/ flows[j].priority = flows[i].priority /\ j < i
        rank(i) == Cardinality({j \in DOMAIN flows : before(j, i)}) + 1
    IN  [k \in DOMAIN flows |-> flows[CHOOSE i \in DOMAIN flows : rank(i) = k]]

(***************************************************************************)
(* process_frame: the first flow of the table whose is_match does not      *)
(* return False decides; an exception of is_match or process_actions       *)
(* leaves the call.  kind is "none" (returns None), "out" or "error".      *)
(***************************************************************************)
Outcome(kind, err, st) ==
    [kind |-> kind, err |-> err, port |-> st.port, frame |-> st.frame,
     fresh |-> st.fresh, orig |-> st.orig]

process_frame(flows, inPort, f) ==
    LET i    == SelectInSeq(flows, LAMBDA fl : is_match(fl, inPort, f) # "nomatch")
        idle == [port |-> NoPort, frame |-> f, fresh |-> FALSE, orig |-> f]
    IN  IF i = 0 THEN Outcome("none", "none", idle)
        ELSE IF is_match(flows[i], inPort, f) # "ok"
             THEN Outcome("error", is_match(flows[i], inPort, f), idle)
             ELSE LET st == process_actions(flows[i], f)
                  IN  IF st.err = "none" THEN Outcome("out", "none", st)
                                         ELSE Outcome("error", st.err, st)
=============================================================================
