--------------------------- MODULE PonSimTopology ---------------------------
(***************************************************************************)
(* The wiring PonSim.__init__ builds: an OLT at global port 0 and NumOnus  *)
(* ONUs at 128 + i.  Every SimDevice keys its links by local port: 1 faces *)
(* the PON, 2 faces the subscriber or the network.  A link target is       *)
(* [kind, dev, port]: "dev" hands the frame to dev.ingress(port), "ext"    *)
(* calls egress_fun(dev, frame), dev being the global port.                *)
(***************************************************************************)
EXTENDS SimDeviceOps

CONSTANT NumOnus    \* the onus argument of PonSim(onus, egress_fun)

ASSUME NumOnus \in Nat \ {0}

OLT  == 0
Onus == {128 + i : i \in 0 .. NumOnus - 1}

\* self.devices: global port -> device; get_ports lists its keys.
Devices == {OLT} \cup Onus

DevIn(d, p) == [kind |-> "dev", dev |-> d, port |-> p]
Ext(g)      == [kind |-> "ext", dev |-> g, port |-> 0]

(***************************************************************************)
(* self.links of each device after __init__.  The OLT's port 1 holds one   *)
(* mk_onu_ingress(onu) per ONU in creation order: the PON broadcast.        *)
(***************************************************************************)
Links ==
    [d \in Devices |->
        IF d = OLT
        THEN (1 :> [i \in 1 .. NumOnus |-> DevIn(127 + i, 1)]) @@ (2 :> <<Ext(OLT)>>)
        ELSE (1 :> <<DevIn(OLT, 1)>>) @@ (2 :> <<Ext(d)>>)]

\* links.get(egress_port), or no target at all.
Targets(d, p) == IF p \in DOMAIN Links[d] THEN Links[d][p] ELSE <<>>
(***************************************************************************)
(* The walk.  An item is a link target carrying a frame value.  fuel       *)
(* counts the device hops still allowed.                                   *)
(***************************************************************************)
WithFrame(t, f) == [kind |-> t.kind, dev |-> t.dev, port |-> t.port, frame |-> f]

Copies(d, o) ==
    IF o.kind = "out"
    THEN [k \in DOMAIN Targets(d, o.port) |-> WithFrame(Targets(d, o.port)[k], o.frame)]
    ELSE <<>>

\* Domains of the walk's argument (a recursive function takes its argument
\* as a value, so the walk is cheap to evaluate in a primed context too).
FrameT == [type : Int, tags : Seq([vlan : Int, prio : Int, type : Int]),
           payload : [proto : Int, dst : Seq(Int), dport : Int]]
FlowT  == [priority : Int, match : Seq([type : STRING, val : Int]),
           actions : Seq([type : STRING, field : STRING, val : Int])]
WalkArgs == [items : Seq([kind : {"dev", "ext"}, dev : Int, port : Int, frame : FrameT]),
             fl : [Devices -> Seq(FlowT)], fuel : Int]

WalkFn[a \in WalkArgs] ==
    IF a.items = <<>> THEN [out |-> <<>>, err |-> "ok"]
    ELSE LET it == Head(a.items) IN
         IF it.kind = "ext"
         THEN LET r == WalkFn[[a EXCEPT !.items = Tail(@)]]
              IN  [r EXCEPT !.out = <<[port |-> it.dev, frame |-> it.frame]>> \o @]
         ELSE IF a.fuel <= 0 THEN [out |-> <<>>, err |-> "RuntimeError"]
         ELSE LET o == process_frame(a.fl[it.dev], it.port, it.frame)
              IN  IF o.kind = "error" THEN [out |-> <<>>, err |-> o.err]
                  ELSE WalkFn[[items |-> Copies(it.dev, o) \o Tail(a.items),
                               fl |-> a.fl, fuel |-> a.fuel - 1]]

Walk(items, fl, fuel) == WalkFn[[items |-> items, fl |-> fl, fuel |-> fuel]]
=============================================================================
