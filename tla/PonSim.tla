------------------------------- MODULE PonSim -------------------------------
(***************************************************************************)
(* The PON simulator of src/ponsim/ponsim.py, one device hop per step.     *)
(*                                                                         *)
(* PonSim.ingress calls SimDevice.ingress, which runs process_frame and    *)
(* then every link function of the egress port in list order; a link to   *)
(* another device calls its ingress before the next link runs.  The Python *)
(* call stack of that depth-first recursion is the variable stack: its     *)
(* head is the link call that runs next.  Everything runs on the caller's  *)
(* thread, so no other call of the simulator starts before stack is empty. *)
(*                                                                         *)
(* Frames are scapy objects: links pass a reference, POP and PUSH build a  *)
(* new object, SET_FIELD writes into the object it was handed.  mem holds  *)
(* the objects of the current ingress call, 1 being the caller's frame;    *)
(* a stack entry names its frame by index into mem.                        *)
(***************************************************************************)
EXTENDS PonSimTopology

CONSTANTS
    OltTables,  \* flow lists olt_install_flows may be given
    OnuTables,  \* flow lists onu_install_flows may be given
    Frames,     \* frames a caller may hand to ingress
    MaxHops     \* device hops of one ingress call the interpreter's stack
                \* holds; the next one raises RuntimeError (recursion limit)

VARIABLES
    flows,      \* self.flows of every device
    stack,      \* pending link calls: [kind, dev, port, obj], head runs next
    mem,        \* the frame objects of the current ingress call
    delivered,  \* egress_fun calls of the current ingress: [port, frame]
    status,     \* "ok", or the exception that left the last ingress call
    hops,       \* device hops of the current ingress call
    pending     \* auxiliary: what the pending calls would still do (below)

vars == <<flows, stack, mem, delivered, status, hops, pending>>

Idle == stack = <<>>

Call(t, obj) == [kind |-> t.kind, dev |-> t.dev, port |-> t.port, obj |-> obj]

(***************************************************************************)
(* The egress callbacks and the exception the calls of stack st would      *)
(* still produce with the frame objects m holds, after h hops: the walk of *)
(* PonSimTopology over value copies of those objects.  pending is kept     *)
(* equal to it by every action (PendingIsWalk) so that the refinement      *)
(* mapping below reads a variable.                                          *)
(***************************************************************************)
PendingOf(st, m, fl, h) ==
    Walk([k \in DOMAIN st |-> WithFrame(st[k], m[st[k].obj])], fl, MaxHops - h)

Init ==
    /\ flows = [d \in Devices |-> <<>>]
    /\ stack = <<>>
    /\ mem = <<>>
    /\ delivered = <<>>
    /\ status = "ok"
    /\ hops = 0
    /\ pending = PendingOf(<<>>, <<>>, flows, 0)

\* olt_install_flows / onu_install_flows -> SimDevice.install_flows
InstallFlows(d, tbl) ==
    /\ Idle
    /\ flows' = [flows EXCEPT ![d] = install_flows(tbl)]
    /\ UNCHANGED <<stack, mem, delivered, status, hops, pending>>

\* PonSim.ingress: the frame enters device gp on its access port 2.
Ingress(gp, f) ==
    /\ Idle
    /\ stack' = <<Call(DevIn(gp, 2), 1)>>
    /\ mem' = <<f>>
    /\ delivered' = <<>>
    /\ status' = "ok"
    /\ hops' = 0
    /\ pending' = PendingOf(<<Call(DevIn(gp, 2), 1)>>, <<f>>, flows, 0)
    /\ UNCHANGED flows

(***************************************************************************)
(* SimDevice.ingress of the device at the head of the stack.  Its          *)
(* process_frame writes SET_FIELD changes into the object it was handed    *)
(* (o.orig) and, if it rebuilt the frame, yields a new object.             *)
(***************************************************************************)
Hop(call) == process_frame(flows[call.dev], call.port, mem[call.obj])

Written(o, call) == [mem EXCEPT ![call.obj] = o.orig]

\* The links of the egress port, called in reverse list order.
PushedReversed(ts, obj) == [k \in DOMAIN ts |-> Call(ts[Len(ts) + 1 - k], obj)]

\* for fun in links: fun(egress_port, egress_frame), each call running to
\* its end before the next: the calls go on top of the stack in list order.
Pushed(ts, obj) == [k \in DOMAIN ts |-> Call(ts[k], obj)]

\* process_frame returned a frame and a port: call every link of the port.
DeviceForwards ==
    /\ ~Idle /\ Head(stack).kind = "dev" /\ hops < MaxHops
    /\ LET call == Head(stack)
           o    == Hop(call)
           obj  == IF o.fresh THEN Len(mem) + 1 ELSE call.obj
           ts   == Targets(call.dev, o.port)
           m    == IF o.fresh THEN Append(Written(o, call), o.frame)
                              ELSE Written(o, call)
           st   == Pushed(ts, obj) \o Tail(stack)
       IN  /\ o.kind = "out"
           /\ mem' = m
           /\ stack' = st
           /\ pending' = PendingOf(st, m, flows, hops + 1)
    /\ hops' = hops + 1
    /\ UNCHANGED <<flows, delivered, status>>

\* process_frame returned None: 'dropped'.
DeviceDrops ==
    /\ ~Idle /\ Head(stack).kind = "dev" /\ hops < MaxHops
    /\ Hop(Head(stack)).kind = "none"
    /\ stack' = Tail(stack)
    /\ hops' = hops + 1
    /\ pending' = PendingOf(Tail(stack), mem, flows, hops + 1)
    /\ UNCHANGED <<flows, mem, delivered, status>>

\* process_frame raised: the exception unwinds every pending call up to the
\* caller of PonSim.ingress; writes made before the raise stay.
DeviceRaises ==
    /\ ~Idle /\ Head(stack).kind = "dev" /\ hops < MaxHops
    /\ LET o == Hop(Head(stack))
       IN  /\ o.kind = "error"
           /\ mem' = Written(o, Head(stack))
           /\ status' = o.err
    /\ stack' = <<>>
    /\ hops' = hops + 1
    /\ pending' = PendingOf(<<>>, <<>>, flows, hops + 1)
    /\ UNCHANGED <<flows, delivered>>

(***************************************************************************)
(* A link call that would go one frame deeper than the interpreter's       *)
(* recursion limit: Python raises RuntimeError ("maximum recursion depth   *)
(* exceeded"), which unwinds every pending call up to the caller of        *)
(* PonSim.ingress.  Egress callbacks made before it stay made.              *)
(***************************************************************************)
RecursionLimit ==
    /\ ~Idle /\ Head(stack).kind = "dev" /\ hops = MaxHops
    /\ status' = "RuntimeError"
    /\ stack' = <<>>
    /\ pending' = PendingOf(<<>>, <<>>, flows, hops)
    /\ UNCHANGED <<flows, mem, delivered, hops>>

\* A link made by mk_egress_fun (or the OLT's port-2 lambda): egress_fun.
Egress ==
    /\ ~Idle /\ Head(stack).kind = "ext"
    /\ delivered' = Append(delivered, [port |-> Head(stack).dev,
                                       frame |-> mem[Head(stack).obj]])
    /\ stack' = Tail(stack)
    /\ pending' = PendingOf(Tail(stack), mem, flows, hops)
    /\ UNCHANGED <<flows, mem, status, hops>>

Next ==
    \/ \E tbl \in OltTables : InstallFlows(OLT, tbl)
    \/ \E d \in Onus, tbl \in OnuTables : InstallFlows(d, tbl)
    \/ \E gp \in Devices, f \in Frames : Ingress(gp, f)
    \/ DeviceForwards
    \/ DeviceDrops
    \/ DeviceRaises
    \/ RecursionLimit
    \/ Egress

Spec == Init /\ [][Next]_vars

-----------------------------------------------------------------------------
Statuses == {"ok", "AttributeError", "NotImplementedError", "RuntimeError"}

FrameType == [type : Int, tags : Seq(Dot1QType),
              payload : {f.payload : f \in Frames}]

TypeOK ==
    /\ DOMAIN flows = Devices
    /\ \A k \in DOMAIN stack :
          /\ stack[k].kind \in {"dev", "ext"}
          /\ stack[k].dev \in Devices
          /\ stack[k].obj \in DOMAIN mem
    /\ mem \in Seq(FrameType)
    /\ delivered \in Seq([port : Devices, frame : FrameType])
    /\ status \in Statuses
    /\ hops \in 0 .. MaxHops

(***************************************************************************)
(* Refinement.  The stepwise, object-sharing execution of an ingress call  *)
(* implements PonSimAbstract, where the whole call is one step and every   *)
(* link target gets its own copy of the frame.  In a state inside a call,  *)
(* the abstract delivered is what has been egressed so far followed by     *)
(* what the pending calls would egress with the frames their objects hold  *)
(* now; the abstract status is the exception they would raise.  A step     *)
(* that changes a frame object another pending call still refers to makes  *)
(* the abstract state jump outside an ingress step.                        *)
(***************************************************************************)
Abs == INSTANCE PonSimAbstract
           WITH delivered <- delivered \o pending.out,
                status <- IF Idle THEN status ELSE pending.err

\* Every behaviour of the simulator, observed through its egress callbacks
\* and the exception ingress raises, is one of the abstract simulator.
ImplementsPonSimAbstract == Abs!Spec

\* Spec 7: a fatal error aborts only the process call that raised it; the
\* link calls of a broadcast still pending when one target's process
\* raises are made all the same.  On the steps of DeviceRaises: no other
\* call is pending.
FatalErrorAbortsOnlyItsProcess == [][DeviceRaises => Len(stack) = 1]_vars

=============================================================================
