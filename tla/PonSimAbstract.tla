--------------------------- MODULE PonSimAbstract ---------------------------
(***************************************************************************)
(* What the PON simulator promises a caller of ingress (spec 4.2): the     *)
(* call runs to completion and its egress callbacks are, in order, those a *)
(* depth-first walk of the topology produces when every link target gets   *)
(* its own copy of the frame the sending device emits.  A raised exception *)
(* ends the call; what was egressed before it stays egressed.  Each        *)
(* ingress is one atomic step here.                                        *)
(***************************************************************************)
EXTENDS PonSimTopology

CONSTANTS
    OltTables,  \* flow lists olt_install_flows may be given
    OnuTables,  \* flow lists onu_install_flows may be given
    Frames,     \* frames a caller may hand to ingress
    MaxHops     \* device hops after which the walk counts as non-terminating

VARIABLES
    flows,      \* the flow table of every device
    delivered,  \* egress callbacks of the last ingress: [port, frame]
    status      \* "ok" or the exception the last ingress raised

vars == <<flows, delivered, status>>

\* External arrivals enter a device on its access port 2.
IngressResult(gp, f, fl) == Walk(<<WithFrame(DevIn(gp, 2), f)>>, fl, MaxHops)

Init ==
    /\ flows = [d \in Devices |-> <<>>]
    /\ delivered = <<>>
    /\ status = "ok"

Install(d, tbl) ==
    /\ flows' = [flows EXCEPT ![d] = install_flows(tbl)]
    /\ UNCHANGED <<delivered, status>>

Ingress(gp, f) ==
    LET r == IngressResult(gp, f, flows)
    IN  /\ delivered' = r.out
        /\ status' = r.err
        /\ UNCHANGED flows

Next ==
    \/ \E tbl \in OltTables : Install(OLT, tbl)
    \/ \E d \in Onus, tbl \in OnuTables : Install(d, tbl)
    \/ \E gp \in Devices, f \in Frames : Ingress(gp, f)

Spec == Init /\ [][Next]_vars
=============================================================================
