------------------------------ MODULE SimDevice ------------------------------
(***************************************************************************)
(* One simulated device of src/ponsim/ponsim.py as a state machine: its    *)
(* flow table, replaced by install_flows, and the frames process_frame is  *)
(* asked to match.  The history variables installed (the table as it was  *)
(* handed to install_flows) and lastIn (the last frame and port) let the   *)
(* properties compare what the sorted scan does with what a flow table     *)
(* promises.                                                               *)
(***************************************************************************)
EXTENDS SimDeviceOps

CONSTANTS
    Tables,     \* flow lists the control plane may install, in install order
    Ports,      \* local ingress ports frames arrive on
    Frames      \* frames that may arrive

VARIABLES
    flows,      \* self.flows
    installed,  \* history: the list last passed to install_flows
    lastIn,     \* history: [port, frame, table] of the last process_frame call,
                \* table being the list installed when it ran
    outcome     \* what that call returned or raised

vars == <<flows, installed, lastIn, outcome>>

\* Stands for "nothing processed yet" in lastIn, with port NoPort.
NoFrame == [type |-> 0, tags |-> <<>>, payload |-> [proto |-> NoLayer, dst |-> <<>>, dport |-> NoLayer]]
Processed == lastIn.port # NoPort

Init ==
    /\ flows = <<>>
    /\ installed = <<>>
    /\ lastIn = [port |-> NoPort, frame |-> NoFrame, table |-> <<>>]
    /\ outcome = process_frame(<<>>, NoPort, NoFrame)

\* SimDevice.install_flows
InstallFlows(tbl) ==
    /\ flows' = install_flows(tbl)
    /\ installed' = tbl
    /\ UNCHANGED <<lastIn, outcome>>

\* SimDevice.process_frame, with is_match and process_actions
ProcessFrame(port, f) ==
    /\ lastIn' = [port |-> port, frame |-> f, table |-> installed]
    /\ outcome' = process_frame(flows, port, f)
    /\ UNCHANGED <<flows, installed>>

Next ==
    \/ \E tbl \in Tables : InstallFlows(tbl)
    \/ \E p \in Ports, f \in Frames : ProcessFrame(p, f)

Spec == Init /\ [][Next]_vars

-----------------------------------------------------------------------------
TypeOK ==
    /\ flows \in Seq(UNION {Range(t) : t \in Tables})
    /\ installed \in Tables \cup {<<>>}
    /\ lastIn.port \in Ports \cup {NoPort}
    /\ lastIn.frame \in Frames \cup {NoFrame}
    /\ lastIn.table \in Tables \cup {<<>>}
    /\ outcome.kind \in {"none", "out", "error"}
    /\ outcome.err \in Errors
    /\ outcome.frame.tags \in Seq(Dot1QType)
    /\ outcome.orig.tags \in Seq(Dot1QType)

(***************************************************************************)
(* What the flow table promises (spec 4.1 and 8): among the installed flows*)
(* whose match fields are all satisfied (or whose matching raises), the one*)
(* of highest priority decides, and of several with that priority the one  *)
(* installed first.  The code gets this from a stable descending sort in   *)
(* install_flows followed by a first-hit scan in process_frame.            *)
(***************************************************************************)
Reference(tbl, port, f) ==
    LET C == {i \in DOMAIN tbl : is_match(tbl[i], port, f) # "nomatch"}
        first == CHOOSE i \in C :
                   \A j \in C \ {i} : \/ tbl[i].priority > tbl[j].priority
                                      \/ tbl[i].priority = tbl[j].priority /\ i < j
    IN  IF C = {} THEN process_frame(<<>>, port, f)
                  ELSE process_frame(<<tbl[first]>>, port, f)

\* The frame process_frame acts on is the one a declarative reading of the
\* installed table selects: highest priority first, ties in install order.
SelectsHighestPriorityFirstInstalled ==
    Processed => outcome = Reference(lastIn.table, lastIn.port, lastIn.frame)

(***************************************************************************)
(* Spec 3 (Frame) and the PUSH_VLAN rule: at most one VLAN shim is ever    *)
(* represented, and a push must replace rather than stack.  The code's     *)
(* PUSH_VLAN branch of process_frame builds Ether/Dot1Q/frame.payload      *)
(* around the frame as it is, so a frame that already carries a shim       *)
(* leaves with two.  Stated over frames that arrive with at most one.      *)
(***************************************************************************)
AtMostOneShim ==
    (Processed /\ Len(lastIn.frame.tags) <= 1 /\ outcome.kind = "out")
        => Len(outcome.frame.tags) <= 1

=============================================================================
