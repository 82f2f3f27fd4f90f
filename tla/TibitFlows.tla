----------------------------- MODULE TibitFlows -----------------------------
(***************************************************************************)
(* update_flows_bulk of the Tibit OLT and ONU adapters as pure operators.  *)
(* A flow is the [priority, match, actions] record of SimDeviceOps.  Both  *)
(* walk flows.items in order; an exception ends the walk, and what the OLT *)
(* adapter sent for earlier flows stays sent.                              *)
(***************************************************************************)
EXTENDS Integers, Sequences, SequencesExt

NoInPort == -1   \* get_in_port(flow) returning None

\* get_in_port: the IN_PORT match field of the flow, if any.
get_in_port(flow) ==
    LET k == SelectInSeq(flow.match, LAMBDA m : m.type = "IN_PORT")
    IN  IF k = 0 THEN NoInPort ELSE flow.match[k].val

\* The OXM field types each arm of the field loops handles; any other type
\* reaches the final else and raises NotImplementedError.
OltUpstreamFields   == {"ETH_TYPE", "IP_PROTO", "IN_PORT", "VLAN_VID", "VLAN_PCP", "UDP_DST"}
OnuDownstreamFields == {"ETH_TYPE", "IP_PROTO", "IN_PORT", "VLAN_VID", "VLAN_PCP"}
OnuUpstreamFields   == OnuDownstreamFields \cup {"IPV4_DST", "UDP_DST"}

FieldsIn(flow, S) == \A k \in DOMAIN flow.match : flow.match[k].type \in S

\* precedence = 255 - min(flow.priority / 256, 255), Python 2 integer division.
precedence(flow) ==
    LET q == flow.priority \div 256 IN 255 - (IF q < 255 THEN q ELSE 255)

(***************************************************************************)
(* One turn of the OLT adapter's loop: "send" when it builds and sends an  *)
(* AddPortIngressRule (upstream, in_port 1), "skip" for a downstream flow,  *)
(* or the exception it raises.  Actions are only logged when unsupported.  *)
(***************************************************************************)
OltFlowStep(flow) ==
    LET ip == get_in_port(flow) IN
    CASE ip = NoInPort -> "AssertionError"
      [] ip = 2        -> "skip"
      [] ip = 1        -> IF FieldsIn(flow, OltUpstreamFields)
                          THEN "send" ELSE "NotImplementedError"
      [] OTHER         -> "Exception"

\* TibitOltAdapter.update_flows_bulk: the precedences of the rules sent, in
\* order, and the exception that ended the loop ("ok" if none).
OltUpdateFlowsBulk(flows) ==
    LET bad  == SelectInSeq(flows, LAMBDA fl : OltFlowStep(fl) \notin {"send", "skip"})
        done == IF bad = 0 THEN flows ELSE SubSeq(flows, 1, bad - 1)
        sent == SelectSeq(done, LAMBDA fl : OltFlowStep(fl) = "send")
    IN  [rules |-> [k \in DOMAIN sent |-> precedence(sent[k])],
         err   |-> IF bad = 0 THEN "ok" ELSE OltFlowStep(flows[bad])]

\* TibitOnuAdapter.update_flows_bulk only checks the flows: the exception it
\* raises for the first flow it rejects, or "ok".
OnuFlowStep(flow) ==
    LET ip == get_in_port(flow) IN
    CASE ip = NoInPort -> "AssertionError"
      [] ip = 2        -> IF FieldsIn(flow, OnuDownstreamFields) THEN "ok" ELSE "NotImplementedError"
      [] ip = 1        -> IF FieldsIn(flow, OnuUpstreamFields) THEN "ok" ELSE "NotImplementedError"
      [] OTHER         -> "Exception"

OnuUpdateFlowsBulk(flows) ==
    LET bad == SelectInSeq(flows, LAMBDA fl : OnuFlowStep(fl) # "ok")
    IN  IF bad = 0 THEN "ok" ELSE OnuFlowStep(flows[bad])
=============================================================================
