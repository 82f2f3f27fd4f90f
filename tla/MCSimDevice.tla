---------------------------- MODULE MCSimDevice ----------------------------
(* One SimDevice with every flow list of up to two rules drawn from a    *)
(* pool that holds equal-priority overlapping rules, rules installed below *)
(* a later higher-priority one, and the rules that raise.                  *)
EXTENDS SimDevice, MCPonData

FlowPool == {OnuUp, OnuUpPlain, OnuEapol, OnuDown, OnuPcpBad, OnuGroup}
MCTables == BoundedSeq(FlowPool, 2)
MCPorts  == {1, 2}
\* The OLT rules of the sample flow set, that push the S-tag on C-tagged
\* traffic, for the single-shim question.
QinQTables == BoundedSeq({OltUp, OltDown}, 1)
MCFrames == {EapolUntagged, DhcpUntagged, CTagged}

=============================================================================
