----------------------------- MODULE MCPonData -----------------------------
(***************************************************************************)
(* Frames and flow rules the model checks are run with.  The flows are the *)
(* per-device rules the flow decomposer produces for the sample flows of   *)
(* src/cli/main.py (EAPOL and DHCP trapping, C-tag push on the ONU, S-tag  *)
(* push on the OLT), plus the rules that exercise each error path.         *)
(***************************************************************************)
EXTENDS SimDeviceOps

ETH_IPV4  == 2048     \* 0x0800
ETH_EAPOL == 34958    \* 0x888e
TPID      == 33024    \* 0x8100
TPID_AD   == 34984    \* 0x88a8

NoIP  == [proto |-> NoLayer, dst |-> <<>>, dport |-> NoLayer]
Dhcp  == [proto |-> 17, dst |-> <<255, 255, 255, 255>>, dport |-> 67]

Tag(vid, t) == [vlan |-> vid, prio |-> 0, type |-> t]

\* Frames a caller hands to ingress: untagged EAPOL and DHCP from a
\* subscriber, C-tagged (101) and S/C double-tagged (1000/101) traffic.
EapolUntagged == [type |-> ETH_EAPOL, tags |-> <<>>, payload |-> NoIP]
DhcpUntagged  == [type |-> ETH_IPV4, tags |-> <<>>, payload |-> Dhcp]
CTagged       == [type |-> TPID, tags |-> <<Tag(101, ETH_IPV4)>>, payload |-> Dhcp]
SCTagged      == [type |-> TPID, tags |-> <<Tag(1000, TPID), Tag(101, ETH_IPV4)>>,
                  payload |-> Dhcp]

Fld(t, v) == [type |-> t, val |-> v]
Out(p)    == [type |-> "OUTPUT", field |-> "none", val |-> p]
Pop       == [type |-> "POP_VLAN", field |-> "none", val |-> 0]
Push(e)   == [type |-> "PUSH_VLAN", field |-> "none", val |-> e]
SetVid(v) == [type |-> "SET_FIELD", field |-> "VLAN_VID", val |-> v]
SetPcp(v) == [type |-> "SET_FIELD", field |-> "VLAN_PCP", val |-> v]
Group     == [type |-> "GROUP", field |-> "none", val |-> 1]

Flow(p, m, a) == [priority |-> p, match |-> m, actions |-> a]

\* ONU upstream: tag untagged subscriber traffic with C-VID 101.
OnuUp      == Flow(500, <<Fld("IN_PORT", 2), Fld("VLAN_VID", 0)>>,
                   <<Push(TPID), SetVid(4096 + 101), Out(1)>>)
\* An equally ranked catch-all that forwards untouched.
OnuUpPlain == Flow(500, <<Fld("IN_PORT", 2)>>, <<Out(1)>>)
\* EAPOL trap, above the data rules.
OnuEapol   == Flow(2000, <<Fld("IN_PORT", 2), Fld("ETH_TYPE", ETH_EAPOL)>>,
                   <<Push(TPID), SetVid(4096 + 4000), Out(1)>>)
\* ONU downstream: strip C-VID 101 towards the subscriber.
OnuDown    == Flow(500, <<Fld("IN_PORT", 1), Fld("VLAN_VID", 4096 + 101)>>,
                   <<Pop, Out(2)>>)
\* Marks IGMP/DHCP priority without a tag to mark: raises AttributeError.
OnuPcpBad  == Flow(1000, <<Fld("IN_PORT", 2), Fld("IP_PROTO", 17)>>,
                   <<SetPcp(5), Out(1)>>)
\* A group action the engine does not implement.
OnuGroup   == Flow(100, <<Fld("IN_PORT", 1)>>, <<Group>>)

\* OLT upstream: push the S-tag 1000 on C-tagged traffic.
OltUp      == Flow(500, <<Fld("IN_PORT", 1), Fld("VLAN_VID", 4096 + 101)>>,
                   <<Push(TPID), SetVid(4096 + 1000), Out(2)>>)
\* OLT downstream: strip S-tag 1000 and broadcast on the PON.
OltDown    == Flow(500, <<Fld("IN_PORT", 2), Fld("VLAN_VID", 4096 + 1000)>>,
                   <<Pop, Out(1)>>)
\* OLT downstream without a pop: re-mark in place and broadcast.
OltRemark  == Flow(400, <<Fld("IN_PORT", 2), Fld("VLAN_VID", 4096 + 101)>>,
                   <<SetPcp(3), Out(1)>>)
\* OLT hairpin of EAPOL frames back onto the PON.
OltHairpin == Flow(2000, <<Fld("IN_PORT", 1), Fld("ETH_TYPE", ETH_EAPOL)>>, <<Out(1)>>)

\* DHCP trap as decomposed from the controller-bound sample flow.
DhcpTrap   == Flow(1000, <<Fld("IN_PORT", 2), Fld("ETH_TYPE", ETH_IPV4),
                           Fld("IP_PROTO", 17), Fld("UDP_DST", 67)>>, <<Out(1)>>)

\* Multicast on VLAN 4000: the OLT floods it on the PON untouched and every
\* ONU translates it to its own subscriber VLAN v.
Igmp         == [proto |-> 2, dst |-> <<224, 0, 0, 1>>, dport |-> NoLayer]
McastTagged  == [type |-> TPID, tags |-> <<Tag(4000, ETH_IPV4)>>, payload |-> Igmp]
OltMcast     == Flow(500, <<Fld("IN_PORT", 2), Fld("VLAN_VID", 4096 + 4000)>>, <<Out(1)>>)
OnuMcast(v)  == Flow(500, <<Fld("IN_PORT", 1), Fld("VLAN_VID", 4096 + 4000)>>,
                     <<SetVid(4096 + v), Out(2)>>)

\* IGMP rules decomposed from the controller-bound sample flow, which names
\* no in_port: they match on whichever port the frame comes in.
IgmpUntagged == [type |-> ETH_IPV4, tags |-> <<>>, payload |-> Igmp]
IgmpAnyPort  == Flow(1000, <<Fld("ETH_TYPE", ETH_IPV4), Fld("IP_PROTO", 2)>>, <<Out(1)>>)
=============================================================================
