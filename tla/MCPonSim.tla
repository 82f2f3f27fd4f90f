------------------------------ MODULE MCPonSim ------------------------------
(* PonSim with two ONUs.  The pass pools hold the decomposed sample flows  *)
(* (C-tag on the ONU, S-tag on the OLT, EAPOL hairpin, an in-place re-mark *)
(* on the OLT before the PON broadcast), the rules that raise, and the     *)
(* IGMP rules without an in_port whose walks loop to the recursion limit.  *)
EXTENDS PonSim, MCPonData

MCOltTables == {<<OltUp, OltDown>>, <<OltHairpin, OltRemark, OltUp>>}
MCOnuTables == {<<OnuUp, OnuDown, OnuEapol>>, <<OnuPcpBad, OnuUp, OnuDown>>, <<OnuGroup>>}
MCFrames    == {EapolUntagged, DhcpUntagged, CTagged, SCTagged}

\* Multicast VLAN translation on the ONUs.
McastOltTables == {<<OltMcast>>}
McastOnuTables == {<<OnuMcast(10)>>, <<OnuMcast(20)>>}
McastFrames    == {McastTagged}

\* IGMP rules without an in_port on both levels.
IgmpOltTables == {<<IgmpAnyPort>>}
IgmpOnuTables == {<<IgmpAnyPort>>}
IgmpFrames    == {IgmpUntagged}
\* The pass pools with the IGMP rules added: walks that loop until the
\* recursion limit.
RefOltTables == MCOltTables \cup IgmpOltTables
RefOnuTables == MCOnuTables \cup IgmpOnuTables
RefFrames    == MCFrames \cup IgmpFrames
=============================================================================
