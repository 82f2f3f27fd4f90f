------------------------------- MODULE MCTibit -------------------------------
(* Two Tibit OLTs with one ONU each on one host interface.  The ONU MACs   *)
(* differ in the byte _detect_onus turns into the c-vid (the fifth), or,   *)
(* for the collision runs, agree on it.  The flows are the OLT rules of    *)
(* the C/S-tag sample: an upstream rule (sent to the OLT as an             *)
(* AddPortIngressRule) and a downstream one (ignored).                     *)
EXTENDS TibitActivation, MCPonData

CONSTANTS o1, o2, u1, u2

MCOlts  == {o1, o2}
MCOnus  == {u1, u2}
MCPonOf == (u1 :> o1) @@ (u2 :> o2)

\* 00:0c:e2:22:xx:yy
MCOnuMac        == (u1 :> <<0, 12, 226, 34, 1, 0>>) @@ (u2 :> <<0, 12, 226, 34, 2, 0>>)
CollidingOnuMac == (u1 :> <<0, 12, 226, 34, 1, 0>>) @@ (u2 :> <<0, 12, 226, 34, 1, 7>>)

\* o1 has the MAC send_proxied_message sends every proxied message to.
LabOlt == {o1}

\* The lab set-up on its own: o1 and its ONU.
LabOlts   == {o1}
LabOnus   == {u1}
LabPonOf  == u1 :> o1
LabOnuMac == u1 :> MCOnuMac[u1]

MCBulks == {<<OltUp, OltDown>>}
NoBulks == {}
=============================================================================
