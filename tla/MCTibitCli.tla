------------------------------ MODULE MCTibitCli ------------------------------
(* The shell and one Tibit OLT with one ONU (the MAC of u1 in MCTibit).    *)
(* The OLT is the one at the MAC proxied messages are sent to.             *)
EXTENDS TibitCli, MCPonData

CONSTANTS o1, u1

MCOlts  == {o1}
MCOnus  == {u1}
MCPonOf == u1 :> o1
MCOnuMac == u1 :> <<0, 12, 226, 34, 1, 0>>
\* o1 has the MAC send_proxied_message sends every proxied message to.
LabOlt   == {o1}
MCBulks  == {<<OltUp, OltDown>>}
=============================================================================
