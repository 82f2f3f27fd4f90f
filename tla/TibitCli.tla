------------------------------- MODULE TibitCli -------------------------------
(***************************************************************************)
(* The test shell of src/cli/main.py driving Tibit OLTs through the core.  *)
(* The core is not part of the repository; what the composition takes of  *)
(* it is what the shell and the adapters both rely on:                     *)
(*  - CreateDevice records a device; ActivateDevice makes the core call    *)
(*    adopt_device of its adapter;                                         *)
(*  - GetDevice reports what the adapter last passed to update_device:     *)
(*    ACTIVE with parent_id once _launch_device_activation has created the *)
(*    logical device;                                                      *)
(*  - ListLogicalDevicePorts lists the NNI port the OLT adapter adds and   *)
(*    the UNI port _onu_device_activation adds before its message          *)
(*    exchange;                                                            *)
(*  - UpdateLogicalDeviceFlowTable hands the decomposed flows to           *)
(*    update_flows_bulk of the logical device's OLT in the same step.      *)
(***************************************************************************)
EXTENDS TibitActivation

CONSTANT None

VARIABLES
    default_device_id, default_logical_device_id, device_ids_cache,
    device_ids_cache_age, logical_device_ids_cache, logical_device_ids_cache_age,
    mode, created, created_age, enabled

\* GetDevice(o).oper_status == ACTIVE, parent_id being o's logical device.
ActiveOlts == {o \in Olts : HasLogicalDevice(o)}

\* Logical devices holding the UNI port of one of their ONUs.
UniLds == {PonOf[u] : u \in {v \in Onus : onu_pc[v] \in {"waiting", "active"}}}

Cli == INSTANCE VolthaCli WITH active <- ActiveOlts, uni_lds <- UniLds

shellVars == <<default_device_id, default_logical_device_id, device_ids_cache,
               device_ids_cache_age, logical_device_ids_cache,
               logical_device_ids_cache_age, mode, created, created_age, enabled>>

allVars == <<vars, shellVars>>

\* The core adopts a device once the shell activated it.
CoreAdopts(o) ==
    /\ o \in enabled
    /\ adopt_device(o)
    /\ UNCHANGED shellVars

\* A flow command of the shell, and update_flows_bulk on the OLT of the
\* logical device it names.
\* (A None target fails get_logical_ports, which do_install_flows implies.)
CliInstallsFlows(line, bulk) ==
    LET ld == Cli!Target(line, default_logical_device_id) IN
    /\ ld \in Olts
    /\ PushFlows(ld, bulk)
    /\ Cli!do_install_flows(line)

TNext ==
    \/ UNCHANGED vars /\ Cli!CliNext
    \/ \E o \in Olts : CoreAdopts(o)
    \/ \E line \in Cli!Lines, bulk \in Bulks : CliInstallsFlows(line, bulk)
    \/ AdapterNext /\ UNCHANGED shellVars

(***************************************************************************)
(* The reactor and the devices as in TibitActivation; the core's call of   *)
(* adopt_device once ActivateDevice came in; the shell's own loop in       *)
(* do_activate_olt, which sleeps and polls again.  The user at the prompt  *)
(* is not forced to type anything.                                         *)
(***************************************************************************)
TSpec ==
    /\ Init /\ Cli!Init
    /\ [][TNext]_allVars
    /\ AdapterFairness
    /\ \A o \in Olts : WF_allVars(CoreAdopts(o))
    /\ WF_allVars(UNCHANGED vars /\ Cli!ActivatePoll)

-----------------------------------------------------------------------------
\* do_activate_olt's polling loop, which has no timeout, returns: every OLT
\* the shell activates reaches ACTIVE when no frame is lost.
ActivateOltReturns == \A o \in Olts : (mode = o) ~> (mode = "idle")

\* Every ONU of an OLT the shell activated is driven to ACTIVE.
OnuActiveOnceOltActivated ==
    \A u \in Onus : (PonOf[u] \in enabled) ~> (onu_pc[u] = "active")

(***************************************************************************)
(* Flows from the shell reach an OLT only after _detect_onus consumed its  *)
(* links reply: get_logical_ports wants a UNI port, which no ONU adds      *)
(* before detection, so the acks of update_flows_bulk can never be taken   *)
(* for the links reply (the `if 1` of _detect_onus).                       *)
(***************************************************************************)
CliFlowsFollowOnuDetection ==
    [][\A o \in Olts :
          (\E f \in toHw' \ toHw : f.kind = "set" /\ f.olt = o) => olt_pc[o] = "done"]_allVars

=============================================================================
