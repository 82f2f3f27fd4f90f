------------------------------ MODULE VolthaCli ------------------------------
(***************************************************************************)
(* The test shell of src/cli/main.py (TestCli on VolthaCli) against the    *)
(* core's device records.  The shell runs one command at a time; a       *)
(* command is one step except do_activate_olt, whose polling loop is a    *)
(* mode of its own.  Time advances in half-second ticks, the sleep of that *)
(* loop; the 1-second cache lifetime of device_ids() is compared against   *)
(* ages counted in ticks and capped at Stale ("more than a second").       *)
(*                                                                         *)
(* The adapter side is seen through two variables: active, the devices    *)
(* GetDevice reports ACTIVE (with their parent_id, the logical device,     *)
(* named here after the device), and uni_lds, the logical devices with a  *)
(* UNI logical port.  Here an abstract adapter drives them; a composing    *)
(* module substitutes the state of a real adapter model.                   *)
(***************************************************************************)
EXTENDS Naturals, FiniteSets

CONSTANTS
    Olts,   \* OLTs a user may pre-provision (-m <mac>); the core's device id
    None    \* Python None, and an empty command line (both falsy)

VARIABLES
    default_device_id,            \* settable default_device_id
    default_logical_device_id,    \* settable default_logical_device_id
    device_ids_cache,             \* None, or the ids ListDevices returned
    device_ids_cache_age,         \* ticks since device_ids_cache_ts
    logical_device_ids_cache,
    logical_device_ids_cache_age,
    mode,                         \* "idle", or the device activate_olt polls
    created,                      \* devices CreateDevice made
    created_age,                  \* ticks since each was made
    enabled,                      \* devices ActivateDevice was called on
    active,                       \* devices the core reports ACTIVE
    uni_lds                       \* logical devices with a UNI port

cliVars == <<default_device_id, default_logical_device_id, device_ids_cache,
             device_ids_cache_age, logical_device_ids_cache,
             logical_device_ids_cache_age, mode, created, created_age, enabled>>
vars == <<cliVars, active, uni_lds>>

Stale == 3

Older(a) == IF a < Stale THEN a + 1 ELSE Stale

\* VolthaCli.__init__: both caches None, both timestamps time().
Init ==
    /\ default_device_id = None
    /\ default_logical_device_id = None
    /\ device_ids_cache = None
    /\ device_ids_cache_age = 0
    /\ logical_device_ids_cache = None
    /\ logical_device_ids_cache_age = 0
    /\ mode = "idle"
    /\ created = {}
    /\ created_age = [d \in Olts |-> 0]
    /\ enabled = {}
    /\ active = {}
    /\ uni_lds = {}

Idle == mode = "idle"

\* Half a second passes.
Elapse ==
    /\ device_ids_cache_age' = Older(device_ids_cache_age)
    /\ logical_device_ids_cache_age' = Older(logical_device_ids_cache_age)
    /\ created_age' = [d \in Olts |-> Older(created_age[d])]

Tick ==
    /\ Elapse
    /\ UNCHANGED <<default_device_id, default_logical_device_id, device_ids_cache,
                   logical_device_ids_cache, mode, created, enabled, active, uni_lds>>

\* `line or self.default_...`
Target(line, default) == IF line = None THEN default ELSE line

(***************************************************************************)
(* device_ids(): `self.device_ids is None` tests the bound method, which   *)
(* is never None, so the cache is refilled only once its timestamp is more *)
(* than a second old; until then a None cache is handed back.             *)
(***************************************************************************)
DeviceIdsRefresh == device_ids_cache_age = Stale

\* device_ids() as complete_device uses it: the list it returns.
DeviceIds == IF DeviceIdsRefresh THEN created ELSE device_ids_cache

\* complete_device: device_ids()[:] or a scan of device_ids(); on a None
\* cache both raise TypeError, which leaves the refilled cache as it is.
complete_device ==
    /\ Idle
    /\ device_ids_cache' = DeviceIds
    /\ device_ids_cache_age' = IF DeviceIdsRefresh THEN 0 ELSE device_ids_cache_age
    /\ UNCHANGED <<default_device_id, default_logical_device_id, logical_device_ids_cache,
                   logical_device_ids_cache_age, mode, created, created_age, enabled,
                   active, uni_lds>>

\* complete_logical_device, over ListLogicalDevices: the same cache logic.
complete_logical_device ==
    LET refresh == logical_device_ids_cache_age = Stale IN
    /\ Idle
    /\ logical_device_ids_cache' = IF refresh THEN active ELSE logical_device_ids_cache
    /\ logical_device_ids_cache_age' = IF refresh THEN 0 ELSE logical_device_ids_cache_age
    /\ UNCHANGED <<default_device_id, default_logical_device_id, device_ids_cache,
                   device_ids_cache_age, mode, created, created_age, enabled,
                   active, uni_lds>>

\* do_preprovision_olt -m <mac>: CreateDevice, and the new id becomes the
\* default device.
do_preprovision_olt(o) ==
    /\ Idle
    /\ o \notin created
    /\ created' = created \cup {o}
    /\ created_age' = [created_age EXCEPT ![o] = 0]
    /\ default_device_id' = o
    /\ UNCHANGED <<default_logical_device_id, device_ids_cache, device_ids_cache_age,
                   logical_device_ids_cache, logical_device_ids_cache_age, mode,
                   enabled, active, uni_lds>>

\* do_activate_olt with its ActivateDevice call left out.
do_activate_olt_unsent(line) ==
    LET d == Target(line, default_device_id) IN
    /\ Idle
    /\ d \in created
    /\ mode' = d
    /\ UNCHANGED <<default_device_id, default_logical_device_id, device_ids_cache,
                   device_ids_cache_age, logical_device_ids_cache,
                   logical_device_ids_cache_age, created, created_age, enabled,
                   active, uni_lds>>

\* do_activate_olt: ActivateDevice on `line or default_device_id`, then the
\* polling loop.  An id the core does not know fails the RPC, which raises
\* before anything changes.
do_activate_olt(line) ==
    LET d == Target(line, default_device_id) IN
    /\ Idle
    /\ d \in created
    /\ enabled' = enabled \cup {d}
    /\ mode' = d
    /\ UNCHANGED <<default_device_id, default_logical_device_id, device_ids_cache,
                   device_ids_cache_age, logical_device_ids_cache,
                   logical_device_ids_cache_age, created, created_age, active, uni_lds>>

\* One turn of the loop: GetDevice; if ACTIVE, `assert device.parent_id` and
\* remember it as default_logical_device_id; otherwise sleep(.5).
ActivatePoll ==
    /\ ~Idle
    /\ IF mode \in active
       THEN /\ default_logical_device_id' = mode
            /\ mode' = "idle"
            /\ UNCHANGED <<device_ids_cache_age, logical_device_ids_cache_age, created_age>>
       ELSE /\ Elapse
            /\ UNCHANGED <<default_logical_device_id, mode>>
    /\ UNCHANGED <<default_device_id, device_ids_cache, logical_device_ids_cache,
                   created, enabled, active, uni_lds>>

\* get_logical_ports without its UNI test: the root (NNI) port alone.
LogicalPortsFoundNniOnly(ld) == ld \in active

\* get_logical_ports finds an NNI (root) port and a UNI port of the logical
\* device, else raises 'No valid port pair found'.  The adapter adds the
\* NNI port before it reports ACTIVE, so a UNI port implies both.
LogicalPortsFound(ld) == ld \in uni_lds

(***************************************************************************)
(* do_install_eapol_flow, do_install_all_controller_bound_flows and        *)
(* do_install_all_sample_flows: get_logical_ports on `line or              *)
(* default_logical_device_id`, then UpdateLogicalDeviceFlowTable calls.    *)
(* Nothing of the shell changes; what the core does with the flows is the *)
(* composing module's business.                                            *)
(***************************************************************************)
do_install_flows(line) ==
    /\ Idle
    /\ LogicalPortsFound(Target(line, default_logical_device_id))
    /\ UNCHANGED vars

\* The adapter as the core reports it: a device ActivateDevice was called on
\* turns ACTIVE with its logical device; later an ONU adds a UNI port.
AdapterActivates(d) ==
    /\ d \in enabled \ active
    /\ active' = active \cup {d}
    /\ UNCHANGED <<cliVars, uni_lds>>

OnuArrives(d) ==
    /\ d \in active \ uni_lds
    /\ uni_lds' = uni_lds \cup {d}
    /\ UNCHANGED <<cliVars, active>>

Lines == Olts \cup {None}

CliNext ==
    \/ Tick
    \/ complete_device
    \/ complete_logical_device
    \/ \E o \in Olts : do_preprovision_olt(o)
    \/ \E line \in Lines : do_activate_olt(line)
    \/ ActivatePoll

\* do_install_flows changes nothing of the shell and is left to a composition.
Next ==
    \/ CliNext
    \/ \E d \in Olts : AdapterActivates(d) \/ OnuArrives(d)

Spec == Init /\ [][Next]_vars

-----------------------------------------------------------------------------
TypeOK ==
    /\ default_device_id \in Olts \cup {None}
    /\ default_logical_device_id \in Olts \cup {None}
    /\ device_ids_cache \in SUBSET Olts \cup {None}
    /\ logical_device_ids_cache \in SUBSET Olts \cup {None}
    /\ {device_ids_cache_age, logical_device_ids_cache_age} \subseteq 0 .. Stale
    /\ mode \in Olts \cup {"idle"}
    /\ created \subseteq Olts /\ enabled \subseteq created
    /\ created_age \in [Olts -> 0 .. Stale]
    /\ uni_lds \subseteq active /\ active \subseteq enabled

=============================================================================
