# TLA+ models of the VOLTHA PON simulator, Tibit adapters and Kafka publisher

This directory holds TLA+ specifications of the parts of `src/` that have
protocol state. It also holds the TLC configurations that check them.
`PROJECT.json` lists each component, each run, the mutants and the map from
every definition to the source lines it models. It also lists the findings and
the hazards.

## The system and how its parts interact

* **PonSim** (`src/ponsim/ponsim.py`) simulates a PON. It has one OLT at global
  port 0 and `onus` ONUs at ports 128+i.
  * Each `SimDevice` keeps a flow table that `install_flows` sorts by priority.
  * `process_frame` matches the table (`is_match`) and applies the actions of
    the first flow that matches (`process_actions`).
  * `ingress` then calls every link function of the egress port, depth first
    and on the caller's thread. Port 1 of the OLT broadcasts to every ONU.
    Port 2 of each device calls `egress_fun`.
* **Tibit OLT adapter** (`tibit_olt.py`) talks to the OLT over a frameio port.
  * `_launch_device_activation` pings the OLT and waits on a per-device
    `DeferredQueue(size=100)`. `_detect_onus` then asks for the links.
  * For each ONU, it records `vlan_to_device_ids[serial+200]` and reports a
    child device whose proxy channel is that VLAN.
  * `_rcv_io` demultiplexes frames from the wire:
    * C-tagged packet-ins go to the core.
    * Frames on an ONU's VLAN go to `receive_proxied_message` of the ONU adapter.
    * Management replies are put into the OLT's queue.
  * `update_flows_bulk` turns flows into `AddPortIngressRule` messages.
  * `send_proxied_message` puts an ONU's message on the wire under the
    management tag and the ONU's channel. It always addresses the frame to
    `00:0c:e2:22:29:00`, whatever OLT the proxy address names.
* **Tibit ONU adapter** (`tibit_onu.py`) activates each detected ONU.
  `_message_exchange` drains one adapter-wide `incoming_messages` queue, sends a
  proxied request and waits for the next message on that queue.
* **CLI test shell** (`src/cli/main.py`, `TestCli`, entered with `test`) drives
  the core over gRPC:
  * `preprovision_olt` creates a device and makes it the default device;
  * `activate_olt` activates it and polls `GetDevice` every half second, with
    no timeout, until it is ACTIVE; its `parent_id` becomes the default
    logical device;
  * the flow commands need a logical device with an NNI and a UNI port
    (`get_logical_ports`) and then update its flow table, which the core hands
    to the OLT adapter's `update_flows_bulk`;
  * completions read device ids through a one-second cache.
* **EventBusPublisher** (`event_bus_publisher.py`) subscribes one callback per
  configured topic mapping. Each callback forwards the event's message to its
  kafka topic.

Everything runs on one Twisted reactor. An `inlineCallbacks` continuation
resumes inside the `DeferredQueue.put` that wakes it, or inside the
`reactor.callLater` it was scheduled with. The models therefore make each such
continuation a single step.

## Modules

| Module | Models | State / actions |
|---|---|---|
| `SimDeviceOps` | `is_match`, `process_actions`, `install_flows`, `process_frame` | Pure operators. A frame is an ether type, a sequence of Dot1Q shims and an IP/UDP payload. The outcome carries the frame object as written in place (`orig`) and whether the frame was rebuilt (`fresh`). |
| `SimDevice` | one `SimDevice` | `InstallFlows`, `ProcessFrame` over chosen tables, ports and frames. |
| `PonSimTopology` | `PonSim.__init__` wiring, `SimDevice.ingress` | `Links`, and `Walk`: a depth-first walk in which each link gets its own copy of the frame. |
| `PonSimAbstract` | what `PonSim.ingress` promises (spec 4.2) | Each ingress is one atomic step, with `delivered` and `status` given by `Walk`. |
| `PonSim` | `PonSim.ingress` hop by hop | `stack` is the Python call stack of link calls. `mem` holds the scapy frame objects, which links share by reference. Actions: `DeviceForwards`, `DeviceDrops`, `DeviceRaises`, `RecursionLimit` (the link call past the recursion limit raises RuntimeError), `Egress`, `InstallFlows`, `Ingress`. `pending` is an auxiliary variable: the walk that the remaining calls would do. The refinement mapping reads it. |
| `TibitFlows` | both `update_flows_bulk` | Pure operators: `precedence`, the field checks, and the rules sent before the first exception. |
| `TibitActivation` | OLT and ONU adapters, plus the wire | Per-OLT continuation (`olt_pc`), per-ONU continuation (`onu_pc`), `incoming_queues`, `vlan_to_device_ids`, the ONU adapter's `incoming_messages` and its waiting `get()`s, and frames in flight (`toHw`, `fromHw`). The environment answers requests (`HwAnswer`), traps subscriber frames (`HwPacketIn`) and can lose frames (`Lose`). The core can push flows at any time after the logical device exists (`PushFlows`). The constant `AtProxyMac` is the OLT, if any, whose MAC is the one `send_proxied_message` hard-codes; only it receives proxied messages, and it answers only for an ONU of its own on that channel (`Answers`). |
| `VolthaCli` | `TestCli` | The default ids, the two id caches and their ages in half-second ticks, the commands as actions, `do_activate_olt`'s loop as a `mode` polled by `ActivatePoll`. The adapter is seen through `active` and `uni_lds`, driven here by an abstract adapter (`AdapterActivates`, `OnuArrives`). |
| `TibitCli` | the shell over Tibit | Extends `TibitActivation`; `INSTANCE VolthaCli WITH active <- ActiveOlts, uni_lds <- UniLds` reads the adapter's state. The core is the glue: `CoreAdopts` (adopt after `ActivateDevice`) and `CliInstallsFlows` (a flow command and `update_flows_bulk` in one step). |
| `EventBusPublisher` | `start`, `_setup_subscriptions`, callbacks, `forward` | `start` iterates the mappings in any order. `Publish` dispatches to the topic's callbacks. |

The `MC*` modules hold the data: sample flow tables and frames (`MCPonData`),
two OLTs with one ONU each (`MCTibit`), one OLT with one ONU under the shell
(`MCTibitCli`), and the topic mappings (`MCEventBusPublisher`). In every
Tibit configuration `o1` is the OLT at the hard-coded proxy MAC (the lab
set-up the code was written for).

## Runs

Pass runs:

* **`simdevice_selection`** checks every table of up to two flows from a pool
  that covers every match field and action, on every sample frame and both
  ports. The flow that handles the frame is the highest-priority match, and
  among flows of equal priority it is the one installed first (stable sort).
* **`ponsim_refines_abstract`** uses two ONUs, several OLT and ONU tables (tags,
  EAPOL hairpin, in-place re-mark before the broadcast, raising rules, and the
  IGMP rule without an in_port on both levels), five frames and MaxHops 6.
  `PonSim` implements `PonSimAbstract`: the refinement holds whenever no
  broadcast target writes into the shared frame. With the IGMP rules the walk
  loops between the OLT and the ONUs until the recursion limit raises
  RuntimeError out of `PonSim.ingress`, in the detailed and the abstract
  walk alike. So spec 4.2's claim that the recursion terminates holds only for
  tables with an in_port. The abstract walk accepts the RuntimeError, so this
  run pins down what the code does on a loop but does not flag the loop itself.
* **`tibit_lossy_activation`** uses two OLTs and two ONUs with distinct serial
  bytes, a queue size of 1, up to three pushed rules and lossy frames, and
  takes every step of the adapters and the devices, packet-ins and losses
  included. It checks only `TypeOK`: every incoming queue stays within its
  size, because `DeferredQueue.put` raises QueueOverflow rather than grow.
  Nothing stronger holds here: the packet-in routing is only as good as the
  chosen MACs (see `tibit_cvid_collision`), and the overflow itself, the
  stale acks and the lost replies are reachable (see "Plan").
* **`tibit_cli_activation`** runs the shell against one OLT and its ONU without
  loss, the shell's flow commands pushing up to two rules:
  * `activate_olt`'s loop returns, and the ONU of an activated OLT ends ACTIVE;
  * flows from the shell reach the OLT only once `_detect_onus` has consumed
    its links reply, so no flow ack can be taken for that reply;
  * `_rcv_io` finds the queue, the `device_ids` entry or the
    `vlan_to_device_ids` entry of every frame it reads: the queue is created
    before the ping goes out, and packet-ins follow the shell's flows, which
    follow detection.
* **`event_bus_forwarding`** uses three bus topics, one of them without a kafka
  topic. For every iteration order, each published message is forwarded once
  to its mapped topic.

Violation runs (see "findings" in `PROJECT.json`):

* **`tibit_push_during_detect`**: without any loss, a flow push the core
  makes once the OLT is ACTIVE is acked into the queue `_detect_onus` reads.
  The ack is taken for the links response (the `if 1:` TODO), and the OLT's
  ONUs are never activated.
* **`ponsim_broadcast_alias`**: SET_FIELD aliasing across the broadcast.
* **`ponsim_error_aborts_broadcast`**: an exception drops the remaining targets.
* **`tibit_onu_reply_steal`**: the shared ONU queue.
* **`tibit_cvid_collision`**: a cvid built from one MAC byte.
* **`tibit_proxy_fixed_mac`**: two OLTs, no flows, no loss. Both proxied
  requests go to the OLT at `00:0c:e2:22:29:00`, which has no ONU on the
  other OLT's channel, so only one request is ever answered and one ONU never
  becomes ACTIVE. With the shared reply queue that can be either ONU: the
  one answer wakes whichever ONU waited first.
* **`simdevice_qinq`**: the OLT's upstream rule of the sample flow set
  pushes its S-tag onto a C-tagged frame. PUSH_VLAN stacks a second shim,
  where spec.md (sections 3 and 4) says at most one shim is ever represented
  and a push must replace, not stack.

## Bounds

* **Two ONUs** are enough to have a broadcast with an earlier and a later
  target. All aliasing and abort behaviours need exactly that. The pass run
  of the refinement uses two as well: with three ONUs and the looping IGMP
  tables it takes over three minutes, and a middle target adds no new kind
  of step.
* **MaxHops 6** stands for Python's recursion limit, scaled down. It is more
  than the longest walk of acyclic tables (ONU, OLT, ONU, egress, with a
  hairpin), so only the looping IGMP tables reach it, and there the
  `RecursionLimit` step raises RuntimeError after six device hops.
* **Two OLTs with one ONU each** give cross-OLT cvid collisions, a proxied message sent to the wrong OLT and the shared
  ONU queue.
* **Queue size 1** stands for the code's 100. Whether acks overflow it depends
  only on their arriving with nobody draining the queue; the size only changes
  how many are needed.
* **One OLT with one ONU** under the shell: the shell's properties are about
  one activation at a time (its loop blocks the prompt), and two OLTs multiply
  the CLI's clocks and caches past a five-minute run. Cache ages are capped at
  3 ticks, "more than a second", which is all `device_ids` compares.
* **MaxRules** bounds the flow pushes: 3 in `tibit_lossy_activation` (rules to both
  OLTs and a further one while packet-ins flow), 2 under the shell, 1 where a
  single early push is the question. **MaxEvents** (3) bounds the
  published events.

## Fairness

* **TibitActivation** has weak fairness on:
  * the reactor's scheduled calls (adopt, launch, detect, ONU activation);
  * handling each received frame: frameio reads frames in order, so a frame
    is never passed over for ever (fairness on "some frame" is too weak: a
    stream of packet-ins would starve an ONU's reply);
  * the device answering each request it received.

  Nothing forces the core to push flows, the subscriber to send packet-ins, or
  the wire to lose frames.
* **TibitCli** adds weak fairness on the core's adoption of an activated
  device and on `activate_olt`'s poll loop, which the shell runs by itself.
  The user at the prompt is never forced to type a command.
* **PonSim** needs no fairness. Its property is a safety refinement.

## What is not modelled

* `is_match` reads `udp.udsp_dst`, a typo that makes every UDP_DST match
  raise. `is_match` models it, but no run checks it: a unit test reaches it
  directly.

* The Microsemi adapter and its DeviceManager. `adopt_device` hands the
  device to an `OltStateMachine` and an `ActivationWatcher`, which are not in
  this repository and which spec.md does not describe. They are the only
  callers of DeviceManager's `update_device`, `create_logical_device`,
  `add_port` and `activate`, so the order of those calls, which is all that
  gives them behaviour, is unknown.
* The EventBusPublisher's `start` runs once. Its caller, voltha's main, is
  not in this repository. `stop` only logs and never unsubscribes, so a
  restart would forward each message twice (listed as a hazard).
* `omci_defs.bitpos_from_mask` and `FixedLenField.getfield` are pure helpers
  that no component in this repository calls.
* The default logical device of the shell: `activate_olt` sets it to the
  logical device of whatever OLT it activated, not of the last
  pre-provisioned one as the flow commands' docstrings say. Showing it needs
  two OLTs under the shell, which is beyond a five-minute run of the
  composition.
* Of the CLI: history load/save and the listing commands (I/O and
  formatting), `device`/`logical_device` (their sub-shells live in
  `cli.device`, absent from the repository), `arrive_onus` and the simulated
  EAPOL commands (REST calls to the simulated OLT), `delete_all_flows`. The
  three flow-install commands are one action: each checks the port pair and
  then updates the flow table; the several flow-table updates of one command
  are one `update_flows_bulk` in the model.
* The NETCONF `delete_config` handler, the constant tables and the
  integration tests have no protocol state.
* Adapter-agent bookkeeping, such as the logical device and port records, is
  folded into the activation steps. Frame encodings are abstracted to a kind
  and the ids the code reads from them.

## Plan for further work

1. Drive `TibitFlows` from `PushFlows`:
   * a run on partial failure of `update_flows_bulk`;
   * a property that the device's precedence order respects flow priority,
     which distinct priorities can collide in.
2. Add malformed links replies (a `None` macid) as environment input.
3. Add liveness under loss. The code has no timeout, so this is expected to be
   a violation.
4. Add runs for behaviours the modules already produce but that are not yet
   checked (each needs a run of its own):
   * QueueOverflow from flow acks nobody drains;
   * a packet-in for a c-vid not yet detected (the TypeError at
     `tibit_olt.py:337`), when the core pushes flows before detection.
5. Model `delete_all_flows` in the shell composition: the Tibit OLT's
   `update_flows_bulk` only adds rules, so the OLT keeps trapping after the
   logical device's flows were deleted.
6. Interleave `install_flows` with an ingress in progress, if callers may do so.
