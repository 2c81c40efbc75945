# A TLA+ specification of ubr, the unassuming bridge

ubr is an Ethernet bridge: a Linux kernel module (`src/kernel`) and a command
line tool (`src/src`) that configures it over netlink.  This directory holds
TLA+ modules that model both, TLC configurations that check them on small
instances, and theorems about each of them proved with TLAPS for every size of
instance.  `PROJECT.json` maps each definition to the lines it models.

## The system

| Part | State | Operations | Source |
|---|---|---|---|
| Port slots | `ubr->ports[]`, `ubr->busy`, and what the kernel keeps of each enslaved device (upper link, promiscuity, allmulti, receive handler, flag) | `ubr_port_add`, `ubr_port_del`, RCU clean-up of a slot, `port set`, device unregistration | `ubr-port.c`, `ubr-dev.c` |
| VLANs | `ubr->vlans`: members, tagged members, flood vectors; each port's PVID | `vlan add`, `del`, `attach`, `detach`; `vlan set` is a stub | `ubr-vlan.c` |
| Data path | the frame and its `ubr_cb` | receive, host transmit, VLAN ingress, FDB stage, delivery | `ubr-forward.c`, `ubr-vlan.c:14` |
| FDB | the `nodes` hash table, node memory, the ageing work | learn, look up, age, flush, destroy | `ubr-fdb.c` |
| Life cycle | what the module has registered; each bridge's net device; its pending callbacks and ageing work | `newlink`, `dellink`, module init and exit, `ubr_device_event` | `ubr-dev.c` |
| Netlink family | command table; the references a handler holds | dispatch, finding the bridge's device (`ubr_netlink_dev`) | `ubr-netlink.c`, and the heads and tails of the handlers |
| Tool | its arguments, and the interface indexes it has looked up | `add`, `del`, `port`, `vlan`, `fdb` and their options; requests and acknowledgements | `src/src` |

**How they interact.**  Netdevice commands (enslave, release, unregister, delete
the bridge) hold the RTNL.  The module's own commands hold only the mutex of
generic netlink, so one of each kind runs at the same time, on the same slots and
VLANs.  Frames are handled on every CPU without any lock, in RCU read-side
sections; they read slots, VLANs and FDB nodes that the commands change.  RCU
callbacks clear slots and free VLANs and nodes.  A work item ages the FDB.  All of
these run code of the module and use a bridge's memory, which its owner frees
after an `rcu_barrier` and a wait for references; handlers of the family give
their reference back before they are done.  The tool turns names into indexes once
and then sends one or two requests; other administrators work in between.

**What is hard.**  There is no lock that both kinds of command take.  A slot is
marked free at once and cleared later.  Commands keep using what they found (a
slot number, a VLAN, the bridge) after they have given up what protected it.
`ubr_port_add` acquires four things, each of which may fail.  Learning is
lock-free.  The ageing work queues itself again while `dellink` cancels it.  The
module has no `rcu_barrier` of its own.  Loading and creating a bridge have error
paths.  A `port attach` with settings is two requests, and the answer to a request can
be lost after the kernel has carried it out.
`PROJECT.json` lists these hazards at their lines.

**What makes it correct.**

* *Slots*: a slot serves one device at a time; a device is enslaved completely
  or not at all; a free slot is zeroed; nothing points into a deleted bridge.
* *VLANs*: a port's filtering flag and default VLAN agree with its PVID; a
  tagged member never looks untagged.
* *Data path*: no reflection; the slot and the VLAN a frame uses outlive it;
  no frame goes on without a VLAN.
* *FDB*: one node per station, pointing only to ports the station was heard on;
  no node freed under a frame; silent stations are forgotten; `dellink` ends and
  leaves nothing running.
* *Life cycle*: what runs on its own finds its memory; every slave is watched;
  unloading leaves nothing and ends; unregistered devices are freed.
* *Netlink family*: references are balanced on every path.
* *Tool*: status 0 means that everything was done and acknowledged; a failure that
  nothing was, or that an answer was lost, or that an attach stopped half-way; what the
  kernel carried out is what was typed.

## The modules

* **`UbrBridge`** is the control plane: slots, VLANs, devices, and the commands.
  A command is a program counter (`rtnl` or `genl`) and one action per store that
  another thread can tell apart.  `RtnlStep`, `GenlStep` and `RcuStep` are the
  three parties.  Variables are the structures of `ubr-private.h` with the
  control buffer of a port flattened into it.
* **`UbrForward`** extends `UbrBridge` with CPUs that handle frames, one action per
  stage, and with RCU: `readers` records, for each grace period under way, the
  CPUs it waits for, and `GraceEnded` keeps callbacks and `synchronize_net` from
  coming too early.  A `ControlStep` is any step of `UbrBridge` that RCU allows.
* **`UbrSwitch`** is what the data path promises: an abstract switch that admits a
  frame to one VLAN and sends it to members of that VLAN, once to each, never back.
* **`UbrFdb`** is the forwarding database on its own: learning split at each access
  to shared memory, lookups, the ageing work, `ubr_fdb_dellink`, node memory that
  is freed by RCU and used again.
* **`StationTable`** is what the FDB promises: each station maps to ports it was
  heard on, or is unknown; anything known may be forgotten.
* **`UbrDevice`** is the life of the module and of several bridges: `mod` is where
  `ubr_module_init` or `ubr_module_cleanup` has come to, `rtnl` where `newlink`,
  `dellink` or the deletion of all links has, `genl` which references the running
  handler holds.  `pend` and `work` are the callbacks and ageing works that point
  into a bridge.  The kernel's part (`netdev_run_todo`, reference counts) is
  external.
* **`UbrCli`** is one invocation of the tool, `tool.pc` being the function it is in
  and `tool.asks` the request it has built, beside `Others`: administrators who
  create, delete and move interfaces and unload the module.
* The theorems: **`UbrBridge_proofs`** and **`UbrSlots_proofs`** about who owns a slot
  of `UbrBridge` and what is in it, **`UbrForward_proofs`**, **`UbrFdb_proofs`** and
  **`UbrDevice_proofs`** about the module of that name, **`UbrCli_proofs`** and
  **`UbrRequests_proofs`** about what the tool finds and what it asks for.
* `MCUbrBridge`, `MCUbrForward`, `MCUbrFdb` add the symmetry sets for TLC,
  `MCUbrCli` the command lines and worlds; `MCUbrDevice` adds nothing.
* In the detailed modules a definition whose comment starts with
  "Mutant" is a plausible bug next to the code it would be in.  No specification
  uses them; each shows that some property would notice.

### Correspondence and abstractions

* **Undefined behaviour.**  The code reaches NULL dereferences, use after free, a
  second `call_rcu` of one `rcu_head`, a second free of a frame, and a bridge
  computed from the wrong slot.
  The first of these is recorded in `fault` and nothing happens after it, so every
  property speaks of the behaviour up to there.  The configurations say
  `CHECK_DEADLOCK FALSE` for this reason, and because nothing happens to a bridge
  that is gone.
* **Races.**  `tainted` is a ghost: the slots that two owners write without
  serialisation, either because a slot was taken before its clean-up had run, or
  because it changed hands under a command that still had stores to do: a `port set`
  that had found it, or a `vlan add` or `vlan del` that had tested it
  (`StoreInFlight`).  The stores themselves are made, late as they are; the contents
  of such a slot are unspecified, and the properties about contents leave it out
  until it is zeroed again with no store left to come.  Ownership, unwinding and
  deletion are claimed for tainted slots as well.
* **VLAN 0** exists from the start and cannot be named by the tool, which sends
  VIDs 1..4095 (`src/src/vlan.c:286`).  `port set` can send PVID 0.
* **One object per VID.**  A deleted VLAN stays in the hash, so creating it again
  is refused and there is never a second object.  Collisions of the hash are left
  out: a lookup through the memory of another freed VLAN in the same bucket is
  not modelled.
* **Steps.**  `__update_port_vlan` is a walk, `genl.pidx` the slot it has come to:
  one step tests the busy bit and the PVID (`UpdateTest`), another stores the pointer
  (`UpdateStore`).  The two tests can be one step, since no PVID becomes the VLAN's
  during the command.  `cb->vlan_filtering = ...` is a load and a store of the word
  that also holds `pidx` and `sa_learning` (`PortSetLoad`, `PortSetFilter`); when it
  meets the store of `ubr_port_init` to the same word, either may come last.  The
  stores of `ubr_port_init` up to its barrier are otherwise one step, and so is the
  `memset` of a clean-up.  Barriers are taken at their word: stores are not reordered.
* **Freed VLANs** have no contents: whoever reads one has faulted.
* **FDB answers** are left open in `UbrForward` (any vector): a lookup only ever
  narrows where a frame goes.  In `UbrFdb` the ports and VLANs are in turn reduced
  to a port number and a station, which stands for a VID and an address.
  Multicast groups are never learned and need no node.
* **Walks of the table** come by each place once, in any order.  They see every
  node that is in the table throughout, and may miss or see newer ones.  A walk
  that is restarted by a resize is not modelled.
* **Life cycle.**  In `UbrDevice` commands do to slots, VLANs and stations only what
  matters for lifetimes: they queue callbacks and take references.  A callback
  is known by its kind, so two of a kind in one bridge count as one.  A bridge's
  memory may be allocated again once it is freed.  Loading the module again while
  stale link operations are left over is not followed.
* **Words**: a word is known by the keywords it
  abbreviates and by its `atoi`.  Interface indexes are never used twice.  A
  request runs in the kernel at one moment, and whether a VLAN command is refused for
  the sake of a VLAN is left open.  `msg_recv` may fail after that moment
  (`Unanswered`): `done` is what the kernel has carried out, whatever the tool was told,
  and `lost` what it does not know of: the answer, or the part of a refused attach that
  took effect.
* **Refusals** that change nothing (a loopback device, an unknown port, a missing
  attribute) are not actions; a step that fails after something has changed is.

## The runs

| Run | Instance | States | What it shows |
|---|---|---|---|
| `bridge_slots` | 3 devices, 3 slots, `port set` on one port and the host's | 119 thousand | `SlotExclusive`, `AllOrNothing`, `GoneReleasesDevices` |
| `bridge_vlans` | 2 devices, 2 slots, 1 VID, commands on one port and the host's | 3.2 million | `TypeOK`, `SlotsClean`, `PortVlanCoherent`, `TaggedOrdering`, `CrashCauses` |
| `forward_vlans` | 1 device, 2 slots, 1 VID, 1 CPU, tagged and untagged frames | 4.9 million | `FrameTypeOK`, `VlanOutlivesFrame`, `FrameCrashCauses`, `ImplementsSwitch` |
| `forward_ports` | 2 devices, 3 slots, 2 CPUs | 411 thousand | `NoReflection`, `ReceivingSlotHeld`, `ImplementsSwitch` |
| `fdb_race` | 2 CPUs, 1 station, 3 ports, 2 nodes | 2.3 million | `OneNodePerStation`, `NodeOutlivesFrame`, `NoBlackHole`, `QuietWhenDestroyed`, `TypeOK`, `ImplementsTable` |
| `fdb_ageing` | 1 CPU, 2 stations, 2 ports, 1 node, fair | 45 thousand | `HintsWereSeen`, `SilentIsForgotten`, `DellinkCompletes` |
| `device_life` | 2 bridges, 1 device, requests that name a bridge and the device, fair | 482 thousand | `TypeOK`, `PendingIsSafe`, `PortsWatched`, `UnloadLeavesNothing`, `LifeCrashCauses`, `DevicesAreFreed`, `UnloadEnds` |
| `cli` | about 250 command lines in 4 worlds of up to 5 interfaces, 3 changes by others | 1.04 million | `TypeOK`, `ExitZeroMeansDone`, `FailureIsExplained`, `AttachNamesBridge`, `AsTyped`, `NullNeedsCause` |

**Refinements.**  `ImplementsSwitch` says that the data path beside the control plane
implements `UbrSwitch`, and `ImplementsTable` that `UbrFdb` implements
`StationTable`; each is an `INSTANCE ... WITH` whose mapping stands beside it.  Of
the switch, the mapping shows which weakness is real: a port that filters (`strict`)
sends only what its tag allows, and a port that does not filter sends anything to the
VLAN of its PVID.  Of the table: that a move is seen as an entry that loses its
ports and gains them one by one, possibly two of them (`fdb_station_move`).  TLC checks
both on small instances, and both are proved for all.

**Crash causes.**  The code does reach undefined behaviour, so no run can claim that
it does not.  Instead `CrashCauses`, `FrameCrashCauses`, `LifeCrashCauses` and
`NullNeedsCause` say that nothing but the listed causes leads there: a VLAN that was
deleted or never existed, a bridge that a handler used after giving back its
reference, a frame whose VLAN tag could not be removed or inserted, a free slot in a
frame's vector, a family that could not be registered, a stub that was given no bridge
because of `-h` or an interface that is not a bridge.  A
new way to crash would break them.  Where a listed cause is a flaw of the code, the
property does not guard against it; `PROJECT.json` says so at the hazard.

**What `UbrCli` shows of the tool**, beside its properties: `ubr -h fdb flush` sends
its request and needs no bridge; with `-h` the port or VID is not read and the next
word takes its place; `a` is refused when the bridge does not exist, though `ad` and
`add` are not; `del` and `port detach` act on interfaces of any kind; a `port set`
without a PVID clears it; an attach that is refused may have left the old bridge.

Four runs end in a counterexample.  Each checks what a comment or a test says of
the code, against what the code does:

* `bridge_deleted_vlan`: `ubr-private.h:162` says a port whose PVID does not exist
  has no default VLAN.  A deleted VLAN stays in the hash and is found.
* `bridge_slot_reuse`: `ubr-port.c:62` wants egress on all other ports.  A slot
  taken before its clean-up has run loses its vector to the late `memset`.
* `forward_unknown_vid`: `ubr-forward.c:90` says that all later stages rely on the
  VID.  The FDB stage runs for a frame that has no VLAN.
* `fdb_station_move`: `test.sh:179` expects a moved station on its new port only.
  Two simultaneous moves leave it on two ports.

**Why the bounds are enough.**  The slot hazards need two devices that follow each
other in one slot, and a third that competes for it; with three slots two are
free, so `bridge_slots` also fills the bridge.  The VLAN hazards need a VLAN that
exists and one that does not, and a port that changes hands.  One VID suffices, for
commands as for a frame whose VLAN dies under it, since VLANs do not interact: VLAN 0
always exists, an unknown VID is that VID before it is created, and to a walk over the
slots for one VLAN a port has that PVID or another.  Two slots suffice for the walk:
the bridge's own, which `port set` can give the PVID as well, so that the walk has two
to change, and one that two devices follow each other in between its test and its
store.  Two CPUs and two nodes suffice for a pair of
overlapping learners, and one node that two stations take turns in for reused
memory; `fdb_ageing` has the latter only, so of `HintsWereSeen` it shows that reused
memory brings no old ports along, and `HintsComeFromFrames` proves it for overlapping
moves as well.  In `device_life` two bridges show that one is deleted while the
other lives and that one link deletion does not wait for another; one device and
one handler suffice, since both locks admit one command at a time.  In `cli` an
index that is freed is never used again, so five are enough for a bridge that is
deleted and created again under the same name, and three changes for one before each
step that looks something up.  The command lines are complete, abbreviated,
too short, too long and wrong, with VIDs and PVIDs at and over every limit.
Nothing is bounded but the constants; only `UbrCli` has counters, `MaxIndex` and
`MaxChanges`.

**Symmetry.**  Devices that commands do not name are interchangeable, and so are
CPUs, stations, nodes and the ports other than the host's.  `fdb_ageing` and
`device_life`, which have liveness properties, use no symmetry.  `TaggedOrdering` and
the refinements are properties of the initial state and of single steps, and do
not depend on the names of devices, CPUs, stations or ports.

**Fairness** is weak, and assumed in two runs.  In `fdb_ageing` a CPU that has begun
a frame finishes it (softirqs run to completion); time passes, so a silent node
becomes old; the work queue runs the ageing work; a grace period ends; `dellink`,
once begun, goes on.  Nothing makes frames arrive, and nothing makes anyone delete the
bridge.  In `device_life` a thread that holds the RTNL goes on, and so do a handler
and an unloading once begun; callbacks are run; `netdev_run_todo` is woken for
each bridge and each device.  Nobody need load or unload the module, create or
delete a bridge, or send a request.  `DevicesAreFreed` and `UnloadEnds` name what
else stands in their way: the reference to the port that `port set` never returns
(`ubr-port.c:238`), the failed registration of the family, a crash.

## What is proved

Every invariant, every action property and both refinements that the passing runs
check are theorems.  Each is proved for every value of the constants from the
assumptions that the module states about them: `ConstantsAssumption` (there is a slot,
VIDs are 1..4095, names do not clash), `TagsAssumption` (tags are VIDs or 0),
`FdbAssumption` (the host has a port) and `DeviceAssumption` (names do not clash); the
one that says more, `CliAssumption`, is discussed below.  An invariant that a run checks
is seldom inductive.  Each module therefore begins with the invariant that is, in
named parts, and proves that every action preserves it.

**`UbrBridge_proofs`**: who owns a slot.

* `TypeCorrect`, `SlotsAreExclusive`, `NothingHalfEnslaved`, `DellinkReleasesAll`:
  the invariants `TypeOK`, `SlotExclusive`, `AllOrNothing`, `GoneReleasesDevices`.
* `TaggedBeforeMember`: the action property `TaggedOrdering`.

`AllOrNothing` says nothing of a device that is halfway through `ubr_port_add`, and
`SlotExclusive` needs to know that the slot a command has chosen belongs to nobody.
`Inv` adds this: what the program counter of the RTNL command says about it
(`RtnlInv`), how far its device is enslaved at each step (`AddInv`) or released
(`DelInv`), that every other device is completely enslaved or released (`OthersInv`),
who holds which slot, including the slots of commands under way (`SlotInv`), and what
is left of a bridge that is gone (`GoneInv`).  The step of a command that touches
neither the RTNL state, the devices nor the busy vector preserves `Inv` by `QuietInv`,
which disposes of all generic netlink and RCU steps; the others are proved one by one.
`LeastIsMinimum`, from the well-foundedness of the naturals, says that the search for
a free slot finds one.

`TaggedBeforeMember` needs a second, smaller invariant, `GenlInv`: an `attach` that is
about to set the members bit of a port it wants tagged has set its tagged bit.  It
holds because only one command at a time changes the vectors, and the RTNL commands
only ever add members to VLAN 0 untagged.  A VLAN that is freed meanwhile has no
vectors left to say it of, and the command faults at its next store.

**`UbrSlots_proofs`**: what is in a slot, on top of `Inv`.

* `SlotsAreClean`, `SettingsAgree`, `CrashesHaveCauses`: `SlotsClean`,
  `PortVlanCoherent`, `CrashCauses`.

`SlotsInv` says three things that those leave open.

* `CleanInv`: a slot that is taken while its clean-up is still to come, or that is
  released under a command with a store to it in flight, is tainted; so a store of
  `port set`, `vlan add` or `vlan del` only ever reaches a slot that is busy or
  tainted, and the word that `port set` has loaded is the slot's own unless the slot is
  tainted.
* `PcInv`: which command is at which step, and that VLAN 0 and a VLAN being created stay.
* `SettingsInv`: what agrees while the stores are still going on.  `port set` stores
  PVID, VLAN and filtering in this order; `vlan add` creates the VLAN and then changes
  the ports slot by slot, so the slots before `genl.pidx` point to it and the others
  (`Unvisited`) need not yet; `vlan del` changes the ports first, so until it changes
  the VLAN a port with that PVID may point to it or not.  A slot about to be stored to
  still has the PVID it was tested for, or is tainted.

`WalkMoves` and `SettingsWalk` treat the steps of the two walks: each test and each
store must leave every slot on one side of `genl.pidx` or the other.

**`UbrForward_proofs`**: the data path beside the control plane.

* `FramesAreTyped`, `FramesAreNotReflected`, `SlotOutlivesFrame`,
  `LiveVlanOutlivesFrame`, `FrameCrashesHaveCauses`: `FrameTypeOK`, `NoReflection`,
  `ReceivingSlotHeld`, `VlanOutlivesFrame`, `FrameCrashCauses`.
* `ForwardImplementsSwitch`: the refinement `ImplementsSwitch`.

A frame relies on what others do to the bridge underneath, so `ForwardInv` combines
`Inv`, the parts of `SlotsInv` about clean-ups and steps, and `VecInv`: a slot, tainted
or not, egresses to all others or to none, its index is its own or 0, and a word that
`port set` has loaded brings no index back to a slot that has a vector.  Of each frame
`FrameInv` says what it has at its stage (`StageInv`), that the command releasing its
slot waits for its CPU (`SlotHeld`), that the index it copied is the slot's, unless the
slot was raced for, and then it has no egress vector either (`IndexInv`), and that RCU
keeps its VLAN (`VlanHeld`).  A step of the control plane changes of all this only what
`BusyStays`, `RtnlMoves` and `MemSteps` list.  In the refinement every action of a frame
maps to one action of the switch or to a stutter (a frame that has nowhere to go is not
admitted), and every step of the control plane to `Reconfigure`, if it changes a
membership at all.

**`UbrFdb_proofs`**: the forwarding database.

* `FdbTypeCorrect`, `StationsHaveOneNode`, `NodesOutliveFrames`, `HintsComeFromFrames`,
  `MovesLoseNoStation`, `DestroyedIsQuiet`: `TypeOK`, `OneNodePerStation`,
  `NodeOutlivesFrame`, `HintsWereSeen`, `NoBlackHole`, `QuietWhenDestroyed`.
* `FdbImplementsTable`: the refinement `ImplementsTable`.

`FramesInv` says what a CPU may rely on at each of its stages: that a node it found is
still its station's, and in the table or kept by RCU for this very CPU; that a node it
is about to publish is its own; and that a station it moves was heard on two ports, the
new one and another.  `OwnInv` keeps two CPUs from publishing one node.  `NodesInv`
extends `HintsWereSeen` and `NoBlackHole` to nodes that have left the table, because a
CPU that still holds one goes on storing to it, and `LifeInv` follows the ageing work
and `dellink`.  The refinement needs the second port of a moving station: the
abstract table lets a station leave its ports only if it has been heard on two.

**`UbrDevice_proofs`**: the life of module and bridges.

* `DeviceTypeCorrect`, `CallbacksOutlived`, `SlavesAreWatched`, `UnloadIsClean`,
  `LifeCrashesHaveCauses`: `TypeOK`, `PendingIsSafe`, `PortsWatched`,
  `UnloadLeavesNothing`, `LifeCrashCauses`.

`DeviceInv` follows the order in which things are set up and torn down.  What is
registered follows from how far loading has come (`LoadInv`), which bridges there can be
follows from that (`BridgesInv`), and which slaves, callbacks and ageing works follows
from the states of their bridges (`SlavesInv`, `PendInv`, `WorkInv`) and from where the
command that holds the RTNL is (`RtnlInv`).  `HandlerInv` says what a handler's
references keep alive.  Each property is then a reading of these chains: unloading
leaves nothing because without registrations there are no bridges, and without
bridges no callbacks, unless one of the two causes (`orphan`, `late`) broke a link.

**`UbrCli_proofs`** and **`UbrRequests_proofs`**: the tool, for any words and command
lines, any interfaces and any number of changes by others.  Of `CliAssumption` only one
part is about the words: that what begins with "ad" abbreviates no command but `add`.

* `TypeCorrect`: `TypeOK`, so every VID and PVID that is sent fits its attribute.
* `SuccessIsComplete`, `FailureIsBounded`, `AttachHasMaster`: `ExitZeroMeansDone`,
  `FailureIsExplained`, `AttachNamesBridge`.
* `RequestsAreAsTyped`, `NullHasCause`: `AsTyped`, `NullNeedsCause`.

The first invariant, `Inv`, has three parts.  `Found`: without `-h` and without the
bridge the tool gets no further than help and `add`, so an index of a port is only
looked up when the index of the bridge is not 0.  `Asking`: only `port attach` sends a
master other than 0, and both its requests name the same port and bridge.
`CarriedOut`: until the tool ends nothing has been carried out and nothing lost, but for
the first request of an attach that goes on with settings.  `InvQuiet` disposes of the other
administrators, who change none of this.

The second, `RequestsInv`, is relative to it.  `Read` says where in the command line
the tool is once it has read a VID or a port, so that the words of a request are found
again at their places; `Requesting` says that a request it has built but not sent is
already what was typed, and which bridge the stubs are asked for.

## What is only model-checked

* Liveness: `SilentIsForgotten`, `DellinkCompletes`, `DevicesAreFreed` and `UnloadEnds`.
  They rest on fairness, and so on `ENABLED`, which the prover does not handle.
* The four counterexamples, which TLC finds and which need no proof.
* That the mutants break the properties.

## What is not modelled

* `fdb flush` and `vlan set`, which print a message and change nothing, are modelled
  only as requests that need a bridge; the control, STP and FDB ingress stages allow
  everything.
* `ubr-stp.c`, which `Kbuild` does not build, the prototype tool in `src/src/v1`,
  which its `Makefile` does not build, and `strlcat`, which is a copy of OpenBSD's.
* Help texts, the order of attributes in messages, and the value of the `learning`
  option, which the kernel only prints.
* Memberships that a released slot leaves behind for the next port are in `UbrBridge`,
  but no text of the repository promises anything else, so no property names them.
* Hash collisions, resizing of the FDB, store reordering, headroom and features of
  devices, and the contents of frames other than VLAN tag and addresses.

## Plan

Done: `UbrBridge`, `UbrForward` on top of it, `UbrFdb`, their abstract specifications
`UbrSwitch` and `StationTable` with the refinements, `UbrDevice`, `UbrCli`, and proofs of
all their safety properties.  What is left:

1. Theorems about the abstract specifications themselves, which carry over along the
   refinements: `OnlyHeardPorts` of `StationTable`, and of `UbrSwitch` that a frame is
   sent at most once to each slot and never to its own.
2. Step properties: a station's ports shrink only in a move or when it is forgotten, the
   reference that a handler takes is returned by the step that ends it, and an index the
   tool has looked up does not change until it ends.
3. What `UbrDevice` leaves to `UbrBridge` and `UbrFdb` (slots and nodes at `dellink`),
   stated as one theorem about the three.
