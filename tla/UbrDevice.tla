----------------------------- MODULE UbrDevice -----------------------------
(* The life of the kernel module and of its bridges: loading and unloading, *)
(* creating and deleting bridges with their error paths, and who holds what *)
(* memory alive meanwhile.  RCU callbacks, the ageing work, enslaved        *)
(* devices and generic netlink handlers all point into a bridge, and all of *)
(* them run code of the module.                                             *)
(*                                                                          *)
(* What a command does to slots, VLANs and stations is UbrBridge's and      *)
(* UbrFdb's; here it only takes references and queues callbacks.  The       *)
(* kernel's part is modelled as far as the module relies on it: the RTNL,   *)
(* netdev_run_todo with its rcu_barrier and its wait for references,        *)
(* rtnl_link_unregister, which first waits until no device is being freed,  *)
(* and genl_unregister_family, which waits for handlers.                    *)
EXTENDS Naturals

CONSTANTS Bridges,  \* memory for net devices of kind ubr
          Devs,     \* other net devices
          Named,    \* the net devices that generic netlink requests name
          Null

ASSUME DeviceAssumption ==
    /\ Bridges \cap Devs = {}
    /\ Named \subseteq Bridges \cup Devs
    /\ Null \notin Bridges \cup Devs

VARIABLES
    mod,     \* how far the module is loaded or unloaded
    has,     \* what it has registered
    bridge,  \* bridge -> "none", "setup" (newlink), "up", "dying", "drained"
    work,    \* bridges whose ageing work is queued
    pend,    \* bridge -> the kinds of RCU callback it has pending
    dev,     \* device -> its life, and the bridge it is enslaved to
    rtnl,    \* the command holding the RTNL
    genl,    \* the generic netlink handler, and the references it holds
    leaked,  \* net devices with a reference that nobody will return
    orphan,  \* ghost: the family could not be registered
    late,    \* ghost: a handler used a bridge after it was unregistered
    fault    \* ghost: the first undefined behaviour, or "none"

vars == <<mod, has, bridge, work, pend, dev, rtnl, genl, leaked, orphan, late, fault>>

Registrations == {"cache", "notifier", "linkops", "family", "devops"}
ModState == {"absent", "i_cache", "i_notifier", "i_linkops", "i_family", "i_devops",
             "u_notifier", "u_cache", "live",
             "x_family", "x_linkops", "x_todo", "x_notifier", "x_cache"}
Loaded == mod # "absent"

DevState == [life : {"present", "dying", "gone"}, master : Bridges \cup {Null}]
RtnlState == [op : {"idle", "newlink", "dellink", "kill"},
              pc : {"idle", "vlan", "fdb", "register", "undo_fdb", "free",
                    "next", "ports", "table", "unregister"},
              br : Bridges \cup {Null}]
GenlState == [op : {"idle", "vlan", "member", "set", "stub"},
              pc : {"idle", "port", "put", "find", "use", "retire"},
              br : Bridges \cup {Null}, port : Bridges \cup Devs \cup {Null},
              holds : SUBSET (Bridges \cup Devs),
              dangling : BOOLEAN]   \* the memory of br has been freed since

RtnlIdle == [op |-> "idle", pc |-> "idle", br |-> Null]
GenlIdle == [op |-> "idle", pc |-> "idle", br |-> Null, port |-> Null,
             holds |-> {}, dangling |-> FALSE]

Ok == fault = "none"
Faulted(kind) ==
    /\ fault' = kind
    /\ UNCHANGED <<mod, has, bridge, work, pend, dev, rtnl, genl, leaked, orphan, late>>

\* What a step of the module's own life leaves alone, and what others leave alone.
others == <<bridge, work, rtnl, genl, leaked, late, fault>>

-----------------------------------------------------------------------------
(* Loading: ubr_module_init, ubr_netlink_init                               *)

ModAt(pc) == Ok /\ mod = pc

\* A registration that succeeds, or fails and goes to the given label.
Register(pc, what, next, label) ==
    /\ ModAt(pc)
    /\ \/ mod' = next /\ has' = has \cup {what}
       \/ mod' = label /\ UNCHANGED has
    /\ UNCHANGED <<pend, dev, orphan, others>>

\* A second load while link operations are left over is not followed further.
Insmod == /\ ModAt("absent")
          /\ has = {}
          /\ mod' = "i_cache"
          /\ UNCHANGED <<has, pend, dev, orphan, others>>

InitCache == Register("i_cache", "cache", "i_notifier", "absent")
InitNotifier == rtnl = RtnlIdle /\ Register("i_notifier", "notifier", "i_linkops", "u_cache")

\* Mutant: the failure of rtnl_link_register goes to err_cache_fini.
InitLinkOpsKeepsNotifier ==
    rtnl = RtnlIdle /\ Register("i_linkops", "linkops", "i_family", "u_cache")

InitLinkOps == rtnl = RtnlIdle /\ Register("i_linkops", "linkops", "i_family", "u_notifier")

\* From here on bridges may be created.  When the family cannot be registered
\* the link operations stay.
InitFamily ==
    /\ ModAt("i_family")
    /\ \/ /\ mod' = "i_devops"
          /\ has' = has \cup {"family"}
          /\ UNCHANGED orphan
       \/ /\ mod' = "u_notifier"
          /\ orphan' = TRUE
          /\ UNCHANGED has
    /\ UNCHANGED <<pend, dev, others>>

\* Until here handlers find no bridge.
InitDevops ==
    /\ ModAt("i_devops")
    /\ mod' = "live"
    /\ has' = has \cup {"devops"}
    /\ UNCHANGED <<pend, dev, orphan, others>>

Slaves(b) == {d \in Devs : dev[d].master = b}
Release(D) == [d \in Devs |-> IF d \in D THEN [dev[d] EXCEPT !.master = Null] ELSE dev[d]]

\* unregister_netdevice_notifier replays NETDEV_UNREGISTER for every device to
\* the notifier that leaves, so ubr_device_event releases all ports.
UnregisterNotifier(pc, next) ==
    /\ ModAt(pc)
    /\ rtnl = RtnlIdle
    /\ mod' = next
    /\ has' = has \ {"notifier"}
    /\ dev' = Release(Devs)
    /\ pend' = [b \in Bridges |-> IF Slaves(b) = {} THEN pend[b] ELSE pend[b] \cup {"port"}]
    /\ UNCHANGED <<orphan, others>>

CacheFini(pc) ==
    /\ ModAt(pc)
    /\ mod' = "absent"
    /\ has' = has \ {"cache", "devops"}   \* devops goes with the module's memory
    /\ UNCHANGED <<pend, dev, orphan, others>>

InitUndo == UnregisterNotifier("u_notifier", "u_cache") \/ CacheFini("u_cache")

-----------------------------------------------------------------------------
(* Unloading: ubr_module_cleanup                                            *)

ExitStart == /\ ModAt("live")
             /\ mod' = "x_family"
             /\ UNCHANGED <<has, pend, dev, orphan, others>>

\* Mutant: ubr_fdb_cache_fini comes first in ubr_module_cleanup.
ExitCacheFirst ==
    /\ ModAt("x_family")
    /\ genl = GenlIdle
    /\ mod' = "x_linkops"
    /\ has' = has \ {"family", "cache"}
    /\ UNCHANGED <<pend, dev, orphan, others>>

\* Mutant: the notifier is unregistered before the link operations.
ExitNotifierFirst ==
    /\ ModAt("x_family")
    /\ genl = GenlIdle /\ rtnl = RtnlIdle
    /\ mod' = "x_linkops"
    /\ has' = has \ {"family", "notifier"}
    /\ dev' = Release(Devs)
    /\ pend' = [b \in Bridges |-> IF Slaves(b) = {} THEN pend[b] ELSE pend[b] \cup {"port"}]
    /\ UNCHANGED <<orphan, others>>

\* genl_unregister_family waits for the handler that is running.
ExitFamily ==
    /\ ModAt("x_family")
    /\ genl = GenlIdle
    /\ mod' = "x_linkops"
    /\ has' = has \ {"family"}
    /\ UNCHANGED <<pend, dev, orphan, others>>

\* rtnl_link_unregister takes the RTNL at a time when no device is being freed.
ExitKill ==
    /\ ModAt("x_linkops")
    /\ rtnl = RtnlIdle
    /\ \A b \in Bridges : bridge[b] \notin {"dying", "drained"}
    /\ \A d \in Devs : dev[d].life # "dying"
    /\ rtnl' = [op |-> "kill", pc |-> "next", br |-> Null]
    /\ UNCHANGED <<mod, has, bridge, work, pend, dev, genl, leaked, orphan, late, fault>>

\* It deletes every bridge, and its rtnl_unlock then waits until they are freed.
KillNext ==
    /\ Ok
    /\ rtnl.op = "kill" /\ rtnl.pc = "next"
    /\ \/ \E b \in Bridges :
            /\ bridge[b] = "up"
            /\ rtnl' = [rtnl EXCEPT !.pc = "ports", !.br = b]
            /\ UNCHANGED <<mod, has>>
       \/ /\ \A b \in Bridges : bridge[b] # "up"
          /\ rtnl' = RtnlIdle
          /\ has' = has \ {"linkops"}
          /\ mod' = "x_todo"
    /\ UNCHANGED <<bridge, work, pend, dev, genl, leaked, orphan, late, fault>>

ExitTodo ==
    /\ ModAt("x_todo")
    /\ \A b \in Bridges : bridge[b] \notin {"dying", "drained"}
    /\ mod' = "x_notifier"
    /\ UNCHANGED <<has, pend, dev, orphan, others>>

ExitRest == UnregisterNotifier("x_notifier", "x_cache") \/ CacheFini("x_cache")

-----------------------------------------------------------------------------
(* Bridges: ubr_dev_newlink and ubr_dev_dellink, under the RTNL             *)

RtnlAt(pc) == Ok /\ rtnl.pc = pc
RtnlTo(pc) == rtnl' = [rtnl EXCEPT !.pc = pc]
fixed == <<mod, has, dev, genl, leaked, orphan, late, fault>>

\* The kernel has allocated a net device and calls newlink, which is gone if
\* the link operations outlived the module.
Newlink(b) ==
    /\ RtnlAt("idle")
    /\ "linkops" \in has
    /\ bridge[b] = "none"
    /\ \/ /\ Loaded
          /\ rtnl' = [op |-> "newlink", pc |-> "vlan", br |-> b]
          /\ bridge' = [bridge EXCEPT ![b] = "setup"]
          /\ UNCHANGED <<work, pend, fixed>>
       \/ /\ ~Loaded
          /\ Faulted("freed")

\* ubr_vlan_newlink.
NewlinkVlan ==
    /\ RtnlAt("vlan")
    /\ RtnlTo("fdb") \/ RtnlTo("free")
    /\ UNCHANGED <<bridge, work, pend, fixed>>

\* ubr_fdb_newlink queues the ageing work; err_vlan_dellink undoes nothing.
NewlinkFdb ==
    /\ RtnlAt("fdb")
    /\ \/ RtnlTo("register") /\ work' = work \cup {rtnl.br}
       \/ RtnlTo("free") /\ UNCHANGED work
    /\ UNCHANGED <<bridge, pend, fixed>>

\* Mutant: the failure of register_netdevice goes to err_vlan_dellink.
NewlinkRegisterKeepsFdb ==
    /\ RtnlAt("register")
    /\ \/ /\ bridge' = [bridge EXCEPT ![rtnl.br] = "up"]
          /\ rtnl' = RtnlIdle
       \/ RtnlTo("free") /\ UNCHANGED bridge
    /\ UNCHANGED <<work, pend, fixed>>

NewlinkRegister ==
    /\ RtnlAt("register")
    /\ \/ /\ bridge' = [bridge EXCEPT ![rtnl.br] = "up"]
          /\ rtnl' = RtnlIdle
       \/ RtnlTo("undo_fdb") /\ UNCHANGED bridge
    /\ UNCHANGED <<work, pend, fixed>>

\* err_fdb_dellink: no frame has passed, so the table is empty.
NewlinkUndoFdb ==
    /\ RtnlAt("undo_fdb")
    /\ work' = work \ {rtnl.br}
    /\ RtnlTo("free")
    /\ UNCHANGED <<bridge, pend, fixed>>

\* The kernel frees a device that was never registered at once.
NewlinkFree ==
    /\ RtnlAt("free")
    /\ bridge' = [bridge EXCEPT ![rtnl.br] = "none"]
    /\ rtnl' = RtnlIdle
    /\ UNCHANGED <<work, pend, fixed>>

Dellink(b) ==
    /\ RtnlAt("idle")
    /\ bridge[b] = "up"
    /\ \/ /\ Loaded
          /\ rtnl' = [op |-> "dellink", pc |-> "ports", br |-> b]
          /\ UNCHANGED <<bridge, work, pend, fixed>>
       \/ /\ ~Loaded
          /\ Faulted("freed")

DellinkPorts ==
    /\ RtnlAt("ports")
    /\ LET b == rtnl.br
       IN  /\ dev' = Release(Slaves(b))
           /\ pend' = IF Slaves(b) = {} THEN pend ELSE [pend EXCEPT ![b] = @ \cup {"port"}]
    /\ RtnlTo("table")
    /\ UNCHANGED <<mod, has, bridge, work, genl, leaked, orphan, late, fault>>

\* ubr_fdb_dellink; the table may have been empty.
DellinkTable ==
    /\ RtnlAt("table")
    /\ work' = work \ {rtnl.br}
    /\ \/ pend' = [pend EXCEPT ![rtnl.br] = @ \cup {"node"}]
       \/ UNCHANGED pend
    /\ RtnlTo("unregister")
    /\ UNCHANGED <<bridge, fixed>>

\* Mutant: ubr_dev_dellink does not unregister the bridge.
DellinkForgetsUnregister ==
    /\ RtnlAt("unregister")
    /\ rtnl' = IF rtnl.op = "kill" THEN [rtnl EXCEPT !.pc = "next", !.br = Null] ELSE RtnlIdle
    /\ UNCHANGED <<bridge, work, pend, fixed>>

DellinkUnregister ==
    /\ RtnlAt("unregister")
    /\ bridge' = [bridge EXCEPT ![rtnl.br] = "dying"]
    /\ rtnl' = IF rtnl.op = "kill" THEN [rtnl EXCEPT !.pc = "next", !.br = Null] ELSE RtnlIdle
    /\ UNCHANGED <<work, pend, fixed>>

\* netdev_run_todo: an rcu_barrier, then the wait for references.
BridgeBarrier(b) ==
    /\ Ok
    /\ bridge[b] = "dying"
    /\ pend[b] = {}
    /\ bridge' = [bridge EXCEPT ![b] = "drained"]
    /\ UNCHANGED <<work, pend, rtnl, fixed>>

Referenced(o) == o \in genl.holds \cup leaked

BridgeFree(b) ==
    /\ Ok
    /\ bridge[b] = "drained"
    /\ ~Referenced(b)
    /\ bridge' = [bridge EXCEPT ![b] = "none"]
    /\ genl' = IF genl.br = b THEN [genl EXCEPT !.dangling = TRUE] ELSE genl
    /\ UNCHANGED <<mod, has, work, pend, dev, rtnl, leaked, orphan, late, fault>>

-----------------------------------------------------------------------------
(* Enslaved devices                                                         *)

Enslave(b, d) ==
    /\ RtnlAt("idle")
    /\ bridge[b] = "up"
    /\ dev[d] = [life |-> "present", master |-> Null]
    /\ \/ /\ Loaded
          /\ dev' = [dev EXCEPT ![d].master = b]
          /\ UNCHANGED <<mod, has, bridge, work, pend, rtnl, genl, leaked, orphan, late, fault>>
       \/ /\ ~Loaded
          /\ Faulted("freed")

\* Mutant: ubr_device_event does not handle NETDEV_UNREGISTER.
UnregisterDevIgnored(d) ==
    /\ RtnlAt("idle")
    /\ dev[d].life = "present"
    /\ dev' = [dev EXCEPT ![d].life = "dying"]
    /\ UNCHANGED <<mod, has, bridge, work, pend, rtnl, genl, leaked, orphan, late, fault>>

\* The kernel unregisters d and calls the notifier chain.
UnregisterDev(d) ==
    /\ RtnlAt("idle")
    /\ dev[d].life = "present"
    /\ LET b == dev[d].master
           told == b # Null /\ "notifier" \in has
       IN  /\ dev' = [dev EXCEPT ![d] = [life |-> "dying", master |-> IF told THEN Null ELSE b]]
           /\ pend' = IF told THEN [pend EXCEPT ![b] = @ \cup {"port"}] ELSE pend
    /\ UNCHANGED <<mod, has, bridge, work, rtnl, genl, leaked, orphan, late, fault>>

\* Its memory goes when nobody refers to it, the bridge included.
DevFree(d) ==
    /\ Ok
    /\ dev[d] = [life |-> "dying", master |-> Null]
    /\ ~Referenced(d)
    /\ dev' = [dev EXCEPT ![d].life = "gone"]
    /\ UNCHANGED <<mod, has, bridge, work, pend, rtnl, genl, leaked, orphan, late, fault>>

-----------------------------------------------------------------------------
(* What runs on its own                                                     *)

\* What the ageing work and the callbacks use, beside what they carry.
WorkNeeds(b) == Loaded /\ bridge[b] \in {"setup", "up"}
CallbackNeeds(b, kind) ==
    /\ Loaded
    /\ kind = "port" => bridge[b] # "none"
    /\ kind = "node" => "cache" \in has

\* ubr_fdb_age: it queues itself again and may retire a node, if the bridge has
\* had frames.
AgeWork(b) ==
    /\ Ok
    /\ b \in work
    /\ \/ /\ WorkNeeds(b)
          /\ pend' = IF bridge[b] = "up" THEN [pend EXCEPT ![b] = @ \cup {"node"}] ELSE pend
          /\ UNCHANGED <<bridge, work, rtnl, fixed>>
       \/ ~WorkNeeds(b) /\ Faulted("freed")

\* __ubr_port_cleanup, ubr_fdb_node_delete_rcu, ubr_vlan_del_rcu.
Callback(b, kind) ==
    /\ Ok
    /\ kind \in pend[b]
    /\ \/ /\ CallbackNeeds(b, kind)
          /\ pend' = [pend EXCEPT ![b] = @ \ {kind}]
          /\ UNCHANGED <<bridge, work, rtnl, fixed>>
       \/ ~CallbackNeeds(b, kind) /\ Faulted("freed")

-----------------------------------------------------------------------------
(* Generic netlink handlers, and the references they take                   *)

GenlFree == Ok /\ "family" \in has /\ genl = GenlIdle
GenlAt(pc) == Ok /\ genl.pc = pc
GenlTo(pc) == genl' = [genl EXCEPT !.pc = pc]
quiet == <<mod, has, bridge, work, dev, rtnl, orphan>>

\* ubr_netlink_dev takes a reference to the bridge it finds.
NetlinkDev(b) == bridge[b] = "up" /\ "devops" \in has
Listed(o) == IF o \in Bridges THEN bridge[o] = "up" ELSE dev[o].life = "present"

\* vlan add, vlan del, attach, detach: nothing happens if the bridge is not
\* found, and the reference is held until "put".
Find(op, pc, b, o) ==
    /\ GenlFree
    /\ NetlinkDev(b)
    /\ genl' = [GenlIdle EXCEPT !.op = op, !.pc = pc, !.br = b, !.port = o, !.holds = {b}]
    /\ UNCHANGED <<pend, leaked, late, fault, quiet>>

VlanCmd(b) == Find("vlan", "put", b, Null)
MemberCmd(b, o) == Find("member", "port", b, o)

\* Mutant: the result of dev_get_by_index is not checked.
MemberPortUnchecked ==
    /\ GenlAt("port")
    /\ genl' = [genl EXCEPT !.pc = "put", !.holds = @ \cup {genl.port}]
    /\ UNCHANGED <<pend, leaked, late, fault, quiet>>

\* __get_bridge_vlan_port takes a reference to the port as well ...
MemberPort ==
    /\ GenlAt("port")
    /\ \/ /\ Listed(genl.port)
          /\ genl' = [genl EXCEPT !.pc = "put", !.holds = @ \cup {genl.port}]
       \/ /\ ~Listed(genl.port)
          /\ genl' = GenlIdle
    /\ UNCHANGED <<pend, leaked, late, fault, quiet>>

\* ... and drops the one to the bridge, like the other handlers, before the
\* bridge is used.  A port set that finds no port ends here.
Put ==
    /\ GenlAt("put")
    /\ LET dropped == [genl EXCEPT !.holds = @ \ {genl.br}]
       IN  \/ genl.op = "vlan" /\ genl' = [dropped EXCEPT !.pc = "use"]
           \/ genl.op = "member" /\ genl' = [dropped EXCEPT !.pc = "find"]
           \/ genl.op = "set" /\ genl' \in {[dropped EXCEPT !.pc = "use"], GenlIdle}
           \/ genl.op = "stub" /\ genl' = GenlIdle
    /\ UNCHANGED <<pend, leaked, late, fault, quiet>>

\* ubr_port_find reads the bridge; then the port is dropped.  The stores that
\* follow go to the VLAN's memory, which outlives the bridge.
MemberFind ==
    /\ GenlAt("find")
    /\ \/ /\ ~genl.dangling
          /\ genl' = GenlIdle
          /\ UNCHANGED <<pend, leaked, late, fault, quiet>>
       \/ genl.dangling /\ Faulted("uaf")

\* vlan add, vlan del and port set read or write the bridge.
Use ==
    /\ GenlAt("use")
    /\ \/ /\ ~genl.dangling
          /\ \/ genl.op = "vlan" /\ GenlTo("retire")
             \/ genl' = GenlIdle
          /\ UNCHANGED <<pend, leaked, late, fault, quiet>>
       \/ genl.dangling /\ Faulted("uaf")

\* ubr_vlan_del queues a callback, whatever has become of the bridge.
Retire ==
    /\ GenlAt("retire")
    /\ pend' = [pend EXCEPT ![genl.br] = @ \cup {"vlan"}]
    /\ late' = (late \/ bridge[genl.br] # "up")
    /\ genl' = GenlIdle
    /\ UNCHANGED <<leaked, fault, quiet>>

\* port set takes a reference to the port first and never returns it, also
\* when it then finds no bridge.
SetCmd(b, o) ==
    /\ GenlFree
    /\ Listed(o) \/ NetlinkDev(b)
    /\ leaked' = IF Listed(o) THEN leaked \cup {o} ELSE leaked
    /\ genl' = IF NetlinkDev(b)
                 THEN [GenlIdle EXCEPT !.op = "set", !.pc = "put", !.br = b, !.holds = {b}]
                 ELSE GenlIdle
    /\ UNCHANGED <<pend, late, fault, quiet>>

\* fdb flush and vlan set do not ask whether there is a bridge.
StubCmd(b) ==
    \/ Find("stub", "put", b, Null)
    \/ /\ GenlFree
       /\ ~NetlinkDev(b)
       /\ Faulted("null")

-----------------------------------------------------------------------------
Init ==
    /\ mod = "absent"
    /\ has = {}
    /\ bridge = [b \in Bridges |-> "none"]
    /\ work = {}
    /\ pend = [b \in Bridges |-> {}]
    /\ dev = [d \in Devs |-> [life |-> "present", master |-> Null]]
    /\ rtnl = RtnlIdle
    /\ genl = GenlIdle
    /\ leaked = {}
    /\ orphan = FALSE
    /\ late = FALSE
    /\ fault = "none"

InitStep == InitCache \/ InitNotifier \/ InitLinkOps \/ InitFamily \/ InitDevops \/ InitUndo
ExitStep == ExitFamily \/ ExitKill \/ ExitTodo \/ ExitRest

\* What a thread that holds the RTNL goes on to do.
RtnlStep ==
    \/ NewlinkVlan \/ NewlinkFdb \/ NewlinkRegister \/ NewlinkUndoFdb \/ NewlinkFree
    \/ DellinkPorts \/ DellinkTable \/ DellinkUnregister \/ KillNext

HandlerStep == MemberPort \/ Put \/ MemberFind \/ Use \/ Retire

Callbacks(b) == \E kind \in {"port", "node", "vlan"} : Callback(b, kind)
TodoStep(b) == BridgeBarrier(b) \/ BridgeFree(b)

Next ==
    \/ Insmod \/ InitStep \/ ExitStart \/ ExitStep
    \/ RtnlStep \/ HandlerStep
    \/ \E b \in Bridges :
          \/ Newlink(b) \/ Dellink(b) \/ TodoStep(b) \/ AgeWork(b) \/ Callbacks(b)
          \/ \E d \in Devs : Enslave(b, d)
    \/ \E b \in Named \cap Bridges :
          \/ VlanCmd(b) \/ StubCmd(b)
          \/ \E o \in Named : MemberCmd(b, o) \/ SetCmd(b, o)
    \/ \E d \in Devs : UnregisterDev(d) \/ DevFree(d)

Spec == Init /\ [][Next]_vars

\* A thread that runs goes on, callbacks are run, and a thread that waits in
\* netdev_run_todo is woken.  Nobody need load, unload, or send any command.
Fairness ==
    /\ WF_vars(ExitStep) /\ WF_vars(RtnlStep) /\ WF_vars(HandlerStep)
    /\ \A b \in Bridges : WF_vars(Callbacks(b)) /\ WF_vars(TodoStep(b))
    /\ \A d \in Devs : WF_vars(DevFree(d))
FairSpec == Spec /\ Fairness

-----------------------------------------------------------------------------
(* Properties                                                               *)

\* Every variable stays in its type, and a handler refers only to net devices
\* that have not been freed.
TypeOK ==
    /\ mod \in ModState
    /\ has \subseteq Registrations
    /\ bridge \in [Bridges -> {"none", "setup", "up", "dying", "drained"}]
    /\ work \subseteq Bridges
    /\ pend \in [Bridges -> SUBSET {"port", "node", "vlan"}]
    /\ dev \in [Devs -> DevState]
    /\ rtnl \in RtnlState
    /\ genl \in GenlState
    /\ \A o \in genl.holds : IF o \in Bridges THEN bridge[o] # "none" ELSE dev[o].life # "gone"
    /\ leaked \subseteq Bridges \cup Devs
    /\ orphan \in BOOLEAN
    /\ late \in BOOLEAN
    /\ fault \in {"none", "freed", "uaf", "null"}

\* What callbacks and the ageing work need is there as long as they are pending:
\* the module's code, the bridge for its slots and its table, and the node cache
\* for its nodes.  The module itself never waits for callbacks: it relies on the
\* rcu_barrier of each bridge's unregistration.  Two things break this: a failed
\* registration of the family, and a handler that retires a VLAN of a bridge it
\* no longer holds.
PendingIsSafe ==
    \/ orphan \/ late
    \/ \A b \in Bridges : /\ \A kind \in pend[b] : CallbackNeeds(b, kind)
                          /\ b \in work => WorkNeeds(b)

\* A device that is enslaved to a bridge is enslaved to one that is registered,
\* and the module hears of its unregistration, at every moment of loading and
\* unloading; so no device is freed with a port that points to it.  Bridges that
\* were created before the family failed to register are on their own.
PortsWatched ==
    ~orphan => \A d \in Devs : dev[d].master # Null =>
        /\ bridge[dev[d].master] = "up"
        /\ "notifier" \in has
        /\ dev[d].life = "present"

\* Once the module is unloaded, or has failed to load, nothing of it is left:
\* no registration, no bridge, no callback, no work, no handler, no slave.
UnloadLeavesNothing ==
    mod = "absent" /\ ~orphan /\ ~late =>
        /\ has = {}
        /\ work = {}
        /\ genl = GenlIdle
        /\ \A b \in Bridges : bridge[b] = "none" /\ pend[b] = {}
        /\ \A d \in Devs : dev[d].master = Null

\* The module crashes the kernel in three ways only: it has failed to register
\* its family, a stub was given no bridge, or a handler went on with a bridge
\* after it had returned its reference.
LifeCrashCauses ==
    /\ fault = "freed" => orphan \/ late
    /\ fault = "uaf" => genl.dangling

\* A net device that has been unregistered is freed in the end: handlers return
\* their references on every path, callbacks do not outlast the barrier, and
\* ports are released.  Only a port set that named the device prevents it.
DevicesAreFreed ==
    /\ \A b \in Bridges : bridge[b] = "dying" ~> (bridge[b] = "none" \/ b \in leaked \/ fault # "none")
    /\ \A d \in Devs : dev[d].life = "dying"
            ~> (dev[d].life = "gone" \/ d \in leaked \/ orphan \/ fault # "none")

\* An unloading that has come to delete the bridges ends.
UnloadEnds ==
    rtnl.op = "kill" ~> (mod = "absent" \/ leaked # {} \/ fault # "none")
=============================================================================
