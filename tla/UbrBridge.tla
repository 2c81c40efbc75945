----------------------------- MODULE UbrBridge -----------------------------
(* The control plane of one ubr bridge: its port slots, its VLANs, the      *)
(* enslaved net devices, and the commands that change them.                 *)
(*                                                                          *)
(* Two command threads run at the same time.  Netdevice commands (enslave,  *)
(* release, unregister, delete the bridge) hold the RTNL; generic netlink   *)
(* commands (vlan add/del/attach/detach, port set) hold only the genl       *)
(* mutex.  Each command is a sequence of steps, one per store another       *)
(* thread can tell apart, so the two threads interleave as they do in the   *)
(* kernel.  A third party runs the RCU callbacks.                           *)
(*                                                                          *)
(* Init is the state ubr_dev_newlink leaves.  The first undefined behaviour *)
(* of the code is recorded in `fault` and ends the behaviour.               *)
EXTENDS Integers

CONSTANTS Devs,      \* net devices that may be enslaved
          Bridge,    \* the bridge's own net device, which sits in slot 0
          Null,
          MaxPorts,  \* UBR_MAX_PORTS
          Vids,      \* VIDs the administrator uses; the tool sends 1..4095
          Managed    \* the devices it names in port and VLAN commands

ASSUME ConstantsAssumption ==
    /\ MaxPorts \in Nat \ {0}
    /\ Vids \subseteq 1..4095
    /\ Bridge \notin Devs
    /\ Managed \subseteq Devs \cup {Bridge}
    /\ Null \notin Devs \cup {Bridge} \cup Int

PIdx == 0..(MaxPorts - 1)
AllVids == Vids \cup {0}

VARIABLES
    link,     \* "up" from register_netdevice to the end of dellink, then "gone"
    port,     \* ubr->ports: slot -> struct ubr_port, its ingress_cb flattened
    busy,     \* ubr->busy
    vlan,     \* VID -> struct ubr_vlan; at most one object per VID ever exists,
              \* because a VLAN is never taken out of ubr->vlans
    dev,      \* device -> what the kernel records of its enslavement
    rtnl,     \* the command holding the RTNL, and its progress
    genl,     \* the command holding the genl mutex, and its progress
    cleanup,  \* slots with a pending __ubr_port_cleanup callback
    tainted,  \* ghost: slots written by two owners without serialisation
    fault     \* ghost: the first undefined behaviour, or "none"

vars == <<link, port, busy, vlan, dev, rtnl, genl, cleanup, tainted, fault>>

-----------------------------------------------------------------------------
(* Types                                                                    *)

PortState == [dev : Devs \cup {Bridge, Null}, pidx : PIdx,
              filtering : BOOLEAN, learning : BOOLEAN,
              vlan : AllVids \cup {Null}, vec : SUBSET PIdx, pvid : AllVids]

\* "none": never created; "live"; "dying": deleted, kfree pending; "freed".
\* Every VLAN but those in state "none" is in the ubr->vlans hash.
VlanState == [mem : {"none", "live", "dying", "freed"},
              members : SUBSET PIdx, tagged : SUBSET PIdx]

DevState == [master : BOOLEAN, promisc : Nat, allmulti : Nat,
             rx : PIdx \cup {Null}, flag : BOOLEAN]

RtnlState == [op : {"idle", "add", "del", "dellink"},
              pc : {"idle", "publish", "link", "promisc", "allmulti", "rx",
                    "undo_allmulti", "undo_promisc", "undo_link", "uninit",
                    "rx_off", "sync", "release", "cleanup", "next"},
              dev : Devs \cup {Null}, pidx : PIdx]

GenlState == [op : {"idle", "vlan_add", "vlan_del", "attach", "detach", "port_set"},
              pc : {"idle", "new", "update", "set", "find", "unlink", "clear", "free",
                    "tag", "member", "unmember", "untag",
                    "pvid", "vlan", "filter", "word"},
              vid : AllVids, pidx : PIdx, tagged : BOOLEAN,
              word : [pidx : PIdx, learning : BOOLEAN]]

Zeroed == [dev |-> Null, pidx |-> 0, filtering |-> FALSE, learning |-> FALSE,
           vlan |-> Null, vec |-> {}, pvid |-> 0]
NoVlan == [mem |-> "none", members |-> {}, tagged |-> {}]
Released == [master |-> FALSE, promisc |-> 0, allmulti |-> 0,
             rx |-> Null, flag |-> FALSE]
RtnlIdle == [op |-> "idle", pc |-> "idle", dev |-> Null, pidx |-> 0]
Command(op, pc, v, p, tagged) ==
    [op |-> op, pc |-> pc, vid |-> v, pidx |-> p, tagged |-> tagged,
     word |-> [pidx |-> 0, learning |-> FALSE]]
GenlIdle == Command("idle", "idle", 0, 0, FALSE)

-----------------------------------------------------------------------------
(* Helpers                                                                  *)

\* The first undefined behaviour: a NULL dereference, a use after free, a
\* broken list of RCU callbacks, or a bridge computed from the wrong slot.
\* Nothing after it is meaningful.
Faulted(kind) == /\ fault' = kind
                 /\ UNCHANGED <<link, port, busy, vlan, dev, rtnl, genl, cleanup, tainted>>

\* ubr_vlan_find on a hash that still holds deleted VLANs.
VlanFind(v) == IF vlan[v].mem = "none" THEN Null ELSE v

\* ubr_port_find: the busy slots whose port has this device.
PortFind(d) == {p \in busy : port[p].dev = d}

Least(S) == CHOOSE p \in S : \A q \in S : p <= q

\* A port set command has chosen slot p and has stores to p left to do, or
\* __update_port_vlan has tested slot p and has yet to store to it.
SetInFlight(p) == genl.op = "port_set" /\ genl.pidx = p
StoreInFlight(p) == SetInFlight(p) \/ (genl.pc \in {"set", "clear"} /\ genl.pidx = p)

\* Mutant: the port's own bit stays in its egress vector.
PortInitReflects(p, d) == [port[p] EXCEPT !.dev = d, !.pidx = p, !.learning = TRUE,
                                          !.vec = PIdx, !.vlan = VlanFind(0)]

\* The fields ubr_port_init stores: not pvid, not vlan_filtering.
PortInit(p, d) == [port[p] EXCEPT !.dev = d, !.pidx = p, !.learning = TRUE,
                                  !.vec = PIdx \ {p}, !.vlan = VlanFind(0)]

RtnlAt(op, pc) == /\ fault = "none"
                  /\ rtnl.op = op
                  /\ rtnl.pc = pc
RtnlTo(pc) == rtnl' = [rtnl EXCEPT !.pc = pc]

\* Every generic netlink handler has dropped its device reference before the
\* steps below, so those that read the bridge touch freed memory once it is gone.
GenlAt(pc) == /\ fault = "none"
              /\ genl.pc = pc
GenlTo(pc) == genl' = [genl EXCEPT !.pc = pc]
GenlFree == /\ fault = "none"
            /\ genl = GenlIdle
            /\ link = "up"
GenlUsesVlan == link = "up" /\ vlan[genl.vid].mem \in {"live", "dying"}

-----------------------------------------------------------------------------
(* Enslaving a device: ubr_port_add                                         *)

\* The checks, the search for a slot and ubr_port_init up to its barrier.
PortAdd(d) ==
    /\ RtnlAt("idle", "idle")
    /\ link = "up"
    /\ ~dev[d].master
    /\ PIdx \ busy # {}
    /\ LET p == Least(PIdx \ busy)
       IN  /\ port' = [port EXCEPT ![p] = PortInit(p, d)]
           /\ vlan' = [vlan EXCEPT ![0].members = @ \cup {p}]
           /\ rtnl' = [op |-> "add", pc |-> "publish", dev |-> d, pidx |-> p]
           /\ tainted' = IF p \in cleanup THEN tainted \cup {p} ELSE tainted
    /\ UNCHANGED <<link, busy, dev, genl, cleanup, fault>>

\* The busy bit is set, then ubr_update_headroom visits the device of every
\* busy port.
PortPublish ==
    /\ RtnlAt("add", "publish")
    /\ LET held == busy \cup {rtnl.pidx}
       IN  \/ /\ \A p \in held : port[p].dev # Null
              /\ busy' = held
              /\ RtnlTo("link")
              /\ UNCHANGED <<link, port, vlan, dev, genl, cleanup, tainted, fault>>
           \/ /\ \E p \in held : port[p].dev = Null
              /\ Faulted("null")

\* The acquisitions of ubr_port_add; each may fail and then undoes the
\* earlier ones.
PortLink ==
    /\ RtnlAt("add", "link")
    /\ \/ /\ dev' = [dev EXCEPT ![rtnl.dev].master = TRUE]
          /\ RtnlTo("promisc")
       \/ /\ RtnlTo("uninit")
          /\ UNCHANGED dev
    /\ UNCHANGED <<link, port, busy, vlan, genl, cleanup, tainted, fault>>

\* Mutant: a failing dev_set_promiscuity jumps one label too early.
PortPromiscUndoesItself ==
    /\ RtnlAt("add", "promisc")
    /\ \/ /\ dev' = [dev EXCEPT ![rtnl.dev].promisc = @ + 1]
          /\ RtnlTo("allmulti")
       \/ /\ RtnlTo("undo_promisc")
          /\ UNCHANGED dev
    /\ UNCHANGED <<link, port, busy, vlan, genl, cleanup, tainted, fault>>

PortPromisc ==
    /\ RtnlAt("add", "promisc")
    /\ \/ /\ dev' = [dev EXCEPT ![rtnl.dev].promisc = @ + 1]
          /\ RtnlTo("allmulti")
       \/ /\ RtnlTo("undo_link")
          /\ UNCHANGED dev
    /\ UNCHANGED <<link, port, busy, vlan, genl, cleanup, tainted, fault>>

\* Mutant: a failing dev_set_allmulti jumps one label too far.
PortAllmultiKeepsPromisc ==
    /\ RtnlAt("add", "allmulti")
    /\ \/ /\ dev' = [dev EXCEPT ![rtnl.dev].allmulti = @ + 1]
          /\ RtnlTo("rx")
       \/ /\ RtnlTo("undo_link")
          /\ UNCHANGED dev
    /\ UNCHANGED <<link, port, busy, vlan, genl, cleanup, tainted, fault>>

PortAllmulti ==
    /\ RtnlAt("add", "allmulti")
    /\ \/ /\ dev' = [dev EXCEPT ![rtnl.dev].allmulti = @ + 1]
          /\ RtnlTo("rx")
       \/ /\ RtnlTo("undo_promisc")
          /\ UNCHANGED dev
    /\ UNCHANGED <<link, port, busy, vlan, genl, cleanup, tainted, fault>>

PortRxRegister ==
    /\ RtnlAt("add", "rx")
    /\ \/ /\ dev' = [dev EXCEPT ![rtnl.dev].rx = rtnl.pidx, ![rtnl.dev].flag = TRUE]
          /\ rtnl' = RtnlIdle
       \/ /\ RtnlTo("undo_allmulti")
          /\ UNCHANGED dev
    /\ UNCHANGED <<link, port, busy, vlan, genl, cleanup, tainted, fault>>

UndoAllmulti ==
    /\ RtnlAt("add", "undo_allmulti")
    /\ dev' = [dev EXCEPT ![rtnl.dev].allmulti = @ - 1]
    /\ RtnlTo("undo_promisc")
    /\ UNCHANGED <<link, port, busy, vlan, genl, cleanup, tainted, fault>>

UndoPromisc ==
    /\ RtnlAt("add", "undo_promisc")
    /\ dev' = [dev EXCEPT ![rtnl.dev].promisc = @ - 1]
    /\ RtnlTo("undo_link")
    /\ UNCHANGED <<link, port, busy, vlan, genl, cleanup, tainted, fault>>

UndoLink ==
    /\ RtnlAt("add", "undo_link")
    /\ dev' = [dev EXCEPT ![rtnl.dev].master = FALSE]
    /\ RtnlTo("uninit")
    /\ UNCHANGED <<link, port, busy, vlan, genl, cleanup, tainted, fault>>

\* Mutant: err_uninit frees the slot but leaves its contents.
PortUninitKeepsContents ==
    /\ RtnlAt("add", "uninit")
    /\ busy' = busy \ {rtnl.pidx}
    /\ tainted' = tainted \ {rtnl.pidx}
    /\ rtnl' = RtnlIdle
    /\ UNCHANGED <<link, port, vlan, dev, genl, cleanup, fault>>

\* Mutant: err_uninit clears the slot and forgets the busy bit.
PortUninitKeepsBusy ==
    /\ RtnlAt("add", "uninit")
    /\ rtnl.pidx \notin cleanup
    /\ port' = [port EXCEPT ![rtnl.pidx] = Zeroed]
    /\ rtnl' = RtnlIdle
    /\ UNCHANGED <<link, busy, vlan, dev, genl, cleanup, tainted, fault>>

\* err_uninit clears the slot at once; clearing a queued rcu_head breaks the
\* callback list.
PortUninit ==
    /\ RtnlAt("add", "uninit")
    /\ LET p == rtnl.pidx
       IN  \/ /\ p \notin cleanup
              /\ busy' = busy \ {p}
              /\ port' = [port EXCEPT ![p] = Zeroed]
              /\ tainted' = IF StoreInFlight(p) THEN tainted \cup {p} ELSE tainted \ {p}
              /\ rtnl' = RtnlIdle
              /\ UNCHANGED <<link, vlan, dev, genl, cleanup, fault>>
           \/ /\ p \in cleanup
              /\ Faulted("rcu")

-----------------------------------------------------------------------------
(* Releasing a device: ubr_port_del, from three callers                     *)

\* Mutant: the slot is given back before the receive handler is removed.
StartPortDelFreesSlot(op, d) ==
    /\ dev[d].rx # Null
    /\ rtnl' = [op |-> op, pc |-> "rx_off", dev |-> d, pidx |-> dev[d].rx]
    /\ dev' = [dev EXCEPT ![d].flag = FALSE]
    /\ busy' = busy \ {dev[d].rx}
    /\ UNCHANGED <<link, port, vlan, genl, cleanup, tainted, fault>>

\* ubr_port_del up to the call of netdev_rx_handler_unregister.
StartPortDel(op, d) ==
    /\ dev[d].rx # Null
    /\ rtnl' = [op |-> op, pc |-> "rx_off", dev |-> d, pidx |-> dev[d].rx]
    /\ dev' = [dev EXCEPT ![d].flag = FALSE]
    /\ UNCHANGED <<link, port, busy, vlan, genl, cleanup, tainted, fault>>

DelSlave(d) ==
    /\ RtnlAt("idle", "idle")
    /\ dev[d].master
    /\ StartPortDel("del", d)

\* NETDEV_UNREGISTER of an enslaved device.  The bridge is recomputed from the
\* slot's pidx, which is wrong once the slot has been zeroed under its port.
DeviceEvent(d) ==
    /\ RtnlAt("idle", "idle")
    /\ dev[d].flag
    /\ \/ /\ port[dev[d].rx].pidx = dev[d].rx
          /\ StartPortDel("del", d)
       \/ /\ port[dev[d].rx].pidx # dev[d].rx
          /\ Faulted("wild")

Dellink ==
    /\ RtnlAt("idle", "idle")
    /\ link = "up"
    /\ rtnl' = [RtnlIdle EXCEPT !.op = "dellink", !.pc = "next"]
    /\ UNCHANGED <<link, port, busy, vlan, dev, genl, cleanup, tainted, fault>>

\* Mutant: the loop in ubr_dev_dellink skips the slot after the one it left.
DellinkNextSkips ==
    /\ RtnlAt("dellink", "next")
    /\ LET left == {p \in busy : p > rtnl.pidx + 1}
       IN  \/ /\ left # {}
              /\ port[Least(left)].dev # Null
              /\ StartPortDel("dellink", port[Least(left)].dev)
           \/ /\ left = {}
              /\ link' = "gone"
              /\ rtnl' = RtnlIdle
              /\ UNCHANGED <<port, busy, vlan, dev, genl, cleanup, tainted, fault>>

\* One iteration of the loop in ubr_dev_dellink, or its end.
DellinkNext ==
    /\ RtnlAt("dellink", "next")
    /\ LET left == {p \in busy : p > rtnl.pidx}
       IN  \/ /\ left # {}
              /\ port[Least(left)].dev # Null
              /\ StartPortDel("dellink", port[Least(left)].dev)
           \/ /\ left # {}
              /\ port[Least(left)].dev = Null
              /\ Faulted("null")
           \/ /\ left = {}
              /\ link' = "gone"
              /\ rtnl' = RtnlIdle
              /\ UNCHANGED <<port, busy, vlan, dev, genl, cleanup, tainted, fault>>

Deleting(pc) == RtnlAt("del", pc) \/ RtnlAt("dellink", pc)

\* netdev_rx_handler_unregister: no new frame enters the handler ...
RxUnregister ==
    /\ Deleting("rx_off")
    /\ dev' = [dev EXCEPT ![rtnl.dev].rx = Null]
    /\ RtnlTo("sync")
    /\ UNCHANGED <<link, port, busy, vlan, genl, cleanup, tainted, fault>>

\* ... and those inside have left when its synchronize_net returns.
RxSynchronized ==
    /\ Deleting("sync")
    /\ RtnlTo("release")
    /\ UNCHANGED <<link, port, busy, vlan, dev, genl, cleanup, tainted, fault>>

PortRelease ==
    /\ Deleting("release")
    /\ dev' = [dev EXCEPT ![rtnl.dev].allmulti = @ - 1, ![rtnl.dev].promisc = @ - 1,
                          ![rtnl.dev].master = FALSE]
    /\ RtnlTo("cleanup")
    /\ UNCHANGED <<link, port, busy, vlan, genl, cleanup, tainted, fault>>

\* ubr_port_cleanup, and the end of ubr_port_del.  The bridge and the index are
\* both taken from the slot, and are wrong if it was zeroed under its port.
PortCleanup ==
    /\ Deleting("cleanup")
    /\ LET p == rtnl.pidx
       IN  \/ /\ port[p].pidx = p /\ p \notin cleanup
              /\ busy' = busy \ {p}
              /\ cleanup' = cleanup \cup {p}
              /\ tainted' = IF StoreInFlight(p) THEN tainted \cup {p} ELSE tainted
              /\ rtnl' = IF rtnl.op = "dellink"
                           THEN [rtnl EXCEPT !.pc = "next", !.dev = Null]
                           ELSE RtnlIdle
              /\ UNCHANGED <<link, port, vlan, dev, genl, fault>>
           \/ /\ port[p].pidx = p /\ p \in cleanup   \* call_rcu of a queued rcu_head
              /\ Faulted("rcu")
           \/ /\ port[p].pidx # p
              /\ Faulted("wild")

\* __ubr_port_cleanup, run by RCU after a grace period.
PortCleanupRcu(p) ==
    /\ fault = "none"
    /\ p \in cleanup
    /\ port' = [port EXCEPT ![p] = Zeroed]
    /\ cleanup' = cleanup \ {p}
    /\ tainted' = IF p \in busy \/ StoreInFlight(p) \/ (rtnl.op = "add" /\ rtnl.pidx = p)
                    THEN tainted ELSE tainted \ {p}
    /\ UNCHANGED <<link, busy, vlan, dev, rtnl, genl, fault>>

-----------------------------------------------------------------------------
(* VLAN commands                                                            *)

VlanAdd(v) ==
    /\ GenlFree
    /\ genl' = Command("vlan_add", "new", v, 0, FALSE)
    /\ UNCHANGED <<link, port, busy, vlan, dev, rtnl, cleanup, tainted, fault>>

\* ubr_vlan_new: created, or refused (EBUSY, ENOMEM).
VlanNew ==
    /\ GenlAt("new")
    /\ LET v == genl.vid
       IN  \/ /\ link = "up" /\ vlan[v].mem = "none"
              /\ \/ vlan' = [vlan EXCEPT ![v] = [NoVlan EXCEPT !.mem = "live"]] /\ GenlTo("update")
                 \/ genl' = GenlIdle /\ UNCHANGED vlan
              /\ UNCHANGED <<link, port, busy, dev, rtnl, cleanup, tainted, fault>>
           \/ /\ GenlUsesVlan
              /\ genl' = GenlIdle
              /\ UNCHANGED <<link, port, busy, vlan, dev, rtnl, cleanup, tainted, fault>>
           \/ /\ link = "gone" \/ vlan[v].mem = "freed"
              /\ Faulted("uaf")

\* __update_port_vlan goes through the slots in order, without a lock.  The busy
\* bit and the PVID of a slot are tested, and then the pointer is stored: in
\* between, the slot may be released, zeroed and taken again.  (Testing both at
\* once loses nothing: no PVID becomes v during the command.)
NextSlot(pc, done) ==
    genl' = IF genl.pidx + 1 \in PIdx THEN [genl EXCEPT !.pc = pc, !.pidx = @ + 1] ELSE done

UpdateTest(pc, store, done) ==
    /\ GenlAt(pc)
    /\ LET p == genl.pidx
       IN  \/ /\ link = "up"
              /\ p \in busy => vlan[genl.vid].mem # "freed"
              /\ IF p \in busy /\ port[p].pvid = genl.vid THEN GenlTo(store)
                                                        ELSE NextSlot(pc, done)
              /\ UNCHANGED <<link, port, busy, vlan, dev, rtnl, cleanup, tainted, fault>>
           \/ /\ link = "gone" \/ (p \in busy /\ vlan[genl.vid].mem = "freed")
              /\ Faulted("uaf")

UpdateStore(pc, test, done, w) ==
    /\ GenlAt(pc)
    /\ \/ /\ link = "up"
          /\ port' = [port EXCEPT ![genl.pidx].vlan = w]
          /\ NextSlot(test, done)
          /\ UNCHANGED <<link, busy, vlan, dev, rtnl, cleanup, tainted, fault>>
       \/ link = "gone" /\ Faulted("uaf")

\* Mutant: a new VLAN is not given to the ports already configured for it.
VlanAddTestForgets ==
    /\ GenlAt("update")
    /\ NextSlot("update", GenlIdle)
    /\ UNCHANGED <<link, port, busy, vlan, dev, rtnl, cleanup, tainted, fault>>

VlanAddTest == UpdateTest("update", "set", GenlIdle)
VlanAddStore == UpdateStore("set", "update", GenlIdle, genl.vid)

VlanDel(v) ==
    /\ GenlFree
    /\ genl' = Command("vlan_del", "find", v, 0, FALSE)
    /\ UNCHANGED <<link, port, busy, vlan, dev, rtnl, cleanup, tainted, fault>>

VlanDelFind ==
    /\ GenlAt("find")
    /\ \/ /\ link = "up" /\ vlan[genl.vid].mem = "none"   \* ENOENT
          /\ genl' = GenlIdle
          /\ UNCHANGED <<link, port, busy, vlan, dev, rtnl, cleanup, tainted, fault>>
       \/ /\ GenlUsesVlan
          /\ GenlTo("unlink")
          /\ UNCHANGED <<link, port, busy, vlan, dev, rtnl, cleanup, tainted, fault>>
       \/ /\ link = "gone" \/ vlan[genl.vid].mem = "freed"
          /\ Faulted("uaf")

\* All slots are done; the bridge is not needed any more.
Unlinked == [genl EXCEPT !.pc = "free", !.pidx = 0]
VlanDelTest == UpdateTest("unlink", "clear", Unlinked)
VlanDelStore == UpdateStore("clear", "unlink", Unlinked, Null)

\* Mutant: the VLAN is freed without a grace period.
VlanDelFreeAtOnce ==
    /\ GenlAt("free")
    /\ vlan[genl.vid].mem = "live"
    /\ vlan' = [vlan EXCEPT ![genl.vid].members = {}, ![genl.vid].mem = "freed"]
    /\ genl' = GenlIdle
    /\ UNCHANGED <<link, port, busy, dev, rtnl, cleanup, tainted, fault>>

\* ubr_vlan_del: the members are cleared and the memory handed to RCU, but the
\* VLAN stays in the hash.  The bridge is not read here, and its end does not
\* free its VLANs.
VlanDelFree ==
    /\ GenlAt("free")
    /\ LET v == genl.vid
       IN  \/ /\ vlan[v].mem = "live"
              /\ vlan' = [vlan EXCEPT ![v].members = {}, ![v].mem = "dying"]
              /\ genl' = GenlIdle
              /\ UNCHANGED <<link, port, busy, dev, rtnl, cleanup, tainted, fault>>
           \/ /\ vlan[v].mem = "dying"     \* second call_rcu
              /\ Faulted("rcu")
           \/ /\ vlan[v].mem = "freed"
              /\ Faulted("uaf")

\* ubr_vlan_del_rcu.  What freed memory contains does not matter.
VlanDelRcu(v) ==
    /\ fault = "none"
    /\ vlan[v].mem = "dying"
    /\ vlan' = [vlan EXCEPT ![v] = [NoVlan EXCEPT !.mem = "freed"]]
    /\ UNCHANGED <<link, port, busy, dev, rtnl, genl, cleanup, tainted, fault>>

\* ubr_vlan_nl_attach_cmd and ubr_vlan_nl_detach_cmd find the VLAN and the
\* port, drop the bridge, and go on with what they found; the VLAN may be NULL.
FindVlanPort(op, pc, v, d, tagged) ==
    /\ GenlFree
    /\ PortFind(d) # {}
    /\ genl' = Command(op, pc, v, Least(PortFind(d)), tagged)
    /\ UNCHANGED <<link, port, busy, vlan, dev, rtnl, cleanup, tainted, fault>>

\* Mutant: the members bit comes first.
AttachMemberFirst(v, d, tagged) == FindVlanPort("attach", "member", v, d, tagged)

\* ubr_vlan_port_add: the tagged bit, a barrier, the members bit.
Attach(v, d, tagged) == FindVlanPort("attach", IF tagged THEN "tag" ELSE "member", v, d, tagged)

\* ubr_vlan_port_del: the members bit, a barrier, the tagged bit.
Detach(v, d) == FindVlanPort("detach", "unmember", v, d, FALSE)

\* The first store of a command follows ubr_port_find and a printk, which read
\* the bridge and may come before or after it is gone.
ReadsBridge(pc) == pc # "untag" /\ ~(pc = "member" /\ genl.tagged)

\* A store through the VLAN pointer found, or what it does when it is invalid.
VlanStore(pc, next, v) ==
    /\ GenlAt(pc)
    /\ \/ /\ vlan[genl.vid].mem \in {"live", "dying"}
          /\ vlan' = [vlan EXCEPT ![genl.vid] = v]
          /\ genl' = IF next = "idle" THEN GenlIdle ELSE [genl EXCEPT !.pc = next]
          /\ UNCHANGED <<link, port, busy, dev, rtnl, cleanup, tainted, fault>>
       \/ /\ vlan[genl.vid].mem = "none"
          /\ Faulted("null")
       \/ /\ vlan[genl.vid].mem = "freed" \/ (link = "gone" /\ ReadsBridge(pc))
          /\ Faulted("uaf")

ItsVlan == vlan[genl.vid]
AttachTag == VlanStore("tag", "member", [ItsVlan EXCEPT !.tagged = @ \cup {genl.pidx}])
AttachMember == VlanStore("member", "idle", [ItsVlan EXCEPT !.members = @ \cup {genl.pidx}])
DetachMember == VlanStore("unmember", "untag", [ItsVlan EXCEPT !.members = @ \ {genl.pidx}])
DetachUntag == VlanStore("untag", "idle", [ItsVlan EXCEPT !.tagged = @ \ {genl.pidx}])

-----------------------------------------------------------------------------
(* Port settings: ubr_port_nl_set_cmd, whose pvid 0 is the tool's "none"    *)

PortSet(d, v) ==
    /\ GenlFree
    /\ PortFind(d) # {}
    /\ genl' = Command("port_set", "pvid", v, Least(PortFind(d)), FALSE)
    /\ UNCHANGED <<link, port, busy, vlan, dev, rtnl, cleanup, tainted, fault>>

\* A store to the slot found, which may have changed hands since.
PortStore(pc, next, p) ==
    /\ GenlAt(pc)
    /\ \/ /\ link = "up"
          /\ port' = [port EXCEPT ![genl.pidx] = p]
          /\ genl' = IF next = "idle" THEN GenlIdle ELSE [genl EXCEPT !.pc = next]
          /\ UNCHANGED <<link, busy, vlan, dev, rtnl, cleanup, tainted, fault>>
       \/ link = "gone" /\ Faulted("uaf")

ItsPort == port[genl.pidx]
PortSetPvid == PortStore("pvid", "vlan", [ItsPort EXCEPT !.pvid = genl.vid])
PortSetVlan ==
    \/ /\ vlan[genl.vid].mem # "freed"
       /\ PortStore("vlan", "filter", [ItsPort EXCEPT !.vlan = VlanFind(genl.vid)])
    \/ /\ GenlAt("vlan")
       /\ vlan[genl.vid].mem = "freed"
       /\ Faulted("uaf")

\* The flag is a bit of a word, which also holds pidx and sa_learning: the whole
\* word is loaded, changed and stored.
PortSetLoad ==
    /\ GenlAt("filter")
    /\ \/ /\ link = "up"
          /\ genl' = [genl EXCEPT !.pc = "word", !.word = [pidx |-> ItsPort.pidx,
                                                         learning |-> ItsPort.learning]]
          /\ UNCHANGED <<link, port, busy, vlan, dev, rtnl, cleanup, tainted, fault>>
       \/ link = "gone" /\ Faulted("uaf")

\* If it meets the store of ubr_port_init to the same word, either may come last,
\* and that one's may or may not have seen the flag.
PortSetFilter ==
    LET stored == [ItsPort EXCEPT !.pidx = genl.word.pidx, !.learning = genl.word.learning,
                                  !.filtering = genl.vid # 0]
        initialised == {[ItsPort EXCEPT !.filtering = f] : f \in {ItsPort.filtering, genl.vid # 0}}
        meets == rtnl.pc = "publish" /\ rtnl.pidx = genl.pidx
    IN  \E s \in {stored} \cup (IF meets THEN initialised ELSE {}) : PortStore("word", "idle", s)

-----------------------------------------------------------------------------
\* The state a successful ubr_dev_newlink leaves.
Init ==
    /\ link = "up"
    /\ vlan = [v \in AllVids |->
                 IF v = 0 THEN [NoVlan EXCEPT !.mem = "live", !.members = {0}] ELSE NoVlan]
    /\ port = [p \in PIdx |->
                 IF p = 0 THEN [Zeroed EXCEPT !.dev = Bridge, !.learning = TRUE,
                                              !.vec = PIdx \ {0}, !.vlan = 0]
                          ELSE Zeroed]
    /\ busy = {0}
    /\ dev = [d \in Devs |-> Released]
    /\ rtnl = RtnlIdle
    /\ genl = GenlIdle
    /\ cleanup = {}
    /\ tainted = {}
    /\ fault = "none"

RtnlStep ==
    \/ \E d \in Devs : PortAdd(d) \/ DelSlave(d) \/ DeviceEvent(d)
    \/ PortPublish \/ PortLink \/ PortPromisc \/ PortAllmulti \/ PortRxRegister
    \/ UndoAllmulti \/ UndoPromisc \/ UndoLink \/ PortUninit
    \/ Dellink \/ DellinkNext
    \/ RxUnregister \/ RxSynchronized \/ PortRelease \/ PortCleanup

GenlStep ==
    \/ \E v \in Vids : VlanAdd(v) \/ VlanDel(v)
    \/ VlanNew \/ VlanAddTest \/ VlanAddStore
    \/ VlanDelFind \/ VlanDelTest \/ VlanDelStore \/ VlanDelFree
    \/ \E v \in Vids, d \in Managed :
          \/ \E tagged \in BOOLEAN : Attach(v, d, tagged)
          \/ Detach(v, d)
    \/ AttachTag \/ AttachMember \/ DetachMember \/ DetachUntag
    \/ \E v \in AllVids, d \in Managed : PortSet(d, v)
    \/ PortSetPvid \/ PortSetVlan \/ PortSetLoad \/ PortSetFilter

RcuStep ==
    \/ \E p \in PIdx : PortCleanupRcu(p)
    \/ \E v \in AllVids : VlanDelRcu(v)

Next == RtnlStep \/ GenlStep \/ RcuStep

Spec == Init /\ [][Next]_vars
-----------------------------------------------------------------------------
(* Properties                                                               *)

\* Every variable stays in its type.  In particular the promiscuity and
\* allmulti counts of a device never go below zero, however ubr_port_add
\* fails and unwinds.
TypeOK ==
    /\ link \in {"up", "gone"}
    /\ port \in [PIdx -> PortState]
    /\ busy \subseteq PIdx
    /\ vlan \in [AllVids -> VlanState]
    /\ dev \in [Devs -> DevState]
    /\ rtnl \in RtnlState
    /\ genl \in GenlState
    /\ cleanup \subseteq PIdx
    /\ tainted \subseteq PIdx
    /\ fault \in {"none", "null", "uaf", "rcu", "wild", "skb"}

\* As long as a device's receive handler is registered, its slot stays busy
\* and belongs to no other device, and is never the bridge's own slot 0: a
\* slot is not handed out again before netdev_rx_handler_unregister.
SlotExclusive ==
    \A d \in Devs : dev[d].rx # Null =>
        /\ dev[d].rx \in busy \ {0}
        /\ \A e \in Devs \ {d} : dev[e].rx # dev[d].rx

\* Between RTNL commands a device is enslaved completely or not at all: every
\* error path of ubr_port_add, and ubr_port_del, gives back exactly what was
\* acquired (upper link, promiscuity, allmulti, receive handler, flag).
AllOrNothing ==
    rtnl.op = "idle" =>
        \A d \in Devs : \/ dev[d] = Released
                        \/ /\ dev[d].master /\ dev[d].flag
                           /\ dev[d].promisc = 1 /\ dev[d].allmulti = 1
                           /\ dev[d].rx # Null

\* A slot that no command, callback or race is at work on is either zeroed or
\* completely initialised.  ubr_port_init relies on the first half: it stores
\* neither pvid nor vlan_filtering.
AtRest(p) == /\ p \notin cleanup \cup tainted
             /\ ~(rtnl.op = "add" /\ rtnl.pidx = p)
SlotsClean ==
    \A p \in PIdx : AtRest(p) =>
        IF p \in busy THEN /\ port[p].dev # Null
                          /\ port[p].pidx = p
                          /\ port[p].learning
                          /\ port[p].vec = PIdx \ {p}
                     ELSE port[p] = Zeroed

\* Between genl commands a port's ingress settings agree with its PVID: it
\* filters exactly when it has one, its default VLAN is the PVID's VLAN once
\* that VLAN exists and none before that.  For a deleted VLAN both are seen.
PortVlanCoherent ==
    genl.op = "idle" =>
        \A p \in busy \ tainted :
            LET v == port[p].pvid
            IN  /\ port[p].filtering = (v # 0)
                /\ port[p].vlan \in {v, Null}
                /\ vlan[v].mem = "live" => port[p].vlan = v
                /\ vlan[v].mem = "none" => port[p].vlan = Null

\* In no state that a half-done command leaves is a port a member without the tag
\* it is to have: a port attached tagged is tagged by the time it becomes a
\* member, and stays so until it is no longer one.  These are the orders that the
\* barriers in ubr_vlan_port_add and ubr_vlan_port_del protect.
TaggedOrdering ==
    [][\A v \in AllVids, p \in PIdx :
          p \in vlan'[v].members =>
              /\ p \in vlan[v].members \cap vlan[v].tagged => p \in vlan'[v].tagged
              /\ p \notin vlan[v].members /\ genl.op = "attach" /\ genl.tagged /\ genl.vid = v
                     => p \in vlan'[v].tagged]_vars

\* Whatever goes wrong in the control plane has one of three causes: a slot that
\* two owners wrote without serialisation, a command that outlived the bridge it
\* had found, or a command on a VLAN that does not exist or has been deleted.  In
\* particular no RTNL command crashes on its own: the walks over the busy slots
\* in ubr_update_headroom and ubr_dev_dellink, and the way back from a slot to
\* its bridge, are safe as long as no slot was raced for.
CommandCause ==
    \/ tainted # {}
    \/ genl.op # "idle" /\ (link = "gone" \/ vlan[genl.vid].mem = "freed")
    \/ genl.op \in {"attach", "detach"} /\ vlan[genl.vid].mem = "none"
    \/ genl.op = "vlan_del" /\ vlan[genl.vid].mem = "dying"
CrashCauses == fault # "none" => CommandCause

\* When ubr_dev_dellink has unregistered the bridge, no device is left with a
\* receive handler, a reference or a flag that points into it.
GoneReleasesDevices ==
    link = "gone" => \A d \in Devs : dev[d] = Released

\* ubr-private.h:162 "While PVID is a VLAN which does not (yet) exist in the
\* bridge, the ingress.cb->vlan is NULL".  The code finds deleted VLANs.
MissingVlanIsNull ==
    genl.op = "idle" =>
        \A p \in busy \ tainted :
            vlan[port[p].pvid].mem # "live" => port[p].vlan = Null

\* ubr-port.c:62 "Allow egress on all ports execpt this one", for every port
\* the bridge has.  A late __ubr_port_cleanup takes it back.
EgressOnAllOthers ==
    \A p \in busy : port[p].vec = PIdx \ {p}
=============================================================================
