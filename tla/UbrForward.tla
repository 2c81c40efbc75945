----------------------------- MODULE UbrForward -----------------------------
(* The data path of one bridge, running beside the control plane of         *)
(* UbrBridge: frames are received on enslaved devices or sent by the host,  *)
(* pass VLAN ingress and the FDB stage, and are delivered to slots, one at  *)
(* a time, while commands change the slots and VLANs they use.              *)
(*                                                                          *)
(* Each CPU handles one frame at a time inside an RCU read-side section.    *)
(* What the FDB answers is left open (any port vector): the FDB only ever   *)
(* narrows where a frame goes.                                              *)
EXTENDS UbrBridge

CONSTANTS Cpus,  \* CPUs that handle frames
          Tags   \* VIDs frames carry in a C-tag; 0: none, a priority tag, or
                 \* another tag protocol

ASSUME TagsAssumption == Tags \subseteq AllVids

VARIABLES
    frame,   \* CPU -> the frame it is handling: the sk_buff and its ubr_cb
    readers  \* RCU: for each grace period under way, the CPUs it waits for

fvars == <<vars, frame, readers>>

FrameState == [pc : {"idle", "flags", "vlan", "ingress", "fdb", "deliver"},
               slot : PIdx, tag : AllVids,
               pidx : PIdx, filtering : BOOLEAN, vlan : AllVids \cup {Null},
               vec : SUBSET PIdx,
               allow : BOOLEAN,
               live : BOOLEAN,      \* ghost: its VLAN was live when looked up
               sent : SUBSET PIdx]  \* ghost: slots it has been sent to

NoFrame == [pc |-> "idle", slot |-> 0, tag |-> 0, pidx |-> 0, filtering |-> FALSE,
            vlan |-> Null, vec |-> {}, allow |-> FALSE, live |-> FALSE, sent |-> {}]

Inside == {c \in Cpus : frame[c].pc # "idle"}

FrameAt(c, pc) == /\ fault = "none"
                  /\ frame[c].pc = pc

\* The CPU's read-side section goes on, or ends with its frame.
Continue(c, f) == /\ frame' = [frame EXCEPT ![c] = f]
                  /\ UNCHANGED <<vars, readers>>
Leave(c) == /\ frame' = [frame EXCEPT ![c] = NoFrame]
            /\ readers' = [sync |-> readers.sync \ {c},
                           port |-> [p \in PIdx |-> readers.port[p] \ {c}],
                           vlan |-> [v \in AllVids |-> readers.vlan[v] \ {c}]]
            /\ UNCHANGED vars
Crash(kind) == Faulted(kind) /\ UNCHANGED <<frame, readers>>

Live(v) == v # Null /\ vlan[v].mem = "live"

-----------------------------------------------------------------------------
\* ubr_port_rx_handler on slot dev[d].rx, and ubr_ndo_start_xmit on slot 0.
Receive(c, d, tag) ==
    /\ FrameAt(c, "idle")
    /\ dev[d].rx # Null
    /\ Continue(c, [NoFrame EXCEPT !.pc = "flags", !.slot = dev[d].rx, !.tag = tag])

Transmit(c, tag) ==
    /\ FrameAt(c, "idle")
    /\ link = "up"
    /\ Continue(c, [NoFrame EXCEPT !.pc = "flags", !.slot = 0, !.tag = tag])

\* The memcpy of the ingress_cb is not atomic with port set: the word of
\* flags, then the rest.
CopyFlags(c) ==
    /\ FrameAt(c, "flags")
    /\ LET p == port[frame[c].slot]
       IN  Continue(c, [frame[c] EXCEPT !.pc = "vlan", !.pidx = p.pidx,
                                        !.filtering = p.filtering])

CopyVlan(c) ==
    /\ FrameAt(c, "vlan")
    /\ LET s == frame[c].slot
           p == port[s]
       IN  \/ /\ p.pidx = s
              /\ Continue(c, [frame[c] EXCEPT !.pc = "ingress", !.vlan = p.vlan,
                                              !.live = Live(p.vlan), !.vec = p.vec])
           \/ /\ p.pidx # s        \* ubr_from_port misses the bridge
              /\ Crash("wild")

\* ubr_vlan_ingress when the port does not filter: the frame stays in the
\* port's VLAN, whose members it may reach.
IngressUnfiltered(c) ==
    /\ FrameAt(c, "ingress")
    /\ ~frame[c].filtering
    /\ LET v == frame[c].vlan
       IN  \/ /\ v # Null /\ vlan[v].mem # "freed"
              /\ Continue(c, [frame[c] EXCEPT !.pc = "fdb", !.allow = TRUE,
                                              !.vec = @ \cap vlan[v].members])
           \/ /\ v = Null
              /\ Crash("null")
           \/ /\ v # Null /\ vlan[v].mem = "freed"
              /\ Crash("uaf")

\* Mutant: a frame of an unknown VLAN is not dropped.
IngressUnknownAllowed(c) ==
    /\ FrameAt(c, "ingress")
    /\ frame[c].filtering
    /\ LET v == IF frame[c].tag # 0 THEN VlanFind(frame[c].tag) ELSE frame[c].vlan
       IN  Continue(c, [frame[c] EXCEPT !.pc = "fdb", !.vlan = v, !.allow = TRUE])

\* Mutant: the frame keeps its port's egress vector; the AND is forgotten.
IngressUnmasked(c) ==
    /\ FrameAt(c, "ingress")
    /\ frame[c].filtering
    /\ LET v == IF frame[c].tag # 0 THEN VlanFind(frame[c].tag) ELSE frame[c].vlan
       IN  /\ v # Null /\ vlan[v].mem # "freed"
           /\ frame[c].pidx \in vlan[v].members
           /\ Continue(c, [frame[c] EXCEPT !.pc = "fdb", !.vlan = v, !.allow = TRUE])

\* ubr_vlan_ingress when it does: a tag overrides the PVID's VLAN; a frame of
\* an unknown VLAN, or one its port is no member of, is not allowed.
IngressFiltered(c) ==
    /\ FrameAt(c, "ingress")
    /\ frame[c].filtering
    /\ LET v == IF frame[c].tag # 0 THEN VlanFind(frame[c].tag) ELSE frame[c].vlan
           classified == [frame[c] EXCEPT !.pc = "fdb", !.vlan = v,
                            !.live = IF frame[c].tag # 0 THEN Live(v) ELSE @]
       IN  \/ /\ v = Null
              /\ Continue(c, classified)
           \/ /\ v # Null /\ vlan[v].mem # "freed"
              /\ IF frame[c].pidx \in vlan[v].members
                   THEN Continue(c, [classified EXCEPT !.allow = TRUE,
                                       !.vec = @ \cap vlan[v].members])
                   ELSE Continue(c, classified)
           \/ /\ v # Null /\ vlan[v].mem = "freed"
              /\ Crash("uaf")

\* skb_vlan_untag or vlan_insert_tag_set_proto has freed the frame and returned
\* NULL; ubr_forward goes on to use it.
IngressNoMemory(c) ==
    /\ FrameAt(c, "ingress")
    /\ frame[c].filtering
    /\ Crash("skb")

\* ubr_fdb_forward, which runs whatever VLAN ingress said, and the decision.
FdbForward(c) ==
    /\ FrameAt(c, "fdb")
    /\ LET f == frame[c]
       IN  \/ /\ f.vlan # Null /\ vlan[f.vlan].mem # "freed"
              /\ \E hint \in SUBSET PIdx :
                   IF f.allow /\ f.vec \cap hint # {}
                     THEN Continue(c, [f EXCEPT !.pc = "deliver", !.vec = @ \cap hint])
                     ELSE Leave(c)
           \/ /\ f.vlan = Null
              /\ Crash("null")
           \/ /\ f.vlan # Null /\ vlan[f.vlan].mem = "freed"
              /\ Crash("uaf")

\* Mutant: the frame itself goes to the highest slot, which gets a clone too,
\* instead of the lowest.
DeliverForgetsLowest(c) ==
    /\ FrameAt(c, "deliver")
    /\ LET f == frame[c]
           e == CHOOSE p \in f.vec : \A q \in f.vec : q <= p
       IN  /\ e # 0 => port[e].dev # Null
           /\ IF f.vec = {e} THEN Leave(c)
                             ELSE Continue(c, [f EXCEPT !.vec = @ \ {Least(f.vec)},
                                                        !.sent = @ \cup {e}])

\* ubr_deliver: clones go to every slot but the lowest, in ascending order,
\* then the frame itself to the lowest.  There is no check that the slot is
\* still in use.
NextEgress(vec) == IF vec = {Least(vec)} THEN Least(vec) ELSE Least(vec \ {Least(vec)})

Deliver(c) ==
    /\ FrameAt(c, "deliver")
    /\ LET f == frame[c]
           e == NextEgress(f.vec)
       IN  \/ /\ f.vec # {e}        \* no memory for a clone: the rest is dropped
              /\ Leave(c)
           \/ /\ e # 0 => port[e].dev # Null
              /\ f.filtering => vlan[f.vlan].mem # "freed"
              /\ IF f.vec = {e} THEN Leave(c)
                                ELSE Continue(c, [f EXCEPT !.vec = @ \ {e}, !.sent = @ \cup {e}])
           \/ /\ e # 0 /\ port[e].dev = Null
              /\ Crash("null")
           \/ /\ f.filtering /\ vlan[f.vlan].mem = "freed"
              /\ Crash("uaf")

\* ubr_common_egress has freed a frame whose protocol it cannot read; its
\* callers go on to send it.
DeliverMalformed(c) ==
    /\ FrameAt(c, "deliver")
    /\ Crash("skb")

-----------------------------------------------------------------------------
(* RCU.  A callback runs, and synchronize_net returns, only when every CPU  *)
(* that was inside a read-side section at the call has left it.             *)

GraceEnded ==
    /\ \A p \in cleanup \ cleanup' : readers.port[p] = {}
    /\ \A v \in AllVids : vlan[v].mem = "dying" /\ vlan'[v].mem = "freed" => readers.vlan[v] = {}
    /\ rtnl.pc = "sync" /\ rtnl'.pc # "sync" => readers.sync = {}
    /\ link # link' => Inside = {}     \* unregister_netdevice

GraceStarted ==
    readers' = [sync |-> IF rtnl'.pc = "sync" /\ rtnl.pc # "sync" THEN Inside ELSE readers.sync,
                port |-> [p \in PIdx |->
                            IF p \in cleanup' \ cleanup THEN Inside ELSE readers.port[p]],
                vlan |-> [v \in AllVids |->
                            IF vlan[v].mem # "dying" /\ vlan'[v].mem = "dying"
                              THEN Inside ELSE readers.vlan[v]]]

ControlStep == Next /\ GraceEnded /\ GraceStarted /\ UNCHANGED frame

FrameStep ==
    \E c \in Cpus :
        \/ \E d \in Devs, tag \in Tags : Receive(c, d, tag)
        \/ \E tag \in Tags : Transmit(c, tag)
        \/ CopyFlags(c) \/ CopyVlan(c)
        \/ IngressUnfiltered(c) \/ IngressFiltered(c) \/ IngressNoMemory(c)
        \/ FdbForward(c) \/ Deliver(c) \/ DeliverMalformed(c)

ForwardInit ==
    /\ Init
    /\ frame = [c \in Cpus |-> NoFrame]
    /\ readers = [sync |-> {}, port |-> [p \in PIdx |-> {}], vlan |-> [v \in AllVids |-> {}]]

ForwardNext == ControlStep \/ FrameStep

ForwardSpec == ForwardInit /\ [][ForwardNext]_fvars

-----------------------------------------------------------------------------
(* Properties                                                               *)

\* Every frame in flight, and every grace period, stays in its type, and no
\* frame is allowed on without a VLAN.
FrameTypeOK ==
    /\ frame \in [Cpus -> FrameState]
    /\ readers \in [sync : SUBSET Cpus, port : [PIdx -> SUBSET Cpus],
                    vlan : [AllVids -> SUBSET Cpus]]
    /\ \A c \in Cpus : frame[c].allow => frame[c].vlan # Null

\* No frame is ever sent back to the slot it came in on, whatever the slot
\* went through since: the bridge does not reflect.
NoReflection ==
    \A c \in Cpus : frame[c].pc # "idle" => frame[c].slot \notin frame[c].vec

\* While a frame received on a slot is being handled, that slot is not free and
\* the index the frame carries is the slot's own, which membership tests and
\* learning go by: netdev_rx_handler_unregister waits before ubr_port_cleanup.
ReceivingSlotHeld ==
    \A c \in Cpus : frame[c].pc # "idle" =>
        /\ frame[c].slot \in busy
        /\ frame[c].pc # "flags" /\ frame[c].slot \notin tainted => frame[c].pidx = frame[c].slot

\* A VLAN that was live when a frame looked it up is not freed under the frame.
VlanOutlivesFrame ==
    \A c \in Cpus : frame[c].live => vlan[frame[c].vlan].mem # "freed"

\* A frame crashes the kernel for one of these causes and no other, beside those
\* of the commands: it was freed under ubr_forward ("skb"), it has no VLAN, its
\* VLAN had been deleted before the frame found it, or it goes to a member slot
\* that its port has left.  In particular no frame crashes in a bridge whose
\* ports and VLANs nobody removes, and RCU covers every removal but these.
FrameCause(c) ==
    LET f == frame[c]
    IN  \/ f.pc \in {"ingress", "fdb"} /\ f.vlan = Null
        \/ f.pc = "ingress" /\ f.filtering /\ vlan[f.tag].mem = "freed"
        \/ f.vlan # Null /\ ~f.live /\ vlan[f.vlan].mem = "freed"
        \/ f.pc = "deliver" /\ NextEgress(f.vec) \notin busy
FrameCrashCauses ==
    fault # "none" => fault = "skb" \/ CommandCause \/ \E c \in Cpus : FrameCause(c)

\* ubr-forward.c:90 "All subsequent stages rely on the frame's VID being
\* known, so this must run first".  The FDB stage runs without one.
VidKnownToFdb ==
    \A c \in Cpus : frame[c].pc = "fdb" => frame[c].vlan # Null

-----------------------------------------------------------------------------
(* Refinement                                                               *)

\* Frame f as UbrSwitch sees it: it exists from VLAN ingress on, unless it was
\* refused there or has nowhere to go: that is all that becomes of a frame whose
\* slot was raced for and has lost its egress vector.
NotAdmitted == [stage |-> "none"]
Admitted(f) ==
    IF f.pc \in {"fdb", "deliver"} /\ f.allow /\ f.vec # {}
      THEN [stage |-> IF f.pc = "fdb" THEN "classified" ELSE "delivering",
            slot |-> f.slot, strict |-> f.filtering, tag |-> f.tag,
            vlan |-> f.vlan, scope |-> f.vec, sent |-> f.sent]
      ELSE NotAdmitted

Members == [v \in AllVids |-> vlan[v].members]
AdmittedFrames == [c \in Cpus |-> Admitted(frame[c])]

Switch == INSTANCE UbrSwitch
    WITH Slots <- PIdx, Vlans <- AllVids, Untagged <- 0, None <- NotAdmitted,
         member <- Members, frame <- AdmittedFrames

\* The data path is a switch with VLANs: whatever the commands do meanwhile, a
\* frame only leaves through slots that were members of its VLAN when it was
\* classified, once through each, never through its own, and a filtering port
\* admits only frames of the VLANs it is in.
ImplementsSwitch == Switch!Spec
=============================================================================
