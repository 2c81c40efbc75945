-------------------------- MODULE UbrForward_proofs --------------------------
(* The data path beside the control plane, proved for any number of CPUs,   *)
(* devices, ports and VLANs: what a frame has copied from its slot stays    *)
(* true of the slot, the slot and the VLAN outlive the frame, and what the  *)
(* CPUs do with their frames is what UbrSwitch allows.                      *)
EXTENDS UbrForward, UbrSlots_proofs

-----------------------------------------------------------------------------
(* The invariants                                                           *)

\* A slot has all other slots in its egress vector or none, and its own index or
\* 0; slot 0, which is never zeroed, has all and its own.  The word that a port
\* set command has loaded gives no slot with a vector an index it had lost.
VecInv ==
    /\ 0 \notin cleanup
    /\ \A p \in PIdx : /\ port[p].pidx \in {0, p}
                       /\ port[p].vec = PIdx \ {p} \/ (p # 0 /\ port[p].vec = {})
    /\ genl.pc = "word" =>
          /\ genl.word.pidx \in {0, genl.pidx}
          /\ genl.word.pidx # 0 =>
                port[genl.pidx].pidx = genl.pidx \/ port[genl.pidx].vec = {}

\* How far frame f is, and what it has at that point.
StageInv(f) ==
    /\ f.pc \in {"idle", "flags", "vlan"} => f.vlan = Null /\ ~f.live /\ f.vec = {}
    /\ f.pc \in {"idle", "flags", "vlan", "ingress"} => ~f.allow
    /\ f.pc # "deliver" => f.sent = {}
    /\ f.pc = "ingress" => f.vec \in {{}, PIdx \ {f.slot}}
    /\ f.slot \notin f.vec
    /\ f.pc = "deliver" => f.allow /\ f.vec # {}
    /\ f.allow => f.vlan # Null
    /\ f.live => f.vlan # Null

\* The slot s of CPU c's frame cannot be given up: ubr_port_add is not about to
\* unwind it, and ubr_port_del waits for the CPU.
SlotHeld(c, s) ==
    /\ s \in busy
    /\ rtnl.op = "add" => rtnl.pidx # s
    /\ rtnl.pc = "sync" /\ rtnl.pidx = s => c \in readers.sync
    /\ rtnl.pc \in {"release", "cleanup"} => rtnl.pidx # s

\* The frame has copied its slot's own index, unless the slot was raced for: then
\* it has no egress vector, or the slot has neither that nor its index.
IndexInv(f) ==
    /\ f.pc = "vlan" /\ port[f.slot].pidx = f.slot /\ port[f.slot].vec # {} => f.pidx = f.slot
    /\ f.pc \in {"vlan", "ingress", "fdb", "deliver"} => f.pidx = f.slot \/ f.slot \in tainted
    /\ f.vec # {} => f.pidx = f.slot

\* RCU will not free the VLAN that was live when CPU c's frame found it.
VlanHeld(c, f) ==
    f.live => \/ vlan[f.vlan].mem = "live"
              \/ vlan[f.vlan].mem = "dying" /\ c \in readers.vlan[f.vlan]

FrameGood(c, f) == /\ StageInv(f)
                   /\ f.pc # "idle" => SlotHeld(c, f.slot) /\ IndexInv(f)
                   /\ VlanHeld(c, f)

FrameInv == \A c \in Cpus : FrameGood(c, frame[c])

\* The bridge underneath.
BridgeInv == Inv /\ CleanInv /\ PcInv /\ VecInv

ForwardInv == BridgeInv /\ FrameTypeOK /\ FrameInv

-----------------------------------------------------------------------------
(* The bridge underneath                                                    *)

LEMMA VecInit == Init => VecInv
<1>. SUFFICES ASSUME Init PROVE VecInv
  OBVIOUS
<1>1. port[0].pidx = 0 /\ port[0].vec = PIdx \ {0}
  BY RestTypes DEF Init, Zeroed
<1>2. \A p \in PIdx \ {0} : port[p] = Zeroed
  BY DEF Init
<1>3. cleanup = {}
  BY DEF Init
<1>4. genl.pc = "idle"
  BY DEF Init, GenlIdle, Command
<1>. QED  BY <1>1, <1>2, <1>3, <1>4 DEF VecInv, Zeroed

\* A step of a genl command changes no egress vector, and an index only by the
\* word that port set has loaded.
LEMMA VecGenl ==
    ASSUME BridgeInv, GenlStep
    PROVE  VecInv'
<1>. USE DEF BridgeInv
<1>1. /\ genl.pidx \in PIdx /\ cleanup' = cleanup
      /\ \A p \in PIdx :
            /\ port'[p].vec = port[p].vec
            /\ \/ port'[p].pidx = port[p].pidx
               \/ genl.pc = "word" /\ genl.pidx = p /\ port'[p].pidx = genl.word.pidx
  BY GenlPortEffect DEF SettingsOnly, Inv, TypeOK, GenlState
<1>2. 0 \notin cleanup'
  BY <1>1 DEF VecInv
<1>3. \A p \in PIdx : /\ port'[p].pidx \in {0, p}
                      /\ port'[p].vec = PIdx \ {p} \/ (p # 0 /\ port'[p].vec = {})
  BY <1>1 DEF VecInv
<1>4. CASE genl'.pc # "word"
  BY <1>2, <1>3, <1>4 DEF VecInv
<1>5. CASE genl' = genl /\ genl.pc = "word"
  BY <1>1, <1>2, <1>3, <1>5 DEF VecInv
<1>6. CASE /\ genl'.pidx = genl.pidx /\ genl.pc # "word"
           /\ genl'.word.pidx = port[genl.pidx].pidx
  <2>1. port'[genl.pidx].pidx = port[genl.pidx].pidx /\ port[genl.pidx].pidx \in {0, genl.pidx}
    BY <1>1, <1>6 DEF VecInv
  <2>. QED  BY <1>2, <1>3, <1>6, <2>1 DEF VecInv
<1>. QED  BY <1>4, <1>5, <1>6, GenlMoves DEF Next, Begins, MovesOn, SlotStays, SlotDone,
             FindsPort, LoadsWord, ItsPort, GenlIdle, Command

LEMMA VecStep ==
    ASSUME BridgeInv, Next
    PROVE  VecInv'
<1>. USE DEF BridgeInv
<1>1. /\ port \in [PIdx -> PortState] /\ Zeroed.pidx = 0 /\ Zeroed.vec = {}
      /\ genl.pidx \in PIdx
  BY DEF Inv, TypeOK, Zeroed, GenlState
<1>2. CASE RtnlStep
  <2>. genl' = genl
    BY <1>2, RtnlEffect
  <2>1. CASE Idles \/ \E p \in PIdx : Publishes(p)
    BY <2>1 DEF Idles, Publishes, VecInv
  <2>2. ASSUME NEW p \in PIdx, NEW d \in Devs, Takes(p, d) PROVE VecInv'
    <3>1. port'[p].pidx = p /\ port'[p].vec = PIdx \ {p}
      BY <1>1, <2>2 DEF Takes, PortInit, PortState
    <3>2. \A q \in PIdx \ {p} : port'[q] = port[q]
      BY <1>1, <2>2 DEF Takes
    <3>3. cleanup' = cleanup
      BY <2>2 DEF Takes
    <3>. QED  BY <1>1, <3>1, <3>2, <3>3 DEF VecInv
  <2>3. ASSUME NEW p \in PIdx, GivesUp(p) PROVE VecInv'
    BY <1>1, <2>3 DEF GivesUp, VecInv
  <2>4. ASSUME NEW p \in PIdx, Retires(p) PROVE VecInv'
    BY <2>4 DEF Retires, VecInv
  <2>. QED  BY <1>2, <2>1, <2>2, <2>3, <2>4, RtnlEffect
<1>3. CASE GenlStep
  BY <1>3, VecGenl
<1>4. CASE \E p \in PIdx : PortCleanupRcu(p)
  BY <1>1, <1>4 DEF PortCleanupRcu, VecInv
<1>5. CASE \E v \in AllVids : VlanDelRcu(v)
  BY <1>5 DEF VlanDelRcu, VecInv
<1>. QED  BY <1>2, <1>3, <1>4, <1>5 DEF Next, RcuStep

LEMMA BridgeStep ==
    ASSUME BridgeInv, [Next]_vars
    PROVE  BridgeInv'
<1>1. CASE UNCHANGED vars
  BY <1>1, CleanStep, InductiveStep DEF vars, BridgeInv, VecInv
<1>2. CASE Next
  BY <1>2, CleanStep, InductiveStep, VecStep DEF BridgeInv
<1>. QED  BY <1>1, <1>2

\* A fault of the data path changes nothing the bridge's invariants are about.
LEMMA BridgeFault ==
    ASSUME BridgeInv, NEW kind \in {"null", "uaf", "wild", "skb"}, Faulted(kind)
    PROVE  BridgeInv'
<1>1. Inv'
  BY FaultedInv DEF BridgeInv
<1>2. CleanInv' /\ PcInv'
  BY InitialisedStays DEF Faulted, BridgeInv, CleanInv, PcInv, Held, StoreInFlight, SetInFlight
<1>3. VecInv'
  BY DEF Faulted, BridgeInv, VecInv
<1>. QED  BY <1>1, <1>2, <1>3 DEF BridgeInv

-----------------------------------------------------------------------------
(* Control steps under frames                                               *)

\* How the command holding the RTNL gets to the steps that matter to frames.
LEMMA RtnlMoves ==
    ASSUME Inv, RtnlStep
    PROVE  /\ rtnl'.op = "add" => \/ rtnl.op = "add" /\ rtnl'.pidx = rtnl.pidx
                                  \/ rtnl'.pidx \in PIdx \ busy
           /\ rtnl'.pc = "sync" => rtnl' = rtnl \/ rtnl.pc = "rx_off"
           /\ rtnl'.pc \in {"release", "cleanup"} =>
                 /\ rtnl.pc \in {"sync", "release", "cleanup"}
                 /\ rtnl'.pidx = rtnl.pidx
<1>1. rtnl \in RtnlState /\ RtnlIdle \in RtnlState
  BY RestTypes DEF Inv, TypeOK
<1>2. CASE rtnl' = rtnl
  BY <1>2
<1>3. CASE rtnl' = RtnlIdle
  BY <1>3 DEF RtnlIdle
<1>4. CASE \E d \in Devs : PortAdd(d)
  BY <1>4, LeastIsMinimum DEF PortAdd
<1>5. CASE rtnl.op = "add" /\ \E pc : RtnlTo(pc) /\ pc \notin {"sync", "release", "cleanup"}
  BY <1>1, <1>5 DEF RtnlTo, RtnlState
<1>6. CASE \/ PortPublish \/ PortLink \/ PortPromisc \/ PortAllmulti \/ PortRxRegister
           \/ UndoAllmulti \/ UndoPromisc \/ UndoLink \/ PortUninit
  <2>1. CASE PortLink \/ PortPromisc \/ PortAllmulti
    BY <1>5, <2>1 DEF PortLink, PortPromisc, PortAllmulti, RtnlAt
  <2>2. CASE UndoAllmulti \/ UndoPromisc \/ UndoLink
    BY <1>5, <2>2 DEF UndoAllmulti, UndoPromisc, UndoLink, RtnlAt
  <2>3. CASE PortPublish \/ PortRxRegister \/ PortUninit
    BY <1>2, <1>3, <1>5, <2>3 DEF PortPublish, PortRxRegister, PortUninit, RtnlAt, Faulted
  <2>. QED  BY <1>6, <2>1, <2>2, <2>3
<1>7. ASSUME NEW op \in {"del", "dellink"}, NEW d, StartPortDel(op, d)
      PROVE  rtnl'.op = op /\ rtnl'.pc = "rx_off"
  BY <1>7 DEF StartPortDel
<1>8. CASE \E d \in Devs : DelSlave(d) \/ DeviceEvent(d)
  BY <1>2, <1>7, <1>8 DEF DelSlave, DeviceEvent, Faulted
<1>9. CASE Dellink
  BY <1>1, <1>9 DEF Dellink, RtnlState
<1>10. CASE DellinkNext
  BY <1>2, <1>3, <1>7, <1>10 DEF DellinkNext, Faulted
<1>11. CASE RxUnregister \/ RxSynchronized \/ PortRelease
  <2>1. /\ rtnl.op # "add"
        /\ \/ rtnl.pc = "rx_off" /\ RtnlTo("sync")
           \/ rtnl.pc = "sync" /\ RtnlTo("release")
           \/ rtnl.pc = "release" /\ RtnlTo("cleanup")
    BY <1>11 DEF RxUnregister, RxSynchronized, PortRelease, Deleting, RtnlAt
  <2>. QED  BY <1>1, <2>1 DEF RtnlTo, RtnlState
<1>12. CASE PortCleanup
  <2>1. CASE rtnl' = [rtnl EXCEPT !.pc = "next", !.dev = Null]
    <3>1. rtnl.op # "add"
      BY <1>12 DEF PortCleanup, Deleting, RtnlAt
    <3>. QED  BY <1>1, <2>1, <3>1 DEF RtnlState
  <2>. QED  BY <1>2, <1>3, <1>12, <2>1 DEF PortCleanup, Faulted
<1>. QED  BY <1>4, <1>6, <1>8, <1>9, <1>10, <1>11, <1>12 DEF RtnlStep

\* A slot that is not being given up stays busy, and raced for if it is; and nobody
\* gives it its index and its egress vector back if it has lost one of them.
LEMMA BusyStays ==
    ASSUME BridgeInv, Next, NEW s \in busy,
           rtnl.op = "add" => rtnl.pidx # s,
           rtnl.pc = "cleanup" => rtnl.pidx # s
    PROVE  /\ s \in busy'
           /\ s \in tainted => s \in tainted'
           /\ port'[s].pidx = s /\ port'[s].vec # {} =>
                 port[s].pidx = s /\ port[s].vec # {}
<1>. USE DEF BridgeInv
<1>1. /\ port \in [PIdx -> PortState] /\ s \in PIdx
      /\ port[s].pidx \in {0, s}
  BY DEF Inv, TypeOK, VecInv
<1>2. CASE RtnlStep
  BY <1>1, <1>2, RtnlEffect DEF Idles, Publishes, GivesUp, Retires, Takes
<1>3. CASE GenlStep
  BY <1>1, <1>3, GenlPortEffect DEF SettingsOnly, VecInv
<1>4. CASE \E p \in PIdx : PortCleanupRcu(p)
  BY <1>1, <1>4 DEF PortCleanupRcu, Zeroed, VecInv
<1>5. CASE \E v \in AllVids : VlanDelRcu(v)
  BY <1>5 DEF VlanDelRcu
<1>. QED  BY <1>2, <1>3, <1>4, <1>5 DEF Next, RcuStep

LEMMA SlotHeldStep ==
    ASSUME BridgeInv, ControlStep, NEW c \in Inside, NEW s, SlotHeld(c, s)
    PROVE  SlotHeld(c, s)'
<1>1. /\ Next
      /\ s \in busy
      /\ rtnl.op = "add" => rtnl.pidx # s
      /\ rtnl.pc = "cleanup" => rtnl.pidx # s
  BY DEF ControlStep, SlotHeld
<1>2. s \in busy'
  BY <1>1, BusyStays
<1>3. /\ rtnl'.pc = "sync" => IF rtnl.pc = "sync" THEN readers'.sync = readers.sync
                                                  ELSE c \in readers'.sync
      /\ rtnl.pc = "sync" /\ rtnl'.pc # "sync" => readers.sync = {}
  BY DEF ControlStep, GraceStarted, GraceEnded
<1>4. CASE rtnl' = rtnl
  BY <1>2, <1>3, <1>4 DEF SlotHeld
<1>5. CASE RtnlStep
  BY <1>1, <1>2, <1>3, <1>5, RtnlMoves DEF SlotHeld, BridgeInv
<1>6. GenlStep \/ RcuStep => rtnl' = rtnl
  BY GenlPortEffect DEF BridgeInv, RcuStep, PortCleanupRcu, VlanDelRcu
<1>. QED  BY <1>1, <1>4, <1>5, <1>6 DEF Next

LEMMA VlanHeldStep ==
    ASSUME BridgeInv, ControlStep, NEW c \in Inside, NEW f, f.vlan \in AllVids, VlanHeld(c, f)
    PROVE  VlanHeld(c, f)'
<1>1. Next
  BY DEF ControlStep
<1>2. /\ vlan[f.vlan].mem # "dying" /\ vlan'[f.vlan].mem = "dying" => c \in readers'.vlan[f.vlan]
      /\ vlan[f.vlan].mem = "dying" /\ vlan'[f.vlan].mem = "dying" =>
            readers'.vlan[f.vlan] = readers.vlan[f.vlan]
      /\ vlan[f.vlan].mem = "dying" /\ vlan'[f.vlan].mem = "freed" => readers.vlan[f.vlan] = {}
  BY DEF ControlStep, GraceStarted, GraceEnded
<1>3. \/ vlan'[f.vlan].mem = vlan[f.vlan].mem
      \/ vlan[f.vlan].mem = "none"
      \/ vlan[f.vlan].mem = "live" /\ vlan'[f.vlan].mem = "dying"
      \/ vlan[f.vlan].mem = "dying" /\ vlan'[f.vlan].mem = "freed"
  BY <1>1, MemSteps DEF BridgeInv, Created, Deleted, Reclaimed
<1>. QED  BY <1>2, <1>3 DEF VlanHeld

LEMMA ControlInv ==
    ASSUME ForwardInv, ControlStep
    PROVE  ForwardInv'
<1>. USE DEF ForwardInv
<1>1. BridgeInv' /\ frame' = frame
  BY BridgeStep DEF ControlStep
<1>2. FrameTypeOK'
  <2>1. readers' \in [sync : SUBSET Cpus, port : [PIdx -> SUBSET Cpus],
                      vlan : [AllVids -> SUBSET Cpus]]
    <3>1. Inside \in SUBSET Cpus
      BY DEF Inside
    <3>. QED  BY <3>1 DEF FrameTypeOK, ControlStep, GraceStarted
  <2>. QED  BY <1>1, <2>1 DEF FrameTypeOK
<1>3. ASSUME NEW c \in Cpus PROVE FrameGood(c, frame[c])'
  <2>1. /\ frame[c] \in FrameState /\ StageInv(frame[c]) /\ VlanHeld(c, frame[c])
        /\ frame[c].pc # "idle" => SlotHeld(c, frame[c].slot) /\ IndexInv(frame[c])
    BY DEF FrameTypeOK, FrameInv, FrameGood
  <2>2. CASE frame[c].pc = "idle"
    BY <1>1, <2>1, <2>2 DEF FrameGood, StageInv, VlanHeld
  <2>3. CASE frame[c].pc # "idle"
    <3>1. c \in Inside
      BY <2>3 DEF Inside
    <3>2. SlotHeld(c, frame[c].slot)'
      BY <1>1, <2>1, <2>3, <3>1, SlotHeldStep
    <3>3. IndexInv(frame[c])'
      BY <1>1, <2>1, <2>3, BusyStays DEF ControlStep, IndexInv, SlotHeld
    <3>4. VlanHeld(c, frame[c])'
      <4>1. frame[c].live => frame[c].vlan \in AllVids
        BY <2>1 DEF StageInv, FrameState
      <4>. QED  BY <1>1, <2>1, <3>1, <4>1, VlanHeldStep DEF VlanHeld
    <3>. QED  BY <1>1, <2>1, <3>2, <3>3, <3>4 DEF FrameGood, StageInv
  <2>. QED  BY <2>2, <2>3
<1>. QED  BY <1>1, <1>2, <1>3 DEF FrameInv

-----------------------------------------------------------------------------
(* Frame steps                                                              *)

\* What CPU c does with the frame it has.
FrameMoves(c) ==
    \/ \E tag \in Tags : Transmit(c, tag) \/ \E d \in Devs : Receive(c, d, tag)
    \/ CopyFlags(c) \/ CopyVlan(c)
    \/ IngressUnfiltered(c) \/ IngressFiltered(c) \/ IngressNoMemory(c)
    \/ FdbForward(c) \/ Deliver(c) \/ DeliverMalformed(c)

LEMMA FrameMovesOnly ==
    ASSUME FrameStep
    PROVE  \E c \in Cpus : FrameMoves(c)
BY DEF FrameStep, FrameMoves

LEMMA NoFrameType == NoFrame \in FrameState /\ (\A c : FrameGood(c, NoFrame))
<1>1. NoFrame \in FrameState
  BY RestTypes DEF NoFrame, FrameState
<1>2. ASSUME NEW c PROVE FrameGood(c, NoFrame)
  BY DEF NoFrame, FrameGood, StageInv, VlanHeld
<1>. QED  BY <1>1, <1>2

\* A CPU goes on with a good frame, or lets go of the one it has.
LEMMA ContinueInv ==
    ASSUME ForwardInv, NEW c \in Cpus, NEW f \in FrameState, FrameGood(c, f), Continue(c, f)
    PROVE  ForwardInv'
<1>. USE DEF ForwardInv
<1>1. UNCHANGED <<vars, readers>> /\ frame' = [frame EXCEPT ![c] = f]
  BY DEF Continue
<1>2. BridgeInv'
  BY <1>1, BridgeStep
<1>3. /\ frame'[c] = f
      /\ \A b \in Cpus \ {c} : frame'[b] = frame[b]
      /\ frame' \in [Cpus -> FrameState]
  BY <1>1 DEF FrameTypeOK
<1>4. FrameTypeOK'
  BY <1>1, <1>3 DEF FrameTypeOK, FrameGood, StageInv
<1>5. ASSUME NEW b \in Cpus, NEW g, frame'[b] = g, FrameGood(b, g)
      PROVE  FrameGood(b, frame[b])'
  BY <1>1, <1>5 DEF vars, FrameGood, StageInv, SlotHeld, IndexInv, VlanHeld
<1>6. \A b \in Cpus : FrameGood(b, frame[b])'
  BY <1>3, <1>5 DEF FrameInv
<1>. QED  BY <1>2, <1>4, <1>6 DEF FrameInv

LEMMA LeaveInv ==
    ASSUME ForwardInv, NEW c \in Cpus, Leave(c)
    PROVE  ForwardInv'
<1>. USE DEF ForwardInv
<1>1. /\ UNCHANGED vars
      /\ frame' = [frame EXCEPT ![c] = NoFrame]
      /\ readers' = [sync |-> readers.sync \ {c},
                     port |-> [p \in PIdx |-> readers.port[p] \ {c}],
                     vlan |-> [v \in AllVids |-> readers.vlan[v] \ {c}]]
  BY DEF Leave
<1>2. BridgeInv'
  BY <1>1, BridgeStep
<1>3. /\ frame'[c] = NoFrame
      /\ \A b \in Cpus \ {c} : frame'[b] = frame[b]
      /\ frame' \in [Cpus -> FrameState]
  BY <1>1, NoFrameType DEF FrameTypeOK
<1>4. FrameTypeOK'
  <2>1. readers' \in [sync : SUBSET Cpus, port : [PIdx -> SUBSET Cpus],
                      vlan : [AllVids -> SUBSET Cpus]]
    BY <1>1 DEF FrameTypeOK
  <2>. QED  BY <1>3, <2>1 DEF FrameTypeOK, NoFrame
<1>5. FrameGood(c, frame[c])'
  BY <1>3 DEF NoFrame, FrameGood, StageInv, VlanHeld
<1>6. ASSUME NEW b \in Cpus \ {c} PROVE FrameGood(b, frame[b])'
  <2>1. frame'[b] = frame[b] /\ FrameGood(b, frame[b]) /\ frame[b] \in FrameState
    BY <1>3 DEF FrameInv, FrameTypeOK
  <2>2. /\ b \in readers'.sync <=> b \in readers.sync
        /\ \A v \in AllVids : b \in readers'.vlan[v] <=> b \in readers.vlan[v]
    BY <1>1
  <2>3. frame[b].pc # "idle" /\ SlotHeld(b, frame[b].slot) =>
           SlotHeld(b, frame[b].slot)'
    BY <1>1, <2>1, <2>2 DEF vars, SlotHeld
  <2>4. VlanHeld(b, frame[b])'
    <3>1. frame[b].live => frame[b].vlan \in AllVids
      BY <2>1 DEF FrameGood, StageInv, FrameState
    <3>. QED  BY <1>1, <2>1, <2>2, <3>1 DEF vars, FrameGood, VlanHeld
  <2>. QED  BY <1>1, <2>1, <2>3, <2>4 DEF vars, FrameGood, StageInv, IndexInv
<1>. QED  BY <1>2, <1>4, <1>5, <1>6 DEF FrameInv

LEMMA CrashInv ==
    ASSUME ForwardInv, NEW kind \in {"null", "uaf", "wild", "skb"}, Crash(kind)
    PROVE  ForwardInv'
<1>1. BridgeInv'
  BY BridgeFault DEF ForwardInv, Crash
<1>2. FrameTypeOK'
  BY DEF ForwardInv, Crash, FrameTypeOK
<1>3. FrameInv'
  BY DEF ForwardInv, Crash, Faulted, FrameInv, FrameGood, StageInv, SlotHeld, IndexInv, VlanHeld
<1>. QED  BY <1>1, <1>2, <1>3 DEF ForwardInv

\* A slot with a receive handler, and slot 0, can be entered at any time.
LEMMA EnteredIsHeld ==
    ASSUME Inv, NEW c, NEW s, \/ s = 0
                              \/ s # Null /\ \E d \in Devs : dev[d].rx = s
    PROVE  SlotHeld(c, s) /\ s \in PIdx
<1>1. /\ rtnl.op = "add" => AddHeld(dev[rtnl.dev], rtnl.pc) /\ rtnl.pidx # 0
      /\ rtnl.pc \in {"sync", "release", "cleanup"} =>
            DelHeld(dev[rtnl.dev], rtnl.pc, rtnl.pidx) /\ rtnl.pidx # 0
  <2>1. rtnl.op \in {"idle", "add", "del", "dellink"}
    BY DEF Inv, TypeOK, RtnlState
  <2>2. rtnl.pc \in {"sync", "release", "cleanup"} => rtnl.op \in {"del", "dellink"}
    BY <2>1 DEF Inv, RtnlInv, RtnlIdle, AddInv, AddPcs
  <2>. QED  BY <2>2 DEF Inv, AddInv, DelInv
<1>2. CASE s = 0
  BY <1>1, <1>2, RestTypes DEF Inv, SlotInv, SlotHeld
<1>3. ASSUME s # Null, NEW d \in Devs, dev[d].rx = s PROVE SlotHeld(c, s) /\ s \in PIdx
  <2>1. s \in busy /\ s \in PIdx /\ (d # rtnl.dev => s # rtnl.pidx)
    BY <1>3 DEF Inv, TypeOK, SlotInv
  <2>2. rtnl.op = "add" \/ rtnl.pc \in {"sync", "release", "cleanup"} => d # rtnl.dev
    BY <1>1, <1>3 DEF AddHeld, DelHeld, Holds
  <2>. QED  BY <2>1, <2>2 DEF SlotHeld
<1>. QED  BY <1>2, <1>3

LEMMA EnterInv ==
    ASSUME ForwardInv, NEW c \in Cpus, NEW tag \in Tags,
           Transmit(c, tag) \/ \E d \in Devs : Receive(c, d, tag)
    PROVE  ForwardInv'
<1>1. PICK s : /\ s = 0 \/ (s # Null /\ \E d \in Devs : dev[d].rx = s)
               /\ Continue(c, [NoFrame EXCEPT !.pc = "flags", !.slot = s, !.tag = tag])
  BY DEF Transmit, Receive
<1>2. SlotHeld(c, s) /\ s \in PIdx /\ tag \in AllVids
  BY <1>1, EnteredIsHeld, TagsAssumption DEF ForwardInv, BridgeInv
<1>. DEFINE f == [NoFrame EXCEPT !.pc = "flags", !.slot = s, !.tag = tag]
<1>3. f \in FrameState
  BY <1>2, NoFrameType DEF FrameState
<1>4. /\ f.pc = "flags" /\ f.slot = s /\ f.vlan = Null /\ f.vec = {} /\ f.allow = FALSE
      /\ f.live = FALSE /\ f.sent = {}
  BY DEF NoFrame
<1>5. Continue(c, f)
  BY <1>1
<1>. HIDE DEF f
<1>6. FrameGood(c, f)
  BY <1>2, <1>4 DEF FrameGood, StageInv, IndexInv, VlanHeld
<1>. QED  BY <1>3, <1>5, <1>6, ContinueInv

\* What a CPU's frame is good for.
LEMMA FrameFacts ==
    ASSUME ForwardInv, NEW c \in Cpus
    PROVE  /\ frame[c] \in FrameState /\ FrameGood(c, frame[c])
           /\ frame[c].slot \in PIdx
           /\ frame[c].vlan # Null => frame[c].vlan \in AllVids
           /\ port[frame[c].slot] \in PortState
           /\ \A v \in AllVids : vlan[v].members \in SUBSET PIdx
BY DEF ForwardInv, BridgeInv, Inv, TypeOK, FrameTypeOK, FrameInv, FrameState, VlanState

LEMMA CopyFlagsInv ==
    ASSUME ForwardInv, NEW c \in Cpus, CopyFlags(c)
    PROVE  ForwardInv'
<1>. DEFINE g == frame[c]
            f == [g EXCEPT !.pc = "vlan", !.pidx = port[g.slot].pidx,
                           !.filtering = port[g.slot].filtering]
<1>1. g \in FrameState /\ FrameGood(c, g) /\ g.pc = "flags" /\ port[g.slot] \in PortState
  BY FrameFacts DEF CopyFlags, FrameAt
<1>2. f \in FrameState
  BY <1>1 DEF FrameState, PortState
<1>3. /\ f.pc = "vlan" /\ f.pidx = port[g.slot].pidx /\ f.slot = g.slot /\ f.vlan = g.vlan
      /\ f.vec = g.vec /\ f.allow = g.allow /\ f.live = g.live /\ f.sent = g.sent
  BY <1>1 DEF FrameState
<1>4. Continue(c, f)
  BY DEF CopyFlags
<1>. HIDE DEF f
<1>5. port[g.slot].pidx = g.slot \/ g.slot \in tainted
  <2>1. g.slot \in PIdx /\ g.slot \in busy
    BY <1>1 DEF FrameGood, SlotHeld, FrameState
  <2>. QED  BY <2>1 DEF ForwardInv, BridgeInv, CleanInv, Held, Initialised
<1>6. StageInv(f) /\ VlanHeld(c, f)
  BY <1>1, <1>3 DEF FrameGood, StageInv, VlanHeld
<1>7. SlotHeld(c, f.slot) /\ IndexInv(f)
  BY <1>1, <1>3, <1>5 DEF FrameGood, StageInv, IndexInv
<1>8. FrameGood(c, f)
  BY <1>6, <1>7 DEF FrameGood
<1>. QED  BY <1>2, <1>4, <1>8, ContinueInv

LEMMA CopyVlanInv ==
    ASSUME ForwardInv, NEW c \in Cpus, CopyVlan(c)
    PROVE  ForwardInv'
<1>. DEFINE g == frame[c]
            p == port[g.slot]
            f == [g EXCEPT !.pc = "ingress", !.vlan = p.vlan, !.live = Live(p.vlan),
                           !.vec = p.vec]
<1>1. g \in FrameState /\ FrameGood(c, g) /\ g.pc = "vlan" /\ p \in PortState /\ g.slot \in PIdx
  BY FrameFacts DEF CopyVlan, FrameAt
<1>2. CASE Crash("wild")
  BY <1>2, CrashInv
<1>3. CASE p.pidx = g.slot /\ Continue(c, f)
  <2>1. Live(p.vlan) \in BOOLEAN /\ (Live(p.vlan) => p.vlan # Null /\ vlan[p.vlan].mem = "live")
    BY DEF Live
  <2>2. f \in FrameState
    BY <1>1, <2>1 DEF FrameState, PortState
  <2>3. /\ f.pc = "ingress" /\ f.pidx = g.pidx /\ f.slot = g.slot /\ f.vlan = p.vlan
        /\ f.vec = p.vec /\ f.allow = g.allow /\ f.live = Live(p.vlan) /\ f.sent = g.sent
    BY <1>1 DEF FrameState
  <2>4. /\ p.vec \in {{}, PIdx \ {g.slot}} /\ (p.vec # {} => g.pidx = g.slot)
        /\ g.pidx = g.slot \/ g.slot \in tainted
    BY <1>1, <1>3 DEF ForwardInv, BridgeInv, VecInv, FrameGood, IndexInv
  <2>. HIDE DEF f
  <2>5. FrameGood(c, f)
    BY <1>1, <2>1, <2>3, <2>4 DEF FrameGood, StageInv, IndexInv, VlanHeld
  <2>. QED  BY <1>3, <2>2, <2>5, ContinueInv
<1>. QED  BY <1>2, <1>3 DEF CopyVlan

LEMMA IngressInv ==
    ASSUME ForwardInv, NEW c \in Cpus, IngressUnfiltered(c) \/ IngressFiltered(c)
    PROVE  ForwardInv'
<1>. DEFINE g == frame[c]
<1>1. /\ g \in FrameState /\ FrameGood(c, g) /\ g.pc = "ingress"
      /\ \A v \in AllVids : vlan[v].members \in SUBSET PIdx
  BY FrameFacts DEF IngressUnfiltered, IngressFiltered, FrameAt
<1>2. \A kind \in {"null", "uaf", "skb"} : Crash(kind) => ForwardInv'
  BY CrashInv
<1>3. ASSUME NEW f, Continue(c, f),
             f.pc = "fdb", f.slot = g.slot, f.tag = g.tag, f.pidx = g.pidx, f.sent = g.sent,
             f.filtering = g.filtering, f \in FrameState,
             f.vec \in SUBSET g.vec, f.allow => f.vlan # Null,
             f.live => \/ f.vlan = g.vlan /\ g.live
                       \/ f.vlan # Null /\ vlan[f.vlan].mem = "live"
      PROVE  ForwardInv'
  <2>1. FrameGood(c, f)
    BY <1>1, <1>3 DEF FrameGood, StageInv, IndexInv, VlanHeld
  <2>. QED  BY <1>3, <2>1, ContinueInv
<1>4. CASE IngressUnfiltered(c)
  <2>. DEFINE f == [g EXCEPT !.pc = "fdb", !.allow = TRUE, !.vec = @ \cap vlan[g.vlan].members]
  <2>1. CASE g.vlan # Null /\ Continue(c, f)
    <3>1. g.vlan \in AllVids
      BY <1>1, <2>1 DEF FrameState
    <3>2. f \in FrameState
      BY <1>1, <3>1 DEF FrameState
    <3>3. /\ f.pc = "fdb" /\ f.slot = g.slot /\ f.tag = g.tag /\ f.pidx = g.pidx
          /\ f.sent = g.sent /\ f.filtering = g.filtering /\ f.vlan = g.vlan /\ f.live = g.live
          /\ f.vec = g.vec \cap vlan[g.vlan].members
      BY <1>1 DEF FrameState
    <3>. HIDE DEF f
    <3>. QED  BY <1>3, <2>1, <3>2, <3>3
  <2>. QED  BY <1>2, <1>4, <2>1 DEF IngressUnfiltered
<1>5. CASE IngressFiltered(c)
  <2>. DEFINE v == IF g.tag # 0 THEN VlanFind(g.tag) ELSE g.vlan
              live == IF g.tag # 0 THEN Live(v) ELSE g.live
              f == [g EXCEPT !.pc = "fdb", !.vlan = v, !.live = live]
              h == [f EXCEPT !.allow = TRUE, !.vec = @ \cap vlan[v].members]
  <2>1. /\ v \in AllVids \cup {Null}
        /\ live \in BOOLEAN
        /\ live => (v = g.vlan /\ g.live) \/ (v # Null /\ vlan[v].mem = "live")
    BY <1>1 DEF VlanFind, Live, FrameState
  <2>2. \/ Continue(c, f)
        \/ v # Null /\ Continue(c, h)
        \/ Crash("uaf")
    BY <1>5 DEF IngressFiltered
  <2>. HIDE DEF v, live
  <2>3. f \in FrameState
    BY <1>1, <2>1 DEF FrameState
  <2>4. /\ f.pc = "fdb" /\ f.slot = g.slot /\ f.tag = g.tag /\ f.pidx = g.pidx
        /\ f.sent = g.sent /\ f.filtering = g.filtering /\ f.vlan = v /\ f.live = live
        /\ f.vec = g.vec /\ f.allow = g.allow
    BY <1>1 DEF FrameState
  <2>. HIDE DEF f
  <2>5. CASE Continue(c, f)
    <3>1. ~g.allow
      BY <1>1 DEF FrameGood, StageInv
    <3>. QED  BY <1>3, <2>1, <2>3, <2>4, <2>5, <3>1
  <2>6. CASE v # Null /\ Continue(c, h)
    <3>1. h \in FrameState
      BY <1>1, <2>1, <2>3, <2>6 DEF FrameState
    <3>2. /\ h.pc = "fdb" /\ h.slot = g.slot /\ h.tag = g.tag /\ h.pidx = g.pidx
          /\ h.sent = g.sent /\ h.filtering = g.filtering /\ h.vlan = v /\ h.live = live
          /\ h.vec = g.vec \cap vlan[v].members
      BY <2>3, <2>4 DEF FrameState
    <3>. HIDE DEF h
    <3>. QED  BY <1>3, <2>1, <2>6, <3>1, <3>2
  <2>. QED  BY <1>2, <2>2, <2>5, <2>6
<1>. QED  BY <1>4, <1>5

LEMMA FdbForwardInv ==
    ASSUME ForwardInv, NEW c \in Cpus, FdbForward(c)
    PROVE  ForwardInv'
<1>. DEFINE g == frame[c]
            f(hint) == [g EXCEPT !.pc = "deliver", !.vec = @ \cap hint]
<1>1. g \in FrameState /\ FrameGood(c, g) /\ g.pc = "fdb"
  BY FrameFacts DEF FdbForward, FrameAt
<1>2. ASSUME NEW hint \in SUBSET PIdx, g.allow, g.vec \cap hint # {}, Continue(c, f(hint))
      PROVE  ForwardInv'
  <2>1. f(hint) \in FrameState
    BY <1>1, <1>2 DEF FrameState
  <2>2. /\ f(hint).pc = "deliver" /\ f(hint).slot = g.slot /\ f(hint).pidx = g.pidx
        /\ f(hint).vlan = g.vlan /\ f(hint).vec = g.vec \cap hint /\ f(hint).allow = g.allow
        /\ f(hint).live = g.live
    BY <1>1 DEF FrameState
  <2>. HIDE DEF f
  <2>3. FrameGood(c, f(hint))
    BY <1>1, <1>2, <2>2 DEF FrameGood, StageInv, IndexInv, VlanHeld
  <2>. QED  BY <1>2, <2>1, <2>3, ContinueInv
<1>3. \/ \E hint \in SUBSET PIdx : g.allow /\ g.vec \cap hint # {} /\ Continue(c, f(hint))
      \/ Leave(c) \/ Crash("null") \/ Crash("uaf")
  BY DEF FdbForward
<1>. HIDE DEF f
<1>. QED  BY <1>2, <1>3, LeaveInv, CrashInv

\* ubr_deliver always has a slot to send to, and one left until it is done.
LEMMA NextEgressIsNext ==
    ASSUME NEW vec \in SUBSET PIdx, vec # {}
    PROVE  /\ NextEgress(vec) \in vec
           /\ vec # {NextEgress(vec)} => vec \ {NextEgress(vec)} # {}
<1>1. Least(vec) \in vec
  BY LeastIsMinimum
<1>2. CASE vec = {Least(vec)}
  BY <1>1, <1>2 DEF NextEgress
<1>3. CASE vec # {Least(vec)}
  <2>1. vec \ {Least(vec)} # {} /\ vec \ {Least(vec)} \subseteq PIdx
    BY <1>1, <1>3
  <2>2. Least(vec \ {Least(vec)}) \in vec \ {Least(vec)}
    BY <2>1, LeastIsMinimum
  <2>3. NextEgress(vec) = Least(vec \ {Least(vec)})
    BY <1>3 DEF NextEgress
  <2>. QED  BY <1>1, <2>2, <2>3
<1>. QED  BY <1>2, <1>3

LEMMA DeliverInv ==
    ASSUME ForwardInv, NEW c \in Cpus, Deliver(c)
    PROVE  ForwardInv'
<1>. DEFINE g == frame[c]
            e == NextEgress(g.vec)
            f == [g EXCEPT !.vec = @ \ {e}, !.sent = @ \cup {e}]
<1>1. g \in FrameState /\ FrameGood(c, g) /\ g.pc = "deliver"
  BY FrameFacts DEF Deliver, FrameAt
<1>2. g.vec # {} /\ g.vec \in SUBSET PIdx
  BY <1>1 DEF FrameGood, StageInv, FrameState
<1>3. e \in g.vec /\ (g.vec # {e} => g.vec \ {e} # {})
  BY <1>2, NextEgressIsNext
<1>4. \/ g.vec # {e} /\ Continue(c, f)
      \/ Leave(c) \/ Crash("null") \/ Crash("uaf")
  BY DEF Deliver
<1>. HIDE DEF e
<1>5. CASE g.vec # {e} /\ Continue(c, f)
  <2>1. f \in FrameState
    BY <1>1, <1>2, <1>3 DEF FrameState
  <2>2. /\ f.pc = g.pc /\ f.slot = g.slot /\ f.pidx = g.pidx /\ f.vlan = g.vlan
        /\ f.vec = g.vec \ {e} /\ f.allow = g.allow /\ f.live = g.live
    BY <1>1 DEF FrameState
  <2>. HIDE DEF f
  <2>3. FrameGood(c, f)
    BY <1>1, <1>3, <1>5, <2>2 DEF FrameGood, StageInv, IndexInv, VlanHeld
  <2>. QED  BY <1>5, <2>1, <2>3, ContinueInv
<1>. QED  BY <1>4, <1>5, LeaveInv, CrashInv

LEMMA ForwardInit_Inv == ForwardInit => ForwardInv
<1>. SUFFICES ASSUME ForwardInit PROVE ForwardInv
  OBVIOUS
<1>1. BridgeInv
  BY InitInv, SlotsInit, VecInit DEF ForwardInit, BridgeInv
<1>2. \A c \in Cpus : frame[c] = NoFrame
  BY DEF ForwardInit
<1>3. FrameTypeOK
  <2>1. \A c \in Cpus : ~frame[c].allow
    BY <1>2 DEF NoFrame
  <2>. QED  BY <2>1, NoFrameType DEF ForwardInit, FrameTypeOK
<1>4. FrameInv
  BY <1>2, NoFrameType DEF FrameInv
<1>. QED  BY <1>1, <1>3, <1>4 DEF ForwardInv

LEMMA ForwardStepInv ==
    ASSUME ForwardInv, [ForwardNext]_fvars
    PROVE  ForwardInv'
<1>1. CASE UNCHANGED fvars
  <2>1. UNCHANGED <<vars, frame, readers>>
    BY <1>1 DEF fvars
  <2>2. BridgeInv'
    BY <2>1, BridgeStep DEF ForwardInv
  <2>3. FrameTypeOK' /\ FrameInv'
    BY <2>1 DEF vars, ForwardInv, FrameTypeOK, FrameInv, FrameGood, StageInv, SlotHeld, IndexInv,
                VlanHeld
  <2>. QED  BY <2>2, <2>3 DEF ForwardInv
<1>2. CASE ControlStep
  BY <1>2, ControlInv
<1>3. CASE FrameStep
  <2>1. PICK c \in Cpus : FrameMoves(c)
    BY <1>3, FrameMovesOnly
  <2>2. IngressNoMemory(c) \/ DeliverMalformed(c) => ForwardInv'
    BY CrashInv DEF IngressNoMemory, DeliverMalformed
  <2>. QED  BY <2>1, <2>2, EnterInv, CopyFlagsInv, CopyVlanInv, IngressInv, FdbForwardInv,
               DeliverInv DEF FrameMoves
<1>. QED  BY <1>1, <1>2, <1>3 DEF ForwardNext

-----------------------------------------------------------------------------
(* Theorems                                                                 *)

THEOREM ForwardInvariance == ForwardSpec => []ForwardInv
<1>1. ForwardInv /\ [ForwardNext]_fvars => ForwardInv'
  BY ForwardStepInv
<1>. QED  BY <1>1, ForwardInit_Inv, PTL DEF ForwardSpec

\* Frames and grace periods stay in their types, and no frame is allowed on
\* without a VLAN.
THEOREM FramesAreTyped == ForwardSpec => []FrameTypeOK
<1>1. ForwardInv => FrameTypeOK
  BY DEF ForwardInv
<1>. QED  BY <1>1, ForwardInvariance, PTL

\* ubr_port_init leaves a port's own bit out of its egress vector, and nothing
\* that happens to the slot while the frame is under way puts it back in.
THEOREM FramesAreNotReflected == ForwardSpec => []NoReflection
<1>1. ForwardInv => NoReflection
  BY DEF ForwardInv, FrameInv, FrameGood, StageInv, NoReflection
<1>. QED  BY <1>1, ForwardInvariance, PTL

\* netdev_rx_handler_unregister waits for the frames that came in through a
\* slot before ubr_port_cleanup gives the slot back.
THEOREM SlotOutlivesFrame == ForwardSpec => []ReceivingSlotHeld
<1>1. ForwardInv => ReceivingSlotHeld
  <2>. SUFFICES ASSUME ForwardInv, NEW c \in Cpus, frame[c].pc # "idle"
                PROVE  /\ frame[c].slot \in busy
                       /\ frame[c].pc # "flags" /\ frame[c].slot \notin tainted
                             => frame[c].pidx = frame[c].slot
    BY DEF ReceivingSlotHeld
  <2>. DEFINE s == frame[c].slot
  <2>1. s \in PIdx /\ s \in busy /\ IndexInv(frame[c]) /\ frame[c] \in FrameState
    BY FrameFacts DEF FrameGood, SlotHeld
  <2>. QED  BY <2>1 DEF IndexInv, FrameState
<1>. QED  BY <1>1, ForwardInvariance, PTL

\* call_rcu in ubr_vlan_del protects the frames that found the VLAN before.
THEOREM LiveVlanOutlivesFrame == ForwardSpec => []VlanOutlivesFrame
<1>1. ForwardInv => VlanOutlivesFrame
  BY DEF ForwardInv, FrameInv, FrameGood, VlanHeld, VlanOutlivesFrame
<1>. QED  BY <1>1, ForwardInvariance, PTL
-----------------------------------------------------------------------------
(* Where a frame can go wrong                                               *)

\* A CPU that faults changes nothing else, in a bridge that was sound so far.
LEMMA FaultIsLast ==
    ASSUME NEW c \in Cpus, FrameMoves(c)
    PROVE  fault = "none" /\ (UNCHANGED vars \/ \E kind : Crash(kind))
<1>1. fault = "none"
  BY DEF FrameMoves, Transmit, Receive, CopyFlags, CopyVlan, IngressUnfiltered, IngressFiltered,
         IngressNoMemory, FdbForward, Deliver, DeliverMalformed, FrameAt
<1>2. \A f : Continue(c, f) => UNCHANGED vars
  BY DEF Continue
<1>3. Leave(c) => UNCHANGED vars
  BY DEF Leave
<1>4. CASE \/ \E tag \in Tags : Transmit(c, tag) \/ \E d \in Devs : Receive(c, d, tag)
           \/ CopyFlags(c) \/ CopyVlan(c)
  BY <1>1, <1>4 DEF Transmit, Receive, CopyFlags, CopyVlan, Continue
<1>5. CASE IngressUnfiltered(c) \/ IngressFiltered(c) \/ IngressNoMemory(c)
  BY <1>1, <1>5 DEF IngressUnfiltered, IngressFiltered, IngressNoMemory, Continue
<1>6. CASE FdbForward(c) \/ Deliver(c) \/ DeliverMalformed(c)
  BY <1>1, <1>3, <1>6 DEF FdbForward, Deliver, DeliverMalformed, Continue
<1>. QED  BY <1>4, <1>5, <1>6 DEF FrameMoves

\* A fault of the data path has one of the causes FrameCrashCauses names, in the
\* state it happens in.
LEMMA FrameFaultCause ==
    ASSUME ForwardInv, NEW c \in Cpus, FrameMoves(c), fault' # fault
    PROVE  fault' = "skb" \/ CommandCause \/ FrameCause(c)
<1>. DEFINE g == frame[c]
<1>1. /\ g \in FrameState /\ StageInv(g) /\ VlanHeld(c, g) /\ g.slot \in PIdx
      /\ g.pc # "idle" => g.slot \in busy
  BY FrameFacts DEF FrameGood, SlotHeld
<1>2. ~UNCHANGED vars /\ (\A f : ~Continue(c, f)) /\ ~Leave(c)
  BY DEF vars, Continue, Leave
<1>3. ASSUME NEW p \in busy, port[p].dev = Null \/ port[p].pidx # p PROVE CommandCause
  <2>1. p \in PIdx /\ Held(p)
    BY DEF ForwardInv, BridgeInv, Inv, TypeOK, Held
  <2>. QED  BY <1>3, <2>1, HeldIsInitialised DEF ForwardInv, BridgeInv, CommandCause
<1>4. g.vlan # Null /\ vlan[g.vlan].mem = "freed" => FrameCause(c)
  BY <1>1 DEF VlanHeld, FrameCause
<1>5. CASE \/ \E tag \in Tags : Transmit(c, tag) \/ \E d \in Devs : Receive(c, d, tag)
           \/ CopyFlags(c)
  BY <1>2, <1>5 DEF Transmit, Receive, CopyFlags
<1>6. CASE CopyVlan(c)
  <2>1. g.pc = "vlan" /\ port[g.slot].pidx # g.slot
    BY <1>2, <1>6 DEF CopyVlan, FrameAt
  <2>. QED  BY <1>1, <1>3, <2>1
<1>7. CASE IngressUnfiltered(c)
  <2>1. g.pc = "ingress" /\ (g.vlan = Null \/ vlan[g.vlan].mem = "freed")
    BY <1>2, <1>7 DEF IngressUnfiltered, FrameAt
  <2>2. g.vlan = Null => FrameCause(c)
    BY <2>1 DEF FrameCause
  <2>. QED  BY <1>4, <2>1, <2>2
<1>8. CASE IngressFiltered(c)
  <2>. DEFINE v == IF g.tag # 0 THEN VlanFind(g.tag) ELSE g.vlan
  <2>1. g.pc = "ingress" /\ g.filtering /\ v # Null /\ vlan[v].mem = "freed"
    BY <1>2, <1>8 DEF IngressFiltered, FrameAt
  <2>2. CASE g.tag # 0
    <3>1. vlan[g.tag].mem = "freed"
      BY <2>1, <2>2 DEF VlanFind
    <3>. QED  BY <2>1, <3>1 DEF FrameCause
  <2>3. CASE g.tag = 0
    BY <1>4, <2>1, <2>3
  <2>. QED  BY <2>2, <2>3
<1>9. CASE FdbForward(c)
  <2>1. g.pc = "fdb" /\ (g.vlan = Null \/ vlan[g.vlan].mem = "freed")
    BY <1>2, <1>9 DEF FdbForward, FrameAt
  <2>2. g.vlan = Null => FrameCause(c)
    BY <2>1 DEF FrameCause
  <2>. QED  BY <1>4, <2>1, <2>2
<1>10. CASE Deliver(c)
  <2>. DEFINE e == NextEgress(g.vec)
  <2>1. g.pc = "deliver" /\ (port[e].dev = Null \/ (g.filtering /\ vlan[g.vlan].mem = "freed"))
    BY <1>2, <1>10 DEF Deliver, FrameAt
  <2>2. e \notin busy => FrameCause(c)
    BY <2>1 DEF FrameCause
  <2>3. g.vlan # Null
    BY <1>1, <2>1 DEF StageInv
  <2>. HIDE DEF e
  <2>. QED  BY <1>3, <1>4, <2>1, <2>2, <2>3
<1>11. CASE IngressNoMemory(c) \/ DeliverMalformed(c)
  BY <1>11 DEF IngressNoMemory, DeliverMalformed, Crash, Faulted
<1>. QED  BY <1>5, <1>6, <1>7, <1>8, <1>9, <1>10, <1>11 DEF FrameMoves

LEMMA FrameCrashStep ==
    ASSUME ForwardInv, FrameCrashCauses, [ForwardNext]_fvars
    PROVE  FrameCrashCauses'
<1>1. ASSUME UNCHANGED <<link, busy, vlan, genl, tainted, frame>>
      PROVE  (CommandCause => CommandCause') /\ \A c \in Cpus : FrameCause(c) => FrameCause(c)'
  BY <1>1 DEF CommandCause, FrameCause
<1>2. CASE UNCHANGED fvars
  <2>1. UNCHANGED <<link, busy, vlan, genl, tainted, frame, fault>>
    BY <1>2 DEF fvars, vars
  <2>. QED  BY <1>1, <2>1 DEF FrameCrashCauses
<1>3. CASE ControlStep
  <2>1. Next
    BY <1>3 DEF ControlStep
  <2>2. fault' # "none" => CommandCause'
    BY <2>1, FaultEndsBridge, CommandFaults DEF ForwardInv, BridgeInv
  <2>. QED  BY <2>2 DEF FrameCrashCauses
<1>4. CASE FrameStep
  <2>1. PICK c \in Cpus : FrameMoves(c)
    BY <1>4, FrameMovesOnly
  <2>2. fault = "none" /\ (UNCHANGED vars \/ \E kind : Crash(kind))
    BY <2>1, FaultIsLast
  <2>3. CASE UNCHANGED vars
    BY <2>2, <2>3 DEF vars, FrameCrashCauses
  <2>4. CASE fault' # fault /\ \E kind : Crash(kind)
    <3>1. fault' = "skb" \/ CommandCause \/ FrameCause(c)
      BY <2>1, <2>4, FrameFaultCause
    <3>2. UNCHANGED <<link, busy, vlan, genl, tainted, frame>>
      BY <2>4 DEF Crash, Faulted
    <3>. QED  BY <1>1, <3>1, <3>2 DEF FrameCrashCauses
  <2>5. CASE fault' = fault
    BY <2>2, <2>5 DEF FrameCrashCauses
  <2>. QED  BY <2>2, <2>3, <2>4, <2>5
<1>. QED  BY <1>2, <1>3, <1>4 DEF ForwardNext

\* A frame crashes the kernel only where FrameCrashCauses says.
THEOREM FrameCrashesHaveCauses == ForwardSpec => []FrameCrashCauses
<1>1. ForwardInit => FrameCrashCauses
  BY DEF ForwardInit, Init, FrameCrashCauses
<1>2. ForwardInv /\ FrameCrashCauses /\ [ForwardNext]_fvars => FrameCrashCauses'
  BY FrameCrashStep
<1>. QED  BY <1>1, <1>2, ForwardInvariance, PTL DEF ForwardSpec
-----------------------------------------------------------------------------
(* The data path is a switch                                                *)

LEMMA MembersType ==
    ASSUME Inv
    PROVE  Members \in [AllVids -> SUBSET PIdx]
BY DEF Members, Inv, TypeOK, VlanState

\* A CPU's new frame is the switch's new frame.
LEMMA AdmittedMoves ==
    ASSUME FrameTypeOK, NEW c \in Cpus, NEW f, frame' = [frame EXCEPT ![c] = f]
    PROVE  AdmittedFrames' = [AdmittedFrames EXCEPT ![c] = Admitted(f)]
<1>1. \A b \in Cpus : frame'[b] = IF b = c THEN f ELSE frame[b]
  BY DEF FrameTypeOK
<1>2. AdmittedFrames' = [b \in Cpus |-> Admitted(frame'[b])]
  BY DEF AdmittedFrames, Admitted
<1>3. AdmittedFrames = [b \in Cpus |-> Admitted(frame[b])]
  BY DEF AdmittedFrames
<1>4. AdmittedFrames' = [b \in Cpus |-> IF b = c THEN Admitted(f) ELSE Admitted(frame[b])]
  BY <1>1, <1>2
<1>. QED  BY <1>3, <1>4

LEMMA AdmittedStays ==
    ASSUME FrameTypeOK, NEW c \in Cpus, NEW f, frame' = [frame EXCEPT ![c] = f],
           Admitted(f) = Admitted(frame[c])
    PROVE  UNCHANGED AdmittedFrames
<1>1. AdmittedFrames' = [AdmittedFrames EXCEPT ![c] = Admitted(frame[c])]
  BY AdmittedMoves
<1>. QED  BY <1>1 DEF AdmittedFrames

\* Routing a frame, and sending a copy of it, field by field.
LEMMA RoutedFrame ==
    ASSUME NEW r, NEW scope,
           r = [stage |-> r.stage, slot |-> r.slot, strict |-> r.strict, tag |-> r.tag,
                vlan |-> r.vlan, scope |-> r.scope, sent |-> r.sent]
    PROVE  Switch!Routed(r, scope) =
              [stage |-> "delivering", slot |-> r.slot, strict |-> r.strict, tag |-> r.tag,
               vlan |-> r.vlan, scope |-> scope, sent |-> r.sent]
<1>. DEFINE staged == [r EXCEPT !.stage = "delivering"]
<1>1. staged = [stage |-> "delivering", slot |-> r.slot, strict |-> r.strict, tag |-> r.tag,
                vlan |-> r.vlan, scope |-> r.scope, sent |-> r.sent]
  OBVIOUS
<1>2. Switch!Routed(r, scope) = [staged EXCEPT !.scope = scope]
  BY DEF Switch!Routed
<1>. HIDE DEF staged
<1>3. [staged EXCEPT !.scope = scope] =
         [stage |-> "delivering", slot |-> r.slot, strict |-> r.strict, tag |-> r.tag,
          vlan |-> r.vlan, scope |-> scope, sent |-> r.sent]
  BY <1>1
<1>. QED  BY <1>2, <1>3

LEMMA SentFrame ==
    ASSUME NEW r, NEW e, r.scope # {e},
           r = [stage |-> r.stage, slot |-> r.slot, strict |-> r.strict, tag |-> r.tag,
                vlan |-> r.vlan, scope |-> r.scope, sent |-> r.sent]
    PROVE  Switch!Sent(r, e) =
              [stage |-> r.stage, slot |-> r.slot, strict |-> r.strict, tag |-> r.tag,
               vlan |-> r.vlan, scope |-> r.scope \ {e}, sent |-> r.sent \cup {e}]
<1>. DEFINE scoped == [r EXCEPT !.scope = r.scope \ {e}]
<1>1. scoped = [stage |-> r.stage, slot |-> r.slot, strict |-> r.strict, tag |-> r.tag,
                vlan |-> r.vlan, scope |-> r.scope \ {e}, sent |-> r.sent]
  OBVIOUS
<1>2. Switch!Sent(r, e) = [scoped EXCEPT !.sent = r.sent \cup {e}]
  BY DEF Switch!Sent
<1>. HIDE DEF scoped
<1>3. [scoped EXCEPT !.sent = r.sent \cup {e}] =
         [stage |-> r.stage, slot |-> r.slot, strict |-> r.strict, tag |-> r.tag,
          vlan |-> r.vlan, scope |-> r.scope \ {e}, sent |-> r.sent \cup {e}]
  BY <1>1
<1>. QED  BY <1>2, <1>3

LEMMA MembersStay ==
    ASSUME UNCHANGED vlan
    PROVE  UNCHANGED Members
BY DEF Members

LEMMA LeaveDrops ==
    ASSUME ForwardInv, NEW c \in Cpus, Leave(c)
    PROVE  [Switch!Next]_(Switch!vars)
<1>1. frame' = [frame EXCEPT ![c] = NoFrame] /\ UNCHANGED vlan /\ FrameTypeOK
  BY DEF Leave, vars, ForwardInv
<1>2. UNCHANGED Members
  BY <1>1, MembersStay
<1>3. Admitted(NoFrame) = NotAdmitted
  BY DEF Admitted, NoFrame
<1>4. AdmittedFrames' = [AdmittedFrames EXCEPT ![c] = NotAdmitted]
  BY <1>1, <1>3, AdmittedMoves
<1>5. CASE AdmittedFrames[c] = NotAdmitted
  <2>1. UNCHANGED AdmittedFrames
    BY <1>4, <1>5 DEF AdmittedFrames
  <2>. QED  BY <1>2, <2>1 DEF Switch!vars
<1>6. CASE AdmittedFrames[c] # NotAdmitted
  <2>1. Switch!Drop(c)
    BY <1>2, <1>4, <1>6 DEF Switch!Drop
  <2>. QED  BY <2>1 DEF Switch!Next
<1>. QED  BY <1>5, <1>6

\* VLAN ingress admits a frame, or refuses it; one with nowhere to go is as good as
\* refused.
LEMMA IngressAdmits ==
    ASSUME ForwardInv, NEW c \in Cpus, IngressUnfiltered(c) \/ IngressFiltered(c),
           fault' = fault
    PROVE  [Switch!Next]_(Switch!vars)
<1>. DEFINE g == frame[c]
<1>1. /\ g \in FrameState /\ StageInv(g) /\ g.pc = "ingress" /\ g.slot \in PIdx
      /\ \A v \in AllVids : vlan[v].members \in SUBSET PIdx
      /\ g.vec # {} => g.pidx = g.slot
  BY FrameFacts DEF FrameGood, IndexInv, IngressUnfiltered, IngressFiltered, FrameAt
<1>2. /\ FrameTypeOK
      /\ \A kind \in {"null", "uaf"} : ~Crash(kind)
  BY DEF ForwardInv, Crash, Faulted, IngressUnfiltered, IngressFiltered, FrameAt
<1>3. Admitted(g) = NotAdmitted /\ AdmittedFrames[c] = NotAdmitted
  BY <1>1 DEF Admitted, AdmittedFrames
<1>4. ASSUME NEW f, Continue(c, f), f.pc = "fdb", NEW v \in AllVids, f.allow,
             g.filtering => g.pidx \in vlan[v].members /\ g.tag \in {v, 0},
             f.vec # {},
             f.slot = g.slot, f.tag = g.tag, f.filtering = g.filtering, f.vlan = v,
             f.sent = g.sent, f.vec = g.vec \cap vlan[v].members
      PROVE  Switch!Next
  <2>1. frame' = [frame EXCEPT ![c] = f] /\ UNCHANGED Members
    BY <1>4, MembersStay DEF Continue, vars
  <2>2. Admitted(f) = [stage |-> "classified", slot |-> g.slot, strict |-> g.filtering,
                       tag |-> g.tag, vlan |-> v, scope |-> Members[v] \ {g.slot},
                       sent |-> {}]
    <3>1. f.vec = Members[v] \ {g.slot} /\ f.sent = {}
      <4>1. g.vec = PIdx \ {g.slot} /\ g.sent = {}
        BY <1>1, <1>4 DEF StageInv
      <4>. QED  BY <1>1, <1>4, <4>1 DEF Members
    <3>. QED  BY <1>4, <3>1 DEF Admitted
  <2>3. AdmittedFrames' = [AdmittedFrames EXCEPT ![c] = Admitted(f)]
    BY <1>2, <2>1, AdmittedMoves
  <2>4. g.filtering \in BOOLEAN /\ g.tag \in AllVids /\ Members[v] = vlan[v].members
    BY <1>1 DEF FrameState, Members
  <2>5. g.vec # {} /\ g.pidx = g.slot
    BY <1>1, <1>4
  <2>6. Switch!Admit(c, g.slot, g.filtering, g.tag, v)
    BY <1>3, <1>4, <2>1, <2>2, <2>3, <2>4, <2>5 DEF Switch!Admit
  <2>. QED  BY <1>1, <2>4, <2>6 DEF Switch!Next
<1>5. ASSUME NEW f, Continue(c, f), ~f.allow \/ f.vec = {} PROVE UNCHANGED Switch!vars
  <2>1. frame' = [frame EXCEPT ![c] = f] /\ UNCHANGED Members
    BY <1>5, MembersStay DEF Continue, vars
  <2>2. Admitted(f) = Admitted(frame[c])
    BY <1>3, <1>5 DEF Admitted
  <2>. QED  BY <1>2, <2>1, <2>2, AdmittedStays DEF Switch!vars
<1>6. CASE IngressUnfiltered(c)
  <2>. DEFINE f == [g EXCEPT !.pc = "fdb", !.allow = TRUE, !.vec = @ \cap vlan[g.vlan].members]
  <2>1. g.vlan # Null /\ Continue(c, f) /\ ~g.filtering
    BY <1>2, <1>6 DEF IngressUnfiltered
  <2>2. g.vlan \in AllVids
    BY <1>1, <2>1 DEF FrameState
  <2>3. /\ f.pc = "fdb" /\ f.allow /\ f.slot = g.slot /\ f.tag = g.tag
        /\ f.sent = g.sent /\ f.filtering = g.filtering /\ f.vlan = g.vlan
        /\ f.vec = g.vec \cap vlan[g.vlan].members
    BY <1>1 DEF FrameState
  <2>. HIDE DEF f
  <2>. QED  BY <1>4, <1>5, <2>1, <2>2, <2>3
<1>7. CASE IngressFiltered(c)
  <2>. DEFINE v == IF g.tag # 0 THEN VlanFind(g.tag) ELSE g.vlan
              live == IF g.tag # 0 THEN Live(v) ELSE g.live
              f == [g EXCEPT !.pc = "fdb", !.vlan = v, !.live = live]
              h == [f EXCEPT !.allow = TRUE, !.vec = @ \cap vlan[v].members]
  <2>1. v # Null => v \in AllVids /\ g.tag \in {v, 0}
    BY <1>1 DEF VlanFind, FrameState
  <2>2. \/ Continue(c, f)
        \/ v # Null /\ g.pidx \in vlan[v].members /\ Continue(c, h)
    BY <1>2, <1>7 DEF IngressFiltered
  <2>. HIDE DEF v, live
  <2>3. ~f.allow
    BY <1>1 DEF StageInv, FrameState
  <2>4. /\ h.pc = "fdb" /\ h.allow /\ h.slot = g.slot /\ h.tag = g.tag
        /\ h.sent = g.sent /\ h.filtering = g.filtering /\ h.vlan = v
        /\ h.vec = g.vec \cap vlan[v].members
    BY <1>1 DEF FrameState
  <2>. HIDE DEF f, h
  <2>. QED  BY <1>1, <1>4, <1>5, <2>1, <2>2, <2>3, <2>4
<1>. QED  BY <1>6, <1>7
\* What the FDB answers routes a frame, or ends it.
LEMMA FdbRoutes ==
    ASSUME ForwardInv, NEW c \in Cpus, FdbForward(c), fault' = fault
    PROVE  [Switch!Next]_(Switch!vars)
<1>. DEFINE g == frame[c]
            f(hint) == [g EXCEPT !.pc = "deliver", !.vec = @ \cap hint]
<1>1. g \in FrameState /\ StageInv(g) /\ g.pc = "fdb" /\ FrameTypeOK
  BY FrameFacts DEF ForwardInv, FrameGood, FdbForward, FrameAt
<1>2. \A kind \in {"null", "uaf"} : ~Crash(kind)
  BY DEF Crash, Faulted, FdbForward, FrameAt
<1>3. \/ \E hint \in SUBSET PIdx : g.allow /\ g.vec \cap hint # {} /\ Continue(c, f(hint))
      \/ Leave(c)
  BY <1>2 DEF FdbForward
<1>4. ASSUME NEW hint \in SUBSET PIdx, g.allow, g.vec \cap hint # {}, Continue(c, f(hint))
      PROVE  Switch!Route(c)
  <2>1. frame' = [frame EXCEPT ![c] = f(hint)] /\ UNCHANGED Members
    BY <1>4, MembersStay DEF Continue, vars
  <2>2. AdmittedFrames[c] = [stage |-> "classified", slot |-> g.slot, strict |-> g.filtering,
                             tag |-> g.tag, vlan |-> g.vlan, scope |-> g.vec,
                             sent |-> g.sent]
    BY <1>1, <1>4 DEF AdmittedFrames, Admitted
  <2>3. Admitted(f(hint)) = [stage |-> "delivering", slot |-> g.slot, strict |-> g.filtering,
                             tag |-> g.tag, vlan |-> g.vlan, scope |-> g.vec \cap hint,
                             sent |-> g.sent]
    <3>1. /\ f(hint).pc = "deliver" /\ f(hint).allow /\ f(hint).slot = g.slot
          /\ f(hint).filtering = g.filtering /\ f(hint).tag = g.tag
          /\ f(hint).vlan = g.vlan /\ f(hint).vec = g.vec \cap hint /\ f(hint).sent = g.sent
      BY <1>1, <1>4 DEF FrameState
    <3>. QED  BY <1>4, <3>1 DEF Admitted
  <2>. HIDE DEF f
  <2>4. AdmittedFrames' = [AdmittedFrames EXCEPT ![c] = Admitted(f(hint))]
    BY <1>1, <2>1, AdmittedMoves
  <2>5. AdmittedFrames[c] # NotAdmitted
    BY <2>2 DEF NotAdmitted
  <2>6. Admitted(f(hint)) = Switch!Routed(AdmittedFrames[c], g.vec \cap hint)
    <3>1. PICK r : r = AdmittedFrames[c]
      OBVIOUS
    <3>2. /\ r = [stage |-> r.stage, slot |-> r.slot, strict |-> r.strict, tag |-> r.tag,
                  vlan |-> r.vlan, scope |-> r.scope, sent |-> r.sent]
          /\ Admitted(f(hint)) = [stage |-> "delivering", slot |-> r.slot,
                                  strict |-> r.strict, tag |-> r.tag, vlan |-> r.vlan,
                                  scope |-> g.vec \cap hint, sent |-> r.sent]
      BY <2>2, <2>3, <3>1
    <3>. QED  BY <3>1, <3>2, RoutedFrame, Zenon
  <2>7. /\ AdmittedFrames[c].stage = "classified"
        /\ g.vec \cap hint \in (SUBSET AdmittedFrames[c].scope) \ {{}}
    BY <1>4, <2>2
  <2>8. AdmittedFrames' = [AdmittedFrames EXCEPT ![c] =
                             Switch!Routed(AdmittedFrames[c], g.vec \cap hint)]
    BY <2>4, <2>6, Zenon
  <2>. QED  BY <2>1, <2>5, <2>7, <2>8, Zenon DEF Switch!Route
<1>. HIDE DEF f
<1>5. CASE \E hint \in SUBSET PIdx : g.allow /\ g.vec \cap hint # {} /\ Continue(c, f(hint))
  BY <1>4, <1>5 DEF Switch!Next
<1>. QED  BY <1>3, <1>5, LeaveDrops

\* ubr_deliver sends to one of the slots the frame is still to go to.
LEMMA DeliverSends ==
    ASSUME ForwardInv, NEW c \in Cpus, Deliver(c), fault' = fault
    PROVE  [Switch!Next]_(Switch!vars)
<1>. DEFINE g == frame[c]
            e == NextEgress(g.vec)
            f == [g EXCEPT !.vec = @ \ {e}, !.sent = @ \cup {e}]
<1>1. /\ g \in FrameState /\ StageInv(g) /\ g.pc = "deliver" /\ g.allow /\ FrameTypeOK
      /\ g.vec # {} /\ g.vec \in SUBSET PIdx
  BY FrameFacts DEF ForwardInv, FrameGood, Deliver, FrameAt, StageInv, FrameState
<1>2. e \in g.vec /\ e \in PIdx /\ (g.vec # {e} => g.vec \ {e} # {})
  BY <1>1, NextEgressIsNext
<1>3. \A kind \in {"null", "uaf"} : ~Crash(kind)
  BY DEF Crash, Faulted, Deliver, FrameAt
<1>4. Leave(c) \/ (g.vec # {e} /\ Continue(c, f))
  BY <1>3 DEF Deliver
<1>. HIDE DEF e
<1>5. CASE g.vec # {e} /\ Continue(c, f)
  <2>1. frame' = [frame EXCEPT ![c] = f] /\ UNCHANGED Members
    BY <1>5, MembersStay DEF Continue, vars
  <2>2. AdmittedFrames[c] = [stage |-> "delivering", slot |-> g.slot, strict |-> g.filtering,
                             tag |-> g.tag, vlan |-> g.vlan, scope |-> g.vec,
                             sent |-> g.sent]
    BY <1>1 DEF AdmittedFrames, Admitted
  <2>3. Admitted(f) = [stage |-> "delivering", slot |-> g.slot, strict |-> g.filtering,
                       tag |-> g.tag, vlan |-> g.vlan, scope |-> g.vec \ {e},
                       sent |-> g.sent \cup {e}]
    <3>1. /\ f.pc = "deliver" /\ f.allow /\ f.slot = g.slot
          /\ f.filtering = g.filtering /\ f.tag = g.tag
          /\ f.vlan = g.vlan /\ f.vec = g.vec \ {e} /\ f.sent = g.sent \cup {e}
      BY <1>1 DEF FrameState
    <3>. QED  BY <1>2, <1>5, <3>1 DEF Admitted
  <2>. HIDE DEF f
  <2>4. AdmittedFrames' = [AdmittedFrames EXCEPT ![c] = Admitted(f)]
    BY <1>1, <2>1, AdmittedMoves
  <2>5. AdmittedFrames[c] # NotAdmitted
    BY <2>2 DEF NotAdmitted
  <2>6. Admitted(f) = Switch!Sent(AdmittedFrames[c], e)
    <3>1. PICK r : r = AdmittedFrames[c]
      OBVIOUS
    <3>2. /\ r = [stage |-> r.stage, slot |-> r.slot, strict |-> r.strict, tag |-> r.tag,
                  vlan |-> r.vlan, scope |-> r.scope, sent |-> r.sent]
          /\ r.scope # {e}
          /\ Admitted(f) = [stage |-> r.stage, slot |-> r.slot, strict |-> r.strict,
                            tag |-> r.tag, vlan |-> r.vlan, scope |-> r.scope \ {e},
                            sent |-> r.sent \cup {e}]
      BY <1>5, <2>2, <2>3, <3>1
    <3>. QED  BY <3>1, <3>2, SentFrame, Zenon
  <2>7. /\ AdmittedFrames[c].stage = "delivering"
        /\ e \in AdmittedFrames[c].scope
    BY <1>2, <2>2
  <2>8. AdmittedFrames' = [AdmittedFrames EXCEPT ![c] = Switch!Sent(AdmittedFrames[c], e)]
    BY <2>4, <2>6, Zenon
  <2>9. Switch!Send(c, e)
    BY <2>1, <2>5, <2>7, <2>8, Zenon DEF Switch!Send
  <2>. QED  BY <1>2, <2>9 DEF Switch!Next
<1>. QED  BY <1>4, <1>5, LeaveDrops

LEMMA ForwardSwitches ==
    ASSUME ForwardInv, [ForwardNext]_fvars
    PROVE  [Switch!Next]_(Switch!vars)
<1>1. ASSUME UNCHANGED <<vlan, frame>> PROVE UNCHANGED Switch!vars
  BY <1>1, MembersStay DEF AdmittedFrames, Switch!vars, Admitted
<1>2. CASE UNCHANGED fvars
  BY <1>1, <1>2 DEF fvars, vars
<1>3. CASE ControlStep
  <2>1. Members' \in [AllVids -> SUBSET PIdx]
    <3>1. Inv'
      BY <1>3, ControlInv DEF ForwardInv, BridgeInv
    <3>. QED  BY <3>1 DEF Members, Inv, TypeOK, VlanState
  <2>2. UNCHANGED AdmittedFrames
    BY <1>3 DEF ControlStep, AdmittedFrames, Admitted
  <2>. QED  BY <2>1, <2>2 DEF Switch!Next, Switch!Reconfigure
<1>4. CASE FrameStep
  <2>1. PICK c \in Cpus : FrameMoves(c)
    BY <1>4, FrameMovesOnly
  <2>2. CASE fault' # fault
    <3>1. UNCHANGED <<vlan, frame>>
      BY <2>1, <2>2, FaultIsLast DEF vars, Crash, Faulted
    <3>. QED  BY <1>1, <3>1
  <2>3. ASSUME NEW f, Continue(c, f), ~f.allow, ~frame[c].allow
        PROVE  UNCHANGED Switch!vars
    <3>1. frame' = [frame EXCEPT ![c] = f] /\ UNCHANGED Members
      BY <2>3, MembersStay DEF Continue, vars
    <3>2. Admitted(f) = Admitted(frame[c])
      BY <2>3 DEF Admitted
    <3>. QED  BY <3>1, <3>2, AdmittedStays DEF ForwardInv, Switch!vars
  <2>4. CASE \/ \E tag \in Tags : Transmit(c, tag) \/ \E d \in Devs : Receive(c, d, tag)
             \/ CopyFlags(c) \/ CopyVlan(c)
    <3>1. frame[c].pc \in {"idle", "flags", "vlan"} /\ ~frame[c].allow /\ frame[c] \in FrameState
      BY <2>4, FrameFacts DEF Transmit, Receive, CopyFlags, CopyVlan, FrameAt, FrameGood,
         StageInv
    <3>2. \/ \E f : Continue(c, f) /\ ~f.allow
          \/ Crash("wild")
      <4>. DEFINE g == frame[c]
                  flags == [g EXCEPT !.pc = "vlan", !.pidx = port[g.slot].pidx,
                                     !.filtering = port[g.slot].filtering]
                  copied == [g EXCEPT !.pc = "ingress", !.vlan = port[g.slot].vlan,
                                      !.live = Live(port[g.slot].vlan), !.vec = port[g.slot].vec]
                  new(s, tag) == [NoFrame EXCEPT !.pc = "flags", !.slot = s, !.tag = tag]
      <4>1. ~flags.allow /\ ~copied.allow
        BY <3>1 DEF FrameState
      <4>2. \A s, tag : ~new(s, tag).allow
        BY DEF NoFrame
      <4>3. /\ CopyFlags(c) => Continue(c, flags)
            /\ CopyVlan(c) => Continue(c, copied) \/ Crash("wild")
            /\ \A tag \in Tags : Transmit(c, tag) => Continue(c, new(0, tag))
            /\ \A tag \in Tags, d \in Devs : Receive(c, d, tag) => Continue(c, new(dev[d].rx, tag))
        BY DEF CopyFlags, CopyVlan, Transmit, Receive
      <4>. HIDE DEF flags, copied, new
      <4>. QED  BY <2>4, <4>1, <4>2, <4>3
    <3>. QED  BY <1>1, <2>3, <3>1, <3>2 DEF Crash, Faulted
  <2>5. CASE IngressNoMemory(c) \/ DeliverMalformed(c)
    BY <1>1, <2>5 DEF IngressNoMemory, DeliverMalformed, Crash, Faulted
  <2>. QED  BY <2>1, <2>2, <2>4, <2>5, IngressAdmits, FdbRoutes, DeliverSends DEF FrameMoves
<1>. QED  BY <1>2, <1>3, <1>4 DEF ForwardNext

\* The data path beside the control plane implements a switch with VLANs: a
\* frame only leaves through slots that were members of its VLAN when it was
\* classified, once through each, never through its own, and a filtering port
\* admits only frames of the VLANs it is in.
THEOREM ForwardImplementsSwitch == ForwardSpec => ImplementsSwitch
<1>1. ForwardInit => Switch!Init
  <2>. SUFFICES ASSUME ForwardInit PROVE Switch!Init
    OBVIOUS
  <2>1. Members \in [AllVids -> SUBSET PIdx]
    BY ForwardInit_Inv, MembersType DEF ForwardInv, BridgeInv
  <2>2. AdmittedFrames = [c \in Cpus |-> NotAdmitted]
    BY DEF ForwardInit, AdmittedFrames, Admitted, NoFrame
  <2>. QED  BY <2>1, <2>2 DEF Switch!Init
<1>2. ForwardInv /\ [ForwardNext]_fvars => [Switch!Next]_(Switch!vars)
  BY ForwardSwitches
<1>. QED  BY <1>1, <1>2, ForwardInvariance, PTL DEF ForwardSpec, ImplementsSwitch, Switch!Spec

=============================================================================
