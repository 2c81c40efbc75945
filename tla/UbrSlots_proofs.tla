--------------------------- MODULE UbrSlots_proofs ---------------------------
(* What a slot contains, proved for any number of devices, ports and VLANs: *)
(* that a slot at rest is zeroed or initialised, that its VLAN settings     *)
(* agree between commands, and that nothing goes wrong in the control plane *)
(* but for the causes CommandCause lists.  The invariant of                 *)
(* UbrBridge_proofs says who owns a slot; the invariants here say what is   *)
(* in it, and which slots RCU, a command or a race may still write to.      *)
EXTENDS UbrBridge_proofs

-----------------------------------------------------------------------------
(* The invariants                                                           *)

\* Slot p has an owner: it is busy, or ubr_port_add is about to publish it.
Held(p) == p \in busy \/ (rtnl.op = "add" /\ rtnl.pidx = p)

\* What ubr_port_init leaves, as far as nobody else writes it.
Initialised(p) == /\ port[p].dev # Null
                  /\ port[p].pidx = p
                  /\ port[p].learning
                  /\ port[p].vec = PIdx \ {p}

\* A slot that is neither awaiting its cleanup nor raced for is initialised or
\* zeroed; a slot that got an owner before its cleanup ran is raced for, and so
\* is a slot that lost its owner while a genl command had a store to it to do.
\* The word a port set command has loaded is that of an initialised slot.
CleanInv ==
    /\ \A p \in PIdx \ (cleanup \cup tainted) :
          /\ Held(p) => Initialised(p)
          /\ ~Held(p) => port[p] = Zeroed
    /\ \A p \in PIdx : p \in cleanup /\ Held(p) => p \in tainted
    /\ \A p \in PIdx : StoreInFlight(p) => p \in busy \cup tainted
    /\ genl.pc = "word" /\ genl.pidx \notin tainted =>
          genl.word.pidx = genl.pidx /\ genl.word.learning

\* Which command is at which step, that the walks over the slots start at slot 0,
\* that a VLAN stays while the command that created it is at work, and that VLAN 0
\* is never deleted.
PcInv ==
    /\ genl.op = "idle" <=> genl.pc = "idle"
    /\ genl.op = "vlan_add" <=> genl.pc \in {"new", "update", "set"}
    /\ genl.op = "vlan_del" <=> genl.pc \in {"find", "unlink", "clear", "free"}
    /\ genl.op = "attach" <=> genl.pc \in {"tag", "member"}
    /\ genl.op = "detach" <=> genl.pc \in {"unmember", "untag"}
    /\ genl.op = "port_set" <=> genl.pc \in {"pvid", "vlan", "filter", "word"}
    /\ genl.op \in {"vlan_add", "vlan_del"} => genl.vid # 0
    /\ genl.pc \in {"new", "find"} => genl.pidx = 0
    /\ genl.pc \in {"update", "set"} => vlan[genl.vid].mem = "live"
    /\ vlan[0].mem = "live"

\* A port set command has stored the PVID of slot p and has stores left to do.
HalfSet(p) == SetInFlight(p) /\ genl.pc \in {"vlan", "filter", "word"}

\* The walk of vlan add has yet to come to slot p, or that of vlan del is on its
\* way, so that a port that defaults to the VLAN may or may not point to it.
Unvisited(p) == \/ genl.pc \in {"update", "set"} /\ genl.pidx <= p
                \/ genl.pc \in {"unlink", "clear", "free"}

\* The settings of slot p agree, but for what the command in progress has yet to
\* store: port set stores pvid, vlan and vlan_filtering in this order; vlan add
\* and del change the VLAN before, or after, the ports that default to it.  A
\* pointer about to be stored is that of the slot's PVID.
Settled(p) ==
    LET s == port[p]
        v == s.pvid
    IN  /\ HalfSet(p) \/ (genl.pc \in {"set", "clear"} /\ genl.pidx = p) => v = genl.vid
        /\ ~HalfSet(p) => (s.filtering <=> v # 0)
        /\ ~(SetInFlight(p) /\ genl.pc = "vlan") =>
              /\ s.vlan \in {v, Null}
              /\ vlan[v].mem = "none" => s.vlan = Null
              /\ vlan[v].mem = "live" /\ ~(Unvisited(p) /\ genl.vid = v) => s.vlan = v

\* A slot that ubr_port_add is about to publish has the settings of a new port.
Fresh(p) == port[p].pvid = 0 /\ ~port[p].filtering /\ port[p].vlan = 0

SettingsInv ==
    \A p \in PIdx \ tainted : /\ p \in busy => Settled(p)
                              /\ Held(p) /\ p \notin busy => Fresh(p)

-----------------------------------------------------------------------------
(* What the steps of the RTNL command do to slots and VLANs                 *)

\* A step that hands over no slot.
Idles == /\ UNCHANGED <<port, busy, vlan, cleanup, tainted>>
         /\ \A p \in PIdx : Held(p)' = Held(p)

\* ubr_port_add takes slot p for d; publishes its slot; or gives it up.
Takes(p, d) ==
    /\ p \in PIdx \ busy /\ d \in Devs
    /\ rtnl.op = "idle" /\ rtnl'.op = "add" /\ rtnl'.pidx = p
    /\ port' = [port EXCEPT ![p] = PortInit(p, d)]
    /\ vlan' = [vlan EXCEPT ![0].members = @ \cup {p}]
    /\ tainted' = IF p \in cleanup THEN tainted \cup {p} ELSE tainted
    /\ UNCHANGED <<busy, cleanup>>

Publishes(p) ==
    /\ p \in PIdx \ busy
    /\ rtnl.op = "add" /\ rtnl.pidx = p /\ rtnl'.op = "add" /\ rtnl'.pidx = p
    /\ busy' = busy \cup {p}
    /\ UNCHANGED <<port, vlan, cleanup, tainted>>

GivesUp(p) ==
    /\ p \in busy \ cleanup /\ p # 0
    /\ rtnl.op = "add" /\ rtnl.pidx = p /\ rtnl'.op = "idle"
    /\ busy' = busy \ {p}
    /\ port' = [port EXCEPT ![p] = Zeroed]
    /\ tainted' = IF StoreInFlight(p) THEN tainted \cup {p} ELSE tainted \ {p}
    /\ UNCHANGED <<vlan, cleanup>>

\* ubr_port_del hands slot p to RCU.
Retires(p) ==
    /\ p \in busy \ cleanup /\ p # 0
    /\ rtnl.op \in {"del", "dellink"} /\ rtnl.pc = "cleanup" /\ rtnl.pidx = p
    /\ rtnl'.op # "add"
    /\ busy' = busy \ {p}
    /\ cleanup' = cleanup \cup {p}
    /\ tainted' = IF StoreInFlight(p) THEN tainted \cup {p} ELSE tainted
    /\ UNCHANGED <<port, vlan>>

LEMMA AddEffect ==
    ASSUME Inv, \/ PortPublish \/ PortLink \/ PortPromisc \/ PortAllmulti \/ PortRxRegister
                \/ UndoAllmulti \/ UndoPromisc \/ UndoLink \/ PortUninit
    PROVE  Idles \/ \E p \in PIdx : Publishes(p) \/ GivesUp(p)
<1>1. /\ rtnl \in RtnlState /\ rtnl.op = "add" /\ rtnl.pidx \in PIdx /\ rtnl.pidx # 0
      /\ rtnl.pidx \in busy <=> rtnl.pc # "publish"
  BY DEF Inv, TypeOK, RtnlState, AddInv, PortPublish, PortLink, PortPromisc, PortAllmulti,
         PortRxRegister, UndoAllmulti, UndoPromisc, UndoLink, PortUninit, RtnlAt
<1>2. ASSUME NEW kind, Faulted(kind) PROVE Idles
  BY <1>2 DEF Faulted, Idles, Held
<1>3. ASSUME NEW pc, RtnlTo(pc), UNCHANGED <<port, busy, vlan, cleanup, tainted>>
      PROVE  Idles
  <2>1. rtnl'.op = rtnl.op /\ rtnl'.pidx = rtnl.pidx
    BY <1>1, <1>3 DEF RtnlTo, RtnlState
  <2>. QED  BY <1>3, <2>1 DEF Idles, Held
<1>4. CASE PortPublish
  <2>1. CASE /\ busy' = busy \cup {rtnl.pidx} /\ RtnlTo("link")
             /\ UNCHANGED <<port, vlan, cleanup, tainted>>
    <3>1. rtnl'.op = "add" /\ rtnl'.pidx = rtnl.pidx
      BY <1>1, <2>1 DEF RtnlTo, RtnlState
    <3>. QED  BY <1>1, <1>4, <2>1, <3>1 DEF Publishes, PortPublish, RtnlAt
  <2>. QED  BY <1>2, <1>4, <2>1 DEF PortPublish
<1>5. CASE PortUninit
  <2>1. CASE /\ rtnl.pidx \notin cleanup
             /\ busy' = busy \ {rtnl.pidx}
             /\ port' = [port EXCEPT ![rtnl.pidx] = Zeroed]
             /\ tainted' = IF StoreInFlight(rtnl.pidx) THEN tainted \cup {rtnl.pidx}
                                                      ELSE tainted \ {rtnl.pidx}
             /\ rtnl' = RtnlIdle
             /\ UNCHANGED <<vlan, cleanup>>
    <3>1. rtnl'.op = "idle" /\ rtnl.pidx \in busy
      BY <1>1, <1>5, <2>1 DEF RtnlIdle, PortUninit, RtnlAt
    <3>. QED  BY <1>1, <2>1, <3>1 DEF GivesUp
  <2>. QED  BY <1>2, <1>5, <2>1 DEF PortUninit
<1>6. CASE PortRxRegister
  <2>1. CASE rtnl' = RtnlIdle
    <3>1. UNCHANGED <<port, busy, vlan, cleanup, tainted>> /\ rtnl.pidx \in busy
      BY <1>1, <1>6 DEF PortRxRegister, RtnlAt
    <3>. QED  BY <1>1, <2>1, <3>1 DEF Idles, Held, RtnlIdle
  <2>. QED  BY <1>3, <1>6, <2>1 DEF PortRxRegister
<1>7. CASE PortLink \/ PortPromisc \/ PortAllmulti \/ UndoAllmulti \/ UndoPromisc \/ UndoLink
  <2>1. PICK pc : RtnlTo(pc)
    BY <1>7 DEF PortLink, PortPromisc, PortAllmulti, UndoAllmulti, UndoPromisc, UndoLink
  <2>2. UNCHANGED <<port, busy, vlan, cleanup, tainted>>
    <3>1. CASE PortLink \/ PortPromisc \/ PortAllmulti
      BY <3>1 DEF PortLink, PortPromisc, PortAllmulti
    <3>2. CASE UndoAllmulti \/ UndoPromisc
      BY <3>2 DEF UndoAllmulti, UndoPromisc
    <3>3. CASE UndoLink
      BY <3>3 DEF UndoLink
    <3>. QED  BY <1>7, <3>1, <3>2, <3>3
  <2>. QED  BY <1>3, <2>1, <2>2
<1>. QED  BY <1>4, <1>5, <1>6, <1>7

LEMMA DelEffect ==
    ASSUME Inv, \/ \E d \in Devs : DelSlave(d) \/ DeviceEvent(d)
                \/ Dellink \/ DellinkNext
                \/ RxUnregister \/ RxSynchronized \/ PortRelease \/ PortCleanup
    PROVE  Idles \/ \E p \in PIdx : Retires(p)
<1>1. rtnl \in RtnlState /\ rtnl.op # "add"
  BY DEF Inv, TypeOK, DelSlave, DeviceEvent, Dellink, DellinkNext, RxUnregister,
         RxSynchronized, PortRelease, PortCleanup, Deleting, RtnlAt
<1>2. ASSUME UNCHANGED <<port, busy, vlan, cleanup, tainted>>, rtnl'.op # "add"
      PROVE  Idles
  BY <1>1, <1>2 DEF Idles, Held
<1>3. ASSUME NEW kind, Faulted(kind) PROVE Idles
  BY <1>3 DEF Faulted, Idles, Held
<1>4. ASSUME NEW op \in {"del", "dellink"}, NEW d, StartPortDel(op, d) PROVE Idles
  BY <1>2, <1>4 DEF StartPortDel
<1>5. CASE \E d \in Devs : DelSlave(d) \/ DeviceEvent(d)
  BY <1>3, <1>4, <1>5 DEF DelSlave, DeviceEvent
<1>6. CASE Dellink
  <2>1. rtnl'.op # "add"
    BY <1>6, RestTypes DEF Dellink, RtnlState
  <2>. QED  BY <1>2, <1>6, <2>1 DEF Dellink
<1>7. CASE DellinkNext
  <2>1. CASE UNCHANGED <<port, busy, vlan, cleanup, tainted>> /\ rtnl' = RtnlIdle
    BY <1>2, <2>1 DEF RtnlIdle
  <2>. QED  BY <1>3, <1>4, <1>7, <2>1 DEF DellinkNext
<1>8. CASE RxUnregister \/ RxSynchronized \/ PortRelease
  <2>1. PICK pc : RtnlTo(pc)
    BY <1>8 DEF RxUnregister, RxSynchronized, PortRelease
  <2>2. rtnl'.op # "add"
    BY <1>1, <2>1 DEF RtnlTo, RtnlState
  <2>. QED  BY <1>2, <1>8, <2>2 DEF RxUnregister, RxSynchronized, PortRelease
<1>9. CASE PortCleanup
  <2>1. CASE /\ rtnl.pidx \notin cleanup
             /\ busy' = busy \ {rtnl.pidx}
             /\ cleanup' = cleanup \cup {rtnl.pidx}
             /\ tainted' = IF StoreInFlight(rtnl.pidx) THEN tainted \cup {rtnl.pidx} ELSE tainted
             /\ rtnl' = IF rtnl.op = "dellink"
                          THEN [rtnl EXCEPT !.pc = "next", !.dev = Null]
                          ELSE RtnlIdle
             /\ UNCHANGED <<port, vlan>>
    <3>1. /\ rtnl.op \in {"del", "dellink"} /\ rtnl.pc = "cleanup"
          /\ rtnl.pidx \in busy /\ rtnl.pidx # 0 /\ rtnl.pidx \in PIdx
      BY <1>1, <1>9 DEF PortCleanup, Deleting, RtnlAt, Inv, DelInv, RtnlState
    <3>2. rtnl'.op # "add"
      BY <1>1, <2>1 DEF RtnlIdle, RtnlState
    <3>. QED  BY <2>1, <3>1, <3>2 DEF Retires
  <2>. QED  BY <1>3, <1>9, <2>1 DEF PortCleanup
<1>. QED  BY <1>5, <1>6, <1>7, <1>8, <1>9

\* Every step of the RTNL command, as far as slots and VLANs are concerned.
LEMMA RtnlEffect ==
    ASSUME Inv, RtnlStep
    PROVE  /\ genl' = genl
           /\ \/ Idles
              \/ \E p \in PIdx : \/ Publishes(p) \/ GivesUp(p) \/ Retires(p)
                                 \/ \E d \in Devs : Takes(p, d)
<1>1. CASE \E d \in Devs : PortAdd(d)
  <2>1. PICK d \in Devs : PortAdd(d)
    BY <1>1
  <2>. DEFINE p == Least(PIdx \ busy)
  <2>2. p \in PIdx \ busy
    BY <2>1, LeastIsMinimum DEF PortAdd
  <2>3. Takes(p, d)
    BY <2>1, <2>2 DEF PortAdd, Takes, RtnlAt
  <2>. HIDE DEF p
  <2>4. genl' = genl
    BY <2>1 DEF PortAdd
  <2>. QED  BY <2>2, <2>3, <2>4
<1>2. CASE \/ PortPublish \/ PortLink \/ PortPromisc \/ PortAllmulti \/ PortRxRegister
           \/ UndoAllmulti \/ UndoPromisc \/ UndoLink \/ PortUninit
  <2>1. genl' = genl
    BY <1>2 DEF PortPublish, PortLink, PortPromisc, PortAllmulti, PortRxRegister,
                UndoAllmulti, UndoPromisc, UndoLink, PortUninit, Faulted
  <2>. QED  BY <1>2, <2>1, AddEffect
<1>3. CASE \/ \E d \in Devs : DelSlave(d) \/ DeviceEvent(d)
           \/ Dellink \/ DellinkNext
           \/ RxUnregister \/ RxSynchronized \/ PortRelease \/ PortCleanup
  <2>1. genl' = genl
    BY <1>3 DEF DelSlave, DeviceEvent, Dellink, DellinkNext, RxUnregister, RxSynchronized,
                PortRelease, PortCleanup, StartPortDel, Faulted
  <2>. QED  BY <1>3, <2>1, DelEffect
<1>. QED  BY <1>1, <1>2, <1>3 DEF RtnlStep

-----------------------------------------------------------------------------
(* How VLANs and genl commands move on                                      *)

\* The four stores to the bits of a VLAN are to one that is not freed.
LEMMA BitsKeepMem ==
    ASSUME Inv, AttachTag \/ AttachMember \/ DetachMember \/ DetachUntag, NEW v \in AllVids
    PROVE  vlan'[v].mem = vlan[v].mem
<1>1. vlan \in [AllVids -> VlanState] /\ genl.vid \in AllVids /\ vlan[genl.vid] \in VlanState
  BY DEF Inv, TypeOK, GenlState
<1>2. ASSUME NEW w, w.mem = vlan[genl.vid].mem, NEW pc, NEW next, VlanStore(pc, next, w)
      PROVE  vlan'[v].mem = vlan[v].mem
  BY <1>1, <1>2 DEF VlanStore, Faulted
<1>3. CASE AttachTag \/ DetachUntag
  BY <1>1, <1>2, <1>3 DEF AttachTag, DetachUntag, ItsVlan, VlanState
<1>4. CASE AttachMember \/ DetachMember
  BY <1>1, <1>2, <1>4 DEF AttachMember, DetachMember, ItsVlan, VlanState
<1>. QED  BY <1>3, <1>4

\* The life of a VLAN: created by a vlan add command, deleted by a vlan del
\* command, and freed by RCU.
Created(v) == /\ genl.pc = "new" /\ genl.vid = v
              /\ vlan[v].mem = "none" /\ vlan'[v].mem = "live"
              /\ genl' = [genl EXCEPT !.pc = "update"]
              /\ UNCHANGED <<port, busy, rtnl, cleanup, tainted>>
Deleted(v) == /\ genl.pc = "free" /\ genl.vid = v
              /\ vlan[v].mem = "live" /\ vlan'[v].mem = "dying"
              /\ genl' = GenlIdle
              /\ UNCHANGED <<port, busy, rtnl, cleanup, tainted>>
Reclaimed(v) == /\ vlan[v].mem = "dying" /\ vlan'[v].mem = "freed"
                /\ UNCHANGED <<port, busy, rtnl, genl, cleanup, tainted>>

LEMMA MemSteps ==
    ASSUME Inv, Next
    PROVE  \/ \A v \in AllVids : vlan'[v].mem = vlan[v].mem
           \/ \E v \in AllVids : /\ \A w \in AllVids \ {v} : vlan'[w].mem = vlan[w].mem
                                 /\ Created(v) \/ Deleted(v) \/ Reclaimed(v)
<1>1. vlan \in [AllVids -> VlanState] /\ genl.vid \in AllVids /\ vlan[genl.vid] \in VlanState
  BY DEF Inv, TypeOK, GenlState
<1>2. CASE UNCHANGED vlan
  BY <1>2
<1>3. CASE RtnlStep
  <2>1. CASE \E p \in PIdx, d \in Devs : Takes(p, d)
    <3>1. PICK p \in PIdx : vlan' = [vlan EXCEPT ![0].members = @ \cup {p}]
      BY <2>1 DEF Takes
    <3>2. 0 \in AllVids /\ vlan[0] \in VlanState
      BY <1>1, RestTypes
    <3>. QED  BY <1>1, <3>1, <3>2 DEF VlanState
  <2>2. Idles \/ \E p \in PIdx : \/ Publishes(p) \/ GivesUp(p) \/ Retires(p)
                                 \/ \E d \in Devs : Takes(p, d)
    BY <1>3, RtnlEffect
  <2>. QED  BY <1>2, <2>1, <2>2 DEF Idles, Publishes, GivesUp, Retires
<1>4. CASE AttachTag \/ AttachMember \/ DetachMember \/ DetachUntag
  BY <1>4, BitsKeepMem
<1>5. CASE VlanNew
  <2>1. CASE vlan' = [vlan EXCEPT ![genl.vid] = [NoVlan EXCEPT !.mem = "live"]]
             /\ vlan[genl.vid].mem = "none" /\ GenlTo("update")
             /\ UNCHANGED <<port, busy, rtnl, cleanup, tainted>>
    <3>1. [NoVlan EXCEPT !.mem = "live"].mem = "live"
      BY DEF NoVlan
    <3>2. \A w \in AllVids \ {genl.vid} : vlan'[w].mem = vlan[w].mem
      BY <1>1, <2>1
    <3>3. Created(genl.vid)
      BY <1>1, <1>5, <2>1, <3>1 DEF Created, VlanNew, GenlAt, GenlTo
    <3>. QED  BY <1>1, <3>2, <3>3
  <2>. QED  BY <1>2, <1>5, <2>1 DEF VlanNew, Faulted
<1>6. CASE VlanDelFree
  <2>1. CASE /\ vlan' = [vlan EXCEPT ![genl.vid].members = {}, ![genl.vid].mem = "dying"]
             /\ vlan[genl.vid].mem = "live" /\ genl' = GenlIdle
             /\ UNCHANGED <<port, busy, rtnl, cleanup, tainted>>
    <3>1. \A w \in AllVids \ {genl.vid} : vlan'[w].mem = vlan[w].mem
      BY <1>1, <2>1
    <3>2. vlan'[genl.vid].mem = "dying"
      BY <1>1, <2>1 DEF VlanState
    <3>3. Deleted(genl.vid)
      BY <1>6, <2>1, <3>2 DEF Deleted, VlanDelFree, GenlAt
    <3>. QED  BY <1>1, <3>1, <3>3
  <2>. QED  BY <1>2, <1>6, <2>1 DEF VlanDelFree, Faulted
<1>7. CASE \E v \in AllVids : VlanDelRcu(v)
  <2>1. PICK v \in AllVids : VlanDelRcu(v)
    BY <1>7
  <2>2. vlan'[v].mem = "freed" /\ \A w \in AllVids \ {v} : vlan'[w].mem = vlan[w].mem
    <3>1. [NoVlan EXCEPT !.mem = "freed"].mem = "freed"
      BY DEF NoVlan
    <3>2. vlan' = [vlan EXCEPT ![v] = [NoVlan EXCEPT !.mem = "freed"]]
      BY <2>1 DEF VlanDelRcu
    <3>. HIDE DEF NoVlan
    <3>. QED  BY <1>1, <3>1, <3>2
  <2>3. Reclaimed(v)
    BY <2>1, <2>2 DEF VlanDelRcu, Reclaimed
  <2>. QED  BY <2>2, <2>3
<1>8. CASE GenlStep /\ ~(VlanNew \/ VlanDelFree \/ AttachTag \/ AttachMember \/ DetachMember
                         \/ DetachUntag)
  <2>1. CASE Walks
    BY <1>2, <2>1, WalkEffect DEF Faulted
  <2>2. CASE ~Walks
    BY <1>2, <1>8, <2>2 DEF GenlStep, Walks, VlanAdd, VlanDel, VlanDelFind, Attach, Detach,
       FindVlanPort, PortSet, PortSetPvid, PortSetVlan, PortSetLoad, PortSetFilter, PortStore,
       Faulted
  <2>. QED  BY <2>1, <2>2
<1>9. CASE \E p \in PIdx : PortCleanupRcu(p)
  BY <1>2, <1>9 DEF PortCleanupRcu
<1>. QED  BY <1>3, <1>4, <1>5, <1>6, <1>7, <1>8, <1>9 DEF Next, RcuStep

\* A genl command begins, moves on, ends, or is not at work.
Begins == /\ genl.op = "idle"
          /\ \/ /\ genl'.op = "vlan_add" /\ genl'.pc = "new"
                /\ genl'.vid # 0 /\ genl'.pidx = 0
             \/ /\ genl'.op = "vlan_del" /\ genl'.pc = "find"
                /\ genl'.vid # 0 /\ genl'.pidx = 0
             \/ genl'.op = "attach" /\ genl'.pc \in {"tag", "member"}
             \/ genl'.op = "detach" /\ genl'.pc = "unmember"
             \/ genl'.op = "port_set" /\ genl'.pc = "pvid" /\ genl'.pidx \in busy

\* A walk has found a port that defaults to its VLAN.
FindsPort == /\ genl.pidx \in busy /\ port[genl.pidx].pvid = genl.vid
             /\ \/ genl.pc = "update" /\ genl'.pc = "set"
                \/ genl.pc = "unlink" /\ genl'.pc = "clear"

\* A port set command has loaded the word of its slot.
LoadsWord == /\ genl.pc = "filter" /\ genl'.pc = "word"
             /\ genl'.word.pidx = ItsPort.pidx /\ genl'.word.learning = ItsPort.learning

SlotStays == /\ genl'.pidx = genl.pidx
             /\ \/ genl.pc = "new" /\ genl'.pc = "update"
                \/ genl.pc = "find" /\ genl'.pc = "unlink"
                \/ genl.pc = "tag" /\ genl'.pc = "member"
                \/ genl.pc = "unmember" /\ genl'.pc = "untag"
                \/ genl.pc = "pvid" /\ genl'.pc = "vlan"
                \/ genl.pc = "vlan" /\ genl'.pc = "filter"
                \/ FindsPort
                \/ LoadsWord

\* The walk of vlan add, or of vlan del, is done with its slot.
SlotDone == \/ /\ genl.pc \in {"update", "set"}
               /\ genl'.pc = "update" /\ genl'.pidx = genl.pidx + 1
            \/ /\ genl.pc \in {"unlink", "clear"}
               /\ genl'.pc \in {"unlink", "free"}

MovesOn == /\ genl'.op = genl.op /\ genl'.vid = genl.vid
           /\ SlotStays \/ SlotDone

LEMMA FoundIsBusy ==
    ASSUME Inv, NEW d, PortFind(d) # {}
    PROVE  Least(PortFind(d)) \in busy
<1>1. PortFind(d) \subseteq PIdx
  BY DEF Inv, TypeOK, PortFind
<1>. QED  BY <1>1, LeastIsMinimum DEF PortFind

LEMMA BeginsAny ==
    ASSUME Inv, \/ \E v \in Vids : VlanAdd(v) \/ VlanDel(v)
                \/ \E v \in AllVids, d \in Managed :
                      \/ PortSet(d, v) \/ Detach(v, d)
                      \/ \E tagged \in BOOLEAN : Attach(v, d, tagged)
    PROVE  Begins
<1>1. genl.op = "idle"
  <2>1. GenlFree
    BY DEF VlanAdd, VlanDel, PortSet, Detach, Attach, FindVlanPort
  <2>. QED  BY <2>1 DEF GenlFree, GenlIdle, Command
<1>2. CASE \E v \in Vids : VlanAdd(v) \/ VlanDel(v)
  <2>1. PICK v \in Vids : VlanAdd(v) \/ VlanDel(v)
    BY <1>2
  <2>2. v # 0 /\ v \in AllVids
    BY ConstantsAssumption DEF AllVids
  <2>. QED  BY <1>1, <2>1, <2>2 DEF VlanAdd, VlanDel, Begins, Command
<1>3. CASE \E v \in AllVids, d \in Managed : PortSet(d, v)
  <2>1. PICK v \in AllVids, d \in Managed : PortSet(d, v)
    BY <1>3
  <2>2. genl'.op = "port_set" /\ genl'.pc = "pvid" /\ genl'.pidx = Least(PortFind(d))
    BY <2>1 DEF PortSet, Command
  <2>3. genl'.pidx \in busy
    BY <2>1, <2>2, FoundIsBusy DEF PortSet
  <2>. QED  BY <1>1, <2>2, <2>3 DEF Begins
<1>4. CASE \E v \in AllVids, d \in Managed :
              Detach(v, d) \/ \E tagged \in BOOLEAN : Attach(v, d, tagged)
  BY <1>1, <1>4 DEF Detach, Attach, FindVlanPort, Begins, Command
<1>. QED  BY <1>2, <1>3, <1>4

\* What a step of __update_port_vlan does: its test finds a port that defaults to
\* the VLAN, or goes on to the next slot; its store goes on to the next slot.
Advances == IF genl.pc \in {"update", "set"}
              THEN \/ /\ genl.pidx + 1 \in PIdx /\ genl'.op = genl.op /\ genl'.vid = genl.vid
                      /\ genl'.pc = "update" /\ genl'.pidx = genl.pidx + 1
                   \/ genl.pidx + 1 \notin PIdx /\ genl' = GenlIdle
              ELSE /\ genl'.op = genl.op /\ genl'.vid = genl.vid
                   /\ genl'.pc \in {"unlink", "free"}

WalkTests == /\ genl.pc \in {"update", "unlink"} /\ UNCHANGED port
             /\ \/ /\ genl'.op = genl.op /\ genl'.vid = genl.vid /\ genl'.pidx = genl.pidx
                   /\ FindsPort
                \/ /\ ~(genl.pidx \in busy /\ port[genl.pidx].pvid = genl.vid)
                   /\ Advances

WalkStores == /\ genl.pc \in {"set", "clear"} /\ Advances
              /\ port' = [port EXCEPT ![genl.pidx].vlan =
                             IF genl.pc = "set" THEN genl.vid ELSE Null]

LEMMA WalkMoves ==
    ASSUME Inv, Walks
    PROVE  Faulted("uaf") \/ WalkTests \/ WalkStores
<1>1. genl \in GenlState
  BY DEF Inv, TypeOK
<1>2. ASSUME NEW pc \in {"update", "unlink"},
             genl.pc \in {pc, IF pc = "update" THEN "set" ELSE "clear"},
             NextSlot(pc, IF pc = "update" THEN GenlIdle ELSE Unlinked)
      PROVE  Advances
  <2>. DEFINE n == genl.pidx + 1
  <2>1. genl' = IF n \in PIdx THEN [genl EXCEPT !.pc = pc, !.pidx = n]
                ELSE IF pc = "update" THEN GenlIdle ELSE [genl EXCEPT !.pc = "free", !.pidx = 0]
    BY <1>2, Zenon DEF NextSlot, Unlinked
  <2>. HIDE DEF n
  <2>2. /\ [genl EXCEPT !.pc = pc, !.pidx = n].op = genl.op
        /\ [genl EXCEPT !.pc = pc, !.pidx = n].vid = genl.vid
        /\ [genl EXCEPT !.pc = pc, !.pidx = n].pc = pc
        /\ [genl EXCEPT !.pc = pc, !.pidx = n].pidx = n
        /\ [genl EXCEPT !.pc = "free", !.pidx = 0].op = genl.op
        /\ [genl EXCEPT !.pc = "free", !.pidx = 0].vid = genl.vid
        /\ [genl EXCEPT !.pc = "free", !.pidx = 0].pc = "free"
    BY <1>1 DEF GenlState
  <2>3. CASE pc = "update"
    BY <1>2, <2>1, <2>2, <2>3 DEF Advances, n
  <2>4. CASE pc = "unlink"
    BY <1>2, <2>1, <2>2, <2>4 DEF Advances
  <2>. QED  BY <2>3, <2>4
<1>3. CASE VlanAddTest
  <2>1. CASE GenlTo("set") /\ genl.pidx \in busy /\ port[genl.pidx].pvid = genl.vid
    BY <1>1, <1>3, <2>1 DEF VlanAddTest, UpdateTest, GenlAt, GenlTo, WalkTests, FindsPort,
                            GenlState, Faulted
  <2>. QED  BY <1>2, <1>3, <2>1 DEF VlanAddTest, UpdateTest, GenlAt, WalkTests
<1>4. CASE VlanDelTest
  <2>1. CASE GenlTo("clear") /\ genl.pidx \in busy /\ port[genl.pidx].pvid = genl.vid
    BY <1>1, <1>4, <2>1 DEF VlanDelTest, UpdateTest, GenlAt, GenlTo, WalkTests, FindsPort,
                            GenlState, Faulted
  <2>. QED  BY <1>2, <1>4, <2>1 DEF VlanDelTest, UpdateTest, GenlAt, WalkTests
<1>5. CASE VlanAddStore
  BY <1>2, <1>5 DEF VlanAddStore, UpdateStore, GenlAt, WalkStores
<1>6. CASE VlanDelStore
  BY <1>2, <1>6 DEF VlanDelStore, UpdateStore, GenlAt, WalkStores
<1>. QED  BY <1>3, <1>4, <1>5, <1>6 DEF Walks

LEMMA GenlMoves ==
    ASSUME Inv, Next
    PROVE  genl' = genl \/ genl' = GenlIdle \/ Begins \/ MovesOn
<1>1. genl \in GenlState
  BY DEF Inv, TypeOK
<1>2. CASE RtnlStep \/ RcuStep
  BY <1>2, RtnlEffect DEF RcuStep, PortCleanupRcu, VlanDelRcu
<1>3. CASE \/ \E v \in Vids : VlanAdd(v) \/ VlanDel(v)
           \/ \E v \in AllVids, d \in Managed :
                 \/ PortSet(d, v) \/ Detach(v, d)
                 \/ \E tagged \in BOOLEAN : Attach(v, d, tagged)
  BY <1>3, BeginsAny
<1>4. ASSUME NEW old, NEW new, GenlAt(old), GenlTo(new),
             \/ old = "new" /\ new = "update"
             \/ old = "find" /\ new = "unlink"
             \/ old = "tag" /\ new = "member"
             \/ old = "unmember" /\ new = "untag"
             \/ old = "pvid" /\ new = "vlan"
             \/ old = "vlan" /\ new = "filter"
      PROVE  MovesOn
  BY <1>1, <1>4 DEF GenlAt, GenlTo, MovesOn, SlotStays, GenlState
<1>5. CASE VlanNew \/ VlanDelFind \/ VlanDelFree
  BY <1>4, <1>5 DEF VlanNew, VlanDelFind, VlanDelFree, Faulted
<1>6. CASE AttachTag \/ AttachMember \/ DetachMember \/ DetachUntag
  BY <1>4, <1>6 DEF AttachTag, AttachMember, DetachMember, DetachUntag, VlanStore, GenlTo,
                    Faulted
<1>7. CASE PortSetPvid \/ PortSetVlan \/ PortSetFilter
  BY <1>4, <1>7 DEF PortSetPvid, PortSetVlan, PortSetFilter, PortStore, GenlTo, Faulted
<1>8. CASE PortSetLoad
  <2>1. CASE /\ genl.pc = "filter"
             /\ genl' = [genl EXCEPT !.pc = "word", !.word = [pidx |-> ItsPort.pidx,
                                                          learning |-> ItsPort.learning]]
    <3>1. /\ genl'.op = genl.op /\ genl'.vid = genl.vid /\ genl'.pidx = genl.pidx
          /\ genl'.pc = "word"
          /\ genl'.word = [pidx |-> ItsPort.pidx, learning |-> ItsPort.learning]
      BY <1>1, <2>1 DEF GenlState
    <3>. QED  BY <2>1, <3>1 DEF MovesOn, SlotStays, LoadsWord
  <2>. QED  BY <1>8, <2>1 DEF PortSetLoad, GenlAt, Faulted
<1>9. CASE Walks
  <2>1. CASE WalkTests
    BY <2>1 DEF WalkTests, Advances, MovesOn, SlotStays, SlotDone
  <2>2. CASE WalkStores
    BY <2>2 DEF WalkStores, Advances, MovesOn, SlotDone
  <2>. QED  BY <1>9, <2>1, <2>2, WalkMoves DEF Faulted
<1>10. Vids \subseteq AllVids
  BY DEF AllVids
<1>. QED  BY <1>2, <1>3, <1>5, <1>6, <1>7, <1>8, <1>9, <1>10 DEF Next, GenlStep, Walks

LEMMA UpdateFollowsNew ==
    ASSUME Inv, Next, genl.pc = "new", genl'.pc = "update"
    PROVE  Created(genl.vid)
<1>1. VlanNew
  <2>1. ~(RtnlStep \/ RcuStep)
    BY RtnlEffect DEF RcuStep, PortCleanupRcu, VlanDelRcu
  <2>2. ~GenlFree
    BY DEF GenlFree, GenlIdle, Command
  <2>. QED  BY <2>1, <2>2 DEF Next, GenlStep, VlanAdd, VlanDel, PortSet, Attach, Detach,
               FindVlanPort, VlanAddTest, VlanAddStore, VlanDelFind, VlanDelTest,
               VlanDelStore, UpdateTest, UpdateStore, VlanDelFree, AttachTag, AttachMember,
               DetachMember, DetachUntag, VlanStore, PortSetPvid, PortSetVlan, PortSetLoad,
               PortSetFilter, PortStore, GenlAt
<1>2. /\ vlan' = [vlan EXCEPT ![genl.vid] = [NoVlan EXCEPT !.mem = "live"]]
      /\ vlan[genl.vid].mem = "none" /\ GenlTo("update")
      /\ UNCHANGED <<port, busy, rtnl, cleanup, tainted>>
  BY <1>1 DEF VlanNew, Faulted, GenlIdle, Command
<1>3. [NoVlan EXCEPT !.mem = "live"].mem = "live"
  BY DEF NoVlan
<1>. QED  BY <1>2, <1>3 DEF Created, GenlTo, Inv, TypeOK, GenlState

\* No step takes the command in progress out of PcInv.
LEMMA PcStep ==
    ASSUME Inv, PcInv, Next
    PROVE  PcInv'
<1>1. genl.vid \in AllVids /\ 0 \in AllVids
  BY DEF Inv, TypeOK, GenlState, AllVids
<1>2. vlan'[0].mem = "live"
  <2>1. ASSUME NEW v \in AllVids, Created(v) \/ Deleted(v) \/ Reclaimed(v) PROVE v # 0
    BY <2>1 DEF Created, Deleted, Reclaimed, PcInv
  <2>. QED  BY <1>1, <2>1, MemSteps DEF PcInv
<1>3. genl.pc \in {"update", "set"} => vlan'[genl.vid].mem = "live"
  BY <1>1, MemSteps DEF PcInv, Created, Deleted, Reclaimed
<1>4. CASE genl' = genl
  BY <1>2, <1>3, <1>4 DEF PcInv
<1>5. CASE genl' = GenlIdle
  BY <1>2, <1>5 DEF PcInv, GenlIdle, Command
<1>6. CASE Begins
  BY <1>2, <1>6 DEF PcInv, Begins
<1>7. CASE MovesOn
  <2>1. genl'.pc \in {"update", "set"} => vlan'[genl'.vid].mem = "live"
    BY <1>3, <1>7, UpdateFollowsNew DEF MovesOn, SlotStays, SlotDone, FindsPort, LoadsWord,
                                        Created
  <2>2. CASE SlotStays
    BY <1>2, <1>7, <2>1, <2>2 DEF PcInv, MovesOn, SlotStays, FindsPort, LoadsWord
  <2>3. CASE SlotDone
    BY <1>2, <1>7, <2>1, <2>3 DEF PcInv, MovesOn, SlotDone
  <2>. QED  BY <1>7, <2>2, <2>3 DEF MovesOn
<1>. QED  BY <1>4, <1>5, <1>6, <1>7, GenlMoves

-----------------------------------------------------------------------------
(* Slots at rest: CleanInv is inductive                                     *)

LEMMA SlotsInit == Init => CleanInv /\ PcInv /\ SettingsInv
<1>. SUFFICES ASSUME Init PROVE CleanInv /\ PcInv /\ SettingsInv
  OBVIOUS
<1>1. /\ rtnl.op = "idle" /\ genl.op = "idle" /\ genl.pc = "idle"
      /\ \A p \in PIdx : Held(p) <=> p = 0
  BY DEF Init, RtnlIdle, GenlIdle, Command, Held
<1>2. /\ port[0].dev = Bridge /\ port[0].pidx = 0 /\ port[0].learning
      /\ port[0].vec = PIdx \ {0} /\ port[0].vlan = 0 /\ port[0].pvid = 0
      /\ ~port[0].filtering
  BY RestTypes DEF Init, Zeroed
<1>3. \A p \in PIdx \ {0} : port[p] = Zeroed
  BY DEF Init
<1>4. vlan[0].mem = "live"
  BY RestTypes DEF Init, NoVlan
<1>5. CleanInv
  BY <1>1, <1>2, <1>3, ConstantsAssumption DEF Init, CleanInv, Initialised, StoreInFlight,
                                               SetInFlight
<1>6. PcInv
  BY <1>1, <1>4 DEF PcInv
<1>7. SettingsInv
  <2>1. Settled(0)
    BY <1>1, <1>2, <1>4 DEF Settled, SetInFlight, HalfSet
  <2>. QED  BY <1>1, <2>1 DEF Init, SettingsInv
<1>. QED  BY <1>5, <1>6, <1>7

LEMMA InitialisedStays ==
    ASSUME NEW p, port'[p] = port[p]
    PROVE  Initialised(p)' = Initialised(p)
BY DEF Initialised

\* A word that has been loaded has yet to be stored.
LEMMA WordInFlight ==
    ASSUME PcInv, genl.pc = "word"
    PROVE  StoreInFlight(genl.pidx)
BY DEF PcInv, StoreInFlight, SetInFlight

LEMMA CleanRtnl ==
    ASSUME Inv, PcInv, CleanInv, RtnlStep
    PROVE  CleanInv'
<1>1. /\ genl' = genl
      /\ port \in [PIdx -> PortState]
      /\ \A p \in PIdx : StoreInFlight(p)' <=> StoreInFlight(p)
  BY RtnlEffect DEF Inv, TypeOK, StoreInFlight, SetInFlight
<1>2. CASE Idles
  BY <1>1, <1>2, InitialisedStays DEF Idles, CleanInv, StoreInFlight, SetInFlight
<1>3. ASSUME NEW p \in PIdx, NEW d \in Devs, Takes(p, d) PROVE CleanInv'
  <2>1. \A q \in PIdx : Held(q)' <=> Held(q) \/ q = p
    BY <1>3 DEF Takes, Held
  <2>2. /\ port'[p].dev = d /\ port'[p].pidx = p /\ port'[p].learning
        /\ port'[p].vec = PIdx \ {p}
    BY <1>1, <1>3 DEF Takes, PortInit, PortState
  <2>3. \A q \in PIdx \ {p} : port'[q] = port[q]
    BY <1>1, <1>3 DEF Takes
  <2>4. Initialised(p)'
    BY <2>2, RestTypes DEF Initialised
  <2>5. tainted \subseteq tainted' /\ (p \in cleanup => p \in tainted')
    BY <1>3 DEF Takes
  <2>6. UNCHANGED <<busy, cleanup>>
    BY <1>3 DEF Takes
  <2>. QED  BY <1>1, <2>1, <2>3, <2>4, <2>5, <2>6, InitialisedStays DEF CleanInv
<1>4. ASSUME NEW p \in PIdx, Publishes(p) PROVE CleanInv'
  <2>1. \A q \in PIdx : Held(q)' <=> Held(q)
    BY <1>4 DEF Publishes, Held
  <2>. QED  BY <1>1, <1>4, <2>1, InitialisedStays DEF Publishes, CleanInv
<1>5. ASSUME NEW p \in PIdx, GivesUp(p) PROVE CleanInv'
  <2>1. /\ ~Held(p)'
        /\ \A q \in PIdx \ {p} : Held(q)' <=> Held(q)
    BY <1>5 DEF GivesUp, Held
  <2>2. /\ port'[p] = Zeroed
        /\ \A q \in PIdx \ {p} : port'[q] = port[q]
    BY <1>1, <1>5 DEF GivesUp
  <2>3. /\ \A q \in PIdx \ {p} : q \in tainted' <=> q \in tainted
        /\ StoreInFlight(p) => p \in tainted'
    BY <1>5 DEF GivesUp
  <2>4. p \notin cleanup /\ cleanup' = cleanup /\ busy' = busy \ {p}
    BY <1>5 DEF GivesUp
  <2>5. \A q \in PIdx : StoreInFlight(q) => q \in busy' \cup tainted'
    BY <2>3, <2>4 DEF CleanInv
  <2>6. genl.pc = "word" /\ genl.pidx \notin tainted' => genl.pidx \notin tainted
    BY <2>3, WordInFlight DEF Inv, TypeOK, GenlState
  <2>. QED  BY <1>1, <2>1, <2>2, <2>3, <2>4, <2>5, <2>6, InitialisedStays DEF CleanInv
<1>6. ASSUME NEW p \in PIdx, Retires(p) PROVE CleanInv'
  <2>1. /\ ~Held(p)'
        /\ \A q \in PIdx \ {p} : Held(q)' <=> Held(q)
    BY <1>6 DEF Retires, Held
  <2>2. /\ tainted \subseteq tainted'
        /\ StoreInFlight(p) => p \in tainted'
    BY <1>6 DEF Retires
  <2>3. port' = port /\ cleanup' = cleanup \cup {p} /\ busy' = busy \ {p}
    BY <1>6 DEF Retires
  <2>. QED  BY <1>1, <2>1, <2>2, <2>3, InitialisedStays DEF CleanInv
<1>. QED  BY <1>2, <1>3, <1>4, <1>5, <1>6, RtnlEffect

LEMMA CleanRcu ==
    ASSUME Inv, PcInv, CleanInv, RcuStep
    PROVE  CleanInv'
<1>1. CASE \E v \in AllVids : VlanDelRcu(v)
  BY <1>1, InitialisedStays DEF VlanDelRcu, CleanInv, Held, StoreInFlight, SetInFlight
<1>2. CASE \E p \in PIdx : PortCleanupRcu(p)
  <2>1. PICK p \in PIdx : PortCleanupRcu(p)
    BY <1>2
  <2>2. /\ port'[p] = Zeroed
        /\ \A q \in PIdx \ {p} : port'[q] = port[q]
    BY <2>1 DEF PortCleanupRcu, Inv, TypeOK
  <2>3. /\ \A q \in PIdx : Held(q)' <=> Held(q)
        /\ UNCHANGED <<busy, genl>> /\ cleanup' = cleanup \ {p}
    BY <2>1 DEF PortCleanupRcu, Held
  <2>4. /\ \A q \in PIdx \ {p} : q \in tainted' <=> q \in tainted
        /\ Held(p) => p \in tainted'
        /\ StoreInFlight(p) => p \in busy \cup tainted'
    BY <2>1 DEF PortCleanupRcu, CleanInv, Held
  <2>5. \A q \in PIdx : StoreInFlight(q)' <=> StoreInFlight(q)
    BY <2>3 DEF StoreInFlight, SetInFlight
  <2>6. genl.pc = "word" /\ genl.pidx \notin tainted' => genl.pidx \notin tainted
    BY <2>1, <2>4, WordInFlight DEF PortCleanupRcu, Inv, TypeOK, GenlState
  <2>. QED  BY <2>2, <2>3, <2>4, <2>5, <2>6, InitialisedStays DEF CleanInv
<1>. QED  BY <1>1, <1>2 DEF RcuStep

\* What a genl command may do to a slot: it stores settings, never who owns the
\* slot, and only to slots that are busy or already raced for; the rest of the word
\* that holds vlan_filtering it changes only in a slot raced for, to what it loaded.
SettingsOnly(p) ==
    \/ port'[p] = port[p]
    \/ /\ p \in busy \cup tainted
       /\ port'[p].dev = port[p].dev /\ port'[p].vec = port[p].vec
       /\ \/ port'[p].pidx = port[p].pidx /\ port'[p].learning = port[p].learning
          \/ /\ p \in tainted /\ genl.pc = "word" /\ genl.pidx = p
             /\ port'[p].pidx = genl.word.pidx

\* The store of vlan_filtering, field by field.
LEMMA FilterStores ==
    ASSUME Inv, PortSetFilter
    PROVE  \E s : /\ PortStore("word", "idle", s)
                  /\ s.dev = ItsPort.dev /\ s.vec = ItsPort.vec
                  /\ s.pvid = ItsPort.pvid /\ s.vlan = ItsPort.vlan
                  /\ \/ /\ s.pidx = genl.word.pidx /\ s.learning = genl.word.learning
                        /\ s.filtering = (genl.vid # 0)
                     \/ /\ rtnl.pc = "publish" /\ rtnl.pidx = genl.pidx
                        /\ s.pidx = ItsPort.pidx /\ s.learning = ItsPort.learning
<1>1. ItsPort \in PortState
  BY DEF Inv, TypeOK, GenlState, ItsPort
<1>2. PICK s : /\ PortStore("word", "idle", s)
               /\ \/ s = [ItsPort EXCEPT !.pidx = genl.word.pidx,
                                         !.learning = genl.word.learning,
                                         !.filtering = genl.vid # 0]
                  \/ /\ rtnl.pc = "publish" /\ rtnl.pidx = genl.pidx
                     /\ \E f \in {ItsPort.filtering, genl.vid # 0} :
                           s = [ItsPort EXCEPT !.filtering = f]
  BY Zenon DEF PortSetFilter
<1>. HIDE DEF ItsPort
<1>3. CASE s = [ItsPort EXCEPT !.pidx = genl.word.pidx, !.learning = genl.word.learning,
                               !.filtering = genl.vid # 0]
  <2>1. /\ s.dev = ItsPort.dev /\ s.vec = ItsPort.vec
        /\ s.pvid = ItsPort.pvid /\ s.vlan = ItsPort.vlan
        /\ s.pidx = genl.word.pidx /\ s.learning = genl.word.learning
        /\ s.filtering = (genl.vid # 0)
    BY <1>1, <1>3 DEF PortState
  <2>. QED  BY <1>2, <2>1
<1>4. CASE /\ rtnl.pc = "publish" /\ rtnl.pidx = genl.pidx
           /\ \E f : s = [ItsPort EXCEPT !.filtering = f]
  <2>1. /\ s.dev = ItsPort.dev /\ s.vec = ItsPort.vec
        /\ s.pvid = ItsPort.pvid /\ s.vlan = ItsPort.vlan
        /\ s.pidx = ItsPort.pidx /\ s.learning = ItsPort.learning
    BY <1>1, <1>4 DEF PortState
  <2>. QED  BY <1>2, <1>4, <2>1
<1>. QED  BY <1>2, <1>3, <1>4

LEMMA GenlPortEffect ==
    ASSUME Inv, PcInv, CleanInv, GenlStep
    PROVE  /\ UNCHANGED <<busy, rtnl, cleanup, tainted>>
           /\ \A p \in PIdx : SettingsOnly(p)
<1>1. /\ port \in [PIdx -> PortState] /\ busy \subseteq PIdx
      /\ genl.pidx \in PIdx /\ port[genl.pidx] \in PortState
  BY DEF Inv, TypeOK, GenlState
<1>2. UNCHANGED <<busy, rtnl, cleanup, tainted>>
  <2>1. CASE VlanNew \/ VlanDelFind \/ VlanDelFree \/ Walks
    BY <2>1, WalkEffect DEF VlanNew, VlanDelFind, VlanDelFree, Faulted
  <2>2. CASE AttachTag \/ AttachMember \/ DetachMember \/ DetachUntag
    BY <2>2 DEF AttachTag, AttachMember, DetachMember, DetachUntag, VlanStore, Faulted
  <2>3. CASE PortSetPvid \/ PortSetVlan \/ PortSetLoad \/ PortSetFilter
    BY <2>3 DEF PortSetPvid, PortSetVlan, PortSetLoad, PortSetFilter, PortStore, Faulted
  <2>. QED  BY <2>1, <2>2, <2>3 DEF GenlStep, Walks, VlanAdd, VlanDel, PortSet, Detach, Attach,
                                    FindVlanPort
<1>3. UNCHANGED port => \A p \in PIdx : SettingsOnly(p)
  BY DEF SettingsOnly
<1>4. CASE Walks
  <2>1. CASE WalkStores
    <3>1. genl.pidx \in busy \cup tainted
      BY <1>1, <2>1 DEF WalkStores, CleanInv, StoreInFlight
    <3>2. ASSUME NEW w PROVE /\ [port[genl.pidx] EXCEPT !.vlan = w].dev = port[genl.pidx].dev
                             /\ [port[genl.pidx] EXCEPT !.vlan = w].pidx = port[genl.pidx].pidx
                             /\ [port[genl.pidx] EXCEPT !.vlan = w].vec = port[genl.pidx].vec
                             /\ [port[genl.pidx] EXCEPT !.vlan = w].learning
                                  = port[genl.pidx].learning
      BY <1>1 DEF PortState
    <3>3. PICK w : port' = [port EXCEPT ![genl.pidx] = [port[genl.pidx] EXCEPT !.vlan = w]]
      BY <2>1 DEF WalkStores
    <3>4. /\ port'[genl.pidx] = [port[genl.pidx] EXCEPT !.vlan = w]
          /\ \A p \in PIdx \ {genl.pidx} : port'[p] = port[p]
      BY <1>1, <3>3
    <3>5. SettingsOnly(genl.pidx)
      BY <3>1, <3>2, <3>4 DEF SettingsOnly
    <3>6. \A p \in PIdx \ {genl.pidx} : SettingsOnly(p)
      BY <3>4 DEF SettingsOnly
    <3>. QED  BY <1>2, <3>5, <3>6
  <2>. QED  BY <1>2, <1>3, <1>4, <2>1, WalkMoves DEF WalkTests, Faulted
<1>5. CASE VlanNew \/ VlanDelFind \/ VlanDelFree
  BY <1>3, <1>5 DEF VlanNew, VlanDelFind, VlanDelFree, Faulted
<1>6. ASSUME genl.op = "port_set", NEW s,
             s.dev = ItsPort.dev /\ s.vec = ItsPort.vec,
             \/ s.pidx = ItsPort.pidx /\ s.learning = ItsPort.learning
             \/ genl.pidx \in tainted /\ genl.pc = "word" /\ s.pidx = genl.word.pidx,
             port' = [port EXCEPT ![genl.pidx] = s]
      PROVE  \A p \in PIdx : SettingsOnly(p)
  <2>1. genl.pidx \in busy \cup tainted
    BY <1>1, <1>6 DEF CleanInv, StoreInFlight, SetInFlight
  <2>. QED  BY <1>1, <1>6, <2>1 DEF SettingsOnly, ItsPort
<1>7. CASE PortSetPvid
  <2>. DEFINE s == [ItsPort EXCEPT !.pvid = genl.vid]
  <2>1. /\ s.dev = ItsPort.dev /\ s.pidx = ItsPort.pidx
        /\ s.learning = ItsPort.learning /\ s.vec = ItsPort.vec
    BY <1>1 DEF ItsPort, PortState
  <2>2. genl.op = "port_set" /\ (port' = [port EXCEPT ![genl.pidx] = s] \/ port' = port)
    BY <1>7 DEF PortSetPvid, PortStore, GenlAt, Faulted, PcInv
  <2>. HIDE DEF s
  <2>. QED  BY <1>2, <1>3, <1>6, <2>1, <2>2
<1>8. CASE PortSetVlan
  <2>. DEFINE s == [ItsPort EXCEPT !.vlan = VlanFind(genl.vid)]
  <2>1. /\ s.dev = ItsPort.dev /\ s.pidx = ItsPort.pidx
        /\ s.learning = ItsPort.learning /\ s.vec = ItsPort.vec
    BY <1>1 DEF ItsPort, PortState
  <2>2. genl.op = "port_set" /\ (port' = [port EXCEPT ![genl.pidx] = s] \/ port' = port)
    BY <1>8 DEF PortSetVlan, PortStore, GenlAt, Faulted, PcInv
  <2>. HIDE DEF s
  <2>. QED  BY <1>2, <1>3, <1>6, <2>1, <2>2
<1>9. CASE PortSetFilter
  <2>1. genl.op = "port_set" /\ genl.pc = "word"
    BY <1>9 DEF PortSetFilter, PortStore, GenlAt, PcInv
  <2>2. genl.pidx \notin tainted =>
           genl.word.pidx = ItsPort.pidx /\ genl.word.learning = ItsPort.learning
    <3>1. genl.pidx \notin tainted => genl.pidx \in busy
      BY <1>1, <2>1 DEF CleanInv, StoreInFlight, SetInFlight
    <3>2. genl.pidx \notin tainted => Initialised(genl.pidx)
      BY <1>1, <3>1 DEF CleanInv, Held
    <3>. QED  BY <1>1, <2>1, <3>2 DEF CleanInv, Initialised, ItsPort, PortState
  <2>3. PICK s : /\ PortStore("word", "idle", s)
                 /\ s.dev = ItsPort.dev /\ s.vec = ItsPort.vec
                 /\ \/ s.pidx = genl.word.pidx /\ s.learning = genl.word.learning
                    \/ s.pidx = ItsPort.pidx /\ s.learning = ItsPort.learning
    BY <1>9, FilterStores
  <2>4. port' = [port EXCEPT ![genl.pidx] = s] \/ port' = port
    BY <2>3 DEF PortStore, Faulted
  <2>5. \/ s.pidx = ItsPort.pidx /\ s.learning = ItsPort.learning
        \/ genl.pidx \in tainted /\ genl.pc = "word" /\ s.pidx = genl.word.pidx
    BY <2>1, <2>2, <2>3
  <2>. QED  BY <1>2, <1>3, <1>6, <2>1, <2>3, <2>4, <2>5
<1>10. CASE AttachTag \/ AttachMember \/ DetachMember \/ DetachUntag
  BY <1>3, <1>10 DEF AttachTag, AttachMember, DetachMember, DetachUntag, VlanStore, Faulted
<1>11. CASE PortSetLoad
  BY <1>3, <1>11 DEF PortSetLoad, Faulted
<1>12. CASE GenlStep /\ ~(\/ VlanNew \/ VlanDelFind \/ VlanDelFree \/ Walks
                          \/ PortSetPvid \/ PortSetVlan \/ PortSetLoad \/ PortSetFilter
                          \/ AttachTag \/ AttachMember \/ DetachMember \/ DetachUntag)
  BY <1>3, <1>12 DEF GenlStep, Walks, VlanAdd, VlanDel, PortSet, Detach, Attach, FindVlanPort
<1>. QED  BY <1>2, <1>4, <1>5, <1>7, <1>8, <1>9, <1>10, <1>11, <1>12

LEMMA CleanGenl ==
    ASSUME Inv, PcInv, CleanInv, GenlStep
    PROVE  CleanInv'
<1>1. /\ UNCHANGED <<busy, rtnl, cleanup, tainted>>
      /\ \A p \in PIdx : SettingsOnly(p)
  BY GenlPortEffect
<1>2. \A p \in PIdx : Held(p)' <=> Held(p)
  BY <1>1 DEF Held
<1>3. \A p \in PIdx \ tainted : Initialised(p) => Initialised(p)'
  BY <1>1 DEF SettingsOnly, Initialised
<1>4. \A p \in PIdx \ (busy \cup tainted) : port'[p] = port[p]
  BY <1>1 DEF SettingsOnly
<1>5. \A p \in PIdx : ~Held(p) => p \notin busy
  BY DEF Held
<1>6. /\ \A p \in PIdx : StoreInFlight(p)' => p \in busy \cup tainted
      /\ genl'.pc = "word" /\ genl'.pidx \notin tainted =>
            genl'.word.pidx = genl'.pidx /\ genl'.word.learning
  <2>1. CASE genl' = genl
    BY <2>1 DEF CleanInv, StoreInFlight, SetInFlight
  <2>2. CASE genl' = GenlIdle
    BY <2>2 DEF GenlIdle, Command, StoreInFlight, SetInFlight
  <2>3. CASE Begins
    BY <2>3 DEF Begins, StoreInFlight, SetInFlight
  <2>4. CASE MovesOn /\ SlotDone
    BY <2>4 DEF MovesOn, SlotDone, StoreInFlight, SetInFlight, PcInv
  <2>5. CASE MovesOn /\ SlotStays
    <3>1. \A p \in PIdx : StoreInFlight(p)' => p \in busy \cup tainted
      BY <2>5 DEF MovesOn, SlotStays, FindsPort, LoadsWord, StoreInFlight, SetInFlight, CleanInv
    <3>2. CASE genl'.pc = "word" /\ genl'.pidx \notin tainted
      <4>1. LoadsWord /\ genl'.pidx = genl.pidx
        BY <2>5, <3>2 DEF MovesOn, SlotStays, FindsPort
      <4>2. genl.pidx \in PIdx /\ StoreInFlight(genl.pidx)
        BY <4>1 DEF LoadsWord, PcInv, StoreInFlight, SetInFlight, Inv, TypeOK, GenlState
      <4>3. Initialised(genl.pidx)
        BY <3>2, <4>1, <4>2 DEF CleanInv, Held
      <4>. QED  BY <3>1, <4>1, <4>3 DEF LoadsWord, Initialised, ItsPort
    <3>. QED  BY <3>1, <3>2
  <2>. QED  BY <2>1, <2>2, <2>3, <2>4, <2>5, GenlMoves DEF Next, MovesOn
<1>. QED  BY <1>1, <1>2, <1>3, <1>4, <1>5, <1>6 DEF CleanInv

LEMMA CleanStep ==
    ASSUME Inv, PcInv, CleanInv, [Next]_vars
    PROVE  CleanInv' /\ PcInv'
<1>1. CASE UNCHANGED vars
  BY <1>1, InitialisedStays DEF vars, CleanInv, PcInv, Held, StoreInFlight, SetInFlight
<1>2. CASE Next
  BY <1>2, PcStep, CleanRtnl, CleanGenl, CleanRcu DEF Next
<1>. QED  BY <1>1, <1>2

-----------------------------------------------------------------------------
(* Settings between commands: SettingsInv is inductive                      *)

\* The steps at which a genl command has settings left to store.
StoringPcs == {"vlan", "filter", "word", "update", "set", "unlink", "clear", "free"}

\* Slot p, its owner and the settings it refers to are as before.
Undisturbed(p) == /\ port'[p] = port[p] /\ (p \in busy' <=> p \in busy)
                  /\ (Held(p)' <=> Held(p)) /\ (p \in tainted => p \in tainted')

LEMMA SettledStays ==
    ASSUME Inv, SettingsInv, NEW p \in PIdx, Undisturbed(p),
           \A v \in AllVids : \/ vlan'[v].mem = vlan[v].mem
                              \/ vlan[v].mem = "dying" /\ vlan'[v].mem = "freed",
           \/ genl' = genl
           \/ genl.pc \notin StoringPcs /\ genl'.pc \notin StoringPcs
    PROVE  p \notin tainted' => /\ p \in busy' => Settled(p)'
                                /\ Held(p)' /\ p \notin busy' => Fresh(p)'
<1>1. port[p].pvid \in AllVids
  BY DEF Inv, TypeOK, PortState
<1>2. ASSUME p \in busy, Settled(p) PROVE Settled(p)'
  <2>1. CASE genl' = genl
    BY <1>1, <1>2, <2>1 DEF Settled, SetInFlight, HalfSet, Unvisited, Undisturbed
  <2>2. CASE genl.pc \notin StoringPcs /\ genl'.pc \notin StoringPcs
    BY <1>1, <1>2, <2>2 DEF Settled, SetInFlight, HalfSet, Unvisited, Undisturbed, StoringPcs
  <2>. QED  BY <2>1, <2>2
<1>3. ASSUME Fresh(p) PROVE Fresh(p)'
  BY <1>3 DEF Fresh, Undisturbed
<1>. QED  BY <1>2, <1>3 DEF SettingsInv, Undisturbed

LEMMA SettingsQuiet ==
    ASSUME Inv, SettingsInv, \A p \in PIdx : Undisturbed(p),
           \A v \in AllVids : \/ vlan'[v].mem = vlan[v].mem
                              \/ vlan[v].mem = "dying" /\ vlan'[v].mem = "freed",
           \/ genl' = genl
           \/ genl.pc \notin StoringPcs /\ genl'.pc \notin StoringPcs
    PROVE  SettingsInv'
BY SettledStays DEF SettingsInv

LEMMA SettingsRtnl ==
    ASSUME Inv, PcInv, CleanInv, SettingsInv, RtnlStep
    PROVE  SettingsInv'
<1>1. /\ genl' = genl
      /\ \A v \in AllVids : \/ vlan'[v].mem = vlan[v].mem
                            \/ vlan[v].mem = "dying" /\ vlan'[v].mem = "freed"
  <2>1. genl' = genl
    BY RtnlEffect
  <2>2. ASSUME NEW v, Created(v) \/ Deleted(v) PROVE FALSE
    BY <2>1, <2>2 DEF Created, Deleted, GenlIdle, Command, Inv, TypeOK, GenlState
  <2>. QED  BY <2>1, <2>2, MemSteps DEF Next, Reclaimed
<1>2. port \in [PIdx -> PortState] /\ 0 \in AllVids
  BY RestTypes DEF Inv, TypeOK
<1>3. CASE Idles
  <2>1. \A p \in PIdx : Undisturbed(p)
    BY <1>3 DEF Idles, Undisturbed
  <2>. QED  BY <1>1, <2>1, SettingsQuiet
<1>4. ASSUME NEW p \in PIdx, NEW d \in Devs, Takes(p, d) PROVE SettingsInv'
  <2>1. \A q \in PIdx \ {p} : Undisturbed(q)
    BY <1>2, <1>4 DEF Takes, Undisturbed, Held
  <2>2. p \notin tainted' => Fresh(p)'
    <3>. SUFFICES ASSUME p \notin tainted' PROVE Fresh(p)'
      OBVIOUS
    <3>1. p \notin cleanup \cup tainted /\ ~Held(p)
      BY <1>4 DEF Takes, Held
    <3>2. port[p] = Zeroed
      BY <3>1 DEF CleanInv
    <3>3. VlanFind(0) = 0
      BY DEF VlanFind, PcInv
    <3>4. port'[p].pvid = 0 /\ port'[p].filtering = FALSE /\ port'[p].vlan = 0
      BY <1>2, <1>4, <3>2, <3>3 DEF Takes, PortInit, PortState, Zeroed
    <3>. QED  BY <3>4 DEF Fresh
  <2>3. p \notin busy'
    BY <1>4 DEF Takes
  <2>. QED  BY <1>1, <2>1, <2>2, <2>3, SettledStays DEF SettingsInv
<1>5. ASSUME NEW p \in PIdx, Publishes(p) PROVE SettingsInv'
  <2>1. \A q \in PIdx \ {p} : Undisturbed(q)
    BY <1>5 DEF Publishes, Undisturbed, Held
  <2>2. p \notin tainted' => Settled(p)'
    <3>. SUFFICES ASSUME p \notin tainted' PROVE Settled(p)'
      OBVIOUS
    <3>1. Held(p) /\ p \notin busy \cup tainted /\ UNCHANGED <<port, vlan>>
      BY <1>5 DEF Publishes, Held
    <3>2. Fresh(p)
      BY <3>1 DEF SettingsInv
    <3>3. ~StoreInFlight(p)
      BY <3>1 DEF CleanInv
    <3>. QED  BY <1>1, <3>1, <3>2, <3>3 DEF Fresh, Settled, SetInFlight, StoreInFlight, HalfSet,
                                            PcInv
  <2>3. p \in busy'
    BY <1>5 DEF Publishes
  <2>. QED  BY <1>1, <2>1, <2>2, <2>3, SettledStays DEF SettingsInv
<1>6. ASSUME NEW p \in PIdx, GivesUp(p) \/ Retires(p) PROVE SettingsInv'
  <2>1. \A q \in PIdx \ {p} : Undisturbed(q)
    BY <1>2, <1>6 DEF GivesUp, Retires, Undisturbed, Held
  <2>2. p \notin busy' /\ ~Held(p)'
    BY <1>6 DEF GivesUp, Retires, Held
  <2>. QED  BY <1>1, <2>1, <2>2, SettledStays DEF SettingsInv
<1>. QED  BY <1>3, <1>4, <1>5, <1>6, RtnlEffect

LEMMA SettingsRcu ==
    ASSUME Inv, CleanInv, SettingsInv, RcuStep
    PROVE  SettingsInv'
<1>1. genl' = genl
  BY DEF RcuStep, PortCleanupRcu, VlanDelRcu
<1>2. CASE \E v \in AllVids : VlanDelRcu(v)
  <2>1. PICK v \in AllVids : VlanDelRcu(v)
    BY <1>2
  <2>2. \A w \in AllVids : \/ vlan'[w].mem = vlan[w].mem
                           \/ vlan[w].mem = "dying" /\ vlan'[w].mem = "freed"
    <3>1. [NoVlan EXCEPT !.mem = "freed"].mem = "freed"
      BY DEF NoVlan
    <3>2. vlan' = [vlan EXCEPT ![v] = [NoVlan EXCEPT !.mem = "freed"]] /\ vlan[v].mem = "dying"
      BY <2>1 DEF VlanDelRcu
    <3>. HIDE DEF NoVlan
    <3>. QED  BY <3>1, <3>2 DEF Inv, TypeOK
  <2>3. \A p \in PIdx : Undisturbed(p)
    BY <2>1 DEF VlanDelRcu, Undisturbed, Held
  <2>. QED  BY <1>1, <2>2, <2>3, SettingsQuiet
<1>3. CASE \E p \in PIdx : PortCleanupRcu(p)
  <2>1. PICK p \in PIdx : PortCleanupRcu(p)
    BY <1>3
  <2>2. \A q \in PIdx \ {p} : Undisturbed(q)
    BY <2>1 DEF PortCleanupRcu, Undisturbed, Held, Inv, TypeOK
  <2>3. p \in tainted' \/ (p \notin busy' /\ ~Held(p)')
    BY <2>1 DEF PortCleanupRcu, Held, CleanInv
  <2>4. vlan' = vlan
    BY <2>1 DEF PortCleanupRcu
  <2>. QED  BY <1>1, <2>2, <2>3, <2>4, SettledStays DEF SettingsInv
<1>. QED  BY <1>2, <1>3 DEF RcuStep

\* A VLAN is created and deleted before, respectively after, the ports that
\* default to it are visited; in between it is the exception Settled makes.
LEMMA SettingsMem ==
    ASSUME Inv, PcInv, SettingsInv, NEW v \in AllVids, Created(v) \/ Deleted(v),
           \A w \in AllVids \ {v} : vlan'[w].mem = vlan[w].mem
    PROVE  SettingsInv'
<1>1. /\ UNCHANGED <<port, busy, rtnl, tainted>>
      /\ \A p \in PIdx : port[p].pvid \in AllVids
  BY DEF Created, Deleted, Inv, TypeOK, PortState
<1>2. \/ /\ genl.pc = "new" /\ genl'.pc = "update" /\ genl'.vid = v /\ genl'.pidx = 0
         /\ vlan[v].mem = "none" /\ vlan'[v].mem = "live"
      \/ /\ genl.pc = "free" /\ genl'.pc = "idle" /\ genl.vid = v
         /\ vlan[v].mem = "live" /\ vlan'[v].mem = "dying"
  <2>1. CASE Created(v)
    BY <2>1 DEF Created, PcInv, Inv, TypeOK, GenlState
  <2>2. CASE Deleted(v)
    BY <2>2 DEF Deleted, GenlIdle, Command
  <2>. QED  BY <2>1, <2>2
<1>3. ASSUME NEW p \in PIdx, Settled(p) PROVE Settled(p)'
  <2>1. p \in Nat
    BY RestTypes
  <2>2. CASE port[p].pvid = v
    BY <1>1, <1>2, <1>3, <2>1, <2>2 DEF Settled, SetInFlight, HalfSet, Unvisited
  <2>3. CASE port[p].pvid # v
    BY <1>1, <1>2, <1>3, <2>3 DEF Settled, SetInFlight, HalfSet, Unvisited
  <2>. QED  BY <2>2, <2>3
<1>4. ASSUME NEW p \in PIdx PROVE (Held(p)' <=> Held(p)) /\ (Fresh(p) => Fresh(p)')
  BY <1>1 DEF Held, Fresh
<1>. QED  BY <1>1, <1>3, <1>4 DEF SettingsInv

\* vlan del has found its VLAN: from now on the ports that default to it may or
\* may not point to it.
LEMMA SettingsFind ==
    ASSUME Inv, SettingsInv, UNCHANGED <<port, busy, rtnl, vlan, tainted>>,
           genl.pc = "find", genl'.pc = "unlink", genl'.vid = genl.vid
    PROVE  SettingsInv'
<1>1. ASSUME NEW p \in PIdx, Settled(p) PROVE Settled(p)'
  BY <1>1 DEF Settled, SetInFlight, HalfSet, Unvisited
<1>2. ASSUME NEW p \in PIdx PROVE (Held(p)' <=> Held(p)) /\ (Fresh(p) => Fresh(p)')
  BY DEF Held, Fresh
<1>. QED  BY <1>1, <1>2 DEF SettingsInv

\* __update_port_vlan, from vlan add and from vlan del: a slot that the walk has
\* left behind points to the VLAN, if it is to.
LEMMA SettingsWalk ==
    ASSUME Inv, PcInv, CleanInv, SettingsInv, WalkTests \/ WalkStores,
           UNCHANGED <<busy, rtnl, vlan, tainted>>
    PROVE  SettingsInv'
<1>1. /\ port \in [PIdx -> PortState] /\ genl.vid \in AllVids /\ genl.pidx \in PIdx
      /\ \A p \in PIdx : port[p] \in PortState /\ port[p].pvid \in AllVids
      /\ PIdx \subseteq Nat
  BY RestTypes DEF Inv, TypeOK, PortState, GenlState
<1>2. genl.pc \in {"update", "set", "unlink", "clear"} /\ genl.op # "port_set"
  BY DEF WalkTests, WalkStores, PcInv
<1>3. genl'.op # "port_set" /\ genl'.pc \notin {"vlan", "filter", "word"}
  BY <1>2 DEF WalkTests, WalkStores, Advances, FindsPort, GenlIdle, Command
<1>4. genl.pc \in {"unlink", "clear"} =>
         genl'.pc \in {"unlink", "clear", "free"} /\ genl'.vid = genl.vid
  BY DEF WalkTests, WalkStores, Advances, FindsPort
<1>5. ASSUME Advances, NEW p \in PIdx, p # genl.pidx, Unvisited(p)
      PROVE  Unvisited(p)' /\ genl'.vid = genl.vid
  <2>1. CASE genl.pc \in {"unlink", "clear"}
    BY <1>4, <2>1 DEF Unvisited
  <2>2. CASE genl.pc \in {"update", "set"}
    <3>1. p \in Nat /\ genl.pidx \in Nat /\ genl.pidx <= p
      BY <1>1, <1>5, <2>2 DEF Unvisited
    <3>2. genl.pidx + 1 <= p
      BY <1>5, <3>1
    <3>3. genl.pidx + 1 \in PIdx
      <4>1. p <= MaxPorts - 1 /\ MaxPorts \in Nat
        BY ConstantsAssumption DEF PIdx
      <4>. QED  BY <3>1, <3>2, <4>1 DEF PIdx
    <3>. QED  BY <1>5, <2>2, <3>2, <3>3 DEF Advances, Unvisited
  <2>. QED  BY <1>2, <2>1, <2>2
<1>6. Advances => genl'.pc \notin {"set", "clear"}
  BY DEF Advances, GenlIdle, Command
<1>7. CASE WalkTests
  <2>1. ASSUME FindsPort, genl'.vid = genl.vid, genl'.pidx = genl.pidx,
               NEW p \in PIdx, Settled(p)
        PROVE  Settled(p)'
    BY <1>2, <1>3, <1>7, <2>1 DEF WalkTests, FindsPort, Settled, SetInFlight, HalfSet, Unvisited
  <2>2. ASSUME Advances, ~(genl.pidx \in busy /\ port[genl.pidx].pvid = genl.vid),
               NEW p \in busy, p \in PIdx, Settled(p)
        PROVE  Settled(p)'
    <3>1. port'[p] = port[p]
      BY <1>7 DEF WalkTests
    <3>2. Unvisited(p) /\ genl.vid = port[p].pvid =>
             Unvisited(p)' /\ genl'.vid = port[p].pvid
      BY <1>5, <2>2
    <3>. QED  BY <1>2, <1>3, <1>6, <2>2, <3>1, <3>2 DEF Settled, SetInFlight, HalfSet
  <2>. QED  BY <1>7, <2>1, <2>2 DEF WalkTests, SettingsInv, Held, Fresh
<1>8. CASE WalkStores
  <2>1. Advances /\ \A p \in PIdx \ {genl.pidx} : port'[p] = port[p]
    BY <1>1, <1>8 DEF WalkStores
  <2>2. ASSUME NEW p \in PIdx, p # genl.pidx, Settled(p) PROVE Settled(p)'
    <3>1. Unvisited(p) /\ genl.vid = port[p].pvid =>
             Unvisited(p)' /\ genl'.vid = port[p].pvid
      BY <1>5, <2>1, <2>2
    <3>. QED  BY <1>2, <1>3, <1>6, <2>1, <2>2, <3>1 DEF Settled, SetInFlight, HalfSet
  <2>3. ASSUME NEW x \in PIdx, x = genl.pidx, Settled(x) PROVE Settled(x)'
    <3>. DEFINE w == IF genl.pc = "set" THEN genl.vid ELSE Null
    <3>2. /\ port'[x].pvid = port[x].pvid /\ port'[x].vlan = w
          /\ port'[x].filtering = port[x].filtering
      BY <1>1, <1>8, <2>3 DEF WalkStores, PortState
    <3>3. port[x].pvid = genl.vid
      BY <1>8, <2>3 DEF WalkStores, Settled
    <3>4. genl.pc = "set" => vlan[genl.vid].mem = "live"
      BY DEF PcInv
    <3>5. genl.pc = "clear" => Unvisited(x)' /\ genl'.vid = genl.vid
      BY <1>6, <1>4, <2>1 DEF Unvisited
    <3>6. genl.pc \in {"set", "clear"}
      BY <1>8 DEF WalkStores
    <3>. QED  BY <1>2, <1>3, <1>6, <2>1, <2>3, <3>2, <3>3, <3>4, <3>5, <3>6
              DEF Settled, SetInFlight, HalfSet
  <2>4. genl.pidx \in busy \cup tainted
    BY <1>1, <1>8 DEF WalkStores, CleanInv, StoreInFlight
  <2>5. ASSUME NEW p \in PIdx PROVE Held(p)' <=> Held(p)
    BY DEF Held
  <2>6. ASSUME NEW p \in PIdx, p # genl.pidx, Fresh(p) PROVE Fresh(p)'
    BY <2>1, <2>6 DEF Fresh
  <2>7. ASSUME NEW p \in PIdx \ tainted
        PROVE  /\ p \in busy => Settled(p)'
               /\ Held(p) /\ p \notin busy => Fresh(p)'
    <3>1. CASE p = genl.pidx
      BY <2>3, <2>4, <2>7, <3>1 DEF SettingsInv
    <3>2. CASE p # genl.pidx
      BY <2>2, <2>6, <2>7, <3>2 DEF SettingsInv
    <3>. QED  BY <3>1, <3>2
  <2>. SUFFICES ASSUME NEW p \in PIdx \ tainted
                PROVE  /\ p \in busy => Settled(p)'
                       /\ Held(p)' /\ p \notin busy => Fresh(p)'
    BY DEF SettingsInv
  <2>. QED  BY <2>5, <2>7
<1>. QED  BY <1>7, <1>8

\* ubr_port_nl_set_cmd, one store after the other.
LEMMA SettingsPortSet ==
    ASSUME Inv, PcInv, CleanInv, SettingsInv,
           PortSetPvid \/ PortSetVlan \/ PortSetLoad \/ PortSetFilter,
           ~UNCHANGED <<port, genl>>
    PROVE  SettingsInv'
<1>0. PICK x \in PIdx : x = genl.pidx
  BY DEF Inv, TypeOK, GenlState
<1>1. /\ port \in [PIdx -> PortState] /\ genl.vid \in AllVids
      /\ port[x] \in PortState /\ genl \in GenlState
      /\ \A p \in PIdx : port[p].pvid \in AllVids
  BY <1>0 DEF Inv, TypeOK, GenlState, PortState
<1>2. /\ genl.op = "port_set" /\ genl.pc \in {"pvid", "vlan", "filter", "word"}
      /\ UNCHANGED <<busy, vlan, rtnl, tainted>>
  BY DEF PortSetPvid, PortSetVlan, PortSetLoad, PortSetFilter, PortStore, GenlAt, PcInv, Faulted
<1>3. x \in busy \cup tainted
  BY <1>0, <1>2 DEF CleanInv, StoreInFlight, SetInFlight
<1>4. /\ \A p \in PIdx \ {x} : port'[p] = port[p]
      /\ \/ /\ genl.pc = "pvid" /\ genl' = [genl EXCEPT !.pc = "vlan"]
            /\ port'[x].pvid = genl.vid
         \/ /\ genl.pc = "vlan" /\ genl' = [genl EXCEPT !.pc = "filter"]
            /\ port'[x].pvid = port[x].pvid /\ port'[x].vlan = VlanFind(genl.vid)
         \/ /\ genl.pc = "filter" /\ UNCHANGED port
            /\ \E w : genl' = [genl EXCEPT !.pc = "word", !.word = w]
         \/ /\ genl.pc = "word" /\ genl' = GenlIdle
            /\ port'[x].pvid = port[x].pvid /\ port'[x].vlan = port[x].vlan
            /\ x \in busy => port'[x].filtering = (genl.vid # 0)
  <2>1. CASE PortSetPvid
    BY <1>0, <1>1, <2>1 DEF PortSetPvid, PortStore, GenlAt, ItsPort, PortState, Faulted
  <2>2. CASE PortSetVlan
    <3>1. /\ genl.pc = "vlan" /\ genl' = [genl EXCEPT !.pc = "filter"]
          /\ port' = [port EXCEPT ![genl.pidx] = [ItsPort EXCEPT !.vlan = VlanFind(genl.vid)]]
      BY <2>2 DEF PortSetVlan, PortStore, GenlAt, Faulted
    <3>2. /\ [ItsPort EXCEPT !.vlan = VlanFind(genl.vid)].pvid = port[x].pvid
          /\ [ItsPort EXCEPT !.vlan = VlanFind(genl.vid)].vlan = VlanFind(genl.vid)
      BY <1>0, <1>1 DEF ItsPort, PortState
    <3>. HIDE DEF ItsPort, VlanFind
    <3>. QED  BY <1>0, <1>1, <3>1, <3>2
  <2>3. CASE PortSetLoad
    BY <1>0, <2>3, Zenon DEF PortSetLoad, GenlAt, Faulted
  <2>4. CASE PortSetFilter
    <3>1. PICK s : /\ PortStore("word", "idle", s)
                   /\ s.pvid = ItsPort.pvid /\ s.vlan = ItsPort.vlan
                   /\ \/ s.filtering = (genl.vid # 0)
                      \/ rtnl.pc = "publish" /\ rtnl.pidx = genl.pidx
      BY <2>4, FilterStores
    <3>2. rtnl.pc = "publish" => rtnl.pidx \notin busy
      BY RestTypes DEF Inv, TypeOK, RtnlState, RtnlInv, RtnlIdle, AddInv, DelInv, DelPcs
    <3>3. /\ genl.pc = "word" /\ genl' = GenlIdle
          /\ port' = [port EXCEPT ![genl.pidx] = s]
      BY <3>1 DEF PortStore, GenlAt, Faulted
    <3>. QED  BY <1>0, <1>1, <3>1, <3>2, <3>3 DEF ItsPort
  <2>. QED  BY <2>1, <2>2, <2>3, <2>4
<1>5. /\ genl'.op = "port_set" => genl'.pidx = x
      /\ genl.pc = "pvid" => genl'.op = "port_set" /\ genl'.pc = "vlan" /\ genl'.vid = genl.vid
      /\ genl.pc = "vlan" => genl'.op = "port_set" /\ genl'.pc = "filter" /\ genl'.vid = genl.vid
      /\ genl.pc = "filter" => genl'.op = "port_set" /\ genl'.pc = "word" /\ genl'.vid = genl.vid
      /\ genl.pc = "word" => genl'.pc = "idle" /\ genl'.op = "idle"
  <2>1. ASSUME NEW pc, genl' = [genl EXCEPT !.pc = pc]
        PROVE  genl'.op = "port_set" /\ genl'.pc = pc /\ genl'.vid = genl.vid /\ genl'.pidx = x
    BY <1>0, <1>1, <1>2, <2>1 DEF GenlState
  <2>2. ASSUME NEW w, genl' = [genl EXCEPT !.pc = "word", !.word = w]
        PROVE  /\ genl'.op = "port_set" /\ genl'.pc = "word" /\ genl'.vid = genl.vid
               /\ genl'.pidx = x
    BY <1>0, <1>1, <1>2, <2>2 DEF GenlState
  <2>3. GenlIdle.pc = "idle" /\ GenlIdle.op = "idle"
    BY DEF GenlIdle, Command
  <2>. QED  BY <1>2, <1>4, <2>1, <2>2, <2>3
<1>6. ASSUME NEW p \in PIdx, p # x, Settled(p) PROVE Settled(p)'
  <2>1. port'[p] = port[p]
    BY <1>4, <1>6
  <2>2. /\ ~SetInFlight(p) /\ ~SetInFlight(p)'
        /\ ~Unvisited(p) /\ ~Unvisited(p)'
        /\ genl.pc \notin {"set", "clear"} /\ genl'.pc \notin {"set", "clear"}
    BY <1>0, <1>2, <1>5, <1>6 DEF SetInFlight, Unvisited
  <2>. QED  BY <1>2, <1>6, <2>1, <2>2 DEF Settled, SetInFlight, HalfSet, Unvisited
<1>7. ASSUME x \in busy, Settled(x) PROVE Settled(x)'
  <2>1. SetInFlight(x)
    BY <1>0, <1>2 DEF SetInFlight
  <2>2. CASE genl.pc = "pvid"
    <3>1. port'[x].pvid = genl.vid /\ SetInFlight(x)' /\ genl'.pc = "vlan"
      BY <1>4, <1>5, <2>2 DEF SetInFlight
    <3>. QED  BY <1>5, <2>2, <3>1 DEF Settled, HalfSet
  <2>3. CASE genl.pc = "vlan"
    <3>1. /\ port[x].pvid = genl.vid /\ port'[x].pvid = genl.vid
          /\ port'[x].vlan = VlanFind(genl.vid)
      BY <1>4, <1>7, <2>1, <2>3 DEF Settled, HalfSet
    <3>2. SetInFlight(x)' /\ genl'.pc = "filter" /\ genl'.vid = genl.vid
      BY <1>5, <2>3 DEF SetInFlight
    <3>. QED  BY <1>2, <3>1, <3>2 DEF Settled, VlanFind, HalfSet
  <2>4. CASE genl.pc = "filter"
    <3>1. port[x].pvid = genl.vid /\ port'[x] = port[x]
      BY <1>4, <1>7, <2>1, <2>4 DEF Settled, HalfSet
    <3>2. SetInFlight(x)' /\ genl'.pc = "word" /\ genl'.vid = genl.vid
      BY <1>5, <2>4 DEF SetInFlight
    <3>. QED  BY <1>2, <1>7, <2>1, <2>4, <3>1, <3>2 DEF Settled, HalfSet, Unvisited
  <2>5. CASE genl.pc = "word"
    <3>1. /\ port[x].pvid = genl.vid /\ port'[x].pvid = genl.vid
          /\ port'[x].vlan = port[x].vlan
      BY <1>4, <1>7, <2>1, <2>5 DEF Settled, HalfSet
    <3>2. port'[x].filtering <=> genl.vid # 0
      BY <1>4, <1>7, <2>5
    <3>3. ~SetInFlight(x)' /\ genl'.pc = "idle"
      BY <1>5, <2>5 DEF SetInFlight
    <3>. QED  BY <1>2, <1>7, <2>5, <3>1, <3>2, <3>3 DEF Settled, HalfSet, Unvisited
  <2>. QED  BY <1>2, <2>2, <2>3, <2>4, <2>5
<1>8. ASSUME NEW p \in PIdx PROVE Held(p)' <=> Held(p)
  BY <1>2 DEF Held
<1>9. ASSUME NEW p \in PIdx, p # x, Fresh(p) PROVE Fresh(p)'
  BY <1>4, <1>9 DEF Fresh
<1>. QED  BY <1>2, <1>3, <1>6, <1>7, <1>8, <1>9 DEF SettingsInv

LEMMA SettingsGenl ==
    ASSUME Inv, PcInv, CleanInv, SettingsInv, GenlStep
    PROVE  SettingsInv'
<1>1. UNCHANGED <<busy, rtnl, cleanup, tainted>>
  BY GenlPortEffect
<1>2. \A p \in PIdx : Held(p)' <=> Held(p)
  BY <1>1 DEF Held
<1>3. CASE \E v \in AllVids : /\ \A w \in AllVids \ {v} : vlan'[w].mem = vlan[w].mem
                              /\ Created(v) \/ Deleted(v)
  BY <1>3, SettingsMem
<1>4. CASE \E v \in AllVids : /\ \A w \in AllVids \ {v} : vlan'[w].mem = vlan[w].mem
                              /\ Reclaimed(v)
  <2>1. \A p \in PIdx : Undisturbed(p)
    BY <1>1, <1>2, <1>4 DEF Undisturbed, Reclaimed
  <2>. QED  BY <1>4, <2>1, SettingsQuiet DEF Reclaimed
<1>5. CASE \A v \in AllVids : vlan'[v].mem = vlan[v].mem
  <2>1. vlan[genl.vid] \in VlanState /\ genl.vid \in AllVids /\ vlan \in [AllVids -> VlanState]
    BY DEF Inv, TypeOK, GenlState
  <2>2. ASSUME UNCHANGED port,
               \/ genl' = genl
               \/ genl.pc \notin StoringPcs /\ genl'.pc \notin StoringPcs
        PROVE  SettingsInv'
    <3>1. \A p \in PIdx : Undisturbed(p)
      BY <1>1, <1>2, <2>2 DEF Undisturbed
    <3>. QED  BY <1>5, <2>2, <3>1, SettingsQuiet
  <2>3. ASSUME UNCHANGED port, genl.pc \notin StoringPcs, genl.pc \notin {"new", "find", "pvid"}
        PROVE  SettingsInv'
    BY <2>2, <2>3, GenlMoves DEF Next, Begins, MovesOn, SlotStays, SlotDone, FindsPort,
                                 LoadsWord, GenlIdle, Command, StoringPcs
  <2>4. ASSUME UNCHANGED port, genl.pc \notin StoringPcs, genl' = GenlIdle
        PROVE  SettingsInv'
    BY <2>2, <2>4 DEF GenlIdle, Command, StoringPcs
  <2>5. ASSUME NEW kind, Faulted(kind) PROVE SettingsInv'
    BY <2>2, <2>5 DEF Faulted
  <2>6. CASE VlanNew
    <3>1. ~(/\ vlan' = [vlan EXCEPT ![genl.vid] = [NoVlan EXCEPT !.mem = "live"]]
            /\ vlan[genl.vid].mem = "none")
      <4>1. [NoVlan EXCEPT !.mem = "live"].mem = "live"
        BY DEF NoVlan
      <4>. QED  BY <1>5, <2>1, <4>1
    <3>. QED  BY <2>4, <2>5, <2>6, <3>1 DEF VlanNew, GenlAt, StoringPcs
  <2>7. CASE Walks
    <3>1. UNCHANGED vlan
      BY <2>7, WalkEffect DEF Faulted
    <3>. QED  BY <1>1, <2>5, <2>7, <3>1, WalkMoves, SettingsWalk
  <2>8. CASE VlanDelFind
    <3>1. CASE GenlTo("unlink") /\ UNCHANGED <<port, vlan>>
      <4>1. genl.pc = "find" /\ genl'.pc = "unlink" /\ genl'.vid = genl.vid
        BY <2>8, <3>1 DEF VlanDelFind, GenlAt, GenlTo, Inv, TypeOK, GenlState
      <4>. QED  BY <1>1, <3>1, <4>1, SettingsFind
    <3>. QED  BY <2>4, <2>5, <2>8, <3>1 DEF VlanDelFind, GenlAt, StoringPcs
  <2>9. CASE VlanDelFree
    <3>1. ~(/\ vlan' = [vlan EXCEPT ![genl.vid].members = {}, ![genl.vid].mem = "dying"]
            /\ vlan[genl.vid].mem = "live")
      BY <1>5, <2>1 DEF VlanState
    <3>. QED  BY <2>5, <2>9, <3>1 DEF VlanDelFree
  <2>10. CASE PortSetPvid \/ PortSetVlan \/ PortSetLoad \/ PortSetFilter
    BY <2>2, <2>10, SettingsPortSet
  <2>11. CASE AttachTag \/ AttachMember \/ DetachMember \/ DetachUntag
    <3>1. UNCHANGED port /\ genl.pc \in {"tag", "member", "unmember", "untag"}
      BY <2>11 DEF AttachTag, AttachMember, DetachMember, DetachUntag, VlanStore, GenlAt,
                   Faulted
    <3>. QED  BY <2>3, <3>1 DEF StoringPcs
  <2>12. CASE GenlFree
    <3>1. genl.pc = "idle"
      BY <2>12 DEF GenlFree, GenlIdle, Command
    <3>2. UNCHANGED port
      BY <3>1 DEF GenlStep, VlanAdd, VlanDel, PortSet, Attach, Detach, FindVlanPort, VlanNew,
                  VlanAddTest, VlanAddStore, VlanDelFind, VlanDelTest, VlanDelStore,
                  UpdateTest, UpdateStore, VlanDelFree, AttachTag, AttachMember,
                  DetachMember, DetachUntag, VlanStore, PortSetPvid, PortSetVlan,
                  PortSetLoad, PortSetFilter, PortStore, GenlAt
    <3>. QED  BY <2>3, <3>1, <3>2 DEF StoringPcs
  <2>. QED  BY <2>6, <2>7, <2>8, <2>9, <2>10, <2>11, <2>12
            DEF GenlStep, Walks, VlanAdd, VlanDel, PortSet, Attach, Detach, FindVlanPort
<1>. QED  BY <1>3, <1>4, <1>5, MemSteps DEF Next

LEMMA SettingsStep ==
    ASSUME Inv, PcInv, CleanInv, SettingsInv, [Next]_vars
    PROVE  SettingsInv'
<1>1. CASE UNCHANGED vars
  <2>1. \A p \in PIdx : Undisturbed(p)
    BY <1>1 DEF vars, Undisturbed, Held
  <2>2. genl' = genl /\ \A v \in AllVids : vlan'[v].mem = vlan[v].mem
    BY <1>1 DEF vars
  <2>. QED  BY <2>1, <2>2, SettingsQuiet
<1>2. CASE Next
  BY <1>2, SettingsRtnl, SettingsGenl, SettingsRcu DEF Next
<1>. QED  BY <1>1, <1>2

-----------------------------------------------------------------------------
(* Where the control plane can go wrong                                     *)

\* As long as no slot is raced for, every slot in use is initialised.
LEMMA HeldIsInitialised ==
    ASSUME CleanInv, tainted = {}, NEW p \in PIdx, Held(p)
    PROVE  p \notin cleanup /\ port[p].dev # Null /\ port[p].pidx = p
BY DEF CleanInv, Initialised

LEMMA RtnlFaultCause ==
    ASSUME Inv, CleanInv, RtnlStep, tainted = {}
    PROVE  fault' = fault
<1>1. busy \subseteq PIdx /\ \A p \in busy : Held(p)
  BY DEF Inv, TypeOK, Held
<1>2. CASE PortPublish
  <2>1. \A p \in busy \cup {rtnl.pidx} : p \in PIdx /\ Held(p)
    BY <1>1, <1>2 DEF PortPublish, RtnlAt, Held, Inv, TypeOK, RtnlState
  <2>. QED  BY <1>2, <2>1, HeldIsInitialised DEF PortPublish
<1>3. CASE PortUninit
  <2>1. rtnl.pidx \in PIdx /\ Held(rtnl.pidx)
    BY <1>3 DEF PortUninit, RtnlAt, Held, Inv, TypeOK, RtnlState
  <2>. QED  BY <1>3, <2>1, HeldIsInitialised DEF PortUninit
<1>4. CASE \E d \in Devs : DeviceEvent(d)
  <2>1. PICK d \in Devs : DeviceEvent(d)
    BY <1>4
  <2>2. dev[d].rx \in busy
    <3>1. Enslaved(dev[d])
      BY <2>1, RestTypes DEF DeviceEvent, RtnlAt, Inv, RtnlInv, RtnlIdle, OthersInv, Free, Holds
    <3>. QED  BY <3>1 DEF Enslaved, Inv, SlotInv
  <2>3. port[dev[d].rx].pidx = dev[d].rx
    BY <1>1, <2>2, HeldIsInitialised
  <2>. QED  BY <2>1, <2>3 DEF DeviceEvent, StartPortDel
<1>5. CASE DellinkNext
  <2>1. ASSUME {p \in busy : p > rtnl.pidx} # {}
        PROVE  port[Least({p \in busy : p > rtnl.pidx})].dev # Null
    <3>. DEFINE p == Least({q \in busy : q > rtnl.pidx})
    <3>1. p \in busy
      BY <1>1, <2>1, LeastIsMinimum
    <3>. QED  BY <1>1, <3>1, HeldIsInitialised
  <2>. QED  BY <1>5, <2>1 DEF DellinkNext, StartPortDel
<1>6. CASE PortCleanup
  <2>1. rtnl.pidx \in busy
    BY <1>6 DEF PortCleanup, Deleting, RtnlAt, Inv, DelInv
  <2>2. rtnl.pidx \notin cleanup /\ port[rtnl.pidx].pidx = rtnl.pidx
    BY <1>1, <2>1, HeldIsInitialised
  <2>. QED  BY <1>6, <2>2 DEF PortCleanup
<1>7. CASE RtnlStep /\ ~(\/ PortPublish \/ PortUninit \/ DellinkNext \/ PortCleanup
                         \/ \E d \in Devs : DeviceEvent(d))
  BY <1>7 DEF RtnlStep, PortAdd, DelSlave, PortLink, PortPromisc, PortAllmulti, PortRxRegister,
              UndoAllmulti, UndoPromisc, UndoLink, Dellink, RxUnregister, RxSynchronized,
              PortRelease, StartPortDel
<1>. QED  BY <1>2, <1>3, <1>4, <1>5, <1>6, <1>7

LEMMA GenlFaultCause ==
    ASSUME Inv, PcInv, GenlStep, fault' # fault
    PROVE  CommandCause
<1>1. CASE VlanNew \/ VlanDelFind \/ VlanDelFree
  BY <1>1 DEF VlanNew, VlanDelFind, VlanDelFree, GenlUsesVlan, GenlAt, PcInv, CommandCause
<1>2. CASE Walks
  BY <1>2 DEF Walks, VlanAddTest, VlanAddStore, VlanDelTest, VlanDelStore, UpdateTest,
              UpdateStore, GenlAt, PcInv, CommandCause
<1>3. CASE AttachTag \/ AttachMember \/ DetachMember \/ DetachUntag
  BY <1>3 DEF AttachTag, AttachMember, DetachMember, DetachUntag, VlanStore, GenlAt, PcInv,
              CommandCause
<1>4. CASE PortSetPvid \/ PortSetVlan \/ PortSetLoad \/ PortSetFilter
  BY <1>4 DEF PortSetPvid, PortSetVlan, PortSetLoad, PortSetFilter, PortStore, GenlAt, PcInv,
              CommandCause
<1>. QED  BY <1>1, <1>2, <1>3, <1>4 DEF GenlStep, Walks, VlanAdd, VlanDel, PortSet, Attach,
                                        Detach, FindVlanPort

\* Nothing is meaningful after the first undefined behaviour, so the model stops.
LEMMA FaultEndsBridge ==
    ASSUME Next
    PROVE  fault = "none"
<1>1. CASE RtnlStep
  BY <1>1 DEF RtnlStep, PortAdd, DelSlave, DeviceEvent, PortPublish, PortLink, PortPromisc,
     PortAllmulti, PortRxRegister, UndoAllmulti, UndoPromisc, UndoLink, PortUninit, Dellink,
     DellinkNext, RxUnregister, RxSynchronized, PortRelease, PortCleanup, Deleting, RtnlAt
<1>2. CASE GenlStep
  BY <1>2 DEF GenlStep, VlanAdd, VlanDel, PortSet, Attach, Detach, FindVlanPort, VlanNew,
     VlanAddTest, VlanAddStore, VlanDelFind, VlanDelTest, VlanDelStore, UpdateTest,
     UpdateStore, VlanDelFree, AttachTag, AttachMember, DetachMember, DetachUntag, VlanStore,
     PortSetPvid, PortSetVlan, PortSetLoad, PortSetFilter, PortStore, GenlAt, GenlFree
<1>3. CASE RcuStep
  BY <1>3 DEF RcuStep, PortCleanupRcu, VlanDelRcu
<1>. QED  BY <1>1, <1>2, <1>3 DEF Next

\* The first undefined behaviour of a command has a cause in the state it happens
\* in, and the step that meets it changes nothing else.
LEMMA CommandFaults ==
    ASSUME Inv, PcInv, CleanInv, Next, fault' # fault
    PROVE  CommandCause /\ CommandCause'
<1>1. CommandCause
  <2>1. CASE RtnlStep
    BY <2>1, RtnlFaultCause DEF CommandCause
  <2>2. CASE GenlStep
    BY <2>2, GenlFaultCause
  <2>3. CASE RcuStep
    BY <2>3 DEF RcuStep, PortCleanupRcu, VlanDelRcu
  <2>. QED  BY <2>1, <2>2, <2>3 DEF Next
<1>2. UNCHANGED <<link, vlan, genl, tainted>>
  <2>1. CASE RtnlStep
    BY <2>1 DEF RtnlStep, PortAdd, DelSlave, DeviceEvent, PortPublish, PortLink, PortPromisc,
       PortAllmulti, PortRxRegister, UndoAllmulti, UndoPromisc, UndoLink, PortUninit, Dellink,
       DellinkNext, RxUnregister, RxSynchronized, PortRelease, PortCleanup, StartPortDel,
       Faulted
  <2>2. CASE GenlStep
    BY <2>2 DEF GenlStep, VlanAdd, VlanDel, PortSet, Attach, Detach, FindVlanPort, VlanNew,
       VlanAddTest, VlanAddStore, VlanDelFind, VlanDelTest, VlanDelStore, UpdateTest,
       UpdateStore, VlanDelFree, AttachTag, AttachMember, DetachMember, DetachUntag,
       VlanStore, PortSetPvid, PortSetVlan, PortSetLoad, PortSetFilter, PortStore, Faulted
  <2>3. CASE RcuStep
    BY <2>3 DEF RcuStep, PortCleanupRcu, VlanDelRcu
  <2>. QED  BY <2>1, <2>2, <2>3 DEF Next
<1>. QED  BY <1>1, <1>2 DEF CommandCause

LEMMA CrashStep ==
    ASSUME Inv, PcInv, CleanInv, CrashCauses, [Next]_vars
    PROVE  CrashCauses'
<1>1. CASE UNCHANGED vars
  BY <1>1 DEF vars, CrashCauses, CommandCause
<1>2. CASE Next
  <2>1. fault = "none"
    BY <1>2, FaultEndsBridge
  <2>. QED  BY <1>2, <2>1, CommandFaults DEF CrashCauses
<1>. QED  BY <1>1, <1>2

-----------------------------------------------------------------------------
(* Theorems                                                                 *)

\* The four invariants are inductive together, on top of Inv.
SlotsInv == CleanInv /\ PcInv /\ SettingsInv /\ CrashCauses

THEOREM SlotsInvariance == Spec => [](Inv /\ SlotsInv)
<1>1. Init => SlotsInv
  BY SlotsInit DEF SlotsInv, Init, CrashCauses
<1>2. Inv /\ SlotsInv /\ [Next]_vars => SlotsInv'
  BY CleanStep, SettingsStep, CrashStep DEF SlotsInv
<1>. QED  BY <1>1, <1>2, Invariance, PTL DEF Spec

\* A slot nobody is at work on is zeroed or completely initialised, so that
\* ubr_port_init may rely on the fields it does not store.
THEOREM SlotsAreClean == Spec => []SlotsClean
<1>1. Inv /\ SlotsInv => SlotsClean
  <2>. SUFFICES ASSUME Inv, SlotsInv, NEW p \in PIdx, AtRest(p)
                PROVE  IF p \in busy THEN Initialised(p) ELSE port[p] = Zeroed
    BY DEF SlotsClean, Initialised
  <2>1. p \notin cleanup \cup tainted /\ (Held(p) <=> p \in busy)
    BY DEF AtRest, Held
  <2>. QED  BY <2>1 DEF SlotsInv, CleanInv
<1>. QED  BY <1>1, SlotsInvariance, PTL

\* Between genl commands the ingress settings of a port agree with its PVID,
\* whatever order vlan add, vlan del and port set came in.
THEOREM SettingsAgree == Spec => []PortVlanCoherent
<1>1. Inv /\ SlotsInv => PortVlanCoherent
  <2>. SUFFICES ASSUME Inv, SlotsInv, genl.op = "idle", NEW p \in busy \ tainted
                PROVE  /\ port[p].filtering = (port[p].pvid # 0)
                       /\ port[p].vlan \in {port[p].pvid, Null}
                       /\ vlan[port[p].pvid].mem = "live" => port[p].vlan = port[p].pvid
                       /\ vlan[port[p].pvid].mem = "none" => port[p].vlan = Null
    BY DEF PortVlanCoherent
  <2>1. p \in PIdx /\ port[p].filtering \in BOOLEAN
    BY DEF Inv, TypeOK, PortState
  <2>2. Settled(p) /\ ~SetInFlight(p) /\ genl.pc = "idle"
    BY <2>1 DEF SlotsInv, SettingsInv, PcInv, SetInFlight
  <2>3. port[p].filtering <=> port[p].pvid # 0
    BY <2>2 DEF Settled, HalfSet
  <2>4. /\ port[p].vlan \in {port[p].pvid, Null}
        /\ vlan[port[p].pvid].mem = "live" => port[p].vlan = port[p].pvid
        /\ vlan[port[p].pvid].mem = "none" => port[p].vlan = Null
    BY <2>2 DEF Settled, Unvisited
  <2>. QED  BY <2>1, <2>3, <2>4
<1>. QED  BY <1>1, SlotsInvariance, PTL

\* The control plane goes wrong only where CommandCause says; in particular,
\* no command that holds the RTNL does, unless a slot was raced for.
THEOREM CrashesHaveCauses == Spec => []CrashCauses
<1>1. SlotsInv => CrashCauses
  BY DEF SlotsInv
<1>. QED  BY <1>1, SlotsInvariance, PTL

=============================================================================
