-------------------------- MODULE UbrBridge_proofs --------------------------
(* The enslavement of devices, proved for any number of devices, ports and  *)
(* VLANs.  The argument is one inductive invariant, Inv: it says which      *)
(* resources the command that holds the RTNL has acquired at each of its    *)
(* steps, that every other device is released or completely enslaved, and   *)
(* that slots and devices point at each other.  Commands that hold only the *)
(* genl mutex, and RCU callbacks, disturb none of it: they leave the        *)
(* owner of a slot alone, or clear it.                                      *)
EXTENDS UbrBridge, WellFoundedInduction, TLAPS

-----------------------------------------------------------------------------
(* The inductive invariant                                                  *)

AddPcs == {"publish", "link", "promisc", "allmulti", "rx",
           "undo_allmulti", "undo_promisc", "undo_link", "uninit"}
DelPcs == {"rx_off", "sync", "release", "cleanup"}

\* The state s of a device, field by field.
Holds(s, master, promisc, allmulti, rx, flag) ==
    /\ s.master = master /\ s.promisc = promisc /\ s.allmulti = allmulti
    /\ s.rx = rx /\ s.flag = flag

Free(s) == Holds(s, FALSE, 0, 0, Null, FALSE)
Enslaved(s) == s.rx # Null /\ Holds(s, TRUE, 1, 1, s.rx, TRUE)

\* What ubr_port_add has acquired for its device when it is about to run pc.
AddHeld(s, pc) ==
    Holds(s, pc \notin {"publish", "link", "uninit"},
          IF pc \in {"allmulti", "rx", "undo_allmulti", "undo_promisc"} THEN 1 ELSE 0,
          IF pc \in {"rx", "undo_allmulti"} THEN 1 ELSE 0,
          Null, FALSE)

\* What is left of the enslavement in slot p when ubr_port_del is about to run pc.
DelHeld(s, pc, p) ==
    Holds(s, pc # "cleanup",
          IF pc = "cleanup" THEN 0 ELSE 1,
          IF pc = "cleanup" THEN 0 ELSE 1,
          IF pc = "rx_off" THEN p ELSE Null, FALSE)

\* The command in progress, and the state of the device it works on.
AddInv ==
    rtnl.op = "add" =>
        /\ rtnl.pc \in AddPcs
        /\ rtnl.dev \in Devs
        /\ rtnl.pidx # 0
        /\ AddHeld(dev[rtnl.dev], rtnl.pc)
        /\ rtnl.pidx \in busy <=> rtnl.pc # "publish"
        /\ port[rtnl.pidx].dev \in {rtnl.dev, Null}

DelInv ==
    rtnl.op \in {"del", "dellink"} /\ rtnl.pc # "next" =>
        /\ rtnl.pc \in DelPcs
        /\ rtnl.dev \in Devs
        /\ rtnl.pidx # 0
        /\ rtnl.pidx \in busy
        /\ DelHeld(dev[rtnl.dev], rtnl.pc, rtnl.pidx)

RtnlInv ==
    /\ rtnl.op = "idle" => rtnl = RtnlIdle
    /\ rtnl.pc = "next" => rtnl.op = "dellink" /\ rtnl.dev = Null
    /\ rtnl.op # "idle" => link = "up"

\* Everything else: the other devices, and how slots and devices correspond.
OthersInv == \A d \in Devs : d # rtnl.dev => Free(dev[d]) \/ Enslaved(dev[d])

SlotInv ==
    /\ 0 \in busy
    /\ \A d \in Devs : dev[d].rx # Null =>
          /\ dev[d].rx \in busy \ {0}
          /\ port[dev[d].rx].dev \in {d, Null}
          /\ d # rtnl.dev => dev[d].rx # rtnl.pidx
          /\ d # rtnl.dev /\ rtnl.op = "dellink" => dev[d].rx > rtnl.pidx
    /\ \A d, e \in Devs : d # e /\ dev[d].rx # Null => dev[e].rx # dev[d].rx
    /\ \A p \in busy \ {0} :
          \/ port[p].dev = Null
          \/ /\ port[p].dev \in Devs
             /\ \/ dev[port[p].dev].rx = p
                \/ rtnl.dev = port[p].dev /\ rtnl.pidx = p

GoneInv == link = "gone" => \A d \in Devs : Free(dev[d])

Inv == TypeOK /\ RtnlInv /\ AddInv /\ DelInv /\ OthersInv /\ SlotInv /\ GoneInv

-----------------------------------------------------------------------------
(* Lemmas                                                                   *)

\* find_first_zero_bit and the loops over the busy bits: a non-empty set of
\* slots has a least element.
LEMMA LeastIsMinimum ==
    ASSUME NEW S, S \subseteq PIdx, S # {}
    PROVE  Least(S) \in S /\ \A q \in S : Least(S) <= q
<1>. DEFINE R == OpToRel(<, Nat)
<1>1. PIdx \subseteq Nat
  BY ConstantsAssumption DEF PIdx
<1>2. IsWellFoundedOn(R, Nat)
  BY NatLessThanWellFounded
<1>3. ASSUME NEW a \in Nat, NEW b \in Nat, a < b PROVE <<a, b>> \in R
  <2>1. <<a, b>> \in R <=> <<a, b>>[1] < <<a, b>>[2]
    BY Zenon DEF OpToRel
  <2>. HIDE DEF R
  <2>. QED  BY <1>3, <2>1
<1>. HIDE DEF R
<1>4. PICK x \in S : \A y \in S : <<y, x>> \notin R
  BY <1>1, <1>2, WFMin
<1>5. \A q \in S : x <= q
  <2>1. ASSUME NEW q \in S, q < x PROVE FALSE
    <3>1. q \in Nat /\ x \in Nat
      BY <1>1
    <3>2. <<q, x>> \in R
      BY <1>3, <2>1, <3>1
    <3>. QED  BY <1>4, <3>2
  <2>. QED  BY <1>1, <2>1
<1>. QED  BY <1>5 DEF Least

\* The values at rest are well typed.
LEMMA RestTypes ==
    /\ 0 \in PIdx /\ 0 \in AllVids
    /\ PIdx \subseteq Nat /\ Null \notin PIdx /\ Null \notin Devs
    /\ Zeroed \in PortState /\ NoVlan \in VlanState /\ Released \in DevState
    /\ RtnlIdle \in RtnlState /\ GenlIdle \in GenlState
<1>1. /\ 0 \in PIdx /\ 0 \in AllVids
      /\ PIdx \subseteq Nat /\ Null \notin PIdx /\ Null \notin Devs
  BY ConstantsAssumption DEF PIdx, AllVids
<1>2. Zeroed \in PortState /\ NoVlan \in VlanState /\ Released \in DevState
  BY <1>1 DEF Zeroed, PortState, NoVlan, VlanState, Released, DevState
<1>3. RtnlIdle \in RtnlState /\ GenlIdle \in GenlState
  BY <1>1 DEF RtnlIdle, RtnlState, GenlIdle, Command, GenlState
<1>. QED  BY <1>1, <1>2, <1>3

\* What ubr_dev_newlink leaves satisfies the invariant.
LEMMA InitInv == Init => Inv
<1>. SUFFICES ASSUME Init PROVE Inv
  OBVIOUS
<1>1. TypeOK
  <2>1. port \in [PIdx -> PortState]
    <3>1. PIdx \ {0} \in SUBSET PIdx /\ Bridge \in Devs \cup {Bridge, Null}
      OBVIOUS
    <3>2. [Zeroed EXCEPT !.dev = Bridge, !.learning = TRUE, !.vec = PIdx \ {0}, !.vlan = 0]
             \in PortState
      BY <3>1, RestTypes DEF PortState
    <3>. QED  BY <3>2, RestTypes DEF Init
  <2>2. vlan \in [AllVids -> VlanState]
    <3>1. {0} \in SUBSET PIdx
      BY RestTypes
    <3>2. [NoVlan EXCEPT !.mem = "live", !.members = {0}] \in VlanState
      BY <3>1, RestTypes DEF VlanState
    <3>. QED  BY <3>2, RestTypes DEF Init
  <2>. QED  BY RestTypes, <2>1, <2>2 DEF Init, TypeOK
<1>2. RtnlInv /\ AddInv /\ DelInv /\ OthersInv /\ GoneInv
  BY DEF Init, RtnlInv, AddInv, DelInv, OthersInv, GoneInv, RtnlIdle, Free, Holds, Released
<1>3. SlotInv
  BY DEF Init, SlotInv, Released, RtnlIdle
<1>. QED  BY <1>1, <1>2, <1>3 DEF Inv

LEMMA FreeIsReleased ==
    ASSUME NEW s \in DevState, Free(s)
    PROVE  s = Released
BY DEF Free, Holds, DevState, Released

\* A step that only records a fault changes nothing the invariant is about.
LEMMA FaultedInv ==
    ASSUME Inv, NEW kind \in {"null", "uaf", "rcu", "wild", "skb"}, Faulted(kind)
    PROVE  Inv'
<1>1. TypeOK'
  BY DEF Inv, TypeOK, Faulted
<1>. QED
  BY <1>1 DEF Inv, Faulted, RtnlInv, AddInv, DelInv, OthersInv, SlotInv, GoneInv

\* A step that takes no device, slot or command any further, and does not give
\* a slot a new owner, keeps the invariant.
LEMMA QuietInv ==
    ASSUME Inv, TypeOK', UNCHANGED <<link, busy, dev, rtnl>>,
           \A p \in PIdx : port'[p].dev \in {port[p].dev, Null}
    PROVE  Inv'
<1>. USE DEF Inv
<1>1. RtnlInv' /\ DelInv' /\ OthersInv' /\ GoneInv'
  BY DEF RtnlInv, DelInv, OthersInv, GoneInv
<1>2. AddInv'
  BY DEF AddInv, TypeOK, RtnlState
<1>3. SlotInv'
  <2>1. busy \subseteq PIdx
    BY DEF TypeOK
  <2>. QED  BY <2>1 DEF SlotInv
<1>. QED  BY <1>1, <1>2, <1>3

-----------------------------------------------------------------------------
(* Enslaving                                                                *)

\* Any step of ubr_port_add between its publication of the slot and its end:
\* if what it has acquired is what its next step expects, the invariant holds.
LEMMA AddProgress ==
    ASSUME Inv, rtnl.op = "add", rtnl.pc # "publish",
           NEW pc \in AddPcs \ {"publish"},
           RtnlTo(pc),
           dev' \in [Devs -> DevState],
           AddHeld(dev'[rtnl.dev], pc),
           \A d \in Devs \ {rtnl.dev} : dev'[d] = dev[d],
           UNCHANGED <<link, port, busy, vlan, genl, cleanup, tainted, fault>>
    PROVE  Inv'
<1>. USE DEF Inv
<1>1. /\ rtnl.dev \in Devs /\ rtnl.pidx # 0 /\ rtnl.pidx \in busy
      /\ port[rtnl.pidx].dev \in {rtnl.dev, Null}
      /\ dev[rtnl.dev].rx = Null
      /\ link = "up"
  BY DEF AddInv, AddHeld, Holds, RtnlInv
<1>2. /\ rtnl' \in RtnlState
      /\ rtnl'.op = "add" /\ rtnl'.pc = pc
      /\ rtnl'.dev = rtnl.dev /\ rtnl'.pidx = rtnl.pidx
  BY DEF TypeOK, RtnlState, RtnlTo, AddPcs
<1>3. TypeOK'
  BY <1>2 DEF TypeOK
<1>4. RtnlInv' /\ AddInv' /\ DelInv' /\ OthersInv' /\ GoneInv'
  BY <1>1, <1>2 DEF RtnlInv, AddInv, DelInv, OthersInv, GoneInv, AddPcs
<1>5. SlotInv'
  <2>1. \A d \in Devs : dev'[d].rx = dev[d].rx
    BY <1>1 DEF AddHeld, Holds
  <2>. QED  BY <1>2, <2>1 DEF SlotInv
<1>. QED  BY <1>3, <1>4, <1>5

\* The acquisitions of ubr_port_add, each of which may fail, and their undoing.
LEMMA AddStepInv ==
    ASSUME Inv, \/ PortLink \/ PortPromisc \/ PortAllmulti
                \/ UndoAllmulti \/ UndoPromisc \/ UndoLink
    PROVE  Inv'
<1>1. PICK pc \in AddPcs \ {"publish"} :
          /\ RtnlTo(pc)
          /\ dev' \in [Devs -> DevState]
          /\ AddHeld(dev'[rtnl.dev], pc)
          /\ \A d \in Devs \ {rtnl.dev} : dev'[d] = dev[d]
  <2>. USE DEF AddHeld, Holds, AddPcs, RtnlAt
  <2>1. /\ rtnl.op = "add"
        /\ rtnl.dev \in Devs /\ AddHeld(dev[rtnl.dev], rtnl.pc)
        /\ dev \in [Devs -> DevState]
    BY DEF Inv, AddInv, TypeOK, PortLink, PortPromisc, PortAllmulti,
           UndoAllmulti, UndoPromisc, UndoLink
  <2>2. CASE PortLink
    <3>1. CASE RtnlTo("promisc") /\ dev' = [dev EXCEPT ![rtnl.dev].master = TRUE]
      BY <2>1, <2>2, <3>1 DEF PortLink, DevState
    <3>2. CASE RtnlTo("uninit") /\ UNCHANGED dev
      BY <2>1, <2>2, <3>2 DEF PortLink
    <3>. QED  BY <2>2, <3>1, <3>2 DEF PortLink
  <2>3. CASE PortPromisc
    BY <2>1, <2>3 DEF PortPromisc, DevState
  <2>4. CASE PortAllmulti
    BY <2>1, <2>4 DEF PortAllmulti, DevState
  <2>5. CASE UndoAllmulti
    BY <2>1, <2>5 DEF UndoAllmulti, DevState
  <2>6. CASE UndoPromisc
    BY <2>1, <2>6 DEF UndoPromisc, DevState
  <2>7. CASE UndoLink
    BY <2>1, <2>7 DEF UndoLink, DevState
  <2>. QED  BY <2>2, <2>3, <2>4, <2>5, <2>6, <2>7
<1>2. /\ rtnl.op = "add" /\ rtnl.pc # "publish"
      /\ UNCHANGED <<link, port, busy, vlan, genl, cleanup, tainted, fault>>
  BY DEF PortLink, PortPromisc, PortAllmulti, UndoAllmulti, UndoPromisc, UndoLink, RtnlAt
<1>. QED  BY <1>1, <1>2, AddProgress

\* The search for a slot: the slot found is nobody's, so taking it over leaves
\* every registered receive handler its own.
LEMMA PortAddInv ==
    ASSUME Inv, NEW d \in Devs, PortAdd(d)
    PROVE  Inv'
<1>. USE DEF Inv
<1>. DEFINE p == Least(PIdx \ busy)
<1>1. p \in PIdx /\ p \notin busy
  BY LeastIsMinimum DEF PortAdd
<1>. HIDE DEF p
<1>2. /\ link = "up" /\ rtnl = RtnlIdle
      /\ ~dev[d].master
      /\ port' = [port EXCEPT ![p] = PortInit(p, d)]
      /\ vlan' = [vlan EXCEPT ![0].members = @ \cup {p}]
      /\ rtnl' = [op |-> "add", pc |-> "publish", dev |-> d, pidx |-> p]
      /\ tainted' \in {tainted \cup {p}, tainted}
      /\ UNCHANGED <<link, busy, dev, genl, cleanup, fault>>
  BY DEF PortAdd, RtnlAt, RtnlInv, p
<1>3. p # 0 /\ Free(dev[d])
  <2>1. d # Null
    BY RestTypes
  <2>. QED  BY <1>1, <1>2, <2>1 DEF SlotInv, OthersInv, RtnlIdle, Enslaved, Free, Holds
<1>4. TypeOK'
  <2>1. PortInit(p, d) \in PortState /\ PortInit(p, d).dev = d
    <3>1. VlanFind(0) \in AllVids \cup {Null}
      BY RestTypes DEF VlanFind
    <3>2. PIdx \ {p} \in SUBSET PIdx /\ port[p] \in PortState
      BY <1>1 DEF TypeOK
    <3>. QED  BY <1>1, <3>1, <3>2 DEF PortInit, PortState
  <2>2. port' \in [PIdx -> PortState]
    BY <1>1, <1>2, <2>1 DEF TypeOK
  <2>3. vlan' \in [AllVids -> VlanState]
    <3>1. vlan[0] \in VlanState
      BY RestTypes DEF TypeOK
    <3>2. [vlan[0] EXCEPT !.members = @ \cup {p}] \in VlanState
      BY <1>1, <3>1 DEF VlanState
    <3>. QED  BY <1>2, <3>2, RestTypes DEF TypeOK
  <2>4. rtnl' \in RtnlState
    BY <1>1, <1>2 DEF RtnlState
  <2>5. tainted' \subseteq PIdx
    BY <1>1, <1>2 DEF TypeOK
  <2>. QED  BY <1>2, <2>2, <2>3, <2>4, <2>5 DEF TypeOK
<1>5. /\ port'[p].dev = d
      /\ \A q \in PIdx \ {p} : port'[q] = port[q]
  BY <1>1, <1>2 DEF PortInit, TypeOK, PortState
<1>6. RtnlInv' /\ DelInv' /\ OthersInv' /\ GoneInv'
  BY <1>2, <1>3, RestTypes DEF RtnlInv, DelInv, OthersInv, GoneInv, RtnlIdle
<1>7. AddInv'
  BY <1>1, <1>2, <1>3, <1>5 DEF AddInv, AddPcs, AddHeld, Free, Holds
<1>8. SlotInv'
  <2>1. busy \subseteq PIdx
    BY DEF TypeOK
  <2>2. \A e \in Devs : dev[e].rx # p
    BY <1>1, RestTypes DEF SlotInv
  <2>3. \A e \in Devs : e # Null
    BY RestTypes
  <2>. QED  BY <1>1, <1>2, <1>5, <2>1, <2>2, <2>3 DEF SlotInv, RtnlIdle
<1>. QED  BY <1>4, <1>6, <1>7, <1>8

LEMMA PortPublishInv ==
    ASSUME Inv, PortPublish
    PROVE  Inv'
<1>. DEFINE held == busy \cup {rtnl.pidx}
<1>1. CASE /\ busy' = held
           /\ RtnlTo("link")
           /\ UNCHANGED <<link, port, vlan, dev, genl, cleanup, tainted, fault>>
  <2>. USE DEF Inv
  <2>1. /\ rtnl.op = "add" /\ rtnl.pc = "publish"
        /\ rtnl.dev \in Devs /\ rtnl.pidx # 0 /\ rtnl.pidx \in PIdx
        /\ AddHeld(dev[rtnl.dev], "publish") /\ port[rtnl.pidx].dev \in {rtnl.dev, Null}
        /\ link = "up"
    BY DEF PortPublish, RtnlAt, AddInv, RtnlInv, TypeOK, RtnlState
  <2>2. /\ rtnl' \in RtnlState
        /\ rtnl'.op = "add" /\ rtnl'.pc = "link"
        /\ rtnl'.dev = rtnl.dev /\ rtnl'.pidx = rtnl.pidx
    BY <1>1, <2>1 DEF TypeOK, RtnlState, RtnlTo
  <2>3. TypeOK'
    BY <1>1, <2>1, <2>2 DEF TypeOK
  <2>4. AddInv'
    BY <1>1, <2>1, <2>2 DEF AddInv, AddPcs, AddHeld, Holds
  <2>5. RtnlInv' /\ DelInv' /\ OthersInv' /\ GoneInv'
    BY <1>1, <2>1, <2>2 DEF RtnlInv, DelInv, OthersInv, GoneInv
  <2>6. SlotInv'
    BY <1>1, <2>1, <2>2 DEF SlotInv
  <2>. QED  BY <2>3, <2>4, <2>5, <2>6
<1>2. CASE Faulted("null")
  BY <1>2, FaultedInv
<1>. QED  BY <1>1, <1>2 DEF PortPublish

\* The last acquisition: either the device is completely enslaved, or the
\* undoing begins.
LEMMA PortRxRegisterInv ==
    ASSUME Inv, PortRxRegister
    PROVE  Inv'
<1>1. /\ rtnl.op = "add" /\ rtnl.pc = "rx"
      /\ rtnl.dev \in Devs /\ rtnl.pidx # 0 /\ rtnl.pidx \in busy /\ rtnl.pidx \in PIdx
      /\ AddHeld(dev[rtnl.dev], "rx")
      /\ port[rtnl.pidx].dev \in {rtnl.dev, Null}
      /\ dev \in [Devs -> DevState]
      /\ link = "up"
  BY DEF Inv, PortRxRegister, RtnlAt, AddInv, RtnlInv, TypeOK, RtnlState
<1>2. CASE /\ dev' = [dev EXCEPT ![rtnl.dev].rx = rtnl.pidx, ![rtnl.dev].flag = TRUE]
           /\ rtnl' = RtnlIdle
  <2>. USE DEF Inv
  <2>1. UNCHANGED <<link, port, busy, vlan, genl, cleanup, tainted, fault>>
    BY DEF PortRxRegister
  <2>2. /\ dev' \in [Devs -> DevState]
        /\ Enslaved(dev'[rtnl.dev]) /\ dev'[rtnl.dev].rx = rtnl.pidx
        /\ \A d \in Devs \ {rtnl.dev} : dev'[d] = dev[d]
    BY <1>1, <1>2, RestTypes DEF DevState, AddHeld, Enslaved, Holds
  <2>3. TypeOK'
    BY <1>2, <2>1, <2>2, RestTypes DEF TypeOK
  <2>4. /\ rtnl'.op = "idle" /\ rtnl'.pc = "idle"
        /\ rtnl'.dev = Null /\ rtnl'.pidx = 0
    BY <1>2 DEF RtnlIdle
  <2>5. RtnlInv' /\ AddInv' /\ DelInv' /\ GoneInv'
    BY <1>1, <1>2, <2>1, <2>4 DEF RtnlInv, AddInv, DelInv, GoneInv
  <2>6. OthersInv'
    BY <2>2 DEF OthersInv
  <2>7. SlotInv'
    <3>1. \A d \in Devs \ {rtnl.dev} : dev[d].rx # Null => dev[d].rx # rtnl.pidx
      BY DEF SlotInv
    <3>2. dev[rtnl.dev].rx = Null /\ busy \subseteq PIdx /\ rtnl.pidx # Null
      BY <1>1, RestTypes DEF AddHeld, Holds, TypeOK
    <3>3. \A d \in Devs : dev'[d].rx # Null =>
             /\ dev'[d].rx \in busy \ {0}
             /\ port[dev'[d].rx].dev \in {d, Null}
      BY <1>1, <2>2 DEF SlotInv
    <3>4. \A d, e \in Devs : d # e /\ dev'[d].rx # Null => dev'[e].rx # dev'[d].rx
      BY <2>2, <3>1, <3>2 DEF SlotInv
    <3>5. \A p \in busy \ {0} :
             \/ port[p].dev = Null
             \/ port[p].dev \in Devs /\ dev'[port[p].dev].rx = p
      <4>1. TAKE p \in busy \ {0}
      <4>2. p \in PIdx /\ p # Null
        BY <3>2, RestTypes
      <4>3. CASE port[p].dev = rtnl.dev
        BY <1>1, <2>2, <3>2, <4>2, <4>3 DEF SlotInv
      <4>4. CASE port[p].dev # rtnl.dev
        BY <2>2, <4>4 DEF SlotInv
      <4>. QED  BY <4>3, <4>4
    <3>. QED  BY <2>1, <2>4, <3>3, <3>4, <3>5 DEF SlotInv
  <2>. QED  BY <2>3, <2>5, <2>6, <2>7
<1>3. CASE RtnlTo("undo_allmulti") /\ UNCHANGED dev
  <2>1. AddHeld(dev'[rtnl.dev], "undo_allmulti")
    BY <1>1, <1>3 DEF AddHeld, Holds
  <2>. QED  BY <1>1, <1>3, <2>1, AddProgress DEF PortRxRegister, AddPcs
<1>. QED  BY <1>2, <1>3 DEF PortRxRegister

\* The end of an unwound ubr_port_add: the device has been given back.
LEMMA PortUninitInv ==
    ASSUME Inv, PortUninit
    PROVE  Inv'
<1>1. CASE /\ busy' = busy \ {rtnl.pidx}
           /\ port' = [port EXCEPT ![rtnl.pidx] = Zeroed]
           /\ tainted' \in {tainted \cup {rtnl.pidx}, tainted \ {rtnl.pidx}}
           /\ rtnl' = RtnlIdle
           /\ UNCHANGED <<link, vlan, dev, genl, cleanup, fault>>
  <2>. USE DEF Inv
  <2>1. /\ rtnl.op = "add" /\ rtnl.pc = "uninit"
        /\ rtnl.dev \in Devs /\ rtnl.pidx # 0 /\ rtnl.pidx \in PIdx
        /\ Free(dev[rtnl.dev])
        /\ link = "up"
    BY DEF PortUninit, RtnlAt, AddInv, RtnlInv, TypeOK, RtnlState, AddHeld, Free, Holds
  <2>2. TypeOK'
    BY <1>1, <2>1, RestTypes DEF TypeOK
  <2>3. /\ rtnl'.op = "idle" /\ rtnl'.pc = "idle"
        /\ rtnl'.dev = Null /\ rtnl'.pidx = 0
    BY <1>1 DEF RtnlIdle
  <2>4. RtnlInv' /\ AddInv' /\ DelInv' /\ OthersInv' /\ GoneInv'
    BY <1>1, <2>1, <2>3 DEF RtnlInv, AddInv, DelInv, OthersInv, GoneInv
  <2>5. SlotInv'
    <3>1. /\ port'[rtnl.pidx].dev = Null
          /\ \A q \in PIdx \ {rtnl.pidx} : port'[q] = port[q]
      BY <1>1, <2>1 DEF TypeOK, Zeroed
    <3>2. busy \subseteq PIdx /\ dev[rtnl.dev].rx = Null
      BY <2>1 DEF TypeOK, Free, Holds
    <3>3. \A e \in Devs : dev[e].rx # Null => dev[e].rx # rtnl.pidx
      BY <2>1, <3>2 DEF SlotInv
    <3>. QED  BY <1>1, <2>1, <2>3, <3>1, <3>2, <3>3, RestTypes DEF SlotInv
  <2>. QED  BY <2>2, <2>4, <2>5
<1>2. CASE Faulted("rcu")
  BY <1>2, FaultedInv
<1>. QED  BY <1>1, <1>2 DEF PortUninit

-----------------------------------------------------------------------------
(* Releasing                                                                *)

\* The start of ubr_port_del, when no other command works on a device.
LEMMA StartPortDelInv ==
    ASSUME Inv, rtnl.dev = Null, link = "up",
           NEW op \in {"del", "dellink"}, NEW d \in Devs,
           op = "dellink" => \A e \in Devs \ {d} : dev[e].rx # Null => dev[e].rx > dev[d].rx,
           StartPortDel(op, d)
    PROVE  Inv'
<1>. USE DEF Inv
<1>1. /\ dev[d].rx # Null /\ Enslaved(dev[d])
      /\ dev[d].rx \in busy \ {0} /\ dev[d].rx \in PIdx
      /\ dev \in [Devs -> DevState]
  BY RestTypes DEF StartPortDel, OthersInv, SlotInv, TypeOK, Free, Holds
<1>2. /\ rtnl' = [op |-> op, pc |-> "rx_off", dev |-> d, pidx |-> dev[d].rx]
      /\ dev' = [dev EXCEPT ![d].flag = FALSE]
      /\ UNCHANGED <<link, port, busy, vlan, genl, cleanup, tainted, fault>>
  BY DEF StartPortDel
<1>3. /\ dev' \in [Devs -> DevState]
      /\ DelHeld(dev'[d], "rx_off", dev[d].rx)
      /\ \A e \in Devs : dev'[e].rx = dev[e].rx
      /\ \A e \in Devs \ {d} : dev'[e] = dev[e]
  BY <1>1, <1>2 DEF DevState, Enslaved, DelHeld, Holds
<1>4. rtnl' \in RtnlState
  BY <1>1, <1>2 DEF RtnlState
<1>5. TypeOK'
  BY <1>2, <1>3, <1>4 DEF TypeOK
<1>6. RtnlInv' /\ AddInv' /\ GoneInv'
  BY <1>2 DEF RtnlInv, AddInv, GoneInv
<1>7. DelInv'
  BY <1>1, <1>2, <1>3 DEF DelInv, DelPcs
<1>8. OthersInv'
  BY <1>2, <1>3, RestTypes DEF OthersInv
<1>9. SlotInv'
  <2>1. \A e \in Devs \ {d} : dev[e].rx # Null => dev[e].rx # dev[d].rx
    BY <1>1 DEF SlotInv
  <2>2. \A p \in busy \ {0} :
           \/ port[p].dev = Null
           \/ port[p].dev \in Devs /\ dev[port[p].dev].rx = p
    BY RestTypes DEF SlotInv
  <2>. QED  BY <1>2, <1>3, <2>1, <2>2 DEF SlotInv
<1>. QED  BY <1>5, <1>6, <1>7, <1>8, <1>9

\* A device is released on request, or because it is unregistered.
LEMMA DelStartInv ==
    ASSUME Inv, NEW d \in Devs, DelSlave(d) \/ DeviceEvent(d)
    PROVE  Inv'
<1>1. rtnl.dev = Null /\ ~Free(dev[d])
  BY DEF Inv, RtnlInv, DelSlave, DeviceEvent, RtnlAt, RtnlIdle, Free, Holds
<1>2. link = "up"
  BY <1>1 DEF Inv, TypeOK, GoneInv
<1>3. CASE StartPortDel("del", d)
  BY <1>1, <1>2, <1>3, StartPortDelInv
<1>4. CASE Faulted("wild")
  BY <1>4, FaultedInv
<1>. QED  BY <1>3, <1>4 DEF DelSlave, DeviceEvent

LEMMA DellinkInv ==
    ASSUME Inv, Dellink
    PROVE  Inv'
<1>. USE DEF Inv
<1>1. /\ rtnl = RtnlIdle /\ link = "up"
      /\ rtnl' = [RtnlIdle EXCEPT !.op = "dellink", !.pc = "next"]
      /\ UNCHANGED <<link, port, busy, vlan, dev, genl, cleanup, tainted, fault>>
  BY DEF Dellink, RtnlAt, RtnlInv
<1>2. /\ rtnl' \in RtnlState
      /\ rtnl'.op = "dellink" /\ rtnl'.pc = "next" /\ rtnl'.dev = Null /\ rtnl'.pidx = 0
  BY <1>1, RestTypes DEF RtnlIdle, RtnlState
<1>3. TypeOK' /\ RtnlInv' /\ AddInv' /\ DelInv' /\ OthersInv' /\ GoneInv'
  BY <1>1, <1>2 DEF TypeOK, RtnlInv, AddInv, DelInv, OthersInv, GoneInv, RtnlIdle
<1>4. SlotInv'
  <2>1. busy \subseteq Nat
    BY RestTypes DEF TypeOK
  <2>. QED  BY <1>1, <1>2, <2>1, RestTypes DEF SlotInv, RtnlIdle
<1>. QED  BY <1>3, <1>4

\* The loop of ubr_dev_dellink visits the busy slots in ascending order, so
\* that when none is left above the last one, no device is left enslaved.
LEMMA DellinkNextInv ==
    ASSUME Inv, DellinkNext
    PROVE  Inv'
<1>. DEFINE todo == {p \in busy : p > rtnl.pidx}
<1>1. /\ rtnl.op = "dellink" /\ rtnl.pc = "next" /\ rtnl.dev = Null /\ link = "up"
      /\ rtnl.pidx \in Nat /\ busy \subseteq PIdx /\ busy \subseteq Nat
  BY RestTypes DEF Inv, DellinkNext, RtnlAt, RtnlInv, TypeOK, RtnlState
<1>2. \A e \in Devs : dev[e].rx # Null => dev[e].rx \in todo
  BY <1>1, RestTypes DEF Inv, SlotInv
<1>3. CASE /\ todo # {}
           /\ port[Least(todo)].dev # Null
           /\ StartPortDel("dellink", port[Least(todo)].dev)
  <2>. DEFINE q == Least(todo)
             d == port[q].dev
  <2>1. q \in todo /\ \A p \in todo : q <= p
    BY <1>1, <1>3, LeastIsMinimum
  <2>. HIDE DEF q
  <2>2. q \in busy \ {0} /\ q \in Nat
    BY <1>1, <2>1
  <2>. HIDE DEF todo
  <2>3. d \in Devs /\ dev[d].rx = q
    BY <1>1, <1>3, <2>2, RestTypes DEF Inv, SlotInv, q
  <2>4. \A e \in Devs \ {d} : dev[e].rx # Null => dev[e].rx # q
    BY <2>2, <2>3, <1>1, RestTypes DEF Inv, SlotInv
  <2>. HIDE DEF d
  <2>5. todo \subseteq Nat
    BY <1>1 DEF todo
  <2>6. \A e \in Devs \ {d} : dev[e].rx # Null => dev[e].rx > dev[d].rx
    <3>1. TAKE e \in Devs \ {d}
    <3>2. HAVE dev[e].rx # Null
    <3>3. dev[e].rx \in Nat /\ q <= dev[e].rx /\ dev[e].rx # q
      BY <1>2, <2>1, <2>4, <2>5, <3>2
    <3>. QED  BY <2>2, <2>3, <3>3
  <2>. QED  BY <1>1, <1>3, <2>3, <2>6, StartPortDelInv DEF q, d
<1>4. CASE Faulted("null")
  BY <1>4, FaultedInv
<1>5. CASE /\ todo = {}
           /\ link' = "gone"
           /\ rtnl' = RtnlIdle
           /\ UNCHANGED <<port, busy, vlan, dev, genl, cleanup, tainted, fault>>
  <2>1. \A e \in Devs : Free(dev[e])
    BY <1>1, <1>2, <1>5, RestTypes DEF Inv, OthersInv, Enslaved
  <2>2. /\ rtnl' \in RtnlState
        /\ rtnl'.op = "idle" /\ rtnl'.pc = "idle" /\ rtnl'.dev = Null /\ rtnl'.pidx = 0
    BY <1>5, RestTypes DEF RtnlIdle
  <2>3. TypeOK' /\ RtnlInv' /\ AddInv' /\ DelInv' /\ OthersInv' /\ GoneInv'
    BY <1>5, <2>1, <2>2 DEF Inv, TypeOK, RtnlInv, AddInv, DelInv, OthersInv, GoneInv
  <2>4. SlotInv'
    BY <1>1, <1>5, <2>1, <2>2, RestTypes DEF Inv, SlotInv, Free, Holds
  <2>. QED  BY <2>3, <2>4 DEF Inv
<1>. QED  BY <1>3, <1>4, <1>5 DEF DellinkNext

\* The steps of ubr_port_del between its start and ubr_port_cleanup.
LEMMA DelStepInv ==
    ASSUME Inv, RxUnregister \/ RxSynchronized \/ PortRelease
    PROVE  Inv'
<1>. USE DEF Inv
<1>1. /\ rtnl.op \in {"del", "dellink"} /\ rtnl.pc \in DelPcs
      /\ rtnl.dev \in Devs /\ rtnl.pidx # 0 /\ rtnl.pidx \in busy
      /\ DelHeld(dev[rtnl.dev], rtnl.pc, rtnl.pidx)
      /\ link = "up"
      /\ dev \in [Devs -> DevState]
      /\ UNCHANGED <<link, port, busy, vlan, genl, cleanup, tainted, fault>>
  BY DEF RxUnregister, RxSynchronized, PortRelease, Deleting, RtnlAt, DelInv, DelPcs,
         RtnlInv, TypeOK
<1>2. PICK pc \in DelPcs :
          /\ RtnlTo(pc)
          /\ dev' \in [Devs -> DevState]
          /\ DelHeld(dev'[rtnl.dev], pc, rtnl.pidx)
          /\ dev'[rtnl.dev].rx = Null
          /\ \A d \in Devs \ {rtnl.dev} : dev'[d] = dev[d]
  <2>. USE DEF DelHeld, Holds, DelPcs, Deleting, RtnlAt
  <2>1. CASE RxUnregister
    BY <1>1, <2>1 DEF RxUnregister, DevState
  <2>2. CASE RxSynchronized
    BY <1>1, <2>2 DEF RxSynchronized
  <2>3. CASE PortRelease
    <3>1. /\ RtnlTo("cleanup") /\ rtnl.pc = "release"
          /\ dev' = [dev EXCEPT ![rtnl.dev].allmulti = @ - 1, ![rtnl.dev].promisc = @ - 1,
                                ![rtnl.dev].master = FALSE]
      BY <2>3 DEF PortRelease
    <3>2. DelHeld(dev[rtnl.dev], "release", rtnl.pidx)
      BY <1>1, <3>1
    <3>3. [dev[rtnl.dev] EXCEPT !.allmulti = 0, !.promisc = 0, !.master = FALSE] \in DevState
      BY <1>1 DEF DevState
    <3>4. dev' = [dev EXCEPT ![rtnl.dev] =
                     [dev[rtnl.dev] EXCEPT !.allmulti = 0, !.promisc = 0, !.master = FALSE]]
      BY <1>1, <3>1, <3>2 DEF DevState
    <3>5. /\ dev' \in [Devs -> DevState]
          /\ dev'[rtnl.dev] = [dev[rtnl.dev] EXCEPT !.allmulti = 0, !.promisc = 0, !.master = FALSE]
          /\ \A d \in Devs \ {rtnl.dev} : dev'[d] = dev[d]
      BY <1>1, <3>3, <3>4
    <3>6. DelHeld(dev'[rtnl.dev], "cleanup", rtnl.pidx) /\ dev'[rtnl.dev].rx = Null
      BY <1>1, <3>2, <3>5 DEF DevState
    <3>. QED  BY <3>1, <3>5, <3>6
  <2>. QED  BY <2>1, <2>2, <2>3
<1>3. /\ rtnl' \in RtnlState
      /\ rtnl'.op = rtnl.op /\ rtnl'.pc = pc
      /\ rtnl'.dev = rtnl.dev /\ rtnl'.pidx = rtnl.pidx
  BY <1>2 DEF TypeOK, RtnlState, RtnlTo, DelPcs
<1>4. TypeOK'
  BY <1>1, <1>2, <1>3 DEF TypeOK
<1>5. RtnlInv' /\ AddInv' /\ OthersInv' /\ GoneInv'
  BY <1>1, <1>2, <1>3 DEF RtnlInv, AddInv, OthersInv, GoneInv, DelPcs
<1>6. DelInv'
  BY <1>1, <1>2, <1>3 DEF DelInv
<1>7. SlotInv'
  <2>1. /\ busy \subseteq PIdx /\ rtnl.pidx # Null
        /\ dev[rtnl.dev].rx \in {Null, rtnl.pidx}
    BY <1>1, RestTypes DEF TypeOK, DelHeld, Holds
  <2>2. \A p \in busy \ {0} :
           \/ port[p].dev = Null
           \/ /\ port[p].dev \in Devs
              /\ \/ dev'[port[p].dev].rx = p
                 \/ rtnl.dev = port[p].dev /\ rtnl.pidx = p
    BY <1>1, <1>2, <2>1, RestTypes DEF SlotInv
  <2>. QED  BY <1>1, <1>2, <1>3, <2>1, <2>2 DEF SlotInv
<1>. QED  BY <1>4, <1>5, <1>6, <1>7

\* The end of ubr_port_del: its device has been given back, so the slot may be.
LEMMA PortCleanupInv ==
    ASSUME Inv, PortCleanup
    PROVE  Inv'
<1>1. CASE /\ busy' = busy \ {rtnl.pidx}
           /\ cleanup' = cleanup \cup {rtnl.pidx}
           /\ tainted' \in {tainted \cup {rtnl.pidx}, tainted}
           /\ rtnl' = IF rtnl.op = "dellink"
                        THEN [rtnl EXCEPT !.pc = "next", !.dev = Null]
                        ELSE RtnlIdle
           /\ UNCHANGED <<link, port, vlan, dev, genl, fault>>
  <2>. USE DEF Inv
  <2>1. /\ rtnl.op \in {"del", "dellink"} /\ rtnl.pc = "cleanup"
        /\ rtnl.dev \in Devs /\ rtnl.pidx # 0 /\ rtnl.pidx \in busy /\ rtnl.pidx \in PIdx
        /\ Free(dev[rtnl.dev])
        /\ link = "up"
    BY DEF PortCleanup, Deleting, RtnlAt, DelInv, RtnlInv, TypeOK, DelHeld, Free, Holds
  <2>2. /\ rtnl' \in RtnlState
        /\ rtnl'.dev = Null
        /\ \/ rtnl' = RtnlIdle
           \/ /\ rtnl.op = "dellink"
              /\ rtnl'.op = "dellink" /\ rtnl'.pc = "next" /\ rtnl'.pidx = rtnl.pidx
    <3>1. CASE rtnl.op = "dellink"
      BY <1>1, <3>1 DEF TypeOK, RtnlState
    <3>2. CASE rtnl.op # "dellink"
      BY <1>1, <3>2, RestTypes DEF RtnlIdle
    <3>. QED  BY <3>1, <3>2
  <2>3. TypeOK'
    BY <1>1, <2>1, <2>2 DEF TypeOK
  <2>4. RtnlInv' /\ AddInv' /\ DelInv' /\ OthersInv' /\ GoneInv'
    BY <1>1, <2>1, <2>2 DEF RtnlInv, AddInv, DelInv, OthersInv, GoneInv, RtnlIdle
  <2>5. SlotInv'
    <3>1. dev[rtnl.dev].rx = Null /\ busy \subseteq PIdx
      BY <2>1 DEF Free, Holds, TypeOK
    <3>2. \A e \in Devs : dev[e].rx # Null => dev[e].rx # rtnl.pidx
      BY <3>1 DEF SlotInv
    <3>3. \A p \in busy' \ {0} :
             \/ port[p].dev = Null
             \/ port[p].dev \in Devs /\ dev[port[p].dev].rx = p
      BY <1>1 DEF SlotInv
    <3>4. CASE rtnl' = RtnlIdle
      <4>1. rtnl'.op = "idle" /\ rtnl'.dev = Null /\ rtnl'.pidx = 0
        BY <3>4 DEF RtnlIdle
      <4>. QED  BY <1>1, <2>1, <3>1, <3>2, <3>3, <4>1 DEF SlotInv
    <3>5. CASE /\ rtnl.op = "dellink"
               /\ rtnl'.op = "dellink" /\ rtnl'.pc = "next" /\ rtnl'.pidx = rtnl.pidx
      BY <1>1, <2>1, <3>1, <3>2, <3>3, <3>5 DEF SlotInv
    <3>. QED  BY <2>2, <3>4, <3>5
  <2>. QED  BY <2>3, <2>4, <2>5
<1>2. CASE \E kind \in {"rcu", "wild"} : Faulted(kind)
  BY <1>2, FaultedInv
<1>. QED  BY <1>1, <1>2 DEF PortCleanup

\* Every step of the command that holds the RTNL.
LEMMA RtnlStepInv ==
    ASSUME Inv, RtnlStep
    PROVE  Inv'
BY PortAddInv, DelStartInv, PortPublishInv, AddStepInv, PortRxRegisterInv, PortUninitInv,
   DellinkInv, DellinkNextInv, DelStepInv, PortCleanupInv DEF RtnlStep

-----------------------------------------------------------------------------
(* Generic netlink commands and RCU callbacks                               *)

LEMMA CommandType ==
    ASSUME NEW op \in {"vlan_add", "vlan_del", "attach", "detach", "port_set"},
           NEW pc \in {"new", "find", "tag", "member", "unmember", "pvid"},
           NEW v \in AllVids, NEW p \in PIdx, NEW tagged \in BOOLEAN
    PROVE  Command(op, pc, v, p, tagged) \in GenlState
<1>. DEFINE w == [pidx |-> 0, learning |-> FALSE]
<1>1. w \in [pidx : PIdx, learning : BOOLEAN]
  BY RestTypes
<1>2. Command(op, pc, v, p, tagged) = [op |-> op, pc |-> pc, vid |-> v, pidx |-> p,
                                       tagged |-> tagged, word |-> w]
  BY DEF Command
<1>. HIDE DEF w
<1>. QED  BY <1>1, <1>2 DEF GenlState

\* The start of a command: only the command itself changes.
LEMMA GenlStartInv ==
    ASSUME Inv, \/ \E v \in Vids : VlanAdd(v) \/ VlanDel(v)
                \/ \E v \in AllVids, d \in Managed :
                      \/ PortSet(d, v) \/ Detach(v, d)
                      \/ \E tagged \in BOOLEAN : Attach(v, d, tagged)
    PROVE  Inv'
<1>1. ASSUME NEW d, PortFind(d) # {} PROVE Least(PortFind(d)) \in PIdx
  BY <1>1, LeastIsMinimum DEF PortFind, Inv, TypeOK
<1>. HIDE DEF Least
<1>2. genl' \in GenlState
  <2>1. ASSUME NEW v \in Vids, VlanAdd(v) \/ VlanDel(v) PROVE genl' \in GenlState
    <3>1. \/ genl' = Command("vlan_add", "new", v, 0, FALSE)
          \/ genl' = Command("vlan_del", "find", v, 0, FALSE)
      BY <2>1 DEF VlanAdd, VlanDel
    <3>. QED  BY <3>1, RestTypes, CommandType DEF AllVids
  <2>2. ASSUME NEW v \in AllVids, NEW d \in Managed, PortSet(d, v)
        PROVE  genl' \in GenlState
    BY <1>1, <2>2, CommandType DEF PortSet
  <2>3. ASSUME NEW v \in AllVids, NEW d \in Managed, Detach(v, d)
        PROVE  genl' \in GenlState
    BY <1>1, <2>3, CommandType DEF Detach, FindVlanPort
  <2>4. ASSUME NEW v \in AllVids, NEW d \in Managed, NEW tagged \in BOOLEAN,
               Attach(v, d, tagged)
        PROVE  genl' \in GenlState
    BY <1>1, <2>4, CommandType DEF Attach, FindVlanPort
  <2>. QED  BY <2>1, <2>2, <2>3, <2>4
<1>3. UNCHANGED <<link, port, busy, vlan, dev, rtnl, cleanup, tainted, fault>>
  BY DEF VlanAdd, VlanDel, PortSet, Detach, Attach, FindVlanPort
<1>4. TypeOK'
  BY <1>2, <1>3 DEF Inv, TypeOK
<1>. QED  BY <1>3, <1>4, QuietInv

\* The creation of a VLAN, and its deletion.
LEMMA VlanStepInv ==
    ASSUME Inv, VlanNew \/ VlanDelFind \/ VlanDelFree
    PROVE  Inv'
<1>1. /\ genl.vid \in AllVids
      /\ vlan[genl.vid] \in VlanState
      /\ GenlIdle \in GenlState
      /\ \A pc \in {"update", "unlink"} : [genl EXCEPT !.pc = pc] \in GenlState
  BY RestTypes DEF Inv, TypeOK, GenlState
<1>2. CASE \E kind \in {"uaf", "rcu"} : Faulted(kind)
  BY <1>2, FaultedInv
<1>3. CASE /\ VlanNew \/ VlanDelFind \/ VlanDelFree
           /\ UNCHANGED <<link, port, busy, dev, rtnl, cleanup, tainted, fault>>
  <2>1. genl' \in GenlState
    BY <1>1, <1>3 DEF VlanNew, VlanDelFind, VlanDelFree, GenlTo, Inv, TypeOK, Faulted
  <2>2. vlan' \in [AllVids -> VlanState]
    <3>1. [NoVlan EXCEPT !.mem = "live"] \in VlanState
      BY RestTypes DEF VlanState
    <3>2. [vlan[genl.vid] EXCEPT !.members = {}, !.mem = "dying"] \in VlanState
      BY <1>1 DEF VlanState
    <3>3. \/ vlan' = [vlan EXCEPT ![genl.vid] = [NoVlan EXCEPT !.mem = "live"]]
          \/ vlan' = [vlan EXCEPT ![genl.vid].members = {}, ![genl.vid].mem = "dying"]
          \/ vlan' = vlan
      BY <1>3 DEF VlanNew, VlanDelFind, VlanDelFree, Faulted
    <3>4. vlan \in [AllVids -> VlanState]
      BY DEF Inv, TypeOK
    <3>5. CASE vlan' = [vlan EXCEPT ![genl.vid].members = {}, ![genl.vid].mem = "dying"]
      BY <1>1, <3>2, <3>4, <3>5 DEF VlanState
    <3>. QED  BY <1>1, <3>1, <3>3, <3>4, <3>5
  <2>3. TypeOK'
    BY <1>3, <2>1, <2>2 DEF Inv, TypeOK
  <2>. QED  BY <1>3, <2>3, QuietInv
<1>4. CASE VlanNew
  BY <1>2, <1>3, <1>4 DEF VlanNew
<1>5. CASE VlanDelFind
  BY <1>2, <1>3, <1>5 DEF VlanDelFind
<1>6. CASE VlanDelFree
  BY <1>2, <1>3, <1>6 DEF VlanDelFree
<1>. QED  BY <1>4, <1>5, <1>6

\* The walks over the slots go on to the next slot, or end.
LEMMA NextSlotType ==
    ASSUME genl \in GenlState, NEW pc \in {"update", "unlink"}, NEW done \in GenlState,
           NextSlot(pc, done)
    PROVE  genl' \in GenlState
<1>. DEFINE n == genl.pidx + 1
<1>1. genl' = IF n \in PIdx THEN [genl EXCEPT !.pc = pc, !.pidx = n] ELSE done
  BY DEF NextSlot
<1>. HIDE DEF n
<1>. QED  BY <1>1 DEF GenlState

Walks == VlanAddTest \/ VlanAddStore \/ VlanDelTest \/ VlanDelStore

\* What one step of a walk does: the command goes on, and at most one pointer is
\* stored, to the slot it is at.
LEMMA WalkEffect ==
    ASSUME Inv, Walks
    PROVE  \/ Faulted("uaf")
           \/ /\ UNCHANGED <<link, busy, vlan, dev, rtnl, cleanup, tainted, fault>>
              /\ genl' \in GenlState /\ genl.pidx \in PIdx
              /\ \/ port' = port
                 \/ \E w \in AllVids \cup {Null} : port' = [port EXCEPT ![genl.pidx].vlan = w]
<1>1. /\ genl \in GenlState /\ GenlIdle \in GenlState /\ genl.vid \in AllVids
      /\ genl.pidx \in PIdx
  BY RestTypes DEF Inv, TypeOK, GenlState
<1>2. Unlinked \in GenlState
  BY <1>1, RestTypes DEF Unlinked, GenlState
<1>3. ASSUME NEW done \in GenlState, NEW pc \in {"update", "unlink"},
             NEW store \in {"set", "clear"}, UpdateTest(pc, store, done)
      PROVE  \/ Faulted("uaf")
             \/ /\ UNCHANGED <<link, port, busy, vlan, dev, rtnl, cleanup, tainted, fault>>
                /\ genl' \in GenlState
  <2>1. CASE GenlTo(store)
    <3>1. genl' \in GenlState
      BY <1>1, <1>3, <2>1 DEF GenlTo, GenlState
    <3>. QED  BY <1>3, <3>1 DEF UpdateTest
  <2>2. CASE NextSlot(pc, done)
    <3>1. genl' \in GenlState
      BY <1>1, <1>3, <2>2, NextSlotType
    <3>. QED  BY <1>3, <3>1 DEF UpdateTest
  <2>. QED  BY <1>3, <2>1, <2>2 DEF UpdateTest
<1>4. ASSUME NEW done \in GenlState, NEW pc \in {"set", "clear"},
             NEW test \in {"update", "unlink"}, NEW w \in AllVids \cup {Null},
             UpdateStore(pc, test, done, w)
      PROVE  \/ Faulted("uaf")
             \/ /\ UNCHANGED <<link, busy, vlan, dev, rtnl, cleanup, tainted, fault>>
                /\ genl' \in GenlState
                /\ port' = [port EXCEPT ![genl.pidx].vlan = w]
  BY <1>1, <1>4, NextSlotType DEF UpdateStore
<1>5. CASE VlanAddTest
  BY <1>1, <1>3, <1>5 DEF VlanAddTest
<1>6. CASE VlanDelTest
  BY <1>1, <1>2, <1>3, <1>6 DEF VlanDelTest
<1>7. CASE VlanAddStore
  BY <1>1, <1>4, <1>7 DEF VlanAddStore
<1>8. CASE VlanDelStore
  BY <1>1, <1>2, <1>4, <1>8 DEF VlanDelStore
<1>. QED  BY <1>5, <1>6, <1>7, <1>8 DEF Walks

LEMMA WalkInv ==
    ASSUME Inv, Walks
    PROVE  Inv'
<1>1. CASE Faulted("uaf")
  BY <1>1, FaultedInv
<1>2. CASE /\ UNCHANGED <<link, busy, vlan, dev, rtnl, cleanup, tainted, fault>>
           /\ genl' \in GenlState /\ genl.pidx \in PIdx
           /\ \/ port' = port
              \/ \E w \in AllVids \cup {Null} : port' = [port EXCEPT ![genl.pidx].vlan = w]
  <2>1. /\ port' \in [PIdx -> PortState]
        /\ \A p \in PIdx : port'[p].dev = port[p].dev
    <3>1. \A w \in AllVids \cup {Null} :
             /\ [port[genl.pidx] EXCEPT !.vlan = w] \in PortState
             /\ [port[genl.pidx] EXCEPT !.vlan = w].dev = port[genl.pidx].dev
      BY <1>2 DEF Inv, TypeOK, PortState
    <3>2. port \in [PIdx -> PortState]
      BY DEF Inv, TypeOK
    <3>3. \A w : [port EXCEPT ![genl.pidx].vlan = w] =
                    [port EXCEPT ![genl.pidx] = [port[genl.pidx] EXCEPT !.vlan = w]]
      OBVIOUS
    <3>. QED  BY <1>2, <3>1, <3>2, <3>3
  <2>2. TypeOK'
    BY <1>2, <2>1 DEF Inv, TypeOK
  <2>. QED  BY <1>2, <2>1, <2>2, QuietInv
<1>. QED  BY <1>1, <1>2, WalkEffect

\* A store of ubr_vlan_port_add or ubr_vlan_port_del to a VLAN.
LEMMA MemberStepInv ==
    ASSUME Inv, AttachTag \/ AttachMember \/ DetachMember \/ DetachUntag
    PROVE  Inv'
<1>1. /\ genl \in GenlState /\ GenlIdle \in GenlState
      /\ genl.pidx \in PIdx /\ genl.vid \in AllVids
      /\ vlan \in [AllVids -> VlanState] /\ vlan[genl.vid] \in VlanState
  BY RestTypes DEF Inv, TypeOK, GenlState
<1>2. CASE \E kind \in {"null", "uaf"} : Faulted(kind)
  BY <1>2, FaultedInv
<1>3. ASSUME NEW pc \in {"idle", "tag", "member", "unmember", "untag"}, NEW v \in VlanState,
             vlan' = [vlan EXCEPT ![genl.vid] = v],
             genl' = IF pc = "idle" THEN GenlIdle ELSE [genl EXCEPT !.pc = pc],
             UNCHANGED <<link, port, busy, dev, rtnl, cleanup, tainted, fault>>
      PROVE  Inv'
  <2>1. genl' \in GenlState
    BY <1>1, <1>3 DEF GenlState
  <2>2. TypeOK'
    BY <1>1, <1>3, <2>1 DEF Inv, TypeOK
  <2>. QED  BY <1>3, <2>2, QuietInv
<1>4. /\ [ItsVlan EXCEPT !.tagged = @ \cup {genl.pidx}] \in VlanState
      /\ [ItsVlan EXCEPT !.members = @ \cup {genl.pidx}] \in VlanState
      /\ [ItsVlan EXCEPT !.members = @ \ {genl.pidx}] \in VlanState
      /\ [ItsVlan EXCEPT !.tagged = @ \ {genl.pidx}] \in VlanState
  BY <1>1 DEF ItsVlan, VlanState
<1>. HIDE DEF ItsVlan
<1>5. CASE AttachTag
  BY <1>2, <1>3, <1>4, <1>5 DEF AttachTag, VlanStore
<1>6. CASE AttachMember
  BY <1>2, <1>3, <1>4, <1>6 DEF AttachMember, VlanStore
<1>7. CASE DetachMember
  BY <1>2, <1>3, <1>4, <1>7 DEF DetachMember, VlanStore
<1>8. CASE DetachUntag
  BY <1>2, <1>3, <1>4, <1>8 DEF DetachUntag, VlanStore
<1>. QED  BY <1>5, <1>6, <1>7, <1>8

\* A store of ubr_port_nl_set_cmd to the slot it found, whoever owns it by now.
LEMMA PortStoreInv ==
    ASSUME Inv, PortSetPvid \/ PortSetVlan \/ PortSetLoad \/ PortSetFilter
    PROVE  Inv'
<1>1. /\ genl \in GenlState /\ GenlIdle \in GenlState
      /\ genl.pidx \in PIdx /\ genl.vid \in AllVids
      /\ port \in [PIdx -> PortState] /\ port[genl.pidx] \in PortState
  BY RestTypes DEF Inv, TypeOK, GenlState
<1>2. CASE Faulted("uaf")
  BY <1>2, FaultedInv
<1>3. ASSUME NEW pc \in {"idle", "vlan", "filter"}, NEW p \in PortState,
             p.dev = port[genl.pidx].dev,
             port' = [port EXCEPT ![genl.pidx] = p],
             genl' = IF pc = "idle" THEN GenlIdle ELSE [genl EXCEPT !.pc = pc],
             UNCHANGED <<link, busy, vlan, dev, rtnl, cleanup, tainted, fault>>
      PROVE  Inv'
  <2>1. genl' \in GenlState
    BY <1>1, <1>3 DEF GenlState
  <2>2. \A q \in PIdx : port'[q].dev = port[q].dev
    BY <1>1, <1>3
  <2>3. TypeOK'
    BY <1>1, <1>3, <2>1 DEF Inv, TypeOK
  <2>. QED  BY <1>3, <2>2, <2>3, QuietInv
<1>4. VlanFind(genl.vid) \in AllVids \cup {Null}
  BY <1>1 DEF VlanFind
<1>5. CASE PortSetPvid
  <2>1. /\ [ItsPort EXCEPT !.pvid = genl.vid] \in PortState
        /\ [ItsPort EXCEPT !.pvid = genl.vid].dev = port[genl.pidx].dev
    BY <1>1 DEF ItsPort, PortState
  <2>. QED  BY <1>2, <1>3, <1>5, <2>1 DEF PortSetPvid, PortStore
<1>6. CASE PortSetVlan
  <2>1. /\ [ItsPort EXCEPT !.vlan = VlanFind(genl.vid)] \in PortState
        /\ [ItsPort EXCEPT !.vlan = VlanFind(genl.vid)].dev = port[genl.pidx].dev
    BY <1>1, <1>4 DEF ItsPort, PortState
  <2>. QED  BY <1>2, <1>3, <1>6, <2>1 DEF PortSetVlan, PortStore
<1>7. CASE PortSetLoad
  <2>1. CASE /\ genl' = [genl EXCEPT !.pc = "word", !.word = [pidx |-> ItsPort.pidx,
                                                          learning |-> ItsPort.learning]]
             /\ UNCHANGED <<link, port, busy, vlan, dev, rtnl, cleanup, tainted, fault>>
    <3>1. [pidx |-> ItsPort.pidx, learning |-> ItsPort.learning]
             \in [pidx : PIdx, learning : BOOLEAN]
      BY <1>1 DEF ItsPort, PortState
    <3>2. genl' \in GenlState
      BY <1>1, <2>1, <3>1 DEF GenlState
    <3>3. TypeOK'
      BY <2>1, <3>2 DEF Inv, TypeOK
    <3>. QED  BY <2>1, <3>3, QuietInv
  <2>. QED  BY <1>2, <1>7, <2>1 DEF PortSetLoad
<1>8. CASE PortSetFilter
  <2>1. PICK f \in BOOLEAN, l \in BOOLEAN, i \in PIdx :
           PortStore("word", "idle", [ItsPort EXCEPT !.pidx = i, !.learning = l, !.filtering = f])
    <3>1. /\ genl.word.pidx \in PIdx /\ genl.word.learning \in BOOLEAN
          /\ ItsPort.pidx \in PIdx /\ ItsPort.learning \in BOOLEAN
          /\ ItsPort.filtering \in BOOLEAN
      BY <1>1 DEF ItsPort, PortState, GenlState
    <3>2. \A f : [ItsPort EXCEPT !.filtering = f] =
                   [ItsPort EXCEPT !.pidx = ItsPort.pidx, !.learning = ItsPort.learning,
                                   !.filtering = f]
      BY <1>1 DEF ItsPort, PortState
    <3>3. PICK s : /\ PortStore("word", "idle", s)
                   /\ \/ s = [ItsPort EXCEPT !.pidx = genl.word.pidx,
                                             !.learning = genl.word.learning,
                                             !.filtering = genl.vid # 0]
                      \/ \E f \in {ItsPort.filtering, genl.vid # 0} :
                            s = [ItsPort EXCEPT !.filtering = f]
      BY <1>8, Zenon DEF PortSetFilter
    <3>. HIDE DEF ItsPort
    <3>4. CASE s = [ItsPort EXCEPT !.pidx = genl.word.pidx, !.learning = genl.word.learning,
                                   !.filtering = genl.vid # 0]
      <4>1. (genl.vid # 0) \in BOOLEAN
        OBVIOUS
      <4>. QED  BY <3>1, <3>3, <3>4, <4>1, Zenon
    <3>5. ASSUME NEW f \in {ItsPort.filtering, genl.vid # 0}, s = [ItsPort EXCEPT !.filtering = f]
          PROVE  \E g \in BOOLEAN, l \in BOOLEAN, i \in PIdx :
                    PortStore("word", "idle", [ItsPort EXCEPT !.pidx = i, !.learning = l,
                                                              !.filtering = g])
      <4>1. f \in BOOLEAN
        BY <3>1
      <4>2. s = [ItsPort EXCEPT !.pidx = ItsPort.pidx, !.learning = ItsPort.learning,
                                !.filtering = f]
        BY <3>2, <3>5
      <4>. QED  BY <3>1, <3>3, <4>1, <4>2, Zenon
    <3>. QED  BY <3>3, <3>4, <3>5
  <2>2. /\ [ItsPort EXCEPT !.pidx = i, !.learning = l, !.filtering = f] \in PortState
        /\ [ItsPort EXCEPT !.pidx = i, !.learning = l, !.filtering = f].dev = port[genl.pidx].dev
    BY <1>1, <2>1 DEF ItsPort, PortState
  <2>. QED  BY <1>2, <1>3, <2>1, <2>2 DEF PortStore
<1>. QED  BY <1>5, <1>6, <1>7, <1>8

\* Every step of the command that holds the genl mutex.
LEMMA GenlStepInv ==
    ASSUME Inv, GenlStep
    PROVE  Inv'
<1>1. Vids \subseteq AllVids
  BY DEF AllVids
<1>. QED  BY <1>1, GenlStartInv, VlanStepInv, WalkInv, MemberStepInv, PortStoreInv DEF GenlStep, Walks

\* RCU callbacks clear slots that no command owns, and free VLANs.
LEMMA RcuStepInv ==
    ASSUME Inv, RcuStep
    PROVE  Inv'
<1>1. CASE \E p \in PIdx : PortCleanupRcu(p)
  <2>1. PICK p \in PIdx : PortCleanupRcu(p)
    BY <1>1
  <2>2. /\ \A q \in PIdx : port'[q].dev \in {port[q].dev, Null}
        /\ port' \in [PIdx -> PortState]
    BY <2>1, RestTypes DEF PortCleanupRcu, Zeroed, Inv, TypeOK
  <2>3. TypeOK'
    BY <2>1, <2>2 DEF PortCleanupRcu, Inv, TypeOK
  <2>. QED  BY <2>1, <2>2, <2>3, QuietInv DEF PortCleanupRcu
<1>2. CASE \E v \in AllVids : VlanDelRcu(v)
  <2>1. PICK v \in AllVids : VlanDelRcu(v)
    BY <1>2
  <2>2. vlan' \in [AllVids -> VlanState]
    <3>1. [NoVlan EXCEPT !.mem = "freed"] \in VlanState
      BY RestTypes DEF VlanState
    <3>. QED  BY <2>1, <3>1 DEF VlanDelRcu, Inv, TypeOK
  <2>3. TypeOK'
    BY <2>1, <2>2 DEF VlanDelRcu, Inv, TypeOK
  <2>. QED  BY <2>1, <2>3, QuietInv DEF VlanDelRcu
<1>. QED  BY <1>1, <1>2 DEF RcuStep

-----------------------------------------------------------------------------
(* Theorems                                                                 *)

\* The invariant is inductive: no interleaving of RTNL commands, genl commands
\* and RCU callbacks leaves it.
LEMMA InductiveStep ==
    ASSUME Inv, [Next]_vars
    PROVE  Inv'
<1>1. CASE RtnlStep
  BY <1>1, RtnlStepInv
<1>2. CASE GenlStep
  BY <1>2, GenlStepInv
<1>3. CASE RcuStep
  BY <1>3, RcuStepInv
<1>4. CASE UNCHANGED vars
  <2>1. TypeOK'
    BY <1>4 DEF vars, Inv, TypeOK
  <2>. QED  BY <1>4, <2>1, QuietInv DEF vars
<1>. QED  BY <1>1, <1>2, <1>3, <1>4 DEF Next

THEOREM Invariance == Spec => []Inv
<1>1. Init => Inv
  BY InitInv
<1>2. Inv /\ [Next]_vars => Inv'
  BY InductiveStep
<1>. QED  BY <1>1, <1>2, PTL DEF Spec

\* Type correctness: in particular, no error path of ubr_port_add takes a count
\* of dev_set_promiscuity or dev_set_allmulti below zero.
THEOREM TypeCorrect == Spec => []TypeOK
BY Invariance, PTL DEF Inv

\* ubr_port_add never hands out a slot whose device still has its receive
\* handler, whatever is added, removed and unwound in between.
THEOREM SlotsAreExclusive == Spec => []SlotExclusive
<1>1. Inv => SlotExclusive
  BY DEF Inv, SlotInv, SlotExclusive
<1>. QED  BY <1>1, Invariance, PTL

\* The unwinding of ubr_port_add, and ubr_port_del, give back exactly what was
\* acquired.
THEOREM NothingHalfEnslaved == Spec => []AllOrNothing
<1>1. Inv => AllOrNothing
  <2>. SUFFICES ASSUME Inv, rtnl.op = "idle", NEW d \in Devs
                PROVE  \/ dev[d] = Released
                       \/ /\ dev[d].master /\ dev[d].flag
                          /\ dev[d].promisc = 1 /\ dev[d].allmulti = 1
                          /\ dev[d].rx # Null
    BY DEF AllOrNothing
  <2>1. Free(dev[d]) \/ Enslaved(dev[d])
    BY RestTypes DEF Inv, RtnlInv, RtnlIdle, OthersInv
  <2>2. CASE Free(dev[d])
    BY <2>2, FreeIsReleased DEF Inv, TypeOK
  <2>3. CASE Enslaved(dev[d])
    BY <2>3 DEF Enslaved, Holds
  <2>. QED  BY <2>1, <2>2, <2>3
<1>. QED  BY <1>1, Invariance, PTL

\* ubr_dev_dellink misses no slave.
THEOREM DellinkReleasesAll == Spec => []GoneReleasesDevices
<1>1. Inv => GoneReleasesDevices
  BY FreeIsReleased DEF Inv, TypeOK, GoneInv, GoneReleasesDevices
<1>. QED  BY <1>1, Invariance, PTL

-----------------------------------------------------------------------------
(* Tagged ports                                                             *)

\* How far an attach or detach command is with the two bits of its port.
GenlInv ==
    /\ genl.op \in {"attach", "detach"} => genl.vid # 0
    /\ genl.pc \in {"tag", "member"} => genl.op = "attach"
    /\ genl.pc \in {"unmember", "untag"} => genl.op = "detach"
    /\ genl.pc = "member" /\ genl.tagged =>
          genl.pidx \in vlan[genl.vid].tagged \/ vlan[genl.vid].mem = "freed"
    /\ genl.pc = "untag" => genl.pidx \notin vlan[genl.vid].members

\* A step outside the four stores to a VLAN's bits gives no VLAN but 0 a new
\* member, and takes no port's tagged bit away unless the VLAN is new or freed.
LEMMA BitsOnlyByCommand ==
    ASSUME TypeOK, Next, ~(AttachTag \/ AttachMember \/ DetachMember \/ DetachUntag),
           NEW v \in AllVids
    PROVE  /\ v # 0 => vlan'[v].members \subseteq vlan[v].members
           /\ \/ vlan'[v].tagged = vlan[v].tagged
              \/ vlan'[v].members = {} /\ genl.pc = "new" /\ genl'.pc = "update"
              \/ vlan'[v].members = {} /\ vlan'[v].mem = "freed"
           /\ vlan[v].mem = "freed" => vlan'[v].mem = "freed"
<1>1. vlan \in [AllVids -> VlanState]
  BY DEF TypeOK
<1>2. CASE UNCHANGED vlan
  BY <1>2
<1>3. CASE \E d \in Devs : PortAdd(d)
  BY <1>1, <1>3, RestTypes DEF PortAdd, VlanState
<1>4. CASE VlanNew
  <2>1. CASE /\ vlan' = [vlan EXCEPT ![genl.vid] = [NoVlan EXCEPT !.mem = "live"]]
             /\ genl.pc = "new" /\ GenlTo("update") /\ vlan[genl.vid].mem = "none"
    <3>1. [NoVlan EXCEPT !.mem = "live"].members = {}
      BY DEF NoVlan
    <3>2. genl'.pc = "update"
      BY <2>1 DEF GenlTo, TypeOK, GenlState
    <3>. QED  BY <1>1, <2>1, <3>1, <3>2
  <2>. QED  BY <1>2, <1>4, <2>1 DEF VlanNew, GenlAt, Faulted
<1>5. CASE VlanDelFree
  <2>1. CASE vlan' = [vlan EXCEPT ![genl.vid].members = {}, ![genl.vid].mem = "dying"]
    BY <1>1, <2>1 DEF VlanState
  <2>. QED  BY <1>2, <1>5, <2>1 DEF VlanDelFree, Faulted
<1>6. CASE \E w \in AllVids : VlanDelRcu(w)
  <2>1. PICK w \in AllVids : VlanDelRcu(w)
    BY <1>6
  <2>2. /\ [NoVlan EXCEPT !.mem = "freed"].members = {}
        /\ [NoVlan EXCEPT !.mem = "freed"].mem = "freed"
    BY DEF NoVlan
  <2>3. vlan' = [vlan EXCEPT ![w] = [NoVlan EXCEPT !.mem = "freed"]]
    BY <2>1 DEF VlanDelRcu
  <2>. HIDE DEF NoVlan
  <2>. QED  BY <1>1, <2>2, <2>3
<1>7. UNCHANGED vlan \/ (\E d \in Devs : PortAdd(d)) \/ VlanNew \/ VlanDelFree
      \/ (\E w \in AllVids : VlanDelRcu(w))
  <2>1. CASE RtnlStep
    BY <2>1 DEF RtnlStep, DelSlave, DeviceEvent, PortPublish, PortLink, PortPromisc,
                PortAllmulti, PortRxRegister, UndoAllmulti, UndoPromisc, UndoLink, PortUninit,
                Dellink, DellinkNext, RxUnregister, RxSynchronized, PortRelease, PortCleanup,
                StartPortDel, Faulted
  <2>2. CASE GenlStep
    BY <2>2 DEF GenlStep, VlanAdd, VlanDel, VlanDelFind, VlanAddTest, VlanAddStore,
                VlanDelTest, VlanDelStore, UpdateTest, UpdateStore, Attach, Detach,
                FindVlanPort, PortSet, PortSetPvid, PortSetVlan, PortSetLoad, PortSetFilter,
                PortStore, Faulted
  <2>3. CASE RcuStep
    BY <2>3 DEF RcuStep, PortCleanupRcu
  <2>. QED  BY <2>1, <2>2, <2>3 DEF Next
<1>. QED  BY <1>2, <1>3, <1>4, <1>5, <1>6, <1>7

\* The four stores, field by field.
LEMMA BitSteps ==
    ASSUME TypeOK, AttachTag \/ AttachMember \/ DetachMember \/ DetachUntag
    PROVE  \/ UNCHANGED <<vlan, genl>>
           \/ /\ \A w \in AllVids \ {genl.vid} : vlan'[w] = vlan[w]
              /\ LET old == vlan[genl.vid]
                     new == vlan'[genl.vid]
                     p == genl.pidx
                 IN  \/ /\ AttachTag
                        /\ new.members = old.members /\ new.tagged = old.tagged \cup {p}
                        /\ genl' = [genl EXCEPT !.pc = "member"]
                     \/ /\ AttachMember
                        /\ new.members = old.members \cup {p} /\ new.tagged = old.tagged
                        /\ genl' = GenlIdle
                     \/ /\ DetachMember
                        /\ new.members = old.members \ {p} /\ new.tagged = old.tagged
                        /\ genl' = [genl EXCEPT !.pc = "untag"]
                     \/ /\ DetachUntag
                        /\ new.members = old.members /\ new.tagged = old.tagged \ {p}
                        /\ genl' = GenlIdle
<1>1. vlan \in [AllVids -> VlanState] /\ genl.vid \in AllVids /\ vlan[genl.vid] \in VlanState
  BY DEF TypeOK, GenlState
<1>2. CASE AttachTag
  BY <1>1, <1>2 DEF AttachTag, VlanStore, ItsVlan, VlanState, Faulted
<1>3. CASE AttachMember
  BY <1>1, <1>3 DEF AttachMember, VlanStore, ItsVlan, VlanState, Faulted
<1>4. CASE DetachMember
  BY <1>1, <1>4 DEF DetachMember, VlanStore, ItsVlan, VlanState, Faulted
<1>5. CASE DetachUntag
  BY <1>1, <1>5 DEF DetachUntag, VlanStore, ItsVlan, VlanState, Faulted
<1>. QED  BY <1>2, <1>3, <1>4, <1>5

LEMMA GenlInvStep ==
    ASSUME TypeOK, GenlInv, [Next]_vars
    PROVE  GenlInv'
<1>. USE DEF GenlInv
<1>1. /\ genl \in GenlState /\ genl.vid \in AllVids
      /\ vlan \in [AllVids -> VlanState]
  BY DEF TypeOK, GenlState
<1>2. CASE UNCHANGED vars
  BY <1>2 DEF vars
<1>3. CASE AttachTag \/ AttachMember \/ DetachMember \/ DetachUntag
  <2>1. CASE UNCHANGED <<vlan, genl>>
    BY <2>1
  <2>2. CASE genl' = GenlIdle
    BY <2>2 DEF GenlIdle, Command
  <2>3. CASE /\ AttachTag
             /\ vlan'[genl.vid].tagged = vlan[genl.vid].tagged \cup {genl.pidx}
             /\ genl' = [genl EXCEPT !.pc = "member"]
    <3>1. genl.pc = "tag"
      BY <2>3 DEF AttachTag, VlanStore, GenlAt
    <3>. QED  BY <1>1, <2>3, <3>1 DEF GenlState
  <2>4. CASE /\ DetachMember
             /\ vlan'[genl.vid].members = vlan[genl.vid].members \ {genl.pidx}
             /\ genl' = [genl EXCEPT !.pc = "untag"]
    <3>1. genl.pc = "unmember"
      BY <2>4 DEF DetachMember, VlanStore, GenlAt
    <3>. QED  BY <1>1, <2>4, <3>1 DEF GenlState
  <2>. QED  BY <1>3, <2>1, <2>2, <2>3, <2>4, BitSteps
<1>4. CASE Next /\ ~(AttachTag \/ AttachMember \/ DetachMember \/ DetachUntag)
  <2>1. \A v \in AllVids :
           /\ v # 0 => vlan'[v].members \subseteq vlan[v].members
           /\ \/ vlan'[v].tagged = vlan[v].tagged
              \/ genl.pc = "new"
              \/ vlan'[v].mem = "freed"
           /\ vlan[v].mem = "freed" => vlan'[v].mem = "freed"
    BY <1>4, BitsOnlyByCommand
  <2>2. CASE genl' = genl
    BY <1>1, <2>1, <2>2
  <2>3. CASE /\ genl'.pc \notin {"tag", "member", "unmember", "untag"}
             /\ \/ genl'.op \notin {"attach", "detach"}
                \/ genl'.op = genl.op /\ genl'.vid = genl.vid
    BY <2>3
  <2>4. CASE \E v \in Vids, d \in Managed :
                (\E tagged \in BOOLEAN : Attach(v, d, tagged)) \/ Detach(v, d)
    <3>1. PICK v \in Vids, d \in Managed :
             (\E tagged \in BOOLEAN : Attach(v, d, tagged)) \/ Detach(v, d)
      BY <2>4
    <3>2. v # 0
      BY ConstantsAssumption
    <3>3. CASE Detach(v, d)
      <4>1. genl' = Command("detach", "unmember", v, Least(PortFind(d)), FALSE)
        BY <3>3 DEF Detach, FindVlanPort
      <4>. QED  BY <3>2, <4>1 DEF Command
    <3>4. ASSUME NEW tagged \in BOOLEAN, Attach(v, d, tagged) PROVE GenlInv'
      <4>1. genl' = Command("attach", IF tagged THEN "tag" ELSE "member", v,
                            Least(PortFind(d)), tagged)
        BY <3>4 DEF Attach, FindVlanPort
      <4>. QED  BY <3>2, <4>1 DEF Command
    <3>. QED  BY <3>1, <3>3, <3>4
  <2>5. CASE GenlStep
    <3>1. CASE \/ \E v \in Vids : VlanAdd(v) \/ VlanDel(v)
               \/ \E v \in AllVids, d \in Managed : PortSet(d, v)
      BY <2>3, <3>1 DEF VlanAdd, VlanDel, PortSet, GenlIdle, Command
    <3>2. CASE VlanNew \/ VlanDelFind \/ VlanDelFree
      BY <1>1, <2>2, <2>3, <3>2 DEF VlanNew, VlanDelFind, VlanDelFree, GenlTo, GenlIdle, Command,
                                    GenlState, Faulted
    <3>3. CASE Walks
      <4>1. CASE \E pc \in {"update", "set", "unlink", "clear"} : \E p :
                    genl' = [genl EXCEPT !.pc = pc, !.pidx = p]
        BY <1>1, <2>3, <4>1 DEF GenlState
      <4>2. CASE genl' \in {GenlIdle, Unlinked}
        <5>1. CASE genl' = GenlIdle
          BY <2>3, <5>1 DEF GenlIdle, Command
        <5>2. CASE genl' = Unlinked
          BY <1>1, <2>3, <5>2 DEF Unlinked, GenlState
        <5>. QED  BY <4>2, <5>1, <5>2
      <4>3. \A pc : GenlTo(pc) => genl' = [genl EXCEPT !.pc = pc, !.pidx = genl.pidx]
        BY <1>1 DEF GenlTo, GenlState
      <4>. QED  BY <2>2, <3>3, <4>1, <4>2, <4>3 DEF Walks, VlanAddTest, VlanAddStore, VlanDelTest,
                   VlanDelStore, UpdateTest, UpdateStore, NextSlot, Faulted
    <3>4. CASE PortSetPvid \/ PortSetVlan \/ PortSetLoad \/ PortSetFilter
      <4>1. \/ genl' = genl \/ genl' = GenlIdle
            \/ \E pc \in {"vlan", "filter"} : genl' = [genl EXCEPT !.pc = pc]
            \/ \E w : genl' = [genl EXCEPT !.pc = "word", !.word = w]
        BY <3>4, Zenon DEF PortSetPvid, PortSetVlan, PortSetLoad, PortSetFilter, PortStore,
                           Faulted
      <4>2. CASE genl' = GenlIdle
        BY <2>3, <4>2 DEF GenlIdle, Command
      <4>3. CASE \E pc \in {"vlan", "filter"} : genl' = [genl EXCEPT !.pc = pc]
        BY <1>1, <2>3, <4>3 DEF GenlState
      <4>4. CASE \E w : genl' = [genl EXCEPT !.pc = "word", !.word = w]
        BY <1>1, <2>3, <4>4 DEF GenlState
      <4>. QED  BY <2>2, <4>1, <4>2, <4>3, <4>4
    <3>. QED  BY <1>4, <2>4, <2>5, <3>1, <3>2, <3>3, <3>4 DEF GenlStep, Walks
  <2>6. CASE RtnlStep \/ RcuStep
    <3>1. genl' = genl
      BY <2>6 DEF RtnlStep, PortAdd, DelSlave, DeviceEvent, PortPublish, PortLink, PortPromisc,
                  PortAllmulti, PortRxRegister, UndoAllmulti, UndoPromisc, UndoLink,
                  PortUninit, Dellink, DellinkNext, RxUnregister, RxSynchronized,
                  PortRelease, PortCleanup, StartPortDel, Faulted,
                  RcuStep, PortCleanupRcu, VlanDelRcu
    <3>. QED  BY <2>2, <3>1
  <2>. QED  BY <1>4, <2>5, <2>6 DEF Next
<1>. QED  BY <1>2, <1>3, <1>4

\* The barriers of ubr_vlan_port_add and ubr_vlan_port_del do their work: at no
\* point of an attach or a detach is a tagged port a member without its tag.
THEOREM TaggedBeforeMember == Spec => TaggedOrdering
<1>1. Init => GenlInv
  BY DEF Init, GenlIdle, Command, GenlInv
<1>2. TypeOK /\ GenlInv /\ [Next]_vars => GenlInv'
  BY GenlInvStep
<1>3. ASSUME TypeOK, GenlInv, [Next]_vars, NEW v \in AllVids, NEW p \in PIdx,
             p \in vlan'[v].members
      PROVE  /\ p \in vlan[v].members \cap vlan[v].tagged => p \in vlan'[v].tagged
             /\ p \notin vlan[v].members /\ genl.op = "attach" /\ genl.tagged /\ genl.vid = v
                    => p \in vlan'[v].tagged
  <2>1. CASE UNCHANGED vars
    BY <1>3, <2>1 DEF vars
  <2>2. CASE AttachTag \/ AttachMember \/ DetachMember \/ DetachUntag
    <3>1. /\ AttachMember /\ ~UNCHANGED <<vlan, genl>> =>
                genl.pc = "member" /\ vlan[genl.vid].mem # "freed"
          /\ DetachUntag /\ ~UNCHANGED <<vlan, genl>> => genl.pc = "untag"
      BY DEF AttachMember, DetachUntag, VlanStore, GenlAt, Faulted
    <3>. QED  BY <1>3, <2>2, <3>1, BitSteps DEF GenlInv
  <2>3. CASE Next /\ ~(AttachTag \/ AttachMember \/ DetachMember \/ DetachUntag)
    BY <1>3, <2>3, BitsOnlyByCommand DEF GenlInv
  <2>. QED  BY <1>3, <2>1, <2>2, <2>3
<1>4. TypeOK /\ GenlInv /\ [Next]_vars =>
        [\A v \in AllVids, p \in PIdx :
            p \in vlan'[v].members =>
               /\ p \in vlan[v].members \cap vlan[v].tagged => p \in vlan'[v].tagged
               /\ p \notin vlan[v].members /\ genl.op = "attach" /\ genl.tagged /\ genl.vid = v
                      => p \in vlan'[v].tagged]_vars
  BY <1>3
<1>. QED  BY <1>1, <1>2, <1>4, TypeCorrect, PTL DEF Spec, TaggedOrdering

=============================================================================
