-------------------------- MODULE UbrDevice_proofs --------------------------
(* Proofs about UbrDevice: its properties hold for any number of bridges    *)
(* and of other devices, whichever of them netlink requests name.           *)
EXTENDS UbrDevice, TLAPS

(* The inductive invariant.                                                 *)

\* Where the link operations are registered in the ordinary course, so that
\* bridges may be created, and where bridges may still be around.
Serving == {"i_family", "i_devops", "live", "x_family", "x_linkops"}
Inhabited == Serving \cup {"x_todo"}

\* What is registered follows from how far loading or unloading has come; only
\* the link operations may be left over.
LoadInv ==
    /\ "cache" \in has <=> mod \notin {"absent", "i_cache"}
    /\ "notifier" \in has <=>
           mod \in Inhabited \cup {"i_linkops", "u_notifier", "x_notifier"}
    /\ "linkops" \in has <=> (orphan \/ mod \in Serving)
    /\ "family" \in has <=> mod \in {"i_devops", "live", "x_family"}
    /\ "devops" \in has <=>
           mod \in {"live", "x_family", "x_linkops", "x_todo", "x_notifier", "x_cache"}
    /\ orphan => mod \in {"u_notifier", "u_cache", "absent"}

\* The command that holds the RTNL is at one of its own steps, with a bridge
\* in the state that this command works on; nobody else sets up a bridge.
RtnlInv ==
    /\ rtnl.pc = "idle" <=> rtnl = RtnlIdle
    /\ rtnl.op = "idle" <=> rtnl = RtnlIdle
    /\ rtnl.pc \in {"vlan", "fdb", "register", "undo_fdb", "free"} =>
           rtnl.op = "newlink" /\ rtnl.br \in Bridges /\ bridge[rtnl.br] = "setup"
    /\ rtnl.pc \in {"ports", "table", "unregister"} =>
           rtnl.op \in {"dellink", "kill"} /\ rtnl.br \in Bridges /\ bridge[rtnl.br] = "up"
    /\ rtnl.pc = "next" => rtnl.op = "kill" /\ rtnl.br = Null
    /\ rtnl.op = "kill" => mod = "x_linkops"
    /\ \A b \in Bridges : bridge[b] = "setup" => rtnl.op = "newlink" /\ rtnl.br = b

\* Bridges come and go only while the link operations are registered, and the
\* last of them go before the notifier and the cache do.
BridgesInv ==
    ~orphan => \A b \in Bridges :
        /\ bridge[b] # "none" => mod \in Inhabited
        /\ bridge[b] \in {"setup", "up"} => mod \in Serving

\* A device is enslaved to a registered bridge whose ports are not yet released,
\* and is itself registered as long as the notifier has not been lost.
SlavesInv ==
    \A d \in Devs : dev[d].master # Null =>
        /\ bridge[dev[d].master] = "up"
        /\ rtnl.br = dev[d].master => rtnl.pc = "ports"
        /\ ~orphan => dev[d].life = "present"

\* Before a bridge is registered and after the barrier it has no callbacks.
PendInv ==
    ~late => \A b \in Bridges :
        bridge[b] \in {"none", "setup", "drained"} => pend[b] = {}

\* The ageing work is queued between ubr_fdb_newlink and ubr_fdb_dellink.
WorkInv ==
    \A b \in work :
        /\ bridge[b] \in {"setup", "up"}
        /\ rtnl.br = b => rtnl.pc \in {"register", "undo_fdb", "ports", "table"}

\* A handler runs while the family is registered; a bridge it holds has been
\* registered and not been freed since, another device has not been freed.
HandlerInv ==
    /\ genl # GenlIdle => "family" \in has
    /\ genl.pc = "port" => genl.port \in Bridges \cup Devs
    /\ \A o \in genl.holds :
           IF o \in Bridges THEN bridge[o] \in {"up", "dying", "drained"}
                            ELSE dev[o].life \in {"present", "dying"}

DeviceInv ==
    /\ TypeOK /\ LoadInv /\ RtnlInv /\ BridgesInv /\ SlavesInv
    /\ PendInv /\ WorkInv /\ HandlerInv /\ LifeCrashCauses

-----------------------------------------------------------------------------
(* What a step does not disturb                                             *)

LEMMA IdleTyped == RtnlIdle \in RtnlState /\ GenlIdle \in GenlState
  BY DEF RtnlIdle, RtnlState, GenlIdle, GenlState

LEMMA Typed ==
    ASSUME TypeOK
    PROVE  /\ rtnl.br \in Bridges \cup {Null} /\ genl.br \in Bridges \cup {Null}
           /\ \A b \in Bridges : pend[b] \subseteq {"port", "node", "vlan"}
           /\ \A d \in Devs : dev[d] \in DevState
  BY DEF TypeOK, RtnlState, GenlState

LEMMA Undisturbed ==
    ASSUME DeviceInv
    PROVE  /\ UNCHANGED <<mod, has, orphan>> => LoadInv'
           /\ UNCHANGED <<rtnl, bridge, mod>> => RtnlInv'
           /\ UNCHANGED <<bridge, mod, orphan>> => BridgesInv'
           /\ UNCHANGED <<dev, bridge, rtnl, orphan>> => SlavesInv'
           /\ UNCHANGED <<pend, bridge, late>> => PendInv'
           /\ UNCHANGED <<work, bridge, rtnl>> => WorkInv'
           /\ UNCHANGED <<genl, has, bridge, dev>> => HandlerInv'
           /\ fault' = "none" => LifeCrashCauses'
<1>1. UNCHANGED <<mod, has, orphan>> => LoadInv'
  BY DEF DeviceInv, LoadInv
<1>2. UNCHANGED <<rtnl, bridge, mod>> => RtnlInv'
  BY DEF DeviceInv, RtnlInv, RtnlIdle
<1>3. UNCHANGED <<bridge, mod, orphan>> => BridgesInv'
  BY DEF DeviceInv, BridgesInv
<1>4. UNCHANGED <<dev, bridge, rtnl, orphan>> => SlavesInv'
  BY DEF DeviceInv, SlavesInv
<1>5. UNCHANGED <<pend, bridge, late>> => PendInv'
  BY DEF DeviceInv, PendInv
<1>6. UNCHANGED <<work, bridge, rtnl>> => WorkInv'
  BY DEF DeviceInv, WorkInv
<1>7. UNCHANGED <<genl, has, bridge, dev>> => HandlerInv'
  BY DEF DeviceInv, HandlerInv, GenlIdle
<1>8. fault' = "none" => LifeCrashCauses'
  BY DEF LifeCrashCauses
<1>. QED  BY <1>1, <1>2, <1>3, <1>4, <1>5, <1>6, <1>7, <1>8

\* What is left of the types when every variable has its own.
LEMMA TypesSuffice ==
    ASSUME HandlerInv', mod' \in ModState, has' \subseteq Registrations,
           bridge' \in [Bridges -> {"none", "setup", "up", "dying", "drained"}],
           work' \subseteq Bridges,
           pend' \in [Bridges -> SUBSET {"port", "node", "vlan"}],
           dev' \in [Devs -> DevState], rtnl' \in RtnlState, genl' \in GenlState,
           leaked' \subseteq Bridges \cup Devs, orphan' \in BOOLEAN, late' \in BOOLEAN,
           fault' \in {"none", "freed", "uaf", "null"}
    PROVE  TypeOK'
<1>1. \A o \in genl'.holds : IF o \in Bridges THEN bridge'[o] # "none" ELSE dev'[o].life # "gone"
  BY DEF HandlerInv
<1>. QED  BY <1>1 DEF TypeOK

LEMMA FaultChangesNothing ==
    ASSUME DeviceInv, NEW kind \in {"freed", "uaf", "null"}, Faulted(kind),
           kind = "freed" => orphan \/ late, kind = "uaf" => genl.dangling
    PROVE  DeviceInv'
<1>1. LoadInv' /\ RtnlInv' /\ BridgesInv' /\ SlavesInv' /\ PendInv' /\ WorkInv' /\ HandlerInv'
  BY Undisturbed DEF Faulted
<1>2. TypeOK'
  BY <1>1, TypesSuffice DEF DeviceInv, TypeOK, Faulted
<1>3. LifeCrashCauses'
  BY DEF Faulted, LifeCrashCauses
<1>. QED  BY <1>1, <1>2, <1>3 DEF DeviceInv

-----------------------------------------------------------------------------
(* Loading and unloading                                                    *)

\* Only the command that deletes all bridges keeps the module where it is.
LEMMA RtnlInvWhileLoading ==
    ASSUME DeviceInv, UNCHANGED <<rtnl, bridge>>, mod = "x_linkops" => rtnl.op # "kill"
    PROVE  RtnlInv'
  BY DEF DeviceInv, RtnlInv, RtnlIdle

\* Registering something or starting to unload.
LEMMA LoadStep ==
    ASSUME DeviceInv, Insmod \/ InitCache \/ InitNotifier \/ InitLinkOps \/ InitDevops
                      \/ ExitStart
    PROVE  DeviceInv'
<1>1. UNCHANGED <<pend, dev, orphan, others>> /\ Ok
  BY DEF Insmod, InitCache, InitNotifier, InitLinkOps, InitDevops, ExitStart, Register, ModAt
<1>2. mod \notin Inhabited \/ mod' \in Serving
  BY DEF Insmod, InitCache, InitNotifier, InitLinkOps, InitDevops, ExitStart, Register, ModAt,
         Inhabited, Serving
<1>3. mod # "x_linkops" /\ has \subseteq has' /\ mod' \in ModState /\ has' \subseteq Registrations
  BY DEF DeviceInv, TypeOK, Insmod, InitCache, InitNotifier, InitLinkOps, InitDevops, ExitStart,
         Register, ModAt, ModState, Registrations
<1>4. LoadInv'
  BY <1>1, <1>3 DEF DeviceInv, LoadInv, Insmod, InitCache, InitNotifier, InitLinkOps, InitDevops,
         ExitStart, Register, ModAt, Inhabited, Serving
<1>5. RtnlInv'
  BY <1>1, <1>3, RtnlInvWhileLoading DEF others
<1>6. BridgesInv'
  BY <1>1, <1>2 DEF others, DeviceInv, BridgesInv, Inhabited
<1>7. SlavesInv' /\ PendInv' /\ WorkInv' /\ LifeCrashCauses'
  BY <1>1, Undisturbed DEF others, Ok
<1>8. HandlerInv'
  BY <1>1, <1>3 DEF others, DeviceInv, HandlerInv, GenlIdle
<1>9. TypeOK'
  BY <1>1, <1>3, <1>8, TypesSuffice DEF others, DeviceInv, TypeOK
<1>. QED  BY <1>4, <1>5, <1>6, <1>7, <1>8, <1>9 DEF DeviceInv

\* The family is registered, or fails to be and leaves the bridges orphaned.
LEMMA InitFamilyStep ==
    ASSUME DeviceInv, InitFamily
    PROVE  DeviceInv'
<1>1. UNCHANGED <<pend, dev, others>> /\ Ok /\ mod = "i_family"
  BY DEF InitFamily, ModAt
<1>2. /\ has \subseteq has' /\ mod' \in ModState /\ has' \subseteq Registrations
      /\ orphan' \in BOOLEAN
  BY DEF DeviceInv, TypeOK, InitFamily, ModState, Registrations
<1>10. ~orphan' => ~orphan
  BY DEF InitFamily
<1>3. LoadInv'
  BY <1>1 DEF DeviceInv, LoadInv, InitFamily, Inhabited, Serving
<1>4. RtnlInv'
  BY <1>1, RtnlInvWhileLoading DEF others
<1>5. BridgesInv'
  BY <1>1 DEF others, DeviceInv, BridgesInv, InitFamily, Inhabited, Serving
<1>6. SlavesInv'
  BY <1>1, <1>10 DEF others, DeviceInv, SlavesInv
<1>7. PendInv' /\ WorkInv' /\ LifeCrashCauses'
  BY <1>1, Undisturbed DEF others, Ok
<1>8. HandlerInv'
  BY <1>1, <1>2 DEF others, DeviceInv, HandlerInv, GenlIdle
<1>9. TypeOK'
  BY <1>1, <1>2, <1>8, TypesSuffice DEF others, DeviceInv, TypeOK
<1>. QED  BY <1>3, <1>4, <1>5, <1>6, <1>7, <1>8, <1>9 DEF DeviceInv

\* The ports that a step releases.
LEMMA Released ==
    ASSUME TypeOK, NEW D \in SUBSET Devs, dev' = Release(D)
    PROVE  /\ dev' \in [Devs -> DevState]
           /\ \A d \in Devs : /\ dev'[d].life = dev[d].life
                              /\ d \in D => dev'[d].master = Null
                              /\ d \notin D => dev'[d] = dev[d]
<1>1. \A d \in Devs : dev[d] \in DevState
  BY Typed
<1>2. ASSUME NEW d \in Devs
      PROVE  [dev[d] EXCEPT !.master = Null] = [life |-> dev[d].life, master |-> Null]
  BY <1>1, <1>2 DEF DevState
<1>3. \A d \in Devs : dev'[d] = IF d \in D THEN [life |-> dev[d].life, master |-> Null] ELSE dev[d]
  BY <1>2 DEF Release
<1>4. dev' \in [Devs -> DevState]
  BY <1>1, <1>2 DEF Release, DevState
<1>. QED  BY <1>3, <1>4

LEMMA HandlerInvKept ==
    ASSUME DeviceInv, UNCHANGED <<genl, bridge>>, "family" \in has => "family" \in has',
           \A d \in Devs : dev[d].life \in {"present", "dying"} =>
               dev'[d].life = dev[d].life \/ (dev'[d].life \in {"present", "dying"})
    PROVE  HandlerInv'
<1>1. \A o \in genl.holds : o \in Bridges \cup Devs
  BY DEF DeviceInv, TypeOK, GenlState
<1>. QED  BY <1>1 DEF DeviceInv, HandlerInv, GenlIdle

\* The notifier is replayed for all devices when it is unregistered.
LEMMA UnregisterNotifierStep ==
    ASSUME DeviceInv, UnregisterNotifier("u_notifier", "u_cache")
                      \/ UnregisterNotifier("x_notifier", "x_cache")
    PROVE  DeviceInv'
<1>1. UNCHANGED <<orphan, others>> /\ Ok /\ has' = has \ {"notifier"} /\ dev' = Release(Devs)
      /\ pend' = [b \in Bridges |-> IF Slaves(b) = {} THEN pend[b] ELSE pend[b] \cup {"port"}]
  BY DEF UnregisterNotifier, ModAt
<1>2. \/ mod = "u_notifier" /\ mod' = "u_cache"
      \/ mod = "x_notifier" /\ mod' = "x_cache"
  BY DEF UnregisterNotifier, ModAt
<1>3. /\ dev' \in [Devs -> DevState]
      /\ \A d \in Devs : dev'[d].master = Null /\ dev'[d].life = dev[d].life
  BY <1>1, Released DEF DeviceInv
<1>4. LoadInv'
  BY <1>1, <1>2 DEF DeviceInv, LoadInv, Inhabited, Serving
<1>5. RtnlInv'
  BY <1>1, <1>2, RtnlInvWhileLoading DEF others
<1>6. BridgesInv'
  BY <1>1, <1>2 DEF others, DeviceInv, BridgesInv, Inhabited, Serving
<1>7. SlavesInv'
  BY <1>3 DEF SlavesInv
<1>8. PendInv'
  <2>1. ASSUME NEW b \in Bridges, bridge[b] # "up" PROVE pend'[b] = pend[b]
    <3>1. Slaves(b) = {}
      BY <2>1, DeviceAssumption DEF DeviceInv, SlavesInv, Slaves
    <3>. QED  BY <1>1, <3>1
  <2>. QED  BY <1>1, <2>1 DEF DeviceInv, PendInv, others
<1>9. WorkInv' /\ LifeCrashCauses'
  BY <1>1, Undisturbed DEF others, Ok
<1>10. HandlerInv'
  BY <1>1, <1>3, HandlerInvKept DEF others
<1>11. TypeOK'
  <2>1. pend' \in [Bridges -> SUBSET {"port", "node", "vlan"}]
    BY <1>1 DEF DeviceInv, TypeOK
  <2>2. mod' \in ModState /\ has' \subseteq Registrations
    BY <1>1, <1>2 DEF DeviceInv, TypeOK, ModState
  <2>. QED  BY <1>1, <1>3, <1>10, <2>1, <2>2, TypesSuffice DEF others, DeviceInv, TypeOK
<1>. QED  BY <1>4, <1>5, <1>6, <1>7, <1>8, <1>9, <1>10, <1>11 DEF DeviceInv

\* Steps of loading and unloading after which no bridge can be there.
LEMMA UnloadStep ==
    ASSUME DeviceInv, CacheFini("u_cache") \/ CacheFini("x_cache") \/ ExitFamily \/ ExitTodo
    PROVE  DeviceInv'
<1>1. UNCHANGED <<pend, dev, orphan, others>> /\ Ok
  BY DEF CacheFini, ExitFamily, ExitTodo, ModAt
<1>2. /\ mod \in {"u_cache", "x_cache", "x_family", "x_todo"} /\ mod' \in ModState
      /\ has' \subseteq Registrations
      /\ genl # GenlIdle => has' = has \ {"cache", "devops"} \/ has' = has
  BY DEF DeviceInv, TypeOK, CacheFini, ExitFamily, ExitTodo, ModAt, ModState
<1>3. LoadInv'
  BY <1>1, <1>2 DEF DeviceInv, LoadInv, CacheFini, ExitFamily, ExitTodo, ModAt, Inhabited, Serving
<1>4. RtnlInv'
  BY <1>1, <1>2, RtnlInvWhileLoading DEF others
<1>5. BridgesInv'
  <2>1. CASE ExitFamily
    BY <1>1, <2>1 DEF others, DeviceInv, BridgesInv, ExitFamily, ModAt, Inhabited, Serving
  <2>2. ASSUME ~orphan, NEW b \in Bridges, ~ExitFamily PROVE bridge[b] = "none"
    BY <1>1, <2>2 DEF DeviceInv, TypeOK, BridgesInv, CacheFini, ExitTodo, ModAt, Inhabited, Serving
  <2>. QED  BY <1>1, <2>1, <2>2 DEF others, BridgesInv
<1>6. SlavesInv' /\ PendInv' /\ WorkInv' /\ LifeCrashCauses'
  BY <1>1, Undisturbed DEF others, Ok
<1>7. HandlerInv'
  BY <1>1, <1>2 DEF others, DeviceInv, HandlerInv, GenlIdle
<1>8. TypeOK'
  BY <1>1, <1>2, <1>7, TypesSuffice DEF others, DeviceInv, TypeOK
<1>. QED  BY <1>3, <1>4, <1>5, <1>6, <1>7, <1>8 DEF DeviceInv

\* rtnl_link_unregister, except for the deletion of the bridges themselves.
LEMMA KillStep ==
    ASSUME DeviceInv, ExitKill \/ KillNext
    PROVE  DeviceInv'
<1>1. UNCHANGED <<bridge, work, pend, dev, genl, leaked, orphan, late, fault>> /\ Ok
  BY DEF ExitKill, KillNext, ModAt
<1>2. mod = "x_linkops"
  BY DEF ExitKill, KillNext, ModAt, DeviceInv, RtnlInv
<1>3. \/ /\ UNCHANGED <<mod, has>>
         /\ \/ rtnl = RtnlIdle /\ rtnl' = [op |-> "kill", pc |-> "next", br |-> Null]
            \/ \E b \in Bridges : /\ bridge[b] = "up"
                                  /\ rtnl' \in RtnlState
                                  /\ rtnl'.op = "kill" /\ rtnl'.pc = "ports" /\ rtnl'.br = b
      \/ /\ mod' = "x_todo" /\ has' = has \ {"linkops"} /\ rtnl' = RtnlIdle
         /\ \A b \in Bridges : bridge[b] \notin {"setup", "up"}
  <2>1. CASE ExitKill
    BY <2>1 DEF ExitKill
  <2>2. CASE KillNext
    <3>1. ASSUME NEW b \in Bridges, rtnl' = [rtnl EXCEPT !.pc = "ports", !.br = b]
          PROVE  /\ rtnl' \in RtnlState
                 /\ rtnl'.op = rtnl.op /\ rtnl'.pc = "ports" /\ rtnl'.br = b
      BY <3>1 DEF DeviceInv, TypeOK, RtnlState
    <3>2. rtnl.op = "kill" /\ \A b \in Bridges : bridge[b] # "setup"
      BY <2>2 DEF KillNext, DeviceInv, RtnlInv
    <3>. QED  BY <2>2, <3>1, <3>2 DEF KillNext
  <2>. QED  BY <2>1, <2>2
<1>4. rtnl = RtnlIdle \/ (rtnl.pc = "next" /\ rtnl.br = Null)
  BY DEF ExitKill, KillNext, DeviceInv, RtnlInv
<1>5. LoadInv'
  BY <1>1, <1>2, <1>3 DEF DeviceInv, LoadInv, Inhabited, Serving
<1>6. RtnlInv'
  BY <1>1, <1>2, <1>3, <1>4 DEF DeviceInv, RtnlInv, RtnlIdle
<1>7. BridgesInv'
  BY <1>1, <1>2, <1>3 DEF DeviceInv, BridgesInv, Inhabited, Serving
<1>8. SlavesInv'
  BY <1>1, <1>3, DeviceAssumption DEF DeviceInv, SlavesInv, RtnlIdle
<1>9. WorkInv'
  BY <1>1, <1>3, DeviceAssumption DEF DeviceInv, WorkInv, RtnlIdle, TypeOK
<1>10. PendInv' /\ LifeCrashCauses'
  BY <1>1, Undisturbed DEF Ok
<1>11. HandlerInv'
  BY <1>1, <1>3, HandlerInvKept
<1>12. TypeOK'
  <2>1. rtnl' \in RtnlState /\ mod' \in ModState /\ has' \subseteq Registrations
    BY <1>3, IdleTyped DEF DeviceInv, TypeOK, RtnlState, ModState
  <2>. QED  BY <1>1, <1>11, <2>1, TypesSuffice DEF DeviceInv, TypeOK
<1>. QED  BY <1>5, <1>6, <1>7, <1>8, <1>9, <1>10, <1>11, <1>12 DEF DeviceInv

-----------------------------------------------------------------------------
(* Creating bridges                                                         *)

LEMMA RtnlToTyped ==
    ASSUME TypeOK, NEW pc \in {"vlan", "fdb", "register", "undo_fdb", "free", "next",
                               "ports", "table", "unregister"},
           RtnlTo(pc)
    PROVE  rtnl' \in RtnlState /\ rtnl'.pc = pc /\ rtnl'.op = rtnl.op /\ rtnl'.br = rtnl.br
  BY DEF TypeOK, RtnlTo, RtnlState

\* A bridge that is being set up has nothing that points to it.
LEMMA NothingInSetup ==
    ASSUME DeviceInv, NEW b \in Bridges, bridge[b] \in {"none", "setup"}
    PROVE  /\ \A d \in Devs : dev[d].master # b
           /\ b \notin genl.holds
           /\ bridge[b] = "none" => b \notin work
           /\ ~late => pend[b] = {}
  BY DeviceAssumption DEF DeviceInv, SlavesInv, HandlerInv, WorkInv, PendInv

LEMMA NewlinkStep ==
    ASSUME DeviceInv, NEW b \in Bridges, Newlink(b)
    PROVE  DeviceInv'
<1>1. bridge[b] = "none" /\ "linkops" \in has /\ rtnl = RtnlIdle /\ Ok
  BY DEF Newlink, RtnlAt, DeviceInv, RtnlInv
<1>2. CASE ~Loaded /\ Faulted("freed")
  BY <1>1, <1>2, FaultChangesNothing DEF DeviceInv, LoadInv, Loaded, Serving
<1>3. CASE /\ rtnl' = [op |-> "newlink", pc |-> "vlan", br |-> b]
           /\ bridge' = [bridge EXCEPT ![b] = "setup"]
           /\ UNCHANGED <<work, pend, fixed>>
  <2>1. UNCHANGED <<mod, has, work, pend, dev, genl, leaked, orphan, late, fault>>
    BY <1>3 DEF fixed
  <2>2. /\ bridge' \in [Bridges -> {"none", "setup", "up", "dying", "drained"}]
        /\ bridge'[b] = "setup" /\ \A a \in Bridges \ {b} : bridge'[a] = bridge[a]
    BY <1>3 DEF DeviceInv, TypeOK
  <2>3. LoadInv' /\ LifeCrashCauses'
    BY <1>1, <2>1, Undisturbed DEF Ok
  <2>4. RtnlInv'
    BY <1>1, <1>3, <2>1, <2>2 DEF DeviceInv, RtnlInv, RtnlIdle
  <2>5. BridgesInv'
    BY <1>1, <2>1, <2>2 DEF DeviceInv, BridgesInv, LoadInv, Inhabited
  <2>6. SlavesInv'
    BY <1>1, <1>3, <2>1, <2>2, NothingInSetup, Typed
    DEF DeviceInv, SlavesInv, RtnlIdle, DevState
  <2>7. PendInv'
    BY <1>1, <2>1, <2>2 DEF DeviceInv, PendInv
  <2>8. WorkInv'
    BY <1>1, <1>3, <2>1, <2>2, NothingInSetup DEF DeviceInv, WorkInv, TypeOK
  <2>9. HandlerInv'
    BY <1>1, <2>1, <2>2, NothingInSetup DEF DeviceInv, HandlerInv, GenlIdle
  <2>10. TypeOK'
    BY <1>3, <2>1, <2>2, <2>9, TypesSuffice DEF DeviceInv, TypeOK, RtnlState
  <2>. QED  BY <2>3, <2>4, <2>5, <2>6, <2>7, <2>8, <2>9, <2>10 DEF DeviceInv
<1>. QED  BY <1>2, <1>3 DEF Newlink

\* The steps that leave the bridge in setup.
LEMMA SetupStep ==
    ASSUME DeviceInv,
           NewlinkVlan \/ NewlinkFdb \/ NewlinkUndoFdb \/ (NewlinkRegister /\ RtnlTo("undo_fdb"))
    PROVE  DeviceInv'
<1>1. UNCHANGED <<mod, has, bridge, pend, dev, genl, leaked, orphan, late, fault>> /\ Ok
  <2>1. ASSUME NewlinkRegister, RtnlTo("undo_fdb") PROVE UNCHANGED bridge
    BY <2>1 DEF NewlinkRegister, RtnlTo, RtnlIdle, RtnlAt, DeviceInv, TypeOK, RtnlState
  <2>. QED
    BY <2>1 DEF fixed, NewlinkVlan, NewlinkFdb, NewlinkUndoFdb, NewlinkRegister, RtnlAt
<1>2. /\ rtnl.op = "newlink" /\ rtnl.br \in Bridges /\ bridge[rtnl.br] = "setup"
      /\ rtnl # RtnlIdle
  BY DEF NewlinkVlan, NewlinkFdb, NewlinkUndoFdb, NewlinkRegister, RtnlAt, DeviceInv, RtnlInv,
         RtnlIdle
<1>3. \E pc \in {"fdb", "register", "undo_fdb", "free"} :
         /\ RtnlTo(pc)
         /\ pc \in {"fdb", "free"} => work' \subseteq work /\ rtnl.br \notin work'
         /\ pc \in {"register", "undo_fdb"} => work' \subseteq work \cup {rtnl.br}
  BY <1>2 DEF NewlinkVlan, NewlinkFdb, NewlinkUndoFdb, NewlinkRegister, RtnlAt, DeviceInv, WorkInv
<1>4. /\ rtnl' \in RtnlState /\ rtnl'.op = "newlink" /\ rtnl'.br = rtnl.br
      /\ rtnl'.pc \in {"fdb", "register", "undo_fdb", "free"}
      /\ work' \subseteq work \cup {rtnl.br}
      /\ rtnl.br \in work' => rtnl'.pc \in {"register", "undo_fdb"}
  <2>1. PICK pc \in {"fdb", "register", "undo_fdb", "free"} :
         /\ RtnlTo(pc)
         /\ pc \in {"fdb", "free"} => work' \subseteq work /\ rtnl.br \notin work'
         /\ pc \in {"register", "undo_fdb"} => work' \subseteq work \cup {rtnl.br}
    BY <1>3
  <2>2. rtnl' \in RtnlState /\ rtnl'.pc = pc /\ rtnl'.op = rtnl.op /\ rtnl'.br = rtnl.br
    BY <2>1, RtnlToTyped DEF DeviceInv
  <2>. QED  BY <1>2, <2>1, <2>2
<1>5. LoadInv' /\ BridgesInv' /\ PendInv' /\ HandlerInv' /\ LifeCrashCauses'
  BY <1>1, Undisturbed DEF Ok
<1>6. RtnlInv'
  BY <1>1, <1>2, <1>4 DEF DeviceInv, RtnlInv, RtnlIdle
<1>7. SlavesInv'
  BY <1>1, <1>2, <1>4 DEF DeviceInv, SlavesInv
<1>8. WorkInv'
  BY <1>1, <1>2, <1>4 DEF DeviceInv, WorkInv
<1>9. TypeOK'
  BY <1>1, <1>2, <1>4, <1>5, TypesSuffice DEF DeviceInv, TypeOK
<1>. QED  BY <1>5, <1>6, <1>7, <1>8, <1>9 DEF DeviceInv

\* The bridge is registered, or its memory given back.
LEMMA SetupEnds ==
    ASSUME DeviceInv, NewlinkFree \/ (NewlinkRegister /\ ~RtnlTo("undo_fdb"))
    PROVE  DeviceInv'
<1>1. UNCHANGED <<mod, has, work, pend, dev, genl, leaked, orphan, late, fault>> /\ Ok
  BY DEF fixed, NewlinkFree, NewlinkRegister, RtnlAt
<1>2. /\ rtnl.op = "newlink" /\ rtnl.br \in Bridges /\ bridge[rtnl.br] = "setup"
      /\ rtnl.pc \in {"free", "register"} /\ rtnl' = RtnlIdle
  BY DEF NewlinkFree, NewlinkRegister, RtnlAt, DeviceInv, RtnlInv, RtnlIdle
<1>3. PICK b \in Bridges : b = rtnl.br
  BY <1>2
<1>4. /\ bridge' \in [Bridges -> {"none", "setup", "up", "dying", "drained"}]
      /\ \A a \in Bridges \ {b} : bridge'[a] = bridge[a]
      /\ bridge'[b] = IF rtnl.pc = "free" THEN "none" ELSE "up"
  BY <1>3 DEF NewlinkFree, NewlinkRegister, RtnlAt, DeviceInv, TypeOK
<1>5. LoadInv' /\ LifeCrashCauses'
  BY <1>1, Undisturbed DEF Ok
<1>6. RtnlInv'
  BY <1>1, <1>2, <1>3, <1>4 DEF DeviceInv, RtnlInv, RtnlIdle
<1>7. BridgesInv'
  BY <1>1, <1>2, <1>3, <1>4 DEF DeviceInv, BridgesInv, Inhabited
<1>8. SlavesInv'
  BY <1>1, <1>2, <1>3, <1>4, NothingInSetup, Typed DEF DeviceInv, SlavesInv, RtnlIdle, DevState
<1>9. PendInv'
  BY <1>1, <1>2, <1>3, <1>4 DEF DeviceInv, PendInv
<1>10. WorkInv'
  BY <1>1, <1>2, <1>3, <1>4, DeviceAssumption DEF DeviceInv, WorkInv, RtnlIdle, TypeOK
<1>11. HandlerInv'
  BY <1>1, <1>2, <1>3, <1>4, NothingInSetup DEF DeviceInv, HandlerInv, GenlIdle
<1>12. TypeOK'
  BY <1>1, <1>2, <1>4, <1>11, TypesSuffice, IdleTyped DEF DeviceInv, TypeOK
<1>. QED  BY <1>5, <1>6, <1>7, <1>8, <1>9, <1>10, <1>11, <1>12 DEF DeviceInv

-----------------------------------------------------------------------------
(* Deleting bridges                                                         *)

LEMMA DellinkStep ==
    ASSUME DeviceInv, NEW b \in Bridges, Dellink(b)
    PROVE  DeviceInv'
<1>1. bridge[b] = "up" /\ rtnl = RtnlIdle /\ Ok
  BY DEF Dellink, RtnlAt, DeviceInv, RtnlInv
<1>2. CASE ~Loaded /\ Faulted("freed")
  BY <1>1, <1>2, FaultChangesNothing DEF DeviceInv, BridgesInv, Loaded, Serving
<1>3. CASE /\ rtnl' = [op |-> "dellink", pc |-> "ports", br |-> b]
           /\ UNCHANGED <<bridge, work, pend, fixed>>
  <2>1. UNCHANGED <<mod, has, bridge, work, pend, dev, genl, leaked, orphan, late, fault>>
    BY <1>3 DEF fixed
  <2>2. LoadInv' /\ BridgesInv' /\ PendInv' /\ HandlerInv' /\ LifeCrashCauses'
    BY <1>1, <2>1, Undisturbed DEF Ok
  <2>3. RtnlInv'
    BY <1>1, <1>3, <2>1 DEF DeviceInv, RtnlInv, RtnlIdle
  <2>4. SlavesInv'
    BY <1>3, <2>1 DEF DeviceInv, SlavesInv
  <2>5. WorkInv'
    BY <1>3, <2>1 DEF DeviceInv, WorkInv
  <2>6. TypeOK'
    BY <1>3, <2>1, <2>2, TypesSuffice DEF DeviceInv, TypeOK, RtnlState
  <2>. QED  BY <2>2, <2>3, <2>4, <2>5, <2>6 DEF DeviceInv
<1>. QED  BY <1>2, <1>3 DEF Dellink

LEMMA DellinkPortsStep ==
    ASSUME DeviceInv, DellinkPorts
    PROVE  DeviceInv'
<1>1. UNCHANGED <<mod, has, bridge, work, genl, leaked, orphan, late, fault>> /\ Ok
  BY DEF DellinkPorts, RtnlAt
<1>2. /\ rtnl.pc = "ports" /\ rtnl.op \in {"dellink", "kill"}
      /\ rtnl.br \in Bridges /\ bridge[rtnl.br] = "up"
  BY DEF DellinkPorts, RtnlAt, DeviceInv, RtnlInv
<1>3. rtnl' \in RtnlState /\ rtnl'.pc = "table" /\ rtnl'.op = rtnl.op /\ rtnl'.br = rtnl.br
  BY RtnlToTyped DEF DellinkPorts, DeviceInv
<1>4. PICK b \in Bridges : b = rtnl.br
  BY <1>2
<1>5. /\ dev' \in [Devs -> DevState]
      /\ \A d \in Devs : /\ dev'[d].life = dev[d].life
                         /\ dev[d].master = b => dev'[d].master = Null
                         /\ dev[d].master # b => dev'[d] = dev[d]
  BY <1>4, Released DEF DellinkPorts, DeviceInv, Slaves
<1>6. /\ pend' \in [Bridges -> SUBSET {"port", "node", "vlan"}]
      /\ \A a \in Bridges \ {b} : pend'[a] = pend[a]
  BY <1>4 DEF DellinkPorts, DeviceInv, TypeOK
<1>7. LoadInv' /\ BridgesInv' /\ LifeCrashCauses'
  BY <1>1, Undisturbed DEF Ok
<1>8. RtnlInv'
  BY <1>1, <1>2, <1>3 DEF DeviceInv, RtnlInv, RtnlIdle
<1>9. SlavesInv'
  BY <1>1, <1>3, <1>4, <1>5 DEF DeviceInv, SlavesInv
<1>10. PendInv'
  BY <1>1, <1>2, <1>4, <1>6 DEF DeviceInv, PendInv
<1>11. WorkInv'
  BY <1>1, <1>3 DEF DeviceInv, WorkInv
<1>12. HandlerInv'
  BY <1>1, <1>5, HandlerInvKept
<1>13. TypeOK'
  BY <1>1, <1>3, <1>5, <1>6, <1>12, TypesSuffice DEF DeviceInv, TypeOK
<1>. QED  BY <1>7, <1>8, <1>9, <1>10, <1>11, <1>12, <1>13 DEF DeviceInv

LEMMA DellinkTableStep ==
    ASSUME DeviceInv, DellinkTable
    PROVE  DeviceInv'
<1>1. UNCHANGED <<mod, has, bridge, dev, genl, leaked, orphan, late, fault>> /\ Ok
  BY DEF DellinkTable, RtnlAt, fixed
<1>2. /\ rtnl.pc = "table" /\ rtnl.op \in {"dellink", "kill"}
      /\ rtnl.br \in Bridges /\ bridge[rtnl.br] = "up"
  BY DEF DellinkTable, RtnlAt, DeviceInv, RtnlInv
<1>3. rtnl' \in RtnlState /\ rtnl'.pc = "unregister" /\ rtnl'.op = rtnl.op /\ rtnl'.br = rtnl.br
  BY RtnlToTyped DEF DellinkTable, DeviceInv
<1>4. PICK b \in Bridges : b = rtnl.br
  BY <1>2
<1>5. /\ pend' \in [Bridges -> SUBSET {"port", "node", "vlan"}]
      /\ \A a \in Bridges \ {b} : pend'[a] = pend[a]
  BY <1>4 DEF DellinkTable, DeviceInv, TypeOK
<1>6. work' = work \ {b}
  BY <1>4 DEF DellinkTable
<1>7. LoadInv' /\ BridgesInv' /\ HandlerInv' /\ LifeCrashCauses'
  BY <1>1, Undisturbed DEF Ok
<1>8. RtnlInv'
  BY <1>1, <1>2, <1>3 DEF DeviceInv, RtnlInv, RtnlIdle
<1>9. SlavesInv'
  BY <1>1, <1>2, <1>3 DEF DeviceInv, SlavesInv
<1>10. PendInv'
  BY <1>1, <1>2, <1>4, <1>5 DEF DeviceInv, PendInv
<1>11. WorkInv'
  BY <1>1, <1>3, <1>4, <1>6 DEF DeviceInv, WorkInv
<1>12. TypeOK'
  BY <1>1, <1>3, <1>5, <1>6, <1>7, TypesSuffice DEF DeviceInv, TypeOK
<1>. QED  BY <1>7, <1>8, <1>9, <1>10, <1>11, <1>12 DEF DeviceInv

LEMMA DellinkUnregisterStep ==
    ASSUME DeviceInv, DellinkUnregister
    PROVE  DeviceInv'
<1>1. UNCHANGED <<mod, has, work, pend, dev, genl, leaked, orphan, late, fault>> /\ Ok
  BY DEF DellinkUnregister, RtnlAt, fixed
<1>2. /\ rtnl.pc = "unregister" /\ rtnl.op \in {"dellink", "kill"}
      /\ rtnl.br \in Bridges /\ bridge[rtnl.br] = "up"
  BY DEF DellinkUnregister, RtnlAt, DeviceInv, RtnlInv
<1>3. PICK b \in Bridges : b = rtnl.br
  BY <1>2
<1>4. /\ bridge' \in [Bridges -> {"none", "setup", "up", "dying", "drained"}]
      /\ bridge'[b] = "dying" /\ \A a \in Bridges \ {b} : bridge'[a] = bridge[a]
  BY <1>3 DEF DellinkUnregister, DeviceInv, TypeOK
<1>5. /\ rtnl' \in RtnlState /\ rtnl'.br = Null
      /\ \/ rtnl' = RtnlIdle
         \/ rtnl.op = "kill" /\ rtnl'.op = "kill" /\ rtnl'.pc = "next"
  <2>1. CASE rtnl.op = "kill"
    BY <2>1 DEF DellinkUnregister, DeviceInv, TypeOK, RtnlState
  <2>2. CASE rtnl.op # "kill"
    BY <2>2, IdleTyped DEF DellinkUnregister, RtnlIdle
  <2>. QED  BY <2>1, <2>2
<1>6. LoadInv' /\ LifeCrashCauses'
  BY <1>1, Undisturbed DEF Ok
<1>7. RtnlInv'
  BY <1>1, <1>2, <1>3, <1>4, <1>5 DEF DeviceInv, RtnlInv, RtnlIdle
<1>8. BridgesInv'
  BY <1>1, <1>2, <1>3, <1>4 DEF DeviceInv, BridgesInv, Inhabited
<1>9. SlavesInv'
  BY <1>1, <1>2, <1>3, <1>4, <1>5, Typed, DeviceAssumption DEF DeviceInv, SlavesInv, DevState
<1>10. PendInv'
  BY <1>1, <1>2, <1>3, <1>4 DEF DeviceInv, PendInv
<1>11. WorkInv'
  BY <1>1, <1>2, <1>3, <1>4, <1>5, DeviceAssumption DEF DeviceInv, WorkInv, TypeOK
<1>12. HandlerInv'
  BY <1>1, <1>3, <1>4 DEF DeviceInv, HandlerInv, GenlIdle
<1>13. TypeOK'
  BY <1>1, <1>4, <1>5, <1>12, TypesSuffice DEF DeviceInv, TypeOK
<1>. QED  BY <1>6, <1>7, <1>8, <1>9, <1>10, <1>11, <1>12, <1>13 DEF DeviceInv

\* netdev_run_todo: the barrier, and the memory goes once nobody holds it.
LEMMA TodoKeeps ==
    ASSUME DeviceInv, NEW b \in Bridges, TodoStep(b)
    PROVE  DeviceInv'
<1>1. UNCHANGED <<mod, has, work, pend, dev, rtnl, leaked, orphan, late, fault>> /\ Ok
  BY DEF TodoStep, BridgeBarrier, BridgeFree, fixed
<1>2. /\ bridge' \in [Bridges -> {"none", "setup", "up", "dying", "drained"}]
      /\ \A a \in Bridges \ {b} : bridge'[a] = bridge[a]
      /\ \/ bridge[b] = "dying" /\ bridge'[b] = "drained" /\ pend[b] = {}
         \/ bridge[b] = "drained" /\ bridge'[b] = "none" /\ b \notin genl.holds
  BY DEF TodoStep, BridgeBarrier, BridgeFree, Referenced, DeviceInv, TypeOK
<1>3. /\ genl' \in GenlState /\ genl'.pc = genl.pc /\ genl'.port = genl.port
      /\ genl'.holds = genl.holds
      /\ genl = GenlIdle => genl' = GenlIdle
  <2>1. genl \in GenlState
    BY DEF DeviceInv, TypeOK
  <2>2. CASE UNCHANGED genl
    BY <2>1, <2>2
  <2>3. CASE genl.br = b /\ genl' = [genl EXCEPT !.dangling = TRUE]
    <3>1. genl # GenlIdle
      BY <2>3, DeviceAssumption DEF GenlIdle
    <3>. QED  BY <2>1, <2>3, <3>1 DEF GenlState
  <2>. QED  BY <2>2, <2>3 DEF TodoStep, BridgeBarrier, BridgeFree, fixed
<1>4. LoadInv' /\ LifeCrashCauses'
  BY <1>1, Undisturbed DEF Ok
<1>5. RtnlInv'
  BY <1>1, <1>2 DEF DeviceInv, RtnlInv, RtnlIdle
<1>6. BridgesInv'
  BY <1>1, <1>2 DEF DeviceInv, BridgesInv
<1>7. SlavesInv'
  BY <1>1, <1>2, Typed DEF DeviceInv, SlavesInv, DevState
<1>8. PendInv'
  BY <1>1, <1>2 DEF DeviceInv, PendInv
<1>9. WorkInv'
  BY <1>1, <1>2 DEF DeviceInv, WorkInv, TypeOK
<1>10. HandlerInv'
  BY <1>1, <1>2, <1>3 DEF DeviceInv, HandlerInv
<1>11. TypeOK'
  BY <1>1, <1>2, <1>3, <1>10, TypesSuffice DEF DeviceInv, TypeOK
<1>. QED  BY <1>4, <1>5, <1>6, <1>7, <1>8, <1>9, <1>10, <1>11 DEF DeviceInv

-----------------------------------------------------------------------------
(* Enslaved devices                                                         *)

LEMMA EnslaveStep ==
    ASSUME DeviceInv, NEW b \in Bridges, NEW d \in Devs, Enslave(b, d)
    PROVE  DeviceInv'
<1>1. bridge[b] = "up" /\ rtnl = RtnlIdle /\ Ok /\ dev[d].life = "present"
  BY DEF Enslave, RtnlAt, DeviceInv, RtnlInv
<1>2. CASE ~Loaded /\ Faulted("freed")
  BY <1>1, <1>2, FaultChangesNothing DEF DeviceInv, BridgesInv, Loaded, Inhabited, Serving
<1>3. CASE dev' = [dev EXCEPT ![d].master = b]
           /\ UNCHANGED <<mod, has, bridge, work, pend, rtnl, genl, leaked, orphan, late, fault>>
  <2>1. /\ dev' \in [Devs -> DevState]
        /\ dev'[d].master = b /\ dev'[d].life = "present"
        /\ \A c \in Devs \ {d} : dev'[c] = dev[c]
    BY <1>1, <1>3, Typed DEF DeviceInv, TypeOK, DevState
  <2>2. LoadInv' /\ RtnlInv' /\ BridgesInv' /\ PendInv' /\ WorkInv' /\ LifeCrashCauses'
    BY <1>1, <1>3, Undisturbed DEF Ok
  <2>3. SlavesInv'
    BY <1>1, <1>3, <2>1, DeviceAssumption DEF DeviceInv, SlavesInv, RtnlIdle
  <2>4. \A c \in Devs : dev'[c].life = dev[c].life
    BY <1>1, <2>1
  <2>5. HandlerInv'
    BY <1>3, <2>4, HandlerInvKept
  <2>6. TypeOK'
    BY <1>3, <2>1, <2>5, TypesSuffice DEF DeviceInv, TypeOK
  <2>. QED  BY <2>2, <2>3, <2>5, <2>6 DEF DeviceInv
<1>. QED  BY <1>2, <1>3 DEF Enslave

LEMMA UnregisterDevStep ==
    ASSUME DeviceInv, NEW d \in Devs, UnregisterDev(d)
    PROVE  DeviceInv'
<1>1. /\ UNCHANGED <<mod, has, bridge, work, rtnl, genl, leaked, orphan, late, fault>>
      /\ Ok /\ dev[d].life = "present"
  BY DEF UnregisterDev, RtnlAt
<1>2. /\ dev[d].master \in Bridges \cup {Null}
      /\ dev[d].master # Null =>
            bridge[dev[d].master] = "up" /\ ("notifier" \in has \/ orphan)
  BY Typed DEF DeviceInv, SlavesInv, BridgesInv, LoadInv, DevState
<1>3. /\ dev' \in [Devs -> DevState] /\ dev'[d].life = "dying"
      /\ dev'[d].master \in {Null, dev[d].master}
      /\ dev'[d].master # Null => orphan
      /\ \A c \in Devs \ {d} : dev'[c] = dev[c]
  BY <1>2 DEF UnregisterDev, DeviceInv, TypeOK, DevState
<1>4. /\ pend' \in [Bridges -> SUBSET {"port", "node", "vlan"}]
      /\ \A a \in Bridges : bridge[a] # "up" => pend'[a] = pend[a]
  BY <1>2 DEF UnregisterDev, DeviceInv, TypeOK
<1>5. LoadInv' /\ RtnlInv' /\ BridgesInv' /\ WorkInv' /\ LifeCrashCauses'
  BY <1>1, Undisturbed DEF Ok
<1>6. SlavesInv'
  BY <1>1, <1>3 DEF DeviceInv, SlavesInv
<1>7. PendInv'
  BY <1>1, <1>4 DEF DeviceInv, PendInv
<1>8. HandlerInv'
  <2>1. \A c \in Devs : dev'[c].life = dev[c].life \/ dev'[c].life \in {"present", "dying"}
    BY <1>3
  <2>. QED  BY <1>1, <2>1, HandlerInvKept
<1>9. TypeOK'
  BY <1>1, <1>3, <1>4, <1>8, TypesSuffice DEF DeviceInv, TypeOK
<1>. QED  BY <1>5, <1>6, <1>7, <1>8, <1>9 DEF DeviceInv

LEMMA DevFreeStep ==
    ASSUME DeviceInv, NEW d \in Devs, DevFree(d)
    PROVE  DeviceInv'
<1>1. /\ UNCHANGED <<mod, has, bridge, work, pend, rtnl, genl, leaked, orphan, late, fault>>
      /\ Ok /\ dev[d].master = Null /\ d \notin genl.holds
  BY DEF DevFree, Referenced
<1>2. /\ dev' \in [Devs -> DevState] /\ dev'[d].master = Null
      /\ \A c \in Devs \ {d} : dev'[c] = dev[c]
  BY <1>1, Typed DEF DevFree, DeviceInv, TypeOK, DevState
<1>3. LoadInv' /\ RtnlInv' /\ BridgesInv' /\ PendInv' /\ WorkInv' /\ LifeCrashCauses'
  BY <1>1, Undisturbed DEF Ok
<1>4. SlavesInv'
  BY <1>1, <1>2 DEF DeviceInv, SlavesInv
<1>5. HandlerInv'
  <2>1. \A o \in genl.holds : o \in Bridges \cup Devs
    BY DEF DeviceInv, TypeOK, GenlState
  <2>. QED  BY <1>1, <1>2, <2>1 DEF DeviceInv, HandlerInv, GenlIdle
<1>6. TypeOK'
  BY <1>1, <1>2, <1>5, TypesSuffice DEF DeviceInv, TypeOK
<1>. QED  BY <1>3, <1>4, <1>5, <1>6 DEF DeviceInv

-----------------------------------------------------------------------------
(* Callbacks and the ageing work                                            *)

LEMMA PendingSafe ==
    ASSUME DeviceInv
    PROVE  PendingIsSafe
<1>. SUFFICES ASSUME ~orphan, ~late, NEW b \in Bridges
              PROVE  /\ \A kind \in pend[b] : CallbackNeeds(b, kind)
                     /\ b \in work => WorkNeeds(b)
  BY DEF PendingIsSafe
<1>1. bridge[b] # "none" => Loaded /\ "cache" \in has
  BY DEF DeviceInv, BridgesInv, LoadInv, Loaded, Inhabited, Serving
<1>2. pend[b] # {} => bridge[b] # "none"
  BY DEF DeviceInv, PendInv
<1>3. b \in work => bridge[b] \in {"setup", "up"}
  BY DEF DeviceInv, WorkInv
<1>. QED  BY <1>1, <1>2, <1>3 DEF CallbackNeeds, WorkNeeds

LEMMA CallbackStep ==
    ASSUME DeviceInv, NEW b \in Bridges, AgeWork(b) \/ Callbacks(b)
    PROVE  DeviceInv'
<1>1. CASE Faulted("freed") /\ (orphan \/ late)
  BY <1>1, FaultChangesNothing
<1>2. CASE UNCHANGED <<bridge, work, rtnl, fixed>> /\ Ok
           /\ pend' \in [Bridges -> SUBSET {"port", "node", "vlan"}]
           /\ \A a \in Bridges : pend'[a] = pend[a] \/ pend'[a] \subseteq pend[a]
                                                    \/ bridge[a] = "up"
  <2>1. UNCHANGED <<mod, has, bridge, work, dev, rtnl, genl, leaked, orphan, late, fault>>
    BY <1>2 DEF fixed
  <2>2. /\ LoadInv' /\ RtnlInv' /\ BridgesInv' /\ SlavesInv' /\ WorkInv' /\ HandlerInv'
        /\ LifeCrashCauses'
    BY <1>2, <2>1, Undisturbed DEF Ok
  <2>3. PendInv'
    BY <1>2, <2>1 DEF DeviceInv, PendInv
  <2>4. TypeOK'
    BY <1>2, <2>1, <2>2, TypesSuffice DEF DeviceInv, TypeOK
  <2>. QED  BY <2>2, <2>3, <2>4 DEF DeviceInv
<1>3. CASE AgeWork(b)
  BY <1>1, <1>2, <1>3, PendingSafe DEF AgeWork, PendingIsSafe, DeviceInv, TypeOK
<1>4. ASSUME NEW kind \in {"port", "node", "vlan"}, Callback(b, kind)
      PROVE  DeviceInv'
  BY <1>1, <1>2, <1>4, PendingSafe DEF Callback, PendingIsSafe, DeviceInv, TypeOK
<1>. QED  BY <1>3, <1>4 DEF Callbacks

-----------------------------------------------------------------------------
(* Generic netlink handlers                                                 *)

\* What is left to show for a step that only moves a handler.
LEMMA HandlerMoves ==
    ASSUME DeviceInv, Ok, UNCHANGED <<mod, has, bridge, work, pend, dev, rtnl, orphan, late, fault>>,
           leaked' \subseteq Bridges \cup Devs, genl' \in GenlState,
           genl' # GenlIdle => "family" \in has,
           genl'.pc # "port",
           \A o \in genl'.holds :
              \/ o \in genl.holds
              \/ o \in Bridges /\ bridge[o] = "up"
              \/ o \notin Bridges /\ dev[o].life = "present"
    PROVE  DeviceInv'
<1>1. /\ LoadInv' /\ RtnlInv' /\ BridgesInv' /\ SlavesInv' /\ PendInv' /\ WorkInv'
      /\ LifeCrashCauses'
  BY Undisturbed DEF Ok
<1>2. HandlerInv'
  BY DEF DeviceInv, HandlerInv, GenlIdle
<1>3. TypeOK'
  BY <1>2, TypesSuffice DEF DeviceInv, TypeOK
<1>. QED  BY <1>1, <1>2, <1>3 DEF DeviceInv

\* A handler finds its bridge.
LEMMA FindStep ==
    ASSUME DeviceInv, NEW op \in {"vlan", "member", "stub"}, NEW pc \in {"put", "port"},
           NEW b \in Bridges, NEW o \in Bridges \cup Devs \cup {Null},
           pc = "port" => o # Null,
           Find(op, pc, b, o)
    PROVE  DeviceInv'
<1>1. /\ Ok /\ "family" \in has /\ bridge[b] = "up"
      /\ UNCHANGED <<mod, has, bridge, work, pend, dev, rtnl, leaked, orphan, late, fault>>
  BY DEF Find, GenlFree, NetlinkDev, quiet
<1>2. genl' = [op |-> op, pc |-> pc, br |-> b, port |-> o, holds |-> {b}, dangling |-> FALSE]
  BY DEF Find, GenlIdle
<1>3. genl' \in GenlState
  BY <1>2 DEF GenlState
<1>4. HandlerInv'
  BY <1>1, <1>2 DEF HandlerInv
<1>5. /\ LoadInv' /\ RtnlInv' /\ BridgesInv' /\ SlavesInv' /\ PendInv' /\ WorkInv'
      /\ LifeCrashCauses'
  BY <1>1, Undisturbed DEF Ok
<1>6. TypeOK'
  BY <1>1, <1>3, <1>4, TypesSuffice DEF DeviceInv, TypeOK
<1>. QED  BY <1>4, <1>5, <1>6 DEF DeviceInv

LEMMA SetCmdStep ==
    ASSUME DeviceInv, NEW b \in Bridges, NEW o \in Named, SetCmd(b, o)
    PROVE  DeviceInv'
<1>1. /\ Ok /\ "family" \in has
      /\ UNCHANGED <<mod, has, bridge, work, pend, dev, rtnl, orphan, late, fault>>
      /\ leaked' \subseteq Bridges \cup Devs
  BY DeviceAssumption DEF SetCmd, GenlFree, quiet, DeviceInv, TypeOK
<1>2. CASE genl' = GenlIdle
  <2>1. genl' \in GenlState /\ genl'.pc # "port" /\ genl'.holds = {}
    BY <1>2, IdleTyped DEF GenlIdle
  <2>. QED  BY <1>1, <1>2, <2>1, HandlerMoves
<1>3. CASE /\ NetlinkDev(b)
           /\ genl' = [GenlIdle EXCEPT !.op = "set", !.pc = "put", !.br = b, !.holds = {b}]
  <2>1. genl' \in GenlState /\ genl'.pc # "port" /\ genl'.holds = {b}
    BY <1>3 DEF GenlIdle, GenlState
  <2>. QED  BY <1>1, <1>3, <2>1, HandlerMoves DEF NetlinkDev
<1>. QED  BY <1>2, <1>3 DEF SetCmd

LEMMA HandlerStepKeeps ==
    ASSUME DeviceInv, HandlerStep
    PROVE  DeviceInv'
<1>1. genl \in GenlState /\ genl # GenlIdle /\ "family" \in has /\ Ok
  BY DEF DeviceInv, TypeOK, HandlerInv, GenlIdle, HandlerStep, MemberPort, Put, MemberFind, Use,
         Retire, GenlAt
<1>2. ASSUME genl' = GenlIdle, UNCHANGED <<pend, leaked, late, fault, quiet>>
      PROVE  DeviceInv'
  <2>1. genl' \in GenlState /\ genl'.pc # "port" /\ genl'.holds = {}
    BY <1>2, IdleTyped DEF GenlIdle
  <2>2. /\ UNCHANGED <<mod, has, bridge, work, pend, dev, rtnl, orphan, late, fault>>
        /\ leaked' \subseteq Bridges \cup Devs
    BY <1>2 DEF quiet, DeviceInv, TypeOK
  <2>. QED  BY <1>1, <1>2, <2>1, <2>2, HandlerMoves
<1>3. ASSUME genl' \in GenlState, genl'.pc # "port", UNCHANGED <<pend, leaked, late, fault, quiet>>,
             \A o \in genl'.holds : o \in genl.holds \/ (o \in Bridges \cup Devs /\ Listed(o))
      PROVE  DeviceInv'
  <2>1. /\ UNCHANGED <<mod, has, bridge, work, pend, dev, rtnl, orphan, late, fault>>
        /\ leaked' \subseteq Bridges \cup Devs
    BY <1>3 DEF quiet, DeviceInv, TypeOK
  <2>. QED  BY <1>1, <1>3, <2>1, HandlerMoves DEF Listed
<1>4. CASE MemberPort
  <2>1. genl.port \in Bridges \cup Devs
    BY <1>4 DEF MemberPort, GenlAt, DeviceInv, HandlerInv
  <2>2. ASSUME genl' = [genl EXCEPT !.pc = "put", !.holds = @ \cup {genl.port}]
        PROVE  genl' \in GenlState /\ genl'.pc = "put" /\ genl'.holds = genl.holds \cup {genl.port}
    BY <1>1, <2>1, <2>2 DEF GenlState
  <2>. QED  BY <1>2, <1>3, <1>4, <2>1, <2>2 DEF MemberPort
<1>5. CASE Put
  <2>1. ASSUME NEW pc \in {"use", "find"},
               genl' = [[genl EXCEPT !.holds = @ \ {genl.br}] EXCEPT !.pc = pc]
        PROVE  genl' \in GenlState /\ genl'.pc # "port" /\ genl'.holds \subseteq genl.holds
    BY <1>1, <2>1 DEF GenlState
  <2>. QED  BY <1>2, <1>3, <1>5, <2>1 DEF Put
<1>6. CASE MemberFind \/ Use
  <2>1. CASE genl.dangling /\ Faulted("uaf")
    BY <2>1, FaultChangesNothing
  <2>2. ASSUME GenlTo("retire")
        PROVE  genl' \in GenlState /\ genl'.pc # "port" /\ genl'.holds \subseteq genl.holds
    BY <1>1, <2>2 DEF GenlTo, GenlState
  <2>. QED  BY <1>2, <1>3, <1>6, <2>1, <2>2 DEF MemberFind, Use
<1>7. CASE Retire
  <2>1. UNCHANGED <<mod, has, bridge, work, dev, rtnl, leaked, orphan, fault>> /\ genl' = GenlIdle
    BY <1>7 DEF Retire, quiet
  <2>2. /\ pend' \in [Bridges -> SUBSET {"port", "node", "vlan"}] /\ late' \in BOOLEAN
        /\ late' => late \/ bridge[genl.br] # "up"
        /\ ~late' => ~late /\ bridge[genl.br] = "up"
        /\ \A a \in Bridges : a # genl.br => pend'[a] = pend[a]
    BY <1>7, Typed DEF Retire, DeviceInv, TypeOK
  <2>3. LoadInv' /\ RtnlInv' /\ BridgesInv' /\ SlavesInv' /\ WorkInv' /\ LifeCrashCauses'
    BY <1>1, <2>1, Undisturbed DEF Ok
  <2>4. PendInv'
    BY <2>1, <2>2 DEF DeviceInv, PendInv
  <2>5. HandlerInv'
    BY <2>1 DEF HandlerInv, GenlIdle
  <2>6. TypeOK'
    BY <2>1, <2>2, <2>5, TypesSuffice, IdleTyped DEF DeviceInv, TypeOK
  <2>. QED  BY <2>3, <2>4, <2>5, <2>6 DEF DeviceInv
<1>. QED  BY <1>4, <1>5, <1>6, <1>7 DEF HandlerStep

LEMMA CommandStep ==
    ASSUME DeviceInv, NEW b \in Named \cap Bridges,
           \/ VlanCmd(b) \/ StubCmd(b)
           \/ \E o \in Named : MemberCmd(b, o) \/ SetCmd(b, o)
    PROVE  DeviceInv'
<1>1. Named \subseteq Bridges \cup Devs /\ Null \notin Bridges \cup Devs
  BY DeviceAssumption
<1>2. CASE VlanCmd(b)
  BY <1>2, FindStep DEF VlanCmd
<1>3. CASE StubCmd(b)
  BY <1>3, FindStep, FaultChangesNothing DEF StubCmd
<1>4. ASSUME NEW o \in Named, MemberCmd(b, o) PROVE DeviceInv'
  BY <1>1, <1>4, FindStep DEF MemberCmd
<1>. QED  BY <1>2, <1>3, <1>4, SetCmdStep

-----------------------------------------------------------------------------
(* The theorems                                                             *)

LEMMA InitEstablishes ==
    ASSUME Init
    PROVE  DeviceInv
<1>1. TypeOK
  BY IdleTyped DEF Init, TypeOK, ModState, DevState, GenlIdle
<1>2. LoadInv /\ BridgesInv /\ PendInv /\ WorkInv /\ LifeCrashCauses
  BY DEF Init, LoadInv, BridgesInv, PendInv, WorkInv, LifeCrashCauses, Inhabited, Serving
<1>3. RtnlInv /\ SlavesInv /\ HandlerInv
  BY DEF Init, RtnlInv, SlavesInv, HandlerInv, RtnlIdle, GenlIdle
<1>. QED  BY <1>1, <1>2, <1>3 DEF DeviceInv

LEMMA InductiveStep ==
    ASSUME DeviceInv, [Next]_vars
    PROVE  DeviceInv'
<1>1. CASE UNCHANGED vars
  <2>1. /\ LoadInv' /\ RtnlInv' /\ BridgesInv' /\ SlavesInv' /\ PendInv' /\ WorkInv'
        /\ HandlerInv'
    BY <1>1, Undisturbed DEF vars
  <2>2. TypeOK'
    BY <1>1, <2>1, TypesSuffice DEF vars, DeviceInv, TypeOK
  <2>3. LifeCrashCauses'
    BY <1>1 DEF vars, DeviceInv, LifeCrashCauses
  <2>. QED  BY <2>1, <2>2, <2>3 DEF DeviceInv
<1>2. CASE Insmod \/ InitStep \/ ExitStart \/ ExitStep
  BY <1>2, LoadStep, InitFamilyStep, UnregisterNotifierStep, UnloadStep, KillStep
  DEF InitStep, InitUndo, ExitStep, ExitRest
<1>3. CASE RtnlStep
  BY <1>3, SetupStep, SetupEnds, DellinkPortsStep, DellinkTableStep, DellinkUnregisterStep,
     KillStep
  DEF RtnlStep
<1>4. CASE HandlerStep
  BY <1>4, HandlerStepKeeps
<1>5. ASSUME NEW b \in Bridges,
             \/ Newlink(b) \/ Dellink(b) \/ TodoStep(b) \/ AgeWork(b) \/ Callbacks(b)
             \/ \E d \in Devs : Enslave(b, d)
      PROVE  DeviceInv'
  BY <1>5, NewlinkStep, DellinkStep, TodoKeeps, CallbackStep, EnslaveStep
<1>6. ASSUME NEW d \in Devs, UnregisterDev(d) \/ DevFree(d)
      PROVE  DeviceInv'
  BY <1>6, UnregisterDevStep, DevFreeStep
<1>. QED  BY <1>1, <1>2, <1>3, <1>4, <1>5, <1>6, CommandStep DEF Next

\* Where the module, its bridges, its handlers and its callbacks are in their
\* lives goes together in every state.
THEOREM DeviceInvariance == Spec => []DeviceInv
<1>. QED  BY InitEstablishes, InductiveStep, PTL DEF Spec

\* Every variable keeps its type, and no net device is freed while a handler
\* refers to it, for any bridges, devices and requests.
THEOREM DeviceTypeCorrect == Spec => []TypeOK
<1>1. DeviceInv => TypeOK
  BY DEF DeviceInv
<1>. QED  BY <1>1, DeviceInvariance, PTL

\* Callbacks and the ageing work find what they use, although the module never
\* waits for them: the rcu_barrier of each bridge's unregistration and the order
\* of ubr_module_cleanup are enough, unless the family failed to register or a
\* handler retired a VLAN of a bridge that is gone.
THEOREM CallbacksOutlived == Spec => []PendingIsSafe
<1>. QED  BY PendingSafe, DeviceInvariance, PTL

\* ubr_device_event and ubr_dev_dellink between them never leave a device
\* enslaved to a bridge that is going, or a device that is going enslaved.
THEOREM SlavesAreWatched == Spec => []PortsWatched
<1>1. DeviceInv => PortsWatched
  <2>1. ASSUME DeviceInv, ~orphan, NEW d \in Devs, dev[d].master # Null
        PROVE  /\ bridge[dev[d].master] = "up"
               /\ "notifier" \in has
               /\ dev[d].life = "present"
    <3>1. dev[d].master \in Bridges /\ bridge[dev[d].master] = "up" /\ dev[d].life = "present"
      BY <2>1, Typed DEF DeviceInv, SlavesInv, DevState
    <3>2. mod \in Serving
      BY <2>1, <3>1 DEF DeviceInv, BridgesInv
    <3>. QED  BY <2>1, <3>1, <3>2 DEF DeviceInv, LoadInv, Inhabited
  <2>. QED  BY <2>1 DEF PortsWatched
<1>. QED  BY <1>1, DeviceInvariance, PTL

\* The error path of ubr_module_init and ubr_module_cleanup leave nothing behind.
THEOREM UnloadIsClean == Spec => []UnloadLeavesNothing
<1>1. ASSUME DeviceInv, mod = "absent", ~orphan, ~late
      PROVE  /\ has = {} /\ work = {} /\ genl = GenlIdle
             /\ \A b \in Bridges : bridge[b] = "none" /\ pend[b] = {}
             /\ \A d \in Devs : dev[d].master = Null
  <2>1. has = {}
    BY <1>1 DEF DeviceInv, TypeOK, LoadInv, Registrations, Inhabited, Serving
  <2>2. \A b \in Bridges : bridge[b] = "none"
    BY <1>1 DEF DeviceInv, BridgesInv, Inhabited, Serving
  <2>3. \A b \in Bridges : pend[b] = {}
    BY <1>1, <2>2 DEF DeviceInv, PendInv
  <2>4. work = {}
    BY <1>1, <2>2 DEF DeviceInv, TypeOK, WorkInv
  <2>5. genl = GenlIdle
    BY <1>1, <2>1 DEF DeviceInv, HandlerInv
  <2>6. \A d \in Devs : dev[d].master = Null
    BY <1>1, <2>2, Typed DEF DeviceInv, SlavesInv, DevState
  <2>. QED  BY <2>1, <2>2, <2>3, <2>4, <2>5, <2>6
<1>2. DeviceInv => UnloadLeavesNothing
  BY <1>1 DEF UnloadLeavesNothing
<1>. QED  BY <1>2, DeviceInvariance, PTL

\* Nothing else in the life of module and bridges can crash the kernel.
THEOREM LifeCrashesHaveCauses == Spec => []LifeCrashCauses
<1>1. DeviceInv => LifeCrashCauses
  BY DEF DeviceInv
<1>. QED  BY <1>1, DeviceInvariance, PTL

=============================================================================
