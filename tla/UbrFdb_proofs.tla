---------------------------- MODULE UbrFdb_proofs ----------------------------
(* The forwarding database, proved for any number of CPUs, stations, ports  *)
(* and nodes: the table finds one node per station, a frame's node outlives *)
(* the frame, an overlap of moves loses no station, dellink destroys a      *)
(* quiet table, and the whole is the plain table of StationTable.           *)
EXTENDS UbrFdb, TLAPS

-----------------------------------------------------------------------------
(* The invariants                                                           *)

Learning == {"lookup", "test", "zero", "set", "stamp", "alloc", "insert"}
Holding == {"test", "zero", "set", "stamp", "hint"}

\* What CPU c may rely on while its frame is f: the frame's stations are
\* stations and were heard where it says; the node it is about to publish is
\* its own; the node it found in the table was its station's, and RCU keeps it.
\* A station on the move has been heard on two ports.
FrameGood(c, f) ==
    /\ f.pc # "idle" => f.src \in Stations /\ f.dst \in Stations
    /\ f.pc \in Learning => f.port \in seen[f.src]
    /\ f.pc = "insert" => /\ node[f.node].mem = "private"
                          /\ node[f.node].addr = f.src
                          /\ node[f.node].vec = {f.port}
    /\ f.pc \in Holding =>
          /\ \/ node[f.node].mem = "hashed"
             \/ node[f.node].mem = "dying" /\ c \in grace[f.node]
          /\ node[f.node].addr = IF f.pc = "hint" THEN f.dst ELSE f.src
    /\ f.pc \in {"zero", "set"} => \E p, q \in seen[f.src] : p # q

FramesInv == \A c \in Cpus : FrameGood(c, cpu[c])

\* No two CPUs are about to publish the same node.
OwnInv == \A c, d \in Cpus :
             cpu[c].pc = "insert" /\ cpu[d].pc = "insert" /\ cpu[c].node = cpu[d].node => c = d

\* A node in use is some station's, and points where that was heard; if it
\* points nowhere and frames can find it, or could, its move is under way.
NodeGood(n) ==
    /\ node[n].mem # "free" => node[n].addr \in Stations /\ node[n].vec \subseteq seen[node[n].addr]
    /\ node[n].mem \in {"hashed", "dying"} /\ node[n].vec = {} =>
          \E c \in Cpus : cpu[c].pc = "set" /\ cpu[c].node = n

NodesInv == \A n \in Nodes : NodeGood(n)

\* The ageing work removes what is still in the table, and has ended before
\* dellink flushes it; only the host sends once dellink has begun.
LifeInv ==
    /\ work.pc = "remove" => work.node \in Nodes /\ node[work.node].mem = "hashed"
    /\ fdb \in {"flush", "destroyed"} => work.pc = "off"
    /\ fdb # "up" => \A c \in Inside : cpu[c].port = HostPort

FdbInv == TypeOK /\ OneNodePerStation /\ FramesInv /\ OwnInv /\ NodesInv /\ LifeInv
-----------------------------------------------------------------------------
(* How the parts of the invariant are carried over a step                   *)

LEMMA FdbTypes ==
    /\ NoFrame \in CpuState /\ NoFrame.pc = "idle" /\ NoFrame.node = Null
    /\ BlankNode \in NodeState
    /\ Null \notin Nodes
BY FdbAssumption DEF NoFrame, CpuState, BlankNode, NodeState

LEMMA CpuTypes ==
    ASSUME FdbInv, NEW c \in Cpus
    PROVE  /\ cpu[c] \in CpuState /\ FrameGood(c, cpu[c])
           /\ cpu[c].node # Null <=> cpu[c].pc \in UsesNode
           /\ cpu[c].pc \in UsesNode => cpu[c].node \in Nodes /\ node[cpu[c].node] \in NodeState
           /\ cpu[c].pc # "idle" => cpu[c].src \in Stations /\ cpu[c].dst \in Stations
           /\ cpu[c].port \in Ports
<1>1. /\ cpu[c] \in CpuState /\ FrameGood(c, cpu[c]) /\ node \in [Nodes -> NodeState]
      /\ cpu[c].node # Null <=> cpu[c].pc \in UsesNode
  BY DEF FdbInv, TypeOK, FramesInv
<1>. QED  BY <1>1 DEF CpuState, FrameGood

\* A frame f stays good for CPU b when its stations are heard on more ports, its
\* own node is left alone, and a node it has found is at most removed, with the
\* CPU in the grace period.
LEMMA FrameStays ==
    ASSUME NEW b, NEW f, FrameGood(b, f),
           \A a \in Stations : seen[a] \subseteq seen'[a],
           f.pc = "insert" => node'[f.node] = node[f.node],
           f.pc \in Holding =>
              /\ node'[f.node].addr = node[f.node].addr
              /\ \/ /\ node'[f.node].mem = node[f.node].mem
                    /\ b \in grace[f.node] => b \in grace'[f.node]
                 \/ node'[f.node].mem = "dying" /\ b \in grace'[f.node]
    PROVE  FrameGood(b, f)'
<1>1. f.pc \in Learning \cup {"hint"} => seen[f.src] \subseteq seen'[f.src]
  BY DEF FrameGood, Learning
<1>2. f.pc \in Holding => /\ \/ node'[f.node].mem = "hashed"
                             \/ node'[f.node].mem = "dying" /\ b \in grace'[f.node]
                          /\ node'[f.node].addr = IF f.pc = "hint" THEN f.dst ELSE f.src
  BY DEF FrameGood
<1>3. f.pc \in {"zero", "set"} => \E p, q \in seen'[f.src] : p # q
  BY <1>1 DEF FrameGood, Learning
<1>. QED  BY <1>1, <1>2, <1>3 DEF FrameGood

LEMMA FramesNext ==
    ASSUME \A b \in Cpus : \A f : f = cpu'[b] => FrameGood(b, f)'
    PROVE  FramesInv'
BY DEF FramesInv, FrameGood

\* The witness of a move under way is still there.
LEMMA NodeStays ==
    ASSUME NEW n \in Nodes, NodeGood(n),
           \A a \in Stations : seen[a] \subseteq seen'[a],
           node'[n].addr = node[n].addr, node'[n].vec = node[n].vec,
           node'[n].mem = node[n].mem \/ node'[n].mem = "free"
              \/ (node[n].mem = "hashed" /\ node'[n].mem = "dying"),
           \A c \in Cpus : cpu[c].pc = "set" /\ cpu[c].node = n
                              => cpu'[c].pc = "set" /\ cpu'[c].node = n
    PROVE  NodeGood(n)'
BY DEF NodeGood

\* A CPU goes on, and no node changes.
LEMMA CpuMoves ==
    ASSUME FdbInv, NEW c \in Cpus, NEW f \in CpuState,
           f.node # Null <=> f.pc \in UsesNode,
           FrameGood(c, f)', Becomes(c, f), cpu[c].pc # "set", f.pc # "insert",
           fdb # "up" /\ f.pc # "idle" => f.port = HostPort,
           seen' \in [Stations -> SUBSET Ports], \A a \in Stations : seen[a] \subseteq seen'[a],
           UNCHANGED <<table, node, work, fdb, left, grace, fault>>
    PROVE  FdbInv'
<1>1. /\ cpu'[c] = f
      /\ \A b \in Cpus \ {c} : cpu'[b] = cpu[b]
      /\ cpu' \in [Cpus -> CpuState]
  BY DEF FdbInv, TypeOK, Becomes
<1>2. TypeOK'
  BY <1>1 DEF FdbInv, TypeOK
<1>3. OneNodePerStation'
  BY DEF FdbInv, OneNodePerStation, Hashed
<1>4. FramesInv'
  <2>1. ASSUME NEW b \in Cpus, NEW g, g = cpu'[b] PROVE FrameGood(b, g)'
    <3>1. CASE b = c
      BY <1>1, <2>1, <3>1
    <3>2. CASE b # c
      <4>1. FrameGood(b, g)
        BY <1>1, <2>1, <3>2 DEF FdbInv, FramesInv
      <4>. QED  BY <4>1, FrameStays
    <3>. QED  BY <3>1, <3>2
  <2>. QED  BY <2>1, FramesNext
<1>5. OwnInv'
  BY <1>1 DEF FdbInv, OwnInv
<1>6. NodesInv'
  <2>1. ASSUME NEW n \in Nodes PROVE NodeGood(n)'
    <3>1. NodeGood(n) /\ \A b \in Cpus : cpu[b].pc = "set" => cpu'[b] = cpu[b]
      BY <1>1 DEF FdbInv, NodesInv
    <3>. QED  BY <3>1, NodeStays
  <2>. QED  BY <2>1 DEF NodesInv
<1>7. LifeInv'
  BY <1>1 DEF FdbInv, LifeInv, Inside
<1>. QED  BY <1>2, <1>3, <1>4, <1>5, <1>6, <1>7 DEF FdbInv

LEMMA LeaveInv ==
    ASSUME FdbInv, NEW c \in Cpus, Leave(c), cpu[c].pc # "set"
    PROVE  FdbInv'
<1>1. /\ cpu'[c] = NoFrame
      /\ \A b \in Cpus \ {c} : cpu'[b] = cpu[b]
      /\ cpu' \in [Cpus -> CpuState]
      /\ \A n \in Nodes : grace'[n] = grace[n] \ {c}
      /\ grace' \in [Nodes -> SUBSET Cpus]
      /\ UNCHANGED <<table, node, work, fdb, left, seen, fault>>
  BY FdbTypes DEF FdbInv, TypeOK, Leave, Becomes
<1>2. TypeOK'
  BY <1>1, FdbTypes DEF FdbInv, TypeOK, UsesNode
<1>3. OneNodePerStation'
  BY <1>1 DEF FdbInv, OneNodePerStation, Hashed
<1>4. FramesInv'
  <2>1. ASSUME NEW b \in Cpus, NEW g, g = cpu'[b] PROVE FrameGood(b, g)'
    <3>1. CASE b = c
      BY <1>1, <2>1, <3>1, FdbTypes DEF FrameGood, Learning, Holding
    <3>2. CASE b # c
      <4>1. FrameGood(b, g) /\ (g.pc \in Holding => g.node \in Nodes)
        BY <1>1, <2>1, <3>2, CpuTypes DEF Holding, UsesNode
      <4>. QED  BY <1>1, <3>2, <4>1, FrameStays
    <3>. QED  BY <3>1, <3>2
  <2>. QED  BY <2>1, FramesNext
<1>5. OwnInv'
  BY <1>1, FdbTypes DEF FdbInv, OwnInv
<1>6. NodesInv'
  <2>1. ASSUME NEW n \in Nodes PROVE NodeGood(n)'
    <3>1. NodeGood(n) /\ \A b \in Cpus : cpu[b].pc = "set" => cpu'[b] = cpu[b]
      BY <1>1 DEF FdbInv, NodesInv
    <3>. QED  BY <1>1, <3>1, NodeStays
  <2>. QED  BY <2>1 DEF NodesInv
<1>7. LifeInv'
  BY <1>1, FdbTypes DEF FdbInv, LifeInv, Inside
<1>. QED  BY <1>2, <1>3, <1>4, <1>5, <1>6, <1>7 DEF FdbInv
-----------------------------------------------------------------------------
(* A frame on a CPU                                                         *)

LEMMA ArriveInv ==
    ASSUME FdbInv, NEW c \in Cpus, NEW src \in Stations, NEW dst \in Stations,
           NEW p \in Ports, NEW learns \in BOOLEAN, Arrive(c, src, dst, p, learns)
    PROVE  FdbInv'
<1>. DEFINE f == [pc |-> IF learns THEN "lookup" ELSE "route",
                  src |-> src, dst |-> dst, port |-> p, node |-> Null]
<1>1. f \in CpuState /\ f.node = Null /\ f.pc \notin UsesNode
  BY DEF CpuState, UsesNode
<1>2. /\ f.pc \in {"lookup", "route"} /\ f.src = src /\ f.dst = dst /\ f.port = p
      /\ f.pc = "lookup" => learns
  OBVIOUS
<1>3. /\ Becomes(c, f) /\ cpu[c].pc = "idle" /\ (p = HostPort \/ fdb = "up")
      /\ seen' = IF learns THEN [seen EXCEPT ![src] = @ \cup {p}] ELSE seen
      /\ UNCHANGED <<table, node, work, fdb, left, grace, fault>>
  BY DEF Arrive, At
<1>. HIDE DEF f
<1>4. /\ seen' \in [Stations -> SUBSET Ports]
      /\ \A a \in Stations : seen[a] \subseteq seen'[a]
      /\ learns => p \in seen'[src]
  BY <1>3 DEF FdbInv, TypeOK
<1>5. FrameGood(c, f)'
  BY <1>2, <1>4 DEF FrameGood, Learning, Holding
<1>. QED  BY <1>1, <1>2, <1>3, <1>4, <1>5, CpuMoves

\* A CPU that goes on with the station it has, without a store.
LEMMA GoesOn ==
    ASSUME FdbInv, NEW c \in Cpus, cpu[c].pc # "idle", cpu[c].pc # "set",
           NEW pc \in {"lookup", "test", "zero", "stamp", "alloc", "route", "hint"},
           NEW n \in Nodes \cup {Null}, n # Null <=> pc \in UsesNode,
           Becomes(c, [cpu[c] EXCEPT !.pc = pc, !.node = n]),
           FrameGood(c, [cpu[c] EXCEPT !.pc = pc, !.node = n]),
           UNCHANGED <<table, node, work, fdb, left, grace, seen, fault>>
    PROVE  FdbInv'
<1>1. PICK f : f = [cpu[c] EXCEPT !.pc = pc, !.node = n]
  OBVIOUS
<1>2. f \in CpuState /\ f.pc = pc /\ f.node = n /\ f.port = cpu[c].port
  BY <1>1, CpuTypes DEF CpuState
<1>3. Becomes(c, f) /\ FrameGood(c, f)
  BY <1>1
<1>4. FrameGood(c, f)'
  BY <1>3, FrameStays
<1>5. seen' \in [Stations -> SUBSET Ports] /\ seen' = seen
  BY DEF FdbInv, TypeOK
<1>6. fdb # "up" => f.port = HostPort
  BY <1>2 DEF FdbInv, LifeInv, Inside
<1>. QED  BY <1>2, <1>3, <1>4, <1>5, <1>6, CpuMoves

\* The frame as it goes on, field by field.
LEMMA GoneOn ==
    ASSUME NEW g \in CpuState, NEW pc, NEW n
    PROVE  /\ [g EXCEPT !.pc = pc, !.node = n].pc = pc
           /\ [g EXCEPT !.pc = pc, !.node = n].node = n
           /\ [g EXCEPT !.pc = pc, !.node = n].src = g.src
           /\ [g EXCEPT !.pc = pc, !.node = n].dst = g.dst
           /\ [g EXCEPT !.pc = pc, !.node = n].port = g.port
BY DEF CpuState

LEMMA PcOnly ==
    ASSUME NEW g \in CpuState, NEW pc
    PROVE  [g EXCEPT !.pc = pc] = [g EXCEPT !.pc = pc, !.node = g.node]
BY DEF CpuState

LEMMA UseDestroyedInv ==
    ASSUME FdbInv, UseDestroyed
    PROVE  FdbInv'
BY DEF UseDestroyed, FdbInv, TypeOK, OneNodePerStation, Hashed, FramesInv, FrameGood, OwnInv,
       NodesInv, NodeGood, LifeInv, Inside

LEMMA LookupInv ==
    ASSUME FdbInv, NEW c \in Cpus, Lookup(c)
    PROVE  FdbInv'
<1>. DEFINE g == cpu[c]
            n == table[g.src]
            pc == IF n = Null THEN "alloc" ELSE "test"
<1>1. g \in CpuState /\ FrameGood(c, g) /\ g.pc = "lookup" /\ g.src \in Stations
  BY CpuTypes DEF Lookup, At
<1>2. /\ n \in Nodes \cup {Null} /\ (n # Null <=> pc \in UsesNode)
      /\ n # Null => node[n].mem = "hashed" /\ node[n].addr = g.src
  BY <1>1 DEF FdbInv, TypeOK, OneNodePerStation, UsesNode
<1>3. CASE UseDestroyed
  BY <1>3, UseDestroyedInv
<1>4. CASE /\ Becomes(c, [g EXCEPT !.pc = pc, !.node = n])
           /\ UNCHANGED <<table, node, work, fdb, left, grace, seen, fault>>
  <2>1. pc \in {"alloc", "test"} /\ (pc = "test" => n # Null)
    OBVIOUS
  <2>. HIDE DEF n, pc
  <2>2. FrameGood(c, [g EXCEPT !.pc = pc, !.node = n])
    BY <1>1, <1>2, <2>1, GoneOn DEF FrameGood, Learning, Holding
  <2>. QED  BY <1>1, <1>2, <1>4, <2>1, <2>2, GoesOn
<1>. QED  BY <1>3, <1>4 DEF Lookup

\* A station found on another port than its node's has been heard on two, even
\* if a move under way has emptied the node.
LEMMA TestInv ==
    ASSUME FdbInv, NEW c \in Cpus, Test(c)
    PROVE  FdbInv'
<1>. DEFINE g == cpu[c]
            pc == IF g.port \in node[g.node].vec THEN "stamp" ELSE "zero"
<1>1. /\ g \in CpuState /\ FrameGood(c, g) /\ g.pc = "test" /\ g.src \in Stations
      /\ g.node \in Nodes /\ g.node # Null
  BY CpuTypes, FdbTypes DEF Test, At, UsesNode
<1>2. /\ Becomes(c, [g EXCEPT !.pc = pc, !.node = g.node])
      /\ UNCHANGED <<table, node, work, fdb, left, grace, seen, fault>>
  BY <1>1, PcOnly DEF Test, Goto
<1>3. pc = "zero" => \E p, q \in seen[g.src] : p # q
  <2>. SUFFICES ASSUME g.port \notin node[g.node].vec
                PROVE  \E p, q \in seen[g.src] : p # q
    OBVIOUS
  <2>1. /\ NodeGood(g.node) /\ g.port \in seen[g.src] /\ node[g.node].addr = g.src
        /\ node[g.node].mem \in {"hashed", "dying"}
    BY <1>1 DEF FdbInv, NodesInv, FrameGood, Learning, Holding
  <2>2. CASE node[g.node].vec # {}
    BY <2>1, <2>2 DEF NodeGood
  <2>3. CASE node[g.node].vec = {}
    <3>1. PICK d \in Cpus : cpu[d].pc = "set" /\ cpu[d].node = g.node
      BY <2>1, <2>3 DEF NodeGood
    <3>2. FrameGood(d, cpu[d]) /\ node[cpu[d].node].addr = cpu[d].src
      BY <3>1, CpuTypes DEF FrameGood, Holding
    <3>. QED  BY <2>1, <3>1, <3>2 DEF FrameGood
  <2>. QED  BY <2>2, <2>3
<1>4. pc \in {"stamp", "zero"} /\ pc \in UsesNode
  BY DEF UsesNode
<1>. HIDE DEF pc
<1>5. FrameGood(c, [g EXCEPT !.pc = pc, !.node = g.node])
  BY <1>1, <1>3, <1>4, GoneOn DEF FrameGood, Learning, Holding
<1>. QED  BY <1>1, <1>2, <1>4, <1>5, GoesOn

LEMMA RouteInv ==
    ASSUME FdbInv, NEW c \in Cpus, Route(c)
    PROVE  FdbInv'
<1>. DEFINE g == cpu[c]
            n == table[g.dst]
<1>1. g \in CpuState /\ FrameGood(c, g) /\ g.pc = "route" /\ g.dst \in Stations
  BY CpuTypes DEF Route, At
<1>2. /\ n \in Nodes \cup {Null}
      /\ n # Null => node[n].mem = "hashed" /\ node[n].addr = g.dst
  BY <1>1 DEF FdbInv, TypeOK, OneNodePerStation
<1>3. CASE UseDestroyed
  BY <1>3, UseDestroyedInv
<1>4. CASE Leave(c)
  BY <1>1, <1>4, LeaveInv
<1>5. CASE /\ n # Null
           /\ Becomes(c, [g EXCEPT !.pc = "hint", !.node = n])
           /\ UNCHANGED <<table, node, work, fdb, left, grace, seen, fault>>
  <2>. HIDE DEF n
  <2>1. FrameGood(c, [g EXCEPT !.pc = "hint", !.node = n])
    BY <1>1, <1>2, <1>5, GoneOn DEF FrameGood, Learning, Holding
  <2>2. "hint" \in UsesNode
    BY DEF UsesNode
  <2>. QED  BY <1>1, <1>2, <1>5, <2>1, <2>2, GoesOn
<1>. QED  BY <1>3, <1>4, <1>5 DEF Route

LEMMA HintInv ==
    ASSUME FdbInv, NEW c \in Cpus, Hint(c)
    PROVE  FdbInv'
BY LeaveInv DEF Hint, At
\* A node that frames can find, or could, is stored to: not to its station and
\* not to what it is used for.
LEMMA StoreKeepsTable ==
    ASSUME FdbInv, NEW n \in Nodes, NEW x \in NodeState, node' = [node EXCEPT ![n] = x],
           x.mem = node[n].mem, x.addr = node[n].addr, UNCHANGED <<table, work, fdb>>
    PROVE  /\ node' \in [Nodes -> NodeState]
           /\ node'[n] = x
           /\ \A m \in Nodes : /\ node'[m].mem = node[m].mem /\ node'[m].addr = node[m].addr
                               /\ m # n => node'[m] = node[m]
           /\ OneNodePerStation'
           /\ work.pc = "remove" => node'[work.node].mem = node[work.node].mem
<1>1. /\ node' \in [Nodes -> NodeState] /\ node'[n] = x
      /\ \A m \in Nodes : /\ node'[m].mem = node[m].mem /\ node'[m].addr = node[m].addr
                          /\ m # n => node'[m] = node[m]
  BY DEF FdbInv, TypeOK
<1>2. OneNodePerStation'
  BY <1>1 DEF FdbInv, TypeOK, OneNodePerStation, Hashed
<1>3. work.pc = "remove" => work.node \in Nodes
  BY DEF FdbInv, LifeInv
<1>. QED  BY <1>1, <1>2, <1>3

LEMMA HeldStore ==
    ASSUME FdbInv, NEW c \in Cpus, cpu[c].pc \in {"zero", "set", "stamp"},
           NEW n, n = cpu[c].node, NEW x \in NodeState, node' = [node EXCEPT ![n] = x],
           x.mem = node[n].mem, x.addr = node[n].addr, x.vec \subseteq seen[node[n].addr],
           NEW f \in CpuState, Becomes(c, f), f.node # Null <=> f.pc \in UsesNode,
           f.pc \in {"set", "stamp", "route"}, f.pc # "route" => f.node = n,
           f.src = cpu[c].src, f.dst = cpu[c].dst, f.port = cpu[c].port,
           f.pc = "set" => cpu[c].pc = "zero",
           x.vec = {} => f.pc = "set" \/ (cpu[c].pc = "stamp" /\ node[n].vec = {}),
           UNCHANGED <<table, work, fdb, left, grace, seen, fault>>
    PROVE  FdbInv'
<1>1. /\ cpu[c] \in CpuState /\ FrameGood(c, cpu[c]) /\ n \in Nodes
      /\ cpu[c].src \in Stations /\ cpu[c].dst \in Stations
      /\ node[n].mem \in {"hashed", "dying"}
  BY CpuTypes DEF UsesNode, FrameGood, Holding
<1>2. /\ node' \in [Nodes -> NodeState] /\ node'[n] = x
      /\ \A m \in Nodes : /\ node'[m].mem = node[m].mem /\ node'[m].addr = node[m].addr
                          /\ m # n => node'[m] = node[m]
      /\ OneNodePerStation'
      /\ work.pc = "remove" => node'[work.node].mem = node[work.node].mem
  BY <1>1, StoreKeepsTable
<1>3. /\ cpu'[c] = f
      /\ \A b \in Cpus \ {c} : cpu'[b] = cpu[b]
      /\ cpu' \in [Cpus -> CpuState]
  BY DEF FdbInv, TypeOK, Becomes
<1>4. TypeOK'
  BY <1>2, <1>3 DEF FdbInv, TypeOK
<1>5. FramesInv'
  <2>1. ASSUME NEW b \in Cpus, NEW g, g = cpu'[b] PROVE FrameGood(b, g)'
    <3>1. CASE b = c
      <4>1. FrameGood(c, f)
        BY <1>1 DEF FrameGood, Learning, Holding
      <4>2. f.pc \in Holding => f.node = n
        BY DEF Holding
      <4>. QED  BY <1>1, <1>2, <1>3, <2>1, <3>1, <4>1, <4>2, FrameStays
    <3>2. CASE b # c
      <4>1. FrameGood(b, g) /\ (g.pc \in UsesNode => g.node \in Nodes)
        BY <1>3, <2>1, <3>2, CpuTypes
      <4>2. g.pc = "insert" => g.node # n
        BY <1>1, <4>1 DEF FrameGood
      <4>. QED  BY <1>2, <4>1, <4>2, FrameStays DEF UsesNode, Holding
    <3>. QED  BY <3>1, <3>2
  <2>. QED  BY <2>1, FramesNext
<1>6. OwnInv'
  BY <1>3 DEF FdbInv, OwnInv
<1>7. NodesInv'
  <2>1. ASSUME NEW m \in Nodes PROVE NodeGood(m)'
    <3>1. NodeGood(m) /\ \A b \in Cpus \ {c} : cpu'[b] = cpu[b]
      BY <1>3 DEF FdbInv, NodesInv
    <3>2. CASE m # n
      BY <1>2, <1>3, <3>1, <3>2, NodeStays
    <3>3. CASE m = n
      <4>1. CASE x.vec # {} \/ f.pc = "set"
        BY <1>2, <1>3, <3>1, <3>3, <4>1 DEF NodeGood
      <4>2. CASE x.vec = {} /\ cpu[c].pc = "stamp" /\ node[n].vec = {}
        <5>1. node'[m].vec = node[m].vec /\ node'[m].mem = node[m].mem
              /\ node'[m].addr = node[m].addr
          BY <1>2, <3>3, <4>2
        <5>2. \A b \in Cpus : cpu[b].pc = "set" => cpu'[b] = cpu[b]
          BY <3>1, <4>2
        <5>. QED  BY <3>1, <5>1, <5>2, NodeStays
      <4>. QED  BY <4>1, <4>2
    <3>. QED  BY <3>2, <3>3
  <2>. QED  BY <2>1 DEF NodesInv
<1>8. LifeInv'
  BY <1>2, <1>3 DEF FdbInv, LifeInv, Inside
<1>. QED  BY <1>2, <1>4, <1>5, <1>6, <1>7, <1>8 DEF FdbInv

LEMMA ZeroInv ==
    ASSUME FdbInv, NEW c \in Cpus, Zero(c)
    PROVE  FdbInv'
<1>1. PICK n, x, f : /\ n = cpu[c].node
                     /\ x = [node[n] EXCEPT !.vec = {}]
                     /\ f = [cpu[c] EXCEPT !.pc = "set"]
  OBVIOUS
<1>2. /\ cpu[c] \in CpuState /\ cpu[c].pc = "zero" /\ n \in Nodes /\ node[n] \in NodeState
      /\ n # Null
  BY <1>1, CpuTypes, FdbTypes DEF Zero, At, UsesNode
<1>3. /\ node' = [node EXCEPT ![n] = x] /\ Becomes(c, f)
      /\ UNCHANGED <<table, work, fdb, left, grace, seen, fault>>
      /\ n = cpu[c].node
  BY <1>1 DEF Zero, Goto
<1>4. x \in NodeState /\ x.mem = node[n].mem /\ x.addr = node[n].addr /\ x.vec = {}
  BY <1>1, <1>2 DEF NodeState
<1>5. /\ f \in CpuState /\ f.pc = "set" /\ f.node = n
      /\ f.src = cpu[c].src /\ f.dst = cpu[c].dst /\ f.port = cpu[c].port
  BY <1>1, <1>2 DEF CpuState
<1>6. f.node # Null /\ f.pc \in UsesNode /\ x.vec \subseteq seen[node[n].addr]
  BY <1>2, <1>4, <1>5 DEF UsesNode
<1>. QED  BY <1>2, <1>3, <1>4, <1>5, <1>6, HeldStore

LEMMA SetInv ==
    ASSUME FdbInv, NEW c \in Cpus, Set(c)
    PROVE  FdbInv'
<1>1. PICK n, x, f : /\ n = cpu[c].node
                     /\ x = [node[n] EXCEPT !.vec = @ \cup {cpu[c].port}]
                     /\ f = [cpu[c] EXCEPT !.pc = "stamp"]
  OBVIOUS
<1>2. /\ cpu[c] \in CpuState /\ cpu[c].pc = "set" /\ n \in Nodes /\ node[n] \in NodeState
      /\ n # Null /\ cpu[c].port \in Ports /\ FrameGood(c, cpu[c])
  BY <1>1, CpuTypes, FdbTypes DEF Set, At, UsesNode
<1>3. /\ node' = [node EXCEPT ![n] = x] /\ Becomes(c, f)
      /\ UNCHANGED <<table, work, fdb, left, grace, seen, fault>>
      /\ n = cpu[c].node
  BY <1>1 DEF Set, Goto
<1>4. /\ x \in NodeState /\ x.mem = node[n].mem /\ x.addr = node[n].addr
      /\ x.vec = node[n].vec \cup {cpu[c].port}
  BY <1>1, <1>2 DEF NodeState
<1>5. /\ f \in CpuState /\ f.pc = "stamp" /\ f.node = n
      /\ f.src = cpu[c].src /\ f.dst = cpu[c].dst /\ f.port = cpu[c].port
  BY <1>1, <1>2 DEF CpuState
<1>6. x.vec \subseteq seen[node[n].addr]
  <2>1. NodeGood(n) /\ node[n].mem \in {"hashed", "dying"} /\ cpu[c].port \in seen[node[n].addr]
    BY <1>1, <1>2 DEF FdbInv, NodesInv, FrameGood, Learning, Holding
  <2>. QED  BY <1>4, <2>1 DEF NodeGood
<1>. QED  BY <1>2, <1>3, <1>4, <1>5, <1>6, HeldStore DEF UsesNode

LEMMA StampInv ==
    ASSUME FdbInv, NEW c \in Cpus, Stamp(c)
    PROVE  FdbInv'
<1>1. PICK n, x, f : /\ n = cpu[c].node
                     /\ x = [node[n] EXCEPT !.old = FALSE]
                     /\ f = [cpu[c] EXCEPT !.pc = "route", !.node = Null]
  OBVIOUS
<1>2. /\ cpu[c] \in CpuState /\ cpu[c].pc = "stamp" /\ n \in Nodes /\ node[n] \in NodeState
      /\ FrameGood(c, cpu[c])
  BY <1>1, CpuTypes DEF Stamp, At, UsesNode
<1>3. /\ node' = [node EXCEPT ![n] = x] /\ Becomes(c, f)
      /\ UNCHANGED <<table, work, fdb, left, grace, seen, fault>>
      /\ n = cpu[c].node
  BY <1>1 DEF Stamp
<1>4. /\ x \in NodeState /\ x.mem = node[n].mem /\ x.addr = node[n].addr
      /\ x.vec = node[n].vec
  BY <1>1, <1>2 DEF NodeState
<1>5. /\ f \in CpuState /\ f.pc = "route" /\ f.node = Null
      /\ f.src = cpu[c].src /\ f.dst = cpu[c].dst /\ f.port = cpu[c].port
  BY <1>1, <1>2 DEF CpuState
<1>6. x.vec \subseteq seen[node[n].addr]
  <2>1. NodeGood(n) /\ node[n].mem \in {"hashed", "dying"}
    BY <1>1, <1>2 DEF FdbInv, NodesInv, FrameGood, Holding
  <2>. QED  BY <1>4, <2>1 DEF NodeGood
<1>7. f.node = Null /\ f.pc \notin UsesNode
  BY <1>5 DEF UsesNode
<1>. QED  BY <1>2, <1>3, <1>4, <1>5, <1>6, <1>7, HeldStore

LEMMA SilenceInv ==
    ASSUME FdbInv, NEW n \in Nodes, Silence(n)
    PROVE  FdbInv'
<1>1. PICK x : x = [node[n] EXCEPT !.old = TRUE]
  OBVIOUS
<1>2. /\ node' = [node EXCEPT ![n] = x] /\ node[n] \in NodeState
      /\ UNCHANGED <<table, cpu, work, fdb, left, grace, seen, fault>>
  BY <1>1 DEF Silence, FdbInv, TypeOK
<1>3. x \in NodeState /\ x.mem = node[n].mem /\ x.addr = node[n].addr /\ x.vec = node[n].vec
  BY <1>1, <1>2 DEF NodeState
<1>4. /\ node' \in [Nodes -> NodeState]
      /\ \A m \in Nodes : /\ node'[m].mem = node[m].mem /\ node'[m].addr = node[m].addr
                          /\ node'[m].vec = node[m].vec
      /\ OneNodePerStation'
      /\ work.pc = "remove" => node'[work.node].mem = node[work.node].mem
  BY <1>2, <1>3, StoreKeepsTable
<1>5. TypeOK' /\ OwnInv' /\ LifeInv'
  BY <1>2, <1>4 DEF FdbInv, TypeOK, OwnInv, LifeInv, Inside
<1>6. FramesInv'
  <2>1. ASSUME NEW b \in Cpus, NEW g, g = cpu'[b] PROVE FrameGood(b, g)'
    <3>1. /\ FrameGood(b, g) /\ (g.pc \in UsesNode => g.node \in Nodes)
          /\ g.pc = "insert" => g.node # n
      BY <1>2, <2>1, CpuTypes DEF FrameGood, Silence
    <3>2. g.pc = "insert" => node'[g.node] = node[g.node]
      BY <1>2, <3>1 DEF FdbInv, TypeOK, UsesNode
    <3>. QED  BY <1>2, <1>4, <3>1, <3>2, FrameStays DEF UsesNode, Holding
  <2>. QED  BY <2>1, FramesNext
<1>7. NodesInv'
  <2>1. ASSUME NEW m \in Nodes PROVE NodeGood(m)'
    BY <1>2, <1>4, NodeStays DEF FdbInv, NodesInv
  <2>. QED  BY <2>1 DEF NodesInv
<1>. QED  BY <1>4, <1>5, <1>6, <1>7 DEF FdbInv
\* A CPU stores to a node nobody else has: one fresh from the slab, or the one
\* it is about to publish.
LEMMA OwnStore ==
    ASSUME FdbInv, NEW c \in Cpus, cpu[c].pc \in {"alloc", "insert"},
           NEW n \in Nodes, NEW x \in NodeState, node' = [node EXCEPT ![n] = x],
           \/ node[n].mem = "free"
           \/ node[n].mem = "private" /\ cpu[c].pc = "insert" /\ cpu[c].node = n,
           x.mem # "free" => x.addr \in Stations /\ x.vec \subseteq seen[x.addr] /\ x.vec # {},
           NEW f \in CpuState, Becomes(c, f), f.node # Null <=> f.pc \in UsesNode,
           f.pc # "set", f.pc = "insert" => f.node = n /\ node[n].mem = "free",
           f.port = cpu[c].port, FrameGood(c, f)',
           table' \in [Stations -> Nodes \cup {Null}], OneNodePerStation',
           UNCHANGED <<work, fdb, left, grace, seen, fault>>
    PROVE  FdbInv'
<1>1. /\ node' \in [Nodes -> NodeState] /\ node'[n] = x
      /\ \A m \in Nodes \ {n} : node'[m] = node[m]
  BY DEF FdbInv, TypeOK
<1>2. /\ cpu'[c] = f
      /\ \A b \in Cpus \ {c} : cpu'[b] = cpu[b]
      /\ cpu' \in [Cpus -> CpuState]
  BY DEF FdbInv, TypeOK, Becomes
<1>3. \A b \in Cpus \ {c} : cpu[b].pc \in UsesNode => cpu[b].node \in Nodes \ {n}
  <2>1. ASSUME NEW b \in Cpus \ {c}, cpu[b].pc \in UsesNode PROVE cpu[b].node \in Nodes \ {n}
    <3>1. FrameGood(b, cpu[b]) /\ cpu[b].node \in Nodes
      BY <2>1, CpuTypes
    <3>2. CASE cpu[b].pc = "insert"
      BY <3>1, <3>2 DEF FrameGood, FdbInv, OwnInv
    <3>3. CASE cpu[b].pc \in Holding
      BY <3>1, <3>3 DEF FrameGood
    <3>. QED  BY <2>1, <3>2, <3>3 DEF UsesNode, Holding
  <2>. QED  BY <2>1
<1>4. TypeOK'
  BY <1>1, <1>2 DEF FdbInv, TypeOK
<1>5. FramesInv'
  <2>1. ASSUME NEW b \in Cpus, NEW g, g = cpu'[b] PROVE FrameGood(b, g)'
    <3>1. CASE b = c
      BY <1>2, <2>1, <3>1
    <3>2. CASE b # c
      <4>1. FrameGood(b, g) /\ (g.pc \in UsesNode => g.node \in Nodes \ {n})
        BY <1>2, <1>3, <2>1, <3>2, CpuTypes
      <4>2. g.pc \in Holding \cup {"insert"} => node'[g.node] = node[g.node]
        BY <1>1, <4>1 DEF Holding, UsesNode
      <4>. QED  BY <4>1, <4>2, FrameStays
    <3>. QED  BY <3>1, <3>2
  <2>. QED  BY <2>1, FramesNext
<1>6. OwnInv'
  <2>1. \A b \in Cpus \ {c} : cpu[b].pc = "insert" => cpu[b].node # n
    BY <1>3 DEF UsesNode
  <2>. QED  BY <1>2, <2>1 DEF FdbInv, OwnInv
<1>7. NodesInv'
  <2>1. ASSUME NEW m \in Nodes PROVE NodeGood(m)'
    <3>1. NodeGood(m) /\ \A b \in Cpus : cpu[b].pc = "set" => cpu'[b] = cpu[b]
      BY <1>2 DEF FdbInv, NodesInv
    <3>2. CASE m # n
      BY <1>1, <3>1, <3>2, NodeStays
    <3>3. CASE m = n
      BY <1>1, <3>3 DEF NodeGood
    <3>. QED  BY <3>2, <3>3
  <2>. QED  BY <2>1 DEF NodesInv
<1>8. LifeInv'
  <2>1. work.pc = "remove" => work.node \in Nodes \ {n}
    BY DEF FdbInv, LifeInv
  <2>. QED  BY <1>1, <1>2, <2>1 DEF FdbInv, LifeInv, Inside
<1>. QED  BY <1>4, <1>5, <1>6, <1>7, <1>8 DEF FdbInv

LEMMA AllocInv ==
    ASSUME FdbInv, NEW c \in Cpus, Alloc(c)
    PROVE  FdbInv'
<1>. DEFINE g == cpu[c]
<1>1. /\ g \in CpuState /\ FrameGood(c, g) /\ g.pc = "alloc" /\ g.src \in Stations
      /\ g.node = Null /\ g.port \in Ports
      /\ UNCHANGED <<table, work, fdb, left, grace, seen, fault>>
  BY CpuTypes DEF Alloc, At, UsesNode
<1>2. CASE Goto(c, "route") /\ UNCHANGED node
  <2>1. /\ Becomes(c, [g EXCEPT !.pc = "route", !.node = Null])
        /\ FrameGood(c, [g EXCEPT !.pc = "route", !.node = Null])
    <3>1. [g EXCEPT !.pc = "route"] = [g EXCEPT !.pc = "route", !.node = Null]
      BY <1>1, PcOnly
    <3>2. FrameGood(c, [g EXCEPT !.pc = "route", !.node = Null])
      BY <1>1, GoneOn DEF FrameGood, Learning, Holding
    <3>. QED  BY <1>2, <3>1, <3>2 DEF Goto
  <2>2. "route" \notin UsesNode
    BY DEF UsesNode
  <2>. QED  BY <1>1, <1>2, <2>1, <2>2, GoesOn
<1>3. ASSUME NEW n \in Nodes, node[n].mem = "free",
             node' = [node EXCEPT ![n] = [BlankNode EXCEPT !.mem = "private", !.addr = g.src,
                                                           !.vec = {g.port}]],
             Becomes(c, [g EXCEPT !.pc = "insert", !.node = n])
      PROVE  FdbInv'
  <2>1. PICK x, f, src, port :
           /\ x = [BlankNode EXCEPT !.mem = "private", !.addr = g.src, !.vec = {g.port}]
           /\ f = [g EXCEPT !.pc = "insert", !.node = n]
           /\ src = g.src /\ port = g.port
    OBVIOUS
  <2>2. x \in NodeState /\ x.mem = "private" /\ x.addr = src /\ x.vec = {port}
    BY <1>1, <2>1, FdbTypes DEF NodeState
  <2>3. /\ f \in CpuState /\ f.pc = "insert" /\ f.node = n
        /\ f.src = src /\ f.dst = g.dst /\ f.port = port
    BY <1>1, <2>1 DEF CpuState
  <2>4. node' = [node EXCEPT ![n] = x] /\ Becomes(c, f)
    BY <1>3, <2>1
  <2>5. node'[n] = x /\ \A m \in Nodes \ {n} : node'[m] = node[m]
    BY <2>4 DEF FdbInv, TypeOK
  <2>6. /\ src \in Stations /\ port \in seen[src] /\ g.dst \in Stations /\ port = g.port
    BY <1>1, <2>1 DEF FrameGood, Learning
  <2>7. FrameGood(c, f)'
    BY <1>1, <2>2, <2>3, <2>5, <2>6 DEF FrameGood, Learning, Holding
  <2>8. table' \in [Stations -> Nodes \cup {Null}] /\ OneNodePerStation'
    BY <1>1, <1>3, <2>2, <2>5 DEF FdbInv, TypeOK, OneNodePerStation, Hashed
  <2>9. f.node # Null /\ f.pc \in UsesNode
    BY <2>3, FdbTypes DEF UsesNode
  <2>10. /\ cpu[c].pc = "alloc" /\ node[n].mem = "free" /\ f.port = cpu[c].port
         /\ x.addr \in Stations /\ x.vec \subseteq seen[x.addr] /\ x.vec # {}
         /\ f.pc = "insert" /\ f.node = n /\ x \in NodeState /\ f \in CpuState
         /\ UNCHANGED <<work, fdb, left, grace, seen, fault>>
    BY <1>1, <1>3, <2>2, <2>3, <2>6
  <2>. QED  BY <2>4, <2>7, <2>8, <2>9, <2>10, OwnStore
<1>. QED  BY <1>2, <1>3 DEF Alloc

LEMMA InsertInv ==
    ASSUME FdbInv, NEW c \in Cpus, Insert(c)
    PROVE  FdbInv'
<1>1. CASE UseDestroyed
  BY <1>1, UseDestroyedInv
<1>2. CASE ~UseDestroyed
  <2>1. PICK g, n, src : g = cpu[c] /\ n = g.node /\ src = g.src
    OBVIOUS
  <2>2. PICK f : f = [g EXCEPT !.pc = "route", !.node = Null]
    OBVIOUS
  <2>3. /\ g \in CpuState /\ g.pc = "insert" /\ src \in Stations /\ g.dst \in Stations
        /\ n \in Nodes /\ node[n] \in NodeState
        /\ node[n].mem = "private" /\ node[n].addr = src /\ node[n].vec = {g.port}
        /\ g.port \in seen[src]
    BY <2>1, CpuTypes DEF Insert, At, UsesNode, FrameGood, Learning
  <2>4. /\ f \in CpuState /\ f.pc = "route" /\ f.node = Null
        /\ f.src = src /\ f.dst = g.dst /\ f.port = g.port
    BY <2>1, <2>2, <2>3 DEF CpuState
  <2>5. /\ Becomes(c, f)
        /\ UNCHANGED <<work, fdb, left, grace, seen, fault>>
        /\ \/ /\ table[src] = Null
              /\ table' = [table EXCEPT ![src] = n]
              /\ node' = [node EXCEPT ![n].mem = "hashed"]
           \/ /\ node' = [node EXCEPT ![n].mem = "free"]
              /\ UNCHANGED table
    BY <1>2, <2>1, <2>2 DEF Insert
  <2>6. FrameGood(c, f)'
    BY <2>3, <2>4 DEF FrameGood, Learning, Holding
  <2>7. f.node = Null /\ f.pc \notin UsesNode
    BY <2>4 DEF UsesNode
  <2>8. ASSUME NEW x \in NodeState, node' = [node EXCEPT ![n] = x],
               x.addr = src, x.vec = {g.port},
               \/ /\ table[src] = Null /\ table' = [table EXCEPT ![src] = n]
                  /\ x.mem = "hashed"
               \/ x.mem = "free" /\ UNCHANGED table
        PROVE  FdbInv'
    <3>1. /\ node'[n] = x /\ \A m \in Nodes \ {n} : node'[m] = node[m]
          /\ table' \in [Stations -> Nodes \cup {Null}]
      BY <2>3, <2>8 DEF FdbInv, TypeOK
    <3>2. OneNodePerStation'
      <4>1. CASE x.mem = "free" /\ UNCHANGED table
        BY <2>3, <3>1, <4>1 DEF FdbInv, TypeOK, OneNodePerStation, Hashed
      <4>2. CASE table[src] = Null /\ table' = [table EXCEPT ![src] = n] /\ x.mem = "hashed"
        <5>1. table'[src] = n /\ \A a \in Stations \ {src} : table'[a] = table[a]
          BY <2>3, <4>2 DEF FdbInv, TypeOK
        <5>2. \A m \in Hashed : table[node[m].addr] = m /\ node[m].addr # src
          BY <4>2, FdbTypes DEF FdbInv, OneNodePerStation, Hashed
        <5>3. ASSUME NEW a \in Stations, table'[a] # Null
              PROVE  node'[table'[a]].mem = "hashed" /\ node'[table'[a]].addr = a
          BY <2>3, <2>8, <3>1, <4>2, <5>1, <5>3 DEF FdbInv, TypeOK, OneNodePerStation
        <5>4. ASSUME NEW m \in Nodes, node'[m].mem = "hashed"
              PROVE  table'[node'[m].addr] = m
          <6>1. CASE m = n
            BY <2>8, <3>1, <5>1, <6>1
          <6>2. CASE m # n
            <7>1. m \in Hashed /\ node[m].addr \in Stations
              BY <3>1, <5>4, <6>2 DEF Hashed, FdbInv, NodesInv, NodeGood
            <7>. QED  BY <3>1, <5>1, <5>2, <6>2, <7>1
          <6>. QED  BY <6>1, <6>2
        <5>. QED  BY <5>3, <5>4 DEF OneNodePerStation, Hashed
      <4>. QED  BY <2>8, <4>1, <4>2
    <3>3. x.mem # "free" => x.addr \in Stations /\ x.vec \subseteq seen[x.addr] /\ x.vec # {}
      BY <2>3, <2>8
    <3>4. cpu[c].pc = "insert" /\ cpu[c].node = n /\ f.port = cpu[c].port
      BY <2>1, <2>3, <2>4
    <3>. QED  BY <2>3, <2>4, <2>5, <2>6, <2>7, <2>8, <3>1, <3>2, <3>3, <3>4, OwnStore
  <2>9. PICK x : x = [node[n] EXCEPT !.mem = "hashed"]
    OBVIOUS
  <2>10. PICK y : y = [node[n] EXCEPT !.mem = "free"]
    OBVIOUS
  <2>11. /\ x \in NodeState /\ x.mem = "hashed" /\ x.addr = src /\ x.vec = {g.port}
         /\ y \in NodeState /\ y.mem = "free" /\ y.addr = src /\ y.vec = {g.port}
    BY <2>3, <2>9, <2>10 DEF NodeState
  <2>12. \/ /\ table[src] = Null /\ table' = [table EXCEPT ![src] = n]
            /\ node' = [node EXCEPT ![n] = x]
         \/ node' = [node EXCEPT ![n] = y] /\ UNCHANGED table
    BY <2>5, <2>9, <2>10
  <2>. QED  BY <2>8, <2>11, <2>12
<1>. QED  BY <1>1, <1>2
-----------------------------------------------------------------------------
(* Ageing and removal                                                       *)

\* What rhashtable_remove_fast and call_rcu do to a node that is in the table.
LEMMA RemoveEffect ==
    ASSUME FdbInv, NEW n \in Nodes, node[n].mem = "hashed", Remove(n)
    PROVE  /\ node' \in [Nodes -> NodeState]
           /\ node'[n].mem = "dying" /\ node'[n].addr = node[n].addr
           /\ node'[n].vec = node[n].vec
           /\ \A m \in Nodes \ {n} : node'[m] = node[m]
           /\ grace' \in [Nodes -> SUBSET Cpus] /\ grace'[n] = Inside
           /\ \A m \in Nodes \ {n} : grace'[m] = grace[m]
           /\ node[n].addr \in Stations /\ table[node[n].addr] = n
           /\ table' = [table EXCEPT ![node[n].addr] = Null]
<1>1. node \in [Nodes -> NodeState] /\ node[n] \in NodeState
  BY DEF FdbInv, TypeOK
<1>2. node[n].addr \in Stations /\ table[node[n].addr] = n
  BY DEF FdbInv, NodesInv, NodeGood, OneNodePerStation, Hashed
<1>3. PICK x : x = [node[n] EXCEPT !.mem = "dying"]
  OBVIOUS
<1>4. x \in NodeState /\ x.mem = "dying" /\ x.addr = node[n].addr /\ x.vec = node[n].vec
  BY <1>1, <1>3 DEF NodeState
<1>5. node' = [node EXCEPT ![n] = x]
  BY <1>3 DEF Remove
<1>6. Inside \in SUBSET Cpus
  BY DEF Inside
<1>7. /\ grace' \in [Nodes -> SUBSET Cpus] /\ grace'[n] = Inside
      /\ \A m \in Nodes \ {n} : grace'[m] = grace[m]
  BY <1>6 DEF Remove, FdbInv, TypeOK
<1>8. table' = [table EXCEPT ![node[n].addr] = Null]
  BY <1>2 DEF Remove, FdbInv, TypeOK
<1>. QED  BY <1>1, <1>2, <1>4, <1>5, <1>7, <1>8

LEMMA RemoveInv ==
    ASSUME FdbInv, NEW n \in Nodes, node[n].mem = "hashed", Remove(n),
           work' \in WorkState, work'.pc # "remove",
           fdb \in {"flush", "destroyed"} => work'.pc = "off",
           left' \subseteq Nodes, UNCHANGED <<cpu, fdb, seen, fault>>
    PROVE  FdbInv'
<1>1. /\ node' \in [Nodes -> NodeState]
      /\ node'[n].mem = "dying" /\ node'[n].addr = node[n].addr
      /\ node'[n].vec = node[n].vec
      /\ \A m \in Nodes \ {n} : node'[m] = node[m]
      /\ grace' \in [Nodes -> SUBSET Cpus] /\ grace'[n] = Inside
      /\ \A m \in Nodes \ {n} : grace'[m] = grace[m]
      /\ node[n].addr \in Stations /\ table[node[n].addr] = n
      /\ table' = [table EXCEPT ![node[n].addr] = Null]
  BY RemoveEffect
<1>2. /\ table' \in [Stations -> Nodes \cup {Null}]
      /\ table'[node[n].addr] = Null
      /\ \A a \in Stations \ {node[n].addr} : table'[a] = table[a]
  BY <1>1 DEF FdbInv, TypeOK
<1>3. TypeOK'
  BY <1>1, <1>2 DEF FdbInv, TypeOK
<1>4. OneNodePerStation'
  <2>1. ASSUME NEW a \in Stations, table'[a] # Null
        PROVE  node'[table'[a]].mem = "hashed" /\ node'[table'[a]].addr = a
    <3>1. a # node[n].addr /\ table'[a] = table[a] /\ table[a] \in Nodes
      BY <1>2, <2>1 DEF FdbInv, TypeOK
    <3>2. node[table[a]].mem = "hashed" /\ node[table[a]].addr = a
      BY <2>1, <3>1 DEF FdbInv, OneNodePerStation
    <3>. QED  BY <1>1, <3>1, <3>2
  <2>2. ASSUME NEW m \in Nodes, node'[m].mem = "hashed" PROVE table'[node'[m].addr] = m
    <3>1. m # n /\ node'[m] = node[m]
      BY <1>1, <2>2
    <3>2. table[node[m].addr] = m /\ node[m].addr \in Stations
      BY <2>2, <3>1 DEF FdbInv, OneNodePerStation, Hashed, NodesInv, NodeGood
    <3>. QED  BY <1>1, <1>2, <3>1, <3>2
  <2>. QED  BY <2>1, <2>2 DEF OneNodePerStation, Hashed
<1>5. FramesInv'
  <2>1. ASSUME NEW b \in Cpus, NEW g, g = cpu'[b] PROVE FrameGood(b, g)'
    <3>1. /\ FrameGood(b, g) /\ (g.pc \in UsesNode => g.node \in Nodes)
          /\ g.pc # "idle" => b \in Inside
      BY <2>1, CpuTypes DEF Inside
    <3>2. g.pc = "insert" => g.node # n
      BY <3>1 DEF FrameGood
    <3>3. g.pc \in Holding \cup {"insert"} => g.node \in Nodes /\ b \in Inside
      BY <3>1 DEF Holding, UsesNode
    <3>. QED  BY <1>1, <3>1, <3>2, <3>3, FrameStays
  <2>. QED  BY <2>1, FramesNext
<1>6. OwnInv'
  BY DEF FdbInv, OwnInv
<1>7. NodesInv'
  <2>1. ASSUME NEW m \in Nodes PROVE NodeGood(m)'
    <3>1. NodeGood(m)
      BY DEF FdbInv, NodesInv
    <3>. QED  BY <1>1, <3>1, NodeStays
  <2>. QED  BY <2>1 DEF NodesInv
<1>8. LifeInv'
  BY DEF FdbInv, LifeInv, Inside
<1>. QED  BY <1>3, <1>4, <1>5, <1>6, <1>7, <1>8 DEF FdbInv

LEMMA AgeRemoveInv ==
    ASSUME FdbInv, AgeRemove
    PROVE  FdbInv'
<1>1. /\ work \in WorkState /\ work.pc = "remove" /\ work.node \in Nodes
      /\ node[work.node].mem = "hashed" /\ fdb \notin {"flush", "destroyed"}
  BY DEF FdbInv, TypeOK, LifeInv, AgeRemove
<1>2. work' \in WorkState /\ work'.pc = "walk"
  BY <1>1 DEF AgeRemove, WorkState
<1>. QED  BY <1>1, <1>2, RemoveInv DEF AgeRemove, FdbInv, TypeOK

\* A step of the ageing work or of dellink that leaves the table alone.
LEMMA LifeStepInv ==
    ASSUME FdbInv, UNCHANGED <<table, node, cpu, grace, seen, fault>>,
           work' \in WorkState, fdb' \in {"up", "cancel", "flush", "destroyed"}, left' \subseteq Nodes,
           LifeInv'
    PROVE  FdbInv'
<1>1. TypeOK'
  BY DEF FdbInv, TypeOK
<1>2. OneNodePerStation' /\ OwnInv'
  BY DEF FdbInv, OneNodePerStation, Hashed, OwnInv
<1>3. FramesInv' /\ NodesInv'
  BY DEF FdbInv, FramesInv, FrameGood, NodesInv, NodeGood
<1>. QED  BY <1>1, <1>2, <1>3 DEF FdbInv

LEMMA AgeInv ==
    ASSUME FdbInv, AgeStart \/ AgeVisit \/ AgeDone
    PROVE  FdbInv'
<1>1. work \in WorkState /\ LifeInv /\ left \subseteq Nodes
      /\ fdb \in {"up", "cancel", "flush", "destroyed"}
  BY DEF FdbInv, TypeOK
<1>2. UNCHANGED <<table, node, cpu, fdb, left, grace, seen, fault>>
  BY DEF AgeStart, AgeVisit, AgeDone
<1>3. CASE AgeStart \/ AgeDone
  <2>1. work' \in WorkState /\ work'.pc # "remove" /\ (fdb \in {"flush", "destroyed"} => work'.pc = "off")
    BY <1>1, <1>3 DEF AgeStart, AgeDone, WorkState
  <2>2. LifeInv'
    BY <1>1, <1>2, <2>1 DEF LifeInv, Inside
  <2>. QED  BY <1>1, <1>2, <2>1, <2>2, LifeStepInv
<1>4. CASE AgeVisit
  <2>1. PICK n \in work.left :
          work' = IF n \in Hashed /\ node[n].old
                    THEN [pc |-> "remove", left |-> work.left \ {n}, node |-> n]
                    ELSE [work EXCEPT !.left = @ \ {n}]
    BY <1>4 DEF AgeVisit
  <2>2. work.pc = "walk" /\ n \in Nodes
    BY <1>1, <1>4 DEF AgeVisit, WorkState
  <2>3. work' \in WorkState /\ (work'.pc = "remove" => work'.node = n /\ n \in Hashed)
    BY <1>1, <2>1, <2>2 DEF WorkState
  <2>4. LifeInv'
    BY <1>1, <1>2, <2>2, <2>3 DEF LifeInv, Inside, Hashed
  <2>. QED  BY <1>1, <1>2, <2>3, <2>4, LifeStepInv
<1>. QED  BY <1>3, <1>4

LEMMA DellinkStepInv ==
    ASSUME FdbInv, Dellink \/ CancelAge \/ Destroy
    PROVE  FdbInv'
<1>1. /\ work \in WorkState /\ LifeInv /\ left \subseteq Nodes
      /\ UNCHANGED <<table, node, cpu, grace, seen, fault>>
  BY DEF FdbInv, TypeOK, Dellink, CancelAge, Destroy
<1>2. CASE Dellink
  BY <1>1, <1>2, LifeStepInv DEF Dellink, LifeInv, Inside
<1>3. CASE CancelAge
  <2>1. work' \in WorkState /\ work'.pc = "off"
    BY <1>1, <1>3 DEF CancelAge, WorkState
  <2>2. LifeInv'
    BY <1>1, <1>3, <2>1 DEF CancelAge, LifeInv, Inside
  <2>. QED  BY <1>1, <1>3, <2>1, <2>2, LifeStepInv DEF CancelAge
<1>4. CASE Destroy
  BY <1>1, <1>4, LifeStepInv DEF Destroy, LifeInv, Inside
<1>. QED  BY <1>2, <1>3, <1>4

LEMMA FlushVisitInv ==
    ASSUME FdbInv, NEW n \in Nodes, FlushVisit(n)
    PROVE  FdbInv'
<1>1. /\ work \in WorkState /\ LifeInv /\ left \subseteq Nodes /\ fdb = "flush" /\ left' \subseteq Nodes
      /\ UNCHANGED <<cpu, work, fdb, seen, fault>>
  BY DEF FdbInv, TypeOK, FlushVisit
<1>2. CASE n \in Hashed
  <2>1. Remove(n) /\ node[n].mem = "hashed"
    BY <1>2 DEF FlushVisit, Hashed
  <2>. QED  BY <1>1, <2>1, RemoveInv DEF LifeInv
<1>3. CASE n \notin Hashed
  <2>1. UNCHANGED <<table, node, grace>>
    BY <1>3 DEF FlushVisit
  <2>2. LifeInv'
    BY <1>1, <2>1 DEF LifeInv, Inside
  <2>. QED  BY <1>1, <2>1, <2>2, LifeStepInv
<1>. QED  BY <1>2, <1>3

LEMMA FreeNodeInv ==
    ASSUME FdbInv, NEW n \in Nodes, FreeNode(n)
    PROVE  FdbInv'
<1>1. node \in [Nodes -> NodeState] /\ node[n] \in NodeState
  BY DEF FdbInv, TypeOK
<1>2. PICK x : x = [node[n] EXCEPT !.mem = "free"]
  OBVIOUS
<1>3. x \in NodeState /\ x.mem = "free" /\ x.addr = node[n].addr /\ x.vec = node[n].vec
  BY <1>1, <1>2 DEF NodeState
<1>4. /\ node' = [node EXCEPT ![n] = x] /\ node[n].mem = "dying" /\ grace[n] = {}
      /\ UNCHANGED <<table, cpu, work, fdb, left, grace, seen, fault>>
  BY <1>2 DEF FreeNode
<1>5. node' \in [Nodes -> NodeState] /\ node'[n] = x /\ \A m \in Nodes \ {n} : node'[m] = node[m]
  BY <1>1, <1>3, <1>4
<1>6. TypeOK'
  BY <1>4, <1>5 DEF FdbInv, TypeOK
<1>7. OneNodePerStation'
  <2>1. ASSUME NEW a \in Stations, table[a] # Null PROVE table[a] \in Nodes \ {n}
    BY <1>4, <2>1 DEF FdbInv, TypeOK, OneNodePerStation
  <2>. QED  BY <1>3, <1>4, <1>5, <2>1 DEF FdbInv, OneNodePerStation, Hashed
<1>8. FramesInv'
  <2>1. ASSUME NEW b \in Cpus, NEW g, g = cpu'[b] PROVE FrameGood(b, g)'
    <3>1. FrameGood(b, g) /\ (g.pc \in UsesNode => g.node \in Nodes)
      BY <1>4, <2>1, CpuTypes
    <3>2. g.pc \in Holding \cup {"insert"} => g.node \in Nodes \ {n}
      BY <1>4, <3>1 DEF FrameGood, Holding, UsesNode
    <3>. QED  BY <1>4, <1>5, <3>1, <3>2, FrameStays
  <2>. QED  BY <2>1, FramesNext
<1>9. OwnInv'
  BY <1>4 DEF FdbInv, OwnInv
<1>10. NodesInv'
  <2>1. ASSUME NEW m \in Nodes PROVE NodeGood(m)'
    <3>1. NodeGood(m)
      BY DEF FdbInv, NodesInv
    <3>. QED  BY <1>3, <1>4, <1>5, <3>1, NodeStays
  <2>. QED  BY <2>1 DEF NodesInv
<1>11. LifeInv'
  <2>1. work.pc = "remove" => work.node \in Nodes \ {n}
    BY <1>4 DEF FdbInv, LifeInv
  <2>. QED  BY <1>4, <1>5, <2>1 DEF FdbInv, LifeInv, Inside
<1>. QED  BY <1>6, <1>7, <1>8, <1>9, <1>10, <1>11 DEF FdbInv

-----------------------------------------------------------------------------
(* The invariant                                                            *)

LEMMA FdbInit == Init => FdbInv
<1>. SUFFICES ASSUME Init PROVE FdbInv
  OBVIOUS
<1>1. \A c \in Cpus : cpu[c] = NoFrame
  BY DEF Init
<1>2. \A n \in Nodes : node[n] = BlankNode /\ BlankNode.mem = "free"
  BY DEF Init, BlankNode
<1>3. TypeOK
  BY <1>1, FdbTypes DEF Init, TypeOK, WorkState, UsesNode
<1>4. OneNodePerStation /\ NodesInv
  BY <1>2 DEF Init, OneNodePerStation, Hashed, NodesInv, NodeGood
<1>5. FramesInv /\ OwnInv
  BY <1>1, FdbTypes DEF FramesInv, FrameGood, OwnInv, Learning, Holding
<1>6. LifeInv
  BY DEF Init, LifeInv
<1>. QED  BY <1>3, <1>4, <1>5, <1>6 DEF FdbInv

LEMMA FdbStep ==
    ASSUME FdbInv, [Next]_vars
    PROVE  FdbInv'
<1>1. CASE UNCHANGED vars
  BY <1>1 DEF vars, FdbInv, TypeOK, OneNodePerStation, Hashed, FramesInv, FrameGood, OwnInv,
              NodesInv, NodeGood, LifeInv, Inside
<1>2. CASE \E c \in Cpus : FrameStep(c)
  BY <1>2, LookupInv, TestInv, ZeroInv, SetInv, StampInv, AllocInv, InsertInv, RouteInv, HintInv
     DEF FrameStep
<1>3. CASE \E c \in Cpus : \E src, dst \in Stations, p \in Ports, learns \in BOOLEAN :
              Arrive(c, src, dst, p, learns)
  BY <1>3, ArriveInv
<1>4. CASE \E n \in Nodes : Silence(n) \/ FlushVisit(n) \/ FreeNode(n)
  BY <1>4, SilenceInv, FlushVisitInv, FreeNodeInv
<1>5. CASE AgeWork \/ Dellink \/ CancelAge \/ Destroy
  BY <1>5, AgeInv, AgeRemoveInv, DellinkStepInv DEF AgeWork
<1>. QED  BY <1>1, <1>2, <1>3, <1>4, <1>5 DEF Next

-----------------------------------------------------------------------------
(* Theorems                                                                 *)

THEOREM FdbInvariance == Spec => []FdbInv
<1>. QED  BY FdbInit, FdbStep, PTL DEF Spec

\* Every variable of the forwarding database stays in its type.
THEOREM FdbTypeCorrect == Spec => []TypeOK
<1>1. FdbInv => TypeOK
  BY DEF FdbInv
<1>. QED  BY <1>1, FdbInvariance, PTL

\* rhashtable_lookup_insert_fast publishes one node per station, however many
\* CPUs learn it at once.
THEOREM StationsHaveOneNode == Spec => []OneNodePerStation
<1>1. FdbInv => OneNodePerStation
  BY DEF FdbInv
<1>. QED  BY <1>1, FdbInvariance, PTL

\* call_rcu in ubr_fdb_node_delete keeps a node for the frames that found it.
THEOREM NodesOutliveFrames == Spec => []NodeOutlivesFrame
<1>1. FdbInv => NodeOutlivesFrame
  BY DEF FdbInv, FramesInv, FrameGood, Holding, NodeOutlivesFrame
<1>. QED  BY <1>1, FdbInvariance, PTL

\* No node points to a port its station was not heard on.
THEOREM HintsComeFromFrames == Spec => []HintsWereSeen
<1>1. FdbInv => HintsWereSeen
  BY DEF FdbInv, NodesInv, NodeGood, HintsWereSeen, Hashed
<1>. QED  BY <1>1, FdbInvariance, PTL

\* However the two stores of several moves interleave, a node is only empty while
\* one of the moves has its second store to do.
THEOREM MovesLoseNoStation == Spec => []NoBlackHole
<1>1. FdbInv => NoBlackHole
  BY DEF FdbInv, NodesInv, NodeGood, NoBlackHole, Hashed
<1>. QED  BY <1>1, FdbInvariance, PTL

\* cancel_delayed_work_sync ends the ageing work for good, and ubr_port_del has
\* waited for the frames of the slave ports, before the table is destroyed.
THEOREM DestroyedIsQuiet == Spec => []QuietWhenDestroyed
<1>1. FdbInv => QuietWhenDestroyed
  BY DEF FdbInv, LifeInv, QuietWhenDestroyed
<1>. QED  BY <1>1, FdbInvariance, PTL
-----------------------------------------------------------------------------
(* The database is a plain table                                            *)

\* Stores to nodes that are not in the table do not show.
LEMMA SameTable ==
    ASSUME UNCHANGED table,
           \A a \in Stations : table[a] # Null => node'[table[a]].vec = node[table[a]].vec
    PROVE  UNCHANGED <<Known, KnownPorts>>
BY DEF Known, KnownPorts

\* A store to the node of station a.
LEMMA OneEntry ==
    ASSUME FdbInv, NEW n \in Nodes, node[n].mem = "hashed", UNCHANGED table,
           \A m \in Nodes \ {n} : node'[m] = node[m]
    PROVE  /\ node[n].addr \in Known
           /\ KnownPorts[node[n].addr] = node[n].vec
           /\ UNCHANGED Known
           /\ KnownPorts' = [KnownPorts EXCEPT ![node[n].addr] = node'[n].vec]
<1>1. PICK a : a = node[n].addr
  OBVIOUS
<1>2. a \in Stations /\ table[a] = n /\ n # Null
  BY <1>1, FdbTypes DEF FdbInv, OneNodePerStation, Hashed, NodesInv, NodeGood
<1>3. \A b \in Stations \ {a} : table[b] # Null => table[b] \in Nodes \ {n}
  BY <1>1 DEF FdbInv, TypeOK, OneNodePerStation
<1>4. a \in Known /\ KnownPorts[a] = node[n].vec /\ UNCHANGED Known
  BY <1>2 DEF Known, KnownPorts
<1>5. \A b \in Stations : (IF table'[b] = Null THEN {} ELSE node'[table'[b]].vec)
                             = IF b = a THEN node'[n].vec ELSE KnownPorts[b]
  BY <1>2, <1>3 DEF KnownPorts
<1>6. KnownPorts' = [b \in Stations |-> IF b = a THEN node'[n].vec ELSE KnownPorts[b]]
  BY <1>5 DEF KnownPorts
<1>7. KnownPorts' = [KnownPorts EXCEPT ![a] = node'[n].vec]
  BY <1>6 DEF KnownPorts
<1>. QED  BY <1>1, <1>4, <1>7

\* The first store of a move empties the entry of a station heard on two ports.
LEMMA ZeroLeaves ==
    ASSUME FdbInv, NEW c \in Cpus, Zero(c)
    PROVE  [Table!Next]_(Table!vars)
<1>1. PICK n, x, a : /\ n = cpu[c].node
                     /\ x = [node[n] EXCEPT !.vec = {}]
                     /\ a = cpu[c].src
  OBVIOUS
<1>2. /\ n \in Nodes /\ node[n] \in NodeState /\ a \in Stations /\ node[n].addr = a
      /\ node[n].mem \in {"hashed", "dying"}
      /\ \E p, q \in seen[a] : p # q
  BY <1>1, CpuTypes DEF Zero, At, UsesNode, FrameGood, Holding
<1>3. node' = [node EXCEPT ![n] = x] /\ UNCHANGED <<table, seen>>
  BY <1>1 DEF Zero
<1>4. x.vec = {}
  BY <1>1, <1>2 DEF NodeState
<1>5. node'[n].vec = {} /\ \A m \in Nodes \ {n} : node'[m] = node[m]
  BY <1>2, <1>3, <1>4 DEF FdbInv, TypeOK
<1>6. CASE node[n].mem = "hashed"
  <2>1. Table!Leave(a)
    BY <1>2, <1>3, <1>5, <1>6, OneEntry DEF Table!Leave
  <2>. QED  BY <1>2, <2>1 DEF Table!Next
<1>7. CASE node[n].mem = "dying"
  <2>1. \A b \in Stations : table[b] # Null => table[b] \in Nodes \ {n}
    BY <1>7 DEF FdbInv, TypeOK, OneNodePerStation
  <2>. QED  BY <1>3, <1>5, <2>1, SameTable DEF Table!vars
<1>. QED  BY <1>2, <1>6, <1>7

\* The second sets the port the station is now on.
LEMMA SetJoins ==
    ASSUME FdbInv, NEW c \in Cpus, Set(c)
    PROVE  [Table!Next]_(Table!vars)
<1>1. PICK n, x, a, p : /\ n = cpu[c].node
                        /\ x = [node[n] EXCEPT !.vec = @ \cup {cpu[c].port}]
                        /\ a = cpu[c].src /\ p = cpu[c].port
  OBVIOUS
<1>2. /\ n \in Nodes /\ node[n] \in NodeState /\ a \in Stations /\ node[n].addr = a
      /\ node[n].mem \in {"hashed", "dying"}
      /\ p \in seen[a] /\ p \in Ports
  BY <1>1, CpuTypes DEF Set, At, UsesNode, FrameGood, Learning, Holding
<1>3. node' = [node EXCEPT ![n] = x] /\ UNCHANGED <<table, seen>>
  BY <1>1 DEF Set
<1>4. x.vec = node[n].vec \cup {p}
  BY <1>1, <1>2 DEF NodeState
<1>5. node'[n].vec = node[n].vec \cup {p} /\ \A m \in Nodes \ {n} : node'[m] = node[m]
  BY <1>2, <1>3, <1>4 DEF FdbInv, TypeOK
<1>6. CASE node[n].mem = "hashed"
  <2>1. /\ a \in Known /\ KnownPorts[a] = node[n].vec /\ UNCHANGED Known
        /\ KnownPorts' = [KnownPorts EXCEPT ![a] = node[n].vec \cup {p}]
    BY <1>2, <1>3, <1>5, <1>6, OneEntry
  <2>2. KnownPorts' = [KnownPorts EXCEPT ![a] = KnownPorts[a] \cup {p}]
    BY <2>1
  <2>3. Table!Join(a, p)
    BY <1>2, <1>3, <2>1, <2>2 DEF Table!Join
  <2>. QED  BY <1>2, <2>3 DEF Table!Next
<1>7. CASE node[n].mem = "dying"
  <2>1. \A b \in Stations : table[b] # Null => table[b] \in Nodes \ {n}
    BY <1>7 DEF FdbInv, TypeOK, OneNodePerStation
  <2>. QED  BY <1>3, <1>5, <2>1, SameTable DEF Table!vars
<1>. QED  BY <1>2, <1>6, <1>7

\* Publishing a node enters its station; a node that is not published does not show.
LEMMA InsertLearns ==
    ASSUME FdbInv, NEW c \in Cpus, Insert(c)
    PROVE  [Table!Next]_(Table!vars)
<1>1. PICK n, a, p : n = cpu[c].node /\ a = cpu[c].src /\ p = cpu[c].port
  OBVIOUS
<1>2. /\ n \in Nodes /\ node[n] \in NodeState /\ a \in Stations /\ n # Null
      /\ node[n].mem = "private" /\ node[n].vec = {p}
      /\ p \in seen[a] /\ p \in Ports
  BY <1>1, CpuTypes, FdbTypes DEF Insert, At, UsesNode, FrameGood, Learning
<1>3. \A b \in Stations : table[b] # Null => table[b] \in Nodes \ {n}
  BY <1>2 DEF FdbInv, TypeOK, OneNodePerStation
<1>4. UNCHANGED seen
  BY DEF Insert, UseDestroyed
<1>5. ASSUME NEW mem, node' = [node EXCEPT ![n].mem = mem]
      PROVE  node'[n].vec = {p} /\ \A m \in Nodes \ {n} : node'[m] = node[m]
  <2>1. node \in [Nodes -> NodeState]
    BY DEF FdbInv, TypeOK
  <2>2. PICK x : x = [node[n] EXCEPT !.mem = mem]
    OBVIOUS
  <2>3. x.vec = {p}
    BY <1>2, <2>2 DEF NodeState
  <2>. QED  BY <1>2, <1>5, <2>1, <2>2, <2>3
<1>6. CASE UseDestroyed
  BY <1>4, <1>6, SameTable DEF UseDestroyed, Table!vars
<1>7. CASE UNCHANGED table /\ node' = [node EXCEPT ![n].mem = "free"]
  BY <1>3, <1>4, <1>5, <1>7, SameTable DEF Table!vars
<1>8. CASE /\ table[a] = Null /\ table' = [table EXCEPT ![a] = n]
           /\ node' = [node EXCEPT ![n].mem = "hashed"]
  <2>1. table'[a] = n /\ \A b \in Stations \ {a} : table'[b] = table[b]
    BY <1>2, <1>8 DEF FdbInv, TypeOK
  <2>2. node'[n].vec = {p} /\ \A m \in Nodes \ {n} : node'[m] = node[m]
    BY <1>5, <1>8
  <2>3. a \notin Known /\ Known' = Known \cup {a}
    BY <1>2, <1>8, <2>1 DEF Known
  <2>4. \A b \in Stations : (IF table'[b] = Null THEN {} ELSE node'[table'[b]].vec)
                               = IF b = a THEN {p} ELSE KnownPorts[b]
    BY <1>2, <1>3, <2>1, <2>2 DEF KnownPorts
  <2>5. KnownPorts' = [b \in Stations |-> IF b = a THEN {p} ELSE KnownPorts[b]]
    BY <2>4 DEF KnownPorts
  <2>6. KnownPorts' = [KnownPorts EXCEPT ![a] = {p}]
    BY <2>5 DEF KnownPorts
  <2>7. Table!Learn(a, p)
    BY <1>2, <1>4, <2>3, <2>6 DEF Table!Learn
  <2>. QED  BY <1>2, <2>7 DEF Table!Next
<1>. QED  BY <1>1, <1>6, <1>7, <1>8 DEF Insert

\* Ageing and the flush forget a station at a time.
LEMMA RemoveForgets ==
    ASSUME FdbInv, NEW n \in Nodes, node[n].mem = "hashed", Remove(n), UNCHANGED seen
    PROVE  Table!Next
<1>1. PICK a : a = node[n].addr
  OBVIOUS
<1>2. /\ a \in Stations /\ table[a] = n /\ n # Null
      /\ table' = [table EXCEPT ![a] = Null]
      /\ \A m \in Nodes \ {n} : node'[m] = node[m]
  BY <1>1, RemoveEffect, FdbTypes
<1>3. table'[a] = Null /\ \A b \in Stations \ {a} : table'[b] = table[b]
  BY <1>2 DEF FdbInv, TypeOK
<1>4. \A b \in Stations \ {a} : table[b] # Null => table[b] \in Nodes \ {n}
  BY <1>1 DEF FdbInv, TypeOK, OneNodePerStation
<1>5. a \in Known /\ Known' = Known \ {a}
  BY <1>2, <1>3 DEF Known
<1>6. \A b \in Stations : (IF table'[b] = Null THEN {} ELSE node'[table'[b]].vec)
                             = IF b = a THEN {} ELSE KnownPorts[b]
  BY <1>2, <1>3, <1>4 DEF KnownPorts
<1>7. KnownPorts' = [b \in Stations |-> IF b = a THEN {} ELSE KnownPorts[b]]
  BY <1>6 DEF KnownPorts
<1>8. KnownPorts' = [KnownPorts EXCEPT ![a] = {}]
  BY <1>7 DEF KnownPorts
<1>9. Table!Forget(a)
  BY <1>5, <1>8 DEF Table!Forget
<1>. QED  BY <1>2, <1>9 DEF Table!Next

\* A node that changes in another way, or is not in the table, does not show.
LEMMA StoreDoesNotShow ==
    ASSUME FdbInv, NEW n \in Nodes, NEW x, node' = [node EXCEPT ![n] = x],
           node[n].mem # "hashed" \/ x.vec = node[n].vec, UNCHANGED <<table, seen>>
    PROVE  UNCHANGED Table!vars
<1>1. node'[n] = x /\ \A m \in Nodes \ {n} : node'[m] = node[m]
  BY DEF FdbInv, TypeOK
<1>2. \A b \in Stations : table[b] # Null =>
         table[b] \in Nodes /\ node[table[b]].mem = "hashed"
  BY DEF FdbInv, TypeOK, OneNodePerStation
<1>3. \A b \in Stations : table[b] # Null => node'[table[b]].vec = node[table[b]].vec
  BY <1>1, <1>2
<1>. QED  BY <1>3, SameTable DEF Table!vars

LEMMA OtherFrameSteps ==
    ASSUME FdbInv, NEW c \in Cpus,
           Lookup(c) \/ Test(c) \/ Stamp(c) \/ Alloc(c) \/ Route(c) \/ Hint(c)
    PROVE  UNCHANGED Table!vars
<1>1. ASSUME UNCHANGED <<table, node, seen>> PROVE UNCHANGED Table!vars
  BY <1>1, SameTable DEF Table!vars
<1>2. CASE Lookup(c) \/ Test(c) \/ Route(c) \/ Hint(c)
  BY <1>1, <1>2 DEF Lookup, Test, Route, Hint, Leave, UseDestroyed
<1>3. CASE Stamp(c)
  <2>1. PICK n, x : n = cpu[c].node /\ x = [node[n] EXCEPT !.old = FALSE]
    OBVIOUS
  <2>2. n \in Nodes /\ node[n] \in NodeState
    BY <1>3, <2>1, CpuTypes DEF Stamp, At, UsesNode
  <2>3. x.vec = node[n].vec
    BY <2>1, <2>2 DEF NodeState
  <2>4. node' = [node EXCEPT ![n] = x] /\ UNCHANGED <<table, seen>>
    BY <1>3, <2>1 DEF Stamp
  <2>. QED  BY <2>2, <2>3, <2>4, StoreDoesNotShow
<1>4. CASE Alloc(c)
  <2>1. UNCHANGED <<table, seen>>
    BY <1>4 DEF Alloc
  <2>2. CASE UNCHANGED node
    BY <1>1, <2>1, <2>2
  <2>3. ASSUME NEW n \in Nodes, NEW x, node[n].mem = "free", node' = [node EXCEPT ![n] = x]
        PROVE  UNCHANGED Table!vars
    BY <2>1, <2>3, StoreDoesNotShow
  <2>. QED  BY <1>4, <2>2, <2>3 DEF Alloc
<1>. QED  BY <1>2, <1>3, <1>4

LEMMA FdbRefines ==
    ASSUME FdbInv, [Next]_vars
    PROVE  [Table!Next]_(Table!vars)
<1>1. ASSUME UNCHANGED <<table, node, seen>> PROVE UNCHANGED Table!vars
  BY <1>1, SameTable DEF Table!vars
<1>2. CASE UNCHANGED vars
  BY <1>1, <1>2 DEF vars
<1>3. CASE \E c \in Cpus : FrameStep(c)
  BY <1>3, ZeroLeaves, SetJoins, InsertLearns, OtherFrameSteps DEF FrameStep
<1>4. ASSUME NEW c \in Cpus, NEW src \in Stations, NEW dst \in Stations, NEW p \in Ports,
             NEW learns \in BOOLEAN, Arrive(c, src, dst, p, learns)
      PROVE  [Table!Next]_(Table!vars)
  <2>1. UNCHANGED <<Known, KnownPorts>>
    BY <1>4, SameTable DEF Arrive
  <2>2. CASE learns
    <3>1. Table!Hear(src, p)
      BY <1>4, <2>1, <2>2 DEF Arrive, Table!Hear
    <3>. QED  BY <3>1 DEF Table!Next
  <2>3. CASE ~learns
    BY <1>4, <2>1, <2>3 DEF Arrive, Table!vars
  <2>. QED  BY <2>2, <2>3
<1>5. ASSUME NEW n \in Nodes, Silence(n) \/ FreeNode(n)
      PROVE  UNCHANGED Table!vars
  <2>1. node[n] \in NodeState /\ UNCHANGED <<table, seen>>
    BY <1>5 DEF FdbInv, TypeOK, Silence, FreeNode
  <2>2. PICK x, y : x = [node[n] EXCEPT !.old = TRUE] /\ y = [node[n] EXCEPT !.mem = "free"]
    OBVIOUS
  <2>3. x.vec = node[n].vec /\ y.vec = node[n].vec
    BY <2>1, <2>2 DEF NodeState
  <2>4. node' = [node EXCEPT ![n] = x] \/ node' = [node EXCEPT ![n] = y]
    BY <1>5, <2>2 DEF Silence, FreeNode
  <2>. QED  BY <2>1, <2>3, <2>4, StoreDoesNotShow
<1>6. ASSUME NEW n \in Nodes, FlushVisit(n) PROVE [Table!Next]_(Table!vars)
  BY <1>1, <1>6, RemoveForgets DEF FlushVisit, Hashed
<1>7. CASE AgeRemove
  BY <1>7, RemoveForgets DEF AgeRemove, FdbInv, LifeInv
<1>8. CASE AgeStart \/ AgeVisit \/ AgeDone \/ Dellink \/ CancelAge \/ Destroy
  BY <1>1, <1>8 DEF AgeStart, AgeVisit, AgeDone, Dellink, CancelAge, Destroy
<1>. QED  BY <1>2, <1>3, <1>4, <1>5, <1>6, <1>7, <1>8 DEF Next, AgeWork

\* The lock-free table, with its reused and retired nodes, implements a plain
\* table that maps each known station to ports it was heard on.
THEOREM FdbImplementsTable == Spec => ImplementsTable
<1>1. Init => Table!Init
  BY DEF Init, Table!Init, Known, KnownPorts
<1>2. FdbInv /\ [Next]_vars => [Table!Next]_(Table!vars)
  BY FdbRefines
<1>. QED  BY <1>1, <1>2, FdbInvariance, PTL DEF Spec, ImplementsTable, Table!Spec

=============================================================================
