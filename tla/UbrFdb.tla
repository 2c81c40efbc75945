------------------------------- MODULE UbrFdb -------------------------------
(* The forwarding database of one bridge: several CPUs learn stations from  *)
(* the frames they handle and look up destinations, without any lock, while *)
(* the ageing work removes stations not heard from, and ubr_fdb_dellink     *)
(* takes the table down.                                                    *)
(*                                                                          *)
(* A station stands for a key (VID and address).  Nodes are memory: they    *)
(* come from a slab, are published in the hash table, and return to the     *)
(* slab an RCU grace period after their removal.                            *)
EXTENDS Naturals, FiniteSets

CONSTANTS Cpus, Stations, Ports,
          HostPort,  \* slot 0: frames the host sends
          Nodes,     \* the memory of ubr_fdb_cache
          Null

ASSUME FdbAssumption ==
    /\ HostPort \in Ports
    /\ Null \notin Nodes

VARIABLES
    table,  \* fdb->nodes, the rhashtable: station -> node
    node,   \* the contents of each piece of node memory
    cpu,    \* CPU -> the frame it is handling
    work,   \* the ageing work, and its walk of the table
    fdb,    \* the table's life: "up", "cancel", "flush", "destroyed"
    left,   \* the places dellink's flush has still to visit
    grace,  \* RCU: node handed to call_rcu -> CPUs it waits for
    seen,   \* ghost: station -> ports its frames have come in on
    fault   \* ghost: a CPU has used the table after its destruction

vars == <<table, node, cpu, work, fdb, left, grace, seen, fault>>

NodeState == [mem : {"free", "private", "hashed", "dying"},
              addr : Stations \cup {Null}, vec : SUBSET Ports, old : BOOLEAN]
CpuState == [pc : {"idle", "lookup", "test", "zero", "set", "stamp", "alloc",
                   "insert", "route", "hint"},
             src : Stations \cup {Null}, dst : Stations \cup {Null},
             port : Ports, node : Nodes \cup {Null}]
WorkState == [pc : {"queued", "walk", "remove", "off"},
              left : SUBSET Nodes, node : Nodes \cup {Null}]

UsesNode == {"test", "zero", "set", "stamp", "insert", "hint"}

BlankNode == [mem |-> "free", addr |-> Null, vec |-> {}, old |-> FALSE]
NoFrame == [pc |-> "idle", src |-> Null, dst |-> Null, port |-> HostPort, node |-> Null]

Hashed == {n \in Nodes : node[n].mem = "hashed"}
Inside == {c \in Cpus : cpu[c].pc # "idle"}

-----------------------------------------------------------------------------
(* A frame on a CPU                                                         *)

\* A step of CPU c at pc that leaves the frame as f.
At(c, pc) == ~fault /\ cpu[c].pc = pc
Becomes(c, f) == cpu' = [cpu EXCEPT ![c] = f]
Goto(c, pc) == Becomes(c, [cpu[c] EXCEPT !.pc = pc])
\* Using the table once it is destroyed.
UseDestroyed == /\ fdb = "destroyed"
                /\ fault' = TRUE
                /\ UNCHANGED <<table, node, cpu, work, fdb, left, grace, seen>>

\* A frame from src to dst arrives on port p.  It teaches the FDB unless
\* learning is off or its source address is invalid.  Once dellink has removed
\* the slave ports only the host still sends.
Arrive(c, src, dst, p, learns) ==
    /\ At(c, "idle")
    /\ p = HostPort \/ fdb = "up"
    /\ Becomes(c, [pc |-> IF learns THEN "lookup" ELSE "route",
                   src |-> src, dst |-> dst, port |-> p, node |-> Null])
    /\ seen' = IF learns THEN [seen EXCEPT ![src] = @ \cup {p}] ELSE seen
    /\ UNCHANGED <<table, node, work, fdb, left, grace, fault>>

Lookup(c) ==
    /\ At(c, "lookup")
    /\ \/ /\ fdb # "destroyed"
          /\ LET n == table[cpu[c].src]
             IN  Becomes(c, [cpu[c] EXCEPT !.pc = IF n = Null THEN "alloc" ELSE "test",
                                           !.node = n])
          /\ UNCHANGED <<table, node, work, fdb, left, grace, seen, fault>>
       \/ UseDestroyed

\* A known station: has it moved?
Test(c) ==
    /\ At(c, "test")
    /\ Goto(c, IF cpu[c].port \in node[cpu[c].node].vec THEN "stamp" ELSE "zero")
    /\ UNCHANGED <<table, node, work, fdb, left, grace, seen, fault>>

\* Mutant: the new port is not set after the old one is cleared.
ZeroOnly(c) ==
    /\ At(c, "zero")
    /\ node' = [node EXCEPT ![cpu[c].node].vec = {}]
    /\ Goto(c, "stamp")
    /\ UNCHANGED <<table, work, fdb, left, grace, seen, fault>>

\* A move is two stores that other CPUs may come between.
Zero(c) ==
    /\ At(c, "zero")
    /\ node' = [node EXCEPT ![cpu[c].node].vec = {}]
    /\ Goto(c, "set")
    /\ UNCHANGED <<table, work, fdb, left, grace, seen, fault>>

Set(c) ==
    /\ At(c, "set")
    /\ node' = [node EXCEPT ![cpu[c].node].vec = @ \cup {cpu[c].port}]
    /\ Goto(c, "stamp")
    /\ UNCHANGED <<table, work, fdb, left, grace, seen, fault>>

\* Mutant: the learner keeps the node after it is done with it.
StampKeepsNode(c) ==
    /\ At(c, "stamp")
    /\ node' = [node EXCEPT ![cpu[c].node].old = FALSE]
    /\ Goto(c, "route")
    /\ UNCHANGED <<table, work, fdb, left, grace, seen, fault>>

Stamp(c) ==
    /\ At(c, "stamp")
    /\ node' = [node EXCEPT ![cpu[c].node].old = FALSE]
    /\ Becomes(c, [cpu[c] EXCEPT !.pc = "route", !.node = Null])
    /\ UNCHANGED <<table, work, fdb, left, grace, seen, fault>>

\* Mutant: the node is not zeroed when it is allocated.
AllocUnzeroed(c) ==
    /\ At(c, "alloc")
    /\ \E n \in Nodes :
          /\ node[n].mem = "free"
          /\ node' = [node EXCEPT ![n] = [node[n] EXCEPT !.mem = "private", !.old = FALSE,
                                            !.addr = cpu[c].src, !.vec = @ \cup {cpu[c].port}]]
          /\ Becomes(c, [cpu[c] EXCEPT !.pc = "insert", !.node = n])
    /\ UNCHANGED <<table, work, fdb, left, grace, seen, fault>>

\* An unknown station: a zeroed node is filled in, or there is no memory.
Alloc(c) ==
    /\ At(c, "alloc")
    /\ \/ \E n \in Nodes :
            /\ node[n].mem = "free"
            /\ node' = [node EXCEPT ![n] = [BlankNode EXCEPT !.mem = "private",
                                              !.addr = cpu[c].src, !.vec = {cpu[c].port}]]
            /\ Becomes(c, [cpu[c] EXCEPT !.pc = "insert", !.node = n])
       \/ /\ Goto(c, "route")
          /\ UNCHANGED node
    /\ UNCHANGED <<table, work, fdb, left, grace, seen, fault>>

\* Mutant: the node is published without looking for an earlier one.
InsertBlindly(c) ==
    /\ At(c, "insert")
    /\ fdb # "destroyed"
    /\ table' = [table EXCEPT ![cpu[c].src] = cpu[c].node]
    /\ node' = [node EXCEPT ![cpu[c].node].mem = "hashed"]
    /\ Becomes(c, [cpu[c] EXCEPT !.pc = "route", !.node = Null])
    /\ UNCHANGED <<work, fdb, left, grace, seen, fault>>

\* rhashtable_lookup_insert_fast publishes the node unless the station is
\* there by now, or it fails.
Insert(c) ==
    /\ At(c, "insert")
    /\ \/ /\ fdb # "destroyed"
          /\ Becomes(c, [cpu[c] EXCEPT !.pc = "route", !.node = Null])
          /\ \/ /\ table[cpu[c].src] = Null
                /\ table' = [table EXCEPT ![cpu[c].src] = cpu[c].node]
                /\ node' = [node EXCEPT ![cpu[c].node].mem = "hashed"]
             \/ /\ node' = [node EXCEPT ![cpu[c].node].mem = "free"]
                /\ UNCHANGED table
          /\ UNCHANGED <<work, fdb, left, grace, seen, fault>>
       \/ UseDestroyed

\* The frame is done: its RCU read-side section ends.
Leave(c) ==
    /\ Becomes(c, NoFrame)
    /\ grace' = [n \in Nodes |-> grace[n] \ {c}]
    /\ UNCHANGED <<table, node, work, fdb, left, seen, fault>>

\* The second half of ubr_fdb_forward: the destination is looked up ...
Route(c) ==
    /\ At(c, "route")
    /\ \/ /\ fdb # "destroyed"
          /\ LET n == table[cpu[c].dst]
             IN  \/ n = Null /\ Leave(c)       \* flood
                 \/ /\ n # Null
                    /\ Becomes(c, [cpu[c] EXCEPT !.pc = "hint", !.node = n])
                    /\ UNCHANGED <<table, node, work, fdb, left, grace, seen, fault>>
       \/ UseDestroyed

\* ... and its node read, for its age and its port vector.
Hint(c) == At(c, "hint") /\ Leave(c)

-----------------------------------------------------------------------------
(* Ageing and removal                                                       *)

\* ageing_timeout passes without a frame from the station of n.
Silence(n) ==
    /\ ~fault
    /\ node[n].mem = "hashed" /\ ~node[n].old
    /\ node' = [node EXCEPT ![n].old = TRUE]
    /\ UNCHANGED <<table, cpu, work, fdb, left, grace, seen, fault>>

\* Mutant: the node is freed without a grace period.
RemoveAtOnce(n) ==
    /\ table' = [table EXCEPT ![node[n].addr] = IF @ = n THEN Null ELSE @]
    /\ node' = [node EXCEPT ![n].mem = "free"]
    /\ UNCHANGED grace

\* rhashtable_remove_fast and call_rcu.
Remove(n) ==
    /\ table' = [table EXCEPT ![node[n].addr] = IF @ = n THEN Null ELSE @]
    /\ node' = [node EXCEPT ![n].mem = "dying"]
    /\ grace' = [grace EXCEPT ![n] = Inside]

\* ubr_fdb_age: the walk comes by each place a node can be once, so it visits
\* every node that is in the table throughout, and perhaps newer ones.
AgeStart ==
    /\ ~fault
    /\ work.pc = "queued"
    /\ fdb = "up"
    /\ work' = [pc |-> "walk", left |-> Nodes, node |-> Null]
    /\ UNCHANGED <<table, node, cpu, fdb, left, grace, seen, fault>>

AgeVisit ==
    /\ ~fault
    /\ work.pc = "walk"
    /\ \E n \in work.left :
         work' = IF n \in Hashed /\ node[n].old
                   THEN [pc |-> "remove", left |-> work.left \ {n}, node |-> n]
                   ELSE [work EXCEPT !.left = @ \ {n}]
    /\ UNCHANGED <<table, node, cpu, fdb, left, grace, seen, fault>>

\* The node is removed even if it was refreshed since the visit.
AgeRemove ==
    /\ ~fault
    /\ work.pc = "remove"
    /\ Remove(work.node)
    /\ work' = [work EXCEPT !.pc = "walk", !.node = Null]
    /\ UNCHANGED <<cpu, fdb, left, seen, fault>>

\* Mutant: the ageing work does not queue itself again.
AgeDoneOnce ==
    /\ ~fault
    /\ work.pc = "walk" /\ work.left = {}
    /\ work' = [pc |-> "off", left |-> {}, node |-> Null]
    /\ UNCHANGED <<table, node, cpu, fdb, left, grace, seen, fault>>

\* The work queues itself again, which a cancellation under way prevents.
AgeDone ==
    /\ ~fault
    /\ work.pc = "walk" /\ work.left = {}
    /\ work' = [pc |-> IF fdb = "up" THEN "queued" ELSE "off", left |-> {}, node |-> Null]
    /\ UNCHANGED <<table, node, cpu, fdb, left, grace, seen, fault>>

\* ubr_dev_dellink reaches ubr_fdb_dellink after ubr_port_del has waited for
\* the frames of every slave port.
Dellink ==
    /\ ~fault
    /\ fdb = "up"
    /\ \A c \in Inside : cpu[c].port = HostPort
    /\ fdb' = "cancel"
    /\ UNCHANGED <<table, node, cpu, work, left, grace, seen, fault>>

\* Mutant: cancel_delayed_work, which does not wait for running work.
CancelAgeNoWait ==
    /\ ~fault
    /\ fdb = "cancel"
    /\ work' = IF work.pc = "queued" THEN [work EXCEPT !.pc = "off"] ELSE work
    /\ fdb' = "flush"
    /\ left' = Nodes
    /\ UNCHANGED <<table, node, cpu, grace, seen, fault>>

\* cancel_delayed_work_sync takes the work off the queue, or waits for its end.
CancelAge ==
    /\ ~fault
    /\ fdb = "cancel"
    /\ work.pc \in {"queued", "off"}
    /\ work' = [work EXCEPT !.pc = "off"]
    /\ fdb' = "flush"
    /\ left' = Nodes
    /\ UNCHANGED <<table, node, cpu, grace, seen, fault>>

\* Mutant: the walk starts over after each node.
FlushRestarts(n) ==
    /\ ~fault
    /\ fdb = "flush"
    /\ n \in left
    /\ IF n \in Hashed THEN Remove(n) ELSE UNCHANGED <<table, node, grace>>
    /\ UNCHANGED <<cpu, work, fdb, left, seen, fault>>

\* ubr_fdb_flush with no filter.  Like the ageing walk, it comes by each place
\* once: a node learned behind its back stays in the table.
FlushVisit(n) ==
    /\ ~fault
    /\ fdb = "flush"
    /\ n \in left
    /\ IF n \in Hashed THEN Remove(n) ELSE UNCHANGED <<table, node, grace>>
    /\ left' = left \ {n}
    /\ UNCHANGED <<cpu, work, fdb, seen, fault>>

\* rhashtable_destroy.
Destroy ==
    /\ ~fault
    /\ fdb = "flush" /\ left = {}
    /\ fdb' = "destroyed"
    /\ UNCHANGED <<table, node, cpu, work, left, grace, seen, fault>>

\* ubr_fdb_node_delete_rcu, after the grace period.
FreeNode(n) ==
    /\ ~fault
    /\ node[n].mem = "dying" /\ grace[n] = {}
    /\ node' = [node EXCEPT ![n].mem = "free"]
    /\ UNCHANGED <<table, cpu, work, fdb, left, grace, seen, fault>>

-----------------------------------------------------------------------------
\* The state ubr_fdb_newlink leaves.
Init ==
    /\ table = [a \in Stations |-> Null]
    /\ node = [n \in Nodes |-> BlankNode]
    /\ cpu = [c \in Cpus |-> NoFrame]
    /\ work = [pc |-> "queued", left |-> {}, node |-> Null]
    /\ fdb = "up"
    /\ left = {}
    /\ grace = [n \in Nodes |-> {}]
    /\ seen = [a \in Stations |-> {}]
    /\ fault = FALSE

FrameStep(c) ==
    \/ Lookup(c) \/ Test(c) \/ Zero(c) \/ Set(c) \/ Stamp(c)
    \/ Alloc(c) \/ Insert(c) \/ Route(c) \/ Hint(c)

AgeWork == AgeStart \/ AgeVisit \/ AgeRemove \/ AgeDone

Next ==
    \/ \E c \in Cpus :
         \/ \E src, dst \in Stations, p \in Ports, learns \in BOOLEAN :
               Arrive(c, src, dst, p, learns)
         \/ FrameStep(c)
    \/ \E n \in Nodes : Silence(n) \/ FlushVisit(n) \/ FreeNode(n)
    \/ AgeWork
    \/ Dellink \/ CancelAge \/ Destroy

Spec == Init /\ [][Next]_vars

\* Softirqs run to completion, time passes, the work queue runs its work.
\* Frames need not arrive and the bridge need not be deleted.
Fairness ==
    /\ \A c \in Cpus : WF_vars(FrameStep(c))
    /\ \A n \in Nodes : WF_vars(Silence(n)) /\ WF_vars(FreeNode(n))
    /\ WF_vars(AgeWork)
    /\ WF_vars(CancelAge) /\ WF_vars(\E n \in Nodes : FlushVisit(n)) /\ WF_vars(Destroy)
FairSpec == Spec /\ Fairness

-----------------------------------------------------------------------------
(* Properties                                                               *)

\* Every variable stays in its type, and a CPU holds a node in exactly the steps
\* that use one.
TypeOK ==
    /\ table \in [Stations -> Nodes \cup {Null}]
    /\ node \in [Nodes -> NodeState]
    /\ cpu \in [Cpus -> CpuState]
    /\ work \in WorkState
    /\ fdb \in {"up", "cancel", "flush", "destroyed"}
    /\ left \subseteq Nodes
    /\ grace \in [Nodes -> SUBSET Cpus]
    /\ seen \in [Stations -> SUBSET Ports]
    /\ fault \in BOOLEAN
    /\ \A c \in Cpus : cpu[c].node # Null <=> cpu[c].pc \in UsesNode

\* However many CPUs learn a station at once, it has one node in the table,
\* and every published node is the one the table finds for its station.
OneNodePerStation ==
    /\ \A a \in Stations : table[a] # Null =>
          /\ node[table[a]].mem = "hashed"
          /\ node[table[a]].addr = a
    /\ \A n \in Hashed : table[node[n].addr] = n

\* A frame that holds a node, learner or reader, never finds it freed, or
\* freed and used again, under it.
NodeOutlivesFrame ==
    \A c \in Cpus : cpu[c].pc \in {"test", "zero", "set", "stamp", "hint"} =>
        /\ node[cpu[c].node].mem \in {"hashed", "dying"}
        /\ node[cpu[c].node].addr = IF cpu[c].pc = "hint" THEN cpu[c].dst ELSE cpu[c].src

\* A node never points to a port its station was never heard on, in spite of
\* reused memory and of moves that overlap.
HintsWereSeen ==
    \A n \in Hashed : node[n].vec \subseteq seen[node[n].addr]

\* A node that points nowhere, so that frames to its station are dropped, is
\* one whose move is under way: no overlap of moves loses a station for good.
NoBlackHole ==
    \A n \in Hashed : node[n].vec = {} =>
        \E c \in Cpus : cpu[c].pc = "set" /\ cpu[c].node = n

\* When ubr_fdb_dellink destroys the table, the ageing work is neither running
\* nor queued, although it queues itself, and no slave port's frame is inside.
QuietWhenDestroyed ==
    fdb = "destroyed" => /\ work.pc = "off"
                         /\ \A c \in Inside : cpu[c].port = HostPort

\* A station that falls silent for good is forgotten, unless the bridge is
\* deleted first: ubr_fdb_age queues itself again and again.
Quiet(a) == \A c \in Cpus : cpu[c].src # a
SilentIsForgotten ==
    \A a \in Stations : <>[](fdb = "up" /\ Quiet(a)) => <>[](table[a] = Null)

\* A deletion of the bridge that has begun comes to its end, or crashes.
DellinkCompletes == fdb = "cancel" ~> (fdb = "destroyed" \/ fault)

\* test.sh:179 "learning: host move ok": once a station has moved, its frames
\* go to its new port and no other.  Two moves at once leave it on both.
StationAtOnePort ==
    \A n \in Hashed :
        (\A c \in Cpus : cpu[c].node # n) => Cardinality(node[n].vec) <= 1

-----------------------------------------------------------------------------
(* Refinement                                                               *)

Known == {a \in Stations : table[a] # Null}
KnownPorts == [a \in Stations |-> IF table[a] = Null THEN {} ELSE node[table[a]].vec]

Table == INSTANCE StationTable WITH known <- Known, ports <- KnownPorts, heard <- seen

\* For everyone who looks a station up, the lock-free table with its reused and
\* retired nodes is a plain table of ports the stations were heard on: each step
\* learns, moves or forgets one station, or shows no difference.  A store to a
\* node that has left the table, or that was never published, is not seen.
ImplementsTable == Table!Spec
=============================================================================
