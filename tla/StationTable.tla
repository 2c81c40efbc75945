---------------------------- MODULE StationTable ----------------------------
(* What a forwarding database promises, without hash table, nodes or RCU:   *)
(* for each station it knows a set of ports, each of which the station has  *)
(* been heard on; frames to a station it does not know are flooded.  A      *)
(* station is learned on one port.  When it is heard on another port its    *)
(* ports are first forgotten and then set, one at a time.  A station may be *)
(* forgotten at any time, one at a time.                                    *)
CONSTANTS Stations, Ports

VARIABLES
    known,  \* the stations that have an entry
    ports,  \* station -> the ports to send its frames to; none if unknown
    heard   \* station -> the ports its frames have come in on

vars == <<known, ports, heard>>

TypeOK == /\ known \subseteq Stations
          /\ ports \in [Stations -> SUBSET Ports]
          /\ heard \in [Stations -> SUBSET Ports]

Init == /\ known = {}
        /\ ports = [a \in Stations |-> {}]
        /\ heard = [a \in Stations |-> {}]

Hear(a, p) == /\ heard' = [heard EXCEPT ![a] = @ \cup {p}]
              /\ UNCHANGED <<known, ports>>

Learn(a, p) == /\ a \notin known
               /\ p \in heard[a]
               /\ known' = known \cup {a}
               /\ ports' = [ports EXCEPT ![a] = {p}]
               /\ UNCHANGED heard

\* A station that has been heard on two ports may be moving.
Leave(a) == /\ a \in known
            /\ \E p, q \in heard[a] : p # q
            /\ ports' = [ports EXCEPT ![a] = {}]
            /\ UNCHANGED <<known, heard>>

Join(a, p) == /\ a \in known
              /\ p \in heard[a]
              /\ ports' = [ports EXCEPT ![a] = @ \cup {p}]
              /\ UNCHANGED <<known, heard>>

Forget(a) == /\ a \in known
             /\ known' = known \ {a}
             /\ ports' = [ports EXCEPT ![a] = {}]
             /\ UNCHANGED heard

Next == \E a \in Stations :
           \/ \E p \in Ports : Hear(a, p) \/ Learn(a, p) \/ Join(a, p)
           \/ Leave(a) \/ Forget(a)

Spec == Init /\ [][Next]_vars

\* The promise itself: a station is never sent where it was not heard.
OnlyHeardPorts == \A a \in Stations : ports[a] \subseteq heard[a]
=============================================================================
