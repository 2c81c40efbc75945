---- MODULE MCUbrFdb ----
(* UbrFdb on small instances.  CPUs, stations and node memory are           *)
(* interchangeable; so are ports, but for the host's.                       *)
EXTENDS UbrFdb, TLC

SymFdb == Permutations(Cpus) \cup Permutations(Stations) \cup Permutations(Nodes)
          \cup Permutations(Ports \ {HostPort})
====
