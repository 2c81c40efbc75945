---- MODULE MCUbrForward ----
(* UbrForward on small instances.  CPUs are interchangeable, and so are the *)
(* devices that commands do not name.                                       *)
EXTENDS UbrForward, TLC

SymForward == Permutations(Cpus) \cup Permutations(Devs \ Managed)
====
