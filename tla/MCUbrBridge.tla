---- MODULE MCUbrBridge ----
(* UbrBridge on small instances.  The enslavable devices that commands do   *)
(* not name are interchangeable.                                            *)
EXTENDS UbrBridge, TLC

SymDevs == Permutations(Devs \ Managed)
====
