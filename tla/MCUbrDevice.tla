---- MODULE MCUbrDevice ----
(* UbrDevice on small instances.                                            *)
EXTENDS UbrDevice
====
