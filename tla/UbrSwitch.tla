----------------------------- MODULE UbrSwitch -----------------------------
(* What the data path of a bridge promises, without saying how: a switch    *)
(* with VLANs.  A frame is classified to one VLAN when it is admitted, and  *)
(* from then on may only be sent to slots that were members of that VLAN at *)
(* that moment, once to each, and never back to the slot it came from.      *)
(* Which of them it is sent to is left open: that is the business of the    *)
(* forwarding database.  Membership changes at any time and at will.        *)
CONSTANTS Cpus, Slots,
          Vlans,     \* VIDs
          Untagged,  \* the tag of a frame that has none
          None       \* the state of a CPU that has no admitted frame; not a Frame

Frame == [stage : {"classified", "delivering"}, slot : Slots, strict : BOOLEAN,
          tag : Vlans \cup {Untagged}, vlan : Vlans,
          scope : SUBSET Slots,  \* where it is still to go
          sent : SUBSET Slots]   \* where it has gone

VARIABLES
    member,  \* VLAN -> slots
    frame    \* CPU -> the frame it has admitted, and where that may still go

vars == <<member, frame>>

TypeOK == /\ member \in [Vlans -> SUBSET Slots]
          /\ frame \in [Cpus -> Frame \cup {None}]

Init == /\ member \in [Vlans -> SUBSET Slots]
        /\ frame = [c \in Cpus |-> None]

Reconfigure == /\ member' \in [Vlans -> SUBSET Slots]
               /\ UNCHANGED frame

\* Slot s admits a frame with this tag to VLAN v.  A strict slot goes by the tag
\* and admits only to VLANs it is a member of.
Admit(c, s, strict, tag, v) ==
    /\ frame[c] = None
    /\ strict => s \in member[v] /\ tag \in {v, Untagged}
    /\ frame' = [frame EXCEPT ![c] = [stage |-> "classified", slot |-> s, strict |-> strict,
                                      tag |-> tag, vlan |-> v, scope |-> member[v] \ {s},
                                      sent |-> {}]]
    /\ UNCHANGED member

\* The forwarding database knows where the frame should go.
Routed(f, scope) == [f EXCEPT !.stage = "delivering", !.scope = scope]
Route(c) ==
    /\ frame[c] # None
    /\ frame[c].stage = "classified"
    /\ \E scope \in (SUBSET frame[c].scope) \ {{}} :
          frame' = [frame EXCEPT ![c] = Routed(frame[c], scope)]
    /\ UNCHANGED member

\* A copy of the frame, or in the end the frame itself, leaves through slot e.
Sent(f, e) == IF f.scope = {e} THEN None
              ELSE [f EXCEPT !.scope = f.scope \ {e}, !.sent = f.sent \cup {e}]
Send(c, e) ==
    /\ frame[c] # None
    /\ frame[c].stage = "delivering"
    /\ e \in frame[c].scope
    /\ frame' = [frame EXCEPT ![c] = Sent(frame[c], e)]
    /\ UNCHANGED member

Drop(c) ==
    /\ frame[c] # None
    /\ frame' = [frame EXCEPT ![c] = None]
    /\ UNCHANGED member

Next == \/ Reconfigure
        \/ \E c \in Cpus :
              \/ \E s \in Slots, strict \in BOOLEAN, tag \in Vlans \cup {Untagged}, v \in Vlans :
                    Admit(c, s, strict, tag, v)
              \/ Route(c)
              \/ \E e \in Slots : Send(c, e)
              \/ Drop(c)

Spec == Init /\ [][Next]_vars
=============================================================================
