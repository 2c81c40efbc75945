---- MODULE MCUbrCli ----
(* UbrCli on a small world: a device, a bridge of another kind and a ubr     *)
(* bridge; command lines that are complete, abbreviated, too short, too long *)
(* and wrong.                                                                *)
EXTENDS UbrCli, TLC

Keywords == Table.ubr \cup Table.port \cup Table.vlan \cup Table.fdb
               \cup {"tagged", "pvid", "learning"}
Prefixes == ("" :> Keywords) @@ ("a" :> {"add", "attach"}) @@ ("ad" :> {"add"})
            @@ ("d" :> {"del", "detach"}) @@ ("p" :> {"port", "pvid"})
            @@ ("s" :> {"set"}) @@ ("t" :> {"tagged"})
Numbers == ("1" :> 1) @@ ("4095" :> 4095) @@ ("4096" :> 4096) @@ ("65537" :> 65537)
           @@ ("-1" :> -1)

MCWords == Keywords \cup DOMAIN Prefixes \cup DOMAIN Numbers \cup {"eth0", "br0", "ubr0", "none"}
MCCompletes == [w \in MCWords |-> IF w \in Keywords THEN {w}
                                  ELSE IF w \in DOMAIN Prefixes THEN Prefixes[w] ELSE {}]
MCAtoi == [w \in MCWords |-> IF w \in DOMAIN Numbers THEN Numbers[w] ELSE 0]
MCAddLike == {"add", "ad"}

Options == {<<>>, <<"pvid">>, <<"p", "1">>, <<"pvid", "none">>, <<"pvid", "65537">>,
            <<"pvid", "4095">>, <<"pvid", "4096">>, <<"pvid", "-1">>, <<"pvid", "1", "pvid">>,
            <<"1", "pvid">>}
Argvs ==
    {<<>>, <<"none">>, <<"d", "add">>, <<"fdb">>, <<"fdb", "">>, <<"fdb", "flush">>}
    \cup {<<w>> : w \in {"add", "ad", "a", "del", "d"}}
    \cup {<<"p", p>> \o c : p \in {"eth0", "none"}, c \in {<<>>, <<"d">>, <<"detach", "1">>, <<"none">>}}
    \cup {<<"port", p, c>> \o o : p \in {"eth0", "ubr0"}, c \in {"attach", "s"}, o \in Options}
    \cup {<<"port", c>> : c \in {"attach", "set"}}
    \cup {<<"vlan", v, c>> : v \in {"1", "4095", "4096", "65537", "none"}, c \in {"add", "del", "d"}}
    \cup {<<"vlan", "1", c>> \o o : c \in {"a", "attach", "detach", "set"},
             o \in {<<>>, <<"eth0">>, <<"none">>, <<"eth0", "t">>, <<"eth0", "none">>,
                    <<"learning", "none">>}}
    \cup {<<"vlan">>, <<"vlan", "1">>, <<"vlan", "add">>}

MCLines == [help : BOOLEAN, name : {"ubr0", "br0"}, argv : Argvs]

Link(kind, name, master) == [kind |-> kind, name |-> name, master |-> master, pvid |-> 0]
MCWorlds == {<<Link("physical", "eth0", m), Link("virtual", "br0", 0), Link("ubr", "ubr0", 0),
               Link("unused", "unnamed", 0), Link("unused", "unnamed", 0)>> : m \in {0, 2, 3}}
            \cup {<<Link("physical", "eth0", 0), Link("virtual", "br0", 0),
                    Link("unused", "unnamed", 0), Link("unused", "unnamed", 0), Link("unused", "unnamed", 0)>>}
====
