------------------------------- MODULE UbrCli -------------------------------
(* The command line tool: one invocation, from its arguments over netlink   *)
(* to its exit status, while other administrators create, delete and move   *)
(* interfaces and unload the module.                                        *)
(*                                                                          *)
(* The tool looks names up once and then works with interface indexes.  A   *)
(* request runs in the kernel at one moment.  Its handler is modelled here  *)
(* as far as the tool can tell: which interfaces it looks up, and whether   *)
(* it refuses; what it does to slots and VLANs is UbrBridge's.              *)
(*                                                                          *)
(* A word is known by the keywords it abbreviates and by its number; words  *)
(* are never taken apart.                                                   *)
EXTENDS Integers, Sequences

CONSTANTS Words,
          Completes,  \* word -> the keywords it is a prefix of
          Atoi,       \* word -> its number, 0 if it has none
          AddLike,    \* the words that begin with "ad"
          Lines,      \* command lines: [help, name, argv]
          Worlds,     \* the interfaces there may be at first
          MaxIndex,   \* bound on interface indexes, which are never used twice
          MaxChanges  \* bound on what others change meanwhile

U12 == 0..4095
TwoTo16 == 256 * 256
U16 == 0..(TwoTo16 - 1)
Indexes == 1..MaxIndex
Kinds == {"ubr", "virtual", "physical"}
Iface == [kind : Kinds \cup {"unused", "gone"}, name : Words \cup {"unnamed"},
          master : 0..MaxIndex, pvid : U16]

\* No keyword but add begins with "ad".
ASSUME CliAssumption ==
    /\ MaxIndex \in Nat /\ MaxChanges \in Nat
    /\ Lines \subseteq [help : BOOLEAN, name : Words, argv : Seq(Words)]
    /\ Worlds \subseteq [Indexes -> Iface]
    /\ Atoi \in [Words -> Int]
    /\ AddLike \subseteq Words
    /\ \A w \in AddLike : {"del", "fdb", "port", "vlan"} \cap Completes[w] = {}

Absent == -1  \* an attribute that is left out

VARIABLES
    line,     \* the command line
    tool,     \* how far the tool has come, and what it has looked up and parsed
    status,   \* its exit status; Running before it ends
    iface,    \* the interfaces, by index
    loaded,   \* the generic netlink family is registered
    done,     \* ghost: the requests of the tool that were carried out
    lost,     \* ghost: what the tool does not know: "part" of a refused request
              \* was carried out; the "reply" to its last request was lost
    changes,  \* how much others have changed
    fault     \* ghost: a handler followed a NULL pointer

vars == <<line, tool, status, iface, loaded, done, lost, changes, fault>>

Running == 256
Segv == 139

Table == [ubr  |-> {"add", "del", "fdb", "port", "vlan"},
          port |-> {"attach", "detach", "set"},
          vlan |-> {"add", "del", "attach", "detach", "set"},
          fdb  |-> {"flush"}]

Operations == {"newlink", "dellink", "setlink", "flush", "vlan_add", "vlan_del",
               "vlan_attach", "vlan_detach", "vlan_set", "port_set"}

Request == [op : Operations, br : 0..MaxIndex, port : 0..MaxIndex, vid : U12,
            tagged : BOOLEAN, pvid : U16 \cup {Absent}]

Stages == {"main", "run", "call", "settings", "family", "genl", "link", "exit"}
Tables == {"ubr", "port", "vlan", "fdb"}
Commands == UNION {Table[t] : t \in Tables}

ToolState == [pc : Stages, table : Tables, cmd : Commands \cup {"none"}, optind : Nat \ {0},
              brindex : 0..MaxIndex, ifindex : 0..MaxIndex, vid : U12, asks : Request]

Exists(i) == i \in Indexes /\ iface[i].kind \in Kinds
IsUbr(i) == Exists(i) /\ iface[i].kind = "ubr"

\* if_nametoindex: no two interfaces have one name.
Named(n) == {i \in Indexes : Exists(i) /\ iface[i].name = n}
IndexOf(n) == IF Named(n) = {} THEN 0 ELSE CHOOSE i \in Named(n) : TRUE

-----------------------------------------------------------------------------
(* The command line                                                         *)

At(pc) == fault = "none" /\ tool.pc = pc
Calling(table, cmd) == At("call") /\ tool.table = table /\ tool.cmd = cmd
Go(t) == /\ tool' = t
         /\ UNCHANGED <<line, status, iface, loaded, done, lost, changes, fault>>
Exit(code) == /\ status' = code
              /\ tool' = [tool EXCEPT !.pc = "exit"]
Quit(code) == /\ Exit(code)
              /\ UNCHANGED <<line, iface, loaded, done, lost, changes, fault>>

More == tool.optind <= Len(line.argv)
Word == line.argv[tool.optind]
Rest == SubSeq(line.argv, tool.optind, Len(line.argv))

\* find_cmd and find_opt: the one entry that the word abbreviates.
Finds(entries, word, e) == entries \cap Completes[word] = {e}

\* parse_opts with a table of one key: every word is that key, or, when it takes
\* a value, every other word.  The value of a last key without one is the NULL
\* that ends argv, and counts as no option at all.
IsKey(word, key) == Finds({key}, word, key)
ValuesParse(key) == \A i \in DOMAIN Rest : i % 2 = 1 => IsKey(Rest[i], key)
HasValue == More /\ Len(Rest) % 2 = 0

\* Mutant: the key itself is stored, its value is skipped.
ValueIsKey == Rest[Len(Rest) - 1]

Value == Rest[Len(Rest)]

\* Mutant: the check for the bridge is left out.
MainUnchecked ==
    /\ At("main")
    /\ Go([tool EXCEPT !.brindex = IndexOf(line.name), !.pc = "run"])

\* Every command but help and add needs the bridge to exist.
Main ==
    /\ At("main")
    /\ LET i == IndexOf(line.name)
       IN  \/ /\ ~line.help /\ i = 0 /\ More => Word \in AddLike
              /\ Go([tool EXCEPT !.brindex = i, !.pc = "run"])
           \/ /\ ~line.help /\ i = 0 /\ More /\ Word \notin AddLike
              /\ Quit(1)

\* With no words left the caller's help is shown, which counts as success.
RunCmd ==
    /\ At("run")
    /\ \/ ~More /\ Quit(0)
       \/ /\ More
          /\ \E c \in Table[tool.table] :
                /\ Finds(Table[tool.table], Word, c)
                /\ Go([tool EXCEPT !.cmd = c, !.optind = @ + 1, !.pc = "call"])
       \/ /\ More
          /\ \A c \in Table[tool.table] : ~Finds(Table[tool.table], Word, c)
          /\ Quit(1)

Into(table) == [tool EXCEPT !.table = table, !.pc = "run"]
IntoPastWord(table) == [Into(table) EXCEPT !.optind = @ + 1]  \* shift_cmdl

CmdFdb == Calling("ubr", "fdb") /\ Go(Into("fdb"))

\* With -h the port's name is not read: the command that follows takes its place.
CmdPort ==
    /\ Calling("ubr", "port")
    /\ \/ line.help /\ Go(Into("port"))
       \/ /\ ~line.help /\ More /\ IndexOf(Word) # 0
          /\ Go([IntoPastWord("port") EXCEPT !.ifindex = IndexOf(Word)])
       \/ /\ ~line.help /\ (More => IndexOf(Word) = 0)
          /\ Quit(1)

\* Mutant: the range of the VID is not checked.
CmdVlanUnchecked ==
    /\ Calling("ubr", "vlan")
    /\ \/ line.help /\ Go(Into("vlan"))
       \/ /\ ~line.help /\ More
          /\ Go([IntoPastWord("vlan") EXCEPT !.vid = Atoi[Word] % TwoTo16])

CmdVlan ==
    /\ Calling("ubr", "vlan")
    /\ \/ line.help /\ Go(Into("vlan"))
       \/ /\ ~line.help /\ More /\ Atoi[Word] \in U12 \ {0}
          /\ Go([IntoPastWord("vlan") EXCEPT !.vid = Atoi[Word]])
       \/ /\ ~line.help /\ (More => Atoi[Word] \notin U12 \ {0})
          /\ Quit(1)

-----------------------------------------------------------------------------
(* The commands: each refuses, or asks the kernel                           *)

Asks(op) == [op |-> op, br |-> tool.brindex, port |-> tool.ifindex, vid |-> tool.vid,
             tagged |-> FALSE, pvid |-> Absent]
Ask(pc, request) == Go([tool EXCEPT !.pc = pc, !.asks = request])

\* Commands that only check that the required argument has been read.
Simple(table, cmd, pc, op, refused) ==
    /\ Calling(table, cmd)
    /\ \/ refused /\ Quit(1)
       \/ ~refused /\ Ask(pc, Asks(op))

CmdAddDel ==
    \/ line.help /\ (Calling("ubr", "add") \/ Calling("ubr", "del")) /\ Quit(0)
    \/ ~line.help /\ Simple("ubr", "add", "link", "newlink", FALSE)
    \/ ~line.help /\ Simple("ubr", "del", "link", "dellink", FALSE)

CmdFdbFlush == Simple("fdb", "flush", "family", "flush", FALSE)

CmdPortAttach == Simple("port", "attach", "link", "setlink", tool.ifindex = 0)

CmdPortDetach ==
    /\ Calling("port", "detach")
    /\ \/ tool.ifindex = 0 /\ Quit(1)
       \/ tool.ifindex # 0 /\ Ask("link", [Asks("setlink") EXCEPT !.br = 0])

\* The PVID is cut to 16 bits; -1 is left out.
TypedPvid == IF HasValue /\ Atoi[Value] # Absent THEN Atoi[Value] % TwoTo16 ELSE Absent

\* Also reached from port attach.
CmdPortSet ==
    /\ Calling("port", "set") \/ At("settings")
    /\ LET fits == ValuesParse("pvid") /\ tool.ifindex # 0
       IN  \/ ~fits /\ Quit(1)
           \/ /\ fits
              /\ Ask("family", [Asks("port_set") EXCEPT !.pvid = TypedPvid])

CmdVlanAddDel == \/ Simple("vlan", "add", "family", "vlan_add", tool.vid = 0)
                 \/ Simple("vlan", "del", "family", "vlan_del", tool.vid = 0)

CmdVlanSet ==
    Simple("vlan", "set", "family", "vlan_set", tool.vid = 0 \/ ~ValuesParse("learning"))

\* The port is looked up here; attach parses what follows it, detach ignores it.
CmdVlanPort(cmd, op, tagged) ==
    /\ Calling("vlan", cmd)
    /\ LET i == IF More THEN IndexOf(Word) ELSE 0
           rest == Tail(Rest)
           fits == /\ tool.vid # 0 /\ i # 0
                   /\ tagged => \A k \in DOMAIN rest : IsKey(rest[k], "tagged")
       IN  \/ ~fits /\ Quit(1)
           \/ /\ fits
              /\ Ask("family", [Asks(op) EXCEPT !.port = i, !.tagged = tagged /\ rest # <<>>])

CmdVlanAttach == CmdVlanPort("attach", "vlan_attach", TRUE)
CmdVlanDetach == CmdVlanPort("detach", "vlan_detach", FALSE)

-----------------------------------------------------------------------------
(* The exchange with the kernel                                             *)

\* The first message needs a buffer.  msg_init reports that there is none; the
\* callers of msg_init2 do not look.
NoBuffer ==
    /\ At("family") \/ At("link")
    /\ done = <<>>
    /\ Quit(IF tool.pc = "family" THEN 1 ELSE Segv)

\* No socket, the kernel does not take the message, or its answer to the query
\* for the family does not arrive.
SendFails == (At("family") \/ At("genl") \/ At("link")) /\ Quit(1)

GetFamily ==
    /\ At("family")
    /\ \/ loaded /\ Go([tool EXCEPT !.pc = "genl"])
       \/ ~loaded /\ Quit(1)

\* Mutant: cmd_port_attach ends after its first request.
SettingsForgotten == FALSE

\* Mutant: cmd_port_detach, too, goes on with settings.
SettingsFollowAlsoDetach == tool.asks.op = "setlink" /\ More

\* Only cmd_port_attach goes on, and only with words that are left.
SettingsFollow == tool.asks.op = "setlink" /\ tool.cmd = "attach" /\ More

\* The request is carried out, and the tool learns of it.
Acked(ifaces) ==
    /\ iface' = ifaces
    /\ done' = Append(done, tool.asks)
    /\ tool' = [tool EXCEPT !.pc = IF SettingsFollow THEN "settings" ELSE "exit"]
    /\ status' = IF SettingsFollow THEN Running ELSE 0
    /\ UNCHANGED <<line, lost, changes, fault>>

\* The request is carried out, but no answer arrives: mnl_socket_recvfrom or
\* mnl_cb_run fails, and to the tool this is like a refusal.
Unanswered(ifaces) ==
    /\ iface' = ifaces
    /\ done' = Append(done, tool.asks)
    /\ lost' = "reply"
    /\ Exit(1)
    /\ UNCHANGED <<line, changes, fault>>

Performed(ifaces) == Acked(ifaces) \/ Unanswered(ifaces)

Refused(ifaces) ==
    /\ iface' = ifaces
    /\ lost' = IF ifaces # iface THEN "part" ELSE lost
    /\ Exit(1)
    /\ UNCHANGED <<line, done, changes, fault>>

Asked(pc, ops) == At(pc) /\ tool.asks.op \in ops

Blank == [kind |-> "unused", name |-> "unnamed", master |-> 0, pvid |-> 0]
Unused == {i \in Indexes : iface[i].kind = "unused"}
Created(n, kind) ==
    [iface EXCEPT ![CHOOSE i \in Unused : \A j \in Unused : i <= j] =
        [Blank EXCEPT !.kind = kind, !.name = n]]
Moved(ifaces, p, m) == [ifaces EXCEPT ![p].master = m, ![p].pvid = 0]
Deleted(S) ==
    [i \in Indexes |-> CASE i \in S -> [Blank EXCEPT !.kind = "gone"]
                         [] i \notin S /\ iface[i].master \in S -> Moved(iface, i, 0)[i]
                         [] OTHER -> iface[i]]

\* The kernel loads the module for a link of kind ubr.
Newlink ==
    /\ Asked("link", {"newlink"})
    /\ \/ /\ Named(line.name) = {} /\ Unused # {}
          /\ loaded' = TRUE
          /\ Performed(Created(line.name, "ubr"))
       \/ UNCHANGED loaded /\ Refused(iface)

\* The request names the interface and does not look at its kind.
Dellink ==
    /\ Asked("link", {"dellink"})
    /\ \/ /\ \E i \in Named(line.name) : iface[i].kind # "physical" /\ Performed(Deleted({i}))
       \/ Refused(iface)
    /\ UNCHANGED loaded

\* rtnl_setlink: a port leaves its old master before it joins the new one.
Setlink ==
    /\ Asked("link", {"setlink"})
    /\ LET p == tool.asks.port
           m == tool.asks.br
           left == Moved(iface, p, 0)
       IN  \/ Refused(iface)
           \/ Exists(p) /\ iface[p].master = m /\ Performed(iface)
           \/ Exists(p) /\ iface[p].master # m /\ m = 0 /\ Performed(left)
           \/ /\ Exists(p) /\ iface[p].master # m /\ m # 0
              /\ \/ Refused(left)
                 \/ /\ Exists(m) /\ iface[m].kind # "physical" /\ p # m
                    /\ Performed(Moved(iface, p, m))
    /\ UNCHANGED loaded

FamilyGone == At("genl") /\ ~loaded /\ Refused(iface) /\ UNCHANGED loaded

\* ubr_fdb_nl_flush_cmd and ubr_vlan_nl_set_cmd are stubs, but they print the
\* name of a bridge that ubr_netlink_dev may not have found.
Stub ==
    /\ Asked("genl", {"flush", "vlan_set"})
    /\ loaded
    /\ \/ IsUbr(tool.asks.br) /\ Performed(iface) /\ UNCHANGED loaded
       \/ /\ ~IsUbr(tool.asks.br)
          /\ fault' = "null"
          /\ UNCHANGED <<line, tool, status, iface, loaded, done, lost, changes>>

\* ubr_port_find: slot 0 is the bridge's own.
IsPortOf(p, b) == Exists(p) /\ (p = b \/ iface[p].master = b)

\* The VLAN handlers.  Whether they refuse for the sake of a VLAN is left open
\* here, and so is what goes wrong inside them.  A detach of an interface that is
\* not a port succeeds.
VlanCmd ==
    /\ Asked("genl", {"vlan_add", "vlan_del", "vlan_attach", "vlan_detach"})
    /\ loaded
    /\ \/ Refused(iface)
       \/ /\ IsUbr(tool.asks.br)
          /\ tool.asks.op = "vlan_detach" => Exists(tool.asks.port)
          /\ tool.asks.op = "vlan_attach" => IsPortOf(tool.asks.port, tool.asks.br)
          /\ Performed(iface)
    /\ UNCHANGED loaded

\* ubr_port_nl_set_cmd: a PVID that is left out is stored as 0.
PortSet ==
    /\ Asked("genl", {"port_set"})
    /\ loaded
    /\ LET r == tool.asks
           found == IsUbr(r.br) /\ IsPortOf(r.port, r.br)
       IN  \/ ~found /\ Refused(iface)
           \/ found /\ Performed([iface EXCEPT ![r.port].pvid = IF r.pvid = Absent THEN 0 ELSE r.pvid])
    /\ UNCHANGED loaded

-----------------------------------------------------------------------------
(* The other administrators                                                 *)

Others ==
    /\ fault = "none" /\ status = Running /\ changes < MaxChanges
    /\ changes' = changes + 1
    /\ \/ \E i \in Indexes : Exists(i) /\ iface' = Deleted({i}) /\ UNCHANGED loaded
       \/ \E n \in {w.name : w \in Lines}, k \in Kinds :
             /\ Named(n) = {} /\ Unused # {}
             /\ iface' = Created(n, k)
             /\ loaded' = (loaded \/ k = "ubr")
       \/ \E i \in Indexes, m \in Indexes \cup {0} :
             /\ Exists(i) /\ i # m /\ iface[i].master # m
             /\ m # 0 => Exists(m) /\ iface[m].kind # "physical"
             /\ iface' = Moved(iface, i, m)
             /\ UNCHANGED loaded
       \/ /\ loaded' = ~loaded
          /\ iface' = Deleted({i \in Indexes : IsUbr(i)})
    /\ UNCHANGED <<line, tool, status, done, lost, fault>>

-----------------------------------------------------------------------------
NoRequest == [op |-> "flush", br |-> 0, port |-> 0, vid |-> 0, tagged |-> FALSE,
              pvid |-> Absent]

Init ==
    /\ line \in Lines
    /\ tool = [pc |-> "main", table |-> "ubr", cmd |-> "none", optind |-> 1, brindex |-> 0,
               ifindex |-> 0, vid |-> 0, asks |-> NoRequest]
    /\ status = Running
    /\ iface \in Worlds
    /\ loaded \in BOOLEAN
    /\ ~loaded => \A i \in Indexes : ~IsUbr(i)
    /\ done = <<>>
    /\ lost = "nothing"
    /\ changes = 0
    /\ fault = "none"

Parse == Main \/ RunCmd \/ CmdFdb \/ CmdPort \/ CmdVlan
Leaf == \/ CmdAddDel \/ CmdFdbFlush \/ CmdPortAttach \/ CmdPortDetach \/ CmdPortSet
        \/ CmdVlanAddDel \/ CmdVlanSet \/ CmdVlanAttach \/ CmdVlanDetach
Exchange == \/ NoBuffer \/ SendFails \/ GetFamily
            \/ Newlink \/ Dellink \/ Setlink \/ FamilyGone \/ Stub \/ VlanCmd \/ PortSet

Next == Parse \/ Leaf \/ Exchange \/ Others

Spec == Init /\ [][Next]_vars

-----------------------------------------------------------------------------
(* Properties                                                               *)

\* Every variable stays in its type: indexes the tool keeps are indexes, and the
\* VID and the PVID of every request fit their attributes.
TypeOK ==
    /\ line \in Lines
    /\ tool \in ToolState
    /\ status \in {Running, 0, 1, Segv}
    /\ iface \in [Indexes -> Iface]
    /\ loaded \in BOOLEAN
    /\ done \in Seq(Request)
    /\ lost \in {"nothing", "part", "reply"}
    /\ changes \in 0..MaxChanges
    /\ fault \in {"none", "null"}

\* Exit status 0 means that all of the command was carried out, not only its
\* first request, and that the tool was told so: an attach with settings has set
\* them, for the port and the bridge it attached; any other command has made its
\* one request.  Only help, asked for or shown for want of words, succeeds without
\* a request.
ExitZeroMeansDone ==
    status = 0 =>
        /\ lost = "nothing"
        /\ CASE done = <<>> -> line.help \/ ~More
             [] Len(done) = 1 -> ~(tool.table = "port" /\ tool.cmd = "attach" /\ More)
             [] Len(done) = 2 -> /\ done[1].op = "setlink" /\ done[2].op = "port_set"
                                 /\ done[1].port = done[2].port /\ done[1].br = done[2].br
             [] OTHER -> FALSE

\* What a command that fails may have changed.  Nothing; or all it asked for, when
\* only the answer was lost.  An attach may also have left the port without a
\* master, attached but without its settings, or have done all of both requests
\* and have lost the answer to the second.  Nothing else: no other command ever
\* stops half-way, and one that crashes has asked for nothing yet.
FailureIsExplained ==
    status \in {1, Segv} =>
        \/ done = <<>> /\ lost = "nothing"
        \/ status = 1 /\ Len(done) = 1 /\ lost = "reply"
        \/ /\ status = 1 /\ tool.table = "port" /\ tool.cmd = "attach"
           /\ \/ done = <<>> /\ lost = "part"
              \/ Len(done) = 1 /\ lost = "nothing" /\ More
              \/ Len(done) = 2 /\ lost = "reply" /\ More

\* An attach never asks for master 0, which would release the port: the bridge
\* was found before, or the tool has ended.
AttachNamesBridge ==
    tool.pc \in {"link", "settings"} /\ tool.table = "port" /\ tool.cmd = "attach" =>
        tool.asks.br # 0 /\ tool.asks.port # 0

\* What the kernel carried out is what was typed, acknowledged or not: the VID,
\* the tag, and the PVID as far as it is a VID or none; a PVID key without a value
\* clears the PVID.
TypedRequest(r) ==
    LET argv == line.argv
        typed == Atoi[argv[Len(argv)]]
        options == SubSeq(argv, 4, Len(argv))
    IN  /\ tool.table = "vlan" => r.vid = Atoi[argv[2]] /\ r.vid # 0
        /\ r.op = "vlan_attach" => r.tagged = (Len(argv) > 4)
        /\ r.op = "port_set" =>
              IF options # <<>> /\ Len(options) % 2 = 0
                THEN typed \in U12 => r.pvid = typed
                ELSE r.pvid = Absent
AsTyped == \A k \in DOMAIN done : TypedRequest(done[k])

\* A request that makes a handler follow a NULL pointer needs -h, which lets the
\* tool go on without a bridge and does not let it read a VID, or the name of an
\* interface that is not a ubr bridge or is one no longer, because somebody has
\* deleted it since the lookup.
NullNeedsCause ==
    fault # "none" =>
        \/ line.help /\ tool.asks.op = "flush"
        \/ tool.brindex # 0 /\ tool.asks.br = tool.brindex /\ ~IsUbr(tool.brindex)
=============================================================================
