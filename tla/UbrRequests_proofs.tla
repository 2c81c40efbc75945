-------------------------- MODULE UbrRequests_proofs --------------------------
(* What the tool asks for is what was typed, and which of its requests a    *)
(* handler answers with a NULL pointer, proved for any command line.  The   *)
(* invariant of UbrCli_proofs says what the tool has found and what was     *)
(* carried out; the one here says how far it has read, and what it asks.    *)
EXTENDS UbrCli_proofs

\* A VID or a port is read by a command of its own table, without -h, and the
\* words read by then are "vlan" or "port", the VID or the port, and in the end
\* the command.
Read ==
    tool.pc # "exit" =>
        /\ tool.table = "ubr" =>
              /\ tool.vid = 0
              /\ tool.pc \in {"main", "run"} => tool.optind = 1
              /\ tool.pc = "call" => tool.optind = 2
        /\ tool.vid # 0 \/ tool.ifindex # 0 =>
              tool.optind = IF tool.pc = "run" THEN 3 ELSE 4
        /\ tool.vid # 0 =>
              tool.table = "vlan" /\ tool.vid = Atoi[line.argv[2]] /\ ~line.help

\* The stubs are asked for the bridge of the command line, which only a flush
\* with -h can lack.
StubRequest(r) ==
    r.op \in {"flush", "vlan_set"} =>
        /\ r.br = tool.brindex
        /\ tool.brindex # 0 \/ (line.help /\ r.op = "flush")

Requesting ==
    tool.pc \in {"link", "settings", "family", "genl"} =>
        TypedRequest(tool.asks) /\ StubRequest(tool.asks)

RequestsInv == Read /\ Requesting /\ AsTyped /\ NullNeedsCause

-----------------------------------------------------------------------------
(* Steps that leave the command line and what was asked alone               *)

\* What a request says is judged by the command line and the tool's table only.
LEMMA SameVerdict ==
    ASSUME NEW r, UNCHANGED line, tool'.table = tool.table, tool'.brindex = tool.brindex
    PROVE  /\ TypedRequest(r) => TypedRequest(r)'
           /\ StubRequest(r) => StubRequest(r)'
  BY DEF TypedRequest, StubRequest

LEMMA AsTypedKept ==
    ASSUME AsTyped, UNCHANGED <<line, done>>, done = <<>> \/ tool'.table = tool.table
    PROVE  AsTyped'
<1>1. CASE done = <<>>
  BY <1>1 DEF AsTyped
<1>2. CASE tool'.table = tool.table
  <2>1. ASSUME NEW r, TypedRequest(r) PROVE TypedRequest(r)'
    BY <1>2, <2>1 DEF TypedRequest
  <2>2. ASSUME NEW k \in DOMAIN done PROVE TypedRequest(done[k])'
    <3>1. PICK r : r = done[k]
      OBVIOUS
    <3>2. TypedRequest(r)'
      BY <2>1, <2>2, <3>1 DEF AsTyped
    <3>3. r = done'[k]
      BY <3>1
    <3>. QED  BY <3>2, <3>3 DEF TypedRequest
  <2>. QED  BY <2>2 DEF AsTyped
<1>. QED  BY <1>1, <1>2

\* The tool ends, and nothing more has been carried out.
LEMMA EndKeeps ==
    ASSUME TypeOK, RequestsInv, NEW code, Exit(code), UNCHANGED <<line, done>>, fault' = "none"
    PROVE  RequestsInv'
<1>1. tool'.pc = "exit" /\ tool'.table = tool.table
  BY ExitKeeps
<1>2. AsTyped'
  BY <1>1, AsTypedKept DEF RequestsInv
<1>. QED  BY <1>1, <1>2 DEF RequestsInv, Read, Requesting, NullNeedsCause

LEMMA QuitKeeps ==
    ASSUME TypeOK, RequestsInv, NEW code, Quit(code), fault = "none"
    PROVE  RequestsInv'
  BY EndKeeps DEF Quit

LEMMA RefusedKeeps ==
    ASSUME TypeOK, RequestsInv, NEW ifaces, Refused(ifaces), fault = "none"
    PROVE  RequestsInv'
  BY EndKeeps DEF Refused

\* The tool goes on reading.
LEMMA ReadingKeeps ==
    ASSUME Inv, RequestsInv, tool.pc \in {"main", "run", "call"},
           UNCHANGED <<line, done, fault>>, fault = "none",
           tool'.pc \in {"run", "call"}, Read'
    PROVE  RequestsInv'
<1>1. done = <<>>
  BY DEF Inv, CarriedOut
<1>2. AsTyped'
  BY <1>1, AsTypedKept DEF RequestsInv
<1>. QED  BY <1>2 DEF RequestsInv, Requesting, NullNeedsCause

-----------------------------------------------------------------------------
(* Reading the command line                                                 *)

LEMMA MainReads ==
    ASSUME TypeOK, Inv, RequestsInv, Main
    PROVE  RequestsInv'
<1>1. tool.pc = "main" /\ fault = "none"
  BY DEF Main, At
<1>2. CASE Quit(1)
  BY <1>1, <1>2, QuitKeeps
<1>3. CASE Go([tool EXCEPT !.brindex = IndexOf(line.name), !.pc = "run"])
  <2>1. tool' = [tool EXCEPT !.brindex = IndexOf(line.name), !.pc = "run"]
        /\ UNCHANGED <<line, done, fault>>
    BY <1>3 DEF Go
  <2>2. tool'.pc = "run" /\ tool'.table = tool.table /\ tool'.optind = tool.optind
    BY <2>1, ToolType DEF ToolState
  <2>3. tool'.vid = tool.vid /\ tool'.ifindex = tool.ifindex
    BY <2>1, ToolType DEF ToolState
  <2>4. tool.table = "ubr" /\ tool.ifindex = 0
    BY <1>1 DEF Inv, Found
  <2>5. Read'
    BY <1>1, <2>1, <2>2, <2>3, <2>4 DEF Read, RequestsInv
  <2>. QED  BY <1>1, <2>1, <2>2, <2>5, ReadingKeeps
<1>. QED  BY <1>2, <1>3 DEF Main

LEMMA RunCmdReads ==
    ASSUME TypeOK, Inv, RequestsInv, RunCmd
    PROVE  RequestsInv'
<1>1. tool.pc = "run" /\ fault = "none"
  BY DEF RunCmd, At
<1>2. CASE Quit(0) \/ Quit(1)
  BY <1>1, <1>2, QuitKeeps
<1>3. ASSUME NEW c, Go([tool EXCEPT !.cmd = c, !.optind = @ + 1, !.pc = "call"])
      PROVE  RequestsInv'
  <2>1. tool' = [tool EXCEPT !.cmd = c, !.optind = @ + 1, !.pc = "call"]
        /\ UNCHANGED <<line, done, fault>>
    BY <1>3 DEF Go
  <2>2. tool'.pc = "call" /\ tool'.table = tool.table /\ tool'.optind = tool.optind + 1
    BY <2>1, ToolType DEF ToolState
  <2>3. tool'.vid = tool.vid /\ tool'.ifindex = tool.ifindex
    BY <2>1, ToolType DEF ToolState
  <2>4. Read'
    BY <1>1, <2>1, <2>2, <2>3 DEF Read, RequestsInv
  <2>. QED  BY <1>1, <2>1, <2>2, <2>4, ReadingKeeps
<1>. QED  BY <1>2, <1>3 DEF RunCmd

LEMMA IntoReads ==
    ASSUME TypeOK, Inv, RequestsInv, CmdFdb \/ CmdPort \/ CmdVlan
    PROVE  RequestsInv'
<1>1. /\ tool.pc = "call" /\ tool.table = "ubr" /\ fault = "none"
      /\ tool.ifindex = 0 /\ tool.vid = 0 /\ tool.optind = 2
  BY DEF CmdFdb, CmdPort, CmdVlan, Calling, At, Inv, Found, RequestsInv, Read
<1>2. CASE Quit(1)
  BY <1>1, <1>2, QuitKeeps
<1>3. ASSUME NEW table \in {"fdb", "port", "vlan"}
      PROVE  /\ Into(table).pc = "run" /\ Into(table).table = table
             /\ Into(table).vid = 0 /\ Into(table).ifindex = 0 /\ Into(table).optind = 2
             /\ IntoPastWord(table).pc = "run" /\ IntoPastWord(table).table = table
             /\ IntoPastWord(table).vid = 0 /\ IntoPastWord(table).ifindex = 0
             /\ IntoPastWord(table).optind = 3
             /\ IntoPastWord(table) \in ToolState
  <2>1. tool \in ToolState /\ Into(table) \in ToolState /\ IntoPastWord(table) \in ToolState
    BY ToolType, IntoType DEF Tables
  <2>2. /\ Into(table).pc = "run" /\ Into(table).table = table
        /\ Into(table).vid = 0 /\ Into(table).ifindex = 0 /\ Into(table).optind = 2
    BY <1>1, <2>1 DEF Into, ToolState
  <2>3. /\ IntoPastWord(table).pc = "run" /\ IntoPastWord(table).table = table
        /\ IntoPastWord(table).vid = 0 /\ IntoPastWord(table).ifindex = 0
    BY <2>1, <2>2 DEF IntoPastWord, ToolState
  <2>4. IntoPastWord(table).optind = 3
    BY <2>1, <2>2 DEF IntoPastWord, ToolState
  <2>. QED  BY <2>1, <2>2, <2>3, <2>4
<1>4. ASSUME NEW t, Go(t), t.pc = "run", t.table \in {"fdb", "port", "vlan"},
             t.vid # 0 \/ t.ifindex # 0 => t.optind = 3,
             t.vid # 0 => t.table = "vlan" /\ t.vid = Atoi[line.argv[2]] /\ ~line.help
      PROVE  RequestsInv'
  <2>1. tool' = t /\ UNCHANGED <<line, done, fault>>
    BY <1>4 DEF Go
  <2>2. Read'
    BY <1>4, <2>1 DEF Read
  <2>. QED  BY <1>1, <1>4, <2>1, <2>2, ReadingKeeps
<1>5. ASSUME NEW table \in {"fdb", "port", "vlan"}, Go(Into(table)) PROVE RequestsInv'
  BY <1>3, <1>4, <1>5
<1>6. ASSUME NEW i, Go([IntoPastWord("port") EXCEPT !.ifindex = i]) PROVE RequestsInv'
  <2>1. PICK t : t = [IntoPastWord("port") EXCEPT !.ifindex = i]
    OBVIOUS
  <2>2. t.pc = "run" /\ t.table = "port" /\ t.vid = 0 /\ t.optind = 3
    BY <1>3, <2>1 DEF ToolState
  <2>. QED  BY <1>4, <1>6, <2>1, <2>2
<1>7. ASSUME ~line.help, Go([IntoPastWord("vlan") EXCEPT !.vid = Atoi[Word]]) PROVE RequestsInv'
  <2>1. PICK t : t = [IntoPastWord("vlan") EXCEPT !.vid = Atoi[Word]]
    OBVIOUS
  <2>2. t.pc = "run" /\ t.table = "vlan" /\ t.vid = Atoi[Word] /\ t.optind = 3
    BY <1>3, <2>1 DEF ToolState
  <2>3. Word = line.argv[2]
    BY <1>1 DEF Word
  <2>. QED  BY <1>4, <1>7, <2>1, <2>2, <2>3
<1>8. CASE CmdFdb
  BY <1>5, <1>8 DEF CmdFdb
<1>9. CASE CmdPort
  BY <1>2, <1>5, <1>6, <1>9, Zenon DEF CmdPort
<1>10. CASE CmdVlan
  BY <1>2, <1>5, <1>7, <1>10, Zenon DEF CmdVlan
<1>. QED  BY <1>8, <1>9, <1>10

-----------------------------------------------------------------------------
(* What the commands ask for                                                *)

\* A command that asks for something which is as typed.
LEMMA AskKeeps ==
    ASSUME TypeOK, Inv, RequestsInv, tool.pc \in {"call", "settings"}, fault = "none",
           NEW pc \in {"link", "family"}, NEW r, Ask(pc, r),
           TypedRequest(r), StubRequest(r)
    PROVE  RequestsInv'
<1>1. tool' = [tool EXCEPT !.pc = pc, !.asks = r] /\ UNCHANGED <<line, done, fault>>
  BY DEF Ask, Go
<1>2. tool'.pc = pc /\ tool'.asks = r /\ tool'.table = tool.table /\ tool'.brindex = tool.brindex
  BY <1>1, ToolType DEF ToolState
<1>3. tool'.vid = tool.vid /\ tool'.ifindex = tool.ifindex /\ tool'.optind = tool.optind
  BY <1>1, ToolType DEF ToolState
<1>4. Read'
  BY <1>1, <1>2, <1>3 DEF Read, RequestsInv
<1>5. Requesting'
  <2>1. TypedRequest(r)' /\ StubRequest(r)'
    BY <1>1, <1>2, SameVerdict
  <2>. QED  BY <1>2, <2>1 DEF Requesting, TypedRequest, StubRequest
<1>6. AsTyped'
  BY <1>1, <1>2, AsTypedKept DEF RequestsInv
<1>. QED  BY <1>1, <1>4, <1>5, <1>6 DEF RequestsInv, NullNeedsCause

\* With a VID it is the one typed, and what follows the command is still to read.
LEMMA VidIsTyped ==
    ASSUME RequestsInv, tool.pc \in {"call", "settings"}
    PROVE  /\ tool.vid # 0 => /\ tool.vid = Atoi[line.argv[2]] /\ tool.table = "vlan"
                              /\ tool.optind = 4 /\ ~line.help
           /\ tool.ifindex # 0 => tool.optind = 4
  BY DEF RequestsInv, Read

LEMMA SimpleAsks ==
    ASSUME TypeOK, Inv, RequestsInv, NEW table, NEW cmd,
           NEW pc \in {"link", "family"}, NEW op \in Operations \ {"vlan_attach", "port_set"},
           NEW refused, Simple(table, cmd, pc, op, refused),
           table = "vlan" /\ ~refused => tool.vid # 0,
           op = "vlan_set" => table = "vlan",
           op = "flush" => table = "fdb"
    PROVE  RequestsInv'
<1>1. tool.pc = "call" /\ tool.table = table /\ fault = "none"
  BY DEF Simple, Calling, At
<1>2. CASE Quit(1)
  BY <1>1, <1>2, QuitKeeps
<1>3. CASE ~refused /\ Ask(pc, Asks(op))
  <2>1. PICK r : r = Asks(op)
    OBVIOUS
  <2>2. r.op = op /\ r.br = tool.brindex /\ r.vid = tool.vid
    BY <2>1 DEF Asks
  <2>3. TypedRequest(r)
    BY <1>1, <1>3, <2>2, VidIsTyped DEF TypedRequest
  <2>4. StubRequest(r)
    BY <1>1, <1>3, <2>2, VidIsTyped DEF StubRequest, Inv, Found
  <2>. QED  BY <1>1, <1>3, <2>1, <2>3, <2>4, AskKeeps
<1>. QED  BY <1>2, <1>3 DEF Simple

\* The words after the command of a port, and the last of them.
LEMMA OptionsRead ==
    ASSUME TypeOK, tool.optind = 4
    PROVE  /\ Rest = SubSeq(line.argv, 4, Len(line.argv))
           /\ HasValue <=> Rest # <<>> /\ Len(Rest) % 2 = 0
           /\ HasValue => Value = line.argv[Len(line.argv)]
<1>1. line.argv \in Seq(Words) /\ Len(line.argv) \in Nat
  BY LineType
<1>2. Rest = SubSeq(line.argv, 4, Len(line.argv))
  BY DEF Rest
<1>3. CASE More
  <2>1. 4 <= Len(line.argv) /\ Len(Rest) = Len(line.argv) - 3
    BY <1>1, <1>3, RestType DEF More
  <2>2. Rest # <<>>
    BY <1>1, <2>1
  <2>3. Rest[Len(Rest)] = line.argv[Len(line.argv)]
    BY <1>1, <1>2, <2>1
  <2>. QED  BY <1>2, <1>3, <2>2, <2>3 DEF HasValue, Value
<1>4. CASE ~More
  <2>1. Len(line.argv) < 4
    BY <1>1, <1>4 DEF More
  <2>2. Rest = <<>>
    BY <1>1, <1>2, <2>1
  <2>. QED  BY <1>2, <1>4, <2>2 DEF HasValue
<1>. QED  BY <1>3, <1>4

LEMMA CutKeepsVids == \A n \in U12 : n % TwoTo16 = n /\ n # Absent
  BY DEF U12, TwoTo16, Absent

LEMMA PortSetAsks ==
    ASSUME TypeOK, Inv, RequestsInv, CmdPortSet
    PROVE  RequestsInv'
<1>1. /\ tool.pc \in {"call", "settings"} /\ tool.table = "port" /\ fault = "none"
  BY DEF CmdPortSet, Calling, At, Inv, Asking, Attaching
<1>2. CASE Quit(1)
  BY <1>1, <1>2, QuitKeeps
<1>3. ASSUME tool.ifindex # 0, Ask("family", [Asks("port_set") EXCEPT !.pvid = TypedPvid])
      PROVE  RequestsInv'
  <2>1. PICK r : r = [Asks("port_set") EXCEPT !.pvid = TypedPvid]
    OBVIOUS
  <2>2. r.op = "port_set" /\ r.pvid = TypedPvid
    BY <2>1 DEF Asks
  <2>3. tool.optind = 4
    BY <1>1, <1>3, VidIsTyped
  <2>4. TypedRequest(r)
    <3> DEFINE options == SubSeq(line.argv, 4, Len(line.argv))
               typed == Atoi[line.argv[Len(line.argv)]]
    <3>1. IF options # <<>> /\ Len(options) % 2 = 0
            THEN typed \in U12 => r.pvid = typed
            ELSE r.pvid = Absent
      <4>1. CASE HasValue
        BY <2>2, <2>3, <4>1, OptionsRead, CutKeepsVids DEF TypedPvid
      <4>2. CASE ~HasValue
        BY <2>2, <2>3, <4>2, OptionsRead DEF TypedPvid
      <4>. QED  BY <4>1, <4>2
    <3>. QED  BY <1>1, <2>2, <3>1 DEF TypedRequest
  <2>5. StubRequest(r)
    BY <2>2 DEF StubRequest
  <2>. QED  BY <1>1, <1>3, <2>1, <2>4, <2>5, AskKeeps
<1>. QED  BY <1>2, <1>3, PortSetCases, Zenon

LEMMA VlanPortAsks ==
    ASSUME TypeOK, Inv, RequestsInv, CmdVlanAttach \/ CmdVlanDetach
    PROVE  RequestsInv'
<1>1. tool.pc = "call" /\ tool.table = "vlan" /\ fault = "none"
  BY DEF CmdVlanAttach, CmdVlanDetach, CmdVlanPort, Calling, At
<1>2. CASE Quit(1)
  BY <1>1, <1>2, QuitKeeps
<1>3. ASSUME NEW op \in {"vlan_attach", "vlan_detach"}, NEW i, NEW tagged,
             tool.vid # 0, i # 0, i = IF More THEN IndexOf(Word) ELSE 0,
             tagged = (op = "vlan_attach" /\ Tail(Rest) # <<>>),
             Ask("family", [Asks(op) EXCEPT !.port = i, !.tagged = tagged])
      PROVE  RequestsInv'
  <2>1. PICK r : r = [Asks(op) EXCEPT !.port = i, !.tagged = tagged]
    OBVIOUS
  <2>2. r.op = op /\ r.vid = tool.vid /\ r.tagged = tagged
    BY <2>1 DEF Asks
  <2>3. tool.vid = Atoi[line.argv[2]] /\ tool.optind = 4
    BY <1>1, <1>3, VidIsTyped
  <2>4. op = "vlan_attach" => r.tagged = (Len(line.argv) > 4)
    <3>1. More /\ Rest \in Seq(Words) /\ Len(Rest) = Len(line.argv) - 3
      BY <1>3, <2>3, RestType, LineType
    <3>2. 4 <= Len(line.argv) /\ Len(line.argv) \in Nat
      BY <2>3, <3>1, LineType DEF More
    <3>3. Tail(Rest) # <<>> <=> Len(line.argv) > 4
      <4>1. Rest # <<>> /\ Len(Tail(Rest)) = Len(line.argv) - 4
        BY <3>1, <3>2
      <4>2. Tail(Rest) \in Seq(Words)
        BY <3>1, <4>1
      <4>3. ASSUME NEW s \in Seq(Words) PROVE s # <<>> <=> Len(s) > 0
        BY <4>3, EmptySeq
      <4>4. Tail(Rest) # <<>> <=> Len(Tail(Rest)) > 0
        BY <4>2, <4>3
      <4>. QED  BY <3>2, <4>1, <4>4
    <3>. QED  BY <1>3, <2>2, <3>3
  <2>5. TypedRequest(r)
    BY <1>3, <2>2, <2>3, <2>4 DEF TypedRequest
  <2>6. StubRequest(r)
    BY <2>2 DEF StubRequest
  <2>. QED  BY <1>1, <1>3, <2>1, <2>5, <2>6, AskKeeps
<1>4. CASE CmdVlanAttach
  BY <1>2, <1>3, <1>4 DEF CmdVlanAttach, CmdVlanPort
<1>5. CASE CmdVlanDetach
  BY <1>2, <1>3, <1>5 DEF CmdVlanDetach, CmdVlanPort
<1>. QED  BY <1>4, <1>5

LEMMA LeafKeeps ==
    ASSUME TypeOK, Inv, RequestsInv, Leaf
    PROVE  RequestsInv'
<1>0. {"newlink", "dellink", "setlink", "flush", "vlan_add", "vlan_del", "vlan_set"}
          \subseteq Operations \ {"vlan_attach", "port_set"}
  BY DEF Operations
<1>1. CASE CmdAddDel
  <2>1. CASE (Calling("ubr", "add") \/ Calling("ubr", "del")) /\ Quit(0)
    BY <2>1, QuitKeeps DEF Calling, At
  <2>2. CASE \/ Simple("ubr", "add", "link", "newlink", FALSE)
             \/ Simple("ubr", "del", "link", "dellink", FALSE)
    BY <1>0, <2>2, SimpleAsks
  <2>. QED  BY <1>1, <2>1, <2>2 DEF CmdAddDel
<1>2. CASE CmdFdbFlush
  BY <1>0, <1>2, SimpleAsks DEF CmdFdbFlush
<1>3. CASE CmdPortAttach
  BY <1>0, <1>3, SimpleAsks DEF CmdPortAttach
<1>4. CASE CmdPortDetach
  <2>1. tool.pc = "call" /\ tool.table = "port" /\ fault = "none"
    BY <1>4 DEF CmdPortDetach, Calling, At
  <2>2. CASE Quit(1)
    BY <2>1, <2>2, QuitKeeps
  <2>3. CASE Ask("link", [Asks("setlink") EXCEPT !.br = 0])
    <3>1. PICK r : r = [Asks("setlink") EXCEPT !.br = 0]
      OBVIOUS
    <3>2. r.op = "setlink"
      BY <3>1 DEF Asks
    <3>3. TypedRequest(r) /\ StubRequest(r)
      BY <2>1, <3>2 DEF TypedRequest, StubRequest
    <3>. QED  BY <2>1, <2>3, <3>1, <3>3, AskKeeps
  <2>. QED  BY <1>4, <2>2, <2>3 DEF CmdPortDetach
<1>5. CASE CmdVlanAddDel
  BY <1>0, <1>5, SimpleAsks DEF CmdVlanAddDel
<1>6. CASE CmdVlanSet
  BY <1>0, <1>6, SimpleAsks DEF CmdVlanSet
<1>. QED  BY <1>1, <1>2, <1>3, <1>4, <1>5, <1>6, PortSetAsks, VlanPortAsks DEF Leaf

-----------------------------------------------------------------------------
(* The exchange with the kernel                                             *)

\* The tool goes on with the request it has, towards the kernel or after it.
LEMMA OnwardKeeps ==
    ASSUME TypeOK, RequestsInv, tool.pc \in {"family", "link", "genl"},
           NEW pc \in {"genl", "settings", "exit"},
           tool' = [tool EXCEPT !.pc = pc], UNCHANGED line
    PROVE  /\ tool'.pc = pc /\ tool'.table = tool.table /\ tool'.asks = tool.asks
           /\ Read' /\ Requesting'
<1>1. /\ tool'.pc = pc /\ tool'.asks = tool.asks
      /\ tool'.table = tool.table /\ tool'.brindex = tool.brindex
  BY ToolType DEF ToolState
<1>2. tool'.vid = tool.vid /\ tool'.ifindex = tool.ifindex /\ tool'.optind = tool.optind
  BY ToolType DEF ToolState
<1>3. Read'
  BY <1>1, <1>2 DEF Read, RequestsInv
<1>4. Requesting'
  <2>1. PICK r : r = tool.asks
    OBVIOUS
  <2>2. TypedRequest(r) /\ StubRequest(r)
    BY <2>1 DEF RequestsInv, Requesting, TypedRequest, StubRequest
  <2>3. TypedRequest(r)' /\ StubRequest(r)'
    BY <1>1, <2>2, SameVerdict
  <2>4. tool'.asks = r
    BY <1>1, <2>1
  <2>. QED  BY <2>3, <2>4 DEF Requesting, TypedRequest, StubRequest
<1>. QED  BY <1>1, <1>3, <1>4

LEMMA PerformedKeeps ==
    ASSUME TypeOK, RequestsInv, tool.pc \in {"link", "genl"}, fault = "none",
           NEW ifaces, Performed(ifaces)
    PROVE  RequestsInv'
<1>1. /\ done' = Append(done, tool.asks) /\ UNCHANGED <<line, fault>>
      /\ \E pc \in {"settings", "exit"} : tool' = [tool EXCEPT !.pc = pc]
  BY DEF Performed, Acked, Unanswered, Exit
<1>2. tool'.table = tool.table /\ Read' /\ Requesting'
  BY <1>1, OnwardKeeps
<1>3. AsTyped'
  <2>1. ASSUME NEW r, TypedRequest(r) PROVE TypedRequest(r)'
    BY <1>1, <1>2, <2>1 DEF TypedRequest
  <2>2. ASSUME NEW k \in DOMAIN done' PROVE TypedRequest(done[k])'
    <3>1. PICK r : r = done'[k]
      OBVIOUS
    <3>2. done \in Seq(Request) /\ tool.asks \in Request
      BY ToolType DEF TypeOK
    <3>3. k \in 1..(Len(done) + 1)
      BY <1>1, <2>2, <3>2
    <3>4. TypedRequest(r)
      <4>1. CASE k = Len(done) + 1
        <5>1. r = tool.asks
          BY <1>1, <3>1, <3>2, <4>1
        <5>. QED  BY <5>1 DEF RequestsInv, Requesting, TypedRequest
      <4>2. CASE k # Len(done) + 1
        <5>1. k \in DOMAIN done /\ r = done[k]
          BY <1>1, <3>1, <3>2, <3>3, <4>2
        <5>. QED  BY <5>1 DEF RequestsInv, AsTyped, TypedRequest
      <4>. QED  BY <4>1, <4>2
    <3>5. TypedRequest(r)'
      BY <2>1, <3>4
    <3>. QED  BY <3>1, <3>5 DEF TypedRequest
  <2>. QED  BY <2>2 DEF AsTyped
<1>. QED  BY <1>1, <1>2, <1>3 DEF RequestsInv, NullNeedsCause

\* The handlers of fdb flush and vlan set, asked for no ubr bridge.
LEMMA StubKeeps ==
    ASSUME TypeOK, Inv, RequestsInv, Stub
    PROVE  RequestsInv'
<1>1. /\ tool.pc = "genl" /\ fault = "none" /\ tool.asks.op \in {"flush", "vlan_set"}
  BY DEF Stub, Asked, At
<1>2. CASE Performed(iface)
  BY <1>1, <1>2, PerformedKeeps
<1>3. CASE ~IsUbr(tool.asks.br) /\ UNCHANGED <<line, tool, iface, done>>
  <2>1. /\ tool.asks.br = tool.brindex
        /\ tool.brindex # 0 \/ (line.help /\ tool.asks.op = "flush")
    BY <1>1 DEF RequestsInv, Requesting, StubRequest
  <2>2. ~IsUbr(tool.brindex)
    BY <1>3, <2>1
  <2>3. NullNeedsCause'
    <3>1. IsUbr(tool.brindex)' = IsUbr(tool.brindex)
      BY <1>3 DEF IsUbr, Exists
    <3>. QED  BY <1>3, <2>1, <2>2, <3>1 DEF NullNeedsCause
  <2>4. Read' /\ Requesting' /\ AsTyped'
    BY <1>3 DEF RequestsInv, Read, Requesting, AsTyped, TypedRequest, StubRequest
  <2>. QED  BY <2>3, <2>4 DEF RequestsInv
<1>. QED  BY <1>2, <1>3 DEF Stub

LEMMA ExchangeKeeps ==
    ASSUME TypeOK, Inv, RequestsInv, Exchange
    PROVE  RequestsInv'
<1>1. CASE NoBuffer \/ SendFails
  BY <1>1, QuitKeeps DEF NoBuffer, SendFails, At
<1>2. CASE GetFamily
  <2>1. tool.pc = "family" /\ fault = "none"
    BY <1>2 DEF GetFamily, At
  <2>2. CASE Quit(1)
    BY <2>1, <2>2, QuitKeeps
  <2>3. CASE Go([tool EXCEPT !.pc = "genl"])
    <3>1. tool' = [tool EXCEPT !.pc = "genl"] /\ UNCHANGED <<line, done, fault>>
      BY <2>3 DEF Go
    <3>2. tool'.table = tool.table /\ Read' /\ Requesting'
      BY <2>1, <3>1, OnwardKeeps
    <3>3. AsTyped'
      BY <3>1, <3>2, AsTypedKept DEF RequestsInv
    <3>. QED  BY <2>1, <3>1, <3>2, <3>3 DEF RequestsInv, NullNeedsCause
  <2>. QED  BY <1>2, <2>2, <2>3 DEF GetFamily
<1>3. CASE Newlink
  BY <1>3, PerformedKeeps, RefusedKeeps DEF Newlink, Asked, At
<1>4. CASE Dellink
  BY <1>4, PerformedKeeps, RefusedKeeps DEF Dellink, Asked, At
<1>5. CASE Setlink
  <2>1. tool.pc = "link" /\ fault = "none"
    BY <1>5 DEF Setlink, Asked, At
  <2>2. (\E ifaces : Refused(ifaces)) \/ (\E ifaces : Performed(ifaces))
    BY <1>5 DEF Setlink
  <2>. QED  BY <2>1, <2>2, PerformedKeeps, RefusedKeeps
<1>6. CASE FamilyGone
  BY <1>6, RefusedKeeps DEF FamilyGone, At
<1>7. CASE VlanCmd
  BY <1>7, PerformedKeeps, RefusedKeeps DEF VlanCmd, Asked, At
<1>8. CASE PortSet
  BY <1>8, PerformedKeeps, RefusedKeeps DEF PortSet, Asked, At
<1>. QED  BY <1>1, <1>2, <1>3, <1>4, <1>5, <1>6, <1>7, <1>8, StubKeeps DEF Exchange

-----------------------------------------------------------------------------
(* The theorems                                                             *)

LEMMA RequestsStep ==
    ASSUME TypeOK, Inv, RequestsInv, [Next]_vars
    PROVE  RequestsInv'
<1>1. CASE UNCHANGED vars
  <2>1. UNCHANGED <<line, tool, status, iface, done, changes, fault>>
    BY <1>1 DEF vars
  <2>2. Read' /\ Requesting' /\ AsTyped'
    BY <2>1 DEF RequestsInv, Read, Requesting, AsTyped, TypedRequest, StubRequest
  <2>3. NullNeedsCause'
    BY <2>1 DEF RequestsInv, NullNeedsCause, IsUbr, Exists
  <2>. QED  BY <2>2, <2>3 DEF RequestsInv
<1>2. CASE Others
  <2>1. UNCHANGED <<line, tool, done, fault>> /\ fault = "none"
    BY <1>2 DEF Others
  <2>2. Read' /\ Requesting' /\ AsTyped'
    BY <2>1 DEF RequestsInv, Read, Requesting, AsTyped, TypedRequest, StubRequest
  <2>. QED  BY <2>1, <2>2 DEF RequestsInv, NullNeedsCause
<1>3. CASE Parse
  BY <1>3, MainReads, RunCmdReads, IntoReads DEF Parse
<1>. QED  BY <1>1, <1>2, <1>3, LeafKeeps, ExchangeKeeps DEF Next

LEMMA RequestsInvariance == Spec => [](TypeOK /\ Inv /\ RequestsInv)
<1>1. ASSUME Init PROVE RequestsInv
  <2>1. /\ tool.pc = "main" /\ tool.table = "ubr" /\ tool.optind = 1
        /\ tool.vid = 0 /\ tool.ifindex = 0 /\ done = <<>> /\ fault = "none"
    BY <1>1 DEF Init
  <2>. QED  BY <2>1 DEF RequestsInv, Read, Requesting, AsTyped, NullNeedsCause
<1>2. TypeOK /\ Inv /\ RequestsInv /\ [Next]_vars => RequestsInv'
  BY RequestsStep
<1>. QED  BY <1>1, <1>2, Invariance, PTL DEF Spec

\* Whatever abbreviations are typed, the kernel acts on the VID, the tag and
\* the PVID that stand on the command line, at their places in it.
THEOREM RequestsAreAsTyped == Spec => []AsTyped
<1>1. RequestsInv => AsTyped
  BY DEF RequestsInv
<1>. QED  BY <1>1, RequestsInvariance, PTL

\* A handler is asked to print the name of no bridge only for fdb flush with -h,
\* or when the named interface is not a ubr bridge by then.
THEOREM NullHasCause == Spec => []NullNeedsCause
<1>1. RequestsInv => NullNeedsCause
  BY DEF RequestsInv
<1>. QED  BY <1>1, RequestsInvariance, PTL

=============================================================================
