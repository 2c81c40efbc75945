--------------------------- MODULE UbrCli_proofs ---------------------------
(* The command line tool, proved for any command line, any interfaces and   *)
(* any number of changes by others.  First the types, action by action; then *)
(* the inductive invariant Inv: what the tool must have found to get where    *)
(* it is, what its requests ask, and what has been carried out by then.      *)
(* The other administrators change none of what Inv speaks of.               *)
EXTENDS UbrCli, SequenceTheorems, TLAPS

USE DEF Running, Segv

-----------------------------------------------------------------------------
(* Words, indexes and requests                                              *)

LEMMA LineType == ASSUME TypeOK
                  PROVE  /\ line.help \in BOOLEAN
                         /\ line.name \in Words
                         /\ line.argv \in Seq(Words)
  BY CliAssumption DEF TypeOK

\* if_nametoindex returns an index, or 0.
LEMMA IndexOfType == ASSUME NEW n
                     PROVE  /\ IndexOf(n) \in 0..MaxIndex
                            /\ IndexOf(n) # 0 => IndexOf(n) \in Named(n)
<1>1. CASE Named(n) = {}
  BY <1>1, CliAssumption DEF IndexOf
<1>2. CASE Named(n) # {}
  <2>1. IndexOf(n) \in Named(n)
    BY <1>2 DEF IndexOf
  <2> QED
    BY <2>1, CliAssumption DEF Named, Indexes
<1> QED
  BY <1>1, <1>2

LEMMA ToolType ==
    ASSUME TypeOK
    PROVE  /\ tool \in ToolState
           /\ tool.pc \in Stages /\ tool.table \in Tables /\ tool.cmd \in Commands \cup {"none"}
           /\ tool.optind \in Nat \ {0}
           /\ tool.brindex \in 0..MaxIndex
           /\ tool.ifindex \in 0..MaxIndex
           /\ tool.vid \in U12
           /\ tool.asks \in Request
<1>1. tool \in ToolState
  BY DEF TypeOK
<1>2. tool.optind \in Nat \ {0}
  BY <1>1 DEF ToolState
<1>3. tool.brindex \in 0..MaxIndex
  BY <1>1 DEF ToolState
<1>4. tool.ifindex \in 0..MaxIndex
  BY <1>1 DEF ToolState
<1>5. tool.vid \in U12
  BY <1>1 DEF ToolState
<1>6. tool.asks \in Request
  BY <1>1 DEF ToolState
<1>7. tool.pc \in Stages /\ tool.table \in Tables /\ tool.cmd \in Commands \cup {"none"}
  BY <1>1 DEF ToolState
<1> QED
  BY <1>1, <1>2, <1>3, <1>4, <1>5, <1>6, <1>7

LEMMA WordType == ASSUME TypeOK, More
                  PROVE  Word \in Words
  BY LineType, ToolType DEF Word, More

\* What is left of the words are words.
LEMMA RestType == ASSUME TypeOK
                  PROVE  /\ Rest \in Seq(Words)
                         /\ More => Len(Rest) = Len(line.argv) - tool.optind + 1
                         /\ ~More => Len(Rest) = 0
<1>1. line.argv \in Seq(Words) /\ tool.optind \in Nat \ {0}
  BY LineType, ToolType
<1>2. Len(line.argv) \in Nat
  BY <1>1
<1> QED
  BY <1>1, <1>2 DEF Rest, More

LEMMA ValueType == ASSUME TypeOK, HasValue
                   PROVE  Value \in Words
<1>1. Rest \in Seq(Words) /\ Len(Rest) > 0
  BY RestType, LineType, ToolType DEF HasValue, More
<1> QED
  BY <1>1 DEF Value

-----------------------------------------------------------------------------
(* Interfaces keep their type                                               *)

LEMMA ZeroType == 0 \in U16 /\ 0 \in 0..MaxIndex
  BY CliAssumption DEF U16, TwoTo16

LEMMA BlankType == Blank \in Iface
  BY ZeroType DEF Blank, Iface

LEMMA MovedType ==
    ASSUME NEW ifaces \in [Indexes -> Iface], NEW p, NEW m \in 0..MaxIndex
    PROVE  Moved(ifaces, p, m) \in [Indexes -> Iface]
<1>1. CASE p \in Indexes
  <2>1. [ifaces[p] EXCEPT !.master = m] \in Iface
    BY <1>1 DEF Iface
  <2>2. [ifaces EXCEPT ![p].master = m] \in [Indexes -> Iface]
    BY <1>1, <2>1
  <2>3. [[ifaces EXCEPT ![p].master = m][p] EXCEPT !.pvid = 0] \in Iface
    BY <1>1, <2>2, ZeroType DEF Iface
  <2> QED
    BY <1>1, <2>2, <2>3 DEF Moved
<1>2. CASE p \notin Indexes
  BY <1>2 DEF Moved
<1> QED
  BY <1>1, <1>2

LEMMA CreatedType ==
    ASSUME TypeOK, NEW n \in Words, NEW kind \in Kinds
    PROVE  Created(n, kind) \in [Indexes -> Iface]
<1> DEFINE new == [Blank EXCEPT !.kind = kind, !.name = n]
<1>1. new \in Iface
  BY BlankType DEF Iface, Blank
<1>2. iface \in [Indexes -> Iface]
  BY DEF TypeOK
<1> HIDE DEF new
<1> QED
  BY <1>1, <1>2 DEF Created, new

LEMMA DeletedType == ASSUME TypeOK, NEW S
                     PROVE  Deleted(S) \in [Indexes -> Iface]
<1> SUFFICES ASSUME NEW i \in Indexes
             PROVE  (CASE i \in S -> [Blank EXCEPT !.kind = "gone"]
                       [] i \notin S /\ iface[i].master \in S -> Moved(iface, i, 0)[i]
                       [] OTHER -> iface[i]) \in Iface
  BY DEF Deleted
<1>1. [Blank EXCEPT !.kind = "gone"] \in Iface
  BY BlankType DEF Iface, Blank
<1>2. iface \in [Indexes -> Iface]
  BY DEF TypeOK
<1>3. Moved(iface, i, 0)[i] \in Iface
  BY <1>2, MovedType, CliAssumption
<1> QED
  BY <1>1, <1>2, <1>3

-----------------------------------------------------------------------------
(* The ways an action ends                                                  *)

LEMMA GoType == ASSUME TypeOK, NEW t \in ToolState, Go(t)
                PROVE  TypeOK'
  BY DEF TypeOK, Go

LEMMA ExitType == ASSUME TypeOK, NEW code \in {0, 1, Segv}, Exit(code)
                  PROVE  tool' \in ToolState /\ status' \in {Running, 0, 1, Segv}
<1>1. [tool EXCEPT !.pc = "exit"] \in ToolState
  BY ToolType DEF ToolState, Stages
<1>2. tool' = [tool EXCEPT !.pc = "exit"] /\ status' = code
  BY DEF Exit
<1> QED
  BY <1>1, <1>2

LEMMA QuitType == ASSUME TypeOK, NEW code \in {0, 1, Segv}, Quit(code)
                  PROVE  TypeOK'
<1>1. tool' \in ToolState /\ status' \in {Running, 0, 1, Segv}
  BY ExitType DEF Quit
<1> QED
  BY <1>1 DEF TypeOK, Quit

LEMMA RefusedType ==
    ASSUME TypeOK, NEW ifaces \in [Indexes -> Iface], Refused(ifaces), loaded' \in BOOLEAN
    PROVE  TypeOK'
<1>1. tool' \in ToolState /\ status' \in {Running, 0, 1, Segv}
  BY ExitType DEF Refused
<1>2. lost' \in {"nothing", "part", "reply"}
  BY Zenon DEF Refused, TypeOK
<1> QED
  BY <1>1, <1>2 DEF TypeOK, Refused

LEMMA AckedType ==
    ASSUME TypeOK, NEW ifaces \in [Indexes -> Iface], Acked(ifaces), loaded' \in BOOLEAN
    PROVE  TypeOK'
<1>1. tool' \in ToolState
  <2>1. tool \in ToolState
    BY ToolType
  <2>2. \A pc \in Stages : [tool EXCEPT !.pc = pc] \in ToolState
    BY <2>1 DEF ToolState
  <2> QED
    BY <2>2 DEF Acked, Stages
<1>2. done' \in Seq(Request)
  BY ToolType DEF TypeOK, Acked
<1>3. status' \in {Running, 0, 1, Segv}
  BY DEF Acked
<1> QED
  BY <1>1, <1>2, <1>3 DEF TypeOK, Acked

LEMMA PerformedType ==
    ASSUME TypeOK, NEW ifaces \in [Indexes -> Iface], Performed(ifaces), loaded' \in BOOLEAN
    PROVE  TypeOK'
<1>1. CASE Acked(ifaces)
  BY <1>1, AckedType
<1>2. CASE Unanswered(ifaces)
  <2>1. tool' \in ToolState /\ status' \in {Running, 0, 1, Segv}
    BY <1>2, ExitType DEF Unanswered
  <2>2. done' \in Seq(Request)
    BY <1>2, ToolType DEF TypeOK, Unanswered
  <2> QED
    BY <1>2, <2>1, <2>2 DEF TypeOK, Unanswered
<1> QED
  BY <1>1, <1>2 DEF Performed

LEMMA AskType == ASSUME TypeOK, NEW pc \in Stages, NEW request \in Request, Ask(pc, request)
                 PROVE  TypeOK'
<1>1. tool \in ToolState
  BY ToolType
<1>2. [tool EXCEPT !.pc = pc, !.asks = request] \in ToolState
  BY <1>1 DEF ToolState
<1> QED
  BY <1>2, GoType DEF Ask

LEMMA AsksType == ASSUME TypeOK, NEW op \in Operations
                  PROVE  Asks(op) \in Request
<1>1. tool.brindex \in 0..MaxIndex /\ tool.ifindex \in 0..MaxIndex /\ tool.vid \in U12
  BY ToolType
<1> QED
  BY <1>1 DEF Asks, Request

\* A number cut to 16 bits is one, and so is what is typed for a PVID.
LEMMA Remainder == ASSUME NEW n \in Int, NEW m \in Nat \ {0}
                   PROVE  n % m \in 0..(m - 1)
  OBVIOUS

LEMMA Cut16 == \A n \in Int : n % TwoTo16 \in U16
<1>1. TwoTo16 \in Nat \ {0}
  BY DEF TwoTo16
<1> QED
  BY <1>1, Remainder DEF U16

LEMMA TypedPvidType == ASSUME TypeOK
                       PROVE  TypedPvid \in U16 \cup {Absent}
<1>1. HasValue => Atoi[Value] % TwoTo16 \in U16
  BY ValueType, CliAssumption, Cut16
<1> QED
  BY <1>1 DEF TypedPvid

LEMMA WithPvidType ==
    ASSUME NEW r \in Request, NEW pvid \in U16 \cup {Absent}
    PROVE  /\ [r EXCEPT !.pvid = pvid] \in Request
           /\ [r EXCEPT !.pvid = pvid].op = r.op
           /\ [r EXCEPT !.pvid = pvid].br = r.br
           /\ [r EXCEPT !.pvid = pvid].port = r.port
  BY DEF Request

LEMMA PortSetCases ==
    ASSUME CmdPortSet
    PROVE  \/ Quit(1)
           \/ /\ tool.ifindex # 0
              /\ Ask("family", [Asks("port_set") EXCEPT !.pvid = TypedPvid])
  BY Zenon DEF CmdPortSet

LEMMA SimpleType ==
    ASSUME TypeOK, NEW table, NEW cmd, NEW pc \in Stages, NEW op \in Operations,
           NEW refused, Simple(table, cmd, pc, op, refused)
    PROVE  TypeOK'
<1>1. CASE Quit(1)
  BY <1>1, QuitType
<1>2. CASE Ask(pc, Asks(op))
  BY <1>2, AsksType, AskType
<1> QED
  BY <1>1, <1>2 DEF Simple

-----------------------------------------------------------------------------
(* Every action keeps the type                                              *)

LEMMA MainType == ASSUME TypeOK, Main
                  PROVE  TypeOK'
<1>1. [tool EXCEPT !.brindex = IndexOf(line.name), !.pc = "run"] \in ToolState
  <2>1. tool \in ToolState /\ IndexOf(line.name) \in 0..MaxIndex
    BY ToolType, IndexOfType
  <2> QED
    BY <2>1 DEF ToolState, Stages
<1> QED
  BY <1>1, GoType, QuitType DEF Main

LEMMA RunCmdType == ASSUME TypeOK, RunCmd
                    PROVE  TypeOK'
<1>1. tool \in ToolState
  BY ToolType
<1>2. ASSUME NEW c \in Table[tool.table],
             Go([tool EXCEPT !.cmd = c, !.optind = @ + 1, !.pc = "call"])
      PROVE  TypeOK'
  <2>1. c \in Commands
    BY ToolType DEF Commands
  <2>2. tool.optind + 1 \in Nat \ {0}
    BY ToolType
  <2> DEFINE n == tool.optind + 1
  <2> HIDE DEF n
  <2>3. [tool EXCEPT !.cmd = c, !.optind = n, !.pc = "call"] \in ToolState
    BY <1>1, <2>1, <2>2 DEF ToolState, Stages, n
  <2> QED
    BY <1>2, <2>3, GoType DEF n
<1> QED
  BY <1>2, QuitType DEF RunCmd

LEMMA FieldType ==
    ASSUME NEW t \in ToolState
    PROVE  /\ \A i \in 0..MaxIndex : [t EXCEPT !.ifindex = i] \in ToolState
           /\ \A v \in U12 : [t EXCEPT !.vid = v] \in ToolState
           /\ [t EXCEPT !.optind = @ + 1] \in ToolState
<1>1. ASSUME NEW i \in 0..MaxIndex
      PROVE  [t EXCEPT !.ifindex = i] \in ToolState
  BY DEF ToolState
<1>2. ASSUME NEW v \in U12
      PROVE  [t EXCEPT !.vid = v] \in ToolState
  BY DEF ToolState
<1>3. [t EXCEPT !.optind = @ + 1] \in ToolState
  <2> DEFINE n == t.optind + 1
  <2>1. n \in Nat \ {0}
    BY DEF ToolState
  <2> HIDE DEF n
  <2>2. [t EXCEPT !.optind = n] \in ToolState
    BY <2>1 DEF ToolState
  <2> QED
    BY <2>2 DEF n
<1> QED
  BY <1>1, <1>2, <1>3

LEMMA IntoType ==
    ASSUME TypeOK, NEW table \in Tables
    PROVE  /\ Into(table) \in ToolState
           /\ IntoPastWord(table) \in ToolState
           /\ \A i \in 0..MaxIndex : [IntoPastWord(table) EXCEPT !.ifindex = i] \in ToolState
           /\ \A v \in U12 : [IntoPastWord(table) EXCEPT !.vid = v] \in ToolState
<1>1. tool \in ToolState
  BY ToolType
<1>2. Into(table) \in ToolState
  BY <1>1 DEF Into, ToolState, Stages
<1>3. IntoPastWord(table) \in ToolState
  BY <1>2, FieldType DEF IntoPastWord
<1> QED
  BY <1>2, <1>3, FieldType

\* What cmd_fdb, cmd_port and cmd_vlan make of the tool's state.
LEMMA IntoCases ==
    ASSUME CmdFdb \/ CmdPort \/ CmdVlan
    PROVE  \/ Quit(1)
           \/ \E table \in {"fdb", "port", "vlan"} :
                 /\ Go(Into(table))
                 /\ table = "port" => line.help
           \/ /\ ~line.help
              /\ Go([IntoPastWord("port") EXCEPT !.ifindex = IndexOf(Word)])
           \/ /\ Atoi[Word] \in U12 \ {0}
              /\ Go([IntoPastWord("vlan") EXCEPT !.vid = Atoi[Word]])
  BY Zenon DEF CmdFdb, CmdPort, CmdVlan

LEMMA IntoTypes == ASSUME TypeOK, CmdFdb \/ CmdPort \/ CmdVlan
                   PROVE  TypeOK'
<1>0. {"fdb", "port", "vlan"} \subseteq Tables
  BY DEF Tables
<1>1. ASSUME NEW table \in {"fdb", "port", "vlan"}, Go(Into(table))
      PROVE  TypeOK'
  BY <1>0, <1>1, IntoType, GoType
<1>2. ASSUME Go([IntoPastWord("port") EXCEPT !.ifindex = IndexOf(Word)])
      PROVE  TypeOK'
  <2>1. [IntoPastWord("port") EXCEPT !.ifindex = IndexOf(Word)] \in ToolState
    BY <1>0, IntoType, IndexOfType, Zenon
  <2> QED
    BY <1>2, <2>1, GoType, Zenon
<1>3. ASSUME Atoi[Word] \in U12 \ {0}, Go([IntoPastWord("vlan") EXCEPT !.vid = Atoi[Word]])
      PROVE  TypeOK'
  <2>1. [IntoPastWord("vlan") EXCEPT !.vid = Atoi[Word]] \in ToolState
    BY <1>0, <1>3, IntoType, Zenon
  <2> QED
    BY <1>3, <2>1, GoType, Zenon
<1> QED
  BY <1>1, <1>2, <1>3, IntoCases, QuitType, Zenon

LEMMA LeafType == ASSUME TypeOK, Leaf
                  PROVE  TypeOK'
<1>0. {"link", "family"} \subseteq Stages
  BY DEF Stages
<1>00. /\ {"newlink", "dellink", "setlink", "flush", "vlan_add", "vlan_del"} \subseteq Operations
       /\ {"vlan_attach", "vlan_detach", "vlan_set", "port_set"} \subseteq Operations
  BY DEF Operations
<1>1. CASE CmdAddDel
  BY <1>0, <1>00, <1>1, SimpleType, QuitType DEF CmdAddDel
<1>2. CASE CmdFdbFlush
  BY <1>0, <1>00, <1>2, SimpleType DEF CmdFdbFlush
<1>3. CASE CmdPortAttach
  BY <1>0, <1>00, <1>3, SimpleType DEF CmdPortAttach
<1>4. CASE CmdPortDetach
  <2>1. Asks("setlink") \in Request
    BY <1>00, AsksType
  <2>2. [Asks("setlink") EXCEPT !.br = 0] \in Request
    BY <2>1, ZeroType DEF Request
  <2> QED
    BY <1>0, <1>4, <2>2, AskType, QuitType DEF CmdPortDetach
<1>5. CASE CmdPortSet
  <2>1. [Asks("port_set") EXCEPT !.pvid = TypedPvid] \in Request
    BY <1>00, AsksType, TypedPvidType, WithPvidType, Zenon
  <2>2. CASE Ask("family", [Asks("port_set") EXCEPT !.pvid = TypedPvid])
    BY <1>0, <2>1, <2>2, AskType, Zenon
  <2> QED
    BY <1>5, <2>2, PortSetCases, QuitType, Zenon
<1>6. CASE CmdVlanAddDel
  BY <1>0, <1>00, <1>6, SimpleType DEF CmdVlanAddDel
<1>7. CASE CmdVlanSet
  BY <1>0, <1>00, <1>7, SimpleType DEF CmdVlanSet
<1>8. ASSUME NEW cmd, NEW op \in Operations, NEW tagged \in BOOLEAN,
             CmdVlanPort(cmd, op, tagged)
      PROVE  TypeOK'
  <2> DEFINE i == IF More THEN IndexOf(Word) ELSE 0
  <2> DEFINE t == tagged /\ Tail(Rest) # <<>>
  <2>1. i \in 0..MaxIndex
    BY IndexOfType, ZeroType
  <2>2. t \in BOOLEAN
    OBVIOUS
  <2>3. Asks(op) \in Request
    BY AsksType
  <2> HIDE DEF i, t
  <2>4. [Asks(op) EXCEPT !.port = i, !.tagged = t] \in Request
    BY <2>1, <2>2, <2>3 DEF Request
  <2>5. Quit(1) \/ Ask("family", [Asks(op) EXCEPT !.port = i, !.tagged = t])
    BY <1>8 DEF CmdVlanPort, i, t
  <2> QED
    BY <1>0, <2>4, <2>5, AskType, QuitType
<1>9. CASE CmdVlanAttach \/ CmdVlanDetach
  BY <1>00, <1>8, <1>9 DEF CmdVlanAttach, CmdVlanDetach
<1> QED
  BY <1>1, <1>2, <1>3, <1>4, <1>5, <1>6, <1>7, <1>9 DEF Leaf

LEMMA ExchangeType == ASSUME TypeOK, Exchange
                      PROVE  TypeOK'
<1>0. iface \in [Indexes -> Iface] /\ loaded \in BOOLEAN /\ line.name \in Words
  BY LineType DEF TypeOK
<1>1. CASE NoBuffer \/ SendFails
  BY <1>1, QuitType DEF NoBuffer, SendFails
<1>2. CASE GetFamily
  <2>1. tool \in ToolState
    BY ToolType
  <2>2. [tool EXCEPT !.pc = "genl"] \in ToolState
    BY <2>1 DEF ToolState, Stages
  <2> QED
    BY <1>2, <2>2, GoType, QuitType DEF GetFamily
<1>3. CASE Newlink
  BY <1>0, <1>3, CreatedType, PerformedType, RefusedType DEF Newlink, Kinds
<1>4. CASE Dellink
  BY <1>0, <1>4, DeletedType, PerformedType, RefusedType DEF Dellink
<1>5. CASE Setlink
  <2> DEFINE p == tool.asks.port
             m == tool.asks.br
             left == Moved(iface, p, 0)
  <2>1. m \in 0..MaxIndex
    BY ToolType DEF Request
  <2>2. left \in [Indexes -> Iface] /\ Moved(iface, p, m) \in [Indexes -> Iface]
    BY <1>0, <2>1, MovedType, ZeroType
  <2>3. loaded' \in BOOLEAN
    BY <1>0, <1>5 DEF Setlink
  <2>4. \/ Refused(iface) \/ Refused(left)
        \/ Performed(iface) \/ Performed(left) \/ Performed(Moved(iface, p, m))
    BY <1>5 DEF Setlink
  <2> HIDE DEF p, m, left
  <2> QED
    BY <1>0, <2>2, <2>3, <2>4, PerformedType, RefusedType
<1>6. CASE FamilyGone
  BY <1>0, <1>6, RefusedType DEF FamilyGone
<1>7. CASE Stub
  <2>1. CASE Performed(iface) /\ UNCHANGED loaded
    BY <1>0, <2>1, PerformedType
  <2>2. CASE fault' = "null"
             /\ UNCHANGED <<line, tool, status, iface, loaded, done, lost, changes>>
    BY <2>2 DEF TypeOK
  <2> QED
    BY <1>7, <2>1, <2>2 DEF Stub
<1>8. CASE VlanCmd
  BY <1>0, <1>8, PerformedType, RefusedType DEF VlanCmd
<1>9. CASE PortSet
  <2> DEFINE r == tool.asks
             set == [iface EXCEPT ![r.port].pvid = IF r.pvid = Absent THEN 0 ELSE r.pvid]
  <2>1. CASE Refused(iface)
    BY <1>0, <1>9, <2>1, RefusedType DEF PortSet
  <2>2. ASSUME IsPortOf(r.port, r.br), Performed(set)
        PROVE  TypeOK'
    <3>1. r.port \in Indexes /\ iface[r.port] \in Iface
      BY <1>0, <2>2 DEF IsPortOf, Exists
    <3>2. (IF r.pvid = Absent THEN 0 ELSE r.pvid) \in U16
      BY ToolType, ZeroType DEF Request
    <3>3. [iface[r.port] EXCEPT !.pvid = IF r.pvid = Absent THEN 0 ELSE r.pvid] \in Iface
      BY <3>1, <3>2 DEF Iface
    <3>4. set \in [Indexes -> Iface]
      BY <1>0, <3>1, <3>3
    <3>5. loaded' \in BOOLEAN
      BY <1>0, <1>9 DEF PortSet
    <3> HIDE DEF set
    <3> QED
      BY <2>2, <3>4, <3>5, PerformedType
  <2> QED
    BY <1>9, <2>1, <2>2 DEF PortSet
<1> QED
  BY <1>1, <1>2, <1>3, <1>4, <1>5, <1>6, <1>7, <1>8, <1>9 DEF Exchange

LEMMA OthersType == ASSUME TypeOK, Others
                    PROVE  TypeOK'
<1>1. changes' \in 0..MaxChanges
  BY CliAssumption DEF TypeOK, Others
<1>2. iface' \in [Indexes -> Iface]
  <2>0. iface \in [Indexes -> Iface]
    BY DEF TypeOK
  <2>1. \A n \in {w.name : w \in Lines} : n \in Words
    BY CliAssumption
  <2>2. \A m \in Indexes \cup {0} : m \in 0..MaxIndex
    BY CliAssumption DEF Indexes
  <2>3. CASE \E S : iface' = Deleted(S)
    BY <2>3, DeletedType
  <2>4. CASE \E n \in {w.name : w \in Lines}, k \in Kinds : iface' = Created(n, k)
    BY <2>1, <2>4, CreatedType
  <2>5. CASE \E i \in Indexes, m \in Indexes \cup {0} : iface' = Moved(iface, i, m)
    BY <2>0, <2>2, <2>5, MovedType
  <2> QED
    BY <2>3, <2>4, <2>5 DEF Others
<1>3. loaded' \in BOOLEAN
  BY DEF TypeOK, Others
<1> QED
  BY <1>1, <1>2, <1>3 DEF TypeOK, Others

LEMMA TypeStep == ASSUME TypeOK, [Next]_vars
                  PROVE  TypeOK'
<1>1. CASE Parse
  BY <1>1, MainType, RunCmdType, IntoTypes DEF Parse
<1>2. CASE UNCHANGED vars
  BY <1>2 DEF TypeOK, vars
<1> QED
  BY <1>1, <1>2, LeafType, ExchangeType, OthersType DEF Next

LEMMA TypeInit == Init => TypeOK
<1> SUFFICES ASSUME Init PROVE TypeOK
  OBVIOUS
<1>1. NoRequest \in Request
  BY ZeroType DEF NoRequest, Request, Operations, U12
<1>2. tool \in ToolState
  BY <1>1, ZeroType DEF Init, ToolState, Stages, Tables, U12
<1>3. iface \in [Indexes -> Iface]
  BY CliAssumption DEF Init
<1>4. changes \in 0..MaxChanges
  BY CliAssumption DEF Init
<1>5. done = <<>> /\ lost = "nothing" /\ fault = "none"
  BY DEF Init
<1>6. line \in Lines /\ status \in {Running, 0, 1, Segv} /\ loaded \in BOOLEAN
  BY DEF Init
<1>7. done \in Seq(Request)
  BY <1>5
<1>8. lost \in {"nothing", "part", "reply"}
  BY <1>5
<1>9. fault \in {"none", "null"}
  BY <1>5
<1> QED
  BY <1>2, <1>3, <1>4, <1>6, <1>7, <1>8, <1>9 DEF TypeOK

\* Every variable stays in its type: the tool keeps indexes in its variables, and
\* every VID and PVID it sends fits the attribute.
THEOREM TypeCorrect == Spec => []TypeOK
  BY TypeInit, TypeStep, PTL DEF Spec
-----------------------------------------------------------------------------
(* The inductive invariant                                                  *)

Attaching == tool.table = "port" /\ tool.cmd = "attach"

\* Without -h and without the bridge the tool gets no further than help and add,
\* so a port is only looked up when the bridge has been found.
Found ==
    /\ tool.pc = "main" => tool.table = "ubr"
    /\ tool.table = "ubr" => tool.ifindex = 0
    /\ tool.table = "port" /\ tool.ifindex # 0 => tool.brindex # 0
    /\ tool.pc \notin {"main", "exit"} /\ ~line.help /\ tool.brindex = 0 =>
          /\ tool.table = "ubr"
          /\ IF tool.pc = "run" THEN More => Word \in AddLike ELSE tool.cmd = "add"

\* Which requests move a port, and what port attach asks in its two requests.
Asking ==
    /\ tool.pc = "link" /\ tool.asks.op = "setlink" =>
          /\ tool.table = "port"
          /\ tool.asks.br # 0 => Attaching
    /\ tool.pc = "settings" => Attaching
    /\ Attaching /\ tool.pc \in {"link", "settings", "family", "genl"} =>
          /\ tool.ifindex # 0
          /\ tool.asks.br = tool.brindex
          /\ tool.asks.port = tool.ifindex
          /\ tool.asks.op = IF tool.pc \in {"link", "settings"} THEN "setlink" ELSE "port_set"

\* Before the tool ends only port attach has had a request carried out, and then
\* only the first of its two.
Attached == /\ Len(done) = 1
            /\ done[1].op = "setlink"
            /\ done[1].br = tool.brindex
            /\ done[1].port = tool.ifindex

CarriedOut ==
    /\ tool.pc = "exit" <=> status # Running
    /\ tool.pc # "exit" =>
          /\ lost = "nothing"
          /\ IF Attaching /\ tool.pc \in {"settings", "family", "genl"}
               THEN More /\ Attached
               ELSE done = <<>>
    /\ FailureIsExplained
    /\ ExitZeroMeansDone

Inv == Found /\ Asking /\ CarriedOut

\* The invariant speaks of these variables only.
LEMMA InvQuiet == ASSUME Inv, UNCHANGED <<line, tool, status, done, lost>>
                  PROVE  Inv'
  BY DEF Inv, Found, Asking, CarriedOut, Attaching, Attached, FailureIsExplained,
         ExitZeroMeansDone, More, Word

\* A tool that ends keeps all it has looked up.
LEMMA ExitKeeps ==
    ASSUME TypeOK, NEW code, Exit(code), UNCHANGED line
    PROVE  /\ tool'.pc = "exit" /\ status' = code
           /\ tool'.table = tool.table /\ tool'.cmd = tool.cmd
           /\ tool'.brindex = tool.brindex /\ tool'.ifindex = tool.ifindex
           /\ More' = More /\ Attaching' = Attaching
<1>1. tool \in ToolState
  BY ToolType
<1>2. tool'.pc = "exit" /\ tool'.table = tool.table /\ tool'.cmd = tool.cmd
  BY <1>1 DEF Exit, ToolState
<1>3. /\ tool'.brindex = tool.brindex /\ tool'.ifindex = tool.ifindex
      /\ tool'.optind = tool.optind
  BY <1>1 DEF Exit, ToolState
<1> QED
  BY <1>2, <1>3 DEF Exit, More, Attaching

LEMMA ExitFound == ASSUME TypeOK, Inv, NEW code, Exit(code), UNCHANGED line
                   PROVE  Found' /\ Asking'
  BY ExitKeeps DEF Inv, Found, Asking

\* A running tool that has had a request carried out has attached a port, and has
\* words left.
LEMMA OnlyAttached ==
    ASSUME Inv, tool.pc # "exit"
    PROVE  /\ lost = "nothing"
           /\ done = <<>> \/ (Attaching /\ More /\ Len(done) = 1)
  BY DEF Inv, CarriedOut, Attached

\* A refusal by the tool itself.
LEMMA QuitInv ==
    ASSUME TypeOK, Inv, tool.pc # "exit", NEW code \in {1, Segv}, Quit(code),
           code = 1 \/ done = <<>>
    PROVE  Inv'
<1>1. Exit(code) /\ UNCHANGED <<line, done, lost>>
  BY DEF Quit
<1>2. tool'.pc = "exit" /\ status' = code /\ Attaching' = Attaching /\ More' = More
  BY <1>1, ExitKeeps
<1>3. lost = "nothing" /\ (done = <<>> \/ (Attaching /\ More /\ Len(done) = 1))
  BY OnlyAttached
<1>4. FailureIsExplained'
  BY <1>1, <1>2, <1>3 DEF FailureIsExplained, Attaching
<1>5. ExitZeroMeansDone'
  BY <1>2 DEF ExitZeroMeansDone
<1> QED
  BY <1>1, <1>2, <1>4, <1>5, ExitFound DEF Inv, CarriedOut

\* Help ends the tool with success before it has asked for anything.
LEMMA HelpInv ==
    ASSUME TypeOK, Inv, tool.pc \in {"run", "call"}, line.help \/ ~More, Quit(0)
    PROVE  Inv'
<1>1. Exit(0) /\ UNCHANGED <<line, done, lost>>
  BY DEF Quit
<1>2. tool'.pc = "exit" /\ status' = 0 /\ More' = More
  BY <1>1, ExitKeeps
<1>3. lost = "nothing" /\ done = <<>>
  BY DEF Inv, CarriedOut
<1>4. FailureIsExplained'
  BY <1>2 DEF FailureIsExplained
<1>5. ExitZeroMeansDone'
  BY <1>1, <1>2, <1>3 DEF ExitZeroMeansDone
<1> QED
  BY <1>1, <1>2, <1>4, <1>5, ExitFound DEF Inv, CarriedOut

\* As long as the tool runs, the last two parts of CarriedOut say nothing.
LEMMA RunningInv ==
    ASSUME status = Running
    PROVE  FailureIsExplained /\ ExitZeroMeansDone
  BY DEF FailureIsExplained, ExitZeroMeansDone
-----------------------------------------------------------------------------
(* The command line preserves the invariant                                 *)

\* Steps between functions before anything has been asked.
LEMMA GoInv ==
    ASSUME TypeOK, Inv, NEW t \in ToolState, Go(t),
           tool.pc \in {"main", "run", "call"}, t.pc \in {"run", "call"}, Found'
    PROVE  Inv'
<1>1. tool' = t /\ UNCHANGED <<line, status, done, lost>>
  BY DEF Go
<1>2. status = Running /\ done = <<>> /\ lost = "nothing"
  BY DEF Inv, CarriedOut
<1>3. Asking'
  BY <1>1 DEF Asking
<1>4. FailureIsExplained' /\ ExitZeroMeansDone'
  BY <1>1, <1>2 DEF FailureIsExplained, ExitZeroMeansDone
<1> QED
  BY <1>1, <1>2, <1>3, <1>4 DEF Inv, CarriedOut

LEMMA MainInv == ASSUME TypeOK, Inv, Main
                 PROVE  Inv'
<1>1. tool.pc = "main"
  BY DEF Main, At
<1>2. CASE Quit(1)
  BY <1>1, <1>2, QuitInv
<1>3. ASSUME ~line.help /\ IndexOf(line.name) = 0 /\ More => Word \in AddLike,
             Go([tool EXCEPT !.brindex = IndexOf(line.name), !.pc = "run"])
      PROVE  Inv'
  <2> DEFINE t == [tool EXCEPT !.brindex = IndexOf(line.name), !.pc = "run"]
  <2>1. tool \in ToolState /\ IndexOf(line.name) \in 0..MaxIndex
    BY ToolType, IndexOfType
  <2>2. t \in ToolState
    BY <2>1 DEF ToolState, Stages
  <2>3. /\ t.pc = "run" /\ t.table = tool.table /\ t.ifindex = tool.ifindex
        /\ t.brindex = IndexOf(line.name) /\ t.optind = tool.optind
    BY <2>1 DEF ToolState
  <2> HIDE DEF t
  <2>4. tool' = t /\ line' = line
    BY <1>3 DEF Go, t
  <2>5. More' = More /\ Word' = Word
    BY <2>3, <2>4 DEF More, Word
  <2>6. Found'
    BY <1>1, <1>3, <2>3, <2>4, <2>5 DEF Found, Inv
  <2> QED
    BY <1>1, <1>3, <2>2, <2>3, <2>6, GoInv DEF t
<1> QED
  BY <1>2, <1>3 DEF Main

\* A word that begins with "ad" selects no command but add.
LEMMA AddLikeFindsAdd ==
    ASSUME NEW w \in AddLike, NEW c \in Table.ubr, Finds(Table.ubr, w, c)
    PROVE  c = "add"
  BY CliAssumption DEF Finds, Table

LEMMA RunCmdInv == ASSUME TypeOK, Inv, RunCmd
                   PROVE  Inv'
<1>1. tool.pc = "run"
  BY DEF RunCmd, At
<1>2. CASE Quit(1)
  BY <1>1, <1>2, QuitInv
<1>3. CASE ~More /\ Quit(0)
  BY <1>1, <1>3, HelpInv
<1>4. ASSUME More, NEW c \in Table[tool.table], Finds(Table[tool.table], Word, c),
             Go([tool EXCEPT !.cmd = c, !.optind = @ + 1, !.pc = "call"])
      PROVE  Inv'
  <2> DEFINE n == tool.optind + 1
             t == [tool EXCEPT !.cmd = c, !.optind = n, !.pc = "call"]
  <2>1. tool \in ToolState /\ c \in Commands /\ n \in Nat \ {0}
    BY ToolType DEF Commands
  <2>0. Go(t)
    BY <1>4
  <2> HIDE DEF n
  <2>2. t \in ToolState
    BY <2>1 DEF ToolState, Stages
  <2>3. /\ t.pc = "call" /\ t.table = tool.table /\ t.ifindex = tool.ifindex
        /\ t.brindex = tool.brindex /\ t.cmd = c
    BY <2>1 DEF ToolState
  <2> HIDE DEF t
  <2>4. tool' = t /\ line' = line
    BY <2>0 DEF Go
  <2>5. ASSUME ~line.help, tool.brindex = 0
        PROVE  c = "add"
    <3>1. tool.table = "ubr" /\ Word \in AddLike
      BY <1>1, <1>4, <2>5 DEF Inv, Found
    <3> QED
      BY <1>4, <3>1, AddLikeFindsAdd DEF Table
  <2>6. Found'
    BY <1>1, <2>3, <2>4, <2>5 DEF Found, Inv
  <2> QED
    BY <1>1, <2>0, <2>2, <2>3, <2>6, GoInv
<1> QED
  BY <1>2, <1>3, <1>4 DEF RunCmd

\* Going on to the commands of fdb, port and vlan.
LEMMA IntoInv == ASSUME TypeOK, Inv, CmdFdb \/ CmdPort \/ CmdVlan
                 PROVE  Inv'
<1>0. tool.pc = "call" /\ tool.table = "ubr" /\ tool.ifindex = 0
  BY DEF CmdFdb, CmdPort, CmdVlan, Calling, At, Inv, Found
<1>1. tool.cmd \in {"fdb", "port", "vlan"}
  BY DEF CmdFdb, CmdPort, CmdVlan, Calling
<1>2. line.help \/ tool.brindex # 0
  BY <1>0, <1>1 DEF Inv, Found
<1>3. ASSUME NEW t \in ToolState, Go(t),
             t.pc = "run", t.table \in {"fdb", "port", "vlan"}, t.brindex = tool.brindex,
             t.table = "port" => ~line.help \/ t.ifindex = 0
      PROVE  Inv'
  <2>1. tool' = t /\ line' = line
    BY <1>3 DEF Go
  <2>2. Found'
    BY <1>2, <1>3, <2>1 DEF Found
  <2> QED
    BY <1>0, <1>3, <2>2, GoInv
<1>4. ASSUME NEW table \in {"fdb", "port", "vlan"}
      PROVE  /\ Into(table) \in ToolState /\ Into(table).pc = "run"
             /\ Into(table).table = table
             /\ Into(table).brindex = tool.brindex /\ Into(table).ifindex = 0
  <2>1. table \in Tables /\ tool \in ToolState
    BY ToolType DEF Tables
  <2>2. Into(table) \in ToolState
    BY <2>1, IntoType
  <2> QED
    BY <1>0, <2>1, <2>2 DEF Into, ToolState
<1>5. ASSUME NEW table \in {"fdb", "port", "vlan"}, Go(Into(table)),
             table = "port" => line.help
      PROVE  Inv'
  BY <1>3, <1>4, <1>5
<1>6. ASSUME NEW t \in ToolState, Go(t), NEW table \in {"port", "vlan"},
             t.pc = "run", t.table = table, t.brindex = tool.brindex,
             table = "port" => ~line.help
      PROVE  Inv'
  BY <1>3, <1>6
<1>7. ASSUME NEW table \in {"port", "vlan"}
      PROVE  /\ \A i : [IntoPastWord(table) EXCEPT !.ifindex = i].pc = "run"
             /\ \A i : [IntoPastWord(table) EXCEPT !.ifindex = i].table = table
             /\ \A i : [IntoPastWord(table) EXCEPT !.ifindex = i].brindex = tool.brindex
             /\ \A v : [IntoPastWord(table) EXCEPT !.vid = v].pc = "run"
             /\ \A v : [IntoPastWord(table) EXCEPT !.vid = v].table = table
             /\ \A v : [IntoPastWord(table) EXCEPT !.vid = v].brindex = tool.brindex
  <2>1. IntoPastWord(table) \in ToolState
    BY IntoType DEF Tables
  <2>2. /\ IntoPastWord(table).pc = "run" /\ IntoPastWord(table).table = table
        /\ IntoPastWord(table).brindex = tool.brindex
    BY <1>4 DEF IntoPastWord, ToolState
  <2> QED
    BY <2>1, <2>2 DEF ToolState
<1>8. ASSUME ~line.help, Go([IntoPastWord("port") EXCEPT !.ifindex = IndexOf(Word)])
      PROVE  Inv'
  <2> DEFINE t == [IntoPastWord("port") EXCEPT !.ifindex = IndexOf(Word)]
  <2>1. t \in ToolState
    BY IntoType, IndexOfType, Zenon DEF Tables
  <2>2. t.pc = "run" /\ t.table = "port" /\ t.brindex = tool.brindex
    BY <1>7, Zenon
  <2>3. Go(t)
    BY <1>8
  <2> HIDE DEF t
  <2> QED
    BY <1>6, <1>8, <2>1, <2>2, <2>3
<1>9. ASSUME Atoi[Word] \in U12 \ {0}, Go([IntoPastWord("vlan") EXCEPT !.vid = Atoi[Word]])
      PROVE  Inv'
  <2> DEFINE t == [IntoPastWord("vlan") EXCEPT !.vid = Atoi[Word]]
  <2>1. t \in ToolState
    BY <1>9, IntoType, Zenon DEF Tables
  <2>2. t.pc = "run" /\ t.table = "vlan" /\ t.brindex = tool.brindex
    BY <1>7, Zenon
  <2>3. Go(t)
    BY <1>9
  <2> HIDE DEF t
  <2> QED
    BY <1>6, <2>1, <2>2, <2>3
<1>10. CASE Quit(1)
  BY <1>0, <1>10, QuitInv
<1> QED
  BY <1>5, <1>8, <1>9, <1>10, IntoCases, Zenon
\* A command that asks for something.
LEMMA AskInv ==
    ASSUME TypeOK, Inv, tool.pc \in {"call", "settings"},
           NEW pc \in {"link", "family"}, NEW request \in Request, Ask(pc, request),
           tool.pc = "settings" => pc = "family",
           ~line.help /\ tool.brindex = 0 => pc = "link" /\ tool.cmd = "add" /\ tool.table = "ubr",
           pc = "family" /\ tool.pc = "call" => ~Attaching,
           pc = "link" /\ request.op = "setlink" =>
               tool.table = "port" /\ (request.br # 0 => Attaching),
           Attaching => /\ tool.ifindex # 0
                        /\ request.br = tool.brindex /\ request.port = tool.ifindex
                        /\ request.op = IF pc = "link" THEN "setlink" ELSE "port_set"
    PROVE  Inv'
<1>1. tool \in ToolState
  BY ToolType
<1>2. /\ tool' = [tool EXCEPT !.pc = pc, !.asks = request]
      /\ UNCHANGED <<line, status, done, lost>>
  BY DEF Ask, Go
<1>3. /\ tool'.pc = pc /\ tool'.asks = request
      /\ tool'.table = tool.table /\ tool'.cmd = tool.cmd
  BY <1>1, <1>2 DEF ToolState
<1>4. /\ tool'.brindex = tool.brindex /\ tool'.ifindex = tool.ifindex
      /\ tool'.optind = tool.optind
  BY <1>1, <1>2 DEF ToolState
<1>5. More' = More /\ Attaching' = Attaching
  BY <1>2, <1>3, <1>4 DEF More, Attaching
<1>6. status = Running
  BY DEF Inv, CarriedOut
<1>7. Found'
  BY <1>2, <1>3, <1>4 DEF Inv, Found
<1>8. Asking'
  BY <1>3, <1>4, <1>5 DEF Asking
<1>9. CASE tool.pc = "call"
  <2>1. lost = "nothing" /\ done = <<>>
    BY <1>9 DEF Inv, CarriedOut
  <2>2. FailureIsExplained' /\ ExitZeroMeansDone'
    BY <1>2, <1>6 DEF FailureIsExplained, ExitZeroMeansDone
  <2>3. ~(Attaching' /\ tool'.pc \in {"settings", "family", "genl"})
    BY <1>3, <1>5, <1>9
  <2> QED
    BY <1>2, <1>3, <1>6, <1>7, <1>8, <2>1, <2>2, <2>3 DEF Inv, CarriedOut
<1>10. CASE tool.pc = "settings"
  <2>1. lost = "nothing" /\ Attaching /\ More /\ Attached
    BY <1>10 DEF Inv, CarriedOut, Asking
  <2>2. FailureIsExplained' /\ ExitZeroMeansDone'
    BY <1>2, <1>6 DEF FailureIsExplained, ExitZeroMeansDone
  <2>3. Attached'
    BY <1>2, <1>4, <2>1 DEF Attached
  <2>4. tool'.pc = "family"
    BY <1>3, <1>10
  <2> QED
    BY <1>2, <1>5, <1>6, <1>7, <1>8, <2>1, <2>2, <2>3, <2>4 DEF Inv, CarriedOut
<1> QED
  BY <1>9, <1>10

LEMMA SimpleInv ==
    ASSUME TypeOK, Inv, NEW table \in Tables, NEW cmd, NEW op \in Operations \ {"setlink"},
           NEW pc \in {"link", "family"}, NEW refused,
           Simple(table, cmd, pc, op, refused),
           table # "port", table = "ubr" => cmd = "add" \/ cmd = "del",
           pc = "link" <=> table = "ubr"
    PROVE  Inv'
<1>1. tool.pc = "call" /\ tool.table = table /\ tool.cmd = cmd
  BY DEF Simple, Calling, At
<1>2. CASE Quit(1)
  BY <1>1, <1>2, QuitInv
<1>3. CASE Ask(pc, Asks(op))
  <2>1. Asks(op) \in Request /\ Asks(op).op = op
    BY AsksType DEF Asks
  <2>2. ~line.help /\ tool.brindex = 0 => tool.cmd = "add" /\ tool.table = "ubr"
    BY <1>1 DEF Inv, Found
  <2>3. ~Attaching
    BY <1>1 DEF Attaching
  <2> QED
    BY <1>1, <1>3, <2>1, <2>2, <2>3, AskInv
<1> QED
  BY <1>2, <1>3 DEF Simple

LEMMA LeafInv == ASSUME TypeOK, Inv, Leaf
                 PROVE  Inv'
<1>0. {"ubr", "vlan", "fdb"} \subseteq Tables
  BY DEF Tables
<1>00. /\ {"newlink", "dellink", "flush", "vlan_add", "vlan_del"} \subseteq Operations
       /\ {"setlink", "vlan_attach", "vlan_detach", "vlan_set", "port_set"} \subseteq Operations
  BY DEF Operations
<1>1. CASE CmdAddDel
  <2>1. CASE line.help /\ (Calling("ubr", "add") \/ Calling("ubr", "del")) /\ Quit(0)
    BY <2>1, HelpInv DEF Calling, At
  <2>2. CASE Simple("ubr", "add", "link", "newlink", FALSE)
    BY <1>0, <1>00, <2>2, SimpleInv
  <2>3. CASE Simple("ubr", "del", "link", "dellink", FALSE)
    BY <1>0, <1>00, <2>3, SimpleInv
  <2> QED
    BY <1>1, <2>1, <2>2, <2>3 DEF CmdAddDel
<1>2. CASE CmdFdbFlush
  BY <1>0, <1>00, <1>2, SimpleInv DEF CmdFdbFlush
<1>3. CASE CmdPortAttach
  <2>1. tool.pc = "call" /\ tool.table = "port" /\ tool.cmd = "attach"
    BY <1>3 DEF CmdPortAttach, Simple, Calling, At
  <2>2. CASE Quit(1)
    BY <2>1, <2>2, QuitInv
  <2>3. CASE tool.ifindex # 0 /\ Ask("link", Asks("setlink"))
    <3>1. /\ Asks("setlink") \in Request /\ Asks("setlink").op = "setlink"
          /\ Asks("setlink").br = tool.brindex /\ Asks("setlink").port = tool.ifindex
      BY <1>00, AsksType DEF Asks
    <3>2. tool.brindex # 0
      BY <2>1, <2>3 DEF Inv, Found
    <3> QED
      BY <2>1, <2>3, <3>1, <3>2, AskInv DEF Attaching
  <2> QED
    BY <1>3, <2>2, <2>3 DEF CmdPortAttach, Simple
<1>4. CASE CmdPortDetach
  <2>1. tool.pc = "call" /\ tool.table = "port" /\ tool.cmd = "detach"
    BY <1>4 DEF CmdPortDetach, Calling, At
  <2>2. CASE Quit(1)
    BY <2>1, <2>2, QuitInv
  <2>3. CASE tool.ifindex # 0 /\ Ask("link", [Asks("setlink") EXCEPT !.br = 0])
    <3> DEFINE r == [Asks("setlink") EXCEPT !.br = 0]
    <3>1. Asks("setlink") \in Request
      BY <1>00, AsksType
    <3>2. r \in Request /\ r.br = 0
      BY <3>1, ZeroType DEF Request
    <3>3. tool.brindex # 0
      BY <2>1, <2>3 DEF Inv, Found
    <3> HIDE DEF r
    <3>4. Ask("link", r)
      BY <2>3 DEF r
    <3> QED
      BY <2>1, <3>2, <3>3, <3>4, AskInv DEF Attaching
  <2> QED
    BY <1>4, <2>2, <2>3 DEF CmdPortDetach
<1>5. CASE CmdPortSet
  <2>1. /\ tool.pc \in {"call", "settings"}
        /\ tool.pc = "call" => tool.table = "port" /\ tool.cmd = "set"
        /\ tool.pc = "settings" => Attaching
    BY <1>5 DEF CmdPortSet, Calling, At, Inv, Asking
  <2>2. CASE Quit(1)
    BY <2>1, <2>2, QuitInv
  <2>3. ASSUME tool.ifindex # 0, Ask("family", [Asks("port_set") EXCEPT !.pvid = TypedPvid])
        PROVE  Inv'
    <3> DEFINE r == [Asks("port_set") EXCEPT !.pvid = TypedPvid]
    <3>1. Asks("port_set") \in Request
      BY <1>00, AsksType
    <3>2. r \in Request /\ r.op = "port_set" /\ r.br = tool.brindex /\ r.port = tool.ifindex
      BY <3>1, TypedPvidType, WithPvidType DEF Asks
    <3>3. tool.brindex # 0
      BY <2>1, <2>3 DEF Inv, Found, Attaching
    <3>4. Ask("family", r)
      BY <2>3
    <3> HIDE DEF r
    <3> QED
      BY <2>1, <2>3, <3>2, <3>3, <3>4, AskInv DEF Attaching
  <2> QED
    BY <1>5, <2>2, <2>3, PortSetCases, Zenon
<1>6. CASE CmdVlanAddDel
  <2>1. CASE Simple("vlan", "add", "family", "vlan_add", tool.vid = 0)
    BY <1>0, <1>00, <2>1, SimpleInv
  <2>2. CASE Simple("vlan", "del", "family", "vlan_del", tool.vid = 0)
    BY <1>0, <1>00, <2>2, SimpleInv
  <2> QED
    BY <1>6, <2>1, <2>2 DEF CmdVlanAddDel
<1>7. CASE CmdVlanSet
  BY <1>0, <1>00, <1>7, SimpleInv DEF CmdVlanSet
<1>8. ASSUME NEW cmd, NEW op \in Operations, NEW tagged \in BOOLEAN,
             CmdVlanPort(cmd, op, tagged)
      PROVE  Inv'
  <2> DEFINE i == IF More THEN IndexOf(Word) ELSE 0
             t == tagged /\ Tail(Rest) # <<>>
             r == [Asks(op) EXCEPT !.port = i, !.tagged = t]
  <2>1. i \in 0..MaxIndex /\ t \in BOOLEAN /\ Asks(op) \in Request
    BY IndexOfType, ZeroType, AsksType
  <2>2. Quit(1) \/ Ask("family", r)
    BY <1>8 DEF CmdVlanPort
  <2> HIDE DEF i, t
  <2>3. r \in Request
    BY <2>1 DEF Request
  <2> HIDE DEF r
  <2>4. tool.pc = "call" /\ tool.table = "vlan"
    BY <1>8 DEF CmdVlanPort, Calling, At
  <2>5. line.help \/ tool.brindex # 0
    BY <2>4 DEF Inv, Found
  <2>6. ~Attaching
    BY <2>4 DEF Attaching
  <2>7. CASE Quit(1)
    BY <2>4, <2>7, QuitInv
  <2>8. CASE Ask("family", r)
    BY <2>3, <2>4, <2>5, <2>6, <2>8, AskInv
  <2> QED
    BY <2>2, <2>7, <2>8
<1>9. CASE CmdVlanAttach \/ CmdVlanDetach
  BY <1>00, <1>8, <1>9 DEF CmdVlanAttach, CmdVlanDetach
<1> QED
  BY <1>1, <1>2, <1>3, <1>4, <1>5, <1>6, <1>7, <1>9 DEF Leaf
-----------------------------------------------------------------------------
(* The exchange with the kernel preserves the invariant                     *)

LEMMA RefusedInv ==
    ASSUME TypeOK, Inv, tool.pc \in {"link", "genl"}, NEW ifaces, Refused(ifaces),
           ifaces # iface => tool.pc = "link" /\ Attaching
    PROVE  Inv'
<1>1. Exit(1) /\ UNCHANGED <<line, done>> /\ lost' = IF ifaces # iface THEN "part" ELSE lost
  BY DEF Refused
<1>2. tool'.pc = "exit" /\ status' = 1 /\ Attaching' = Attaching /\ More' = More
  BY <1>1, ExitKeeps
<1>3. lost = "nothing" /\ (done = <<>> \/ (Attaching /\ More /\ Len(done) = 1))
  BY OnlyAttached
<1>4. ifaces # iface => Attaching /\ done = <<>>
  BY DEF Inv, CarriedOut
<1>5. FailureIsExplained'
  BY <1>1, <1>2, <1>3, <1>4 DEF FailureIsExplained, Attaching
<1>6. ExitZeroMeansDone'
  BY <1>2 DEF ExitZeroMeansDone
<1> QED
  BY <1>1, <1>2, <1>5, <1>6, ExitFound DEF Inv, CarriedOut

LEMMA UnansweredInv ==
    ASSUME TypeOK, Inv, tool.pc \in {"link", "genl"}, NEW ifaces, Unanswered(ifaces)
    PROVE  Inv'
<1>1. Exit(1) /\ UNCHANGED line /\ lost' = "reply" /\ done' = Append(done, tool.asks)
  BY DEF Unanswered
<1>2. tool'.pc = "exit" /\ status' = 1 /\ Attaching' = Attaching /\ More' = More
  BY <1>1, ExitKeeps
<1>3. done = <<>> \/ (Attaching /\ More /\ Len(done) = 1)
  BY OnlyAttached
<1>4. Len(done') = Len(done) + 1
  BY <1>1, ToolType DEF TypeOK
<1>5. FailureIsExplained'
  BY <1>1, <1>2, <1>3, <1>4 DEF FailureIsExplained, Attaching
<1>6. ExitZeroMeansDone'
  BY <1>2 DEF ExitZeroMeansDone
<1> QED
  BY <1>1, <1>2, <1>5, <1>6, ExitFound DEF Inv, CarriedOut

LEMMA AckedInv ==
    ASSUME TypeOK, Inv, tool.pc \in {"link", "genl"}, NEW ifaces, Acked(ifaces),
           tool.pc = "genl" => tool.asks.op # "setlink"
    PROVE  Inv'
<1> DEFINE pc == IF SettingsFollow THEN "settings" ELSE "exit"
<1>1. tool \in ToolState /\ done \in Seq(Request)
  BY DEF TypeOK
<1>2. /\ tool' = [tool EXCEPT !.pc = pc]
      /\ status' = IF SettingsFollow THEN Running ELSE 0
      /\ done' = Append(done, tool.asks)
      /\ UNCHANGED <<line, lost>>
  BY DEF Acked
<1> HIDE DEF pc
<1>3. /\ tool'.pc = pc /\ tool'.asks = tool.asks
      /\ tool'.table = tool.table /\ tool'.cmd = tool.cmd
  BY <1>1, <1>2 DEF ToolState
<1>4. /\ tool'.brindex = tool.brindex /\ tool'.ifindex = tool.ifindex
      /\ tool'.optind = tool.optind
  BY <1>1, <1>2 DEF ToolState
<1>5. More' = More /\ Attaching' = Attaching
  BY <1>2, <1>3, <1>4 DEF More, Attaching
<1>6. lost = "nothing" /\ lost' = "nothing"
  BY <1>2 DEF Inv, CarriedOut
<1>7. FailureIsExplained'
  BY <1>2 DEF FailureIsExplained
<1>8. CASE SettingsFollow
  <2>1. tool.pc = "link" /\ tool.asks.op = "setlink" /\ tool.cmd = "attach" /\ More
    BY <1>8 DEF SettingsFollow
  <2>2. Attaching /\ done = <<>>
    BY <2>1 DEF Inv, Asking, CarriedOut, Attaching
  <2>3. tool.asks.br = tool.brindex /\ tool.asks.port = tool.ifindex /\ tool.ifindex # 0
    BY <2>1, <2>2 DEF Inv, Asking
  <2>4. done' = <<tool.asks>>
    BY <1>2, <2>2
  <2>5. Attached'
    BY <1>4, <2>1, <2>3, <2>4 DEF Attached
  <2>6. status' = Running /\ tool'.pc = "settings"
    BY <1>2, <1>3, <1>8 DEF pc
  <2>7. ExitZeroMeansDone'
    BY <2>6 DEF ExitZeroMeansDone
  <2>8. Found'
    BY <1>2, <1>3, <1>4, <2>2, <2>3, <2>6 DEF Inv, Found, Attaching
  <2>9. Asking'
    BY <1>3, <1>4, <1>5, <2>1, <2>2, <2>3, <2>6 DEF Asking
  <2> QED
    BY <1>5, <1>6, <1>7, <2>1, <2>2, <2>5, <2>6, <2>7, <2>8, <2>9 DEF Inv, CarriedOut
<1>9. CASE ~SettingsFollow
  <2>1. status' = 0 /\ tool'.pc = "exit"
    BY <1>2, <1>3, <1>9 DEF pc
  <2>2. Found' /\ Asking'
    BY <1>2, <1>3, <1>4, <2>1 DEF Inv, Found, Asking
  <2>3. ExitZeroMeansDone'
    <3>1. CASE done = <<>>
      <4>1. done' = <<tool.asks>>
        BY <1>2, <3>1
      <4>2. Len(done') = 1 /\ done' # <<>>
        BY <4>1
      <4>3. ~(Attaching /\ More)
        BY <1>9, <3>1 DEF Inv, Asking, CarriedOut, Attached, SettingsFollow, Attaching
      <4> QED
        BY <1>5, <1>6, <4>2, <4>3 DEF ExitZeroMeansDone, Attaching
    <3>2. CASE done # <<>>
      <4>1. tool.pc = "genl" /\ Attaching /\ Attached
        BY <3>2 DEF Inv, CarriedOut
      <4>2. /\ tool.asks.op = "port_set"
            /\ tool.asks.br = tool.brindex /\ tool.asks.port = tool.ifindex
        BY <4>1 DEF Inv, Asking
      <4>3. Len(done) = 1
        BY <4>1 DEF Attached
      <4>4. Len(done') = 2 /\ done'[1] = done[1] /\ done'[2] = tool.asks
        <5>1. done' = Append(done, tool.asks) /\ done \in Seq(Request)
          BY <1>1, <1>2
        <5>2. tool.asks \in Request
          BY ToolType
        <5> QED
          BY <4>3, <5>1, <5>2, AppendProperties
      <4>5. done' # <<>>
        BY <4>4
      <4> QED
        BY <1>6, <4>1, <4>2, <4>4, <4>5 DEF ExitZeroMeansDone, Attached
    <3> QED
      BY <3>1, <3>2
  <2> QED
    BY <1>7, <2>1, <2>2, <2>3 DEF Inv, CarriedOut
<1> QED
  BY <1>8, <1>9

LEMMA PerformedInv ==
    ASSUME TypeOK, Inv, tool.pc \in {"link", "genl"}, NEW ifaces, Performed(ifaces),
           tool.pc = "genl" => tool.asks.op # "setlink"
    PROVE  Inv'
  BY AckedInv, UnansweredInv DEF Performed

LEMMA ExchangeInv == ASSUME TypeOK, Inv, Exchange
                     PROVE  Inv'
<1>1. CASE NoBuffer
  BY <1>1, QuitInv DEF NoBuffer, At
<1>2. CASE SendFails
  BY <1>2, QuitInv DEF SendFails, At
<1>3. CASE GetFamily
  <2>1. tool.pc = "family"
    BY <1>3 DEF GetFamily, At
  <2>2. CASE Quit(1)
    BY <2>1, <2>2, QuitInv
  <2>3. CASE Go([tool EXCEPT !.pc = "genl"])
    <3>1. tool \in ToolState
      BY ToolType
    <3>2. /\ tool' = [tool EXCEPT !.pc = "genl"]
          /\ UNCHANGED <<line, status, done, lost>>
      BY <2>3 DEF Go
    <3>3. /\ tool'.pc = "genl" /\ tool'.asks = tool.asks
          /\ tool'.table = tool.table /\ tool'.cmd = tool.cmd
      BY <3>1, <3>2 DEF ToolState
    <3>4. /\ tool'.brindex = tool.brindex /\ tool'.ifindex = tool.ifindex
          /\ tool'.optind = tool.optind
      BY <3>1, <3>2 DEF ToolState
    <3>5. More' = More /\ Attaching' = Attaching /\ Attached' = Attached
      BY <3>2, <3>3, <3>4 DEF More, Attaching, Attached
    <3>6. status = Running
      BY <2>1 DEF Inv, CarriedOut
    <3>7. FailureIsExplained' /\ ExitZeroMeansDone'
      BY <3>2, <3>6 DEF FailureIsExplained, ExitZeroMeansDone
    <3>8. Found'
      BY <2>1, <3>2, <3>3, <3>4 DEF Inv, Found
    <3>9. Asking'
      BY <2>1, <3>3, <3>4, <3>5 DEF Inv, Asking
    <3> QED
      BY <2>1, <3>2, <3>3, <3>5, <3>6, <3>7, <3>8, <3>9 DEF Inv, CarriedOut
  <2> QED
    BY <1>3, <2>2, <2>3 DEF GetFamily
<1>4. CASE Newlink
  BY <1>4, PerformedInv, RefusedInv DEF Newlink, Asked, At
<1>5. CASE Dellink
  BY <1>5, PerformedInv, RefusedInv DEF Dellink, Asked, At
<1>6. CASE Setlink
  <2> DEFINE p == tool.asks.port
             m == tool.asks.br
             left == Moved(iface, p, 0)
             joined == Moved(iface, p, m)
  <2>1. tool.pc = "link" /\ tool.asks.op = "setlink"
    BY <1>6 DEF Setlink, Asked, At
  <2>2. tool.asks.br # 0 => Attaching
    BY <2>1 DEF Inv, Asking
  <2>3. \/ Refused(iface) \/ (m # 0 /\ Refused(left))
        \/ Performed(iface) \/ Performed(left) \/ Performed(joined)
    BY <1>6 DEF Setlink
  <2> HIDE DEF left, joined
  <2> QED
    BY <2>1, <2>2, <2>3, PerformedInv, RefusedInv
<1>7. CASE FamilyGone
  BY <1>7, RefusedInv DEF FamilyGone, At
<1>8. CASE Stub
  BY <1>8, PerformedInv, InvQuiet DEF Stub, Asked, At
<1>9. CASE VlanCmd
  BY <1>9, PerformedInv, RefusedInv DEF VlanCmd, Asked, At
<1>10. CASE PortSet
  BY <1>10, PerformedInv, RefusedInv DEF PortSet, Asked, At
<1> QED
  BY <1>1, <1>2, <1>3, <1>4, <1>5, <1>6, <1>7, <1>8, <1>9, <1>10 DEF Exchange

-----------------------------------------------------------------------------
(* The theorems                                                             *)

LEMMA InvStep == ASSUME TypeOK, Inv, [Next]_vars
                 PROVE  Inv'
<1>1. CASE Parse
  BY <1>1, MainInv, RunCmdInv, IntoInv DEF Parse
<1>2. CASE Others \/ UNCHANGED vars
  BY <1>2, InvQuiet DEF Others, vars
<1> QED
  BY <1>1, <1>2, LeafInv, ExchangeInv DEF Next

LEMMA InvInit == Init => Inv
<1> SUFFICES ASSUME Init PROVE Inv
  OBVIOUS
<1>1. /\ tool.pc = "main" /\ tool.table = "ubr" /\ tool.ifindex = 0
      /\ status = Running /\ done = <<>> /\ lost = "nothing"
  BY DEF Init
<1> QED
  BY <1>1 DEF Inv, Found, Asking, CarriedOut, Attaching, FailureIsExplained,
              ExitZeroMeansDone

LEMMA Invariance == Spec => [](TypeOK /\ Inv)
<1>1. Init => TypeOK /\ Inv
  BY TypeInit, InvInit
<1>2. TypeOK /\ Inv /\ [Next]_vars => TypeOK' /\ Inv'
  BY TypeStep, InvStep
<1> QED
  BY <1>1, <1>2, PTL DEF Spec

\* Status 0 means that the whole command was carried out (cmd_port_attach with
\* its two requests above all), and that the tool was told so.
THEOREM SuccessIsComplete == Spec => []ExitZeroMeansDone
<1>1. Inv => ExitZeroMeansDone
  BY DEF Inv, CarriedOut
<1> QED
  BY <1>1, Invariance, PTL

\* After any other status nothing has changed, unless the last answer was lost or
\* a port attach stopped half-way: without its old master, or without settings.
THEOREM FailureIsBounded == Spec => []FailureIsExplained
<1>1. Inv => FailureIsExplained
  BY DEF Inv, CarriedOut
<1> QED
  BY <1>1, Invariance, PTL

\* cmd_port_attach never sends IFLA_MASTER 0, which would release the port.
THEOREM AttachHasMaster == Spec => []AttachNamesBridge
<1>1. Inv => AttachNamesBridge
  <2> SUFFICES ASSUME Inv, tool.pc \in {"link", "settings"}, Attaching
               PROVE  tool.asks.br # 0 /\ tool.asks.port # 0
    BY DEF AttachNamesBridge, Attaching
  <2>1. /\ tool.ifindex # 0
        /\ tool.asks.br = tool.brindex /\ tool.asks.port = tool.ifindex
    BY DEF Inv, Asking
  <2>2. tool.brindex # 0
    BY <2>1 DEF Inv, Found, Attaching
  <2> QED
    BY <2>1, <2>2
<1> QED
  BY <1>1, Invariance, PTL
=============================================================================
