------------------------- MODULE RegisterMapProofs --------------------------
(***************************************************************************)
(* What is proved of the two modules about data/map.c: of RegisterMap, for *)
(* any number of wells, threads, registers and tables; and of              *)
(* ConfigBroadcast, for any number of writers, consumers, registers and    *)
(* queue slots.                                                            *)
(***************************************************************************)
EXTENDS ConfigBroadcast, RegisterMap, SequenceTheorems, TLAPS

-----------------------------------------------------------------------------
(***************************************************************************)
(* The inductive invariant.                                                *)
(***************************************************************************)
\* The states in which a request is being served; the first address of it.
Requesting == Pc \ {"idle", "reset", "reset_sync"}
Start(o) == o.j - Len(o.req)
First(t) == Start(op[t])

\* A thread is where its counters say.
Legal(o) ==
    /\ o.pc \in Requesting =>
         /\ Start(o) \in Nat /\ Start(o) <= o.i /\ o.i <= o.j
         /\ Start(o) .. (o.j - 1) \subseteq Addr
         /\ 1 <= o.b /\ o.b <= o.i - Start(o) + 1
    /\ o.pc \in Requesting \ {"addr"} => Start(o) < o.i
    /\ o.pc \in {"remap", "remap_flash"} =>
         /\ o.x = WELL_TYPE /\ o.v \in WellType
         /\ o.k \in 1 .. Len(Map00[o.v]) + 1
    /\ o.pc = "remap_flash" => o.k \in 1 .. Len(Map00[o.v])
    /\ o.pc = "reset" => o.k \in 1 .. Len(Map1) + 1
    /\ o.pc = "relay" => o.x = DO0
OpOK(t) == Legal(op[t]) /\ (phase # "on" => op[t].pc = "idle")

\* The maps in ram come from the tables: m is the ram of one well.
Maps(m) ==
    /\ \A x \in Reg : m.type[x] = "FLASH1" =>
         \E r \in ToSet(Map1) : r.x = x /\ r.type = "FLASH1"
    /\ \A x \in Reg : m.rw[x] = "RW" => \E r \in AllRows : r.x = x /\ r.rw = "RW"
    /\ \A a \in Addr : "reg" \in DOMAIN m.y[a] => \E r \in AllRows : r.x = m.y[a].reg /\ r.y = a
MapOK ==
    \A w \in Well :
        /\ Maps(ram[w])
        /\ phase \in {"filled", "on"} => ram[w].type[WELL_TYPE] = "SYS"

\* What a start finds on the disk it finds in the pages.
Untouched ==
    /\ phase = "created" => flash1 = disk1 /\ flash2 = disk2
    /\ phase \in {"created", "filled"} => \A f \in 1 .. 2 : fresh[f] \/ file[f]
    /\ phase = "on" => file[1] /\ file[2]
    /\ phase # "on" => changed = {}

\* The rows whose registers are kept in flash2 for a well of type t; a row
\* whose default a thread is still about to store.
Kept2(t) == {r \in Rows(t) : r.type = "FLASH2"}
Pending(w, r) ==
    \E t \in Thread :
        /\ op[t].w = w /\ op[t].pc \in {"remap", "remap_flash"}
        /\ \E n \in op[t].k .. Len(Map00[op[t].v]) : Map00[op[t].v][n] = r
InRow(t, w, x) ==
    /\ op[t].w = w /\ op[t].pc = "remap_flash"
    /\ Map00[op[t].v][op[t].k].x = x
    /\ Map00[op[t].v][op[t].k].type = "FLASH2"

Filled1(f) == \A r \in ToSet(Map1) : r.type = "FLASH1" => f[r.x] # Blank
FilledWell(m) ==
    /\ m[WELL_TYPE] \in WellType
    /\ \A r \in Kept2(m[WELL_TYPE]) : m[r.x] # Blank

\* Where no loss of power has cut it off, the disk has the defaults of a file
\* that was there before this start; msync has confirmed the type of the well.
Confirmed == Well \ (torn2 \cup changed)
DefaultsDisk1 == file[1] /\ ~torn1 /\ ~Creating(1) => Filled1(disk1)
DefaultsDisk2 == file[2] /\ ~Creating(2) => \A w \in Confirmed : FilledWell(disk2[w])
SameType ==
    phase \in {"filled", "on"} /\ ~Creating(2) =>
        \A w \in Confirmed : disk2[w][WELL_TYPE] = flash2[w][WELL_TYPE]
RemapUnconfirmed ==
    \A t \in Thread : op[t].pc \in {"remap", "remap_flash"} => op[t].w \in changed

\* ... and so have the pages, from the start on.
Defaults1 == phase \in {"filled", "on"} /\ ~torn1 => Filled1(flash1)
TypeKnown ==
    phase \in {"filled", "on"} => \A w \in Well : flash2[w][WELL_TYPE] \in WellType
Defaults2 ==
    phase \in {"filled", "on"} =>
        \A w \in Well \ torn2 :
            /\ flash2[w][WELL_TYPE] \in WellType
            /\ \A r \in Kept2(flash2[w][WELL_TYPE]) :
                 flash2[w][r.x] # Blank \/ Pending(w, r)
            /\ \A x \in Reg : ram[w].type[x] = "FLASH2" =>
                 flash2[w][x] # Blank \/ \E t \in Thread : InRow(t, w, x)

\* While a thread is alone no other one is busy.
AloneOK(t) ==
    op[t].alone => op[t].pc # "idle" /\ \A u \in Thread \ {t} : op[u].pc = "idle"

\* The register being written is the one the last address leads to.
Current(t) ==
    op[t].alone /\ op[t].pc \in Requesting \ {"addr"} =>
        /\ Named(t, op[t].i - First(t)) = [reg |-> op[t].x]
        /\ op[t].pc = "relay" => Type(t) = "SYS"

\* A request whose registers can all be written has landed as far as it has
\* come; InHand: the last value taken is still to be stored.
InHand(t) ==
    \/ op[t].pc \in {"reg", "relay"}
    \/ op[t].pc = "ram" /\ Type(t) \in {"MAP_NULL", "SYS"} /\ ~HasFunction(t)
AllWritable(t) == \A n \in 1 .. Len(op[t].req) : Writable(t, n)
Progress(t) ==
    op[t].alone /\ op[t].pc \in Requesting /\ AllWritable(t) =>
        /\ op[t].b = op[t].i - First(t) + 1
        /\ op[t].pc # "addr" => op[t].v = op[t].req[op[t].i - First(t)]
        /\ \A n \in 1 .. op[t].i - First(t) :
              Landed(t, n) \/ (n = op[t].i - First(t) /\ InHand(t))

Inv ==
    /\ TypeOK /\ Durable /\ SettingsSurvive
    /\ MapOK /\ Untouched
    /\ DefaultsDisk1 /\ DefaultsDisk2 /\ SameType /\ RemapUnconfirmed
    /\ TypeKnown /\ Defaults1 /\ Defaults2
    /\ \A t \in Thread : OpOK(t) /\ AloneOK(t) /\ Current(t) /\ Progress(t)

-----------------------------------------------------------------------------
(***************************************************************************)
(* Rows and tables.                                                        *)
(***************************************************************************)
\* The rows of the tables are rows.
LEMMA RowsAreRows ==
    /\ ToSet(Map1) \subseteq Row
    /\ \A n \in 1 .. Len(Map1) : Map1[n] \in ToSet(Map1)
    /\ \A t \in WellType : \A n \in 1 .. Len(Map00[t]) : Map00[t][n] \in ToSet(Map00[t])
    /\ \A t \in WellType : Rows(t) \subseteq Row /\ ToSet(Map00[t]) \subseteq Rows(t)
    /\ \A t \in WellType : ToSet(Map1) \subseteq Rows(t) /\ Rows(t) \subseteq AllRows
<1>1. ASSUME NEW s \in Seq(Row)
      PROVE  ToSet(s) \subseteq Row /\ \A n \in 1 .. Len(s) : s[n] \in ToSet(s)
  BY DEF ToSet
<1>2. \A t \in WellType : Map00[t] \in Seq(Row)
  BY MapAssumption
<1> QED BY <1>1, <1>2, MapAssumption DEF Rows, AllRows

\* A row that names a register is found.
LEMMA RowIsFound ==
    ASSUME NEW rows \in SUBSET Row, NEW x, \E r \in rows : r.x = x
    PROVE  RowOf(rows, x) \in rows /\ RowOf(rows, x).x = x
BY DEF RowOf

\* Installing tables and rows, and giving defaults, yields maps and contents.
LEMMA InstallAllType ==
    ASSUME NEW rows \in SUBSET Row PROVE InstallAll(rows) \in WellRam
<1> DEFINE m == InstallAll(rows)
<1>1. \A x \in {r.x : r \in rows} : RowOf(rows, x) \in Row
  BY RowIsFound
<1>2. \A r \in Row : r.dv \in Stored /\ r.type \in RegType /\ r.rw \in {"RO", "RW"} /\ r.x \in Reg
  BY DEF Row, Stored
<1>3. /\ m.x \in [Reg -> Stored] /\ m.type \in [Reg -> RegType]
      /\ m.rw \in [Reg -> {"RO", "RW"}]
  BY <1>1, <1>2 DEF InstallAll, Stored, RegType
<1>4. m.y \in [Addr -> Target]
  <2>1. ASSUME NEW a \in Addr, \E r \in rows : r.y = a
        PROVE  (CHOOSE r \in rows : r.y = a).x \in Reg
    BY <2>1, <1>2
  <2> QED BY <2>1 DEF InstallAll, Target, Stored
<1>5. m = [x |-> m.x, type |-> m.type, rw |-> m.rw, y |-> m.y]
  BY DEF InstallAll
<1> QED BY <1>3, <1>4, <1>5 DEF WellRam

\* ... also when only some rows give theirs.
LEMMA DefaultAllType ==
    ASSUME NEW f \in Contents1, NEW rows \in SUBSET Row PROVE DefaultAll(f, rows) \in Contents1
<1>1. \A x : (\E r \in rows : r.x = x) => RowOf(rows, x).dv \in Stored
  BY RowIsFound DEF Row, Stored
<1> QED BY <1>1 DEF DefaultAll, Contents1

\* So does one row.
LEMMA InstallType ==
    ASSUME NEW m \in WellRam, NEW row \in Row PROVE Install(m, row) \in WellRam
BY DEF Install, WellRam, Row, Target, Stored

\* ... and the default of one row.
LEMMA DefaultType ==
    ASSUME NEW f \in Contents1, NEW row \in Row, NEW new
    PROVE  Default1(f, row, new) \in Contents1 /\ Default2(f, row, new) \in Contents1
BY DEF Default1, Default2, Contents1, Row, Stored

-----------------------------------------------------------------------------
(***************************************************************************)
(* Types.                                                                  *)
(***************************************************************************)
\* What the steps make of the state of a thread.
LEMMA OpType ==
    ASSUME NEW o \in Op
    PROVE  /\ \A c \in Pc : [o EXCEPT !.pc = c] \in Op
           /\ \A i \in Int : [o EXCEPT !.i = i] \in Op
           /\ \A i \in Int, b \in Nat : [o EXCEPT !.i = i, !.b = b] \in Op
           /\ \A c \in Pc, k \in Nat : [o EXCEPT !.pc = c, !.k = k] \in Op
           /\ \A k \in Nat : [o EXCEPT !.k = k] \in Op
           /\ \A e \in BOOLEAN : [o EXCEPT !.alone = e] \in Op
           /\ \A c \in Pc, x \in Reg, v \in Value, i \in Int, b \in Nat :
                [o EXCEPT !.pc = c, !.x = x, !.v = v, !.i = i, !.b = b] \in Op
BY DEF Op

\* A request makes a thread ready for its first address.
LEMMA RequestType ==
    ASSUME NEW o \in Op, NEW w \in Well, NEW i \in Int, NEW req \in Seq(Value),
           NEW j, j \in {a + 1 : a \in Addr}
    PROVE  [o EXCEPT !.pc = "addr", !.w = w, !.i = i, !.j = j, !.req = req] \in Op
BY DEF Op, Pc

\* What a first start finds.
LEMMA BlankType ==
    /\ BlankRam \in WellRam /\ Blank1 \in Contents1 /\ Blank2 \in Contents2
BY DEF BlankRam, Blank1, Blank2, WellRam, Contents1, Contents2, Stored, Target, RegType

\* A thread with nothing to do.
LEMMA IdleType == Idle \in Op
BY MapAssumption DEF Idle, Op, Pc

\* One thread goes on.
LEMMA BecomeType ==
    ASSUME op \in [Thread -> Op], NEW t \in Thread, NEW o \in Op, Become(t, o)
    PROVE  /\ op' \in [Thread -> Op]
           /\ op'[t] = o
           /\ \A u \in Thread \ {t} : op'[u] = op[u]
BY DEF Become

\* One thread goes to another place ...
LEMMA GotoType ==
    ASSUME op \in [Thread -> Op], NEW t \in Thread, NEW c \in Pc, Goto(t, c)
    PROVE  /\ op' \in [Thread -> Op]
           /\ op'[t] = [op[t] EXCEPT !.pc = c]
           /\ \A u \in Thread \ {t} : op'[u] = op[u]
BY BecomeType, OpType DEF Goto

\* ... and changes nothing but its place.
LEMMA GotoFields ==
    ASSUME op \in [Thread -> Op], NEW t \in Thread, NEW c \in Pc,
           op'[t] = [op[t] EXCEPT !.pc = c]
    PROVE  /\ op'[t].pc = c /\ op'[t].alone = op[t].alone
           /\ op'[t].w = op[t].w /\ op'[t].j = op[t].j /\ op'[t].req = op[t].req
           /\ op'[t].i = op[t].i /\ op'[t].b = op[t].b
           /\ op'[t].x = op[t].x /\ op'[t].v = op[t].v
<1>1. PICK o \in Op : o = op[t] /\ op'[t] = [o EXCEPT !.pc = c]
  OBVIOUS
<1> QED BY <1>1 DEF Op

\* A thread begins.
LEMMA BeginType ==
    ASSUME op \in [Thread -> Op], NEW t \in Thread, NEW o \in Op, Begin(t, o)
    PROVE  /\ op' \in [Thread -> Op]
           /\ op'[t] = [o EXCEPT !.alone = \A v \in Thread \ {t} : op[v].pc = "idle"]
           /\ \A u \in Thread \ {t} : op'[u] = [op[u] EXCEPT !.alone = FALSE]
BY OpType DEF Begin

\* What a register write leads to.
LEMMA AfterSyncType ==
    ASSUME op \in [Thread -> Op], NEW t \in Thread, NEW f \in 1 .. 2, Syncing(t, f),
           NEW ok \in BOOLEAN, AfterSync(t, ok)
    PROVE  /\ op' \in [Thread -> Op]
           /\ \A u \in Thread \ {t} : op'[u] = op[u]
           /\ op[t].pc \in {"sync1", "sync2"} =>
                op'[t] = [op[t] EXCEPT !.pc = IF ok THEN "ram" ELSE "addr"]
           /\ op[t].pc = "synced2" => op'[t] = [op[t] EXCEPT !.pc = "ram"]
           /\ op[t].pc = "reset_sync" => op'[t] = Idle
           /\ op[t].pc \in {"sync1", "sync2", "synced2", "reset_sync"}
<1>1. op[t].pc \in {"sync1", "sync2", "synced2", "reset_sync"}
  BY DEF Syncing
<1>2. CASE op[t].pc \in {"sync1", "sync2"}
  BY <1>2, GotoType DEF AfterSync, Pc
<1>3. CASE op[t].pc = "synced2"
  BY <1>3, GotoType DEF AfterSync, Pc
<1>4. CASE op[t].pc = "reset_sync"
  BY <1>4, BecomeType, IdleType DEF AfterSync
<1> QED BY <1>1, <1>2, <1>3, <1>4

\* Stores to ram.
LEMMA RamX ==
    ASSUME NEW m \in [Well -> WellRam], NEW w \in Well, NEW x \in Reg, NEW v \in Stored
    PROVE  [m EXCEPT ![w].x[x] = v] \in [Well -> WellRam]
BY DEF WellRam

\* ... under an address.
LEMMA RamY ==
    ASSUME NEW m \in [Well -> WellRam], NEW w \in Well, NEW a \in Addr, NEW e \in Target
    PROVE  [m EXCEPT ![w].y[a] = e] \in [Well -> WellRam]
BY DEF WellRam

\* An address leads to a register or holds a value.
LEMMA Targets ==
    ASSUME NEW m \in [Well -> WellRam], NEW w \in Well, NEW a \in Addr
    PROVE  /\ "reg" \in DOMAIN m[w].y[a] =>
                m[w].y[a].reg \in Reg /\ m[w].y[a] = [reg |-> m[w].y[a].reg]
           /\ "val" \in DOMAIN m[w].y[a] =>
                m[w].y[a].val \in Stored /\ m[w].y[a] = [val |-> m[w].y[a].val]
           /\ "reg" \in DOMAIN m[w].y[a] <=> "val" \notin DOMAIN m[w].y[a]
<1>1. m[w].y[a] \in [reg : Reg] \cup [val : Stored]
  BY DEF WellRam, Target
<1> QED BY <1>1

\* A row read into the maps of a well gives its register its type.
LEMMA InstallFields ==
    ASSUME NEW m \in WellRam, NEW row \in Row
    PROVE  Install(m, row).type = [m.type EXCEPT ![row.x] = row.type]
BY DEF Install, WellRam, Row

\* get_map_00_path has a table for whatever the register holds.
LEMMA KnownTypeType == \A v : KnownType(v) \in WellType
BY MapAssumption DEF KnownType

\* The next address of a request and its value are there.
LEMMA InRequest ==
    ASSUME TypeOK, NEW t \in Thread, OpOK(t), op[t].pc = "addr", op[t].i < op[t].j
    PROVE  op[t].i \in Addr /\ op[t].b \in 1 .. Len(op[t].req)
<1> DEFINE o == op[t]
<1>1. o \in Op /\ Len(o.req) \in Nat /\ o.i \in Int /\ o.b \in Nat /\ o.j \in Int
  <2>1. o \in Op
    BY DEF TypeOK
  <2>2. \A a \in Addr : a + 1 \in Int
    <3>1. Addr \subseteq Nat
      BY MapAssumption, Zenon
    <3> QED BY ONLY <3>1
  <2> QED BY <2>1, <2>2 DEF Op
<1>2. First(t) = o.j - Len(o.req)
  BY DEF First, Start
<1>3. /\ First(t) \in Nat /\ First(t) <= o.i /\ First(t) .. (o.j - 1) \subseteq Addr
      /\ 1 <= o.b /\ o.b <= o.i - First(t) + 1
  BY DEF OpOK, Legal, Requesting, Pc, First
<1> HIDE DEF o
<1>4. o.i \in First(t) .. (o.j - 1) /\ o.i - First(t) + 1 <= Len(o.req)
  <2>1. o.i < o.j
    BY DEF o
  <2> QED BY <1>1, <1>2, <1>3, <2>1
<1>5. o.i \in Addr
  BY <1>3, <1>4
<1>6. o.b \in 1 .. Len(o.req)
  BY <1>1, <1>2, <1>3, <1>4
<1> QED BY <1>5, <1>6 DEF o

\* Types are kept by every step.
LEMMA TypeStep ==
    ASSUME TypeOK, \A t \in Thread : OpOK(t), [Next]_vars
    PROVE  TypeOK'
<1> USE DEF torn
<1>1. CASE CreateFlash
  BY <1>1 DEF CreateFlash, TypeOK, disk, sync
<1>2. CASE FillMap
  <2>1. \A w \in Well : flash2[w] \in Contents1
    BY DEF TypeOK, Contents1, Contents2
  <2>2. DefaultAll2(flash2[1], ToSet(Map1), fresh) \in Contents1
    BY <2>1, DefaultAllType, RowsAreRows, MapAssumption DEF DefaultAll2
  <2> DEFINE start(w) == IF fresh[2] THEN DefaultAll2(flash2[1], ToSet(Map1), fresh) ELSE flash2[w]
             type(w) == KnownType(start(w)[WELL_TYPE])
             new2 == [f \in 1 .. 2 |-> f = 2 /\ fresh[2]]
  <2>3. \A w \in Well : start(w) \in Contents1 /\ type(w) \in WellType
    BY <2>1, <2>2, KnownTypeType
  <2>4. /\ ram' = [w \in Well |-> InstallAll(Rows(type(w)))]
        /\ flash1' = DefaultAll1(flash1, ToSet(Map1), fresh)
        /\ flash2' = [w \in Well |-> DefaultAll2([start(w) EXCEPT ![WELL_TYPE] = type(w)],
                                                ToSet(Map00[type(w)]), new2)]
    BY <1>2 DEF FillMap
  <2>5. ram' \in [Well -> WellRam]
    BY <2>3, <2>4, InstallAllType, RowsAreRows
  <2>6. flash1' \in Contents1
    BY <2>4, DefaultAllType, RowsAreRows DEF DefaultAll1, TypeOK
  <2>7. \A w \in Well : DefaultAll2([start(w) EXCEPT ![WELL_TYPE] = type(w)],
                                   ToSet(Map00[type(w)]), new2) \in Contents1
    <3> SUFFICES ASSUME NEW w \in Well
                 PROVE  DefaultAll2([start(w) EXCEPT ![WELL_TYPE] = type(w)],
                                    ToSet(Map00[type(w)]), new2) \in Contents1
      OBVIOUS
    <3>1. type(w) \in WellType /\ type(w) \in Stored /\ start(w) \in Contents1
      BY <2>3, MapAssumption DEF Stored
    <3> HIDE DEF start, type
    <3>2. [start(w) EXCEPT ![WELL_TYPE] = type(w)] \in Contents1
      BY <3>1 DEF Contents1
    <3>3. {r \in ToSet(Map00[type(w)]) : ToFlash2(r, new2)} \in SUBSET Row
      BY <3>1, RowsAreRows
    <3> QED BY <3>2, <3>3, DefaultAllType DEF DefaultAll2
  <2> HIDE DEF start, type, new2
  <2>8. flash2' \in Contents2
    BY <2>4, <2>7 DEF Contents2, Contents1
  <2> QED BY <1>2, <2>5, <2>6, <2>8 DEF FillMap, TypeOK, disk, sync
<1>3. CASE StartThreads
  <2>1. {0, 1} \subseteq Stored /\ 1 \in Well /\ DO0 \in Reg
    BY MapAssumption DEF Stored
  <2>2. ram' \in [Well -> WellRam]
    BY <1>3, <2>1, RamX DEF StartThreads, TypeOK
  <2>3. flash2' \in Contents2
    BY <1>3, <2>1 DEF StartThreads, TypeOK, Contents1, Contents2
  <2> QED BY <1>3, <2>2, <2>3 DEF StartThreads, TypeOK
<1>4. ASSUME NEW t \in Thread, NEW q \in Requests, Request(t, q) PROVE TypeOK'
  <2>1. q \in [w : Well, i : Addr, req : Seq(Value)] /\ Addr \subseteq Nat
    BY MapAssumption
  <2>4. q.w \in Well /\ q.i \in Nat /\ q.req \in Seq(Value) /\ Len(q.req) \in Nat
    <3>1. q.w \in Well /\ q.i \in Nat /\ q.req \in Seq(Value)
      BY <2>1
    <3> QED BY <3>1
  <2> DEFINE o == [Idle EXCEPT !.pc = "addr", !.w = q.w, !.i = q.i,
                               !.j = q.i + Len(q.req), !.req = q.req]
  <2>2. q.i + Len(q.req) \in {a + 1 : a \in Addr}
    <3>1. \A i \in Nat, n \in Nat : i + n = (i + n - 1) + 1
      OBVIOUS
    <3> QED BY <1>4, <2>4, <3>1 DEF Request
  <2>3. o \in Op
    <3>1. q.i \in Int
      BY <2>4
    <3> QED BY <2>4, <2>2, <3>1, IdleType, RequestType
  <2> QED BY <1>4, <2>3, BeginType DEF Request, At, TypeOK, flash, disk, boot, sync
<1>5. ASSUME NEW t \in Thread, Reply(t) PROVE TypeOK'
  BY <1>5, IdleType, BecomeType DEF Reply, At, TypeOK, flash, disk, boot, sync
<1>6. ASSUME NEW t \in Thread, WriteUnmapped(t) PROVE TypeOK'
  <2> DEFINE o == op[t]
  <2>1. o \in Op /\ o.i \in Addr /\ o.b \in 1 .. Len(o.req)
    BY <1>6, InRequest DEF WriteUnmapped, At, TypeOK
  <2>2. o.w \in Well /\ o.req[o.b] \in Stored /\ o.i + 1 \in Int /\ o.b + 1 \in Nat
    BY <2>1, MapAssumption DEF Op, Stored
  <2>3. ram' \in [Well -> WellRam]
    BY <1>6, <2>1, <2>2, RamY DEF WriteUnmapped, TypeOK, Target
  <2>4. op' \in [Thread -> Op]
    BY <1>6, <2>1, <2>2, OpType, BecomeType DEF WriteUnmapped, TypeOK
  <2> QED BY <1>6, <2>3, <2>4 DEF WriteUnmapped, TypeOK, flash, disk, boot, sync
<1>7. ASSUME NEW t \in Thread, SkipReadOnly(t) PROVE TypeOK'
  <2>1. op[t] \in Op /\ op[t].i + 1 \in Int
    BY DEF TypeOK, Op
  <2>2. op' \in [Thread -> Op]
    BY <1>7, <2>1, OpType, BecomeType DEF SkipReadOnly, TypeOK
  <2> QED BY <1>7, <2>2 DEF SkipReadOnly, TypeOK, flash, disk, boot, sync
<1>8. ASSUME NEW t \in Thread, EnterWrite(t) PROVE TypeOK'
  <2> DEFINE o == op[t]
             y == ram[o.w].y[o.i]
  <2>1. o \in Op /\ o.i \in Addr /\ o.b \in 1 .. Len(o.req)
    BY <1>8, InRequest DEF EnterWrite, At, TypeOK
  <2>2. o.w \in Well /\ o.req[o.b] \in Value /\ o.i + 1 \in Int /\ o.b + 1 \in Nat
    BY <2>1, MapAssumption DEF Op
  <2>3. y.reg \in Reg
    BY <1>8, <2>1, <2>2, Targets, Zenon DEF EnterWrite, TypeOK
  <2>4. op' \in [Thread -> Op]
    <3> DEFINE p == [o EXCEPT !.pc = "reg", !.x = y.reg, !.v = o.req[o.b], !.i = o.i + 1, !.b = o.b + 1]
    <3>1. p \in Op
      <4> HIDE DEF y, o
      <4> QED BY <2>1, <2>2, <2>3, OpType, Zenon DEF Pc
    <3>2. Become(t, p) /\ op \in [Thread -> Op]
      BY <1>8 DEF EnterWrite, TypeOK
    <3> HIDE DEF p
    <3> QED BY <3>1, <3>2, BecomeType
  <2> QED BY <1>8, <2>4 DEF EnterWrite, TypeOK, flash, disk, boot, sync
<1>9. ASSUME NEW t \in Thread, NoFlash(t) PROVE TypeOK'
  BY <1>9, GotoType DEF NoFlash, At, TypeOK, Pc, flash, disk, boot, sync
<1>10. ASSUME NEW t \in Thread, StoreFlash1(t) PROVE TypeOK'
  BY <1>10, GotoType DEF StoreFlash1, At, TypeOK, Op, Pc, Contents1, Stored, disk,
     boot, sync
<1>11. ASSUME NEW t \in Thread, StoreFlash2(t) PROVE TypeOK'
  BY <1>11, GotoType DEF StoreFlash2, At, TypeOK, Op, Pc, Contents1, Contents2,
     Stored, disk, boot, sync
<1>12. ASSUME NEW t \in Thread, StoreRam(t) PROVE TypeOK'
  <2>1. op[t].w \in Well /\ op[t].x \in Reg /\ op[t].v \in Stored
    BY DEF TypeOK, Op, Stored
  <2> QED BY <1>12, <2>1, RamX, GotoType DEF StoreRam, TypeOK, Pc, flash, disk, boot,
             sync
<1>13. ASSUME NEW t \in Thread, ChangeWellType(t) PROVE TypeOK'
  <2>1. op[t] \in Op /\ op[t].w \in Well /\ WELL_TYPE \in Reg /\ op[t].v \in Stored
    BY MapAssumption DEF TypeOK, Op, Stored
  <2>2. flash2' \in Contents2
    <3>1. CASE op[t].v \in WellType
      <4>1. flash2' = [flash2 EXCEPT ![op[t].w][WELL_TYPE] = op[t].v]
        BY <1>13, <3>1 DEF ChangeWellType
      <4> QED BY <2>1, <4>1 DEF TypeOK, Contents1, Contents2
    <3>2. CASE op[t].v \notin WellType
      BY <1>13, <2>1, <3>2 DEF ChangeWellType, TypeOK
    <3> QED BY <3>1, <3>2
  <2>3. op' \in [Thread -> Op]
    BY <1>13, <2>1, OpType, BecomeType, GotoType, Zenon DEF ChangeWellType, TypeOK, Pc
  <2>4. changed' \subseteq Well
    BY <1>13, <2>1 DEF ChangeWellType, TypeOK
  <2> QED BY <1>13, <2>2, <2>3, <2>4 DEF ChangeWellType, TypeOK, disk, boot, sync
<1>14. ASSUME NEW t \in Thread, RemapRow(t) PROVE TypeOK'
  <2>1. op[t].w \in Well /\ op[t].pc = "remap" /\ op[t].v \in WellType
    BY <1>14 DEF TypeOK, Op, OpOK, Legal, RemapRow, At
  <2>2. op[t].k <= Len(Map00[op[t].v]) => Map00[op[t].v][op[t].k] \in Row
    BY <2>1, RowsAreRows, MapAssumption DEF OpOK, Legal
  <2>3. ram' \in [Well -> WellRam]
    BY <1>14, <2>1, <2>2, InstallType DEF RemapRow, TypeOK
  <2>4. op' \in [Thread -> Op]
    BY <1>14, GotoType DEF RemapRow, TypeOK, Pc
  <2> QED BY <1>14, <2>3, <2>4 DEF RemapRow, TypeOK, flash, disk, boot, sync
<1>15. ASSUME NEW t \in Thread, RemapDefault(t) PROVE TypeOK'
  <2>1. op[t] \in Op /\ op[t].w \in Well /\ op[t].k + 1 \in Nat
    BY DEF TypeOK, Op
  <2>2. Map00[op[t].v][op[t].k] \in Row
    BY <1>15, RowsAreRows DEF OpOK, Legal, RemapDefault, At
  <2>3. flash2' \in Contents2
    <3> DEFINE d == Default2(flash2[op[t].w], Map00[op[t].v][op[t].k], [f \in 1 .. 2 |-> f = 2])
    <3>1. flash2[op[t].w] \in Contents1
      BY <2>1 DEF TypeOK, Contents1, Contents2
    <3>2. d \in Contents1
      BY <2>2, <3>1, DefaultType
    <3>3. flash2' = [flash2 EXCEPT ![op[t].w] = d]
      BY <1>15 DEF RemapDefault
    <3> HIDE DEF d
    <3> QED BY <2>1, <3>2, <3>3 DEF TypeOK, Contents1, Contents2
  <2>4. op' \in [Thread -> Op]
    BY <1>15, <2>1, OpType, BecomeType, Zenon DEF RemapDefault, TypeOK, Pc
  <2> QED BY <1>15, <2>3, <2>4 DEF RemapDefault, TypeOK, disk, boot, sync
<1>16. ASSUME NEW t \in Thread, SetRelay(t) PROVE TypeOK'
  BY <1>16, GotoType DEF SetRelay, At, TypeOK, Pc, flash, disk, boot, sync
<1>17. ASSUME NEW t \in Thread, StoreRelay(t) PROVE TypeOK'
  <2>1. /\ op[t].w \in Well /\ op[t].x \in Reg /\ op[t].v \in Stored /\ DO0 \in Reg
        /\ 1 \in Well
    BY MapAssumption DEF TypeOK, Op, Stored
  <2>2. ram' \in [Well -> WellRam]
    BY <1>17, <2>1, RamX DEF StoreRelay, TypeOK
  <2>3. flash2' \in Contents2
    BY <1>17, <2>1 DEF StoreRelay, TypeOK, Contents1, Contents2
  <2>4. op' \in [Thread -> Op]
    BY <1>17, GotoType DEF StoreRelay, TypeOK, Pc
  <2> QED BY <1>17, <2>2, <2>3, <2>4 DEF StoreRelay, TypeOK, disk, boot, sync
<1>18. ASSUME NEW t \in Thread, PressButton(t) PROVE TypeOK'
  <2>1. [Idle EXCEPT !.pc = "reset"] \in Op
    BY IdleType, OpType, Zenon DEF Pc
  <2> QED BY <1>18, <2>1, BeginType, Zenon DEF PressButton, At, TypeOK, flash, disk,
             boot, sync
<1>19. ASSUME NEW t \in Thread, ResetRow(t) PROVE TypeOK'
  <2>1. op[t] \in Op /\ op[t].k \in Nat /\ op[t].k + 1 \in Nat /\ 1 \in Well
    BY MapAssumption DEF TypeOK, Op
  <2>2. op[t].k <= Len(Map1) => Map1[op[t].k] \in Row
    BY <1>19, RowsAreRows, MapAssumption DEF OpOK, Legal, ResetRow, At
  <2>3. ram' \in [Well -> WellRam]
    <3>1. CASE op[t].k <= Len(Map1)
      <4>1. Install(ram[1], Map1[op[t].k]) \in WellRam
        BY <2>1, <2>2, <3>1, InstallType DEF TypeOK
      <4>2. ram' = [ram EXCEPT ![1] = Install(ram[1], Map1[op[t].k])]
        BY <1>19, <3>1 DEF ResetRow
      <4> QED BY <2>1, <4>1, <4>2 DEF TypeOK
    <3>2. CASE ~(op[t].k <= Len(Map1))
      BY <1>19, <3>2 DEF ResetRow, TypeOK
    <3> QED BY <3>1, <3>2
  <2>4. flash1' \in Contents1
    BY <1>19, <2>2, DefaultType DEF ResetRow, TypeOK
  <2>5. op' \in [Thread -> Op]
    <3>1. CASE op[t].k <= Len(Map1)
      <4>1. Become(t, [op[t] EXCEPT !.k = op[t].k + 1])
        BY <1>19, <3>1 DEF ResetRow
      <4>2. [op[t] EXCEPT !.k = op[t].k + 1] \in Op
        BY <2>1, OpType
      <4> QED BY <4>1, <4>2, BecomeType DEF TypeOK
    <3>2. CASE ~(op[t].k <= Len(Map1))
      <4>1. Goto(t, "reset_sync") /\ "reset_sync" \in Pc
        BY <1>19, <3>2 DEF ResetRow, Pc
      <4> QED BY <4>1, GotoType DEF TypeOK
    <3> QED BY <3>1, <3>2
  <2> QED BY <1>19, <2>3, <2>4, <2>5 DEF ResetRow, TypeOK, disk, boot, sync
<1>20. ASSUME NEW t \in Thread, NEW f \in 1 .. 2, Msync(t, f) PROVE TypeOK'
  BY <1>20, AfterSyncType DEF Msync, TypeOK, flash, boot
<1>21. ASSUME NEW t \in Thread, NEW f \in 1 .. 2, MsyncFails(t, f) PROVE TypeOK'
  <2>1. fails + 1 \in 0 .. MaxFail
    BY <1>21, MapAssumption DEF MsyncFails, TypeOK
  <2> QED BY <1>21, <2>1, AfterSyncType DEF MsyncFails, TypeOK, flash, disk, boot
<1>22. ASSUME NEW x \in Reg, WriteBack1(x) PROVE TypeOK'
  BY <1>22 DEF WriteBack1, TypeOK, Contents1, flash, boot, sync
<1>23. ASSUME NEW w \in Well, NEW x \in Reg, WriteBack2(w, x) PROVE TypeOK'
  BY <1>23 DEF WriteBack2, TypeOK, Contents1, Contents2, flash, boot, sync
<1>24. CASE PowerLoss
  BY <1>24, IdleType, BlankType DEF PowerLoss, TypeOK, disk
<1>25. CASE UNCHANGED vars
  BY <1>25 DEF vars, TypeOK, flash, disk, boot, sync
<1> QED BY <1>1, <1>2, <1>3, <1>4, <1>5, <1>6, <1>7, <1>8, <1>9, <1>10, <1>11, <1>12,
           <1>13, <1>14, <1>15, <1>16, <1>17, <1>18, <1>19, <1>20, <1>21, <1>22,
           <1>23, <1>24, <1>25 DEF Next, Serve

-----------------------------------------------------------------------------
(***************************************************************************)
(* Threads are where their counters say.                                   *)
(***************************************************************************)
\* A thread between requests is in a legal state, and so is the reset button.
LEMMA LegalIdle ==
    /\ Legal(Idle)
    /\ Legal([Idle EXCEPT !.pc = "reset"])
BY DEF Legal, Idle, Requesting, Pc

\* What the steps make of a legal state.
LEMMA LegalAlone ==
    ASSUME NEW o \in Op, Legal(o), NEW e \in BOOLEAN
    PROVE  Legal([o EXCEPT !.alone = e])
BY DEF Op, Legal, Start

\* Going to another place in the same address is legal ...
LEMMA LegalGoto ==
    ASSUME NEW o \in Op, Legal(o), o.pc \in Requesting \ {"addr"},
           NEW c \in Requesting \ {"relay", "remap", "remap_flash"}
    PROVE  Legal([o EXCEPT !.pc = c])
BY DEF Op, Legal, Start, Requesting, Pc

\* ... and so is taking the next address, with a value or without ...
LEMMA LegalNext ==
    ASSUME NEW o \in Op, Legal(o), o.pc = "addr", o.i < o.j
    PROVE  /\ Legal([o EXCEPT !.i = o.i + 1])
           /\ Legal([o EXCEPT !.i = o.i + 1, !.b = o.b + 1])
           /\ \A x \in Reg, v \in Value :
                Legal([o EXCEPT !.pc = "reg", !.x = x, !.v = v, !.i = o.i + 1, !.b = o.b + 1])
<1>1. o.i \in Int /\ o.b \in Nat /\ o.j \in Int /\ Len(o.req) \in Nat
  <2>1. \A a \in Addr : a + 1 \in Int
    BY MapAssumption
  <2> QED BY <2>1 DEF Op
<1>2. /\ Start(o) \in Nat /\ Start(o) <= o.i /\ o.i <= o.j
      /\ Start(o) .. (o.j - 1) \subseteq Addr
      /\ 1 <= o.b /\ o.b <= o.i - Start(o) + 1
  BY DEF Legal, Requesting, Pc
<1>3. /\ Start(o) < o.i + 1 /\ o.i + 1 <= o.j /\ 1 <= o.b + 1
      /\ o.b + 1 <= o.i + 1 - Start(o) + 1
      /\ o.b <= o.i + 1 - Start(o) + 1 /\ Start(o) <= o.i + 1
  BY <1>1, <1>2
<1>4. ASSUME NEW q \in Op, q.j = o.j, q.req = o.req, q.i = o.i + 1, q.b \in {o.b, o.b + 1},
             q.pc \in {"addr", "reg"}
      PROVE  Legal(q)
  <2>1. Start(q) = Start(o)
    BY <1>4 DEF Start
  <2>2. q.b = o.b \/ q.b = o.b + 1
    BY <1>4
  <2>3. /\ Start(q) \in Nat /\ Start(q) <= q.i /\ q.i <= q.j /\ Start(q) < q.i
        /\ 1 <= q.b /\ q.b <= q.i - Start(q) + 1
    <3>1. Start(q) \in Nat /\ Start(q) <= q.i /\ q.i <= q.j /\ Start(q) < q.i
      BY <1>2, <1>3, <1>4, <2>1
    <3>2. q.i - Start(q) + 1 = o.i + 1 - Start(o) + 1
      <4>1. q.i = o.i + 1 /\ o.i \in Int /\ Start(o) \in Nat
        BY <1>1, <1>2, <1>4
      <4> QED BY ONLY <2>1, <4>1
    <3>3. 1 <= q.b /\ q.b <= o.i + 1 - Start(o) + 1
      <4>1. CASE q.b = o.b
        BY <1>2, <1>3, <4>1
      <4>2. CASE q.b = o.b + 1
        BY <1>3, <4>2
      <4> QED BY <2>2, <4>1, <4>2
    <3> QED BY <3>1, <3>2, <3>3
  <2>4. Start(q) .. (q.j - 1) \subseteq Addr
    BY <1>2, <1>4, <2>1
  <2> QED BY <1>4, <2>3, <2>4 DEF Legal
<1>5. o.i + 1 \in Int /\ o.b + 1 \in Nat /\ "reg" \in Pc
  BY <1>1 DEF Pc
<1>6. /\ [o EXCEPT !.i = o.i + 1] \in Op
      /\ [o EXCEPT !.i = o.i + 1, !.b = o.b + 1] \in Op
      /\ \A x \in Reg, v \in Value :
           [o EXCEPT !.pc = "reg", !.x = x, !.v = v, !.i = o.i + 1, !.b = o.b + 1] \in Op
  BY <1>5, OpType
<1>7. Legal([o EXCEPT !.i = o.i + 1]) /\ Legal([o EXCEPT !.i = o.i + 1, !.b = o.b + 1])
  BY <1>4, <1>6 DEF Op
<1>8. ASSUME NEW x \in Reg, NEW v \in Value
      PROVE  Legal([o EXCEPT !.pc = "reg", !.x = x, !.v = v, !.i = o.i + 1, !.b = o.b + 1])
  BY <1>4, <1>6 DEF Op
<1> QED BY <1>7, <1>8

\* A step that leaves phase alone, and one thread at most goes on.
LEMMA OpOKKept ==
    ASSUME op \in [Thread -> Op], \A u \in Thread : OpOK(u), NEW t \in Thread,
           op' \in [Thread -> Op], UNCHANGED phase, phase = "on",
           \A u \in Thread \ {t} : op'[u] = op[u] \/ op'[u] = [op[u] EXCEPT !.alone = FALSE],
           Legal(op'[t])
    PROVE  \A u \in Thread : OpOK(u)'
<1> SUFFICES ASSUME NEW u \in Thread PROVE Legal(op'[u])
  BY DEF OpOK, Legal, Start
<1>1. op[u] \in Op /\ Legal(op[u])
  BY DEF OpOK
<1>2. Legal([op[u] EXCEPT !.alone = FALSE])
  BY <1>1, LegalAlone
<1> QED BY <1>1, <1>2

\* ... and beginning a request.
LEMMA RequestLegal ==
    ASSUME NEW t \in Thread, NEW q \in Requests, Request(t, q)
    PROVE  LET o == [Idle EXCEPT !.pc = "addr", !.w = q.w, !.i = q.i, !.j = q.i + Len(q.req), !.req = q.req]
           IN o \in Op /\ Legal(o)
<1> DEFINE o == [Idle EXCEPT !.pc = "addr", !.w = q.w, !.i = q.i, !.j = q.i + Len(q.req), !.req = q.req]
<1>1. q.w \in Well /\ q.i \in Addr /\ q.req \in Seq(Value) /\ q.i + Len(q.req) - 1 \in Addr
  BY MapAssumption DEF Request
<1>2. q.i \in Nat /\ Len(q.req) \in Nat
  <2>1. q.i \in Nat
    BY <1>1, MapAssumption
  <2> QED BY <1>1, <2>1
<1>3. q.i + Len(q.req) \in {a + 1 : a \in Addr} /\ q.i + Len(q.req) - Len(q.req) = q.i
      /\ q.i <= q.i + Len(q.req) /\ q.i .. (q.i + Len(q.req) - 1) \subseteq Addr
  <2>1. \A i \in Nat, n \in Nat : i + n = (i + n - 1) + 1 /\ i + n - n = i /\ i <= i + n
    OBVIOUS
  <2>2. q.i .. (q.i + Len(q.req) - 1) \subseteq Addr
    BY <1>1, MapAssumption
  <2> QED BY <1>1, <1>2, <2>1, <2>2
<1>4. o \in Op
  <2>1. q.i \in Int
    BY <1>2
  <2> QED BY <1>1, <1>3, <2>1, IdleType, RequestType
<1>5. o.pc = "addr" /\ o.i = q.i /\ o.j = q.i + Len(q.req) /\ o.req = q.req /\ o.b = 1
  BY DEF Idle
<1> HIDE DEF o
<1>6. Start(o) = q.i
  BY <1>2, <1>3, <1>5 DEF Start
<1>7. Legal(o)
  BY <1>2, <1>3, <1>5, <1>6 DEF Legal
<1> QED BY <1>4, <1>7 DEF o

\* What an msync leads to is legal.
LEMMA AfterSyncLegal ==
    ASSUME op \in [Thread -> Op], NEW t \in Thread, NEW f \in 1 .. 2, Syncing(t, f),
           NEW ok \in BOOLEAN, AfterSync(t, ok), Legal(op[t])
    PROVE  Legal(op'[t])
<1>1. \A c \in {"ram", "addr"} : op[t].pc \in {"sync1", "sync2", "synced2"} => Legal([op[t] EXCEPT !.pc = c])
  BY LegalGoto DEF Requesting, Pc
<1> QED BY <1>1, AfterSyncType, LegalIdle

\* Legal states are kept by every step.
LEMMA LegalStep ==
    ASSUME TypeOK, TypeOK', \A t \in Thread : OpOK(t), [Next]_vars
    PROVE  \A u \in Thread : OpOK(u)'
<1>1. CASE CreateFlash
  BY <1>1 DEF CreateFlash, OpOK, Legal, Start
<1>2. CASE FillMap
  BY <1>2 DEF FillMap, OpOK, Legal, Start
<1>3. CASE StartThreads
  BY <1>3 DEF StartThreads, OpOK, Legal, Start
<1>4. ASSUME NEW t \in Thread, NEW q \in Requests, Request(t, q)
      PROVE  \A u \in Thread : OpOK(u)'
  <2> DEFINE o == [Idle EXCEPT !.pc = "addr", !.w = q.w, !.i = q.i, !.j = q.i + Len(q.req), !.req = q.req]
  <2>1. phase = "on" /\ UNCHANGED phase /\ Begin(t, o)
    BY <1>4 DEF Request, At, boot
  <2>2. o \in Op /\ Legal(o)
    BY <1>4, RequestLegal
  <2> HIDE DEF o
  <2>3. op'[t] = [o EXCEPT !.alone = \A v \in Thread \ {t} : op[v].pc = "idle"]
    BY <2>1, <2>2, BeginType DEF TypeOK
  <2>4. Legal(op'[t])
    BY <2>2, <2>3, LegalAlone
  <2> QED BY <2>1, <2>2, <2>4, BeginType, OpOKKept DEF TypeOK
<1>5. ASSUME NEW t \in Thread, Reply(t) PROVE \A u \in Thread : OpOK(u)'
  <2>1. phase = "on" /\ UNCHANGED phase /\ Become(t, Idle)
    BY <1>5 DEF Reply, At, boot
  <2> QED BY <2>1, BecomeType, IdleType, LegalIdle, OpOKKept DEF TypeOK
<1>6. ASSUME NEW t \in Thread, WriteUnmapped(t) PROVE \A u \in Thread : OpOK(u)'
  <2>1. /\ op[t] \in Op /\ Legal(op[t]) /\ phase = "on" /\ UNCHANGED phase
        /\ op[t].pc = "addr" /\ op[t].i < op[t].j
    BY <1>6 DEF WriteUnmapped, At, TypeOK, OpOK, boot
  <2>2. op'[t] = [op[t] EXCEPT !.i = op[t].i + 1, !.b = op[t].b + 1] /\ \A u \in Thread \ {t} : op'[u] = op[u]
    BY <1>6 DEF WriteUnmapped, Become, TypeOK
  <2>3. Legal(op'[t])
    <3>1. op'[t] = [op[t] EXCEPT !.i = op[t].i + 1, !.b = op[t].b + 1]
      BY <2>2
    <3>2. Legal([op[t] EXCEPT !.i = op[t].i + 1, !.b = op[t].b + 1])
      BY <2>1, LegalNext
    <3> QED BY <3>1, <3>2
  <2> QED BY <2>1, <2>2, <2>3, OpOKKept DEF TypeOK
<1>7. ASSUME NEW t \in Thread, SkipReadOnly(t) PROVE \A u \in Thread : OpOK(u)'
  <2>1. /\ op[t] \in Op /\ Legal(op[t]) /\ phase = "on" /\ UNCHANGED phase
        /\ op[t].pc = "addr" /\ op[t].i < op[t].j
    BY <1>7 DEF SkipReadOnly, At, TypeOK, OpOK, boot
  <2>2. op'[t] = [op[t] EXCEPT !.i = op[t].i + 1] /\ \A u \in Thread \ {t} : op'[u] = op[u]
    BY <1>7 DEF SkipReadOnly, Become, TypeOK
  <2>3. Legal(op'[t])
    <3>1. op'[t] = [op[t] EXCEPT !.i = op[t].i + 1]
      BY <2>2
    <3>2. Legal([op[t] EXCEPT !.i = op[t].i + 1])
      BY <2>1, LegalNext
    <3> QED BY <3>1, <3>2
  <2> QED BY <2>1, <2>2, <2>3, OpOKKept DEF TypeOK
<1>8. ASSUME NEW t \in Thread, EnterWrite(t) PROVE \A u \in Thread : OpOK(u)'
  <2>1. /\ op[t] \in Op /\ Legal(op[t]) /\ phase = "on" /\ UNCHANGED phase
        /\ op[t].pc = "addr" /\ op[t].i < op[t].j
    BY <1>8 DEF EnterWrite, At, TypeOK, OpOK, boot
  <2> DEFINE x == ram[op[t].w].y[op[t].i].reg
             v == op[t].req[op[t].b]
  <2>2. /\ op'[t] = [op[t] EXCEPT !.pc = "reg", !.x = x, !.v = v, !.i = op[t].i + 1, !.b = op[t].b + 1]
        /\ \A u \in Thread \ {t} : op'[u] = op[u]
    BY <1>8 DEF EnterWrite, Become, TypeOK
  <2>3. /\ op[t].i \in Addr /\ op[t].b \in 1 .. Len(op[t].req) /\ op[t].w \in Well
        /\ op[t].req \in Seq(Value)
    BY <2>1, InRequest DEF Op
  <2>4. x \in Reg /\ v \in Value
    <3>1. x \in Reg
      BY <1>8, <2>3, Targets, Zenon DEF EnterWrite, TypeOK
    <3>2. v \in Value
      BY <2>3
    <3> QED BY <3>1, <3>2
  <2> HIDE DEF x, v
  <2>5. Legal(op'[t])
    <3> DEFINE o == [op[t] EXCEPT !.pc = "reg", !.x = x, !.v = v, !.i = op[t].i + 1, !.b = op[t].b + 1]
    <3>1. Legal(o)
      BY <2>1, <2>4, LegalNext
    <3>2. op'[t] = o
      BY <2>2
    <3> HIDE DEF o
    <3> QED BY <3>1, <3>2
  <2> QED BY <2>1, <2>2, <2>5, OpOKKept DEF TypeOK
<1>9. ASSUME NEW t \in Thread, NoFlash(t) PROVE \A u \in Thread : OpOK(u)'
  <2>1. /\ op[t] \in Op /\ op[t].pc \in Requesting \ {"addr"}
        /\ "ram" \in Requesting \ {"relay", "remap", "remap_flash"} /\ Legal(op[t])
        /\ "ram" \in Pc
    BY <1>9 DEF NoFlash, At, TypeOK, OpOK, Requesting, Pc
  <2>2. Goto(t, "ram") /\ phase = "on" /\ UNCHANGED phase
    BY <1>9 DEF NoFlash, At, boot
  <2> QED BY <2>1, <2>2, LegalGoto, GotoType, OpOKKept DEF TypeOK
<1>10. ASSUME NEW t \in Thread, StoreFlash1(t) PROVE \A u \in Thread : OpOK(u)'
  <2>1. /\ op[t] \in Op /\ op[t].pc \in Requesting \ {"addr"}
        /\ "sync1" \in Requesting \ {"relay", "remap", "remap_flash"} /\ Legal(op[t])
        /\ "sync1" \in Pc
    BY <1>10 DEF StoreFlash1, At, TypeOK, OpOK, Requesting, Pc
  <2>2. Goto(t, "sync1") /\ phase = "on" /\ UNCHANGED phase
    BY <1>10 DEF StoreFlash1, At, boot
  <2> QED BY <2>1, <2>2, LegalGoto, GotoType, OpOKKept DEF TypeOK
<1>11. ASSUME NEW t \in Thread, StoreFlash2(t) PROVE \A u \in Thread : OpOK(u)'
  <2>1. /\ op[t] \in Op /\ op[t].pc \in Requesting \ {"addr"}
        /\ "sync2" \in Requesting \ {"relay", "remap", "remap_flash"} /\ Legal(op[t])
        /\ "sync2" \in Pc
    BY <1>11 DEF StoreFlash2, At, TypeOK, OpOK, Requesting, Pc
  <2>2. Goto(t, "sync2") /\ phase = "on" /\ UNCHANGED phase
    BY <1>11 DEF StoreFlash2, At, boot
  <2> QED BY <2>1, <2>2, LegalGoto, GotoType, OpOKKept DEF TypeOK
<1>12. ASSUME NEW t \in Thread, StoreRam(t) PROVE \A u \in Thread : OpOK(u)'
  <2>1. /\ op[t] \in Op /\ op[t].pc \in Requesting \ {"addr"}
        /\ "addr" \in Requesting \ {"relay", "remap", "remap_flash"} /\ Legal(op[t])
        /\ "addr" \in Pc
    BY <1>12 DEF StoreRam, At, TypeOK, OpOK, Requesting, Pc
  <2>2. Goto(t, "addr") /\ phase = "on" /\ UNCHANGED phase
    BY <1>12 DEF StoreRam, At, boot
  <2> QED BY <2>1, <2>2, LegalGoto, GotoType, OpOKKept DEF TypeOK
<1>13. ASSUME NEW t \in Thread, ChangeWellType(t) PROVE \A u \in Thread : OpOK(u)'
  <2>1. /\ op[t] \in Op /\ op[t].pc = "reg" /\ Legal(op[t]) /\ phase = "on"
        /\ UNCHANGED phase /\ op[t].x = WELL_TYPE
    BY <1>13 DEF ChangeWellType, At, TypeOK, OpOK, boot
  <2>2. CASE op[t].v \in WellType
    <3>1. Become(t, [op[t] EXCEPT !.pc = "remap", !.k = 1])
      BY <1>13, <2>2 DEF ChangeWellType
    <3>2. /\ Legal([op[t] EXCEPT !.pc = "remap", !.k = 1])
          /\ [op[t] EXCEPT !.pc = "remap", !.k = 1] \in Op
      <4>1. Len(Map00[op[t].v]) \in Nat
        BY <2>2, MapAssumption
      <4>2. [op[t] EXCEPT !.pc = "remap", !.k = 1] \in Op
        BY <2>1, OpType, Zenon DEF Pc
      <4> QED BY <2>1, <2>2, <4>1, <4>2 DEF Legal, Start, Op, Requesting, Pc
    <3> QED BY <2>1, <3>1, <3>2, BecomeType, OpOKKept DEF TypeOK
  <2>3. CASE op[t].v \notin WellType
    <3>1. Goto(t, "ram")
      BY <1>13, <2>3 DEF ChangeWellType
    <3>2. /\ "ram" \in Requesting \ {"relay", "remap", "remap_flash"}
          /\ op[t].pc \in Requesting \ {"addr"} /\ "ram" \in Pc
      BY <2>1 DEF Requesting, Pc
    <3> QED BY <2>1, <3>1, <3>2, LegalGoto, GotoType, OpOKKept DEF TypeOK
  <2> QED BY <2>2, <2>3
<1>14. ASSUME NEW t \in Thread, RemapRow(t) PROVE \A u \in Thread : OpOK(u)'
  <2>1. /\ op[t] \in Op /\ op[t].pc = "remap" /\ Legal(op[t]) /\ phase = "on"
        /\ UNCHANGED phase
    BY <1>14 DEF RemapRow, At, TypeOK, OpOK, boot
  <2>2. CASE op[t].k <= Len(Map00[op[t].v])
    <3>1. Goto(t, "remap_flash") /\ "remap_flash" \in Pc
      BY <1>14, <2>2 DEF RemapRow, Pc
    <3>2. [op[t] EXCEPT !.pc = "remap_flash"] \in Op
      BY <2>1, OpType, Zenon DEF Pc
    <3>3. op[t].k \in 1 .. Len(Map00[op[t].v])
      <4>1. op[t].v \in WellType /\ op[t].k \in 1 .. Len(Map00[op[t].v]) + 1
        BY <2>1 DEF Legal
      <4>2. Len(Map00[op[t].v]) \in Nat
        BY <4>1, MapAssumption
      <4> QED BY <2>2, <4>1, <4>2
    <3>4. Legal([op[t] EXCEPT !.pc = "remap_flash"])
      BY <2>1, <3>2, <3>3 DEF Legal, Start, Op, Requesting, Pc
    <3> QED BY <2>1, <3>1, <3>4, GotoType, OpOKKept DEF TypeOK
  <2>3. CASE ~(op[t].k <= Len(Map00[op[t].v]))
    <3>1. /\ Goto(t, "synced2")
          /\ "synced2" \in Requesting \ {"relay", "remap", "remap_flash"}
          /\ op[t].pc \in Requesting \ {"addr"} /\ "synced2" \in Pc
      BY <1>14, <2>1, <2>3 DEF RemapRow, Requesting, Pc
    <3> QED BY <2>1, <3>1, LegalGoto, GotoType, OpOKKept DEF TypeOK
  <2> QED BY <2>2, <2>3
<1>15. ASSUME NEW t \in Thread, RemapDefault(t) PROVE \A u \in Thread : OpOK(u)'
  <2>1. /\ op[t] \in Op /\ op[t].pc = "remap_flash" /\ Legal(op[t]) /\ phase = "on"
        /\ UNCHANGED phase
    BY <1>15 DEF RemapDefault, At, TypeOK, OpOK, boot
  <2>2. Become(t, [op[t] EXCEPT !.pc = "remap", !.k = op[t].k + 1])
    BY <1>15 DEF RemapDefault
  <2>3. op[t].k + 1 \in 1 .. Len(Map00[op[t].v]) + 1 /\ op[t].k + 1 \in Nat
    <3>1. op[t].v \in WellType /\ op[t].k \in 1 .. Len(Map00[op[t].v])
      BY <2>1 DEF Legal
    <3>2. Len(Map00[op[t].v]) \in Nat
      BY <3>1, MapAssumption
    <3> QED BY <3>1, <3>2
  <2>4. [op[t] EXCEPT !.pc = "remap", !.k = op[t].k + 1] \in Op
    BY <2>1, <2>3, OpType, Zenon DEF Pc
  <2>5. Legal([op[t] EXCEPT !.pc = "remap", !.k = op[t].k + 1])
    BY <2>1, <2>3, <2>4 DEF Legal, Start, Op, Requesting, Pc
  <2> QED BY <2>1, <2>2, <2>4, <2>5, BecomeType, OpOKKept DEF TypeOK
<1>16. ASSUME NEW t \in Thread, SetRelay(t) PROVE \A u \in Thread : OpOK(u)'
  <2>1. /\ op[t] \in Op /\ op[t].pc = "reg" /\ Legal(op[t]) /\ phase = "on"
        /\ UNCHANGED phase /\ op[t].x = DO0
    BY <1>16 DEF SetRelay, At, TypeOK, OpOK, boot
  <2>2. Goto(t, "relay") /\ "relay" \in Pc
    BY <1>16 DEF SetRelay, Pc
  <2>3. [op[t] EXCEPT !.pc = "relay"] \in Op
    BY <2>1, <2>2, OpType
  <2>4. Legal([op[t] EXCEPT !.pc = "relay"])
    BY <2>1, <2>3 DEF Legal, Start, Op, Requesting, Pc
  <2> QED BY <2>1, <2>2, <2>4, GotoType, OpOKKept DEF TypeOK
<1>17. ASSUME NEW t \in Thread, StoreRelay(t) PROVE \A u \in Thread : OpOK(u)'
  <2>1. /\ op[t] \in Op /\ op[t].pc \in Requesting \ {"addr"}
        /\ "synced2" \in Requesting \ {"relay", "remap", "remap_flash"}
        /\ Legal(op[t]) /\ "synced2" \in Pc
    BY <1>17 DEF StoreRelay, At, TypeOK, OpOK, Requesting, Pc
  <2>2. Goto(t, "synced2") /\ phase = "on" /\ UNCHANGED phase
    BY <1>17 DEF StoreRelay, At, boot
  <2> QED BY <2>1, <2>2, LegalGoto, GotoType, OpOKKept DEF TypeOK
<1>18. ASSUME NEW t \in Thread, PressButton(t) PROVE \A u \in Thread : OpOK(u)'
  <2>1. phase = "on" /\ UNCHANGED phase /\ Begin(t, [Idle EXCEPT !.pc = "reset"])
    BY <1>18 DEF PressButton, At, boot
  <2>2. [Idle EXCEPT !.pc = "reset"] \in Op
    BY IdleType, OpType, Zenon DEF Pc
  <2> DEFINE o == [Idle EXCEPT !.pc = "reset"]
  <2>4. o \in Op /\ Legal(o) /\ Begin(t, o)
    BY <2>1, <2>2, LegalIdle
  <2> HIDE DEF o
  <2>5. op'[t] = [o EXCEPT !.alone = \A v \in Thread \ {t} : op[v].pc = "idle"]
    BY <2>4, BeginType DEF TypeOK
  <2>3. Legal(op'[t])
    BY <2>4, <2>5, LegalAlone
  <2> QED BY <2>1, <2>3, <2>4, BeginType, OpOKKept DEF TypeOK
<1>19. ASSUME NEW t \in Thread, ResetRow(t) PROVE \A u \in Thread : OpOK(u)'
  <2>1. /\ op[t] \in Op /\ op[t].pc = "reset" /\ Legal(op[t]) /\ phase = "on"
        /\ UNCHANGED phase /\ Len(Map1) \in Nat
    BY <1>19, MapAssumption DEF ResetRow, At, TypeOK, OpOK, boot
  <2>2. CASE op[t].k <= Len(Map1)
    <3>1. Become(t, [op[t] EXCEPT !.k = op[t].k + 1])
      BY <1>19, <2>2 DEF ResetRow
    <3>2. op[t].k + 1 \in 1 .. Len(Map1) + 1 /\ op[t].k + 1 \in Nat
      BY <2>1, <2>2 DEF Legal
    <3>3. [op[t] EXCEPT !.k = op[t].k + 1] \in Op
      BY <2>1, <3>2, OpType
    <3>4. Legal([op[t] EXCEPT !.k = op[t].k + 1])
      BY <2>1, <3>2, <3>3 DEF Legal, Op, Requesting
    <3> QED BY <2>1, <3>1, <3>3, <3>4, BecomeType, OpOKKept DEF TypeOK
  <2>3. CASE ~(op[t].k <= Len(Map1))
    <3>1. Goto(t, "reset_sync") /\ "reset_sync" \in Pc
      BY <1>19, <2>3 DEF ResetRow, Pc
    <3>2. Legal([op[t] EXCEPT !.pc = "reset_sync"])
      BY <2>1 DEF Legal, Op, Requesting
    <3> QED BY <2>1, <3>1, <3>2, GotoType, OpOKKept DEF TypeOK
  <2> QED BY <2>2, <2>3
<1>20. ASSUME NEW t \in Thread, NEW f \in 1 .. 2, Msync(t, f)
       PROVE  \A u \in Thread : OpOK(u)'
  <2>1. /\ phase = "on" /\ UNCHANGED phase /\ Syncing(t, f) /\ AfterSync(t, TRUE)
        /\ TRUE \in BOOLEAN
    BY <1>20 DEF Msync, boot
  <2>2. Legal(op'[t])
    BY <2>1, AfterSyncLegal DEF TypeOK, OpOK
  <2> QED BY <2>1, <2>2, AfterSyncType, OpOKKept DEF TypeOK
<1>21. ASSUME NEW t \in Thread, NEW f \in 1 .. 2, MsyncFails(t, f)
       PROVE  \A u \in Thread : OpOK(u)'
  <2>1. /\ phase = "on" /\ UNCHANGED phase /\ Syncing(t, f) /\ AfterSync(t, FALSE)
        /\ FALSE \in BOOLEAN
    BY <1>21 DEF MsyncFails, boot
  <2>2. Legal(op'[t])
    BY <2>1, AfterSyncLegal DEF TypeOK, OpOK
  <2> QED BY <2>1, <2>2, AfterSyncType, OpOKKept DEF TypeOK
<1>22. ASSUME NEW x \in Reg, WriteBack1(x) PROVE \A u \in Thread : OpOK(u)'
  BY <1>22 DEF WriteBack1, OpOK, Legal, Start, boot
<1>23. ASSUME NEW w \in Well, NEW x \in Reg, WriteBack2(w, x)
       PROVE  \A u \in Thread : OpOK(u)'
  BY <1>23 DEF WriteBack2, OpOK, Legal, Start, boot
<1>24. CASE PowerLoss
  <2>1. \A u \in Thread : op'[u] = Idle
    BY <1>24 DEF PowerLoss
  <2>2. Idle.pc = "idle"
    BY DEF Idle
  <2> QED BY <2>1, <2>2, LegalIdle DEF OpOK, Legal, Start
<1>25. CASE UNCHANGED vars
  BY <1>25 DEF vars, boot, OpOK, Legal, Start
<1> QED BY <1>1, <1>2, <1>3, <1>4, <1>5, <1>6, <1>7, <1>8, <1>9, <1>10, <1>11, <1>12,
           <1>13, <1>14, <1>15, <1>16, <1>17, <1>18, <1>19, <1>20, <1>21, <1>22,
           <1>23, <1>24, <1>25 DEF Next, Serve

-----------------------------------------------------------------------------
(***************************************************************************)
(* Pages and disk.                                                         *)
(***************************************************************************)
\* The other threads stay where they are.
LEMMA OthersStay ==
    ASSUME TypeOK, NEW t \in Thread, Serve(t)
    PROVE  \A u \in Thread \ {t} :
             op'[u] = op[u] \/ op'[u] = [op[u] EXCEPT !.alone = FALSE]
<1>1. ASSUME NEW o, Become(t, o) PROVE \A u \in Thread \ {t} : op'[u] = op[u]
  BY <1>1 DEF Become, TypeOK
<1>2. ASSUME NEW o, Begin(t, o)
      PROVE  \A u \in Thread \ {t} : op'[u] = [op[u] EXCEPT !.alone = FALSE]
  BY <1>2 DEF Begin
<1>3. ASSUME NEW f \in 1 .. 2, Msync(t, f) \/ MsyncFails(t, f)
      PROVE  \A u \in Thread \ {t} : op'[u] = op[u]
  BY <1>3, AfterSyncType, Zenon DEF Msync, MsyncFails, TypeOK
<1>4. CASE \E q \in Requests : Request(t, q)
  BY <1>2, <1>4 DEF Request
<1>5. CASE PressButton(t)
  BY <1>2, <1>5 DEF PressButton
<1>6. CASE Reply(t) \/ WriteUnmapped(t) \/ SkipReadOnly(t) \/ EnterWrite(t)
  BY <1>1, <1>6, Zenon DEF Reply, WriteUnmapped, SkipReadOnly, EnterWrite
<1>7. CASE NoFlash(t) \/ StoreFlash1(t) \/ StoreFlash2(t) \/ StoreRam(t) \/ StoreRelay(t) \/ SetRelay(t)
  BY <1>1, <1>7 DEF NoFlash, StoreFlash1, StoreFlash2, StoreRam, StoreRelay,
     SetRelay, Goto
<1>8. CASE ChangeWellType(t) \/ RemapRow(t) \/ RemapDefault(t) \/ ResetRow(t)
  BY <1>1, <1>8 DEF ChangeWellType, RemapRow, RemapDefault, ResetRow, Goto
<1> QED BY <1>3, <1>4, <1>5, <1>6, <1>7, <1>8 DEF Serve

\* The other threads stay where they are.
LEMMA OthersStayPc ==
    ASSUME TypeOK, NEW t \in Thread, Serve(t)
    PROVE  \A u \in Thread \ {t} :
             /\ op'[u].pc = op[u].pc /\ op'[u].w = op[u].w /\ op'[u].x = op[u].x
             /\ op'[u].v = op[u].v /\ op'[u].k = op[u].k
<1> SUFFICES ASSUME NEW u \in Thread \ {t}
             PROVE  /\ op'[u].pc = op[u].pc /\ op'[u].w = op[u].w /\ op'[u].x = op[u].x
                    /\ op'[u].v = op[u].v /\ op'[u].k = op[u].k
  OBVIOUS
<1>1. op[u] \in Op
  BY DEF TypeOK
<1> QED BY <1>1, OthersStay DEF Op

\* Where a step takes the thread that makes it.
LEMMA Moves ==
    ASSUME TypeOK, NEW t \in Thread
    PROVE  /\ \A q \in Requests : Request(t, q) => op[t].pc = "idle" /\ op'[t].pc = "addr"
           /\ Reply(t) => op[t].pc = "addr" /\ op'[t].pc = "idle"
           /\ WriteUnmapped(t) \/ SkipReadOnly(t) => op[t].pc = "addr" /\ op'[t].pc = "addr"
           /\ EnterWrite(t) => op[t].pc = "addr" /\ op'[t].pc = "reg"
           /\ NoFlash(t) => op[t].pc = "reg" /\ op'[t].pc = "ram"
           /\ StoreFlash1(t) => op[t].pc = "reg" /\ op'[t].pc = "sync1"
           /\ StoreFlash2(t) => op[t].pc = "reg" /\ op'[t].pc = "sync2"
           /\ StoreRam(t) => op[t].pc = "ram" /\ op'[t].pc = "addr"
           /\ ChangeWellType(t) =>
                op[t].pc = "reg" /\ op'[t].pc = (IF op[t].v \in WellType THEN "remap" ELSE "ram")
           /\ RemapRow(t) => op[t].pc = "remap" /\ op'[t].pc \in {"remap_flash", "synced2"}
           /\ RemapDefault(t) => op[t].pc = "remap_flash" /\ op'[t].pc = "remap"
           /\ SetRelay(t) => op[t].pc = "reg" /\ op'[t].pc = "relay"
           /\ StoreRelay(t) => op[t].pc = "relay" /\ op'[t].pc = "synced2"
           /\ PressButton(t) => op[t].pc = "idle" /\ op'[t].pc = "reset"
           /\ ResetRow(t) => op[t].pc = "reset" /\ op'[t].pc \in {"reset", "reset_sync"}
<1>1. op[t] \in Op /\ op \in [Thread -> Op]
  BY DEF TypeOK
<1>2. \A c \in Pc : Goto(t, c) => op'[t].pc = c
  BY <1>1 DEF Goto, Become, Op
<1>3. ASSUME NEW q \in Requests, Request(t, q) PROVE op[t].pc = "idle" /\ op'[t].pc = "addr"
  BY <1>1, <1>3 DEF Request, At, Begin, Idle
<1>4. Reply(t) => op[t].pc = "addr" /\ op'[t].pc = "idle"
  BY <1>1 DEF Reply, At, Become, Idle
<1>5. /\ WriteUnmapped(t) \/ SkipReadOnly(t) => op[t].pc = "addr" /\ op'[t].pc = "addr"
      /\ EnterWrite(t) => op[t].pc = "addr" /\ op'[t].pc = "reg"
  <2>1. WriteUnmapped(t) => op[t].pc = "addr" /\ op'[t].pc = "addr"
    BY <1>1 DEF WriteUnmapped, At, Become, Op
  <2>2. SkipReadOnly(t) => op[t].pc = "addr" /\ op'[t].pc = "addr"
    BY <1>1 DEF SkipReadOnly, At, Become, Op
  <2>3. EnterWrite(t) => op[t].pc = "addr" /\ op'[t].pc = "reg"
    BY <1>1 DEF EnterWrite, At, Become, Op
  <2> QED BY <2>1, <2>2, <2>3
<1>6. /\ NoFlash(t) => op[t].pc = "reg" /\ op'[t].pc = "ram"
      /\ StoreFlash1(t) => op[t].pc = "reg" /\ op'[t].pc = "sync1"
      /\ StoreFlash2(t) => op[t].pc = "reg" /\ op'[t].pc = "sync2"
      /\ StoreRam(t) => op[t].pc = "ram" /\ op'[t].pc = "addr"
  BY <1>2 DEF NoFlash, StoreFlash1, StoreFlash2, StoreRam, At, Pc
<1>7. ChangeWellType(t) =>
        op[t].pc = "reg" /\ op'[t].pc = (IF op[t].v \in WellType THEN "remap" ELSE "ram")
  BY <1>1, <1>2 DEF ChangeWellType, At, Become, Op, Pc
<1>8. /\ RemapRow(t) => op[t].pc = "remap" /\ op'[t].pc \in {"remap_flash", "synced2"}
      /\ SetRelay(t) => op[t].pc = "reg" /\ op'[t].pc = "relay"
      /\ StoreRelay(t) => op[t].pc = "relay" /\ op'[t].pc = "synced2"
  BY <1>2 DEF RemapRow, SetRelay, StoreRelay, At, Pc
<1>9. RemapDefault(t) => op[t].pc = "remap_flash" /\ op'[t].pc = "remap"
  BY <1>1 DEF RemapDefault, At, Become, Op
<1>10. PressButton(t) => op[t].pc = "idle" /\ op'[t].pc = "reset"
  <2>1. PressButton(t) =>
          op'[t] = [[Idle EXCEPT !.pc = "reset"] EXCEPT !.alone = \A v \in Thread \ {t} : op[v].pc = "idle"]
    BY <1>1 DEF PressButton, Begin
  <2> QED BY <2>1 DEF PressButton, At, Idle
<1>11. ResetRow(t) => op[t].pc = "reset" /\ op'[t].pc \in {"reset", "reset_sync"}
  BY <1>1, <1>2 DEF ResetRow, At, Become, Op, Pc
<1> QED BY <1>3, <1>4, <1>5, <1>6, <1>7, <1>8, <1>9, <1>10, <1>11

\* Where an msync leads.
LEMMA AfterSyncMoves ==
    ASSUME TypeOK, NEW t \in Thread, NEW f \in 1 .. 2, Msync(t, f) \/ MsyncFails(t, f)
    PROVE  /\ op[t].pc \in {"sync1", "sync2", "synced2", "reset_sync"}
           /\ op'[t].pc \in {"ram", "addr", "idle"}
           /\ op[t].pc # "reset_sync" => op'[t].pc # "idle"
           /\ op[t].pc = "reset_sync" => op'[t].pc = "idle"
<1>1. PICK ok \in BOOLEAN : Syncing(t, f) /\ AfterSync(t, ok)
  BY DEF Msync, MsyncFails
<1>2. op[t] \in Op /\ op \in [Thread -> Op] /\ Idle.pc = "idle"
  BY DEF TypeOK, Idle
<1>3. \A c : [op[t] EXCEPT !.pc = c].pc = c
  BY <1>2 DEF Op
<1>4. /\ op[t].pc \in {"sync1", "sync2"} => op'[t].pc = IF ok THEN "ram" ELSE "addr"
      /\ op[t].pc = "synced2" => op'[t].pc = "ram"
      /\ op[t].pc = "reset_sync" => op'[t].pc = "idle"
      /\ op[t].pc \in {"sync1", "sync2", "synced2", "reset_sync"}
  <2>1. /\ op[t].pc \in {"sync1", "sync2"} =>
             op'[t] = [op[t] EXCEPT !.pc = IF ok THEN "ram" ELSE "addr"]
        /\ op[t].pc = "synced2" => op'[t] = [op[t] EXCEPT !.pc = "ram"]
        /\ op[t].pc = "reset_sync" => op'[t] = Idle
        /\ op[t].pc \in {"sync1", "sync2", "synced2", "reset_sync"}
    BY <1>1, <1>2, AfterSyncType
  <2> QED BY <1>2, <1>3, <2>1
<1> QED BY <1>4

\* One thread goes on: what it stores it has yet to sync.
LEMMA DurableKept ==
    ASSUME TypeOK, Durable, NEW t \in Thread, Serve(t), phase = "on",
           UNCHANGED <<disk1, disk2, failed>>,
           Unsynced1(t) => Unsynced1(t)', Unsynced2(t) => Unsynced2(t)',
           flash1' = flash1 \/ Unsynced1(t)', flash2' = flash2 \/ Unsynced2(t)'
    PROVE  Durable'
<1>1. \A u \in Thread \ {t} : (Unsynced1(u) => Unsynced1(u)') /\ (Unsynced2(u) => Unsynced2(u)')
  BY OthersStayPc DEF Unsynced1, Unsynced2
<1> QED BY <1>1 DEF Durable

\* Durable is kept by every step.
LEMMA DurableStep ==
    ASSUME TypeOK, TypeOK', Durable, [Next]_vars
    PROVE  Durable'

<1>1. CASE CreateFlash
  BY <1>1 DEF CreateFlash, Durable
<1>2. CASE FillMap
  BY <1>2 DEF FillMap, Durable
<1>3. CASE StartThreads
  BY <1>3 DEF StartThreads, Durable
<1>4. ASSUME NEW t \in Thread, NEW q \in Requests, Request(t, q) PROVE Durable'
  <2>1. phase = "on" /\ UNCHANGED <<disk1, disk2, failed>> /\ Serve(t)
    BY <1>4 DEF Request, At, disk, sync, Serve
  <2>2. /\ Unsynced1(t) => Unsynced1(t)'
        /\ Unsynced2(t) => Unsynced2(t)'
    BY <1>4, Moves DEF Unsynced1, Unsynced2
  <2>3. (flash1' = flash1 \/ Unsynced1(t)') /\ (flash2' = flash2 \/ Unsynced2(t)')
    BY <1>4, Moves DEF Request, flash, Unsynced1, Unsynced2
  <2> QED BY <2>1, <2>2, <2>3, DurableKept
<1>5. ASSUME NEW t \in Thread, Reply(t) PROVE Durable'
  <2>1. phase = "on" /\ UNCHANGED <<disk1, disk2, failed>> /\ Serve(t)
    BY <1>5 DEF Reply, At, disk, sync, Serve
  <2>2. /\ Unsynced1(t) => Unsynced1(t)'
        /\ Unsynced2(t) => Unsynced2(t)'
    BY <1>5, Moves DEF Unsynced1, Unsynced2
  <2>3. (flash1' = flash1 \/ Unsynced1(t)') /\ (flash2' = flash2 \/ Unsynced2(t)')
    BY <1>5, Moves DEF Reply, flash, Unsynced1, Unsynced2
  <2> QED BY <2>1, <2>2, <2>3, DurableKept
<1>6. ASSUME NEW t \in Thread, WriteUnmapped(t) PROVE Durable'
  <2>1. phase = "on" /\ UNCHANGED <<disk1, disk2, failed>> /\ Serve(t)
    BY <1>6 DEF WriteUnmapped, At, disk, sync, Serve
  <2>2. /\ Unsynced1(t) => Unsynced1(t)'
        /\ Unsynced2(t) => Unsynced2(t)'
    BY <1>6, Moves DEF Unsynced1, Unsynced2
  <2>3. (flash1' = flash1 \/ Unsynced1(t)') /\ (flash2' = flash2 \/ Unsynced2(t)')
    BY <1>6, Moves DEF WriteUnmapped, flash, Unsynced1, Unsynced2
  <2> QED BY <2>1, <2>2, <2>3, DurableKept
<1>7. ASSUME NEW t \in Thread, SkipReadOnly(t) PROVE Durable'
  <2>1. phase = "on" /\ UNCHANGED <<disk1, disk2, failed>> /\ Serve(t)
    BY <1>7 DEF SkipReadOnly, At, disk, sync, Serve
  <2>2. /\ Unsynced1(t) => Unsynced1(t)'
        /\ Unsynced2(t) => Unsynced2(t)'
    BY <1>7, Moves DEF Unsynced1, Unsynced2
  <2>3. (flash1' = flash1 \/ Unsynced1(t)') /\ (flash2' = flash2 \/ Unsynced2(t)')
    BY <1>7, Moves DEF SkipReadOnly, flash, Unsynced1, Unsynced2
  <2> QED BY <2>1, <2>2, <2>3, DurableKept
<1>8. ASSUME NEW t \in Thread, EnterWrite(t) PROVE Durable'
  <2>1. phase = "on" /\ UNCHANGED <<disk1, disk2, failed>> /\ Serve(t)
    BY <1>8 DEF EnterWrite, At, disk, sync, Serve
  <2>2. /\ Unsynced1(t) => Unsynced1(t)'
        /\ Unsynced2(t) => Unsynced2(t)'
    BY <1>8, Moves DEF Unsynced1, Unsynced2
  <2>3. (flash1' = flash1 \/ Unsynced1(t)') /\ (flash2' = flash2 \/ Unsynced2(t)')
    BY <1>8, Moves, Zenon DEF EnterWrite, flash, Unsynced1, Unsynced2
  <2> QED BY <2>1, <2>2, <2>3, DurableKept
<1>9. ASSUME NEW t \in Thread, NoFlash(t) PROVE Durable'
  <2>1. phase = "on" /\ UNCHANGED <<disk1, disk2, failed>> /\ Serve(t)
    BY <1>9 DEF NoFlash, At, disk, sync, Serve
  <2>2. /\ Unsynced1(t) => Unsynced1(t)'
        /\ Unsynced2(t) => Unsynced2(t)'
    BY <1>9, Moves DEF Unsynced1, Unsynced2
  <2>3. (flash1' = flash1 \/ Unsynced1(t)') /\ (flash2' = flash2 \/ Unsynced2(t)')
    BY <1>9, Moves DEF NoFlash, flash, Unsynced1, Unsynced2
  <2> QED BY <2>1, <2>2, <2>3, DurableKept
<1>10. ASSUME NEW t \in Thread, StoreFlash1(t) PROVE Durable'
  <2>1. phase = "on" /\ UNCHANGED <<disk1, disk2, failed>> /\ Serve(t)
    BY <1>10 DEF StoreFlash1, At, disk, sync, Serve
  <2>2. /\ Unsynced1(t) => Unsynced1(t)'
        /\ Unsynced2(t) => Unsynced2(t)'
    BY <1>10, Moves DEF Unsynced1, Unsynced2
  <2>3. (flash1' = flash1 \/ Unsynced1(t)') /\ (flash2' = flash2 \/ Unsynced2(t)')
    BY <1>10, Moves DEF StoreFlash1, flash, Unsynced1, Unsynced2
  <2> QED BY <2>1, <2>2, <2>3, DurableKept
<1>11. ASSUME NEW t \in Thread, StoreFlash2(t) PROVE Durable'
  <2>1. phase = "on" /\ UNCHANGED <<disk1, disk2, failed>> /\ Serve(t)
    BY <1>11 DEF StoreFlash2, At, disk, sync, Serve
  <2>2. /\ Unsynced1(t) => Unsynced1(t)'
        /\ Unsynced2(t) => Unsynced2(t)'
    BY <1>11, Moves DEF Unsynced1, Unsynced2
  <2>3. (flash1' = flash1 \/ Unsynced1(t)') /\ (flash2' = flash2 \/ Unsynced2(t)')
    BY <1>11, Moves DEF StoreFlash2, flash, Unsynced1, Unsynced2
  <2> QED BY <2>1, <2>2, <2>3, DurableKept
<1>12. ASSUME NEW t \in Thread, StoreRam(t) PROVE Durable'
  <2>1. phase = "on" /\ UNCHANGED <<disk1, disk2, failed>> /\ Serve(t)
    BY <1>12 DEF StoreRam, At, disk, sync, Serve
  <2>2. /\ Unsynced1(t) => Unsynced1(t)'
        /\ Unsynced2(t) => Unsynced2(t)'
    BY <1>12, Moves DEF Unsynced1, Unsynced2
  <2>3. (flash1' = flash1 \/ Unsynced1(t)') /\ (flash2' = flash2 \/ Unsynced2(t)')
    BY <1>12, Moves DEF StoreRam, flash, Unsynced1, Unsynced2
  <2> QED BY <2>1, <2>2, <2>3, DurableKept
<1>13. ASSUME NEW t \in Thread, ChangeWellType(t) PROVE Durable'
  <2>1. phase = "on" /\ UNCHANGED <<disk1, disk2, failed>> /\ Serve(t)
    BY <1>13 DEF ChangeWellType, At, disk, sync, Serve
  <2>2. /\ Unsynced1(t) => Unsynced1(t)'
        /\ Unsynced2(t) => Unsynced2(t)'
    BY <1>13, Moves DEF Unsynced1, Unsynced2
  <2>3. (flash1' = flash1 \/ Unsynced1(t)') /\ (flash2' = flash2 \/ Unsynced2(t)')
    BY <1>13, Moves DEF ChangeWellType, flash, Unsynced1, Unsynced2
  <2> QED BY <2>1, <2>2, <2>3, DurableKept
<1>14. ASSUME NEW t \in Thread, RemapRow(t) PROVE Durable'
  <2>1. phase = "on" /\ UNCHANGED <<disk1, disk2, failed>> /\ Serve(t)
    BY <1>14 DEF RemapRow, At, disk, sync, Serve
  <2>2. /\ Unsynced1(t) => Unsynced1(t)'
        /\ Unsynced2(t) => Unsynced2(t)'
    BY <1>14, Moves DEF Unsynced1, Unsynced2
  <2>3. (flash1' = flash1 \/ Unsynced1(t)') /\ (flash2' = flash2 \/ Unsynced2(t)')
    BY <1>14, Moves DEF RemapRow, flash, Unsynced1, Unsynced2
  <2> QED BY <2>1, <2>2, <2>3, DurableKept
<1>15. ASSUME NEW t \in Thread, RemapDefault(t) PROVE Durable'
  <2>1. phase = "on" /\ UNCHANGED <<disk1, disk2, failed>> /\ Serve(t)
    BY <1>15 DEF RemapDefault, At, disk, sync, Serve
  <2>2. /\ Unsynced1(t) => Unsynced1(t)'
        /\ Unsynced2(t) => Unsynced2(t)'
    BY <1>15, Moves DEF Unsynced1, Unsynced2
  <2>3. (flash1' = flash1 \/ Unsynced1(t)') /\ (flash2' = flash2 \/ Unsynced2(t)')
    BY <1>15, Moves DEF RemapDefault, flash, Unsynced1, Unsynced2
  <2> QED BY <2>1, <2>2, <2>3, DurableKept
<1>16. ASSUME NEW t \in Thread, SetRelay(t) PROVE Durable'
  <2>1. phase = "on" /\ UNCHANGED <<disk1, disk2, failed>> /\ Serve(t)
    BY <1>16 DEF SetRelay, At, disk, sync, Serve
  <2>2. /\ Unsynced1(t) => Unsynced1(t)'
        /\ Unsynced2(t) => Unsynced2(t)'
    BY <1>16, Moves DEF Unsynced1, Unsynced2
  <2>3. (flash1' = flash1 \/ Unsynced1(t)') /\ (flash2' = flash2 \/ Unsynced2(t)')
    BY <1>16, Moves DEF SetRelay, flash, Unsynced1, Unsynced2
  <2> QED BY <2>1, <2>2, <2>3, DurableKept
<1>17. ASSUME NEW t \in Thread, StoreRelay(t) PROVE Durable'
  <2>1. phase = "on" /\ UNCHANGED <<disk1, disk2, failed>> /\ Serve(t)
    BY <1>17 DEF StoreRelay, At, disk, sync, Serve
  <2>2. /\ Unsynced1(t) => Unsynced1(t)'
        /\ Unsynced2(t) => Unsynced2(t)'
    BY <1>17, Moves DEF Unsynced1, Unsynced2
  <2>3. (flash1' = flash1 \/ Unsynced1(t)') /\ (flash2' = flash2 \/ Unsynced2(t)')
    BY <1>17, Moves DEF StoreRelay, flash, Unsynced1, Unsynced2
  <2> QED BY <2>1, <2>2, <2>3, DurableKept
<1>18. ASSUME NEW t \in Thread, PressButton(t) PROVE Durable'
  <2>1. phase = "on" /\ UNCHANGED <<disk1, disk2, failed>> /\ Serve(t)
    BY <1>18 DEF PressButton, At, disk, sync, Serve
  <2>2. /\ Unsynced1(t) => Unsynced1(t)'
        /\ Unsynced2(t) => Unsynced2(t)'
    BY <1>18, Moves DEF Unsynced1, Unsynced2
  <2>3. (flash1' = flash1 \/ Unsynced1(t)') /\ (flash2' = flash2 \/ Unsynced2(t)')
    BY <1>18, Moves DEF PressButton, flash, Unsynced1, Unsynced2
  <2> QED BY <2>1, <2>2, <2>3, DurableKept
<1>19. ASSUME NEW t \in Thread, ResetRow(t) PROVE Durable'
  <2>1. phase = "on" /\ UNCHANGED <<disk1, disk2, failed>> /\ Serve(t)
    BY <1>19 DEF ResetRow, At, disk, sync, Serve
  <2>2. /\ Unsynced1(t) => Unsynced1(t)'
        /\ Unsynced2(t) => Unsynced2(t)'
    BY <1>19, Moves DEF Unsynced1, Unsynced2
  <2>3. (flash1' = flash1 \/ Unsynced1(t)') /\ (flash2' = flash2 \/ Unsynced2(t)')
    BY <1>19, Moves DEF ResetRow, flash, Unsynced1, Unsynced2
  <2> QED BY <2>1, <2>2, <2>3, DurableKept
<1>20. ASSUME NEW t \in Thread, NEW f \in 1 .. 2, Msync(t, f) PROVE Durable'
  <2>1. phase = "on" /\ Serve(t) /\ UNCHANGED flash /\ Syncing(t, f)
    BY <1>20 DEF Msync, Serve
  <2>2. CASE f = 1
    <3>1. disk2' = disk2 /\ failed'[2] = failed[2] /\ (disk1' = flash1)
      BY <1>20, <2>2 DEF Msync, TypeOK, disk
    <3>2. \A u \in Thread : Unsynced2(u) => Unsynced2(u)'
      BY <2>1, <2>2, OthersStayPc DEF Unsynced2, Syncing
    <3> QED BY <2>1, <3>1, <3>2 DEF Durable, flash
  <2>3. CASE f = 2
    <3>1. disk1' = disk1 /\ failed'[1] = failed[1] /\ (disk2' = flash2)
      BY <1>20, <2>3 DEF Msync, TypeOK, disk
    <3>2. \A u \in Thread : Unsynced1(u) => Unsynced1(u)'
      BY <2>1, <2>3, OthersStayPc DEF Unsynced1, Syncing
    <3> QED BY <2>1, <3>1, <3>2 DEF Durable, flash
  <2> QED BY <2>2, <2>3
<1>21. ASSUME NEW t \in Thread, NEW f \in 1 .. 2, MsyncFails(t, f) PROVE Durable'
  <2>1. phase = "on" /\ Serve(t) /\ UNCHANGED flash /\ Syncing(t, f)
    BY <1>21 DEF MsyncFails, Serve
  <2>2. CASE f = 1
    <3>1. disk2' = disk2 /\ failed'[2] = failed[2] /\ (failed'[1])
      BY <1>21, <2>2 DEF MsyncFails, TypeOK, disk
    <3>2. \A u \in Thread : Unsynced2(u) => Unsynced2(u)'
      BY <2>1, <2>2, OthersStayPc DEF Unsynced2, Syncing
    <3> QED BY <2>1, <3>1, <3>2 DEF Durable, flash
  <2>3. CASE f = 2
    <3>1. disk1' = disk1 /\ failed'[1] = failed[1] /\ (failed'[2])
      BY <1>21, <2>3 DEF MsyncFails, TypeOK, disk
    <3>2. \A u \in Thread : Unsynced1(u) => Unsynced1(u)'
      BY <2>1, <2>3, OthersStayPc DEF Unsynced1, Syncing
    <3> QED BY <2>1, <3>1, <3>2 DEF Durable, flash
  <2> QED BY <2>2, <2>3
<1>22. ASSUME NEW x \in Reg, WriteBack1(x) PROVE Durable'
  <2>1. disk1' # flash1' => disk1 # flash1
    BY <1>22 DEF WriteBack1, TypeOK, Contents1, flash
  <2> QED BY <1>22, <2>1 DEF WriteBack1, Durable, Unsynced1, Unsynced2, flash, boot,
             sync
<1>23. ASSUME NEW w \in Well, NEW x \in Reg, WriteBack2(w, x) PROVE Durable'
  <2>1. disk2' # flash2' => disk2 # flash2
    BY <1>23 DEF WriteBack2, TypeOK, Contents1, Contents2, flash
  <2> QED BY <1>23, <2>1 DEF WriteBack2, Durable, Unsynced1, Unsynced2, flash, boot,
             sync
<1>24. CASE PowerLoss
  BY <1>24 DEF PowerLoss, Durable
<1>25. CASE UNCHANGED vars
  BY <1>25 DEF vars, Durable, Unsynced1, Unsynced2, flash, disk, boot, sync
<1> QED BY <1>1, <1>2, <1>3, <1>4, <1>5, <1>6, <1>7, <1>8, <1>9, <1>10, <1>11, <1>12,
           <1>13, <1>14, <1>15, <1>16, <1>17, <1>18, <1>19, <1>20, <1>21, <1>22,
           <1>23, <1>24, <1>25 DEF Next, Serve

-----------------------------------------------------------------------------
(***************************************************************************)
(* The maps in ram.                                                        *)
(***************************************************************************)
\* Nothing of Map00 names a register of Map1, such as the well type.
LEMMA TablesApart ==
    /\ \A t \in WellType : \A r \in ToSet(Map1), s \in ToSet(Map00[t]) : r.x # s.x
    /\ \A t \in WellType : \A s \in ToSet(Map00[t]) : s.x # WELL_TYPE
    /\ \A r \in ToSet(Map1) : r.x = WELL_TYPE => r.type = "SYS"
<1>1. ASSUME NEW t \in WellType, NEW r \in ToSet(Map1), NEW s \in ToSet(Map00[t])
      PROVE  r.x # s.x
  <2>1. r \in Rows(t) /\ s \in Rows(t) /\ r # s
    BY TablesAssumption DEF Rows
  <2> QED BY <2>1, TablesAssumption
<1>2. PICK r \in ToSet(Map1) : r.x = WELL_TYPE /\ r.type = "SYS"
  BY TablesAssumption
<1>3. ASSUME NEW s \in ToSet(Map1), s.x = WELL_TYPE PROVE s.type = "SYS"
  <2>1. r \in Rows(1) /\ s \in Rows(1) /\ 1 \in WellType
    BY MapAssumption DEF Rows
  <2> QED BY <1>2, <1>3, <2>1, TablesAssumption
<1> QED BY <1>1, <1>2, <1>3

\* The map of a well of type t comes from its tables.
LEMMA MapsInstallAll ==
    ASSUME NEW t \in WellType
    PROVE  /\ Maps(InstallAll(Rows(t)))
           /\ InstallAll(Rows(t)).type[WELL_TYPE] = "SYS"
           /\ \A x \in Reg : InstallAll(Rows(t)).type[x] = "FLASH2" =>
                \E r \in Rows(t) : r.x = x /\ r.type = "FLASH2"
<1> DEFINE m == InstallAll(Rows(t))
<1>1. Rows(t) \in SUBSET Row /\ Rows(t) \subseteq AllRows
  BY RowsAreRows
<1>2. \A x \in Reg : m.type[x] # "MAP_NULL" \/ m.rw[x] = "RW" =>
        \E r \in Rows(t) : r.x = x /\ m.type[x] = r.type /\ m.rw[x] = r.rw
  BY <1>1, RowIsFound DEF InstallAll
<1>3. \A x \in Reg : m.type[x] = "FLASH1" => \E r \in ToSet(Map1) : r.x = x /\ r.type = "FLASH1"
  BY <1>2, TablesAssumption DEF Rows
<1>4. \A a \in Addr : "reg" \in DOMAIN m.y[a] => \E r \in Rows(t) : r.x = m.y[a].reg /\ r.y = a
  <2> SUFFICES ASSUME NEW a \in Addr, "reg" \in DOMAIN m.y[a]
               PROVE  \E r \in Rows(t) : r.x = m.y[a].reg /\ r.y = a
    OBVIOUS
  <2>1. m.y[a] = IF \E r \in Rows(t) : r.y = a
                 THEN [reg |-> (CHOOSE r \in Rows(t) : r.y = a).x] ELSE [val |-> Blank]
    BY DEF InstallAll
  <2> DEFINE c == CHOOSE r \in Rows(t) : r.y = a
  <2>2. \E r \in Rows(t) : r.y = a
    BY <2>1
  <2>3. c \in Rows(t) /\ c.y = a
    BY <2>2
  <2>4. m.y[a] = [reg |-> c.x]
    BY <2>1, <2>2
  <2> HIDE DEF c, m
  <2> QED BY <2>3, <2>4
<1>5. m.type[WELL_TYPE] = "SYS"
  <2>1. PICK r \in ToSet(Map1) : r.x = WELL_TYPE /\ r.type = "SYS"
    BY TablesAssumption
  <2>2. r \in Rows(t) /\ WELL_TYPE \in Reg
    BY MapAssumption DEF Rows
  <2>3. RowOf(Rows(t), WELL_TYPE) = r
    <3>1. RowOf(Rows(t), WELL_TYPE) \in Rows(t) /\ RowOf(Rows(t), WELL_TYPE).x = WELL_TYPE
      BY <1>1, <2>1, <2>2, RowIsFound
    <3> QED BY <2>1, <2>2, <3>1, TablesAssumption
  <2> QED BY <2>1, <2>2, <2>3 DEF InstallAll
<1> HIDE DEF m
<1>6. Maps(m)
  BY <1>1, <1>2, <1>3, <1>4 DEF Maps
<1>7. \A x \in Reg : m.type[x] = "FLASH2" => \E r \in Rows(t) : r.x = x /\ r.type = "FLASH2"
  BY <1>2
<1> QED BY <1>5, <1>6, <1>7 DEF m

\* It still does when a row of another type is installed.
LEMMA MapsInstall ==
    ASSUME NEW m \in WellRam, Maps(m), NEW t \in WellType, NEW row \in Rows(t),
           m.type[WELL_TYPE] = "SYS"
    PROVE  Maps(Install(m, row)) /\ Install(m, row).type[WELL_TYPE] = "SYS"
<1>1. row \in Row /\ row \in AllRows /\ row.x \in Reg /\ row.y \in Addr
  BY RowsAreRows DEF Row
<1> DEFINE n == Install(m, row)
<1>2. /\ \A x \in Reg : n.type[x] = IF x = row.x THEN row.type ELSE m.type[x]
      /\ \A x \in Reg : n.rw[x] = IF x = row.x THEN row.rw ELSE m.rw[x]
      /\ \A a \in Addr : n.y[a] = IF a = row.y THEN [reg |-> row.x] ELSE m.y[a]
  BY <1>1 DEF Install, WellRam
<1>3. row.type = "FLASH1" => row \in ToSet(Map1)
  BY TablesAssumption DEF Rows
<1>4. row.x = WELL_TYPE => row.type = "SYS"
  BY TablesApart DEF Rows
<1>5. WELL_TYPE \in Reg
  BY MapAssumption
<1> HIDE DEF n
<1>6. \A x \in Reg : n.type[x] = "FLASH1" => \E r \in ToSet(Map1) : r.x = x /\ r.type = "FLASH1"
  BY <1>1, <1>2, <1>3 DEF Maps
<1>7. \A x \in Reg : n.rw[x] = "RW" => \E r \in AllRows : r.x = x /\ r.rw = "RW"
  BY <1>1, <1>2 DEF Maps
<1>8. \A a \in Addr : "reg" \in DOMAIN n.y[a] => \E r \in AllRows : r.x = n.y[a].reg /\ r.y = a
  BY <1>1, <1>2 DEF Maps
<1> QED BY <1>2, <1>4, <1>5, <1>6, <1>7, <1>8 DEF Maps, n

\* An address without a row leads nowhere, whatever is stored in it.
LEMMA MapsStore ==
    ASSUME NEW m \in WellRam, Maps(m), NEW v \in Stored, NEW a \in Addr
    PROVE  /\ Maps([m EXCEPT !.y[a] = [val |-> v]])
           /\ [m EXCEPT !.y[a] = [val |-> v]].type = m.type
<1> DEFINE n == [m EXCEPT !.y[a] = [val |-> v]]
<1>1. /\ n.type = m.type /\ n.rw = m.rw
      /\ n.y[a] = [val |-> v] /\ \A b \in Addr \ {a} : n.y[b] = m.y[b]
  BY DEF WellRam
<1>2. "reg" \notin DOMAIN n.y[a]
  BY <1>1
<1> HIDE DEF n
<1>3. Maps(n)
  BY <1>1, <1>2 DEF Maps
<1> QED BY <1>1, <1>3 DEF n

\* The map of one well changes.
LEMMA MapTail ==
    ASSUME TypeOK, MapOK, NEW w \in Well, NEW m, Maps(m), m.type[WELL_TYPE] = "SYS",
           ram' = [ram EXCEPT ![w] = m], phase \in {"filled", "on"}
    PROVE  MapOK'
<1>1. \A v \in Well : ram'[v] = IF v = w THEN m ELSE ram[v]
  BY DEF TypeOK
<1> QED BY <1>1 DEF MapOK

\* Storing a value in ram leaves the maps alone.
LEMMA MapsStoreX ==
    ASSUME TypeOK, MapOK, NEW w \in Well, NEW x \in Reg, NEW v \in Stored,
           ram' = [ram EXCEPT ![w] = [ram[w] EXCEPT !.x[x] = v]], phase \in {"filled", "on"}
    PROVE  MapOK'
<1> DEFINE m == [ram[w] EXCEPT !.x[x] = v]
<1>1. ram[w] \in WellRam /\ Maps(ram[w]) /\ ram[w].type[WELL_TYPE] = "SYS"
  BY DEF TypeOK, MapOK
<1>2. Maps(m) /\ m.type[WELL_TYPE] = "SYS"
  BY <1>1 DEF Maps, WellRam
<1>3. ram' = [ram EXCEPT ![w] = m]
  OBVIOUS
<1> HIDE DEF m
<1> QED BY <1>2, <1>3, MapTail

\* The maps in ram are kept by every step.
LEMMA MapStep ==
    ASSUME TypeOK, MapOK, \A t \in Thread : OpOK(t), [Next]_vars
    PROVE  MapOK'
<1>1. CASE CreateFlash
  BY <1>1 DEF CreateFlash, MapOK
<1>2. CASE FillMap
  <2>1. \A w \in Well : \E u \in WellType : ram'[w] = InstallAll(Rows(u))
    BY <1>2, KnownTypeType DEF FillMap
  <2> QED BY <1>2, <2>1, MapsInstallAll DEF MapOK
<1>3. CASE StartThreads
  <2> DEFINE v == IF Read(1, DO0) = 1 THEN 1 ELSE 0
  <2>1. /\ phase = "filled" /\ phase' = "on" /\ 1 \in Well /\ DO0 \in Reg /\ v \in Stored
        /\ ram' = [ram EXCEPT ![1] = [ram[1] EXCEPT !.x[DO0] = v]]
    BY <1>3, MapAssumption DEF StartThreads, Stored
  <2> HIDE DEF v
  <2> QED BY <2>1, MapsStoreX
<1>4. ASSUME NEW t \in Thread, NEW q \in Requests, Request(t, q) PROVE MapOK'
  BY <1>4 DEF Request, MapOK, boot
<1>5. ASSUME NEW t \in Thread, Reply(t) PROVE MapOK'
  BY <1>5 DEF Reply, MapOK, boot
<1>6. ASSUME NEW t \in Thread, WriteUnmapped(t) PROVE MapOK'
  <2> DEFINE o == op[t]
  <2>1. o \in Op /\ o.i \in Addr /\ o.b \in 1 .. Len(o.req)
    BY <1>6, InRequest DEF WriteUnmapped, At, TypeOK
  <2>2. o.w \in Well /\ o.req[o.b] \in Stored
    BY <2>1 DEF Op, Stored
  <2> DEFINE m == [ram[o.w] EXCEPT !.y[o.i] = [val |-> o.req[o.b]]]
  <2>3. /\ ram[o.w] \in WellRam /\ Maps(ram[o.w]) /\ ram[o.w].type[WELL_TYPE] = "SYS"
        /\ WELL_TYPE \in Reg
    BY <1>6, <2>2, MapAssumption DEF TypeOK, MapOK, WriteUnmapped, At
  <2>4. Maps(m) /\ m.type[WELL_TYPE] = "SYS"
    BY <2>1, <2>2, <2>3, MapsStore
  <2>5. ram' = [ram EXCEPT ![o.w] = m] /\ phase = "on" /\ phase' = "on"
    BY <1>6 DEF WriteUnmapped, At, boot
  <2> HIDE DEF m
  <2> QED BY <2>2, <2>4, <2>5, MapTail
<1>7. ASSUME NEW t \in Thread, SkipReadOnly(t) PROVE MapOK'
  BY <1>7 DEF SkipReadOnly, MapOK, boot
<1>8. ASSUME NEW t \in Thread, EnterWrite(t) PROVE MapOK'
  BY <1>8, Zenon DEF EnterWrite, MapOK, boot
<1>9. ASSUME NEW t \in Thread, NoFlash(t) PROVE MapOK'
  BY <1>9 DEF NoFlash, MapOK, boot
<1>10. ASSUME NEW t \in Thread, StoreFlash1(t) PROVE MapOK'
  BY <1>10 DEF StoreFlash1, MapOK, boot
<1>11. ASSUME NEW t \in Thread, StoreFlash2(t) PROVE MapOK'
  BY <1>11 DEF StoreFlash2, MapOK, boot
<1>12. ASSUME NEW t \in Thread, StoreRam(t) PROVE MapOK'
  <2>1. /\ phase = "on" /\ UNCHANGED phase /\ op[t].w \in Well /\ op[t].x \in Reg /\ op[t].v \in Stored
        /\ ram' = [ram EXCEPT ![op[t].w] = [ram[op[t].w] EXCEPT !.x[op[t].x] = op[t].v]]
    BY <1>12, MapAssumption DEF StoreRam, At, TypeOK, Op, Stored, boot
  <2> QED BY <2>1, MapsStoreX
<1>13. ASSUME NEW t \in Thread, ChangeWellType(t) PROVE MapOK'
  BY <1>13 DEF ChangeWellType, MapOK, boot
<1>14. ASSUME NEW t \in Thread, RemapRow(t) PROVE MapOK'
  <2>1. /\ op[t].w \in Well /\ op[t].pc = "remap" /\ op[t].v \in WellType /\ op[t].k \in 1 .. Len(Map00[op[t].v]) + 1
        /\ phase = "on" /\ phase' = "on"
    BY <1>14 DEF TypeOK, Op, OpOK, Legal, RemapRow, At, boot
  <2>2. CASE op[t].k <= Len(Map00[op[t].v])
    <3> DEFINE row == Map00[op[t].v][op[t].k]
               m == Install(ram[op[t].w], row)
    <3>1. row \in Rows(op[t].v)
      <4>1. op[t].k \in 1 .. Len(Map00[op[t].v])
        <5>1. Len(Map00[op[t].v]) \in Nat
          BY <2>1, MapAssumption
        <5> QED BY <2>1, <2>2, <5>1
      <4> QED BY <2>1, <4>1, RowsAreRows
    <3>2. /\ ram[op[t].w] \in WellRam /\ Maps(ram[op[t].w])
          /\ ram[op[t].w].type[WELL_TYPE] = "SYS"
      BY <2>1 DEF TypeOK, MapOK
    <3>3. Maps(m) /\ m.type[WELL_TYPE] = "SYS"
      BY <2>1, <3>1, <3>2, MapsInstall
    <3>4. ram' = [ram EXCEPT ![op[t].w] = m]
      BY <1>14, <2>2 DEF RemapRow
    <3> HIDE DEF m, row
    <3> QED BY <2>1, <3>3, <3>4, MapTail
  <2>3. CASE ~(op[t].k <= Len(Map00[op[t].v]))
    BY <1>14, <2>1, <2>3 DEF RemapRow, MapOK
  <2> QED BY <2>2, <2>3
<1>15. ASSUME NEW t \in Thread, RemapDefault(t) PROVE MapOK'
  BY <1>15 DEF RemapDefault, MapOK, boot
<1>16. ASSUME NEW t \in Thread, SetRelay(t) PROVE MapOK'
  BY <1>16 DEF SetRelay, MapOK, boot
<1>17. ASSUME NEW t \in Thread, StoreRelay(t) PROVE MapOK'
  <2>1. /\ phase = "on" /\ UNCHANGED phase /\ op[t].w \in Well /\ DO0 \in Reg /\ op[t].v \in Stored
        /\ ram' = [ram EXCEPT ![op[t].w] = [ram[op[t].w] EXCEPT !.x[DO0] = op[t].v]]
    BY <1>17, MapAssumption DEF StoreRelay, At, TypeOK, Op, Stored, boot
  <2> QED BY <2>1, MapsStoreX
<1>18. ASSUME NEW t \in Thread, PressButton(t) PROVE MapOK'
  BY <1>18 DEF PressButton, MapOK, boot
<1>19. ASSUME NEW t \in Thread, ResetRow(t) PROVE MapOK'
  <2>1. /\ 1 \in Well /\ 1 \in WellType /\ op[t].pc = "reset" /\ op[t].k \in 1 .. Len(Map1) + 1
        /\ Len(Map1) \in Nat /\ phase = "on" /\ phase' = "on"
    BY <1>19, MapAssumption DEF OpOK, Legal, ResetRow, At, boot
  <2>2. CASE op[t].k <= Len(Map1)
    <3> DEFINE row == Map1[op[t].k]
               m == Install(ram[1], row)
    <3>1. row \in Rows(1)
      BY <2>1, <2>2, RowsAreRows
    <3>2. ram[1] \in WellRam /\ Maps(ram[1]) /\ ram[1].type[WELL_TYPE] = "SYS"
      BY <2>1 DEF TypeOK, MapOK
    <3>3. Maps(m) /\ m.type[WELL_TYPE] = "SYS"
      BY <2>1, <3>1, <3>2, MapsInstall
    <3>4. ram' = [ram EXCEPT ![1] = m]
      BY <1>19, <2>2 DEF ResetRow
    <3> HIDE DEF m, row
    <3> QED BY <2>1, <3>3, <3>4, MapTail
  <2>3. CASE ~(op[t].k <= Len(Map1))
    BY <1>19, <2>1, <2>3 DEF ResetRow, MapOK
  <2> QED BY <2>2, <2>3
<1>20. ASSUME NEW t \in Thread, NEW f \in 1 .. 2, Msync(t, f) PROVE MapOK'
  BY <1>20 DEF Msync, MapOK, boot
<1>21. ASSUME NEW t \in Thread, NEW f \in 1 .. 2, MsyncFails(t, f) PROVE MapOK'
  BY <1>21 DEF MsyncFails, MapOK, boot
<1>22. ASSUME NEW x \in Reg, WriteBack1(x) PROVE MapOK'
  BY <1>22 DEF WriteBack1, MapOK, boot
<1>23. ASSUME NEW w \in Well, NEW x \in Reg, WriteBack2(w, x) PROVE MapOK'
  BY <1>23 DEF WriteBack2, MapOK, boot
<1>24. CASE PowerLoss
  <2>1. \A w \in Well : ram'[w] = BlankRam
    BY <1>24 DEF PowerLoss
  <2>2. Maps(BlankRam)
    BY DEF Maps, BlankRam
  <2> QED BY <1>24, <2>1, <2>2 DEF PowerLoss, MapOK
<1>25. CASE UNCHANGED vars
  BY <1>25 DEF vars, MapOK, boot
<1> QED BY <1>1, <1>2, <1>3, <1>4, <1>5, <1>6, <1>7, <1>8, <1>9, <1>10, <1>11, <1>12,
           <1>13, <1>14, <1>15, <1>16, <1>17, <1>18, <1>19, <1>20, <1>21, <1>22,
           <1>23, <1>24, <1>25 DEF Next, Serve

-----------------------------------------------------------------------------
(***************************************************************************)
(* A start.                                                                *)
(***************************************************************************)
\* A default replaces what was there, and is not Blank.
LEMMA DefaultAllGives ==
    ASSUME NEW f \in Contents1, NEW rows \in SUBSET Row, NEW x \in Reg
    PROVE  /\ (f[x] # Blank \/ \E r \in rows : r.x = x) => DefaultAll(f, rows)[x] # Blank
           /\ (\A r \in rows : r.x # x) => DefaultAll(f, rows)[x] = f[x]
<1>1. \A r \in Row : r.dv # Blank
  BY MapAssumption DEF Row
<1>2. (\E r \in rows : r.x = x) => RowOf(rows, x) \in Row
  BY RowIsFound
<1> QED BY <1>1, <1>2 DEF DefaultAll

\* No row, no default.
LEMMA DefaultAllNone ==
    ASSUME NEW f \in Contents1 PROVE DefaultAll(f, {}) = f
BY DEF DefaultAll, Contents1

\* What ram_map_flash2_value_init leaves in the pages: the settings that were
\* there, or the defaults of the type the well has.
LEMMA FillMapDoes ==
    ASSUME TypeOK, FillMap
    PROVE  /\ ~fresh[1] => flash1' = flash1
           /\ fresh[1] => Filled1(flash1')
           /\ \A w \in Well : \E u \in WellType :
                /\ flash2'[w][WELL_TYPE] = u
                /\ ram'[w] = InstallAll(Rows(u))
                /\ ~fresh[2] => /\ flash2'[w] = [flash2[w] EXCEPT ![WELL_TYPE] = u]
                                /\ flash2[w][WELL_TYPE] \in WellType => u = flash2[w][WELL_TYPE]
                /\ fresh[2] => \A r \in Kept2(u) : flash2'[w][r.x] # Blank
<1>1. /\ 1 \in Well /\ WELL_TYPE \in Reg /\ flash1 \in Contents1
      /\ \A w \in Well : flash2[w] \in Contents1
  BY MapAssumption DEF TypeOK, Contents1, Contents2
<1>2. /\ ToSet(Map1) \in SUBSET Row
      /\ \A u \in WellType : ToSet(Map00[u]) \in SUBSET Row
  BY RowsAreRows
<1>3. ~fresh[1] => flash1' = flash1
  <2> SUFFICES ASSUME ~fresh[1] PROVE flash1' = flash1
    OBVIOUS
  <2>1. {r \in ToSet(Map1) : ToFlash1(r, fresh)} = {}
    BY DEF ToFlash1
  <2> QED BY <1>1, <2>1, DefaultAllNone DEF FillMap, DefaultAll1
<1>4. fresh[1] => Filled1(flash1')
  <2> SUFFICES ASSUME fresh[1], NEW r \in ToSet(Map1), r.type = "FLASH1"
               PROVE  flash1'[r.x] # Blank
    BY DEF Filled1
  <2> DEFINE rows == {s \in ToSet(Map1) : ToFlash1(s, fresh)}
  <2>1. r \in rows /\ rows \in SUBSET Row /\ r.x \in Reg
    BY <1>2 DEF ToFlash1, Row
  <2>2. flash1' = DefaultAll(flash1, rows)
    BY DEF FillMap, DefaultAll1
  <2> HIDE DEF rows
  <2> QED BY <1>1, <2>1, <2>2, DefaultAllGives
<1> DEFINE common == DefaultAll2(flash2[1], ToSet(Map1), fresh)
           start(w) == IF fresh[2] THEN common ELSE flash2[w]
           type(w) == KnownType(start(w)[WELL_TYPE])
           new2 == [f \in 1 .. 2 |-> f = 2 /\ fresh[2]]
           typed(w) == [start(w) EXCEPT ![WELL_TYPE] = type(w)]
           rows(w) == {r \in ToSet(Map00[type(w)]) : ToFlash2(r, new2)}
<1>5. \A w \in Well : ram'[w] = InstallAll(Rows(type(w)))
                      /\ flash2'[w] = DefaultAll(typed(w), rows(w))
  BY DEF FillMap, DefaultAll2
<1>6. common \in Contents1
  BY <1>1, <1>2, DefaultAllType DEF DefaultAll2
<1> SUFFICES ASSUME NEW w \in Well
             PROVE  /\ flash2'[w][WELL_TYPE] = type(w)
                    /\ ram'[w] = InstallAll(Rows(type(w)))
                    /\ ~fresh[2] => /\ flash2'[w] = [flash2[w] EXCEPT ![WELL_TYPE] = type(w)]
                                    /\ flash2[w][WELL_TYPE] \in WellType => type(w) = flash2[w][WELL_TYPE]
                    /\ fresh[2] => \A r \in Kept2(type(w)) : flash2'[w][r.x] # Blank
  <2>1. \A w \in Well : type(w) \in WellType
    BY KnownTypeType
  <2> QED BY <1>3, <1>4, <2>1
<1>7. type(w) \in WellType /\ type(w) \in Stored
  BY KnownTypeType, MapAssumption DEF Stored
<1>8. start(w) \in Contents1
  BY <1>1, <1>6
<1>9. ~fresh[2] => start(w) = flash2[w] /\ (flash2[w][WELL_TYPE] \in WellType => type(w) = flash2[w][WELL_TYPE])
  BY DEF KnownType
<1>18. (~fresh[2] => ~new2[2]) /\ (fresh[2] => new2[2]) /\ ~new2[1]
  <2>1. 1 \in 1 .. 2 /\ 2 \in 1 .. 2 /\ 1 # 2
    OBVIOUS
  <2> QED BY <2>1, Zenon
<1> HIDE DEF new2
<1>10. ~fresh[2] => rows(w) = {}
  BY <1>18 DEF ToFlash2
<1>11. rows(w) \in SUBSET Row /\ rows(w) \subseteq ToSet(Map00[type(w)])
  BY <1>2, <1>7
<1>12. fresh[2] => \A r \in ToSet(Map00[type(w)]) : r.type = "FLASH2" => r \in rows(w)
  BY <1>18 DEF ToFlash2, ToFlash1
<1>13. fresh[2] => \A r \in ToSet(Map1) : r.type = "FLASH2" => start(w)[r.x] # Blank
  <2> SUFFICES ASSUME fresh[2], NEW r \in ToSet(Map1), r.type = "FLASH2" PROVE common[r.x] # Blank
    OBVIOUS
  <2> DEFINE rows1 == {s \in ToSet(Map1) : ToFlash2(s, fresh)}
  <2>1. r \in rows1 /\ rows1 \in SUBSET Row /\ r.x \in Reg
    BY <1>2 DEF ToFlash1, ToFlash2, Row
  <2>2. common = DefaultAll(flash2[1], rows1)
    BY DEF DefaultAll2
  <2> HIDE DEF rows1, common
  <2> QED BY <1>1, <2>1, <2>2, DefaultAllGives
<1> HIDE DEF start, type, rows
<1>14. typed(w) \in Contents1 /\ typed(w)[WELL_TYPE] = type(w)
       /\ \A x \in Reg : x # WELL_TYPE => typed(w)[x] = start(w)[x]
  BY <1>1, <1>7, <1>8 DEF Contents1
<1> HIDE DEF typed
<1>15. flash2'[w][WELL_TYPE] = type(w)
  <2>1. \A r \in rows(w) : r.x # WELL_TYPE
    BY <1>7, <1>11, TablesApart
  <2> QED BY <1>1, <1>5, <1>11, <1>14, <2>1, DefaultAllGives
<1>16. ~fresh[2] => flash2'[w] = [flash2[w] EXCEPT ![WELL_TYPE] = type(w)]
  BY <1>5, <1>9, <1>10, <1>14, DefaultAllNone DEF typed
<1>17. fresh[2] => \A r \in Kept2(type(w)) : flash2'[w][r.x] # Blank
  <2> SUFFICES ASSUME fresh[2], NEW r \in Kept2(type(w)) PROVE flash2'[w][r.x] # Blank
    OBVIOUS
  <2>1. r \in Rows(type(w)) /\ r.type = "FLASH2" /\ r.x \in Reg
    BY <1>7, RowsAreRows DEF Kept2, Row
  <2>2. CASE r \in ToSet(Map00[type(w)])
    BY <1>5, <1>11, <1>12, <1>14, <2>1, <2>2, DefaultAllGives
  <2>3. CASE r \in ToSet(Map1)
    <3>1. r.x # WELL_TYPE
      BY <2>1, <2>3, TablesApart
    <3>2. typed(w)[r.x] # Blank
      BY <1>13, <1>14, <2>1, <2>3, <3>1
    <3> QED BY <1>5, <1>11, <1>14, <2>1, <3>2, DefaultAllGives
  <2> QED BY <2>1, <2>2, <2>3 DEF Rows
<1> QED BY <1>5, <1>9, <1>15, <1>16, <1>17

\* What a start finds on the disk it finds in the pages.
LEMMA UntouchedStep ==
    ASSUME TypeOK, TypeOK', Untouched, [Next]_vars
    PROVE  Untouched'
<1> USE DEF torn

<1>1. CASE CreateFlash
  BY <1>1 DEF CreateFlash, Untouched, disk
<1>2. CASE FillMap
  BY <1>2 DEF FillMap, Untouched, disk
<1>3. CASE StartThreads
  BY <1>3 DEF StartThreads, Untouched
<1>4. ASSUME NEW t \in Thread, NEW q \in Requests, Request(t, q) PROVE Untouched'
  BY <1>4 DEF Request, At, Untouched, disk, boot
<1>5. ASSUME NEW t \in Thread, Reply(t) PROVE Untouched'
  BY <1>5 DEF Reply, At, Untouched, disk, boot
<1>6. ASSUME NEW t \in Thread, WriteUnmapped(t) PROVE Untouched'
  BY <1>6 DEF WriteUnmapped, At, Untouched, disk, boot
<1>7. ASSUME NEW t \in Thread, SkipReadOnly(t) PROVE Untouched'
  BY <1>7 DEF SkipReadOnly, At, Untouched, disk, boot
<1>8. ASSUME NEW t \in Thread, EnterWrite(t) PROVE Untouched'
  BY <1>8 DEF EnterWrite, At, Untouched, disk, boot
<1>9. ASSUME NEW t \in Thread, NoFlash(t) PROVE Untouched'
  BY <1>9 DEF NoFlash, At, Untouched, disk, boot
<1>10. ASSUME NEW t \in Thread, StoreFlash1(t) PROVE Untouched'
  BY <1>10 DEF StoreFlash1, At, Untouched, disk, boot
<1>11. ASSUME NEW t \in Thread, StoreFlash2(t) PROVE Untouched'
  BY <1>11 DEF StoreFlash2, At, Untouched, disk, boot
<1>12. ASSUME NEW t \in Thread, StoreRam(t) PROVE Untouched'
  BY <1>12 DEF StoreRam, At, Untouched, disk, boot
<1>13. ASSUME NEW t \in Thread, ChangeWellType(t) PROVE Untouched'
  BY <1>13 DEF ChangeWellType, At, Untouched, disk, boot
<1>14. ASSUME NEW t \in Thread, RemapRow(t) PROVE Untouched'
  BY <1>14 DEF RemapRow, At, Untouched, disk, boot
<1>15. ASSUME NEW t \in Thread, RemapDefault(t) PROVE Untouched'
  BY <1>15 DEF RemapDefault, At, Untouched, disk, boot
<1>16. ASSUME NEW t \in Thread, SetRelay(t) PROVE Untouched'
  BY <1>16 DEF SetRelay, At, Untouched, disk, boot
<1>17. ASSUME NEW t \in Thread, StoreRelay(t) PROVE Untouched'
  BY <1>17 DEF StoreRelay, At, Untouched, disk, boot
<1>18. ASSUME NEW t \in Thread, PressButton(t) PROVE Untouched'
  BY <1>18 DEF PressButton, At, Untouched, disk, boot
<1>19. ASSUME NEW t \in Thread, ResetRow(t) PROVE Untouched'
  BY <1>19 DEF ResetRow, At, Untouched, disk, boot
<1>20. ASSUME NEW t \in Thread, NEW f \in 1 .. 2, Msync(t, f) PROVE Untouched'
  BY <1>20 DEF Msync, Untouched, boot, disk
<1>21. ASSUME NEW t \in Thread, NEW f \in 1 .. 2, MsyncFails(t, f) PROVE Untouched'
  BY <1>21 DEF MsyncFails, Untouched, boot, disk
<1>22. ASSUME NEW x \in Reg, WriteBack1(x) PROVE Untouched'
  BY <1>22 DEF WriteBack1, Untouched, TypeOK, Contents1, flash, boot
<1>23. ASSUME NEW w \in Well, NEW x \in Reg, WriteBack2(w, x) PROVE Untouched'
  <2>1. flash2 = disk2 => flash2' = disk2'
    BY <1>23 DEF WriteBack2, TypeOK, Contents1, Contents2, flash
  <2> QED BY <1>23, <2>1 DEF WriteBack2, Untouched, TypeOK, flash, boot
<1>24. CASE PowerLoss
  BY <1>24 DEF PowerLoss, Untouched
<1>25. CASE UNCHANGED vars
  BY <1>25 DEF vars, Untouched, flash, disk, boot
<1> QED BY <1>1, <1>2, <1>3, <1>4, <1>5, <1>6, <1>7, <1>8, <1>9, <1>10, <1>11, <1>12,
           <1>13, <1>14, <1>15, <1>16, <1>17, <1>18, <1>19, <1>20, <1>21, <1>22,
           <1>23, <1>24, <1>25 DEF Next, Serve

\* A start leaves what was stored.
LEMMA SettingsStep ==
    ASSUME TypeOK, SettingsSurvive, Untouched, [Next]_vars
    PROVE  SettingsSurvive'

<1>1. CASE CreateFlash
  BY <1>1 DEF CreateFlash, SettingsSurvive
<1>2. CASE FillMap
  <2>1. UNCHANGED <<disk1, disk2, fresh>> /\ flash1 = disk1 /\ flash2 = disk2
    BY <1>2 DEF FillMap, Untouched, disk
  <2>2. ASSUME ~fresh[2], NEW w \in Well, NEW x \in Reg
        PROVE  flash2'[w][x] = flash2[w][x] \/ (x = WELL_TYPE /\ flash2[w][x] \notin WellType)
    <3>1. PICK u \in WellType :
            /\ flash2'[w] = [flash2[w] EXCEPT ![WELL_TYPE] = u]
            /\ flash2[w][WELL_TYPE] \in WellType => u = flash2[w][WELL_TYPE]
      BY <1>2, <2>2, FillMapDoes
    <3>2. flash2[w] \in Contents1
      BY DEF TypeOK, Contents1, Contents2
    <3>3. CASE x = WELL_TYPE
      <4>1. flash2'[w][x] = u
        BY <3>1, <3>2, <3>3 DEF Contents1
      <4> QED BY <3>1, <3>3, <4>1
    <3>4. CASE x # WELL_TYPE
      BY <3>1, <3>2, <3>4 DEF Contents1
    <3> QED BY <3>3, <3>4
  <2>3. ~fresh[1] => flash1' = flash1
    BY <1>2, FillMapDoes
  <2> QED BY <2>1, <2>2, <2>3 DEF SettingsSurvive
<1>3. CASE StartThreads
  BY <1>3 DEF StartThreads, SettingsSurvive
<1>4. ASSUME NEW t \in Thread, NEW q \in Requests, Request(t, q) PROVE SettingsSurvive'
  BY <1>4 DEF Request, At, SettingsSurvive, boot
<1>5. ASSUME NEW t \in Thread, Reply(t) PROVE SettingsSurvive'
  BY <1>5 DEF Reply, At, SettingsSurvive, boot
<1>6. ASSUME NEW t \in Thread, WriteUnmapped(t) PROVE SettingsSurvive'
  BY <1>6 DEF WriteUnmapped, At, SettingsSurvive, boot
<1>7. ASSUME NEW t \in Thread, SkipReadOnly(t) PROVE SettingsSurvive'
  BY <1>7 DEF SkipReadOnly, At, SettingsSurvive, boot
<1>8. ASSUME NEW t \in Thread, EnterWrite(t) PROVE SettingsSurvive'
  BY <1>8 DEF EnterWrite, At, SettingsSurvive, boot
<1>9. ASSUME NEW t \in Thread, NoFlash(t) PROVE SettingsSurvive'
  BY <1>9 DEF NoFlash, At, SettingsSurvive, boot
<1>10. ASSUME NEW t \in Thread, StoreFlash1(t) PROVE SettingsSurvive'
  BY <1>10 DEF StoreFlash1, At, SettingsSurvive, boot
<1>11. ASSUME NEW t \in Thread, StoreFlash2(t) PROVE SettingsSurvive'
  BY <1>11 DEF StoreFlash2, At, SettingsSurvive, boot
<1>12. ASSUME NEW t \in Thread, StoreRam(t) PROVE SettingsSurvive'
  BY <1>12 DEF StoreRam, At, SettingsSurvive, boot
<1>13. ASSUME NEW t \in Thread, ChangeWellType(t) PROVE SettingsSurvive'
  BY <1>13 DEF ChangeWellType, At, SettingsSurvive, boot
<1>14. ASSUME NEW t \in Thread, RemapRow(t) PROVE SettingsSurvive'
  BY <1>14 DEF RemapRow, At, SettingsSurvive, boot
<1>15. ASSUME NEW t \in Thread, RemapDefault(t) PROVE SettingsSurvive'
  BY <1>15 DEF RemapDefault, At, SettingsSurvive, boot
<1>16. ASSUME NEW t \in Thread, SetRelay(t) PROVE SettingsSurvive'
  BY <1>16 DEF SetRelay, At, SettingsSurvive, boot
<1>17. ASSUME NEW t \in Thread, StoreRelay(t) PROVE SettingsSurvive'
  BY <1>17 DEF StoreRelay, At, SettingsSurvive, boot
<1>18. ASSUME NEW t \in Thread, PressButton(t) PROVE SettingsSurvive'
  BY <1>18 DEF PressButton, At, SettingsSurvive, boot
<1>19. ASSUME NEW t \in Thread, ResetRow(t) PROVE SettingsSurvive'
  BY <1>19 DEF ResetRow, At, SettingsSurvive, boot
<1>20. ASSUME NEW t \in Thread, NEW f \in 1 .. 2, Msync(t, f) PROVE SettingsSurvive'
  BY <1>20 DEF Msync, At, SettingsSurvive, boot
<1>21. ASSUME NEW t \in Thread, NEW f \in 1 .. 2, MsyncFails(t, f) PROVE SettingsSurvive'
  BY <1>21 DEF MsyncFails, At, SettingsSurvive, boot
<1>22. ASSUME NEW x \in Reg, WriteBack1(x) PROVE SettingsSurvive'
  BY <1>22 DEF WriteBack1, SettingsSurvive, TypeOK, Contents1, flash, boot
<1>23. ASSUME NEW w \in Well, NEW x \in Reg, WriteBack2(w, x) PROVE SettingsSurvive'
  <2>1. \A v \in Well, y \in Reg : disk2'[v][y] = IF v = w /\ y = x THEN flash2[w][x] ELSE disk2[v][y]
    BY <1>23 DEF WriteBack2, TypeOK, Contents1, Contents2
  <2> QED BY <1>23, <2>1 DEF WriteBack2, SettingsSurvive, flash, boot
<1>24. CASE PowerLoss
  BY <1>24 DEF PowerLoss, SettingsSurvive
<1>25. CASE UNCHANGED vars
  BY <1>25 DEF vars, SettingsSurvive, flash, disk, boot
<1> QED BY <1>1, <1>2, <1>3, <1>4, <1>5, <1>6, <1>7, <1>8, <1>9, <1>10, <1>11, <1>12,
           <1>13, <1>14, <1>15, <1>16, <1>17, <1>18, <1>19, <1>20, <1>21, <1>22,
           <1>23, <1>24, <1>25 DEF Next, Serve

-----------------------------------------------------------------------------
(***************************************************************************)
(* Defaults.                                                               *)
(***************************************************************************)
\* A step of a thread that is not an msync leaves the disk alone.
DiskKeeps ==
    /\ phase = "on"
    /\ UNCHANGED <<disk1, disk2, file, phase, fresh, torn1, torn2>>
    /\ changed \subseteq changed'

\* Such are all the others.
LEMMA DiskKept ==
    ASSUME NEW t \in Thread, Serve(t), \A f \in 1 .. 2 : ~Msync(t, f)
    PROVE  DiskKeeps
<1>1. ASSUME NEW q \in Requests, Request(t, q) PROVE DiskKeeps
  BY <1>1 DEF Request, DiskKeeps, At, disk, boot, torn
<1>2. CASE Reply(t)
  BY <1>2 DEF Reply, DiskKeeps, At, disk, boot, torn
<1>3. CASE WriteUnmapped(t)
  BY <1>3 DEF WriteUnmapped, DiskKeeps, At, disk, boot, torn
<1>4. CASE SkipReadOnly(t)
  BY <1>4 DEF SkipReadOnly, DiskKeeps, At, disk, boot, torn
<1>5. CASE EnterWrite(t)
  BY <1>5 DEF EnterWrite, DiskKeeps, At, disk, boot, torn
<1>6. CASE NoFlash(t)
  BY <1>6 DEF NoFlash, DiskKeeps, At, disk, boot, torn
<1>7. CASE StoreFlash1(t)
  BY <1>7 DEF StoreFlash1, DiskKeeps, At, disk, boot, torn
<1>8. CASE StoreFlash2(t)
  BY <1>8 DEF StoreFlash2, DiskKeeps, At, disk, boot, torn
<1>9. CASE StoreRam(t)
  BY <1>9 DEF StoreRam, DiskKeeps, At, disk, boot, torn
<1>10. CASE ChangeWellType(t)
  BY <1>10 DEF ChangeWellType, DiskKeeps, At, disk, boot, torn
<1>11. CASE RemapRow(t)
  BY <1>11 DEF RemapRow, DiskKeeps, At, disk, boot, torn
<1>12. CASE RemapDefault(t)
  BY <1>12 DEF RemapDefault, DiskKeeps, At, disk, boot, torn
<1>13. CASE SetRelay(t)
  BY <1>13 DEF SetRelay, DiskKeeps, At, disk, boot, torn
<1>14. CASE StoreRelay(t)
  BY <1>14 DEF StoreRelay, DiskKeeps, At, disk, boot, torn
<1>15. CASE PressButton(t)
  BY <1>15 DEF PressButton, DiskKeeps, At, disk, boot, torn
<1>16. CASE ResetRow(t)
  BY <1>16 DEF ResetRow, DiskKeeps, At, disk, boot, torn
<1>17. ASSUME NEW f \in 1 .. 2, MsyncFails(t, f) PROVE DiskKeeps
  BY <1>17 DEF MsyncFails, DiskKeeps, disk, boot, torn
<1> QED BY <1>1, <1>2, <1>3, <1>4, <1>5, <1>6, <1>7, <1>8, <1>9, <1>10, <1>11, <1>12, <1>13, <1>14, <1>15, <1>16, <1>17 DEF Serve

\* The type of a well stays, or is changed to a known one ...
TypeStays(w) ==
    \/ flash2'[w][WELL_TYPE] = flash2[w][WELL_TYPE]
    \/ flash2'[w][WELL_TYPE] \in WellType /\ w \in changed'

\* ... by every step of a thread.
LEMMA TypeStored ==
    ASSUME TypeOK, MapOK, NEW t \in Thread, OpOK(t), Serve(t)
    PROVE  \A w \in Well : TypeStays(w)
<1> USE DEF TypeStays
<1>0. WELL_TYPE # DO0 /\ {WELL_TYPE, DO0} \subseteq Reg
  BY MapAssumption
<1> SUFFICES ASSUME NEW w \in Well PROVE TypeStays(w)
  OBVIOUS
<1>1. CASE StoreFlash2(t)
  <2>1. phase = "on" /\ op[t].w \in Well /\ op[t].x \in Reg
    BY <1>1 DEF StoreFlash2, At, TypeOK, Op
  <2>2. op[t].x # WELL_TYPE
    BY <1>1, <2>1 DEF StoreFlash2, Type, MapOK
  <2> QED BY <1>0, <1>1, <2>1, <2>2 DEF StoreFlash2, TypeOK, Contents1, Contents2
<1>2. CASE ChangeWellType(t)
  <2>1. CASE op[t].v \in WellType
    BY <1>0, <1>2, <2>1 DEF ChangeWellType, TypeOK, Contents1, Contents2
  <2>2. CASE op[t].v \notin WellType
    BY <1>2, <2>2 DEF ChangeWellType
  <2> QED BY <2>1, <2>2
<1>3. CASE RemapDefault(t)
  <2> DEFINE row == Map00[op[t].v][op[t].k]
             new2 == [f \in 1 .. 2 |-> f = 2]
  <2>1. op[t].v \in WellType /\ op[t].k \in 1 .. Len(Map00[op[t].v]) /\ op[t].w \in Well
    BY <1>3 DEF RemapDefault, At, OpOK, Legal, TypeOK, Op
  <2>2. row.x # WELL_TYPE /\ row.x \in Reg
    BY <2>1, RowsAreRows, TablesApart DEF Row
  <2>3. flash2' = [flash2 EXCEPT ![op[t].w] = Default2(flash2[op[t].w], row, new2)]
    BY <1>3 DEF RemapDefault
  <2> HIDE DEF row, new2
  <2> QED BY <1>0, <2>1, <2>2, <2>3 DEF Default2, TypeOK, Contents1, Contents2
<1>4. CASE StoreRelay(t)
  BY <1>0, <1>4 DEF StoreRelay, TypeOK, Contents1, Contents2
<1>5. CASE \/ \E q \in Requests : Request(t, q)
           \/ Reply(t) \/ WriteUnmapped(t) \/ SkipReadOnly(t) \/ EnterWrite(t)
           \/ NoFlash(t) \/ StoreFlash1(t) \/ StoreRam(t)
           \/ RemapRow(t) \/ SetRelay(t) \/ PressButton(t) \/ ResetRow(t)
           \/ \E f \in 1 .. 2 : Msync(t, f) \/ MsyncFails(t, f)
  <2>1. UNCHANGED flash2
    BY <1>5 DEF Request, Reply, WriteUnmapped, SkipReadOnly, EnterWrite, NoFlash,
       StoreFlash1, StoreRam, RemapRow, SetRelay, PressButton, ResetRow, Msync,
       MsyncFails, flash
  <2> QED BY <2>1
<1> QED BY <1>1, <1>2, <1>3, <1>4, <1>5 DEF Serve

\* A well whose type is being changed has not been confirmed.
LEMMA UnconfirmedStep ==
    ASSUME TypeOK, RemapUnconfirmed, [Next]_vars
    PROVE  RemapUnconfirmed'
<1>1. ASSUME NEW t \in Thread, Serve(t) PROVE RemapUnconfirmed'
  <2>1. \A u \in Thread \ {t} : op'[u].pc = op[u].pc /\ op'[u].w = op[u].w
    BY <1>1, OthersStayPc
  <2>2. CASE \E f \in 1 .. 2 : Msync(t, f)
    <3>2. op'[t].pc \notin {"remap", "remap_flash"}
      BY <2>2, AfterSyncMoves
    <3>3. \A w \in changed : Remapping(w) => w \in changed'
      BY <2>2 DEF Msync
    <3> QED BY <2>1, <3>2, <3>3 DEF RemapUnconfirmed, Remapping
  <2>3. CASE \A f \in 1 .. 2 : ~Msync(t, f)
    <3>1. changed \subseteq changed'
      BY <1>1, <2>3, DiskKept DEF DiskKeeps
    <3>2. op'[t].pc \in {"remap", "remap_flash"} => op'[t].w \in changed'
      <4>1. op[t] \in Op /\ op \in [Thread -> Op]
        BY DEF TypeOK
      <4>2. CASE ChangeWellType(t)
        <5>1. CASE op[t].v \in WellType
          <6>1. op' = [op EXCEPT ![t] = [op[t] EXCEPT !.pc = "remap", !.k = 1]]
            BY <4>2, <5>1 DEF ChangeWellType, Become
          <6>2. op'[t].w = op[t].w
            BY <4>1, <6>1 DEF Op
          <6> QED BY <4>2, <5>1, <6>2 DEF ChangeWellType
        <5>2. CASE op[t].v \notin WellType
          BY <4>2, <5>2, Moves
        <5> QED BY <5>1, <5>2
      <4>3. CASE RemapRow(t) \/ RemapDefault(t)
        <5>1. op'[t].w = op[t].w
          <6>1. \/ \E c \in Pc : op'[t] = [op[t] EXCEPT !.pc = c]
                \/ op'[t] = [op[t] EXCEPT !.pc = "remap", !.k = op[t].k + 1]
            BY <4>1, <4>3 DEF RemapRow, RemapDefault, Goto, Become, Pc
          <6> QED BY <4>1, <6>1 DEF Op
        <5> QED BY <3>1, <4>3, <5>1, Moves DEF RemapUnconfirmed
      <4>4. CASE \E f \in 1 .. 2 : MsyncFails(t, f)
        BY <4>4, AfterSyncMoves
      <4>5. CASE \/ \E q \in Requests : Request(t, q)
                 \/ Reply(t) \/ WriteUnmapped(t) \/ SkipReadOnly(t) \/ EnterWrite(t)
                 \/ NoFlash(t) \/ StoreFlash1(t) \/ StoreFlash2(t) \/ StoreRam(t)
                 \/ SetRelay(t) \/ StoreRelay(t) \/ PressButton(t) \/ ResetRow(t)
        BY <4>5, Moves
      <4> QED BY <1>1, <2>3, <4>2, <4>3, <4>4, <4>5 DEF Serve
    <3> QED BY <2>1, <3>1, <3>2 DEF RemapUnconfirmed
  <2> QED BY <2>2, <2>3
<1>2. CASE PowerLoss
  BY <1>2 DEF PowerLoss, RemapUnconfirmed, Idle
<1>3. CASE CreateFlash \/ FillMap \/ StartThreads
  BY <1>3 DEF CreateFlash, FillMap, StartThreads, RemapUnconfirmed, torn
<1>4. CASE \/ UNCHANGED vars
           \/ \E x \in Reg : WriteBack1(x) \/ \E w \in Well : WriteBack2(w, x)
  <2>1. UNCHANGED <<op, changed>>
    BY <1>4 DEF vars, WriteBack1, WriteBack2, torn
  <2> QED BY <2>1 DEF RemapUnconfirmed
<1> QED BY <1>1, <1>2, <1>3, <1>4 DEF Next

\* A start gives a well a known type, and it keeps one.
LEMMA KnownStep ==
    ASSUME TypeOK, MapOK, TypeKnown, \A t \in Thread : OpOK(t), [Next]_vars
    PROVE  TypeKnown'
<1>1. ASSUME NEW t \in Thread, Serve(t) PROVE TypeKnown'
  <2>1. phase = "on"
    BY <1>1, DiskKept DEF DiskKeeps, Msync
  <2> QED BY <1>1, <2>1, TypeStored DEF TypeStays, TypeKnown
<1>2. CASE FillMap
  BY <1>2, FillMapDoes DEF TypeKnown
<1>3. CASE StartThreads
  <2>1. \A w \in Well : flash2'[w][WELL_TYPE] = flash2[w][WELL_TYPE]
    BY <1>3, MapAssumption DEF StartThreads, TypeOK, Contents1, Contents2
  <2> QED BY <1>3, <2>1 DEF StartThreads, TypeKnown
<1>4. CASE CreateFlash \/ PowerLoss
  BY <1>4 DEF CreateFlash, PowerLoss, TypeKnown
<1>5. CASE \/ UNCHANGED vars
           \/ \E x \in Reg : WriteBack1(x) \/ \E w \in Well : WriteBack2(w, x)
  BY <1>5 DEF vars, WriteBack1, WriteBack2, flash, boot, TypeKnown
<1> QED BY <1>1, <1>2, <1>3, <1>4, <1>5 DEF Next

\* The disk has the types the pages have.
LEMMA SameTypeStep ==
    ASSUME TypeOK, MapOK, Untouched, DefaultsDisk2, SameType, \A t \in Thread : OpOK(t),
           [Next]_vars
    PROVE  SameType'
<1>1. ASSUME NEW t \in Thread, Serve(t) PROVE SameType'
  <2>1. CASE \E f \in 1 .. 2 : Msync(t, f)
    <3>1. PICK f \in 1 .. 2 : Msync(t, f)
      BY <2>1
    <3>2. CASE f = 1
      BY <3>1, <3>2 DEF Msync, flash, boot, SameType, Creating, Confirmed
    <3>3. CASE f # 1
      BY <3>1, <3>3 DEF Msync, flash, SameType
    <3> QED BY <3>2, <3>3
  <2>2. CASE \A f \in 1 .. 2 : ~Msync(t, f)
    <3>1. DiskKeeps
      BY <1>1, <2>2, DiskKept
    <3>2. \A w \in Well : TypeStays(w)
      BY <1>1, TypeStored
    <3> QED BY <3>1, <3>2 DEF DiskKeeps, TypeStays, SameType, Creating, Confirmed
  <2> QED BY <2>1, <2>2
<1>2. CASE FillMap
  <2> SUFFICES ASSUME ~fresh[2], NEW w \in Confirmed
               PROVE  disk2[w][WELL_TYPE] = flash2'[w][WELL_TYPE]
    BY <1>2 DEF FillMap, SameType, Creating, Confirmed, disk, torn
  <2>1. FilledWell(disk2[w]) /\ flash2[w] = disk2[w] /\ w \in Well
    BY <1>2 DEF FillMap, Untouched, DefaultsDisk2, Creating, Confirmed
  <2> QED BY <1>2, <2>1, FillMapDoes DEF FilledWell
<1>3. CASE StartThreads
  BY <1>3 DEF StartThreads, SameType
<1>4. CASE CreateFlash \/ PowerLoss
  BY <1>4 DEF CreateFlash, PowerLoss, SameType
<1>5. ASSUME NEW w \in Well, NEW x \in Reg, WriteBack2(w, x) PROVE SameType'
  <2>1. \A v \in Well : disk2'[v][WELL_TYPE] \in {disk2[v][WELL_TYPE], flash2[v][WELL_TYPE]}
    BY <1>5, MapAssumption DEF WriteBack2, TypeOK, Contents1, Contents2
  <2> QED BY <1>5, <2>1 DEF WriteBack2, SameType, Creating, Confirmed, flash, boot, torn
<1>6. CASE UNCHANGED vars \/ \E x \in Reg : WriteBack1(x)
  <2>1. UNCHANGED <<disk2, flash2, phase, fresh, torn2, changed>>
    BY <1>6 DEF vars, WriteBack1, disk, flash, boot, torn
  <2> QED BY <2>1 DEF SameType, Creating, Confirmed
<1> QED BY <1>1, <1>2, <1>3, <1>4, <1>5, <1>6 DEF Next

\* The defaults of flash1 stay on the disk.
LEMMA Disk1Step ==
    ASSUME TypeOK, TypeOK', Untouched, DefaultsDisk1, Defaults1, [Next]_vars
    PROVE  DefaultsDisk1'
<1>0. 1 \in 1 .. 2 /\ \A r \in ToSet(Map1) : r.x \in Reg
  BY RowsAreRows DEF Row
<1>1. ASSUME NEW t \in Thread, Serve(t) PROVE DefaultsDisk1'
  <2>1. CASE \E f \in 1 .. 2 : Msync(t, f)
    <3>1. /\ phase = "on" /\ UNCHANGED <<flash1, phase, torn1, file>>
          /\ disk1' = flash1 \/ disk1' = disk1
      BY <2>1 DEF Msync, flash, boot
    <3> QED BY <3>1 DEF DefaultsDisk1, Defaults1, Filled1, Creating
  <2>2. CASE \A f \in 1 .. 2 : ~Msync(t, f)
    <3>1. DiskKeeps
      BY <1>1, <2>2, DiskKept
    <3> QED BY <3>1 DEF DiskKeeps, DefaultsDisk1, Filled1, Creating
  <2> QED BY <2>1, <2>2
<1>2. CASE CreateFlash
  <2>1. UNCHANGED <<disk1, file, torn1>> /\ phase = "off" /\ phase' = "created" /\ fresh'[1] = ~file[1]
    BY <1>0, <1>2, Zenon DEF CreateFlash, disk, torn
  <2> QED BY <2>1 DEF DefaultsDisk1, Filled1, Creating
<1>3. CASE FillMap
  BY <1>3 DEF FillMap, DefaultsDisk1, Filled1, Creating, disk, torn
<1>4. CASE StartThreads
  BY <1>4 DEF StartThreads, DefaultsDisk1, Defaults1, Filled1, torn
<1>5. ASSUME NEW x \in Reg, WriteBack1(x) PROVE DefaultsDisk1'
  <2>1. /\ UNCHANGED <<phase, fresh, torn1>> /\ phase # "off"
        /\ \A y \in Reg : disk1'[y] \in {flash1[y], disk1[y]}
    BY <1>5 DEF WriteBack1, boot, torn, TypeOK, Contents1
  <2> SUFFICES ASSUME ~torn1, ~Creating(1) PROVE Filled1(disk1')
    BY <2>1 DEF DefaultsDisk1, Creating, Filled1
  <2>2. file[1]
    BY <1>0, <2>1 DEF Creating, Untouched, TypeOK
  <2>3. Filled1(disk1)
    BY <2>2 DEF DefaultsDisk1
  <2>4. Filled1(flash1)
    BY <2>1, <2>3 DEF Untouched, Defaults1, TypeOK
  <2> QED BY <1>0, <2>1, <2>3, <2>4 DEF Filled1
<1>6. ASSUME NEW w \in Well, NEW x \in Reg, WriteBack2(w, x) PROVE DefaultsDisk1'
  BY <1>6 DEF WriteBack2, DefaultsDisk1, Filled1, Creating, boot, torn, TypeOK
<1>7. CASE PowerLoss
  BY <1>7 DEF PowerLoss, DefaultsDisk1, Filled1, Creating, disk
<1>8. CASE UNCHANGED vars
  BY <1>8 DEF vars, DefaultsDisk1, Filled1, Creating, disk, boot, torn
<1> QED BY <1>1, <1>2, <1>3, <1>4, <1>5, <1>6, <1>7, <1>8 DEF Next

\* A page of a well that is not being given a type has its defaults.
LEMMA PageFilled ==
    ASSUME Defaults2, RemapUnconfirmed, phase \in {"filled", "on"},
           NEW w \in Well \ torn2, ~Remapping(w)
    PROVE  FilledWell(flash2[w])
BY DEF Defaults2, FilledWell, Pending, Remapping

\* The defaults of flash2 stay on the disk.
LEMMA Disk2Step ==
    ASSUME TypeOK, TypeOK', Untouched, DefaultsDisk2, SameType, RemapUnconfirmed, Defaults2,
           Defaults2', \A t \in Thread : OpOK(t), [Next]_vars
    PROVE  DefaultsDisk2'
<1>0. 2 \in 1 .. 2 /\ \A u \in WellType : \A r \in Kept2(u) : r.x \in Reg
  BY RowsAreRows DEF Kept2, Row
<1>1. ASSUME NEW t \in Thread, Serve(t) PROVE DefaultsDisk2'
  <2>1. CASE Msync(t, 2)
    <3>1. /\ phase = "on" /\ UNCHANGED <<phase, torn2>> /\ disk2' = flash2
          /\ changed' = {w \in changed : Remapping(w)}
      BY <2>1 DEF Msync, boot
    <3>2. \A w \in Well : Remapping(w) => w \in changed'
      BY <3>1 DEF Remapping, RemapUnconfirmed
    <3>3. \A w \in Confirmed' : FilledWell(flash2[w])
      BY <3>1, <3>2, PageFilled DEF Confirmed
    <3> QED BY <3>1, <3>3 DEF DefaultsDisk2, FilledWell, Kept2
  <2>2. CASE Msync(t, 1)
    <3>1. UNCHANGED <<disk2, phase, fresh, file, torn2, changed>>
      BY <2>2 DEF Msync, boot
    <3> QED BY <3>1 DEF DefaultsDisk2, FilledWell, Kept2, Creating, Confirmed
  <2>3. CASE \A f \in 1 .. 2 : ~Msync(t, f)
    <3>1. DiskKeeps
      BY <1>1, <2>3, DiskKept
    <3> QED BY <3>1 DEF DiskKeeps, DefaultsDisk2, FilledWell, Kept2, Creating, Confirmed
  <2> QED BY <2>1, <2>2, <2>3
<1>2. CASE CreateFlash
  <2>1. UNCHANGED <<disk2, file, torn2, changed>> /\ phase = "off" /\ phase' = "created" /\ fresh'[2] = ~file[2]
    BY <1>0, <1>2, Zenon DEF CreateFlash, disk, torn
  <2> QED BY <2>1 DEF DefaultsDisk2, FilledWell, Kept2, Creating, Confirmed
<1>3. CASE FillMap
  BY <1>3 DEF FillMap, DefaultsDisk2, FilledWell, Kept2, Creating, Confirmed, disk, torn
<1>4. CASE StartThreads
  <2>1. phase' = "on" /\ disk2' = flash2' /\ UNCHANGED <<torn2, changed, op>> /\ phase = "filled"
    BY <1>4 DEF StartThreads, torn
  <2>2. \A w \in Well : \A r : ~Pending(w, r)'
    BY <2>1 DEF OpOK, Pending
  <2> QED BY <2>1, <2>2 DEF DefaultsDisk2, Defaults2, FilledWell, Kept2, Confirmed
<1>5. ASSUME NEW w \in Well, NEW x \in Reg, WriteBack2(w, x) PROVE DefaultsDisk2'
  <2>1. /\ UNCHANGED <<phase, fresh, torn2, changed>> /\ phase # "off"
        /\ \A v \in Well, y \in Reg : disk2'[v][y] \in {flash2[v][y], disk2[v][y]}
    BY <1>5 DEF WriteBack2, boot, torn, TypeOK, Contents1, Contents2
  <2> SUFFICES ASSUME ~Creating(2), NEW v \in Confirmed PROVE FilledWell(disk2'[v])
    BY <2>1 DEF DefaultsDisk2, Creating, Confirmed, FilledWell, Kept2
  <2>2. file[2]
    BY <1>0, <2>1 DEF Creating, Untouched, TypeOK
  <2>3. FilledWell(disk2[v]) /\ v \in Well \ torn2
    BY <2>2 DEF DefaultsDisk2, Confirmed
  <2>4. ~Remapping(v)
    BY DEF Remapping, RemapUnconfirmed, Confirmed
  <2>5. FilledWell(flash2[v]) /\ flash2[v][WELL_TYPE] = disk2[v][WELL_TYPE]
    BY <2>1, <2>3, <2>4, PageFilled DEF Untouched, TypeOK, SameType
  <2>6. disk2'[v][WELL_TYPE] = disk2[v][WELL_TYPE]
    BY <2>1, <2>3, <2>5, MapAssumption
  <2> QED BY <1>0, <2>1, <2>3, <2>5, <2>6 DEF FilledWell
<1>6. ASSUME NEW x \in Reg, WriteBack1(x) PROVE DefaultsDisk2'
  BY <1>6 DEF WriteBack1, DefaultsDisk2, FilledWell, Kept2, Creating, Confirmed, boot,
     torn, TypeOK
<1>7. CASE PowerLoss
  <2>1. /\ UNCHANGED <<disk2, file>> /\ changed' = {}
        /\ torn2' = torn2 \cup changed \cup (IF Creating(2) /\ file[2] THEN Well ELSE {})
    BY <1>7 DEF PowerLoss, disk
  <2>2. CASE Creating(2) /\ file[2]
    BY <2>1, <2>2 DEF DefaultsDisk2, Confirmed
  <2>3. CASE ~(Creating(2) /\ file[2])
    BY <2>1, <2>3 DEF DefaultsDisk2, Confirmed, FilledWell, Kept2
  <2> QED BY <2>2, <2>3
<1>8. CASE UNCHANGED vars
  BY <1>8 DEF vars, DefaultsDisk2, FilledWell, Kept2, Creating, Confirmed, disk, boot, torn
<1> QED BY <1>1, <1>2, <1>3, <1>4, <1>5, <1>6, <1>7, <1>8 DEF Next

\* The registers of flash1.
LEMMA Step1 ==
    ASSUME TypeOK, TypeOK', Untouched, DefaultsDisk1, Defaults1, \A t \in Thread : OpOK(t),
           [Next]_vars
    PROVE  Defaults1'
<1> USE DEF torn
<1>0. /\ Blank \notin Value
      /\ \A r \in ToSet(Map1) : r.x \in Reg /\ r.dv \in Value
  BY MapAssumption, RowsAreRows DEF Row

<1>1. CASE CreateFlash
  BY <1>1 DEF CreateFlash, Defaults1
<1>2. CASE FillMap
  <2>1. ~torn1 => Filled1(flash1')
    <3>1. CASE fresh[1]
      BY <1>2, <3>1, FillMapDoes
    <3>2. CASE ~fresh[1]
      BY <1>2, <3>2, FillMapDoes DEF FillMap, Untouched, DefaultsDisk1, Creating
    <3> QED BY <3>1, <3>2
  <2> QED BY <1>2, <2>1 DEF FillMap, Defaults1, Filled1
<1>3. CASE StartThreads
  BY <1>3 DEF StartThreads, Defaults1, Filled1
<1>4. ASSUME NEW t \in Thread, NEW q \in Requests, Request(t, q) PROVE Defaults1'
  BY <1>4 DEF Request, At, Defaults1, Filled1, flash, disk, boot
<1>5. ASSUME NEW t \in Thread, Reply(t) PROVE Defaults1'
  BY <1>5 DEF Reply, At, Defaults1, Filled1, flash, disk, boot
<1>6. ASSUME NEW t \in Thread, WriteUnmapped(t) PROVE Defaults1'
  BY <1>6 DEF WriteUnmapped, At, Defaults1, Filled1, flash, disk, boot
<1>7. ASSUME NEW t \in Thread, SkipReadOnly(t) PROVE Defaults1'
  BY <1>7 DEF SkipReadOnly, At, Defaults1, Filled1, flash, disk, boot
<1>8. ASSUME NEW t \in Thread, EnterWrite(t) PROVE Defaults1'
  BY <1>8 DEF EnterWrite, At, Defaults1, Filled1, flash, disk, boot
<1>9. ASSUME NEW t \in Thread, NoFlash(t) PROVE Defaults1'
  BY <1>9 DEF NoFlash, At, Defaults1, Filled1, flash, disk, boot
<1>10. ASSUME NEW t \in Thread, StoreFlash1(t) PROVE Defaults1'
  <2>1. op[t].v \in Value /\ op[t].x \in Reg
    BY DEF TypeOK, Op
  <2>2. \A x \in Reg : flash1'[x] = IF x = op[t].x THEN op[t].v ELSE flash1[x]
    BY <1>10, <2>1 DEF StoreFlash1, TypeOK, Contents1
  <2> QED BY <1>10, <1>0, <2>1, <2>2 DEF StoreFlash1, Defaults1, Filled1, disk, boot
<1>11. ASSUME NEW t \in Thread, StoreFlash2(t) PROVE Defaults1'
  BY <1>11 DEF StoreFlash2, At, Defaults1, Filled1, flash, disk, boot
<1>12. ASSUME NEW t \in Thread, StoreRam(t) PROVE Defaults1'
  BY <1>12 DEF StoreRam, At, Defaults1, Filled1, flash, disk, boot
<1>13. ASSUME NEW t \in Thread, ChangeWellType(t) PROVE Defaults1'
  BY <1>13 DEF ChangeWellType, At, Defaults1, Filled1, flash, disk, boot
<1>14. ASSUME NEW t \in Thread, RemapRow(t) PROVE Defaults1'
  BY <1>14 DEF RemapRow, At, Defaults1, Filled1, flash, disk, boot
<1>15. ASSUME NEW t \in Thread, RemapDefault(t) PROVE Defaults1'
  BY <1>15 DEF RemapDefault, At, Defaults1, Filled1, flash, disk, boot
<1>16. ASSUME NEW t \in Thread, SetRelay(t) PROVE Defaults1'
  BY <1>16 DEF SetRelay, At, Defaults1, Filled1, flash, disk, boot
<1>17. ASSUME NEW t \in Thread, StoreRelay(t) PROVE Defaults1'
  BY <1>17 DEF StoreRelay, At, Defaults1, Filled1, flash, disk, boot
<1>18. ASSUME NEW t \in Thread, PressButton(t) PROVE Defaults1'
  BY <1>18 DEF PressButton, At, Defaults1, Filled1, flash, disk, boot
<1>19. ASSUME NEW t \in Thread, ResetRow(t) PROVE Defaults1'
  <2>1. CASE op[t].k <= Len(Map1)
    <3> DEFINE row == Map1[op[t].k]
    <3>1. op[t].k \in 1 .. Len(Map1)
      BY <1>19, <2>1, MapAssumption DEF ResetRow, At, OpOK, Legal
    <3>2. row \in ToSet(Map1)
      BY <3>1, RowsAreRows
    <3>3. \E new : flash1' = Default1(flash1, row, new)
      BY <1>19, <2>1 DEF ResetRow
    <3> HIDE DEF row
    <3>4. \A x \in Reg : flash1'[x] = flash1[x] \/ flash1'[x] = row.dv
      BY <1>0, <3>2, <3>3 DEF Default1, TypeOK, Contents1
    <3> QED BY <1>19, <1>0, <3>2, <3>4 DEF ResetRow, Defaults1, Filled1, disk, boot
  <2>2. CASE ~(op[t].k <= Len(Map1))
    BY <1>19, <2>2 DEF ResetRow, Defaults1, Filled1, disk, boot
  <2> QED BY <2>1, <2>2
<1>20. ASSUME NEW t \in Thread, NEW f \in 1 .. 2, Msync(t, f) PROVE Defaults1'
  <2>1. flash1' = flash1 /\ disk1' \in {flash1, disk1}
    BY <1>20 DEF Msync, flash
  <2> QED BY <1>20, <2>1 DEF Msync, Defaults1, Filled1, boot
<1>21. ASSUME NEW t \in Thread, NEW f \in 1 .. 2, MsyncFails(t, f) PROVE Defaults1'
  BY <1>21 DEF MsyncFails, At, Defaults1, Filled1, flash, disk, boot
<1>22. ASSUME NEW x \in Reg, WriteBack1(x) PROVE Defaults1'
  <2>1. \A y \in Reg : disk1'[y] \in {flash1[y], disk1[y]}
    BY <1>22 DEF WriteBack1, TypeOK, Contents1
  <2> QED BY <1>22, <1>0, <2>1 DEF WriteBack1, Defaults1, Filled1, flash, boot
<1>23. ASSUME NEW w \in Well, NEW x \in Reg, WriteBack2(w, x) PROVE Defaults1'
  BY <1>23 DEF WriteBack2, Defaults1, Filled1, flash, boot
<1>24. CASE PowerLoss
  BY <1>24 DEF PowerLoss, Defaults1
<1>25. CASE UNCHANGED vars
  BY <1>25 DEF vars, Defaults1, Filled1, flash, disk, boot
<1> QED BY <1>1, <1>2, <1>3, <1>4, <1>5, <1>6, <1>7, <1>8, <1>9, <1>10, <1>11, <1>12,
           <1>13, <1>14, <1>15, <1>16, <1>17, <1>18, <1>19, <1>20, <1>21, <1>22,
           <1>23, <1>24, <1>25 DEF Next, Serve

\* A row to come of a thread that is not changing a well type stays to come.
LEMMA PendingKept ==
    ASSUME TypeOK, NEW t \in Thread, Serve(t), op[t].pc \notin {"remap", "remap_flash"}
    PROVE  /\ \A w \in Well : \A r : Pending(w, r) => Pending(w, r)'
           /\ \A w \in Well, x \in Reg, u \in Thread : InRow(u, w, x) => InRow(u, w, x)'
<1>1. ASSUME NEW u \in Thread, op[u].pc \in {"remap", "remap_flash"}
      PROVE  /\ op'[u].pc = op[u].pc /\ op'[u].w = op[u].w
             /\ op'[u].v = op[u].v /\ op'[u].k = op[u].k
  BY <1>1, OthersStayPc
<1>2. ASSUME NEW w \in Well, NEW r, Pending(w, r) PROVE Pending(w, r)'
  BY <1>1, <1>2 DEF Pending
<1>3. ASSUME NEW w \in Well, NEW x \in Reg, NEW u \in Thread, InRow(u, w, x)
      PROVE  InRow(u, w, x)'
  BY <1>1, <1>3 DEF InRow
<1> QED BY <1>2, <1>3

\* A row to come is a row of Map00.
LEMMA PendingRow ==
    ASSUME \A t \in Thread : OpOK(t), NEW w \in Well, NEW r, Pending(w, r)
    PROVE  \A s \in ToSet(Map1) : s # r
<1>1. PICK t \in Thread : /\ op[t].w = w /\ op[t].pc \in {"remap", "remap_flash"}
                          /\ \E n \in op[t].k .. Len(Map00[op[t].v]) : Map00[op[t].v][n] = r
  BY DEF Pending
<1>2. op[t].v \in WellType /\ op[t].k \in 1 .. Len(Map00[op[t].v]) + 1
  BY <1>1 DEF OpOK, Legal
<1>3. r \in ToSet(Map00[op[t].v])
  <2>1. PICK n \in op[t].k .. Len(Map00[op[t].v]) : Map00[op[t].v][n] = r
    BY <1>1
  <2>2. n \in 1 .. Len(Map00[op[t].v])
    BY <1>2, <2>1, MapAssumption
  <2> QED BY <1>2, <2>1, <2>2, RowsAreRows
<1> QED BY <1>2, <1>3, TablesAssumption

\* flash2 and the types in ram when no row of a new type is dealt with.
LEMMA Kept2OK ==
    ASSUME TypeOK, Defaults2, phase = "on", UNCHANGED torn2,
           \A w \in Well : \A r : Pending(w, r) => Pending(w, r)',
           \A w \in Well, x \in Reg, u \in Thread : InRow(u, w, x) => InRow(u, w, x)',
           \A w \in Well : flash2'[w][WELL_TYPE] = flash2[w][WELL_TYPE],
           \A w \in Well, x \in Reg : flash2'[w][x] = flash2[w][x] \/ flash2'[w][x] # Blank,
           \A w \in Well \ torn2, x \in Reg : ram'[w].type[x] = "FLASH2" =>
               ram[w].type[x] = "FLASH2" \/ flash2[w][x] # Blank
    PROVE  Defaults2'
<1>1. \A u \in WellType : \A r \in Kept2(u) : r.x \in Reg
  BY RowsAreRows DEF Kept2, Row
<1> SUFFICES ASSUME NEW w \in Well \ torn2
             PROVE  /\ flash2'[w][WELL_TYPE] \in WellType
                    /\ \A r \in Kept2(flash2'[w][WELL_TYPE]) :
                         flash2'[w][r.x] # Blank \/ Pending(w, r)'
                    /\ \A x \in Reg : ram'[w].type[x] = "FLASH2" =>
                         flash2'[w][x] # Blank \/ \E t \in Thread : InRow(t, w, x)'
  BY DEF Defaults2, Kept2
<1>2. flash2[w][WELL_TYPE] \in WellType
  BY DEF Defaults2
<1>3. \A r \in Kept2(flash2'[w][WELL_TYPE]) : flash2'[w][r.x] # Blank \/ Pending(w, r)'
  <2> SUFFICES ASSUME NEW r \in Kept2(flash2[w][WELL_TYPE])
               PROVE  flash2'[w][r.x] # Blank \/ Pending(w, r)'
    OBVIOUS
  <2>1. flash2[w][r.x] # Blank \/ Pending(w, r)
    BY DEF Defaults2
  <2>2. flash2'[w][r.x] = flash2[w][r.x] \/ flash2'[w][r.x] # Blank
    BY <1>1, <1>2
  <2> QED BY <2>1, <2>2
<1>4. ASSUME NEW x \in Reg, ram'[w].type[x] = "FLASH2"
      PROVE  flash2'[w][x] # Blank \/ \E t \in Thread : InRow(t, w, x)'
  <2>1. flash2[w][x] # Blank \/ \E t \in Thread : InRow(t, w, x)
    BY <1>4 DEF Defaults2
  <2> QED BY <2>1
<1> QED BY <1>2, <1>3, <1>4

\* The registers of flash2 are kept by every step.
LEMMA Step2 ==
    ASSUME TypeOK, TypeOK', MapOK, Untouched, DefaultsDisk2, Defaults2,
           \A t \in Thread : OpOK(t), [Next]_vars
    PROVE  Defaults2'
<1> USE DEF torn, boot
<1>0. /\ Blank \notin Value /\ WELL_TYPE # DO0 /\ 1 \in Well /\ {WELL_TYPE, DO0} \subseteq Reg
      /\ WellType \subseteq Value
  BY MapAssumption

<1>1. CASE CreateFlash
  BY <1>1 DEF CreateFlash, Defaults2
<1>2. CASE FillMap
  <2> SUFFICES ASSUME NEW w \in Well \ torn2
               PROVE  /\ flash2'[w][WELL_TYPE] \in WellType
                      /\ \A r \in Kept2(flash2'[w][WELL_TYPE]) : flash2'[w][r.x] # Blank
                      /\ \A x \in Reg : ram'[w].type[x] = "FLASH2" => flash2'[w][x] # Blank
    BY <1>2 DEF FillMap, Defaults2, Kept2
  <2>1. PICK u \in WellType :
          /\ flash2'[w][WELL_TYPE] = u
          /\ ram'[w] = InstallAll(Rows(u))
          /\ ~fresh[2] => /\ flash2'[w] = [flash2[w] EXCEPT ![WELL_TYPE] = u]
                          /\ flash2[w][WELL_TYPE] \in WellType => u = flash2[w][WELL_TYPE]
          /\ fresh[2] => \A r \in Kept2(u) : flash2'[w][r.x] # Blank
    BY <1>2, FillMapDoes
  <2>2. \A r \in Kept2(u) : flash2'[w][r.x] # Blank
    <3>1. CASE fresh[2]
      BY <2>1, <3>1
    <3>2. CASE ~fresh[2]
      <4>1. FilledWell(flash2[w])
        BY <1>2, <3>2 DEF FillMap, Untouched, DefaultsDisk2, Creating, Confirmed
      <4>2. u = flash2[w][WELL_TYPE] /\ flash2'[w] = [flash2[w] EXCEPT ![WELL_TYPE] = u]
        BY <2>1, <3>2, <4>1 DEF FilledWell
      <4>3. flash2'[w] = flash2[w]
        BY <4>2 DEF TypeOK, Contents2
      <4> QED BY <4>1, <4>2, <4>3 DEF FilledWell
    <3> QED BY <3>1, <3>2
  <2>3. \A x \in Reg : ram'[w].type[x] = "FLASH2" => flash2'[w][x] # Blank
    BY <2>1, <2>2, MapsInstallAll DEF Kept2
  <2> QED BY <2>1, <2>2, <2>3
<1>3. CASE StartThreads
  <2>1. \A w \in Well, x \in Reg : flash2'[w][x] = flash2[w][x] \/ (x # WELL_TYPE /\ flash2'[w][x] # Blank)
    <3> DEFINE f == IF Read(1, DO0) = 1 THEN 1 ELSE 0
    <3>1. flash2' = [flash2 EXCEPT ![1][DO0] = f]
      BY <1>3 DEF StartThreads
    <3>2. f # Blank
      BY MapAssumption
    <3> HIDE DEF f
    <3> QED BY <1>0, <3>1, <3>2 DEF TypeOK, Contents2
  <2>2. \A w \in Well : ram'[w].type = ram[w].type
    BY <1>3 DEF StartThreads, TypeOK, WellRam
  <2>3. UNCHANGED <<op, torn2>> /\ phase = "filled" /\ phase' = "on"
    BY <1>3 DEF StartThreads
  <2>4. \A w \in Well : flash2'[w][WELL_TYPE] = flash2[w][WELL_TYPE]
    BY <1>0, <2>1
  <2>5. \A u \in WellType : \A r \in Kept2(u) : r.x \in Reg
    BY RowsAreRows DEF Kept2, Row
  <2> QED BY <2>1, <2>2, <2>3, <2>4, <2>5 DEF Defaults2, Pending, InRow
<1>4. ASSUME NEW t \in Thread, NEW q \in Requests, Request(t, q) PROVE Defaults2'
  <2>1. /\ phase = "on" /\ UNCHANGED <<torn2, phase>> /\ Serve(t)
        /\ op[t].pc \notin {"remap", "remap_flash"}
    BY <1>4 DEF Request, At, Serve
  <2>2. \A w \in Well, x \in Reg : flash2'[w][x] = flash2[w][x] \/ (x # WELL_TYPE /\ flash2'[w][x] # Blank)
    BY <1>4 DEF Request, flash
  <2>3. \A w \in Well : ram'[w].type = ram[w].type
    BY <1>4 DEF Request
  <2> QED BY <1>0, <2>1, <2>2, <2>3, PendingKept, Kept2OK
<1>5. ASSUME NEW t \in Thread, Reply(t) PROVE Defaults2'
  <2>1. /\ phase = "on" /\ UNCHANGED <<torn2, phase>> /\ Serve(t)
        /\ op[t].pc \notin {"remap", "remap_flash"}
    BY <1>5, Moves DEF Reply, At, Serve, Syncing
  <2>2. \A w \in Well, x \in Reg : flash2'[w][x] = flash2[w][x] \/ (x # WELL_TYPE /\ flash2'[w][x] # Blank)
    BY <1>5 DEF Reply, flash
  <2>3. \A w \in Well : ram'[w].type = ram[w].type
    BY <1>5 DEF Reply
  <2> QED BY <1>0, <2>1, <2>2, <2>3, PendingKept, Kept2OK
<1>6. ASSUME NEW t \in Thread, WriteUnmapped(t) PROVE Defaults2'
  <2>1. /\ phase = "on" /\ UNCHANGED <<torn2, phase>> /\ Serve(t)
        /\ op[t].pc \notin {"remap", "remap_flash"}
    BY <1>6, Moves DEF WriteUnmapped, At, Serve, Syncing
  <2>2. \A w \in Well, x \in Reg : flash2'[w][x] = flash2[w][x] \/ (x # WELL_TYPE /\ flash2'[w][x] # Blank)
    BY <1>6 DEF WriteUnmapped, flash
  <2>3. \A w \in Well : ram'[w].type = ram[w].type
    <3>1. /\ ram \in [Well -> WellRam]
          /\ ram' = [ram EXCEPT ![op[t].w].y[op[t].i] = [val |-> op[t].req[op[t].b]]]
      BY <1>6 DEF WriteUnmapped, TypeOK
    <3> QED BY <3>1 DEF WellRam
  <2> QED BY <1>0, <2>1, <2>2, <2>3, PendingKept, Kept2OK
<1>7. ASSUME NEW t \in Thread, SkipReadOnly(t) PROVE Defaults2'
  <2>1. /\ phase = "on" /\ UNCHANGED <<torn2, phase>> /\ Serve(t)
        /\ op[t].pc \notin {"remap", "remap_flash"}
    BY <1>7, Moves DEF SkipReadOnly, At, Serve, Syncing
  <2>2. \A w \in Well, x \in Reg : flash2'[w][x] = flash2[w][x] \/ (x # WELL_TYPE /\ flash2'[w][x] # Blank)
    BY <1>7 DEF SkipReadOnly, flash
  <2>3. \A w \in Well : ram'[w].type = ram[w].type
    BY <1>7 DEF SkipReadOnly
  <2> QED BY <1>0, <2>1, <2>2, <2>3, PendingKept, Kept2OK
<1>8. ASSUME NEW t \in Thread, EnterWrite(t) PROVE Defaults2'
  <2>1. /\ phase = "on" /\ UNCHANGED <<torn2, phase>> /\ Serve(t)
        /\ op[t].pc \notin {"remap", "remap_flash"}
    <3>1. phase = "on" /\ UNCHANGED <<torn2, phase>> /\ Serve(t)
      BY <1>8 DEF EnterWrite, At, Serve
    <3>2. op[t].pc = "addr"
      BY <1>8 DEF EnterWrite, At
    <3> QED BY <3>1, <3>2
  <2>2. \A w \in Well, x \in Reg : flash2'[w][x] = flash2[w][x] \/ (x # WELL_TYPE /\ flash2'[w][x] # Blank)
    BY <1>8 DEF EnterWrite, flash
  <2>3. \A w \in Well : ram'[w].type = ram[w].type
    BY <1>8 DEF EnterWrite
  <2> QED BY <1>0, <2>1, <2>2, <2>3, PendingKept, Kept2OK
<1>9. ASSUME NEW t \in Thread, NoFlash(t) PROVE Defaults2'
  <2>1. /\ phase = "on" /\ UNCHANGED <<torn2, phase>> /\ Serve(t)
        /\ op[t].pc \notin {"remap", "remap_flash"}
    BY <1>9, Moves DEF NoFlash, At, Serve, Syncing
  <2>2. \A w \in Well, x \in Reg : flash2'[w][x] = flash2[w][x] \/ (x # WELL_TYPE /\ flash2'[w][x] # Blank)
    BY <1>9 DEF NoFlash, flash
  <2>3. \A w \in Well : ram'[w].type = ram[w].type
    BY <1>9 DEF NoFlash
  <2> QED BY <1>0, <2>1, <2>2, <2>3, PendingKept, Kept2OK
<1>10. ASSUME NEW t \in Thread, StoreFlash1(t) PROVE Defaults2'
  <2>1. /\ phase = "on" /\ UNCHANGED <<torn2, phase>> /\ Serve(t)
        /\ op[t].pc \notin {"remap", "remap_flash"}
    BY <1>10, Moves DEF StoreFlash1, At, Serve, Syncing
  <2>2. \A w \in Well, x \in Reg : flash2'[w][x] = flash2[w][x] \/ (x # WELL_TYPE /\ flash2'[w][x] # Blank)
    BY <1>10 DEF StoreFlash1
  <2>3. \A w \in Well : ram'[w].type = ram[w].type
    BY <1>10 DEF StoreFlash1
  <2> QED BY <1>0, <2>1, <2>2, <2>3, PendingKept, Kept2OK
<1>11. ASSUME NEW t \in Thread, StoreFlash2(t) PROVE Defaults2'
  <2>1. /\ phase = "on" /\ UNCHANGED <<torn2, phase>> /\ Serve(t)
        /\ op[t].pc \notin {"remap", "remap_flash"}
    BY <1>11, Moves DEF StoreFlash2, At, Serve, Syncing
  <2>2. \A w \in Well, x \in Reg : flash2'[w][x] = flash2[w][x] \/ (x # WELL_TYPE /\ flash2'[w][x] # Blank)
    <3>1. op[t].w \in Well /\ op[t].x \in Reg /\ op[t].v \in Value /\ phase = "on"
      BY <1>11 DEF TypeOK, Op, StoreFlash2, At
    <3>2. op[t].x # WELL_TYPE
      BY <1>11, <3>1 DEF StoreFlash2, Type, MapOK
    <3> QED BY <1>11, <1>0, <3>1, <3>2 DEF StoreFlash2, TypeOK, Contents2
  <2>3. \A w \in Well : ram'[w].type = ram[w].type
    BY <1>11 DEF StoreFlash2
  <2> QED BY <1>0, <2>1, <2>2, <2>3, PendingKept, Kept2OK
<1>12. ASSUME NEW t \in Thread, StoreRam(t) PROVE Defaults2'
  <2>1. /\ phase = "on" /\ UNCHANGED <<torn2, phase>> /\ Serve(t)
        /\ op[t].pc \notin {"remap", "remap_flash"}
    BY <1>12, Moves DEF StoreRam, At, Serve, Syncing
  <2>2. \A w \in Well, x \in Reg : flash2'[w][x] = flash2[w][x] \/ (x # WELL_TYPE /\ flash2'[w][x] # Blank)
    BY <1>12 DEF StoreRam, flash
  <2>3. \A w \in Well : ram'[w].type = ram[w].type
    <3>1. /\ ram \in [Well -> WellRam]
          /\ ram' = [ram EXCEPT ![op[t].w].x[op[t].x] = op[t].v]
      BY <1>12 DEF StoreRam, TypeOK
    <3> QED BY <3>1 DEF WellRam
  <2> QED BY <1>0, <2>1, <2>2, <2>3, PendingKept, Kept2OK
<1>13. ASSUME NEW t \in Thread, ChangeWellType(t) PROVE Defaults2'
  <2>1. /\ phase = "on" /\ UNCHANGED <<torn2, ram>> /\ Serve(t) /\ op[t].pc = "reg"
        /\ op[t].w \in Well /\ op[t] \in Op
    BY <1>13 DEF ChangeWellType, At, Serve, TypeOK, Op
  <2>2. CASE op[t].v \notin WellType
    <3>1. flash2' = flash2
      BY <1>13, <2>2 DEF ChangeWellType
    <3> QED BY <2>1, <3>1, PendingKept, Kept2OK
  <2>3. CASE op[t].v \in WellType
    <3>0. PICK v \in Well : v = op[t].w
      BY <2>1
    <3>1. \A w \in Well, x \in Reg : flash2'[w][x] = IF w = v /\ x = WELL_TYPE THEN op[t].v ELSE flash2[w][x]
      BY <1>13, <1>0, <2>3, <3>0 DEF ChangeWellType, TypeOK, Contents1, Contents2
    <3>2. op'[t].pc = "remap" /\ op'[t].k = 1 /\ op'[t].w = v /\ op'[t].v = op[t].v
      <4>1. op' = [op EXCEPT ![t] = [op[t] EXCEPT !.pc = "remap", !.k = 1]]
        BY <1>13, <2>3 DEF ChangeWellType, Become
      <4>2. op[t] \in Op /\ op \in [Thread -> Op]
        BY <1>0 DEF TypeOK
      <4> QED BY <3>0, <4>1, <4>2 DEF Op
    <3>3. /\ \A w \in Well : \A r : Pending(w, r) => Pending(w, r)'
          /\ \A w \in Well, x \in Reg, u \in Thread : InRow(u, w, x) => InRow(u, w, x)'
      BY <2>1, PendingKept
    <3>4. \A r \in ToSet(Map00[op[t].v]) : Pending(v, r)'
      <4> SUFFICES ASSUME NEW r \in ToSet(Map00[op[t].v]) PROVE Pending(v, r)'
        OBVIOUS
      <4>1. Map00[op[t].v] \in Seq(Row)
        BY <2>3, MapAssumption
      <4>2. PICK n \in 1 .. Len(Map00[op[t].v]) : Map00[op[t].v][n] = r
        BY <4>1 DEF ToSet
      <4> QED BY <3>2, <4>2 DEF Pending
    <3>5. \A u \in WellType : \A r \in Kept2(u) : r.x \in Reg /\ r.x # WELL_TYPE
      <4>1. \A u \in WellType : \A r \in Rows(u) : r.x \in Reg
        BY RowsAreRows DEF Row
      <4> QED BY <4>1, TablesApart DEF Kept2, Rows
    <3> SUFFICES ASSUME NEW w \in Well \ torn2
                 PROVE  /\ flash2'[w][WELL_TYPE] \in WellType
                        /\ \A r \in Kept2(flash2'[w][WELL_TYPE]) :
                             flash2'[w][r.x] # Blank \/ Pending(w, r)'
                        /\ \A x \in Reg : ram'[w].type[x] = "FLASH2" =>
                             flash2'[w][x] # Blank \/ \E u \in Thread : InRow(u, w, x)'
      BY <2>1 DEF Defaults2, Kept2
    <3>6. flash2[w][WELL_TYPE] \in WellType
      BY <2>1 DEF Defaults2
    <3>7. flash2'[w][WELL_TYPE] = IF w = v THEN op[t].v ELSE flash2[w][WELL_TYPE]
      BY <1>0, <3>1
    <3>8. ASSUME NEW r \in Kept2(flash2'[w][WELL_TYPE])
          PROVE  flash2'[w][r.x] # Blank \/ Pending(w, r)'
      <4>1. r.x \in Reg /\ r.x # WELL_TYPE
        BY <2>3, <3>5, <3>6, <3>7, <3>8
      <4>2. flash2'[w][r.x] = flash2[w][r.x]
        BY <3>1, <4>1
      <4>3. CASE r \in Kept2(flash2[w][WELL_TYPE])
        <5>1. flash2[w][r.x] # Blank \/ Pending(w, r)
          BY <2>1, <4>3 DEF Defaults2
        <5> QED BY <3>3, <4>2, <5>1
      <4>4. CASE r \notin Kept2(flash2[w][WELL_TYPE])
        <5>1. w = v /\ r \in Rows(op[t].v) /\ r.type = "FLASH2"
          BY <3>7, <3>8, <4>4 DEF Kept2
        <5>2. r \in ToSet(Map00[op[t].v])
          BY <4>4, <5>1 DEF Kept2, Rows
        <5> QED BY <3>4, <5>1, <5>2
      <4> QED BY <4>3, <4>4
    <3>9. ASSUME NEW x \in Reg, ram'[w].type[x] = "FLASH2"
          PROVE  flash2'[w][x] # Blank \/ \E u \in Thread : InRow(u, w, x)'
      <4>1. ram[w].type[x] = "FLASH2" /\ x # WELL_TYPE
        BY <2>1, <3>9 DEF MapOK
      <4>2. flash2[w][x] # Blank \/ \E u \in Thread : InRow(u, w, x)
        BY <2>1, <4>1 DEF Defaults2
      <4> QED BY <3>1, <3>3, <4>1, <4>2
    <3> QED BY <2>3, <3>6, <3>7, <3>8, <3>9
  <2> QED BY <2>2, <2>3
<1>14. ASSUME NEW t \in Thread, RemapRow(t) PROVE Defaults2'
  <2>1. /\ phase = "on" /\ UNCHANGED <<torn2, flash2, phase>> /\ Serve(t)
        /\ op[t].pc = "remap" /\ op[t].w \in Well /\ op[t] \in Op
    BY <1>14 DEF RemapRow, At, Serve, TypeOK, Op, flash, boot
  <2>2. /\ op[t].v \in WellType /\ op[t].k \in 1 .. Len(Map00[op[t].v]) + 1
        /\ Len(Map00[op[t].v]) \in Nat
    <3>1. op[t].v \in WellType /\ op[t].k \in 1 .. Len(Map00[op[t].v]) + 1
      BY <2>1 DEF OpOK, Legal
    <3>2. Map00[op[t].v] \in Seq(Row)
      BY <3>1, MapAssumption
    <3> QED BY <3>1, <3>2
  <2>3. CASE op[t].k <= Len(Map00[op[t].v])
    <3> DEFINE row == Map00[op[t].v][op[t].k]
    <3>1. /\ ram' = [ram EXCEPT ![op[t].w] = Install(ram[op[t].w], row)]
          /\ Goto(t, "remap_flash")
      BY <1>14, <2>3 DEF RemapRow
    <3>2. op'[t] = [op[t] EXCEPT !.pc = "remap_flash"] /\ \A u \in Thread \ {t} : op'[u] = op[u]
      BY <3>1, GotoType DEF TypeOK, Pc
    <3>3. /\ op'[t].pc = "remap_flash" /\ op'[t].w = op[t].w /\ op'[t].v = op[t].v
          /\ op'[t].k = op[t].k
      BY <2>1, <3>2 DEF Op
    <3>4. \A w \in Well : \A r : Pending(w, r) => Pending(w, r)'
      <4>1. ASSUME NEW u \in Thread, op[u].pc \in {"remap", "remap_flash"}
            PROVE  /\ op'[u].pc \in {"remap", "remap_flash"} /\ op'[u].w = op[u].w
                   /\ op'[u].v = op[u].v /\ op'[u].k = op[u].k
        BY <2>1, <3>2, <3>3, <4>1
      <4> QED BY <4>1 DEF Pending
    <3>5. \A w \in Well, x \in Reg, u \in Thread : InRow(u, w, x) => InRow(u, w, x)'
      BY <2>1, <3>2 DEF InRow
    <3>6. row \in Row
      BY <2>2, <2>3, RowsAreRows
    <3>8. \A w \in Well, x \in Reg : w = op[t].w /\ x = row.x /\ row.type = "FLASH2" => InRow(t, w, x)'
      BY <3>3 DEF InRow
    <3> HIDE DEF row
    <3>7. \A w \in Well, x \in Reg : ram'[w].type[x] = "FLASH2" =>
            ram[w].type[x] = "FLASH2" \/ (w = op[t].w /\ x = row.x /\ row.type = "FLASH2")
      <4>1. /\ \A w \in Well \ {op[t].w} : ram'[w] = ram[w]
            /\ ram'[op[t].w] = Install(ram[op[t].w], row)
        BY <2>1, <3>1 DEF TypeOK
      <4>2. ram[op[t].w] \in WellRam
        BY <2>1 DEF TypeOK
      <4>3. Install(ram[op[t].w], row).type = [ram[op[t].w].type EXCEPT ![row.x] = row.type]
        BY <3>6, <4>2, InstallFields
      <4>4. \A x \in Reg : x # row.x => ram'[op[t].w].type[x] = ram[op[t].w].type[x]
        BY <4>1, <4>2, <4>3 DEF WellRam
      <4>5. ram'[op[t].w].type[row.x] = row.type
        BY <3>6, <4>1, <4>2, <4>3 DEF WellRam, Row
      <4> QED BY <4>1, <4>4, <4>5
    <3> SUFFICES ASSUME NEW w \in Well \ torn2
                 PROVE  /\ flash2[w][WELL_TYPE] \in WellType
                        /\ \A r \in Kept2(flash2[w][WELL_TYPE]) : flash2[w][r.x] # Blank \/ Pending(w, r)'
                        /\ \A x \in Reg : ram'[w].type[x] = "FLASH2" =>
                             flash2[w][x] # Blank \/ \E u \in Thread : InRow(u, w, x)'
      BY <2>1 DEF Defaults2, Kept2
    <3>9. flash2[w][WELL_TYPE] \in WellType /\ \A r \in Kept2(flash2[w][WELL_TYPE]) : flash2[w][r.x] # Blank \/ Pending(w, r)'
      BY <2>1, <3>4 DEF Defaults2
    <3>10. ASSUME NEW x \in Reg, ram'[w].type[x] = "FLASH2"
           PROVE  flash2[w][x] # Blank \/ \E u \in Thread : InRow(u, w, x)'
      <4>1. CASE ram[w].type[x] = "FLASH2"
        <5>1. flash2[w][x] # Blank \/ \E u \in Thread : InRow(u, w, x)
          BY <2>1, <4>1 DEF Defaults2
        <5> QED BY <3>5, <5>1
      <4>2. CASE w = op[t].w /\ x = row.x /\ row.type = "FLASH2"
        BY <3>8, <4>2
      <4> QED BY <3>7, <3>10, <4>1, <4>2
    <3> QED BY <3>9, <3>10
  <2>4. CASE ~(op[t].k <= Len(Map00[op[t].v]))
    <3>1. UNCHANGED ram /\ Goto(t, "synced2")
      BY <1>14, <2>4 DEF RemapRow
    <3>2. \A u \in Thread \ {t} : op'[u] = op[u]
      BY <3>1, GotoType DEF TypeOK, Pc
    <3>3. ASSUME NEW w \in Well, NEW r, Pending(w, r) PROVE Pending(w, r)'
      <4>1. \A n : n \notin op[t].k .. Len(Map00[op[t].v])
        BY <2>2, <2>4
      <4> QED BY <3>2, <3>3, <4>1 DEF Pending
    <3>4. \A w \in Well, x \in Reg, u \in Thread : InRow(u, w, x) => InRow(u, w, x)'
      BY <2>1, <3>2 DEF InRow
    <3> QED BY <2>1, <3>1, <3>3, <3>4, Kept2OK
  <2> QED BY <2>3, <2>4
<1>15. ASSUME NEW t \in Thread, RemapDefault(t) PROVE Defaults2'
  <2>1. /\ phase = "on" /\ UNCHANGED <<torn2, ram, phase>> /\ Serve(t)
        /\ op[t].pc = "remap_flash" /\ op[t].w \in Well /\ op[t] \in Op
    BY <1>15 DEF RemapDefault, At, Serve, TypeOK, Op, boot
  <2>2. op[t].v \in WellType /\ op[t].k \in 1 .. Len(Map00[op[t].v])
    BY <2>1 DEF OpOK, Legal
  <2> DEFINE row == Map00[op[t].v][op[t].k]
             new2 == [f \in 1 .. 2 |-> f = 2]
  <2>3. row \in Row /\ row.x # WELL_TYPE /\ row.x \in Reg /\ row.dv # Blank
    BY <1>0, <2>2, RowsAreRows, TablesApart DEF Row
  <2>4. flash2' = [flash2 EXCEPT ![op[t].w] = Default2(flash2[op[t].w], row, new2)]
        /\ Become(t, [op[t] EXCEPT !.pc = "remap", !.k = op[t].k + 1])
    BY <1>15 DEF RemapDefault
  <2>5. new2[2] /\ ~new2[1]
    <3>1. 1 \in 1 .. 2 /\ 2 \in 1 .. 2 /\ 1 # 2
      OBVIOUS
    <3> QED BY <3>1, Zenon
  <2>6. /\ op'[t].pc = "remap" /\ op'[t].w = op[t].w /\ op'[t].v = op[t].v /\ op'[t].k = op[t].k + 1
        /\ \A u \in Thread \ {t} : op'[u] = op[u]
    BY <2>1, <2>4 DEF Become, TypeOK, Op
  <2> HIDE DEF row, new2
  <2>7. \A w \in Well, x \in Reg : flash2'[w][x] = flash2[w][x] \/ (x # WELL_TYPE /\ flash2'[w][x] # Blank)
    BY <2>1, <2>3, <2>4 DEF Default2, TypeOK, Contents1, Contents2
  <2>8. row.type = "FLASH2" => flash2'[op[t].w][row.x] # Blank
    BY <2>1, <2>3, <2>4, <2>5 DEF Default2, ToFlash1, ToFlash2, TypeOK, Contents1,
       Contents2
  <2>9. ASSUME NEW w \in Well, NEW r, Pending(w, r)
        PROVE  Pending(w, r)' \/ (w = op[t].w /\ r = row)
    <3>1. PICK u \in Thread : /\ op[u].w = w /\ op[u].pc \in {"remap", "remap_flash"}
                               /\ \E n \in op[u].k .. Len(Map00[op[u].v]) : Map00[op[u].v][n] = r
      BY <2>9 DEF Pending
    <3>2. CASE u # t
      BY <2>6, <3>1, <3>2 DEF Pending
    <3>3. CASE u = t
      <4>1. PICK n \in op[t].k .. Len(Map00[op[t].v]) : Map00[op[t].v][n] = r
        BY <3>1, <3>3
      <4>2. CASE n = op[t].k
        BY <3>1, <3>3, <4>1, <4>2 DEF row
      <4>3. CASE n # op[t].k
        <5>1. n \in (op[t].k + 1) .. Len(Map00[op[t].v])
          BY <2>2, <4>1, <4>3
        <5> QED BY <2>6, <3>1, <3>3, <4>1, <5>1 DEF Pending
      <4> QED BY <4>2, <4>3
    <3> QED BY <3>2, <3>3
  <2>10. ASSUME NEW w \in Well, NEW x \in Reg, NEW u \in Thread, InRow(u, w, x)
         PROVE  InRow(u, w, x)' \/ (w = op[t].w /\ x = row.x /\ row.type = "FLASH2")
    BY <2>6, <2>10 DEF InRow, row
  <2> SUFFICES ASSUME NEW w \in Well \ torn2
               PROVE  /\ flash2'[w][WELL_TYPE] \in WellType
                      /\ \A r \in Kept2(flash2'[w][WELL_TYPE]) : flash2'[w][r.x] # Blank \/ Pending(w, r)'
                      /\ \A x \in Reg : ram'[w].type[x] = "FLASH2" =>
                           flash2'[w][x] # Blank \/ \E u \in Thread : InRow(u, w, x)'
    BY <2>1 DEF Defaults2, Kept2
  <2>11. flash2'[w][WELL_TYPE] = flash2[w][WELL_TYPE] /\ flash2[w][WELL_TYPE] \in WellType
    BY <1>0, <2>1, <2>7 DEF Defaults2
  <2>12. ASSUME NEW r \in Kept2(flash2[w][WELL_TYPE])
         PROVE  flash2'[w][r.x] # Blank \/ Pending(w, r)'
    <3>1. flash2[w][r.x] # Blank \/ Pending(w, r)
      BY <2>1 DEF Defaults2
    <3>2. r.x \in Reg /\ r.type = "FLASH2"
      BY <2>11, RowsAreRows DEF Kept2, Row
    <3> QED BY <2>7, <2>8, <2>9, <3>1, <3>2
  <2>13. ASSUME NEW x \in Reg, ram'[w].type[x] = "FLASH2"
         PROVE  flash2'[w][x] # Blank \/ \E u \in Thread : InRow(u, w, x)'
    <3>1. flash2[w][x] # Blank \/ \E u \in Thread : InRow(u, w, x)
      BY <2>1, <2>13 DEF Defaults2
    <3> QED BY <2>7, <2>8, <2>10, <3>1
  <2> QED BY <2>11, <2>12, <2>13
<1>16. ASSUME NEW t \in Thread, SetRelay(t) PROVE Defaults2'
  <2>1. /\ phase = "on" /\ UNCHANGED <<torn2, phase>> /\ Serve(t)
        /\ op[t].pc \notin {"remap", "remap_flash"}
    BY <1>16, Moves DEF SetRelay, At, Serve, Syncing
  <2>2. \A w \in Well, x \in Reg : flash2'[w][x] = flash2[w][x] \/ (x # WELL_TYPE /\ flash2'[w][x] # Blank)
    BY <1>16 DEF SetRelay, flash
  <2>3. \A w \in Well : ram'[w].type = ram[w].type
    BY <1>16 DEF SetRelay
  <2> QED BY <1>0, <2>1, <2>2, <2>3, PendingKept, Kept2OK
<1>17. ASSUME NEW t \in Thread, StoreRelay(t) PROVE Defaults2'
  <2>1. /\ phase = "on" /\ UNCHANGED <<torn2, phase>> /\ Serve(t)
        /\ op[t].pc \notin {"remap", "remap_flash"}
    BY <1>17, Moves DEF StoreRelay, At, Serve, Syncing
  <2>2. \A w \in Well, x \in Reg : flash2'[w][x] = flash2[w][x] \/ (x # WELL_TYPE /\ flash2'[w][x] # Blank)
    <3>1. op[t].v \in Value
      BY DEF TypeOK, Op
    <3> QED BY <1>17, <1>0, <3>1 DEF StoreRelay, TypeOK, Contents2
  <2>3. \A w \in Well : ram'[w].type = ram[w].type
    <3>1. /\ ram \in [Well -> WellRam]
          /\ ram' = [ram EXCEPT ![op[t].w].x[DO0] = op[t].v]
      BY <1>17 DEF StoreRelay, TypeOK
    <3> QED BY <3>1 DEF WellRam
  <2> QED BY <1>0, <2>1, <2>2, <2>3, PendingKept, Kept2OK
<1>18. ASSUME NEW t \in Thread, PressButton(t) PROVE Defaults2'
  <2>1. /\ phase = "on" /\ UNCHANGED <<torn2, phase>> /\ Serve(t)
        /\ op[t].pc \notin {"remap", "remap_flash"}
    BY <1>18, Moves DEF PressButton, At, Serve, Syncing
  <2>2. \A w \in Well, x \in Reg : flash2'[w][x] = flash2[w][x] \/ (x # WELL_TYPE /\ flash2'[w][x] # Blank)
    BY <1>18 DEF PressButton, flash
  <2>3. \A w \in Well : ram'[w].type = ram[w].type
    BY <1>18 DEF PressButton
  <2> QED BY <1>0, <2>1, <2>2, <2>3, PendingKept, Kept2OK
<1>19. ASSUME NEW t \in Thread, ResetRow(t) PROVE Defaults2'
  <2>1. /\ phase = "on" /\ UNCHANGED <<torn2, flash2>> /\ Serve(t)
        /\ op[t].pc = "reset" /\ op[t] \in Op
    BY <1>19 DEF ResetRow, At, Serve, TypeOK
  <2>2. CASE op[t].k <= Len(Map1)
    <3> DEFINE row == Map1[op[t].k]
    <3>1. op[t].k \in 1 .. Len(Map1)
      BY <2>1, <2>2, MapAssumption DEF OpOK, Legal
    <3>2. row \in ToSet(Map1) /\ row \in Row
      BY <3>1, RowsAreRows
    <3>3. ram' = [ram EXCEPT ![1] = Install(ram[1], row)]
      BY <1>19, <2>2 DEF ResetRow
    <3> HIDE DEF row
    <3>4. \A w \in Well, x \in Reg : ram'[w].type[x] = "FLASH2" =>
            ram[w].type[x] = "FLASH2" \/ (w = 1 /\ x = row.x /\ row.type = "FLASH2")
      BY <1>0, <3>2, <3>3 DEF Install, TypeOK, WellRam, Row
    <3>5. 1 \notin torn2 /\ row.type = "FLASH2" => flash2[1][row.x] # Blank
      <4>1. ~Pending(1, row)
        BY <1>0, <3>2, PendingRow
      <4> QED BY <1>0, <2>1, <3>2, <4>1 DEF Defaults2, Kept2, Rows
    <3> QED BY <2>1, <3>4, <3>5, PendingKept, Kept2OK
  <2>3. CASE ~(op[t].k <= Len(Map1))
    <3>1. UNCHANGED ram
      BY <1>19, <2>3 DEF ResetRow
    <3> QED BY <2>1, <3>1, PendingKept, Kept2OK
  <2> QED BY <2>2, <2>3
<1>20. ASSUME NEW t \in Thread, NEW f \in 1 .. 2, Msync(t, f) PROVE Defaults2'
  <2>1. /\ phase = "on" /\ UNCHANGED <<torn2, phase>> /\ Serve(t)
        /\ op[t].pc \notin {"remap", "remap_flash"}
    BY <1>20, Moves DEF Msync, At, Serve, Syncing
  <2>2. \A w \in Well, x \in Reg : flash2'[w][x] = flash2[w][x] \/ (x # WELL_TYPE /\ flash2'[w][x] # Blank)
    BY <1>20 DEF Msync, flash
  <2>3. \A w \in Well : ram'[w].type = ram[w].type
    BY <1>20 DEF Msync
  <2> QED BY <1>0, <2>1, <2>2, <2>3, PendingKept, Kept2OK
<1>21. ASSUME NEW t \in Thread, NEW f \in 1 .. 2, MsyncFails(t, f) PROVE Defaults2'
  <2>1. /\ phase = "on" /\ UNCHANGED <<torn2, phase>> /\ Serve(t)
        /\ op[t].pc \notin {"remap", "remap_flash"}
    BY <1>21, Moves DEF MsyncFails, At, Serve, Syncing
  <2>2. \A w \in Well, x \in Reg : flash2'[w][x] = flash2[w][x] \/ (x # WELL_TYPE /\ flash2'[w][x] # Blank)
    BY <1>21 DEF MsyncFails, flash
  <2>3. \A w \in Well : ram'[w].type = ram[w].type
    BY <1>21 DEF MsyncFails
  <2> QED BY <1>0, <2>1, <2>2, <2>3, PendingKept, Kept2OK
<1>22. ASSUME NEW x \in Reg, WriteBack1(x) PROVE Defaults2'
  <2>1. UNCHANGED <<ram, flash2, phase, torn2, op>>
    BY <1>22 DEF WriteBack1, flash, boot
  <2> QED BY <2>1 DEF Defaults2, Pending, InRow
<1>23. ASSUME NEW w \in Well, NEW x \in Reg, WriteBack2(w, x) PROVE Defaults2'
  BY <1>23 DEF WriteBack2, Defaults2, Pending, InRow, flash, boot
<1>24. CASE PowerLoss
  BY <1>24 DEF PowerLoss, Defaults2
<1>25. CASE UNCHANGED vars
  BY <1>25 DEF vars, Defaults2, Pending, InRow, flash, boot
<1> QED BY <1>1, <1>2, <1>3, <1>4, <1>5, <1>6, <1>7, <1>8, <1>9, <1>10, <1>11, <1>12,
           <1>13, <1>14, <1>15, <1>16, <1>17, <1>18, <1>19, <1>20, <1>21, <1>22,
           <1>23, <1>24, <1>25 DEF Next, Serve

-----------------------------------------------------------------------------
(***************************************************************************)
(* Requests of a thread that is alone.                                     *)
(***************************************************************************)
\* What a step does to the alone of the threads: it ends that of the others.
LEMMA NotAlone ==
    ASSUME TypeOK, \A u \in Thread : AloneOK(u), NEW t \in Thread, Serve(t)
    PROVE  /\ \A u \in Thread \ {t} : ~op'[u].alone
           /\ op[t].pc # "idle" /\ op'[t].alone => op[t].alone /\ op'[t].pc # "idle"
           /\ op[t].pc = "idle" /\ op'[t].alone => \A u \in Thread \ {t} : op[u].pc = "idle"
<1>1. op[t] \in Op /\ op \in [Thread -> Op]
  BY DEF TypeOK
<1>2. CASE op[t].pc = "idle"
  <2>1. \E o \in Op : Begin(t, o)
    <3>1. ASSUME NEW q \in Requests, Request(t, q) PROVE \E o \in Op : Begin(t, o)
      BY <3>1, RequestLegal DEF Request
    <3>2. ASSUME PressButton(t) PROVE \E o \in Op : Begin(t, o)
      <4>1. [Idle EXCEPT !.pc = "reset"] \in Op
        BY IdleType, OpType, Zenon DEF Pc
      <4> QED BY <3>2, <4>1 DEF PressButton
    <3>3. (\E q \in Requests : Request(t, q)) \/ PressButton(t)
      BY <1>2, Moves DEF Serve, Msync, MsyncFails, Syncing
    <3> QED BY <3>1, <3>2, <3>3
  <2>2. /\ \A u \in Thread \ {t} : ~op'[u].alone
        /\ op'[t].alone => \A u \in Thread \ {t} : op[u].pc = "idle"
    <3>1. PICK o \in Op : Begin(t, o)
      BY <2>1
    <3>2. op'[t] = [o EXCEPT !.alone = \A v \in Thread \ {t} : op[v].pc = "idle"]
      BY <1>1, <3>1, BeginType
    <3>3. \A u \in Thread \ {t} : op[u] \in Op /\ op'[u] = [op[u] EXCEPT !.alone = FALSE]
      BY <1>1, <3>1, BeginType
    <3>4. \A u \in Thread \ {t} : ~op'[u].alone
      BY <3>3 DEF Op
    <3>5. op'[t].alone = \A v \in Thread \ {t} : op[v].pc = "idle"
      BY <3>2 DEF Op
    <3> QED BY <3>4, <3>5
  <2> QED BY <1>2, <2>2
<1>3. CASE op[t].pc # "idle"
  <2>1. \A u \in Thread \ {t} : ~op[u].alone
    BY <1>3 DEF AloneOK
  <2>2. \A u \in Thread \ {t} : ~op'[u].alone
    <3> SUFFICES ASSUME NEW u \in Thread \ {t} PROVE ~op'[u].alone
      OBVIOUS
    <3>1. op[u] \in Op /\ ~op[u].alone
      BY <1>1, <2>1
    <3> QED BY <3>1, OthersStay DEF Op
  <2>3. op'[t].alone => op[t].alone /\ op'[t].pc # "idle"
    <3>1. ~Idle.alone
      BY DEF Idle
    <3>2. ASSUME NEW c \in Pc, Goto(t, c) PROVE op'[t].alone = op[t].alone /\ op'[t].pc = c
      BY <1>1, <3>2, GotoType, GotoFields
    <3>3. ASSUME NEW f \in 1 .. 2, Msync(t, f) \/ MsyncFails(t, f)
          PROVE  op'[t].alone => op[t].alone /\ op'[t].pc # "idle"
      <4>1. PICK ok \in BOOLEAN : Syncing(t, f) /\ AfterSync(t, ok)
        BY <3>3 DEF Msync, MsyncFails
      <4>2. CASE op[t].pc = "reset_sync"
        BY <1>1, <3>1, <4>1, <4>2, AfterSyncType
      <4>3. CASE op[t].pc # "reset_sync"
        <5>1. \E c \in Pc \ {"idle"} : op'[t] = [op[t] EXCEPT !.pc = c]
          BY <1>1, <4>1, <4>3, AfterSyncType DEF Pc
        <5> QED BY <1>1, <5>1, GotoFields
      <4> QED BY <4>2, <4>3
    <3>4. CASE Reply(t)
      BY <1>1, <3>1, <3>4, BecomeType, IdleType DEF Reply
    <3>5. CASE WriteUnmapped(t)
      BY <1>1, <3>5, Moves DEF WriteUnmapped, Become, Op
    <3>6. CASE SkipReadOnly(t)
      BY <1>1, <3>6, Moves, Zenon DEF SkipReadOnly, Become, Op
    <3>7. CASE EnterWrite(t)
      BY <1>1, <3>7, Moves, Zenon DEF EnterWrite, Become, Op
    <3>8. CASE NoFlash(t) \/ StoreFlash1(t) \/ StoreFlash2(t) \/ StoreRam(t) \/ SetRelay(t) \/ StoreRelay(t)
      BY <3>2, <3>8 DEF NoFlash, StoreFlash1, StoreFlash2, StoreRam, SetRelay,
         StoreRelay, Pc
    <3>9. CASE ChangeWellType(t)
      <4>1. CASE op[t].v \in WellType
        <5>1. op'[t] = [op[t] EXCEPT !.pc = "remap", !.k = 1]
          BY <1>1, <3>9, <4>1 DEF ChangeWellType, Become
        <5> QED BY <1>1, <5>1 DEF Op
      <4>2. CASE op[t].v \notin WellType
        BY <3>2, <3>9, <4>2 DEF ChangeWellType, Pc
      <4> QED BY <4>1, <4>2
    <3>10. CASE RemapRow(t)
      BY <3>2, <3>10 DEF RemapRow, Pc
    <3>11. CASE RemapDefault(t)
      BY <1>1, <3>11, Moves DEF RemapDefault, Become, Op
    <3>12. CASE ResetRow(t)
      <4>1. CASE op[t].k <= Len(Map1)
        <5>1. op' = [op EXCEPT ![t] = [op[t] EXCEPT !.k = op[t].k + 1]]
          BY <3>12, <4>1 DEF ResetRow, Become
        <5>2. op'[t].pc \in {"reset", "reset_sync"}
          BY <3>12, Moves
        <5> QED BY <1>1, <5>1, <5>2 DEF Op
      <4>2. CASE ~(op[t].k <= Len(Map1))
        BY <3>2, <3>12, <4>2 DEF ResetRow, Pc
      <4> QED BY <4>1, <4>2
    <3>13. ASSUME PressButton(t) \/ \E q \in Requests : Request(t, q) PROVE FALSE
      BY <1>3, <3>13 DEF PressButton, Request, At
    <3> QED BY <3>3, <3>4, <3>5, <3>6, <3>7, <3>8, <3>9, <3>10, <3>11, <3>12,
               <3>13 DEF Serve
  <2> QED BY <1>3, <2>2, <2>3
<1> QED BY <1>2, <1>3

\* A thread that is alone stays alone until another one begins.
LEMMA AloneStep ==
    ASSUME TypeOK, \A t \in Thread : AloneOK(t), NEW t \in Thread, Serve(t)
    PROVE  \A u \in Thread : AloneOK(u)'
<1>1. \A u \in Thread \ {t} : op'[u].pc = op[u].pc /\ ~op'[u].alone
  BY OthersStayPc, NotAlone
<1>2. op'[t].alone => op'[t].pc # "idle" /\ \A u \in Thread \ {t} : op[u].pc = "idle"
  <2>1. CASE op[t].pc = "idle"
    BY <2>1, NotAlone, Moves DEF Serve, Msync, MsyncFails, Syncing
  <2>2. CASE op[t].pc # "idle"
    BY <2>2, NotAlone DEF AloneOK
  <2> QED BY <2>1, <2>2
<1> QED BY <1>1, <1>2 DEF AloneOK

\* A request stays the same while it is served.
SameRequest(t) ==
    op'[t].w = op[t].w /\ op'[t].j = op[t].j /\ op'[t].req = op[t].req
SameStore(t) ==
    op'[t].i = op[t].i /\ op'[t].b = op[t].b /\ op'[t].x = op[t].x /\ op'[t].v = op[t].v
\* Within a request the request stays, and within an address the register.
LEMMA Same ==
    ASSUME TypeOK, NEW t \in Thread, Serve(t), op[t].pc \in Requesting, op'[t].pc \in Requesting
    PROVE  SameRequest(t) /\ (op[t].pc # "addr" => SameStore(t))
<1>1. op[t] \in Op /\ op \in [Thread -> Op]
  BY DEF TypeOK
<1>2. ASSUME NEW c \in Pc, Goto(t, c) PROVE SameRequest(t) /\ SameStore(t)
  BY <1>1, <1>2, GotoType, GotoFields DEF SameRequest, SameStore
<1>3. ASSUME NEW f \in 1 .. 2, Msync(t, f) \/ MsyncFails(t, f)
      PROVE  SameRequest(t) /\ SameStore(t)
  <2>1. PICK ok \in BOOLEAN : Syncing(t, f) /\ AfterSync(t, ok)
    BY <1>3 DEF Msync, MsyncFails
  <2>2. op[t].pc # "reset_sync"
    BY DEF Requesting
  <2>3. \E c \in Pc : op'[t] = [op[t] EXCEPT !.pc = c]
    BY <1>1, <2>1, <2>2, AfterSyncType DEF Pc
  <2> QED BY <1>1, <2>3, GotoFields DEF SameRequest, SameStore
<1>4. CASE WriteUnmapped(t)
  BY <1>1, <1>4, Moves DEF WriteUnmapped, Become, Op, SameRequest
<1>5. CASE SkipReadOnly(t)
  BY <1>1, <1>5, Moves, Zenon DEF SkipReadOnly, Become, Op, SameRequest
<1>6. CASE EnterWrite(t)
  BY <1>1, <1>6, Moves, Zenon DEF EnterWrite, Become, Op, SameRequest
<1>7. CASE NoFlash(t) \/ StoreFlash1(t) \/ StoreFlash2(t) \/ StoreRam(t) \/ SetRelay(t) \/ StoreRelay(t) \/ RemapRow(t)
  BY <1>2, <1>7 DEF NoFlash, StoreFlash1, StoreFlash2, StoreRam, SetRelay,
     StoreRelay, RemapRow, Pc
<1>8. CASE ChangeWellType(t)
  <2>1. CASE op[t].v \in WellType
    <3>1. op' = [op EXCEPT ![t] = [op[t] EXCEPT !.pc = "remap", !.k = 1]]
      BY <1>8, <2>1 DEF ChangeWellType, Become
    <3> QED BY <1>1, <3>1 DEF Op, SameRequest, SameStore
  <2>2. CASE op[t].v \notin WellType
    BY <1>2, <1>8, <2>2 DEF ChangeWellType, Pc
  <2> QED BY <2>1, <2>2
<1>9. CASE RemapDefault(t)
  BY <1>1, <1>9 DEF RemapDefault, Become, Op, SameRequest, SameStore
<1>10. ASSUME Reply(t) \/ PressButton(t) \/ ResetRow(t) \/ \E q \in Requests : Request(t, q)
       PROVE  FALSE
  BY <1>10, Moves DEF Requesting
<1> QED BY <1>2, <1>3, <1>4, <1>5, <1>6, <1>7, <1>8, <1>9, <1>10 DEF Serve

\* The addresses of a request.
LEMMA Addresses ==
    ASSUME TypeOK, NEW t \in Thread, OpOK(t), op[t].pc \in Requesting
    PROVE  /\ First(t) \in Nat /\ op[t].i \in Int /\ op[t].j \in Int /\ Len(op[t].req) \in Nat
           /\ op[t].w \in Well /\ op[t].x \in Reg /\ op[t].v \in Value /\ op[t].b \in Nat
           /\ op[t].j - Len(op[t].req) = First(t)
           /\ First(t) <= op[t].i /\ op[t].i <= op[t].j
           /\ \A n \in 1 .. Len(op[t].req) : First(t) + n - 1 \in Addr
           /\ op[t].pc # "addr" => op[t].i - First(t) \in 1 .. Len(op[t].req)
<1>1. op[t].i \in Int /\ op[t].j \in Int /\ Len(op[t].req) \in Nat
      /\ op[t].w \in Well /\ op[t].x \in Reg /\ op[t].v \in Value /\ op[t].b \in Nat
  <2>1. op[t] \in Op
    BY DEF TypeOK
  <2>2. \A a \in Addr : a + 1 \in Int
    BY MapAssumption
  <2> QED BY <2>1, <2>2 DEF Op
<1>2. op[t].j - Len(op[t].req) = First(t)
  BY DEF First, Start
<1>3. /\ First(t) \in Nat /\ First(t) <= op[t].i /\ op[t].i <= op[t].j
      /\ First(t) .. (op[t].j - 1) \subseteq Addr
      /\ op[t].pc # "addr" => First(t) < op[t].i
  BY DEF OpOK, Legal, First
<1>4. \A n \in 1 .. Len(op[t].req) : First(t) + n - 1 \in First(t) .. (op[t].j - 1)
  BY <1>1, <1>2, <1>3
<1>5. op[t].pc # "addr" => op[t].i - First(t) \in 1 .. Len(op[t].req)
  <2>1. \A i, j, n, m \in Int : j - n = m /\ m < i /\ i <= j => i - m \in 1 .. n
    OBVIOUS
  <2>2. /\ op[t].i \in Int /\ op[t].j \in Int /\ Len(op[t].req) \in Int /\ First(t) \in Int
        /\ op[t].j - Len(op[t].req) = First(t) /\ op[t].i <= op[t].j
    BY <1>1, <1>2, <1>3
  <2> QED BY <1>3, <2>1, <2>2
<1> QED BY <1>1, <1>2, <1>3, <1>4, <1>5

\* The address of the n-th value of a request.
LEMMA NamedAt ==
    ASSUME TypeOK, NEW t \in Thread, OpOK(t), op[t].pc \in Requesting
    PROVE  /\ \A n : Named(t, n) = ram[op[t].w].y[First(t) + n - 1]
           /\ Named(t, op[t].i - First(t)) = ram[op[t].w].y[op[t].i - 1]
           /\ SameRequest(t) => \A n : Named(t, n)' = ram'[op[t].w].y[First(t) + n - 1]
           /\ SameRequest(t) => First(t)' = First(t)
<1>1. First(t) \in Nat /\ op[t].i \in Int /\ op[t].j - Len(op[t].req) = First(t)
  BY Addresses
<1>2. \A n : Named(t, n) = ram[op[t].w].y[First(t) + n - 1]
  BY <1>1 DEF Named
<1>3. First(t) + (op[t].i - First(t)) - 1 = op[t].i - 1
  BY <1>1
<1>4. SameRequest(t) => First(t)' = First(t)
  BY DEF SameRequest, First, Start
<1>5. SameRequest(t) => \A n : Named(t, n)' = ram'[op[t].w].y[First(t) + n - 1]
  BY <1>1 DEF Named, SameRequest
<1> QED BY <1>2, <1>3, <1>4, <1>5

\* A register that can be written has one address.
LEMMA OneAddress ==
    ASSUME MapOK, NEW w \in Well, NEW a \in Addr, NEW b \in Addr, NEW x \in Reg,
           ram[w].y[a] = [reg |-> x], ram[w].y[b] = [reg |-> x], ram[w].rw[x] = "RW"
    PROVE  a = b
<1>1. PICK r \in AllRows : r.x = x /\ r.y = a
  BY DEF MapOK, Maps
<1>2. PICK s \in AllRows : s.x = x /\ s.y = b
  BY DEF MapOK, Maps
<1>3. PICK q \in AllRows : q.x = x /\ q.rw = "RW"
  BY DEF MapOK, Maps
<1> QED BY <1>1, <1>2, <1>3, TablesAssumption

\* What a register reads depends on nothing else than the register.
LEMMA ReadOther ==
    ASSUME NEW w \in Well, NEW y \in Reg, ram'[w].type = ram[w].type,
           ram'[w].x[y] = ram[w].x[y], flash1'[y] = flash1[y],
           \A v \in Well : flash2'[v][y] = flash2[v][y]
    PROVE  Read(w, y)' = Read(w, y)
BY MapAssumption DEF Read

\* The register being written is known at every step.
LEMMA CurrentStep ==
    ASSUME TypeOK, TypeOK', MapOK, \A u \in Thread : OpOK(u) /\ AloneOK(u) /\ Current(u),
           NEW t \in Thread, Serve(t)
    PROVE  \A u \in Thread : Current(u)'
<1> SUFFICES ASSUME op'[t].alone, op'[t].pc \in Requesting \ {"addr"}
             PROVE  /\ Named(t, op[t].i - First(t))' = [reg |-> op'[t].x]
                    /\ op'[t].pc = "relay" => Type(t)' = "SYS"
  BY NotAlone DEF Current
<1>1. op[t].pc \in Requesting /\ op[t].alone
  <2>1. op[t].pc = "idle" => op'[t].pc \in {"addr", "reset"}
    BY Moves, AfterSyncMoves DEF Serve
  <2>2. op[t].pc \in {"reset", "reset_sync"} => op'[t].pc \in {"reset", "reset_sync", "idle"}
    BY Moves, AfterSyncMoves DEF Serve
  <2>3. op[t].pc \in Pc
    BY DEF TypeOK, Op
  <2> QED BY <2>1, <2>2, <2>3, NotAlone DEF Requesting
<1>2. SameRequest(t) /\ (op[t].pc # "addr" => SameStore(t))
  BY <1>1, Same
<1>3. CASE EnterWrite(t)
  <2>1. op[t].pc = "addr" /\ op[t].i < op[t].j
    BY <1>3 DEF EnterWrite, At
  <2>2. op[t].i \in Addr /\ op[t].w \in Well /\ op[t].i \in Int /\ First(t) \in Nat
    BY <1>1, <2>1, InRequest, Addresses
  <2> DEFINE y == ram[op[t].w].y[op[t].i]
  <2>3. y = [reg |-> y.reg]
    <3>1. ram \in [Well -> WellRam] /\ "reg" \in DOMAIN y
      BY <1>3 DEF EnterWrite, TypeOK
    <3>2. y \in [reg : Reg] \cup [val : Stored]
      BY <2>2, <3>1 DEF WellRam, Target
    <3> HIDE DEF y
    <3> QED BY <3>1, <3>2
  <2>4. op'[t].x = y.reg /\ op'[t].i = op[t].i + 1 /\ op'[t].pc = "reg" /\ ram' = ram
    <3>1. op[t] \in Op /\ op \in [Thread -> Op]
      BY DEF TypeOK
    <3> QED BY <1>3, <3>1 DEF EnterWrite, Become, Op
  <2> HIDE DEF y
  <2>5. First(t) + ((op[t].i + 1) - First(t)) - 1 = op[t].i
    BY <2>2
  <2>6. Named(t, op[t].i - First(t))' = ram'[op[t].w].y[op[t].i]
    <3>1. (op[t].i - First(t))' = (op[t].i + 1) - First(t)
      BY <1>1, <1>2, <2>4, NamedAt
    <3>2. \A n : Named(t, n)' = ram'[op[t].w].y[First(t) + n - 1]
      BY <1>1, <1>2, NamedAt
    <3>3. Named(t, op[t].i - First(t))' = ram'[op[t].w].y[First(t) + ((op[t].i + 1) - First(t)) - 1]
      BY <1>2, <3>1, <3>2 DEF Named, SameRequest
    <3> QED BY <2>5, <3>3
  <2> QED BY <2>3, <2>4, <2>6 DEF y
<1>4. CASE op[t].pc = "addr" /\ ~EnterWrite(t)
  <2>1. op'[t].pc \in {"addr", "idle"}
    BY <1>4, Moves, AfterSyncMoves DEF Serve
  <2> QED BY <2>1 DEF Requesting
<1>5. CASE op[t].pc # "addr"
  <2>1. Named(t, op[t].i - First(t)) = [reg |-> op[t].x]
    BY <1>1, <1>5 DEF Current
  <2>2. /\ op[t].w \in Well /\ op[t].i \in Int /\ First(t) \in Nat /\ op[t].x \in Reg
        /\ op[t].i - 1 \in Addr
    <3>1. /\ op[t].i - First(t) \in 1 .. Len(op[t].req) /\ First(t) \in Nat /\ op[t].i \in Int
          /\ \A n \in 1 .. Len(op[t].req) : First(t) + n - 1 \in Addr
      BY <1>1, <1>5, Addresses
    <3>2. First(t) + (op[t].i - First(t)) - 1 = op[t].i - 1
      BY <3>1
    <3>3. First(t) + (op[t].i - First(t)) - 1 \in Addr
      BY <3>1
    <3> QED BY <1>1, <3>1, <3>2, <3>3, Addresses
  <2>3. ram[op[t].w].y[op[t].i - 1] = [reg |-> op[t].x]
    BY <1>1, <2>1, NamedAt
  <2>4. SameStore(t) /\ First(t)' = First(t)
    BY <1>1, <1>2, <1>5, NamedAt
  <2>5. Named(t, op[t].i - First(t))' = ram'[op[t].w].y[op[t].i - 1]
    <3>1. \A n : Named(t, n)' = ram'[op[t].w].y[First(t) + n - 1]
      BY <1>1, <1>2, NamedAt
    <3>2. Named(t, op[t].i - First(t))' = ram'[op[t].w].y[First(t) + (op[t].i - First(t)) - 1]
      BY <1>2, <2>4, <3>1 DEF Named, SameRequest, SameStore
    <3>3. First(t) + (op[t].i - First(t)) - 1 = op[t].i - 1
      BY <2>2
    <3> QED BY <3>2, <3>3
  <2>6. ram'[op[t].w].y[op[t].i - 1] = ram[op[t].w].y[op[t].i - 1]
    <3>1. CASE RemapRow(t)
      <4>1. /\ op[t].x = WELL_TYPE /\ op[t].v \in WellType
            /\ op[t].k \in 1 .. Len(Map00[op[t].v]) + 1
        BY <3>1 DEF RemapRow, At, OpOK, Legal
      <4>2. CASE op[t].k <= Len(Map00[op[t].v])
        <5> DEFINE row == Map00[op[t].v][op[t].k]
        <5>1. row \in ToSet(Map00[op[t].v])
          <6>1. Len(Map00[op[t].v]) \in Nat
            BY <4>1, MapAssumption
          <6>2. op[t].k \in 1 .. Len(Map00[op[t].v])
            BY <4>1, <4>2, <6>1
          <6> QED BY <4>1, <6>2, RowsAreRows
        <5>2. PICK r \in AllRows : r.x = WELL_TYPE /\ r.y = op[t].i - 1
          BY <2>2, <2>3, <4>1 DEF MapOK, Maps
        <5>3. r \in ToSet(Map1)
          BY <5>2, TablesApart DEF AllRows, Rows
        <5>4. row \in Rows(op[t].v) /\ r \in Rows(op[t].v) /\ row # r
          BY <4>1, <5>1, <5>3, TablesAssumption DEF Rows
        <5>5. row.y # op[t].i - 1
          BY <4>1, <5>2, <5>4, TablesAssumption
        <5>6. ram' = [ram EXCEPT ![op[t].w] = Install(ram[op[t].w], row)]
          BY <3>1, <4>2 DEF RemapRow
        <5>7. row \in Row
          BY <4>1, <5>1, RowsAreRows
        <5>8. ram[op[t].w] \in WellRam /\ ram'[op[t].w] = Install(ram[op[t].w], row)
          BY <2>2, <5>6 DEF TypeOK
        <5>9. Install(ram[op[t].w], row).y = [ram[op[t].w].y EXCEPT ![row.y] = [reg |-> row.x]]
          BY <5>8 DEF Install, WellRam
        <5> HIDE DEF row
        <5> QED BY <2>2, <5>5, <5>8, <5>9 DEF WellRam
      <4>3. CASE ~(op[t].k <= Len(Map00[op[t].v]))
        BY <3>1, <4>3 DEF RemapRow
      <4> QED BY <4>2, <4>3
    <3>2. CASE StoreRam(t)
      <4>1. /\ ram \in [Well -> WellRam]
            /\ ram' = [ram EXCEPT ![op[t].w].x[op[t].x] = op[t].v]
        BY <3>2 DEF StoreRam, TypeOK
      <4> QED BY <2>2, <4>1 DEF WellRam
    <3>3. CASE StoreRelay(t)
      <4>1. /\ ram \in [Well -> WellRam]
            /\ ram' = [ram EXCEPT ![op[t].w].x[DO0] = op[t].v]
        BY <3>3 DEF StoreRelay, TypeOK
      <4> QED BY <2>2, <4>1 DEF WellRam
    <3>4. CASE ram' = ram
      BY <3>4
    <3> QED BY <1>1, <1>5, <3>1, <3>2, <3>3, <3>4, Moves, Zenon DEF Serve, NoFlash,
               StoreFlash1, StoreFlash2,
               ChangeWellType, RemapDefault, SetRelay, Msync, MsyncFails, Requesting
  <2>7. op'[t].pc = "relay" => Type(t)' = "SYS"
    <3> SUFFICES ASSUME op'[t].pc = "relay" PROVE Type(t)' = "SYS"
      OBVIOUS
    <3>1. SetRelay(t)
      BY <1>1, <1>5, Moves, AfterSyncMoves DEF Serve, Requesting
    <3> QED BY <1>2, <2>4, <3>1 DEF SetRelay, HasFunction, Type, SameRequest, SameStore
  <2> QED BY <2>3, <2>4, <2>5, <2>6, <2>7 DEF SameStore
<1> QED BY <1>3, <1>4, <1>5

\* A step between two addresses: stores go to the register being written.
LEMMA StoreStep ==
    ASSUME TypeOK, MapOK, NEW t \in Thread, OpOK(t), Current(t), Progress(t), op[t].alone,
           op[t].pc \in Requesting \ {"addr"}, SameRequest(t), SameStore(t),
           ram'[op[t].w].y = ram[op[t].w].y, ram'[op[t].w].rw = ram[op[t].w].rw,
           ram'[op[t].w].type = ram[op[t].w].type,
           \A y \in Reg \ {op[t].x} :
               /\ ram'[op[t].w].x[y] = ram[op[t].w].x[y] /\ flash1'[y] = flash1[y]
               /\ \A v \in Well : flash2'[v][y] = flash2[v][y],
           op[t].x # WELL_TYPE /\ (InHand(t) \/ Read(op[t].w, op[t].x) = op[t].v) =>
               InHand(t)' \/ (Read(op[t].w, op[t].x) = op[t].v)'
    PROVE  Progress(t)'
<1>1. /\ First(t) \in Nat /\ op[t].i \in Int /\ op[t].w \in Well /\ op[t].x \in Reg
      /\ op[t].i - First(t) \in 1 .. Len(op[t].req) /\ Len(op[t].req) \in Nat
      /\ \A n \in 1 .. Len(op[t].req) : First(t) + n - 1 \in Addr
  BY Addresses
<1>2. PICK w \in Well, x \in Reg, v \in Value, F \in Nat, c \in 1 .. Len(op[t].req) :
        /\ w = op[t].w /\ w = op'[t].w /\ x = op[t].x /\ x = op'[t].x /\ v = op[t].v /\ v = op'[t].v
        /\ F = First(t) /\ F = First(t)' /\ c = op[t].i - F /\ c = op'[t].i - F
  <2>1. First(t)' = First(t)
    BY NamedAt
  <2>2. /\ op'[t].w = op[t].w /\ op'[t].x = op[t].x /\ op'[t].v = op[t].v /\ op'[t].i = op[t].i
    BY DEF SameRequest, SameStore
  <2>3. op[t].v \in Value
    BY DEF TypeOK, Op
  <2> QED BY <1>1, <2>1, <2>2, <2>3
<1>3. c \in Int /\ op'[t].req = op[t].req /\ op'[t].j = op[t].j /\ op'[t].b = op[t].b
  BY <1>1, <1>2 DEF SameRequest, SameStore
<1>4. \A n : Named(t, n)' = Named(t, n) /\ Named(t, n) = ram[w].y[F + n - 1]
  <2>1. op[t].pc \in Requesting /\ ram'[w].y = ram[w].y
    BY <1>2
  <2>2. \A n : Named(t, n) = ram[op[t].w].y[First(t) + n - 1]
    BY <2>1, NamedAt
  <2>3. \A n : Named(t, n)' = ram'[op[t].w].y[First(t) + n - 1]
    BY <2>1, NamedAt
  <2>4. w = op[t].w /\ F = First(t)
    BY <1>2
  <2> TAKE n
  <2>5. Named(t, n) = ram[w].y[F + n - 1]
    BY <2>2, <2>4
  <2>6. Named(t, n)' = ram'[w].y[F + n - 1]
    BY <2>3, <2>4
  <2> QED BY <2>1, <2>5, <2>6
<1> SUFFICES ASSUME AllWritable(t)'
             PROVE  /\ op'[t].b = op'[t].i - First(t)' + 1
                    /\ op'[t].pc # "addr" => op'[t].v = op'[t].req[op'[t].i - First(t)']
                    /\ \A n \in 1 .. op'[t].i - First(t)' :
                          Landed(t, n)' \/ (n = op'[t].i - First(t)' /\ InHand(t)')
  BY DEF Progress
<1>5. AllWritable(t)
  <2>1. op'[t].w = op[t].w /\ ram'[op[t].w].rw = ram[op[t].w].rw
    BY <1>2
  <2>2. \A n : Writable(t, n)' <=> Writable(t, n)
    BY <1>4, <2>1 DEF Writable
  <2> QED BY <1>3, <2>2 DEF AllWritable
<1>6. /\ op[t].b = op[t].i - First(t) + 1 /\ v = op[t].req[c]
      /\ \A n \in 1 .. c : Landed(t, n) \/ (n = c /\ InHand(t))
  BY <1>2, <1>5 DEF Progress
<1>7. ram[w].y[F + c - 1] = [reg |-> x]
  <2>1. Named(t, c) = [reg |-> x]
    BY <1>2 DEF Current
  <2> QED BY <1>4, <2>1
<1>8. x # WELL_TYPE /\ ram[w].rw[x] = "RW"
  <2>1. Writable(t, c)
    BY <1>2, <1>5 DEF AllWritable
  <2>2. Named(t, c) = [reg |-> x]
    BY <1>4, <1>7
  <2>3. "reg" \in DOMAIN Named(t, c) /\ Named(t, c).reg = x
    BY <2>2
  <2>4. x # WELL_TYPE /\ ram[op[t].w].rw[x] = "RW"
    BY <2>1, <2>3 DEF Writable
  <2> QED BY <1>2, <2>4
<1>9. /\ \A n, y : ram[w].y[F + n - 1] = [reg |-> y] =>
             /\ Landed(t, n) <=> Read(w, y) = op[t].req[n]
             /\ Landed(t, n)' <=> Read(w, y)' = op[t].req[n]
      /\ \A n : "reg" \notin DOMAIN ram[w].y[F + n - 1] => (Landed(t, n)' <=> Landed(t, n))
  <2>1. op[t].j - Len(op[t].req) = F /\ op'[t].j - Len(op'[t].req) = F
    BY <1>2, <1>3 DEF First, Start
  <2>2. ram'[w].y = ram[w].y
    BY <1>2
  <2>3. \A n : /\ Landed(t, n) <=> ReadAddr(w, F + n - 1) = op[t].req[n]
               /\ Landed(t, n)' <=> ReadAddr(w, F + n - 1)' = op[t].req[n]
    <3>1. w = op[t].w /\ w = op'[t].w /\ op'[t].req = op[t].req
      BY <1>2, <1>3
    <3> QED BY <2>1, <3>1 DEF Landed
  <2>4. \A n, y : ram[w].y[F + n - 1] = [reg |-> y] =>
           ReadAddr(w, F + n - 1) = Read(w, y) /\ ReadAddr(w, F + n - 1)' = Read(w, y)'
    BY <2>2 DEF ReadAddr
  <2>5. \A n : "reg" \notin DOMAIN ram[w].y[F + n - 1] => ReadAddr(w, F + n - 1)' = ReadAddr(w, F + n - 1)
    BY <2>2 DEF ReadAddr
  <2>6. \A n, y : ram[w].y[F + n - 1] = [reg |-> y] =>
           /\ Landed(t, n) <=> Read(w, y) = op[t].req[n]
           /\ Landed(t, n)' <=> Read(w, y)' = op[t].req[n]
    <3> TAKE n, y
    <3> HAVE ram[w].y[F + n - 1] = [reg |-> y]
    <3>1. ReadAddr(w, F + n - 1) = Read(w, y) /\ ReadAddr(w, F + n - 1)' = Read(w, y)'
      BY <2>4
    <3> QED BY <2>3, <3>1
  <2>7. \A n : "reg" \notin DOMAIN ram[w].y[F + n - 1] => (Landed(t, n)' <=> Landed(t, n))
    BY <2>3, <2>5
  <2> QED BY <2>6, <2>7
<1>10. \A y \in Reg \ {x} : Read(w, y)' = Read(w, y)
  BY <1>2, ReadOther
<1>11. ASSUME NEW n \in 1 .. c, n # c PROVE Landed(t, n)'
  <2>1. Landed(t, n)
    BY <1>6, <1>11
  <2>2. F + n - 1 \in Addr /\ F + c - 1 \in Addr /\ F + n - 1 # F + c - 1
    <3>1. n \in 1 .. Len(op[t].req)
      BY <1>1, <1>2
    <3>2. F + n - 1 # F + c - 1
      BY <1>3, <1>11
    <3> QED BY <1>1, <1>2, <3>1, <3>2
  <2>3. CASE "reg" \in DOMAIN ram[w].y[F + n - 1]
    <3>1. PICK y \in Reg : ram[w].y[F + n - 1] = [reg |-> y]
      <4>1. ram \in [Well -> WellRam] /\ F + n - 1 \in Addr
        BY <2>2 DEF TypeOK
      <4>2. /\ ram[w].y[F + n - 1].reg \in Reg
            /\ ram[w].y[F + n - 1] = [reg |-> ram[w].y[F + n - 1].reg]
        BY <2>3, <4>1, Targets
      <4> QED BY <4>2
    <3>2. y # x
      <4> SUFFICES ASSUME y = x PROVE FALSE
        OBVIOUS
      <4>1. /\ ram[w].y[F + n - 1] = [reg |-> x] /\ ram[w].y[F + c - 1] = [reg |-> x]
            /\ ram[w].rw[x] = "RW"
        BY <1>7, <1>8, <3>1
      <4>2. F + n - 1 = F + c - 1
        BY <2>2, <4>1, OneAddress
      <4> QED BY <2>2, <4>2
    <3>3. Read(w, y)' = Read(w, y)
      BY <1>10, <3>2
    <3>4. /\ Landed(t, n) <=> Read(w, y) = op[t].req[n]
          /\ Landed(t, n)' <=> Read(w, y)' = op[t].req[n]
      BY <1>9, <3>1
    <3> QED BY <2>1, <3>3, <3>4
  <2>4. CASE "reg" \notin DOMAIN ram[w].y[F + n - 1]
    BY <1>9, <2>1, <2>4
  <2> QED BY <2>3, <2>4
<1>12. Landed(t, c)' \/ InHand(t)'
  <2>1. (Landed(t, c) <=> Read(w, x) = v) /\ (Landed(t, c)' <=> Read(w, x)' = v)
    BY <1>6, <1>7, <1>9
  <2>2. InHand(t) \/ Read(w, x) = v
    <3>1. Landed(t, c) \/ InHand(t)
      <4>1. c \in 1 .. c
        BY <1>1, <1>2
      <4> QED BY <1>6, <4>1
    <3> QED BY <2>1, <3>1
  <2>3. InHand(t)' \/ Read(w, x)' = v
    BY <1>2, <1>8, <2>2
  <2> QED BY <2>1, <2>3
<1>13. \A n \in 1 .. c : Landed(t, n)' \/ (n = c /\ InHand(t)')
  BY <1>11, <1>12
<1>14. op'[t].i = op[t].i /\ F = First(t)' /\ F = First(t) /\ c = op'[t].i - F
       /\ op'[t].v = v /\ v = op'[t].req[c] /\ op'[t].b = op[t].i - F + 1
  <2>1. op'[t].i = op[t].i /\ op'[t].v = op[t].v
    BY DEF SameRequest, SameStore
  <2> QED BY <1>2, <1>3, <1>6, <2>1
<1> QED BY <1>13, <1>14

\* A request that gives a well its type is not one whose registers all land.
LEMMA TypeChange ==
    ASSUME TypeOK, NEW t \in Thread, OpOK(t), op[t].pc \in Requesting \ {"addr"},
           SameRequest(t), SameStore(t), op[t].x = WELL_TYPE,
           op'[t].alone, op'[t].pc \in Requesting \ {"addr"}, Current(t)'
    PROVE  Progress(t)'
<1>1. op[t].i - First(t) \in 1 .. Len(op[t].req)
  BY Addresses
<1>2. PICK c \in 1 .. Len(op[t].req) : c = op[t].i - First(t) /\ c = op'[t].i - First(t)'
  BY <1>1, NamedAt DEF SameStore
<1>3. Named(t, c)' = [reg |-> WELL_TYPE]
  BY <1>2 DEF Current, SameStore
<1>4. ~Writable(t, c)'
  BY <1>3 DEF Writable
<1> QED BY <1>2, <1>4 DEF Progress, AllWritable, SameRequest

\* From an address to the next: what both cases have in common.
LEMMA NextAddress ==
    ASSUME TypeOK, NEW t \in Thread, OpOK(t), op[t].pc = "addr", op[t].i < op[t].j,
           SameRequest(t), op'[t].i = op[t].i + 1
    PROVE  \E w \in Well, F \in Nat, m \in 1 .. Len(op[t].req) :
             /\ w = op[t].w /\ w = op'[t].w /\ F = First(t) /\ F = First(t)'
             /\ m = op[t].i - F + 1 /\ op[t].i = F + m - 1 /\ m = op'[t].i - F
             /\ op'[t].req = op[t].req /\ op[t].i \in Int
             /\ op[t].j - Len(op[t].req) = F /\ op'[t].j - Len(op'[t].req) = F
             /\ \A n : Named(t, n) = ram[w].y[F + n - 1]
             /\ \A n : Named(t, n)' = ram'[w].y[F + n - 1]
             /\ \A n \in 1 .. Len(op[t].req) : F + n - 1 \in Addr /\ (F + n - 1 = op[t].i => n = m)
<1>1. op[t].pc \in Requesting
  BY DEF Requesting, Pc
<1>2. /\ First(t) \in Nat /\ op[t].i \in Int /\ op[t].j \in Int /\ op[t].w \in Well
      /\ Len(op[t].req) \in Nat /\ op[t].j - Len(op[t].req) = First(t) /\ First(t) <= op[t].i
      /\ \A n \in 1 .. Len(op[t].req) : First(t) + n - 1 \in Addr
  BY <1>1, Addresses
<1>3. op[t].i - First(t) + 1 \in 1 .. Len(op[t].req)
  <2>1. \A F, i, j, n \in Int : j - n = F /\ F <= i /\ i < j => i - F + 1 \in 1 .. n
    OBVIOUS
  <2>2. /\ First(t) \in Int /\ op[t].i \in Int /\ op[t].j \in Int /\ Len(op[t].req) \in Int
        /\ op[t].j - Len(op[t].req) = First(t) /\ First(t) <= op[t].i /\ op[t].i < op[t].j
    BY <1>2
  <2> QED BY <2>1, <2>2
<1>4. /\ op[t].i = First(t) + (op[t].i - First(t) + 1) - 1
      /\ op'[t].i - First(t) = op[t].i - First(t) + 1
      /\ \A n \in 1 .. Len(op[t].req) : First(t) + n - 1 = op[t].i => n = op[t].i - First(t) + 1
  BY <1>2
<1>5. /\ First(t)' = First(t) /\ op'[t].w = op[t].w /\ op'[t].j = op[t].j
      /\ op'[t].req = op[t].req
  BY <1>1, NamedAt DEF SameRequest
<1>6. /\ \A n : Named(t, n) = ram[op[t].w].y[First(t) + n - 1]
      /\ \A n : Named(t, n)' = ram'[op[t].w].y[First(t) + n - 1]
  BY <1>1, NamedAt
<1>7. PICK w \in Well, F \in Nat, m \in 1 .. Len(op[t].req) :
        w = op[t].w /\ F = First(t) /\ m = op[t].i - First(t) + 1
  BY <1>2, <1>3
<1>8. /\ m = op[t].i - F + 1 /\ op[t].i = F + m - 1 /\ m = op'[t].i - F
      /\ \A n \in 1 .. Len(op[t].req) : F + n - 1 \in Addr /\ (F + n - 1 = op[t].i => n = m)
  BY <1>2, <1>4, <1>7
<1>9. /\ \A n : Named(t, n) = ram[w].y[F + n - 1]
      /\ \A n : Named(t, n)' = ram'[w].y[F + n - 1]
  BY <1>6, <1>7
<1>10. /\ w = op[t].w /\ w = op'[t].w /\ F = First(t) /\ F = First(t)'
       /\ op'[t].req = op[t].req /\ op[t].i \in Int
       /\ op[t].j - Len(op[t].req) = F /\ op'[t].j - Len(op'[t].req) = F
  BY <1>2, <1>5, <1>7
<1> QED BY <1>8, <1>9, <1>10

\* What a request has come to.
ProgressAt(t) ==
    /\ op[t].b = op[t].i - First(t) + 1
    /\ op[t].pc # "addr" => op[t].v = op[t].req[op[t].i - First(t)]
    /\ \A n \in 1 .. op[t].i - First(t) :
          Landed(t, n) \/ (n = op[t].i - First(t) /\ InHand(t))

\* Taking the next value for a register keeps the progress of the request.
LEMMA EnterStep ==
    ASSUME TypeOK, NEW t \in Thread, OpOK(t), Progress(t), op[t].alone, EnterWrite(t), SameRequest(t)
    PROVE  Progress(t)'
<1>1. /\ op[t].pc = "addr" /\ op[t].i < op[t].j /\ UNCHANGED <<ram, flash>>
      /\ op'[t].i = op[t].i + 1 /\ op'[t].b = op[t].b + 1 /\ op'[t].v = op[t].req[op[t].b]
      /\ op'[t].pc = "reg"
  <2>1. op[t] \in Op /\ op \in [Thread -> Op]
    BY DEF TypeOK
  <2> QED BY <2>1 DEF EnterWrite, At, Become, Op
<1>2. PICK w \in Well, F \in Nat, m \in 1 .. Len(op[t].req) :
        /\ w = op[t].w /\ w = op'[t].w /\ F = First(t) /\ F = First(t)'
        /\ m = op[t].i - F + 1 /\ op[t].i = F + m - 1 /\ m = op'[t].i - F
        /\ op'[t].req = op[t].req /\ op[t].i \in Int
        /\ op[t].j - Len(op[t].req) = F /\ op'[t].j - Len(op'[t].req) = F
        /\ \A n : Named(t, n) = ram[w].y[F + n - 1]
        /\ \A n : Named(t, n)' = ram'[w].y[F + n - 1]
        /\ \A n \in 1 .. Len(op[t].req) : F + n - 1 \in Addr /\ (F + n - 1 = op[t].i => n = m)
  BY <1>1, NextAddress
<1> SUFFICES ASSUME AllWritable(t)' PROVE ProgressAt(t)'
  BY DEF Progress, ProgressAt
<1>3. AllWritable(t)
  <2>1. \A n : Named(t, n)' = Named(t, n)
    BY <1>1, <1>2
  <2>2. ram' = ram /\ op'[t].w = op[t].w /\ op'[t].req = op[t].req
    BY <1>1, <1>2
  <2>3. \A n : Writable(t, n)' <=> Writable(t, n)
    BY <2>1, <2>2 DEF Writable
  <2> QED BY <2>2, <2>3 DEF AllWritable
<1>4. op[t].b = op[t].i - First(t) + 1 /\ \A n \in 1 .. op[t].i - First(t) : Landed(t, n)
  <2>1. op[t].pc \in Requesting /\ ~InHand(t)
    BY <1>1 DEF InHand, Requesting, Pc
  <2> QED BY <1>3, <2>1 DEF Progress
<1>5. \A n : Landed(t, n)' <=> Landed(t, n)
  <2>1. \A a : ReadAddr(w, a)' = ReadAddr(w, a)
    <3>1. \A x : Read(w, x)' = Read(w, x)
      BY <1>1 DEF Read, flash
    <3> QED BY <1>1, <3>1 DEF ReadAddr
  <2> QED BY <1>2, <2>1 DEF Landed
<1>6. \A n \in 1 .. m : Landed(t, n)' \/ (n = m /\ InHand(t)')
  <2>1. InHand(t)'
    BY <1>1 DEF InHand
  <2>2. \A n \in 1 .. m : n # m => n \in 1 .. op[t].i - First(t)
    BY <1>2
  <2> QED BY <1>4, <1>5, <2>1, <2>2
<1>7. op'[t].b = m + 1 /\ op'[t].v = op'[t].req[m]
  BY <1>1, <1>2, <1>4
<1> QED BY <1>2, <1>6, <1>7 DEF ProgressAt

\* So does storing a value under an address without a register.
LEMMA UnmappedStep ==
    ASSUME TypeOK, NEW t \in Thread, OpOK(t), Progress(t), op[t].alone, WriteUnmapped(t),
           SameRequest(t)
    PROVE  Progress(t)'
<1>1. /\ op[t].pc = "addr" /\ op[t].i < op[t].j /\ UNCHANGED flash
      /\ op'[t].i = op[t].i + 1 /\ op'[t].b = op[t].b + 1 /\ op'[t].pc = "addr"
      /\ "val" \in DOMAIN ram[op[t].w].y[op[t].i]
      /\ ram' = [ram EXCEPT ![op[t].w].y[op[t].i] = [val |-> op[t].req[op[t].b]]]
  <2>1. op[t] \in Op /\ op \in [Thread -> Op]
    BY DEF TypeOK
  <2> QED BY <2>1 DEF WriteUnmapped, At, Become, Op
<1>2. PICK w \in Well, F \in Nat, m \in 1 .. Len(op[t].req) :
        /\ w = op[t].w /\ w = op'[t].w /\ F = First(t) /\ F = First(t)'
        /\ m = op[t].i - F + 1 /\ op[t].i = F + m - 1 /\ m = op'[t].i - F
        /\ op'[t].req = op[t].req /\ op[t].i \in Int
        /\ op[t].j - Len(op[t].req) = F /\ op'[t].j - Len(op'[t].req) = F
        /\ \A n : Named(t, n) = ram[w].y[F + n - 1]
        /\ \A n : Named(t, n)' = ram'[w].y[F + n - 1]
        /\ \A n \in 1 .. Len(op[t].req) : F + n - 1 \in Addr /\ (F + n - 1 = op[t].i => n = m)
  BY <1>1, NextAddress
<1>3. /\ op[t].i \in Addr /\ ram \in [Well -> WellRam]
      /\ ram'[w].x = ram[w].x /\ ram'[w].rw = ram[w].rw /\ ram'[w].type = ram[w].type
      /\ \A a \in Addr : ram'[w].y[a] = IF a = op[t].i THEN [val |-> op[t].req[op[t].b]] ELSE ram[w].y[a]
  <2>1. op[t].i \in Addr
    BY <1>2
  <2>2. ram \in [Well -> WellRam]
    BY DEF TypeOK
  <2>3. \A a \in Addr : \A v : LET r == [ram EXCEPT ![w].y[op[t].i] = v] IN
          /\ r[w].x = ram[w].x /\ r[w].rw = ram[w].rw /\ r[w].type = ram[w].type
          /\ r[w].y[a] = IF a = op[t].i THEN v ELSE ram[w].y[a]
    BY <2>1, <2>2 DEF WellRam
  <2>4. ram' = [ram EXCEPT ![w].y[op[t].i] = [val |-> op[t].req[op[t].b]]]
    BY <1>1, <1>2
  <2> QED BY <2>1, <2>2, <2>3, <2>4
<1>4. "reg" \notin DOMAIN ram[w].y[op[t].i]
  <2>1. ram[w].y[op[t].i] \in [reg : Reg] \cup [val : Stored]
    BY <1>3 DEF WellRam, Target
  <2>2. "val" \in DOMAIN ram[w].y[op[t].i]
    BY <1>1, <1>2
  <2> QED BY <2>1, <2>2
<1> SUFFICES ASSUME AllWritable(t)' PROVE ProgressAt(t)'
  BY DEF Progress, ProgressAt
<1>5. \A n \in 1 .. Len(op[t].req) : n # m => ram'[w].y[F + n - 1] = ram[w].y[F + n - 1]
  <2>1. \A n \in 1 .. Len(op[t].req) : n # m => F + n - 1 \in Addr /\ F + n - 1 # op[t].i
    BY <1>2
  <2> QED BY <1>3, <2>1
<1>6. AllWritable(t)
  <2> SUFFICES ASSUME NEW n \in 1 .. Len(op[t].req) PROVE Writable(t, n)
    BY DEF AllWritable
  <2>1. Writable(t, n)'
    BY <1>2 DEF AllWritable
  <2>2. CASE n = m
    <3>1. Named(t, n) = ram[w].y[op[t].i]
      BY <1>2, <2>2
    <3> QED BY <1>4, <3>1 DEF Writable
  <2>3. CASE n # m
    <3>1. Named(t, n)' = Named(t, n)
      BY <1>2, <1>5, <2>3
    <3>2. ram'[op'[t].w].rw = ram[op[t].w].rw
      BY <1>2, <1>3
    <3> QED BY <2>1, <3>1, <3>2 DEF Writable
  <2> QED BY <2>2, <2>3
<1>7. op[t].b = op[t].i - First(t) + 1 /\ \A n \in 1 .. op[t].i - First(t) : Landed(t, n)
  <2>1. op[t].pc \in Requesting /\ ~InHand(t)
    BY <1>1 DEF InHand, Requesting, Pc
  <2> QED BY <1>6, <2>1 DEF Progress
<1>8. \A x : Read(w, x)' = Read(w, x)
  BY <1>1, <1>3 DEF Read, flash
<1>9. ASSUME NEW n \in 1 .. m PROVE Landed(t, n)'
  <2>1. n \in 1 .. Len(op[t].req) /\ op'[t].req[n] = op[t].req[n]
    BY <1>2
  <2>2. CASE n = m
    <3>1. ram'[w].y[F + n - 1] = [val |-> op[t].req[m]]
      <4>1. F + n - 1 = op[t].i /\ op[t].b = m
        BY <1>2, <1>7, <2>2
      <4> QED BY <1>3, <4>1
    <3>2. /\ ram'[w].y[F + n - 1].val = op[t].req[m]
          /\ "reg" \notin DOMAIN ram'[w].y[F + n - 1]
      BY <3>1
    <3> QED BY <1>2, <2>1, <2>2, <3>2 DEF Landed, ReadAddr
  <2>3. CASE n # m
    <3>1. Landed(t, n)
      <4>1. n \in 1 .. op[t].i - First(t)
        BY <1>2, <2>3
      <4> QED BY <1>7, <4>1
    <3>2. ram'[w].y[F + n - 1] = ram[w].y[F + n - 1]
      BY <1>5, <2>1, <2>3
    <3>3. ReadAddr(w, F + n - 1)' = ReadAddr(w, F + n - 1)
      BY <1>8, <3>2 DEF ReadAddr
    <3> QED BY <1>2, <2>1, <3>1, <3>3 DEF Landed
  <2> QED BY <2>2, <2>3
<1>10. op'[t].b = m + 1
  BY <1>1, <1>2, <1>7
<1> QED BY <1>1, <1>2, <1>9, <1>10 DEF ProgressAt

\* A read-only register is skipped: then not all can be written.
LEMMA SkipStep ==
    ASSUME TypeOK, NEW t \in Thread, OpOK(t), SkipReadOnly(t), SameRequest(t)
    PROVE  Progress(t)'
<1>1. /\ op[t].pc = "addr" /\ op[t].i < op[t].j /\ UNCHANGED ram /\ op'[t].i = op[t].i + 1
      /\ "reg" \in DOMAIN ram[op[t].w].y[op[t].i]
      /\ ram[op[t].w].rw[ram[op[t].w].y[op[t].i].reg] = "RO"
  <2>1. op[t] \in Op /\ op \in [Thread -> Op]
    BY DEF TypeOK
  <2> QED BY <2>1 DEF SkipReadOnly, At, Become, Op
<1>2. PICK w \in Well, F \in Nat, m \in 1 .. Len(op[t].req) :
        /\ w = op[t].w /\ w = op'[t].w /\ op[t].i = F + m - 1 /\ op'[t].req = op[t].req
        /\ \A n : Named(t, n)' = ram'[w].y[F + n - 1]
  BY <1>1, NextAddress
<1>3. Named(t, m)' = ram[w].y[op[t].i]
  BY <1>1, <1>2
<1>4. ~Writable(t, m)'
  BY <1>1, <1>2, <1>3 DEF Writable
<1> QED BY <1>2, <1>4 DEF Progress, AllWritable

\* A step that stores nothing but the register being written.
LEMMA StoreOnly ==
    ASSUME TypeOK, MapOK, NEW t \in Thread, OpOK(t), Current(t), op[t].pc \in Requesting,
           NoFlash(t) \/ StoreFlash1(t) \/ StoreFlash2(t) \/ StoreRam(t) \/ SetRelay(t) \/ StoreRelay(t)
             \/ \E f \in 1 .. 2 : Msync(t, f) \/ MsyncFails(t, f)
    PROVE  /\ ram'[op[t].w].y = ram[op[t].w].y
           /\ ram'[op[t].w].rw = ram[op[t].w].rw
           /\ ram'[op[t].w].type = ram[op[t].w].type
           /\ \A y \in Reg \ {op[t].x} :
                /\ ram'[op[t].w].x[y] = ram[op[t].w].x[y] /\ flash1'[y] = flash1[y]
                /\ \A v \in Well : flash2'[v][y] = flash2[v][y]
<1>1. /\ op[t].w \in Well /\ op[t].x \in Reg /\ ram \in [Well -> WellRam]
      /\ flash1 \in [Reg -> Stored] /\ flash2 \in [Well -> [Reg -> Stored]]
  BY Addresses DEF TypeOK, Contents1, Contents2
<1>2. CASE NoFlash(t) \/ SetRelay(t) \/ \E f \in 1 .. 2 : Msync(t, f) \/ MsyncFails(t, f)
  BY <1>2 DEF NoFlash, SetRelay, Msync, MsyncFails, flash
<1>3. CASE StoreFlash1(t)
  BY <1>1, <1>3 DEF StoreFlash1
<1>4. CASE StoreFlash2(t)
  BY <1>1, <1>4 DEF StoreFlash2
<1>5. CASE StoreRam(t)
  BY <1>1, <1>5 DEF StoreRam, flash, WellRam
<1>6. CASE StoreRelay(t)
  <2>1. op[t].x = DO0 /\ 1 \in Well
    BY <1>6, MapAssumption DEF StoreRelay, At, OpOK, Legal
  <2>2. /\ ram' = [ram EXCEPT ![op[t].w].x[op[t].x] = op[t].v]
        /\ flash2' = [flash2 EXCEPT ![1][op[t].x] = op[t].v] /\ flash1' = flash1
    BY <1>6, <2>1 DEF StoreRelay
  <2> QED BY <1>1, <2>1, <2>2 DEF WellRam
<1> QED BY <1>2, <1>3, <1>4, <1>5, <1>6

\* Such a step does not lose the value: it is in hand, or where it is read.
LEMMA StoreLands ==
    ASSUME TypeOK, MapOK, NEW t \in Thread, OpOK(t), Current(t), op[t].alone,
           op[t].pc \in Requesting, SameRequest(t), SameStore(t),
           NoFlash(t) \/ StoreFlash1(t) \/ StoreFlash2(t) \/ StoreRam(t) \/ SetRelay(t) \/ StoreRelay(t)
             \/ \E f \in 1 .. 2 : Msync(t, f) \/ MsyncFails(t, f),
           op[t].x # WELL_TYPE, InHand(t) \/ Read(op[t].w, op[t].x) = op[t].v
    PROVE  InHand(t)' \/ (Read(op[t].w, op[t].x) = op[t].v)'
<1>1. /\ op[t].w \in Well /\ op[t].x \in Reg /\ ram \in [Well -> WellRam]
      /\ flash1 \in [Reg -> Stored] /\ flash2 \in [Well -> [Reg -> Stored]]
      /\ 1 \in Well /\ WELL_TYPE # DO0
  BY Addresses, MapAssumption DEF TypeOK, Contents1, Contents2
<1>2. PICK w \in Well, x \in Reg, v \in Value :
        /\ w = op[t].w /\ w = op'[t].w /\ x = op[t].x /\ x = op'[t].x /\ v = op[t].v /\ v = op'[t].v
        /\ x # WELL_TYPE
  BY Addresses DEF SameRequest, SameStore
<1>3. ram'[w].type = ram[w].type /\ Type(t)' = Type(t) /\ Type(t) = ram[w].type[x]
  <2>1. ram'[w].type = ram[w].type
    BY <1>2, StoreOnly
  <2> QED BY <1>2, <2>1 DEF Type
<1> SUFFICES InHand(t)' \/ Read(w, x)' = v
  BY <1>2
<1>4. CASE NoFlash(t)
  <2>1. /\ op'[t].pc = "ram" /\ Type(t) \in {"MAP_NULL", "SYS"} /\ ~HasFunction(t)
    BY <1>4, Moves DEF NoFlash
  <2>2. ~HasFunction(t)'
    BY <1>2, <1>3, <2>1 DEF HasFunction
  <2> QED BY <1>3, <2>1, <2>2 DEF InHand
<1>5. CASE SetRelay(t)
  BY <1>5, Moves DEF InHand
<1>6. CASE StoreFlash1(t)
  <2>1. ram'[w].type[x] = "FLASH1" /\ flash1'[x] = v
    BY <1>1, <1>2, <1>3, <1>6 DEF StoreFlash1
  <2> QED BY <2>1 DEF Read
<1>7. CASE StoreFlash2(t)
  <2>1. ram'[w].type[x] = "FLASH2" /\ flash2'[w][x] = v
    BY <1>1, <1>2, <1>3, <1>7 DEF StoreFlash2
  <2> QED BY <2>1 DEF Read
<1>8. CASE StoreRelay(t)
  <2>1. op[t].pc = "relay" /\ x = DO0 /\ Type(t) = "SYS"
    BY <1>2, <1>8 DEF StoreRelay, At, OpOK, Legal, Current
  <2>2. ram'[w].type[x] = "SYS" /\ flash2'[1][DO0] = v
    BY <1>1, <1>2, <1>3, <1>8, <2>1 DEF StoreRelay
  <2> QED BY <1>2, <2>1, <2>2 DEF Read
<1>9. CASE StoreRam(t)
  <2>1. /\ op[t].pc = "ram" /\ ram'[w].x[x] = v /\ flash1' = flash1 /\ flash2' = flash2
    BY <1>1, <1>2, <1>9 DEF StoreRam, At, flash, WellRam
  <2>2. CASE InHand(t)
    <3>1. /\ ram[w].type[x] \in {"MAP_NULL", "SYS"}
          /\ ~(ram[w].type[x] = "SYS" /\ x \in {WELL_TYPE, DO0})
      BY <1>2, <1>3, <2>1, <2>2 DEF InHand, HasFunction
    <3>2. Read(w, x)' = ram'[w].x[x]
      BY <1>3, <3>1 DEF Read
    <3> QED BY <2>1, <3>2
  <2>3. CASE Read(w, x) = v
    <3>1. ram'[w].type = ram[w].type
      BY <1>3
    <3>2. Read(w, x)' \in {Read(w, x), v}
      <4>1. CASE ram[w].type[x] \in {"FLASH1", "FLASH2"}
        BY <2>1, <3>1, <4>1 DEF Read
      <4>2. CASE ram[w].type[x] = "SYS" /\ x \in {WELL_TYPE, DO0}
        <5>1. ram'[w].type[x] = ram[w].type[x] /\ flash2' = flash2
          BY <2>1, <3>1
        <5>2. Read(w, x)' = Read(w, x)
          BY <4>2, <5>1 DEF Read
        <5> QED BY <5>2
      <4>3. CASE /\ ram[w].type[x] \notin {"FLASH1", "FLASH2"}
                 /\ ~(ram[w].type[x] = "SYS" /\ x \in {WELL_TYPE, DO0})
        <5>1. Read(w, x)' = ram'[w].x[x]
          BY <3>1, <4>3 DEF Read
        <5> QED BY <2>1, <5>1
      <4> QED BY <4>1, <4>2, <4>3
    <3> QED BY <2>3, <3>2
  <2> QED BY <1>2, <2>2, <2>3
<1>10. CASE \E f \in 1 .. 2 : Msync(t, f) \/ MsyncFails(t, f)
  <2>1. ~InHand(t)
    BY <1>10, AfterSyncMoves DEF InHand
  <2>2. Read(w, x)' = Read(w, x)
    BY <1>10 DEF Msync, MsyncFails, Read, flash
  <2> QED BY <1>2, <2>1, <2>2
<1> QED BY <1>4, <1>5, <1>6, <1>7, <1>8, <1>9, <1>10

\* A request begins with nothing landed.
LEMMA RequestStep ==
    ASSUME TypeOK, NEW t \in Thread, NEW q \in Requests, Request(t, q)
    PROVE  Progress(t)'
<1> DEFINE o == [Idle EXCEPT !.pc = "addr", !.w = q.w, !.i = q.i, !.j = q.i + Len(q.req), !.req = q.req]
<1>1. o \in Op /\ Legal(o) /\ Begin(t, o) /\ op \in [Thread -> Op]
  BY RequestLegal DEF Request, TypeOK
<1>2. /\ o.pc = "addr" /\ o.i = q.i /\ o.j = q.i + Len(q.req) /\ o.req = q.req /\ o.b = 1
  BY IdleType DEF Op, Idle
<1> HIDE DEF o
<1>3. \E e \in BOOLEAN : op'[t] = [o EXCEPT !.alone = e]
  BY <1>1, BeginType
<1>4. /\ op'[t].pc = "addr" /\ op'[t].i = q.i /\ op'[t].j = q.i + Len(q.req)
      /\ op'[t].req = q.req /\ op'[t].b = 1
  BY <1>1, <1>2, <1>3 DEF Op
<1>5. q.i \in Nat /\ Len(q.req) \in Nat
  <2>1. q.i \in Addr /\ q.req \in Seq(Value)
    BY MapAssumption
  <2>2. q.i \in Nat
    BY <2>1, MapAssumption
  <2> QED BY <2>1, <2>2
<1>6. First(t)' = q.i
  BY <1>4, <1>5 DEF First, Start
<1>7. 1 .. op'[t].i - First(t)' = {} /\ op'[t].b = op'[t].i - First(t)' + 1
  BY <1>4, <1>5, <1>6
<1> QED BY <1>4, <1>7 DEF Progress

\* Progress is kept by every step of a thread.
LEMMA ProgressStep ==
    ASSUME TypeOK, TypeOK', MapOK,
           \A u \in Thread : OpOK(u) /\ AloneOK(u) /\ Current(u) /\ Progress(u),
           NEW t \in Thread, Serve(t)
    PROVE  \A u \in Thread : Progress(u)'
<1> SUFFICES ASSUME op'[t].alone, op'[t].pc \in Requesting
             PROVE  Progress(t)'
  BY NotAlone DEF Progress
<1>1. CASE op[t].pc = "idle"
  <2>1. PICK q \in Requests : Request(t, q)
    BY <1>1, Moves, AfterSyncMoves DEF Serve, Requesting
  <2> QED BY <2>1, RequestStep
<1>2. CASE op[t].pc # "idle"
  <2>1. op[t].alone
    BY <1>2, NotAlone
  <2>2. op[t].pc \in Requesting
    <3>1. op[t].pc \in {"reset", "reset_sync"} => op'[t].pc \in {"reset", "reset_sync", "idle"}
      BY Moves, AfterSyncMoves DEF Serve
    <3>2. op[t].pc \in Pc
      BY DEF TypeOK, Op
    <3> QED BY <1>2, <3>1, <3>2 DEF Requesting
  <2>3. SameRequest(t) /\ (op[t].pc # "addr" => SameStore(t))
    BY <2>2, Same
  <2>4. CASE WriteUnmapped(t)
    BY <2>1, <2>3, <2>4, UnmappedStep
  <2>5. CASE SkipReadOnly(t)
    BY <2>3, <2>5, SkipStep
  <2>6. CASE EnterWrite(t)
    BY <2>1, <2>3, <2>6, EnterStep
  <2>7. ASSUME NoFlash(t) \/ StoreFlash1(t) \/ StoreFlash2(t) \/ StoreRam(t) \/ SetRelay(t) \/ StoreRelay(t)
                 \/ \E f \in 1 .. 2 : Msync(t, f) \/ MsyncFails(t, f)
        PROVE  Progress(t)'
    <3>1. op[t].pc \in Requesting \ {"addr"}
      BY <2>2, <2>7, Moves, AfterSyncMoves
    <3> QED BY <2>1, <2>3, <2>7, <3>1, StoreOnly, StoreLands, StoreStep
  <2>8. ASSUME ChangeWellType(t) \/ RemapRow(t) \/ RemapDefault(t) PROVE Progress(t)'
    <3>1. op[t].pc \in Requesting \ {"addr"} /\ op'[t].pc \in Requesting \ {"addr"}
      <4>1. op[t].pc # "addr" /\ op'[t].pc # "addr"
        BY <2>8, Moves
      <4> QED BY <2>2, <4>1
    <3>2. op[t].x = WELL_TYPE
      BY <2>8, Moves, Zenon DEF ChangeWellType, OpOK, Legal
    <3>3. Current(t)'
      BY CurrentStep
    <3> QED BY <2>3, <3>1, <3>2, <3>3, TypeChange
  <2>9. ASSUME Reply(t) \/ PressButton(t) \/ ResetRow(t) \/ \E q \in Requests : Request(t, q)
        PROVE  FALSE
    BY <2>2, <2>9, Moves DEF Requesting
  <2> QED BY <2>4, <2>5, <2>6, <2>7, <2>8, <2>9 DEF Serve
<1> QED BY <1>1, <1>2

-----------------------------------------------------------------------------
(***************************************************************************)
(* The inductive invariant and what follows from it.                       *)
(***************************************************************************)
\* The invariant holds at power-on ...
LEMMA InvInit == Init => Inv
<1> SUFFICES ASSUME Init PROVE Inv
  OBVIOUS
<1>1. /\ phase = "off" /\ ram = [w \in Well |-> BlankRam] /\ op = [t \in Thread |-> Idle]
      /\ file = [f \in 1 .. 2 |-> FALSE] /\ flash1 = Blank1 /\ flash2 = Blank2
      /\ disk1 = Blank1 /\ disk2 = Blank2
  BY DEF Init
<1>2. TypeOK
  <2>1. /\ ram \in [Well -> WellRam] /\ op \in [Thread -> Op]
        /\ flash1 \in Contents1 /\ flash2 \in Contents2 /\ disk1 \in Contents1 /\ disk2 \in Contents2
    BY <1>1, BlankType, IdleType
  <2>2. /\ file \in [1 .. 2 -> BOOLEAN] /\ fresh \in [1 .. 2 -> BOOLEAN]
        /\ failed \in [1 .. 2 -> BOOLEAN] /\ relay \in BOOLEAN
        /\ torn1 \in BOOLEAN /\ torn2 \subseteq Well /\ changed \subseteq Well
    BY DEF Init
  <2>3. fails \in 0 .. MaxFail
    BY MapAssumption DEF Init
  <2> QED BY <1>1, <2>1, <2>2, <2>3 DEF TypeOK
<1>3. MapOK
  <2>1. Maps(BlankRam)
    BY DEF Maps, BlankRam
  <2> QED BY <1>1, <2>1 DEF MapOK
<1>4. Durable /\ SettingsSurvive /\ Untouched
  BY <1>1 DEF Init, Durable, SettingsSurvive, Untouched
<1>5. /\ DefaultsDisk1 /\ DefaultsDisk2 /\ SameType /\ RemapUnconfirmed
      /\ TypeKnown /\ Defaults1 /\ Defaults2
  BY <1>1 DEF DefaultsDisk1, DefaultsDisk2, SameType, RemapUnconfirmed, TypeKnown,
     Defaults1, Defaults2, Idle
<1>6. ASSUME NEW t \in Thread PROVE OpOK(t) /\ AloneOK(t) /\ Current(t) /\ Progress(t)
  <2>1. op[t].pc = "idle" /\ ~op[t].alone /\ Legal(op[t])
    BY <1>1, LegalIdle DEF Idle
  <2> QED BY <1>1, <2>1 DEF OpOK, AloneOK, Current, Progress
<1> QED BY <1>2, <1>3, <1>4, <1>5, <1>6 DEF Inv

\* Steps of the start, of the kernel and of the power supply do not go on
\* with a request.
LEMMA RestStep ==
    ASSUME TypeOK, NEW t \in Thread, OpOK(t), AloneOK(t), Current(t), Progress(t), AloneOK(t),
           \/ CreateFlash \/ FillMap \/ StartThreads \/ PowerLoss \/ UNCHANGED vars
           \/ \E x \in Reg : WriteBack1(x) \/ \E w \in Well : WriteBack2(w, x)
    PROVE  AloneOK(t)' /\ Current(t)' /\ Progress(t)'
<1>1. CASE \/ UNCHANGED vars
           \/ \E x \in Reg : WriteBack1(x) \/ \E w \in Well : WriteBack2(w, x)
  <2>1. UNCHANGED <<ram, flash1, flash2, op>>
    BY <1>1 DEF vars, WriteBack1, WriteBack2, flash
  <2>2. /\ \A n : Named(t, n)' = Named(t, n) /\ Writable(t, n)' = Writable(t, n)
        /\ \A w, x : Read(w, x)' = Read(w, x)
        /\ Type(t)' = Type(t) /\ HasFunction(t)' = HasFunction(t) /\ First(t)' = First(t)
    BY <2>1 DEF Named, Writable, Read, Type, HasFunction, First
  <2>3. AloneOK(t)' /\ Current(t)'
    BY <2>1, <2>2 DEF AloneOK, Current
  <2>4. \A n : Landed(t, n)' = Landed(t, n)
    BY <2>1, <2>2 DEF Landed, ReadAddr
  <2>5. InHand(t)' = InHand(t) /\ AllWritable(t)' = AllWritable(t)
    BY <2>1, <2>2 DEF InHand, AllWritable
  <2>6. Progress(t)'
    BY <2>1, <2>2, <2>4, <2>5 DEF Progress
  <2> QED BY <2>3, <2>6
<1>2. CASE CreateFlash \/ FillMap \/ StartThreads \/ PowerLoss
  <2>1. ~op'[t].alone
    <3>1. CASE PowerLoss
      BY <3>1 DEF PowerLoss, Idle
    <3>2. CASE CreateFlash \/ FillMap \/ StartThreads
      <4>1. phase # "on" /\ op' = op
        BY <3>2 DEF CreateFlash, FillMap, StartThreads
      <4> QED BY <4>1 DEF OpOK, AloneOK
    <3> QED BY <1>2, <3>1, <3>2
  <2> QED BY <2>1 DEF AloneOK, Current, Progress
<1> QED BY <1>1, <1>2

\* ... and every step keeps it.
LEMMA InvStep == Inv /\ [Next]_vars => Inv'
<1> SUFFICES ASSUME Inv, [Next]_vars PROVE Inv'
  OBVIOUS
<1> USE DEF Inv
<1>1. TypeOK'
  BY TypeStep
<1>2. \A t \in Thread : OpOK(t)'
  BY <1>1, LegalStep
<1>3. Durable' /\ SettingsSurvive' /\ MapOK' /\ Untouched'
  BY <1>1, DurableStep, SettingsStep, MapStep, UntouchedStep
<1>4. /\ DefaultsDisk1' /\ DefaultsDisk2' /\ SameType' /\ RemapUnconfirmed'
      /\ TypeKnown' /\ Defaults1' /\ Defaults2'
  BY <1>1, Disk1Step, Disk2Step, SameTypeStep, UnconfirmedStep, KnownStep, Step1, Step2
<1>5. \A t \in Thread : AloneOK(t)' /\ Current(t)' /\ Progress(t)'
  <2>1. CASE \E t \in Thread : Serve(t)
    BY <1>1, <2>1, AloneStep, CurrentStep, ProgressStep
  <2>2. CASE \/ CreateFlash \/ FillMap \/ StartThreads \/ PowerLoss \/ UNCHANGED vars
             \/ \E x \in Reg : WriteBack1(x) \/ \E w \in Well : WriteBack2(w, x)
    BY <2>2, RestStep
  <2> QED BY <2>1, <2>2 DEF Next
<1> QED BY <1>1, <1>2, <1>3, <1>4, <1>5

\* A register that reads as erased is in flash1, which was torn, or in the
\* part of flash2 of a well that was torn or is being given a type.
LEMMA InvNeverErased == Inv => NeverErased
<1> SUFFICES ASSUME Inv, phase = "on", NEW w \in Well
             PROVE  /\ Read(w, WELL_TYPE) \in WellType
                    /\ \A x \in Reg : Erased(w, x) =>
                         /\ ram[w].type[x] = "FLASH1" => torn1
                         /\ ram[w].type[x] = "FLASH2" => w \in torn2 \/ Remapping(w)
  BY DEF NeverErased
<1>1. Read(w, WELL_TYPE) \in WellType
  <2>1. ram[w].type[WELL_TYPE] = "SYS" /\ flash2[w][WELL_TYPE] \in WellType
    BY DEF Inv, MapOK, TypeKnown
  <2>2. Read(w, WELL_TYPE) = flash2[w][WELL_TYPE]
    BY <2>1, MapAssumption DEF Read
  <2> QED BY <2>1, <2>2
<1>2. ASSUME NEW x \in Reg, Erased(w, x), ram[w].type[x] = "FLASH1" PROVE torn1
  <2>1. \E r \in ToSet(Map1) : r.x = x /\ r.type = "FLASH1"
    BY <1>2 DEF Inv, MapOK, Maps
  <2>2. flash1[x] = Blank
    BY <1>2 DEF Erased, Read
  <2> QED BY <2>1, <2>2 DEF Inv, Defaults1, Filled1
<1>3. ASSUME NEW x \in Reg, Erased(w, x), ram[w].type[x] = "FLASH2", w \notin torn2
      PROVE  Remapping(w)
  <2>1. flash2[w][x] = Blank
    BY <1>3 DEF Erased, Read
  <2>2. \E t \in Thread : InRow(t, w, x)
    BY <1>3, <2>1 DEF Inv, Defaults2
  <2> QED BY <2>2 DEF InRow, Remapping
<1> QED BY <1>1, <1>2, <1>3

\* A request that is done has progressed to its last address.
LEMMA InvLands == Inv => WritableRequestLands
<1> SUFFICES ASSUME Inv, NEW t \in Server, Done(t), op[t].alone,
                    \A n \in 1 .. Len(op[t].req) : Writable(t, n),
                    NEW n \in 1 .. Len(op[t].req)
             PROVE  Landed(t, n)
  BY DEF WritableRequestLands
<1>1. t \in Thread /\ op[t].pc = "addr" /\ op[t].pc \in Requesting /\ op[t].i = op[t].j
  BY DEF Thread, Done, At, Requesting, Pc
<1>2. op[t].i - First(t) = Len(op[t].req)
  <2>1. /\ op[t].j \in Int /\ Len(op[t].req) \in Nat /\ First(t) \in Nat
        /\ op[t].j - Len(op[t].req) = First(t)
    BY <1>1, Addresses DEF Inv
  <2> QED BY <1>1, <2>1
<1>3. ~InHand(t)
  BY <1>1 DEF InHand
<1> QED BY <1>1, <1>2, <1>3 DEF Inv, Progress, AllWritable

-----------------------------------------------------------------------------
(***************************************************************************)
(* Theorems.                                                               *)
(***************************************************************************)
\* The invariant holds in every state the program can be in.
THEOREM Invariance == Spec => []Inv
BY InvInit, InvStep, PTL DEF Spec

\* Every register, page and thread holds what its type says: no request leads
\* out of ram_y and no row leads out of a table.
THEOREM TypeCorrect == Spec => []TypeOK
<1>1. Inv => TypeOK
  BY DEF Inv
<1> QED BY <1>1, Invariance, PTL

\* zigbee_write_registers and map_item_remap: what a Modbus master was told is
\* stored is on the disk, unless the last msync failed.
THEOREM StoresAreDurable == Spec => []Durable
<1>1. Inv => Durable
  BY DEF Inv
<1> QED BY <1>1, Invariance, PTL

\* ram_map_flash1_value_init and ram_map_flash2_value_init: a start does not
\* replace the settings of a file it has found.
THEOREM StartsKeepSettings == Spec => []SettingsSurvive
<1>1. Inv => SettingsSurvive
  BY DEF Inv
<1> QED BY <1>1, Invariance, PTL

\* ram_flash_create, map_init and map_item_remap: a well has a known type and a
\* register kept in flash has been given its default before it can be read,
\* but for the registers of a file whose creation, and of a well whose change
\* of type, a loss of power has cut off.
THEOREM RegistersHaveDefaults == Spec => []NeverErased
BY Invariance, InvNeverErased, PTL

\* map_modbus_write_registers: a request to registers that can be written has
\* landed when it is answered, if no other thread was busy meanwhile.
THEOREM RequestsLand == Spec => []WritableRequestLands
BY Invariance, InvLands, PTL

-----------------------------------------------------------------------------
\* A place of the send order that a writer has reached names a consumer.
LEMMA SendOrderConsumer ==
    ASSUME NEW i \in 1 .. Len(SendOrder)
    PROVE  SendOrder[i] \in Consumer
BY ConstantsType

\* pmsg_q_send keeps a queue a queue of the same kind of messages.
LEMMA SentType ==
    ASSUME NEW S, NEW q \in Seq(S), NEW m \in S
    PROVE  Sent(q, m) \in Seq(S)
BY DEF Sent

\* After pmsg_q_send the queue is not empty, whether or not it was full.
LEMMA SentNotEmpty ==
    ASSUME NEW S, NEW q \in Seq(S), NEW m \in S
    PROVE  Sent(q, m) # << >>
BY ConstantsType DEF Sent

-----------------------------------------------------------------------------
\* The threads that main starts are well typed.
LEMMA BroadcastInitTypeOK == BroadcastInit => BroadcastTypeOK
BY ConstantsType DEF BroadcastInit, BroadcastTypeOK

\* No store, send, receive, read or restart leaves the types.
LEMMA BroadcastNextTypeOK ==
    BroadcastTypeOK /\ [BroadcastNext]_broadcastVars => BroadcastTypeOK'
<1> SUFFICES ASSUME BroadcastTypeOK, [BroadcastNext]_broadcastVars
             PROVE  BroadcastTypeOK'
  OBVIOUS
<1> USE ConstantsType DEF BroadcastTypeOK
<1>1. CASE UNCHANGED broadcastVars
  BY <1>1 DEF broadcastVars
<1>2. ASSUME NEW w \in Writer, NEW r \in Register, StoreRegister(w, r)
      PROVE  BroadcastTypeOK'
  BY <1>2 DEF StoreRegister
<1>3. ASSUME NEW w \in Writer, WriteConfig1(w)
      PROVE  BroadcastTypeOK'
  <2>1. Len(SendOrder) \in Nat /\ Len(SendOrder) # 0
    BY <1>3 DEF WriteConfig1
  <2> QED  BY <1>3, <2>1 DEF WriteConfig1
<1>4. ASSUME NEW w \in Writer, SendConfigStart(w)
      PROVE  BroadcastTypeOK'
  <2> DEFINE c == SendOrder[sending[w]]
  <2>1. c \in Consumer
    BY <1>4, SendOrderConsumer DEF SendConfigStart
  <2>2. Sent(queue[c], "MSG_CONFIG_START") \in Seq(Message)
    BY <2>1, SentType DEF Message
  <2>3. queue' \in [Consumer -> Seq(Message)]
    BY <1>4, <2>1, <2>2 DEF SendConfigStart
  <2>4. announced' \in [Consumer -> [Register -> 0 .. MaxVer]]
    BY <1>4, <2>1 DEF SendConfigStart
  <2>5. sending' \in [Writer -> 0 .. Len(SendOrder)]
    BY <1>4 DEF SendConfigStart
  <2> QED  BY <1>4, <2>3, <2>4, <2>5 DEF SendConfigStart
<1>5. ASSUME NEW c \in Consumer, SendOther(c)
      PROVE  BroadcastTypeOK'
  <2>1. Sent(queue[c], "OTHER") \in Seq(Message)
    BY SentType DEF Message
  <2> QED  BY <1>5, <2>1 DEF SendOther
<1>6. ASSUME NEW c \in Consumer, Receive(c)
      PROVE  BroadcastTypeOK'
  <2>1. Tail(queue[c]) \in Seq(Message)
    BY <1>6 DEF Receive
  <2>2. Reads[c] \in SUBSET Register
    OBVIOUS
  <2> QED  BY <1>6, <2>1, <2>2 DEF Receive
<1>7. ASSUME NEW c \in Consumer, NEW r \in Register, ReadRegister(c, r)
      PROVE  BroadcastTypeOK'
  BY <1>7 DEF ReadRegister
<1>8. CASE PowerCycle
  BY <1>8 DEF PowerCycle
<1>9. ASSUME NEW c \in Consumer, Hold(c) \/ Release(c)
      PROVE  BroadcastTypeOK'
  BY <1>9 DEF Hold, Release
<1> QED
  BY <1>1, <1>2, <1>3, <1>4, <1>5, <1>6, <1>7, <1>8, <1>9
  DEF BroadcastNext, Running, WriterStep, ConsumerStep

\* Every state of the broadcast is well typed: in particular no writer runs
\* past the last send of rtu_reset_flash1.
THEOREM BroadcastTypeCorrect == BroadcastSpec => []BroadcastTypeOK
BY BroadcastInitTypeOK, BroadcastNextTypeOK, PTL DEF BroadcastSpec

-----------------------------------------------------------------------------
\* In a queue with one kind of message, that message is held as long as the
\* queue is not empty.
LEMMA OneKind ==
    ASSUME NEW q, q \in Seq({"MSG_CONFIG_START"})
    PROVE  Holds(q, "MSG_CONFIG_START") <=> q # << >>
<1>1. CASE q = << >>
  BY <1>1 DEF Holds
<1>2. CASE q # << >>
  <2>1. 1 \in 1 .. Len(q) /\ q[1] = "MSG_CONFIG_START"
    BY <1>2
  <2> QED  BY <1>2, <2>1 DEF Holds
<1> QED  BY <1>1, <1>2

\* NoLostConfig said of queues with one kind of message.
Informed(c) ==
    \A r \in Reads[c] : \/ seen[c][r] >= announced[c][r]
                       \/ queue[c] # << >>
                       \/ r \in todo[c]

\* With one kind of message, NoLostConfig asks no more than a queue that is
\* not empty.
LEMMA NoLostConfigInformed ==
    OneKindOnly => (NoLostConfig <=> \A c \in Dedicated : Informed(c))
BY OneKind DEF OneKindOnly, NoLostConfig, Informed

(***************************************************************************)
(* A configuration that was announced to a thread with a queue of its own  *)
(* is never lost, though pmsg_q_send drops what a full queue cannot take.  *)
(* NoLostConfig is not inductive alone: that a full queue still announces  *)
(* the configuration needs that it holds no other kind of message.         *)
(***************************************************************************)
\* Nothing is announced that a starting thread does not read itself.
LEMMA BroadcastInitInv == BroadcastInit => BroadcastInv
<1> SUFFICES ASSUME BroadcastInit PROVE BroadcastInv
  OBVIOUS
<1>1. BroadcastTypeOK
  BY BroadcastInitTypeOK
<1>2. OneKindOnly
  BY DEF BroadcastInit, Dedicated, OneKindOnly
<1>3. NoLostConfig
  BY ConstantsType DEF BroadcastInit, NoLostConfig, Dedicated
<1>4. AnnouncedIsStored
  BY DEF BroadcastInit, AnnouncedIsStored
<1> QED  BY <1>1, <1>2, <1>3, <1>4 DEF BroadcastInv

\* Only what zigbee_write_registers has stored is ever announced.
LEMMA NextAnnouncedIsStored ==
    BroadcastTypeOK /\ AnnouncedIsStored /\ [BroadcastNext]_broadcastVars
        => AnnouncedIsStored'
<1> SUFFICES ASSUME BroadcastTypeOK, AnnouncedIsStored,
                    [BroadcastNext]_broadcastVars,
                    NEW c \in Consumer, NEW r \in Register
             PROVE  announced'[c][r] <= ver'[r]
  BY DEF AnnouncedIsStored
<1> USE DEF BroadcastTypeOK, AnnouncedIsStored
<1>1. CASE UNCHANGED broadcastVars
  BY <1>1 DEF broadcastVars
<1>2. ASSUME NEW w \in Writer, NEW s \in Register, StoreRegister(w, s)
      PROVE  announced'[c][r] <= ver'[r]
  BY <1>2 DEF StoreRegister
<1>3. ASSUME NEW w \in Writer, SendConfigStart(w)
      PROVE  announced'[c][r] <= ver'[r]
  BY <1>3 DEF SendConfigStart
<1>4. CASE PowerCycle
  BY <1>4 DEF PowerCycle
<1>5. ASSUME UNCHANGED <<announced, ver>>
      PROVE  announced'[c][r] <= ver'[r]
  BY <1>5
<1> QED
  BY <1>1, <1>2, <1>3, <1>4, <1>5
  DEF BroadcastNext, Running, WriterStep, ConsumerStep,
      WriteConfig1, SendOther, Receive, ReadRegister, Hold, Release

\* Every step of a writer, a thread or the power keeps the invariant.
LEMMA BroadcastNextInv ==
    BroadcastInv /\ [BroadcastNext]_broadcastVars => BroadcastInv'
<1> SUFFICES ASSUME BroadcastInv, [BroadcastNext]_broadcastVars
             PROVE  BroadcastInv'
  OBVIOUS
<1>0. AnnouncedIsStored /\ AnnouncedIsStored'
  BY NextAnnouncedIsStored DEF BroadcastInv
<1>1. BroadcastTypeOK /\ BroadcastTypeOK'
  BY BroadcastNextTypeOK DEF BroadcastInv
<1>2. OneKindOnly /\ \A c \in Dedicated : Informed(c)
  BY NoLostConfigInformed DEF BroadcastInv
<1>3. ASSUME NEW c \in Dedicated
      PROVE  (queue[c])' \in Seq({"MSG_CONFIG_START"}) /\ Informed(c)'
  <2>1. c \in Consumer /\ Reads[c] \in SUBSET Register /\ c \notin Shared
    BY ConstantsType DEF Dedicated
  <2>2. queue[c] \in Seq({"MSG_CONFIG_START"}) /\ Informed(c)
    BY <1>2 DEF OneKindOnly
  <2> USE <1>1, <2>1, <2>2 DEF BroadcastTypeOK, Informed
  <2> DEFINE Goal == (queue[c])' \in Seq({"MSG_CONFIG_START"}) /\ Informed(c)'
  <2>3. CASE UNCHANGED broadcastVars
    BY <2>3 DEF broadcastVars
  <2>4. ASSUME NEW w \in Writer, NEW r \in Register, StoreRegister(w, r)
        PROVE  Goal
    BY <2>4 DEF StoreRegister
  <2>5. ASSUME NEW w \in Writer, WriteConfig1(w)
        PROVE  Goal
    BY <2>5 DEF WriteConfig1
  <2>6. ASSUME NEW w \in Writer, SendConfigStart(w)
        PROVE  Goal
    <3> DEFINE d == SendOrder[sending[w]]
    <3>1. CASE d = c
      <4>1. queue'[c] = Sent(queue[c], "MSG_CONFIG_START")
        BY <2>6, <3>1 DEF SendConfigStart
      <4>2. queue'[c] \in Seq({"MSG_CONFIG_START"})
        BY <4>1, SentType
      <4>3. queue'[c] # << >>
        BY <4>1, SentNotEmpty
      <4> QED  BY <4>2, <4>3
    <3>2. CASE d # c
      BY <2>6, <3>2 DEF SendConfigStart
    <3> QED  BY <3>1, <3>2
  <2>7. ASSUME NEW d \in Consumer, SendOther(d)
        PROVE  Goal
    <3>1. d # c
      BY <2>7 DEF SendOther
    <3> QED  BY <2>7, <3>1 DEF SendOther
  <2>8. ASSUME NEW d \in Consumer, Receive(d)
        PROVE  Goal
    <3>1. CASE d = c
      <4>1. queue[c] # << >> /\ Head(queue[c]) = "MSG_CONFIG_START"
        BY <2>8, <3>1 DEF Receive
      <4>2. queue'[c] \in Seq({"MSG_CONFIG_START"})
        BY <2>8, <3>1, <4>1 DEF Receive
      <4>3. todo'[c] = Reads[c]
        BY <2>8, <3>1, <4>1 DEF Receive
      <4> QED  BY <4>2, <4>3
    <3>2. CASE d # c
      BY <2>8, <3>2 DEF Receive
    <3> QED  BY <3>1, <3>2
  <2>9. ASSUME NEW d \in Consumer, NEW r \in Register, ReadRegister(d, r)
        PROVE  Goal
    <3>1. queue' = queue /\ announced' = announced
      BY <2>9 DEF ReadRegister
    <3>2. ASSUME NEW s \in Reads[c]
          PROVE  \/ seen'[c][s] >= announced[c][s]
                 \/ queue[c] # << >>
                 \/ s \in todo'[c]
      <4>1. CASE d = c /\ s = r
        <5>1. seen'[c][s] = ver[s]
          BY <2>9, <4>1 DEF ReadRegister
        <5>2. ver[s] >= announced[c][s]
          BY <1>0 DEF AnnouncedIsStored
        <5> QED  BY <5>1, <5>2
      <4>2. CASE ~(d = c /\ s = r)
        <5>1. seen'[c][s] = seen[c][s] /\ (s \in todo[c] => s \in todo'[c])
          BY <2>9, <4>2 DEF ReadRegister
        <5> QED  BY <5>1
      <4> QED  BY <4>1, <4>2
    <3> QED  BY <3>1, <3>2
  <2>10. CASE PowerCycle
    <3>1. queue'[c] = << >> /\ todo'[c] = Reads[c]
      BY <2>10 DEF PowerCycle
    <3> QED  BY <3>1
  <2>11. ASSUME NEW d \in Consumer, Hold(d) \/ Release(d)
         PROVE  Goal
    BY <2>11 DEF Hold, Release
  <2> QED
    BY <2>3, <2>4, <2>5, <2>6, <2>7, <2>8, <2>9, <2>10, <2>11
    DEF BroadcastNext, Running, WriterStep, ConsumerStep
<1>4. OneKindOnly' /\ (\A c \in Dedicated : Informed(c))'
  BY <1>3 DEF OneKindOnly, Informed
<1>5. NoLostConfig'
  BY <1>4, OneKind DEF OneKindOnly, NoLostConfig, Informed
<1> QED  BY <1>0, <1>1, <1>4, <1>5 DEF BroadcastInv

\* A configuration that rtu_reset_flash1 has announced to a thread with a queue
\* of its own was read by the thread or will be, though pmsg_q_send drops what
\* a full queue cannot take.
THEOREM ConfigNeverLost == BroadcastSpec => []NoLostConfig
<1>1. BroadcastInv => NoLostConfig
  BY DEF BroadcastInv
<1> QED  BY <1>1, BroadcastInitInv, BroadcastNextInv, PTL DEF BroadcastSpec

-----------------------------------------------------------------------------
(***************************************************************************)
(* The dropping queues of the threads with a queue of their own behave as  *)
(* sticky flags: every step of the broadcast is a step of ConfigNotify, or *)
(* concerns a writer or a shared queue only.  The invariant is needed for  *)
(* the flag: a full queue keeps it up, and what is taken from the queue is *)
(* a MSG_CONFIG_START.                                                     *)
(***************************************************************************)
\* The started threads are those of ConfigNotify, no flag raised.
LEMMA InitNotification == BroadcastInit => Notification!Init
BY DEF BroadcastInit, Notification!Init, Dedicated

\* Every step is one of ConfigNotify, or leaves all its variables alone.
LEMMA NextNotification ==
    BroadcastInv /\ [BroadcastNext]_broadcastVars
        => [Notification!Next]_Notification!vars
<1> SUFFICES ASSUME BroadcastInv, [BroadcastNext]_broadcastVars
             PROVE  [Notification!Next]_Notification!vars
  OBVIOUS
<1>1. BroadcastTypeOK /\ OneKindOnly /\ Dedicated \subseteq Consumer
  BY ConstantsType DEF BroadcastInv, Dedicated
<1> USE <1>1 DEF BroadcastTypeOK, Notification!Next, Notification!vars
<1>2. CASE UNCHANGED broadcastVars
  BY <1>2 DEF broadcastVars
<1>3. ASSUME NEW w \in Writer, NEW r \in Register, StoreRegister(w, r)
      PROVE  Notification!Store(r)
  BY <1>3 DEF StoreRegister, Notification!Store
<1>4. ASSUME NEW w \in Writer, WriteConfig1(w)
      PROVE  UNCHANGED Notification!vars
  BY <1>4 DEF WriteConfig1
<1>5. ASSUME NEW w \in Writer, SendConfigStart(w)
      PROVE  [Notification!Next]_Notification!vars
  <2>1. PICK c \in Consumer : c = SendOrder[sending[w]]
    BY <1>5, SendOrderConsumer DEF SendConfigStart
  <2>2. CASE c \in Dedicated
    <3>1. Sent(queue[c], "MSG_CONFIG_START") # << >>
      <4>1. queue[c] \in Seq({"MSG_CONFIG_START"})
        BY <2>2 DEF OneKindOnly
      <4> QED  BY <4>1, SentNotEmpty
    <3>2. Notification!Notify(c)
      BY <1>5, <2>1, <2>2, <3>1 DEF SendConfigStart, Notification!Notify
    <3> QED  BY <2>2, <3>2
  <2>3. CASE c \notin Dedicated
    BY <1>5, <2>1, <2>3 DEF SendConfigStart
  <2> QED  BY <2>2, <2>3
<1>6. ASSUME NEW c \in Consumer, SendOther(c)
      PROVE  UNCHANGED Notification!vars
  BY <1>6 DEF SendOther, Dedicated
<1>7. ASSUME NEW c \in Consumer, Receive(c)
      PROVE  [Notification!Next]_Notification!vars
  <2>1. CASE c \in Dedicated
    <3>1. queue[c] # << >> /\ Head(queue[c]) = "MSG_CONFIG_START"
      BY <1>7, <2>1 DEF Receive, OneKindOnly
    <3>2. Notification!Begin(c)
      <4> DEFINE flag == [d \in Dedicated |-> queue[d] # << >>]
                 again == queue'[c] # << >>
      <4>1. flag' = [flag EXCEPT ![c] = again]
        BY <1>7, <2>1 DEF Receive
      <4>2. todo' = [todo EXCEPT ![c] = Reads[c]]
        BY <1>7, <3>1 DEF Receive
      <4> QED  BY <1>7, <2>1, <3>1, <4>1, <4>2 DEF Receive, Notification!Begin
    <3> QED  BY <2>1, <3>2
  <2>2. CASE c \notin Dedicated
    BY <1>7, <2>2 DEF Receive
  <2> QED  BY <2>1, <2>2
<1>8. ASSUME NEW c \in Consumer, NEW r \in Register, ReadRegister(c, r)
      PROVE  [Notification!Next]_Notification!vars
  <2>1. CASE c \in Dedicated
    BY <1>8, <2>1 DEF ReadRegister, Notification!Read
  <2>2. CASE c \notin Dedicated
    BY <1>8, <2>2 DEF ReadRegister
  <2> QED  BY <2>1, <2>2
<1>9. ASSUME PowerCycle
      PROVE  Notification!Restart
  BY <1>9 DEF PowerCycle, Notification!Restart
<1>10. ASSUME NEW c \in Consumer, Hold(c) \/ Release(c)
       PROVE  UNCHANGED Notification!vars
  BY <1>10 DEF Hold, Release
<1> QED
  BY <1>2, <1>3, <1>4, <1>5, <1>6, <1>7, <1>8, <1>9, <1>10
  DEF BroadcastNext, Running, WriterStep, ConsumerStep

\* The dropping queues of rtu_reset_flash1 implement sticky flags: whatever
\* ConfigNotify promises holds of the broadcast.
THEOREM QueuesImplementFlags == BroadcastSpec => ImplementsNotification
<1>1. BroadcastSpec => []BroadcastInv
  BY BroadcastInitInv, BroadcastNextInv, PTL DEF BroadcastSpec
<1> QED
  BY <1>1, InitNotification, NextNotification, PTL
  DEF BroadcastSpec, ImplementsNotification, Notification!Spec

-----------------------------------------------------------------------------
(***************************************************************************)
(* What sticky flags are good for: ConfigNotify itself, whatever           *)
(* implements it, misses no store that was announced.                      *)
(***************************************************************************)
Promise ==
    /\ Notification!TypeOK /\ Notification!NothingMissed
    /\ \A c \in Dedicated : \A r \in Register : announced[c][r] <= ver[r]

\* The same, thread by thread.
PromisedTo(c) ==
    /\ announced[c] \in [Register -> Nat] /\ seen[c] \in [Register -> Nat]
    /\ todo[c] \in SUBSET Register
    /\ \A r \in Register : announced[c][r] <= ver[r]
    /\ \A r \in Reads[c] :
          seen[c][r] >= announced[c][r] \/ queue[c] # << >> \/ r \in todo[c]

PromisedToAll == ver \in [Register -> Nat] /\ \A c \in Dedicated : PromisedTo(c)

LEMMA PromiseFields == Promise <=> PromisedToAll
<1>1. Notification!TypeOK <=>
        /\ ver \in [Register -> Nat]
        /\ \A c \in Dedicated :
              /\ announced[c] \in [Register -> Nat] /\ seen[c] \in [Register -> Nat]
              /\ todo[c] \in SUBSET Register
  BY DEF Notification!TypeOK
<1>2. Notification!NothingMissed <=>
        \A c \in Dedicated : \A r \in Reads[c] :
           seen[c][r] >= announced[c][r] \/ queue[c] # << >> \/ r \in todo[c]
  BY DEF Notification!NothingMissed
<1> QED  BY <1>1, <1>2 DEF Promise, PromisedToAll, PromisedTo

LEMMA PromiseInit == Notification!Init => Promise
<1> SUFFICES ASSUME Notification!Init PROVE Promise
  OBVIOUS
<1>1. ver = [r \in Register |-> 0]
  BY DEF Notification!Init
<1>2. ASSUME NEW c \in Dedicated
      PROVE  /\ announced[c] = ver /\ seen[c] = [r \in Register |-> 0]
             /\ todo[c] = Reads[c] /\ Reads[c] \in SUBSET Register
  <2>1. c \in Consumer
    BY DEF Dedicated
  <2>2. [d \in Dedicated |-> announced[d]][c] = announced[c]
    OBVIOUS
  <2> QED  BY <2>1, <2>2, ConstantsType DEF Notification!Init
<1> QED  BY <1>1, <1>2, PromiseFields DEF PromisedToAll, PromisedTo

\* A store that is not read yet has a flag or a reader.
LEMMA PromiseStep == Promise /\ [Notification!Next]_Notification!vars => Promise'
<1> SUFFICES ASSUME Promise, [Notification!Next]_Notification!vars PROVE Promise'
  OBVIOUS
<1>1. ver \in [Register -> Nat] /\ \A c \in Dedicated : PromisedTo(c)
  BY PromiseFields DEF PromisedToAll
<1>2. SUFFICES ver' \in [Register -> Nat] /\ \A c \in Dedicated : PromisedTo(c)'
  <2>1. PromisedToAll' => Promise'
    BY PromiseFields, PTL
  <2> QED  BY <2>1 DEF PromisedToAll
<1> USE DEF PromisedTo
<1>3. \A c \in Dedicated : Reads[c] \in SUBSET Register
  BY ConstantsType DEF Dedicated
<1>4. CASE UNCHANGED Notification!vars
  <2>1. ver' = ver
    BY <1>4 DEF Notification!vars
  <2>2. ASSUME NEW c \in Dedicated
        PROVE  /\ announced'[c] = announced[c] /\ seen'[c] = seen[c] /\ todo'[c] = todo[c]
               /\ queue'[c] # << >> <=> queue[c] # << >>
    BY <1>4 DEF Notification!vars
  <2> QED  BY <1>1, <2>1, <2>2
<1>5. ASSUME NEW s \in Register, Notification!Store(s)
      PROVE  ver' \in [Register -> Nat] /\ \A c \in Dedicated : PromisedTo(c)'
  <2>1. ver' \in [Register -> Nat] /\ \A r \in Register : ver[r] <= ver'[r]
    BY <1>1, <1>5 DEF Notification!Store
  <2>2. ASSUME NEW c \in Dedicated
        PROVE  /\ announced'[c] = announced[c] /\ seen'[c] = seen[c] /\ todo'[c] = todo[c]
               /\ queue'[c] # << >> <=> queue[c] # << >>
    BY <1>5 DEF Notification!Store
  <2>3. ASSUME NEW c \in Dedicated, NEW r \in Register PROVE announced'[c][r] <= ver'[r]
    <3>1. /\ announced[c][r] <= ver[r] /\ ver[r] <= ver'[r]
          /\ announced[c][r] \in Nat /\ ver[r] \in Nat /\ ver'[r] \in Nat
      BY <1>1, <2>1
    <3> QED  BY <2>2, <3>1
  <2> QED  BY <1>1, <2>1, <2>2, <2>3
<1>6. ASSUME NEW d \in Dedicated, Notification!Notify(d)
      PROVE  ver' \in [Register -> Nat] /\ \A c \in Dedicated : PromisedTo(c)'
  <2>1. ver' = ver
    BY <1>6 DEF Notification!Notify
  <2>2. ASSUME NEW c \in Dedicated
        PROVE  /\ announced'[c] = (IF c = d THEN ver ELSE announced[c])
               /\ seen'[c] = seen[c] /\ todo'[c] = todo[c]
               /\ queue'[c] # << >> <=> (c = d \/ queue[c] # << >>)
    BY <1>6 DEF Notification!Notify
  <2>3. ASSUME NEW c \in Dedicated PROVE PromisedTo(c)'
    <3>1. CASE c = d
      BY <1>1, <2>1, <2>2, <3>1
    <3>2. CASE c # d
      BY <1>1, <2>1, <2>2, <3>2
    <3> QED  BY <3>1, <3>2
  <2> QED  BY <1>1, <2>1, <2>3
<1>7. ASSUME NEW d \in Dedicated, Notification!Begin(d)
      PROVE  ver' \in [Register -> Nat] /\ \A c \in Dedicated : PromisedTo(c)'
  <2>1. ver' = ver
    BY <1>7 DEF Notification!Begin
  <2>2. ASSUME NEW c \in Dedicated
        PROVE  /\ announced'[c] = announced[c] /\ seen'[c] = seen[c]
               /\ todo'[c] = (IF c = d THEN Reads[d] ELSE todo[c])
               /\ c # d => (queue'[c] # << >> <=> queue[c] # << >>)
    BY <1>7 DEF Notification!Begin
  <2>3. ASSUME NEW c \in Dedicated PROVE PromisedTo(c)'
    <3>1. CASE c = d
      BY <1>1, <1>3, <2>1, <2>2, <3>1
    <3>2. CASE c # d
      BY <1>1, <2>1, <2>2, <3>2
    <3> QED  BY <3>1, <3>2
  <2> QED  BY <1>1, <2>1, <2>3
<1>8. ASSUME NEW d \in Dedicated, NEW s \in Register, Notification!Read(d, s)
      PROVE  ver' \in [Register -> Nat] /\ \A c \in Dedicated : PromisedTo(c)'
  <2>1. ver' = ver
    BY <1>8 DEF Notification!Read
  <2>2. ASSUME NEW c \in Dedicated
        PROVE  /\ announced'[c] = announced[c]
               /\ seen'[c] = (IF c = d THEN [seen[c] EXCEPT ![s] = ver[s]] ELSE seen[c])
               /\ todo'[c] = (IF c = d THEN todo[c] \ {s} ELSE todo[c])
               /\ queue'[c] # << >> <=> queue[c] # << >>
    BY <1>8 DEF Notification!Read
  <2>3. ASSUME NEW c \in Dedicated PROVE PromisedTo(c)'
    <3>1. CASE c = d
      <4>1. /\ announced'[c] = announced[c] /\ todo'[c] = todo[c] \ {s}
            /\ seen'[c] = [seen[c] EXCEPT ![s] = ver[s]]
            /\ queue'[c] # << >> <=> queue[c] # << >>
        BY <2>2, <3>1
      <4>2. ver[s] \in Nat /\ ver[s] >= announced[c][s]
        BY <1>1
      <4>3. seen'[c] \in [Register -> Nat]
        BY <1>1, <4>1, <4>2
      <4>4. ASSUME NEW r \in Reads[c]
            PROVE  seen'[c][r] >= announced'[c][r] \/ queue'[c] # << >> \/ r \in todo'[c]
        <5>1. r \in Register
          BY <1>3
        <5>2. CASE r = s
          BY <1>1, <4>1, <4>2, <5>1, <5>2
        <5>3. CASE r # s
          BY <1>1, <4>1, <5>1, <5>3
        <5> QED  BY <5>2, <5>3
      <4> QED  BY <1>1, <2>1, <4>1, <4>3, <4>4
    <3>2. CASE c # d
      BY <1>1, <2>1, <2>2, <3>2
    <3> QED  BY <3>1, <3>2
  <2> QED  BY <1>1, <2>1, <2>3
<1>9. ASSUME Notification!Restart
      PROVE  ver' \in [Register -> Nat] /\ \A c \in Dedicated : PromisedTo(c)'
  <2>1. ver' = ver
    BY <1>9 DEF Notification!Restart
  <2>2. ASSUME NEW c \in Dedicated
        PROVE  /\ announced'[c] = ver /\ seen'[c] = [r \in Register |-> 0]
               /\ todo'[c] = Reads[c]
    BY <1>9 DEF Notification!Restart
  <2> QED  BY <1>1, <1>3, <2>1, <2>2
<1> QED  BY <1>4, <1>5, <1>6, <1>7, <1>8, <1>9 DEF Notification!Next

\* A sticky flag misses nothing that was announced, however many announcements
\* it stands for.
THEOREM FlagsMissNothing == Notification!Spec => []Notification!NothingMissed
<1>1. Promise => Notification!NothingMissed
  BY DEF Promise
<1> QED  BY <1>1, PromiseInit, PromiseStep, PTL DEF Notification!Spec

\* So does the broadcast: as it implements the flags, it keeps their promise
\* without another look at its queues.
THEOREM BroadcastMissesNothing == BroadcastSpec => []Notification!NothingMissed
BY QueuesImplementFlags, FlagsMissNothing, PTL DEF ImplementsNotification

=============================================================================
