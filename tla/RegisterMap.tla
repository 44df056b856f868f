---------------------------- MODULE RegisterMap ----------------------------
(***************************************************************************)
(* The register map of the RTU (data/map.c) as its server threads see it.  *)
(* Every well has internal registers, kept in ram_x, and a Modbus address  *)
(* map ram_y that leads to them.  A row of a CSV file gives an internal    *)
(* register its type: a register of type FLASH1 or FLASH2 is kept in a     *)
(* memory-mapped file too, and a register of type SYS has side effects.    *)
(* flash1 is shared by the wells; the well's type, in flash2, selects the  *)
(* second CSV file.                                                        *)
(*                                                                         *)
(* A store to flash1 or flash2 changes the memory-mapped page; the page    *)
(* reaches the disk when msync succeeds, or when the kernel writes it back *)
(* on its own.  lock_modbus_rtu_lock does nothing, so the steps of threads *)
(* interleave freely: each action below is one access.                     *)
(*                                                                         *)
(* The registers with side effects kept here are the well type and one     *)
(* relay; the configuration broadcast is in ConfigBroadcast, the sampling  *)
(* intervals are in Master485.                                             *)
(***************************************************************************)
EXTENDS Integers, Sequences, SequencesExt

CONSTANTS Well,         \* well numbers; well 1 keeps the relays
          Reg,          \* internal registers
          WELL_TYPE, DO0,     \* MAP_CHANGE_WELL_TYPE, MAP_GET_DO0
          Addr,         \* Modbus addresses, an interval of numbers
          Value,        \* what registers are written
          Blank,        \* what an erased register reads (0xFFFF)
          Map1,         \* the rows of map1.csv, in order
          Map00,        \* the rows of map_00t.csv, for each well type t
          Server,       \* threads that serve Modbus requests
          Button,       \* threads that may reset flash1 (the gpio thread)
          Requests,     \* the requests [w, i, req] the Modbus masters send
          MaxFail       \* bound: failures of msync

WellType == DOMAIN Map00
Thread == Server \cup Button
RegType == {"MAP_NULL", "FLASH1", "FLASH2", "SYS"}
Row == [x : Reg, y : Addr, type : RegType, rw : {"RO", "RW"}, dv : Value]

ASSUME MapAssumption ==
    /\ 1 \in Well
    /\ {WELL_TYPE, DO0} \subseteq Reg /\ WELL_TYPE # DO0
    /\ Addr \subseteq Nat /\ \A a, b \in Addr : a .. b \subseteq Addr
    /\ Map1 \in Seq(Row)
    /\ Map00 \in [WellType -> Seq(Row)]
    /\ 1 \in WellType /\ WellType \subseteq Value
    /\ {0, 1} \subseteq Value /\ Blank \notin Value
    /\ Requests \subseteq [w : Well, i : Addr, req : Seq(Value)]
    /\ MaxFail \in Nat

\* What the files in image/ have in common.  The rows of a well of type t name
\* each register and each address once; the well type is a SYS register of
\* map1.csv, which alone has FLASH1 registers; a register that can be written
\* has the same address in all tables.
Rows(t) == ToSet(Map1) \cup ToSet(Map00[t])
AllRows == UNION {Rows(t) : t \in WellType}

ASSUME TablesAssumption ==
    /\ \A t \in WellType : \A r, s \in Rows(t) : r.x = s.x \/ r.y = s.y => r = s
    /\ \A t \in WellType : ToSet(Map1) \cap ToSet(Map00[t]) = {}
    /\ \E r \in ToSet(Map1) : r.x = WELL_TYPE /\ r.type = "SYS"
    /\ \A t \in WellType : \A r \in ToSet(Map00[t]) : r.type # "FLASH1"
    /\ \A r, s \in AllRows : r.x = s.x /\ r.rw = "RW" => r.y = s.y

VARIABLES
    ram,      \* ram[w]: x (ram_x), type, rw, and y (ram_y with its type)
    flash1, flash2,     \* the mapped pages
    disk1, disk2,       \* what the files hold on the disk
    file,     \* file[f]: the file of flash f exists on the disk
    relay,    \* the relay is on
    phase,    \* "off", "created", "filled", "on": how far map_init is
    fresh,    \* the flash1_is_new and flash2_is_new of map_init
    op,       \* op[t]: what thread t is executing
    failed,   \* failed[f]: the last msync of flash f failed
    fails,    \* number of failures of msync
    torn1,    \* power was lost before flash1 had all its defaults on the disk
    torn2,    \* the wells whose part of flash2 that happened to
    changed   \* the wells whose type no msync has confirmed

flash == <<flash1, flash2>>
disk == <<disk1, disk2, file>>
boot == <<phase, fresh>>
sync == <<failed, fails>>
torn == <<torn1, torn2, changed>>

vars == <<ram, flash, disk, relay, boot, op, sync, torn>>

Stored == Value \cup {Blank}
Contents1 == [Reg -> Stored]
Contents2 == [Well -> [Reg -> Stored]]
Target == [reg : Reg] \cup [val : Stored]
WellRam == [x : [Reg -> Stored], type : [Reg -> RegType],
            rw : [Reg -> {"RO", "RW"}], y : [Addr -> Target]]
Pc == {"idle", "addr", "reg", "sync1", "sync2", "ram", "remap", "remap_flash",
       "synced2", "relay", "reset", "reset_sync"}
\* w, i, j, req: well, next address, end and values of the request; b: where
\* buf points to in it; x, v: the register being written; k: the next row;
\* alone: no other thread has been busy since the request came (only
\* WritableRequestLands looks at it).
Op == [pc : Pc, w : Well, i : Int, j : {0} \cup {a + 1 : a \in Addr}, req : Seq(Value), b : Nat,
       x : Reg, v : Value, k : Nat, alone : BOOLEAN]

TypeOK ==
    /\ ram \in [Well -> WellRam]
    /\ flash1 \in Contents1 /\ flash2 \in Contents2
    /\ disk1 \in Contents1 /\ disk2 \in Contents2
    /\ file \in [1 .. 2 -> BOOLEAN]
    /\ relay \in BOOLEAN
    /\ phase \in {"off", "created", "filled", "on"}
    /\ fresh \in [1 .. 2 -> BOOLEAN]
    /\ op \in [Thread -> Op]
    /\ failed \in [1 .. 2 -> BOOLEAN] /\ fails \in 0 .. MaxFail
    /\ torn1 \in BOOLEAN /\ torn2 \subseteq Well /\ changed \subseteq Well

-----------------------------------------------------------------------------
Blank1 == [x \in Reg |-> Blank]
Blank2 == [w \in Well |-> Blank1]
BlankRam == [x |-> Blank1, type |-> [x \in Reg |-> "MAP_NULL"],
             rw |-> [x \in Reg |-> "RO"], y |-> [a \in Addr |-> [val |-> Blank]]]
Idle == [pc |-> "idle", w |-> 1, i |-> 0, j |-> 0, req |-> << >>, b |-> 1,
         x |-> WELL_TYPE, v |-> 1, k |-> 1, alone |-> FALSE]

\* A row read by ram_map_flash1_value_init: m is the ram of one well.
Install(m, row) ==
    [m EXCEPT !.x[row.x] = row.dv, !.type[row.x] = row.type,
              !.rw[row.x] = row.rw, !.y[row.y] = [reg |-> row.x]]

\* The default of a row goes to flash1, else to flash2, of the new ones.
ToFlash1(row, new) == row.type \in {"SYS", "FLASH1"} /\ new[1]
ToFlash2(row, new) ==
    ~ToFlash1(row, new) /\ row.type \in {"SYS", "FLASH2"} /\ new[2]
Default1(f, row, new) ==
    IF ToFlash1(row, new) THEN [f EXCEPT ![row.x] = row.dv] ELSE f
Default2(f, row, new) ==
    IF ToFlash2(row, new) THEN [f EXCEPT ![row.x] = row.dv] ELSE f

\* The same for all rows of a table; their order does not matter, since no two
\* name the same register or the same address.
RowOf(rows, x) == CHOOSE r \in rows : r.x = x
InstallAll(rows) ==
    LET named == {r.x : r \in rows} IN
    [x |-> [x \in Reg |-> IF x \in named THEN RowOf(rows, x).dv ELSE Blank],
     type |-> [x \in Reg |-> IF x \in named THEN RowOf(rows, x).type ELSE "MAP_NULL"],
     rw |-> [x \in Reg |-> IF x \in named THEN RowOf(rows, x).rw ELSE "RO"],
     y |-> [a \in Addr |-> IF \E r \in rows : r.y = a
                           THEN [reg |-> (CHOOSE r \in rows : r.y = a).x]
                           ELSE [val |-> Blank]]]
DefaultAll(f, rows) ==
    [x \in Reg |-> IF \E r \in rows : r.x = x THEN RowOf(rows, x).dv ELSE f[x]]
DefaultAll1(f, rows, new) == DefaultAll(f, {r \in rows : ToFlash1(r, new)})
DefaultAll2(f, rows, new) == DefaultAll(f, {r \in rows : ToFlash2(r, new)})

\* ram_map_flash2_value_init: an unknown well type becomes 1.
KnownType(t) == IF t \in WellType THEN t ELSE 1

\* zigbee_read_registers and map_map_fun_read.
Read(w, x) ==
    CASE ram[w].type[x] = "FLASH1" -> flash1[x]
      [] ram[w].type[x] = "FLASH2" -> flash2[w][x]
      [] ram[w].type[x] = "SYS" /\ x = WELL_TYPE -> flash2[w][WELL_TYPE]
      [] ram[w].type[x] = "SYS" /\ x = DO0 -> flash2[1][DO0]
      [] OTHER -> ram[w].x[x]

\* map_modbus_read_registers, for one address.
ReadAddr(w, a) ==
    LET e == ram[w].y[a] IN IF "reg" \in DOMAIN e THEN Read(w, e.reg) ELSE e.val

-----------------------------------------------------------------------------
(***************************************************************************)
(* map_init, while no other thread runs.                                   *)
(***************************************************************************)
Init ==
    /\ ram = [w \in Well |-> BlankRam]
    /\ flash1 = Blank1 /\ flash2 = Blank2
    /\ disk1 = Blank1 /\ disk2 = Blank2
    /\ file = [f \in 1 .. 2 |-> FALSE]
    /\ relay = FALSE
    /\ phase = "off"
    /\ fresh = [f \in 1 .. 2 |-> FALSE]
    /\ op = [t \in Thread |-> Idle]
    /\ failed = [f \in 1 .. 2 |-> FALSE] /\ fails = 0
    /\ torn1 = FALSE /\ torn2 = {} /\ changed = {}

\* ram_flash_create: a file that is missing is made, full of 0xFF.
CreateFlash ==
    /\ phase = "off"
    /\ phase' = "created"
    /\ fresh' = [f \in 1 .. 2 |-> ~file[f]]
    /\ flash1' = disk1 /\ flash2' = disk2
    /\ UNCHANGED <<ram, disk, relay, op, sync, torn>>

\* Mutant: flash2_is_new is set as map_item_remap sets it.
FillMap_New ==
    /\ phase = "created"
    /\ phase' = "filled"
    /\ LET new2 == [f \in 1 .. 2 |-> f = 2]
           common == DefaultAll2(flash2[1], ToSet(Map1), fresh)
           start(w) == IF fresh[2] THEN common ELSE flash2[w]
           type(w) == KnownType(start(w)[WELL_TYPE])
       IN /\ ram' = [w \in Well |-> InstallAll(Rows(type(w)))]
          /\ flash1' = DefaultAll1(flash1, ToSet(Map1), fresh)
          /\ flash2' = [w \in Well |->
                          DefaultAll2([start(w) EXCEPT ![WELL_TYPE] = type(w)],
                                      ToSet(Map00[type(w)]), new2)]
    /\ UNCHANGED <<disk, relay, fresh, op, sync, torn>>

\* map1.csv for well 1, copied to the other wells, then map_00t.csv for each.
FillMap ==
    /\ phase = "created"
    /\ phase' = "filled"
    /\ LET new2 == [f \in 1 .. 2 |-> f = 2 /\ fresh[2]]
           common == DefaultAll2(flash2[1], ToSet(Map1), fresh)
           start(w) == IF fresh[2] THEN common ELSE flash2[w]
           type(w) == KnownType(start(w)[WELL_TYPE])
       IN /\ ram' = [w \in Well |-> InstallAll(Rows(type(w)))]
          /\ flash1' = DefaultAll1(flash1, ToSet(Map1), fresh)
          /\ flash2' = [w \in Well |->
                          DefaultAll2([start(w) EXCEPT ![WELL_TYPE] = type(w)],
                                      ToSet(Map00[type(w)]), new2)]
    /\ UNCHANGED <<disk, relay, fresh, op, sync, torn>>

\* The msync calls that end map_init, then gpio_do_init: the relay register
\* is made 0 or 1, the relay set accordingly and the register stored.
StartThreads ==
    /\ phase = "filled"
    /\ phase' = "on"
    /\ relay' = (Read(1, DO0) = 1)
    /\ LET f == IF Read(1, DO0) = 1 THEN 1 ELSE 0 IN
         /\ flash2' = [flash2 EXCEPT ![1][DO0] = f]
         /\ ram' = [ram EXCEPT ![1].x[DO0] = f]
    /\ disk1' = flash1 /\ disk2' = flash2'
    /\ file' = [f \in 1 .. 2 |-> TRUE]
    /\ failed' = [f \in 1 .. 2 |-> FALSE]
    /\ UNCHANGED <<flash1, fresh, op, fails, torn>>

-----------------------------------------------------------------------------
(***************************************************************************)
(* Requests.                                                               *)
(***************************************************************************)
At(t, pc) == phase = "on" /\ op[t].pc = pc
Become(t, o) == op' = [op EXCEPT ![t] = o]
Goto(t, pc) == Become(t, [op[t] EXCEPT !.pc = pc])

\* Thread t starts on o; whoever is busy is not alone any more.
Begin(t, o) ==
    LET others == Thread \ {t} IN
    op' = [u \in Thread |->
             IF u # t THEN [op[u] EXCEPT !.alone = FALSE]
             ELSE [o EXCEPT !.alone = \A v \in others : op[v].pc = "idle"]]

\* Mutant: the end of the request is not compared with MAX_REGISTER_NUM.
Request_NoEnd(t, q) ==
    /\ t \in Server /\ At(t, "idle")
    /\ Begin(t, [Idle EXCEPT !.pc = "addr", !.w = q.w, !.i = q.i,
                             !.j = q.i + Len(q.req), !.req = q.req])
    /\ UNCHANGED <<ram, flash, disk, relay, boot, sync, torn>>

\* Modbus functions 6 and 16 call map_modbus_write_registers.
Request(t, q) ==
    /\ t \in Server /\ At(t, "idle")
    /\ q.i + Len(q.req) - 1 \in Addr
    /\ Begin(t, [Idle EXCEPT !.pc = "addr", !.w = q.w, !.i = q.i,
                             !.j = q.i + Len(q.req), !.req = q.req])
    /\ UNCHANGED <<ram, flash, disk, relay, boot, sync, torn>>

\* All addresses are done; the reply is sent.
Reply(t) ==
    /\ At(t, "addr") /\ op[t].i = op[t].j
    /\ Become(t, Idle)
    /\ UNCHANGED <<ram, flash, disk, relay, boot, sync, torn>>

\* An address without a row is stored in ram_y itself.
WriteUnmapped(t) ==
    LET o == op[t] IN
    /\ At(t, "addr") /\ o.i < o.j
    /\ "val" \in DOMAIN ram[o.w].y[o.i]
    /\ ram' = [ram EXCEPT ![o.w].y[o.i] = [val |-> o.req[o.b]]]
    /\ Become(t, [o EXCEPT !.i = @ + 1, !.b = @ + 1])
    /\ UNCHANGED <<flash, disk, relay, boot, sync, torn>>

\* A read-only register is passed over; buf stays where it is.
SkipReadOnly(t) ==
    LET o == op[t] IN
    /\ At(t, "addr") /\ o.i < o.j
    /\ "reg" \in DOMAIN ram[o.w].y[o.i]
    /\ ram[o.w].rw[ram[o.w].y[o.i].reg] = "RO"
    /\ Become(t, [o EXCEPT !.i = @ + 1])
    /\ UNCHANGED <<ram, flash, disk, relay, boot, sync, torn>>

\* Mutant: buf is not advanced.
EnterWrite_KeepBuf(t) ==
    LET o == op[t] IN
    /\ At(t, "addr") /\ o.i < o.j
    /\ "reg" \in DOMAIN ram[o.w].y[o.i]
    /\ ram[o.w].rw[ram[o.w].y[o.i].reg] = "RW"
    /\ Become(t, [o EXCEPT !.pc = "reg", !.x = ram[o.w].y[o.i].reg,
                           !.v = o.req[o.b], !.i = @ + 1])
    /\ UNCHANGED <<ram, flash, disk, relay, boot, sync, torn>>

\* Any other register is written by zigbee_write_registers.
EnterWrite(t) ==
    LET o == op[t] IN
    /\ At(t, "addr") /\ o.i < o.j
    /\ "reg" \in DOMAIN ram[o.w].y[o.i]
    /\ ram[o.w].rw[ram[o.w].y[o.i].reg] = "RW"
    /\ Become(t, [o EXCEPT !.pc = "reg", !.x = ram[o.w].y[o.i].reg,
                           !.v = o.req[o.b], !.i = @ + 1, !.b = @ + 1])
    /\ UNCHANGED <<ram, flash, disk, relay, boot, sync, torn>>

Type(t) == ram[op[t].w].type[op[t].x]
HasFunction(t) == Type(t) = "SYS" /\ op[t].x \in {WELL_TYPE, DO0}

\* A register in ram only, or a SYS register without a function.
NoFlash(t) ==
    /\ At(t, "reg")
    /\ Type(t) \in {"MAP_NULL", "SYS"} /\ ~HasFunction(t)
    /\ Goto(t, "ram")
    /\ UNCHANGED <<ram, flash, disk, relay, boot, sync, torn>>

\* Mutant: the register is stored without msync.
StoreFlash1_NoSync(t) ==
    /\ At(t, "reg") /\ Type(t) = "FLASH1"
    /\ flash1' = [flash1 EXCEPT ![op[t].x] = op[t].v]
    /\ Goto(t, "ram")
    /\ UNCHANGED <<ram, flash2, disk, relay, boot, sync, torn>>

StoreFlash1(t) ==
    /\ At(t, "reg") /\ Type(t) = "FLASH1"
    /\ flash1' = [flash1 EXCEPT ![op[t].x] = op[t].v]
    /\ Goto(t, "sync1")
    /\ UNCHANGED <<ram, flash2, disk, relay, boot, sync, torn>>

StoreFlash2(t) ==
    /\ At(t, "reg") /\ Type(t) = "FLASH2"
    /\ flash2' = [flash2 EXCEPT ![op[t].w][op[t].x] = op[t].v]
    /\ Goto(t, "sync2")
    /\ UNCHANGED <<ram, flash1, disk, relay, boot, sync, torn>>

\* The last store of a register write, to ram_x.
StoreRam(t) ==
    /\ At(t, "ram")
    /\ ram' = [ram EXCEPT ![op[t].w].x[op[t].x] = op[t].v]
    /\ Goto(t, "addr")
    /\ UNCHANGED <<flash, disk, relay, boot, sync, torn>>

\* map_item_remap: the new type is stored, unless it is unknown.
ChangeWellType(t) ==
    LET o == op[t] IN
    /\ At(t, "reg") /\ HasFunction(t) /\ o.x = WELL_TYPE
    /\ IF o.v \in WellType
          THEN /\ flash2' = [flash2 EXCEPT ![o.w][WELL_TYPE] = o.v]
               /\ changed' = changed \cup {o.w}
               /\ Become(t, [o EXCEPT !.pc = "remap", !.k = 1])
          ELSE /\ Goto(t, "ram")
               /\ UNCHANGED <<flash2, changed>>
    /\ UNCHANGED <<ram, flash1, disk, relay, boot, sync, torn1, torn2>>

\* map_item_remap reads the next row of the new type, with flash2_is_new:
\* first the maps in ram, then the default in flash2.
RemapRow(t) ==
    LET o == op[t] IN
    /\ At(t, "remap")
    /\ IF o.k <= Len(Map00[o.v])
          THEN /\ ram' = [ram EXCEPT ![o.w] = Install(@, Map00[o.v][o.k])]
               /\ Goto(t, "remap_flash")
          ELSE Goto(t, "synced2") /\ UNCHANGED ram
    /\ UNCHANGED <<flash, disk, relay, boot, sync, torn>>

\* Mutant: flash2_is_new is not set.
RemapDefault_Keep(t) ==
    LET o == op[t]
        row == Map00[o.v][o.k]
    IN
    /\ At(t, "remap_flash")
    /\ flash2' = [flash2 EXCEPT ![o.w] = Default2(@, row, [f \in 1 .. 2 |-> FALSE])]
    /\ Become(t, [o EXCEPT !.pc = "remap", !.k = @ + 1])
    /\ UNCHANGED <<ram, flash1, disk, relay, boot, sync, torn>>

RemapDefault(t) ==
    LET o == op[t]
        row == Map00[o.v][o.k]
    IN
    /\ At(t, "remap_flash")
    /\ flash2' = [flash2 EXCEPT ![o.w] = Default2(@, row, [f \in 1 .. 2 |-> f = 2])]
    /\ Become(t, [o EXCEPT !.pc = "remap", !.k = @ + 1])
    /\ UNCHANGED <<ram, flash1, disk, relay, boot, sync, torn>>

\* map_map_fun_write of MAP_GET_DO0: gpio_set_do switches the relay ...
SetRelay(t) ==
    /\ At(t, "reg") /\ HasFunction(t) /\ op[t].x = DO0
    /\ relay' = (op[t].v = 1)
    /\ Goto(t, "relay")
    /\ UNCHANGED <<ram, flash, disk, boot, sync, torn>>

\* ... and the register is stored for well 1, whatever the well.
StoreRelay(t) ==
    /\ At(t, "relay")
    /\ flash2' = [flash2 EXCEPT ![1][DO0] = op[t].v]
    /\ ram' = [ram EXCEPT ![op[t].w].x[DO0] = op[t].v]
    /\ Goto(t, "synced2")
    /\ UNCHANGED <<flash1, disk, relay, boot, sync, torn>>

\* reset_flash1_to_default, by the reset button.
PressButton(t) ==
    /\ t \in Button /\ At(t, "idle")
    /\ Begin(t, [Idle EXCEPT !.pc = "reset"])
    /\ UNCHANGED <<ram, flash, disk, relay, boot, sync, torn>>

\* It reads map1.csv again, for well 1, with flash1_is_new.
ResetRow(t) ==
    LET row == Map1[op[t].k]
        new == [f \in 1 .. 2 |-> f = 1]
    IN
    /\ At(t, "reset")
    /\ IF op[t].k <= Len(Map1)
          THEN /\ ram' = [ram EXCEPT ![1] = Install(@, row)]
               /\ flash1' = Default1(flash1, row, new)
               /\ Become(t, [op[t] EXCEPT !.k = @ + 1])
          ELSE Goto(t, "reset_sync") /\ UNCHANGED <<ram, flash1>>
    /\ UNCHANGED <<flash2, disk, relay, boot, sync, torn>>

(***************************************************************************)
(* msync of the whole of flash f.  After a failure the register write of a *)
(* FLASH1 or FLASH2 register is abandoned, ram_x not stored; the functions *)
(* of SYS registers only print.  Nobody tells the Modbus master.           *)
(***************************************************************************)
Syncing(t, f) == IF f = 1 THEN op[t].pc \in {"sync1", "reset_sync"}
                 ELSE op[t].pc \in {"sync2", "synced2"}
AfterSync(t, ok) ==
    CASE op[t].pc \in {"sync1", "sync2"} -> Goto(t, IF ok THEN "ram" ELSE "addr")
      [] op[t].pc = "synced2" -> Goto(t, "ram")
      [] op[t].pc = "reset_sync" -> Become(t, Idle)

\* Well w is being given a new type: its rows are not all dealt with.
Remapping(w) == \E t \in Thread : op[t].w = w /\ op[t].pc \in {"remap", "remap_flash"}

Msync(t, f) ==
    /\ phase = "on" /\ Syncing(t, f)
    /\ IF f = 1
          THEN disk1' = flash1 /\ UNCHANGED <<disk2, changed>>
          ELSE /\ disk2' = flash2
               /\ changed' = {w \in changed : Remapping(w)}
               /\ UNCHANGED disk1
    /\ failed' = [failed EXCEPT ![f] = FALSE]
    /\ AfterSync(t, TRUE)
    /\ UNCHANGED <<ram, flash, file, relay, boot, fails, torn1, torn2>>

MsyncFails(t, f) ==
    /\ phase = "on" /\ Syncing(t, f) /\ fails < MaxFail
    /\ fails' = fails + 1
    /\ failed' = [failed EXCEPT ![f] = TRUE]
    /\ AfterSync(t, FALSE)
    /\ UNCHANGED <<ram, flash, disk, relay, boot, torn>>

-----------------------------------------------------------------------------
(***************************************************************************)
(* The environment.                                                        *)
(***************************************************************************)
\* The kernel writes the page with one register of flash1 back, when it
\* likes; a file that was just made exists on the disk from then on.
WriteBack1(x) ==
    /\ phase # "off"
    /\ disk1' = [disk1 EXCEPT ![x] = flash1[x]]
    /\ file' = [file EXCEPT ![1] = TRUE]
    /\ UNCHANGED <<ram, flash, disk2, relay, boot, op, sync, torn>>

WriteBack2(w, x) ==
    /\ phase # "off"
    /\ disk2' = [disk2 EXCEPT ![w][x] = flash2[w][x]]
    /\ file' = [file EXCEPT ![2] = TRUE]
    /\ UNCHANGED <<ram, flash, disk1, relay, boot, op, sync, torn>>

\* Thread t has stored to the page, and its msync is still to come.
Unsynced1(t) == op[t].pc \in {"sync1", "reset", "reset_sync"}
Unsynced2(t) == op[t].pc \in {"sync2", "remap", "remap_flash", "synced2"}

\* File f has just been made, and msync has not confirmed its defaults.
Creating(f) == phase \in {"created", "filled"} /\ fresh[f]

\* Power is lost.  The relay latches in either position.  A file that is on the
\* disk already, without all its defaults, is not new at the next start.
PowerLoss ==
    /\ phase # "off"
    /\ phase' = "off"
    /\ torn1' = (torn1 \/ (Creating(1) /\ file[1]))
    /\ torn2' = torn2 \cup changed \cup (IF Creating(2) /\ file[2] THEN Well ELSE {})
    /\ changed' = {}
    /\ ram' = [w \in Well |-> BlankRam]
    /\ flash1' = Blank1 /\ flash2' = Blank2
    /\ op' = [t \in Thread |-> Idle]
    /\ fresh' = [f \in 1 .. 2 |-> FALSE] /\ failed' = [f \in 1 .. 2 |-> FALSE]
    /\ UNCHANGED <<disk, relay, fails>>

Serve(t) ==
    \/ \E q \in Requests : Request(t, q)
    \/ Reply(t) \/ WriteUnmapped(t) \/ SkipReadOnly(t) \/ EnterWrite(t)
    \/ NoFlash(t) \/ StoreFlash1(t) \/ StoreFlash2(t) \/ StoreRam(t)
    \/ ChangeWellType(t) \/ RemapRow(t) \/ RemapDefault(t) \/ SetRelay(t) \/ StoreRelay(t)
    \/ PressButton(t) \/ ResetRow(t)
    \/ \E f \in 1 .. 2 : Msync(t, f) \/ MsyncFails(t, f)

Next ==
    \/ CreateFlash \/ FillMap \/ StartThreads
    \/ \E t \in Thread : Serve(t)
    \/ \E x \in Reg : WriteBack1(x) \/ \E w \in Well : WriteBack2(w, x)
    \/ PowerLoss

Spec == Init /\ [][Next]_vars

-----------------------------------------------------------------------------
(***************************************************************************)
(* What a Modbus master was told is stored is on the disk: a page differs  *)
(* from the disk only while a thread is between its store and its msync,   *)
(* or after an msync that failed and has not been made good by another.    *)
(***************************************************************************)
Durable ==
    phase = "on" =>
        /\ disk1 # flash1 => failed[1] \/ \E t \in Thread : Unsynced1(t)
        /\ disk2 # flash2 => failed[2] \/ \E t \in Thread : Unsynced2(t)

(***************************************************************************)
(* What a loss of power while a flash file is given its defaults does not  *)
(* reach.  It does leave registers erased, and no later start gives them   *)
(* their defaults: the file is not new any more.  But they are registers   *)
(* of that file alone; a change of type cut off, or whose msync failed     *)
(* before the loss, leaves erased registers in its own well alone; and a   *)
(* well has a known type whatever its file holds.                          *)
(***************************************************************************)
Erased(w, x) == Read(w, x) = Blank

NeverErased ==
    phase = "on" =>
        \A w \in Well :
            /\ Read(w, WELL_TYPE) \in WellType
            /\ \A x \in Reg : Erased(w, x) =>
                 /\ ram[w].type[x] = "FLASH1" => torn1
                 /\ ram[w].type[x] = "FLASH2" => w \in torn2 \/ Remapping(w)

(***************************************************************************)
(* A restart never replaces stored settings by defaults: a file that was   *)
(* there is left as it is, even if the other one had to be made anew.      *)
(***************************************************************************)
SettingsSurvive ==
    phase = "filled" =>
        /\ ~fresh[1] => flash1 = disk1
        /\ ~fresh[2] => \A w \in Well, x \in Reg :
              \/ flash2[w][x] = disk2[w][x]
              \/ x = WELL_TYPE /\ disk2[w][x] \notin WellType

(***************************************************************************)
(* A request has landed when its reply is sent: each address it names      *)
(* reads as the value sent for it, if no other thread was busy meanwhile.  *)
(***************************************************************************)
Done(t) == At(t, "addr") /\ op[t].i = op[t].j
Named(t, n) == ram[op[t].w].y[op[t].j - Len(op[t].req) + n - 1]
Writable(t, n) ==
    LET e == Named(t, n) IN
    "reg" \in DOMAIN e => e.reg # WELL_TYPE /\ ram[op[t].w].rw[e.reg] = "RW"
Landed(t, n) ==
    ReadAddr(op[t].w, op[t].j - Len(op[t].req) + n - 1) = op[t].req[n]

WritableRequestLands ==
    \A t \in Server : Done(t) /\ op[t].alone =>
        LET N == 1 .. Len(op[t].req) IN
        (\A n \in N : Writable(t, n)) => \A n \in N : Landed(t, n)

=============================================================================
