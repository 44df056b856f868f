--------------------------- MODULE MCRegisterMap ---------------------------
(***************************************************************************)
(* Instances of RegisterMap for TLC: a few rows of each kind, as they      *)
(* stand in map1.csv, map_001.csv and map_003.csv.                         *)
(***************************************************************************)
EXTENDS RegisterMap

R(x, y, dv, rw, type) == [x |-> x, y |-> y, type |-> type, rw |-> rw, dv |-> dv]
Q(w, i, req) == [w |-> w, i |-> i, req |-> req]

\* The settings of the RTU and of a well: the well type, a FLASH1 register;
\* type 1 has the relay only, type 2 has a FLASH2 register of its own.
SettingsMap1 == <<R("type", 1, 1, "RW", "SYS"), R("port", 2, 0, "RW", "FLASH1")>>
SettingsAddr == 1 .. 4
SettingsReg == {"type", "port", "do", "rate"}
SettingsMap00 == <<
    <<R("do", 3, 0, "RW", "SYS")>>,
    <<R("do", 3, 0, "RW", "SYS"), R("rate", 4, 1, "RW", "FLASH2")>> >>

SettingsRequests ==
    {Q(1, 1, <<1>>), Q(1, 1, <<2>>), Q(1, 2, <<1>>), Q(1, 4, <<0>>), Q(1, 4, <<0, 0>>)}

\* The relay, which each well has a register of, and requests for several
\* registers, one of them read-only, one in ram only, one without a row.
ManyMap1 == <<R("type", 1, 1, "RW", "SYS"), R("load", 2, 0, "RO", "MAP_NULL"),
              R("port", 3, 0, "RW", "FLASH1")>>
ManyMap00 == <<<<R("do", 4, 0, "RW", "SYS"), R("span", 5, 0, "RW", "MAP_NULL")>>>>
ManyAddr == 1 .. 6
ManyReg == {"type", "load", "port", "do", "span"}
ManyRequests == {Q(1, 1, <<2>>), Q(2, 2, <<1, 0>>), Q(1, 4, <<2, 1, 0>>), Q(2, 3, <<0, 1, 2>>)}

-----------------------------------------------------------------------------
(***************************************************************************)
(* The code installs a table row by row.                                   *)
(***************************************************************************)
ASSUME RowByRow ==
    \A t \in WellType :
        /\ InstallAll(Rows(t)) = FoldLeft(Install, BlankRam, Map1 \o Map00[t])
        /\ \A new \in [1 .. 2 -> BOOLEAN] :
              LET default1(f, row) == Default1(f, row, new)
                  default2(f, row) == Default2(f, row, new)
              IN  /\ DefaultAll1(Blank1, ToSet(Map1), new) = FoldLeft(default1, Blank1, Map1)
                  /\ DefaultAll2(Blank1, Rows(t), new) =
                       FoldLeft(default2, Blank1, Map1 \o Map00[t])

=============================================================================
