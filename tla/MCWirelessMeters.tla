-------------------------- MODULE MCWirelessMeters --------------------------
(* A sensor and a load meter.  Times are scaled: ten intervals become two, *)
(* a minute two seconds, a u16 three bits.                                 *)
EXTENDS WirelessMeters

MCKind == <<"sensor", "load">>
MCRegisters == <<{1, 3}, {1, 4}>>
MCJumps == {-2, 3}
=============================================================================
