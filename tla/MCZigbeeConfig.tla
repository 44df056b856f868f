---------------------------- MODULE MCZigbeeConfig ----------------------------
(***************************************************************************)
(* Instances of ZigbeeConfig for TLC.                                      *)
(***************************************************************************)
EXTENDS ZigbeeConfig

MCSetting == <<"ID", "SC">>

===============================================================================
