---------------------------- MODULE MCHistoryStore ----------------------------
(***************************************************************************)
(* Instances of HistoryStore for TLC.                                      *)
(***************************************************************************)
EXTENDS HistoryStore

===============================================================================
