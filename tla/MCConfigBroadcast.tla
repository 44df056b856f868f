------------------------- MODULE MCConfigBroadcast -------------------------
(***************************************************************************)
(* The instance of ConfigBroadcast for TLC.  tcp_client reads an address   *)
(* and a port; rtu_client reads one register of those, and shares its      *)
(* queue with the meter messages.                                          *)
(***************************************************************************)
EXTENDS ConfigBroadcast

MCRegister == {"addr", "port"}

MCReads ==
    [c \in Consumer |-> CASE c = "tcp_client" -> {"addr", "port"}
                          [] c = "rtu_client" -> {"addr"}]

\* The order in which rtu_reset_flash1 sends (map.c:698-708), cut to the
\* threads of the instance.
OrderMixed == <<"tcp_client", "rtu_client">>

=============================================================================
