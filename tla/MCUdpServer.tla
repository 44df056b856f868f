----------------------------- MODULE MCUdpServer -----------------------------
(***************************************************************************)
(* Instances of UdpServer for TLC.                                         *)
(***************************************************************************)
EXTENDS UdpServer

MCSetting ==
    {[port |-> "p", on |-> TRUE, short |-> 0, long |-> 2, remote |-> {"r"}],
     [port |-> "q", on |-> TRUE, short |-> 3, long |-> 1, remote |-> {"r"}],
     [port |-> "p", on |-> TRUE, short |-> 1, long |-> 2, remote |-> {}],
     [port |-> "q", on |-> FALSE, short |-> 1, long |-> 2, remote |-> {"r"}]}

==============================================================================
