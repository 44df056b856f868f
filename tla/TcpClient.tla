----------------------------- MODULE TcpClient -----------------------------
(***************************************************************************)
(* The thread that calls a Modbus master over TCP (network/tcp_client.c).  *)
(* It has two addresses, one for IPv4 and one for IPv6, and while it has   *)
(* no connection it tries them in turn, one in each round of its loop.     *)
(* Over a connection it serves requests; it gives the connection up when   *)
(* select has timed out too often, since a peer that has lost its power    *)
(* never closes it.  On MSG_CONFIG_START it drops the connection and reads *)
(* the addresses again, one after the other.                               *)
(*                                                                         *)
(* The parts of an address are read together here; ConfigBroadcast has     *)
(* them apart, and has the sends and the queues in full.                   *)
(***************************************************************************)
EXTENDS Naturals

CONSTANTS Addr,       \* what an address register holds
          MaxOrders,  \* PMSG_MAXMSG
          MaxIdle     \* the 200 timeouts after which a connection is closed

ASSUME ClientAssumption == {MaxOrders, MaxIdle} \subseteq Nat \ {0}

VARIABLES
    regs,     \* the address registers, 0 for IPv4 and 1 for IPv6
    orders,   \* MSG_CONFIG_STARTs in the queue
    told,     \* every store to regs has been announced
    node,     \* the addresses the thread uses
    turn,     \* i % 2
    pc,       \* where the thread is
    ready,    \* what select found readable
    sock,     \* {} or {a}: ctx->s is a connection to address a
    watched,  \* fdset0 has the number of the connection
    idle,     \* j: timeouts in a row
    peer,     \* what has come from the other end of the connection
    silent    \* timeouts since the connection was opened or last served

conn == <<sock, watched, idle>>
settings == <<regs, orders, told>>
clientVars == <<settings, node, turn, pc, ready, conn, peer, silent>>

Which == {0, 1}

ClientTypeOK ==
    /\ regs \in [Which -> Addr] /\ node \in [Which -> Addr]
    /\ orders \in 0 .. MaxOrders /\ told \in BOOLEAN
    /\ turn \in Which
    /\ pc \in {"connect", "select", "timeout", "receive", "message",
              "read0", "read1"}
    /\ ready \subseteq {"sock", "msg"}
    /\ sock = {} \/ \E a \in Addr : sock = {a}
    /\ watched \in BOOLEAN
    /\ idle \in 0 .. MaxIdle + 1
    /\ peer \in {"quiet", "request", "closed", "dead"}
    /\ silent \in 0 .. MaxIdle + 1

\* The thread starts by reading the addresses, with the others at work.
ClientInit ==
    /\ regs \in [Which -> Addr] /\ node \in [Which -> Addr]
    /\ orders = 0 /\ told = TRUE
    /\ turn = 1
    /\ pc = "read0" /\ ready = {}
    /\ sock = {} /\ watched = FALSE /\ idle = 0
    /\ peer = "quiet" /\ silent = 0

-----------------------------------------------------------------------------
(***************************************************************************)
(* The other threads and the peer.                                         *)
(***************************************************************************)
WriteAddress(k, a) ==
    /\ regs' = [regs EXCEPT ![k] = a]
    /\ told' = FALSE
    /\ UNCHANGED <<orders, node, turn, pc, ready, conn, peer, silent>>

\* A full queue drops the message.
SendConfigStartToClient ==
    /\ orders' = IF orders < MaxOrders THEN orders + 1 ELSE orders
    /\ told' = TRUE
    /\ UNCHANGED <<regs, node, turn, pc, ready, conn, peer, silent>>

\* The peer sends a request, closes, or is gone without a word.
PeerActs ==
    /\ sock # {} /\ peer = "quiet"
    /\ peer' \in {"request", "closed", "dead"}
    /\ UNCHANGED <<settings, node, turn, pc, ready, conn, silent>>

-----------------------------------------------------------------------------
(***************************************************************************)
(* The loop of thread_tcp_client.                                          *)
(***************************************************************************)
\* Mutant: i is not incremented.
NextRound_NoTurn == pc' = "connect" /\ UNCHANGED turn

\* The next round begins.
NextRound == pc' = "connect" /\ turn' = 1 - turn

Close ==
    /\ sock' = {} /\ watched' = FALSE
    /\ peer' = "quiet"

\* Mutant: j is not reset.
ConnectToMaster_KeepIdle ==
    /\ pc = "connect" /\ pc' = "select"
    /\ \/ /\ sock = {}
          /\ sock' = {node[turn]} /\ watched' = TRUE
          /\ peer' = "quiet" /\ silent' = 0
          /\ UNCHANGED idle
       \/ UNCHANGED <<conn, peer, silent>>
    /\ UNCHANGED <<settings, node, turn, ready>>

\* A connection is opened; or it fails; or the address does not even resolve
\* (an address part or a port of 32768 or more is printed as a negative
\* number), which modbus_connect reports by another number than -1: the
\* thread goes on as if connected, but for ctx->s.
ConnectToMaster ==
    /\ pc = "connect" /\ pc' = "select"
    /\ \/ /\ sock = {}
          /\ sock' = {node[turn]} /\ watched' = TRUE /\ idle' = 0
          /\ peer' = "quiet" /\ silent' = 0
       \/ UNCHANGED <<conn, peer, silent>>
       \/ sock = {} /\ idle' = 0 /\ UNCHANGED <<sock, watched, peer, silent>>
    /\ UNCHANGED <<settings, node, turn, ready>>

Readable ==
    {x \in {"sock", "msg"} : IF x = "msg" THEN orders > 0
                             ELSE watched /\ peer \in {"request", "closed"}}

\* select waits for two seconds.
SelectClient ==
    /\ pc = "select"
    /\ ready' = Readable
    /\ pc' = IF Readable = {} THEN "timeout" ELSE "receive"
    /\ UNCHANGED <<settings, node, turn, conn, peer, silent>>

Counted(n) == IF n <= MaxIdle THEN n + 1 ELSE n

\* Mutants: the number stays in fdset0; timeouts only count while there is no
\* connection.
TimeOut_KeepSet ==
    /\ pc = "timeout"
    /\ idle' = Counted(idle) /\ silent' = Counted(silent)
    /\ IF idle' > MaxIdle /\ sock # {}
          THEN sock' = {} /\ peer' = "quiet" /\ UNCHANGED watched
          ELSE UNCHANGED <<sock, watched, peer>>
    /\ NextRound
    /\ UNCHANGED <<settings, node, ready>>

TimeOut_NoCount ==
    /\ pc = "timeout"
    /\ idle' = (IF sock = {} THEN Counted(idle) ELSE idle)
    /\ silent' = Counted(silent)
    /\ IF idle' > MaxIdle /\ sock # {}
          THEN Close
          ELSE UNCHANGED <<sock, watched, peer>>
    /\ NextRound
    /\ UNCHANGED <<settings, node, ready>>

\* After one timeout too many the connection is closed, even if a request
\* has just come in.
TimeOut ==
    /\ pc = "timeout"
    /\ idle' = Counted(idle) /\ silent' = Counted(silent)
    /\ IF idle' > MaxIdle /\ sock # {}
          THEN Close
          ELSE UNCHANGED <<sock, watched, peer>>
    /\ NextRound
    /\ UNCHANGED <<settings, node, ready>>

\* A request is answered, or the connection was closed, or fails.
Receive ==
    /\ pc = "receive" /\ pc' = "message"
    /\ \/ /\ "sock" \in ready /\ peer = "request"
          /\ peer' = "quiet" /\ idle' = 0 /\ silent' = 0
          /\ UNCHANGED <<sock, watched>>
       \/ /\ "sock" \in ready
          /\ Close /\ UNCHANGED <<idle, silent>>
       \/ "sock" \notin ready /\ UNCHANGED <<conn, peer, silent>>
    /\ UNCHANGED <<settings, node, turn, ready>>

\* Mutant: the connection to the old address is kept.
ConfigStart_KeepSocket ==
    /\ pc = "message" /\ "msg" \in ready
    /\ orders' = orders - 1
    /\ pc' = "read0"
    /\ UNCHANGED <<regs, told, node, turn, ready, conn, peer, silent>>

\* MSG_CONFIG_START: the connection is closed, and fdset0 gets the queue only.
ConfigStart ==
    /\ pc = "message" /\ "msg" \in ready
    /\ orders' = orders - 1
    /\ Close
    /\ pc' = "read0"
    /\ UNCHANGED <<regs, told, node, turn, ready, idle, silent>>

NoMessage ==
    /\ pc = "message" /\ "msg" \notin ready
    /\ NextRound
    /\ UNCHANGED <<settings, node, ready, conn, peer, silent>>

\* The IPv4 address is read, then the IPv6 address.
ReadAddress(k) ==
    /\ pc = <<"read0", "read1">>[k + 1]
    /\ node' = [node EXCEPT ![k] = regs[k]]
    /\ IF k = 0 THEN pc' = "read1" /\ UNCHANGED turn ELSE NextRound
    /\ UNCHANGED <<settings, ready, conn, peer, silent>>

ClientThread ==
    \/ ConnectToMaster \/ SelectClient \/ TimeOut
    \/ Receive \/ ConfigStart \/ NoMessage
    \/ \E k \in Which : ReadAddress(k)

ClientOthers ==
    \/ \E k \in Which, a \in Addr : WriteAddress(k, a)
    \/ SendConfigStartToClient
    \/ PeerActs

ClientNext == ClientThread \/ ClientOthers

ClientSpec == ClientInit /\ [][ClientNext]_clientVars

\* The thread goes on: every wait in it has a timeout.
ClientFairSpec == ClientSpec /\ WF_clientVars(ClientThread)

-----------------------------------------------------------------------------
(***************************************************************************)
(* fdset0 has the connection exactly while there is one.  A closed number  *)
(* left in it would end the thread, or wait for another thread's file.     *)
(***************************************************************************)
WatchesConnection == watched = (sock # {})

(***************************************************************************)
(* When all changes have been announced and no message is left, the thread *)
(* uses the addresses in the registers, and is not connected to any other. *)
(***************************************************************************)
Settled == told /\ orders = 0 /\ pc \notin {"read0", "read1"}

AddressCurrent ==
    Settled => node = regs /\ \A a \in sock : \E k \in Which : a = regs[k]

\* The inductive strengthening: the address that is read first is up to date
\* as long as nothing is stored or announced again, the timeouts counted are
\* those of the connection, and the message select has seen is there.
FirstRead == told /\ orders = 0 /\ pc = "read1" => node[0] = regs[0]
ConnectedToNode == \A a \in sock : \E k \in Which : a = node[k]
ClosedForReading == pc \in {"read0", "read1"} => sock = {}
IdleIsItsOwn == sock # {} => idle = silent
ReadyHolds ==
    pc \in {"receive", "message"} /\ "msg" \in ready => orders > 0

ClientInv ==
    /\ ClientTypeOK /\ WatchesConnection /\ AddressCurrent /\ FirstRead
    /\ ConnectedToNode /\ ClosedForReading /\ ReadyHolds /\ IdleIsItsOwn

(***************************************************************************)
(* Timeouts make the thread give a connection up only after they have all  *)
(* been timeouts of that connection, with no request served in between.    *)
(***************************************************************************)
GivenUpWhenSilent ==
    [][pc = "timeout" /\ sock # {} /\ sock' = {}
          => silent >= MaxIdle]_clientVars

(***************************************************************************)
(* A connection whose peer is gone without a word is given up in the end.  *)
(***************************************************************************)
DeadPeerDropped == peer = "dead" ~> peer # "dead"

(***************************************************************************)
(* Both addresses are tried while there is no connection.                  *)
(***************************************************************************)
BothTried ==
    \A k \in Which : []<>(sock # {} \/ (pc = "connect" /\ turn = k))

=============================================================================
