----------------------------- MODULE TcpServer -----------------------------
(***************************************************************************)
(* The Modbus TCP server thread (network/tcp_server.c): one loop around a  *)
(* select over the thread's message queue, its listening socket and its    *)
(* clients.  Descriptor numbers are those of the process: the lowest free  *)
(* one is taken, also by the other threads, and closing makes it free for  *)
(* anybody.                                                                *)
(*                                                                         *)
(* A round of the loop visits the numbers that the last select found       *)
(* ready, in ascending order.  msg_handler, called in the middle of a      *)
(* round, may close and open sockets.  It is a nested function, and its    *)
(* own loop over the numbers runs on the variable of the round: when it    *)
(* returns from that, the round is over.  accept, the receive of a request *)
(* and the send of its answer block.                                       *)
(***************************************************************************)
EXTENDS Integers, FiniteSetsExt

CONSTANTS MaxFd,      \* descriptor numbers are 0 .. MaxFd
          QueueFd,    \* tcp_server_msg_fd; lower numbers are never free
          Port,       \* values of the register MAP_ADDR_TCP_PORT
          MaxMsg      \* PMSG_MAXMSG

ASSUME TcpAssumption ==
    /\ MaxFd \in Nat /\ QueueFd \in 1 .. MaxFd
    /\ MaxMsg \in Nat \ {0}

VARIABLES
    own,       \* own[f]: what the process uses number f for
    refset, rdset, fdmax,
    server,    \* server_socket_pi, or -1
    port,      \* port_str
    next,      \* where the round is (master_socket)
    sending,   \* the client modbus_reply sends its answer to, or -1
    reg,       \* the port register
    msgs,      \* MSG_CONFIG_STARTs in the queue
    calls,     \* a connection waits to be accepted
    sent,      \* clients that have sent a request, or closed
    full       \* clients that leave their answers unread: no room for another

sets == <<refset, rdset, fdmax>>
vars == <<own, sets, server, port, next, sending, reg, msgs, calls, sent, full>>

Fd == 0 .. MaxFd

TypeOK ==
    /\ own \in [Fd -> {"free", "other", "queue", "server", "client", "lost"}]
    /\ refset \subseteq Fd /\ rdset \subseteq Fd
    /\ fdmax \in Fd
    /\ server \in Fd \cup {-1}
    /\ port \in Port /\ reg \in Port
    /\ next \in 0 .. MaxFd + 2
    /\ sending \in Fd \cup {-1}
    /\ msgs \in 0 .. MaxMsg
    /\ calls \in BOOLEAN
    /\ sent \subseteq Fd /\ full \subseteq Fd

Free(o) == {f \in Fd : o[f] = "free"}

\* modbus_tcp_pi_listen, given the use o of the numbers: the new server
\* socket, or -1 if the port cannot be opened.
Listening(o) == {-1} \cup (IF Free(o) = {} THEN {} ELSE {Min(Free(o))})
WithServer(o, s) == [f \in Fd |-> IF f = s THEN "server" ELSE o[f]]

\* The queue and the new server socket.  (FD_SET of -1 writes outside of the
\* set, which is not modelled.)
Selected(s) == {QueueFd} \cup ({s} \cap Fd)
Highest(s) == IF QueueFd > s THEN QueueFd ELSE s

Init ==
    LET before == [f \in Fd |-> CASE f < QueueFd -> "other"
                                  [] f = QueueFd -> "queue"
                                  [] f > QueueFd -> "free"]
    IN
    /\ reg \in Port /\ port = reg
    /\ server \in Listening(before)
    /\ own = WithServer(before, server)
    /\ refset = Selected(server) /\ fdmax = Highest(server)
    /\ rdset = {} /\ next = 0 /\ sending = -1
    /\ msgs = 0 /\ calls = FALSE /\ sent = {} /\ full = {}

-----------------------------------------------------------------------------
(***************************************************************************)
(* The other threads and the clients.                                      *)
(***************************************************************************)
WritePort(p) ==
    /\ reg' = p
    /\ UNCHANGED <<own, sets, server, port, next, sending, msgs, calls, sent, full>>

\* rtu_reset_flash1; a send to a full queue has no effect.
SendConfigStart ==
    /\ msgs < MaxMsg
    /\ msgs' = msgs + 1
    /\ UNCHANGED <<own, sets, server, port, next, sending, reg, calls, sent, full>>

OtherOpens ==
    /\ Free(own) # {}
    /\ own' = [own EXCEPT ![Min(Free(own))] = "other"]
    /\ UNCHANGED <<sets, server, port, next, sending, reg, msgs, calls, sent, full>>

OtherCloses(f) ==
    /\ own[f] = "other" /\ f > QueueFd
    /\ own' = [own EXCEPT ![f] = "free"]
    /\ UNCHANGED <<sets, server, port, next, sending, reg, msgs, calls, sent, full>>

Connect ==
    /\ server # -1 /\ ~calls
    /\ calls' = TRUE
    /\ UNCHANGED <<own, sets, server, port, next, sending, reg, msgs, sent, full>>

\* A client sends a request, or closes its end.
ClientSends(f) ==
    /\ own[f] = "client" /\ f \notin sent
    /\ sent' = sent \cup {f}
    /\ UNCHANGED <<own, sets, server, port, next, sending, reg, msgs, calls, full>>

\* A client reads its answers, or is gone, so that a send to it fails.
ClientReads(f) ==
    /\ f \in full
    /\ full' = full \ {f}
    /\ UNCHANGED <<own, sets, server, port, next, sending, reg, msgs, calls, sent>>

-----------------------------------------------------------------------------
(***************************************************************************)
(* The loop of thread_tcp_server.                                          *)
(***************************************************************************)
\* What the round still has to visit.
Todo == {f \in rdset : next <= f /\ f <= fdmax}

Ready(f) ==
    \/ own[f] = "queue" /\ msgs > 0
    \/ own[f] = "server" /\ calls
    \/ own[f] = "client" /\ f \in sent

\* A select that times out changes nothing.
Select ==
    /\ Todo = {} /\ sending = -1
    /\ rdset' = {f \in refset : f <= fdmax /\ Ready(f)}
    /\ rdset' # {}
    /\ next' = 0
    /\ UNCHANGED <<own, refset, fdmax, server, port, sending, reg, msgs, calls, sent, full>>

Visit(f) == Todo # {} /\ sending = -1 /\ f = Min(Todo)

\* Mutant: fdmax is not raised.
Accept_KeepMax(f) ==
    /\ Visit(f) /\ f = server /\ calls /\ next' = f + 1
    /\ IF Free(own) = {} THEN UNCHANGED <<own, sets, calls>>
       ELSE LET new == Min(Free(own)) IN
              /\ calls' = FALSE
              /\ own' = [own EXCEPT ![new] = "client"]
              /\ refset' = refset \cup {new}
              /\ UNCHANGED <<rdset, fdmax>>
    /\ UNCHANGED <<server, port, sending, reg, msgs, sent, full>>

\* accept waits for a connection if none is there.  Without a free number it
\* fails, and the connection goes on waiting.
Accept(f) ==
    /\ Visit(f) /\ f = server /\ calls /\ next' = f + 1
    /\ IF Free(own) = {} THEN UNCHANGED <<own, sets, calls>>
       ELSE LET new == Min(Free(own)) IN
              /\ calls' = FALSE
              /\ own' = [own EXCEPT ![new] = "client"]
              /\ refset' = refset \cup {new}
              /\ fdmax' = IF new > fdmax THEN new ELSE fdmax
              /\ UNCHANGED rdset
    /\ UNCHANGED <<server, port, sending, reg, msgs, sent, full>>

\* The server socket and the clients that were found ready are closed; the
\* other clients are forgotten, their sockets stay open.
Closed ==
    LET ready == {f \in rdset : f <= fdmax} \ {QueueFd} IN
    [f \in Fd |-> IF f \in ready \cup {server} THEN "free"
                  ELSE IF own[f] = "client" THEN "lost" ELSE own[f]]

\* Mutants: fdmax is that of the queue; the handler has a loop variable of its
\* own, and the round goes on with the numbers found ready before.
Reset_KeepMax ==
    /\ \E s \in Listening(Closed) :
          /\ server' = s
          /\ own' = WithServer(Closed, s)
          /\ refset' = Selected(s) /\ fdmax' = QueueFd
    /\ port' = reg /\ next' = fdmax + 2
    /\ calls' = FALSE /\ sent' = {} /\ full' = {}
    /\ UNCHANGED rdset

Reset_OwnLoop ==
    /\ \E s \in Listening(Closed) :
          /\ server' = s
          /\ own' = WithServer(Closed, s)
          /\ refset' = Selected(s) /\ fdmax' = Highest(s)
    /\ port' = reg /\ next' = QueueFd + 1
    /\ calls' = FALSE /\ sent' = {} /\ full' = {}
    /\ UNCHANGED rdset

\* msg_handler when the port has changed.  Its loop leaves master_socket one
\* past the old fdmax, and the round adds one.
Reset ==
    /\ \E s \in Listening(Closed) :
          /\ server' = s
          /\ own' = WithServer(Closed, s)
          /\ refset' = Selected(s) /\ fdmax' = Highest(s)
    /\ port' = reg /\ next' = fdmax + 2
    /\ calls' = FALSE /\ sent' = {} /\ full' = {}
    /\ UNCHANGED rdset

ReceiveMessage ==
    /\ Visit(QueueFd)
    /\ msgs' = msgs - 1
    /\ IF reg = port
       THEN next' = QueueFd + 1 /\ UNCHANGED <<own, sets, server, port, calls, sent, full>>
       ELSE Reset
    /\ UNCHANGED <<reg, sending>>

\* Mutant: the client is not taken out of refset.
Drop_KeepSet(f) ==
    /\ own' = [own EXCEPT ![f] = "free"]
    /\ UNCHANGED refset /\ full' = full \ {f}
    /\ fdmax' = IF f = fdmax THEN fdmax - 1 ELSE fdmax

Drop(f) ==
    /\ own' = [own EXCEPT ![f] = "free"]
    /\ refset' = refset \ {f} /\ full' = full \ {f}
    /\ fdmax' = IF f = fdmax THEN fdmax - 1 ELSE fdmax

\* modbus_receive waits for a client's request; it fails if the client has
\* closed or the number is free, and then the number is closed.  A number
\* that another thread has got meanwhile is treated as if it were a client's.
Serve(f) ==
    /\ Visit(f) /\ f \notin {QueueFd, server} /\ next' = f + 1
    /\ own[f] = "client" => f \in sent
    /\ sent' = sent \ {f}
    /\ \/ own[f] # "free" /\ sending' = f /\ UNCHANGED <<own, refset, fdmax, full>>
       \/ Drop(f) /\ UNCHANGED sending
    /\ UNCHANGED <<rdset, server, port, reg, msgs, calls>>

\* modbus_reply: a blocking send, without a time-out, that waits for room.
\* The answer may leave none for another one.
Reply ==
    /\ sending # -1 /\ sending \notin full
    /\ full' \in {full, full \cup {sending}}
    /\ sending' = -1
    /\ UNCHANGED <<own, sets, server, port, next, reg, msgs, calls, sent>>

Thread ==
    \/ Select
    \/ ReceiveMessage
    \/ Reply
    \/ \E f \in Fd : Accept(f) \/ Serve(f)

Others ==
    \/ \E p \in Port : WritePort(p)
    \/ SendConfigStart
    \/ OtherOpens
    \/ Connect
    \/ \E f \in Fd : OtherCloses(f) \/ ClientSends(f) \/ ClientReads(f)

Next == Thread \/ Others

Spec == Init /\ [][Next]_vars

\* The select has a timeout, and the thread takes part in the scheduling.  A
\* send goes on once its client has read; no client is obliged to read.
FairSpec == Spec /\ WF_vars(Thread)

-----------------------------------------------------------------------------
(***************************************************************************)
(* select is told to look at every number of refset: none is above fdmax,  *)
(* whatever was closed, opened or dropped, and in whatever order.          *)
(***************************************************************************)
FdmaxCovers == refset \subseteq 0 .. fdmax

(***************************************************************************)
(* refset holds the queue, the server socket and the clients that are      *)
(* neither closed nor forgotten, at any time: a number that was closed,    *)
(* and may serve another thread by now, is not waited for.                 *)
(***************************************************************************)
RefsetExact == refset = {f \in Fd : own[f] \in {"queue", "server", "client"}}

\* accept or a receive waits for one descriptor, deaf to the queue and to the
\* others.
Waits ==
    /\ Todo # {} /\ sending = -1
    /\ LET f == Min(Todo) IN
         \/ f = server /\ ~calls
         \/ own[f] = "client" /\ f \notin sent

(***************************************************************************)
(* The thread, which must answer all its clients, never waits in an accept *)
(* or a receive: what select found ready is ready still when the round     *)
(* gets there, whatever was accepted, dropped or reopened before.  That    *)
(* msg_handler ends the round when it opens another server socket is what  *)
(* keeps numbers with a new meaning out of it.                             *)
(***************************************************************************)
NeverWaits == ~Waits

\* The inductive strengthening.
OwnExact == \A f \in Fd : /\ own[f] = "queue" <=> f = QueueFd
                          /\ own[f] = "server" <=> f = server
StillReady == \A f \in rdset : next <= f => f <= fdmax /\ Ready(f)

Inv ==
    /\ TypeOK /\ FdmaxCovers /\ RefsetExact
    /\ OwnExact /\ StillReady

\* modbus_reply waits for a client to read.
Blocked == sending \in full

(***************************************************************************)
(* A request is taken from its client in the end, or the client is let go, *)
(* whatever other clients and threads do, except that a client which does  *)
(* not read its answers any more can block the thread for good.            *)
(***************************************************************************)
RequestsServed ==
    \/ <>[]Blocked
    \/ \A f \in Fd : f \in sent ~> f \notin sent

=============================================================================
