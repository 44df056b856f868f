----------------------------- MODULE TcpProofs ------------------------------
(***************************************************************************)
(* Proofs about the two threads that speak Modbus over TCP: TcpServer, for *)
(* any descriptor numbers, ports and queue, and TcpClient, for any         *)
(* addresses, queue and number of timeouts.                                *)
(***************************************************************************)
EXTENDS TcpClient, TcpServer, WellFoundedInduction, TLAPS

-----------------------------------------------------------------------------
\* A set of descriptor numbers that is not empty has a lowest member.
LEMMA MinFd ==
    ASSUME NEW S \in SUBSET Fd, S # {}
    PROVE  /\ Min(S) \in S
           /\ \A f \in S : Min(S) <= f
<1>1. S \subseteq Nat
  BY TcpAssumption DEF Fd
<1> DEFINE Below == {p \in Nat \X Nat : p[1] < p[2]}
<1>2. IsWellFoundedOn(Below, Nat)
  <2>1. OpToRel(<, Nat) = Below
    BY Zenon DEF OpToRel
  <2> QED  BY <2>1, NatLessThanWellFounded, Zenon
<1>3. PICK m \in S : \A f \in S : <<f, m>> \notin Below
  <2> HIDE DEF Below
  <2> QED  BY <1>1, <1>2, WFMin, Zenon
<1>4. ASSUME NEW f \in S PROVE m <= f
  <2>1. m \in Nat /\ f \in Nat
    BY <1>1
  <2>2. f < m => <<f, m>> \in Below
    BY <2>1
  <2> QED  BY <1>3, <2>1, <2>2
<1> QED  BY <1>4 DEF Min

\* The new server socket has a number that was free, or none.
LEMMA ListeningFree ==
    ASSUME NEW o, NEW s \in Listening(o)
    PROVE  s = -1 \/ (s \in Fd /\ o[s] = "free")
<1>1. Free(o) \in SUBSET Fd
  BY DEF Free
<1> QED  BY <1>1, MinFd DEF Listening, Free

Use == {"free", "other", "queue", "server", "client", "lost"}

LEMMA WithServerType ==
    ASSUME NEW o, NEW s, \A f \in Fd : o[f] \in Use
    PROVE  WithServer(o, s) \in [Fd -> Use]
BY DEF WithServer, Use

-----------------------------------------------------------------------------
LEMMA InitInv == Init => Inv
<1> SUFFICES ASSUME Init PROVE Inv
  OBVIOUS
<1> DEFINE before == [f \in Fd |-> CASE f < QueueFd -> "other"
                                     [] f = QueueFd -> "queue"
                                     [] f > QueueFd -> "free"]
<1>1. server \in Listening(before) /\ own = WithServer(before, server)
  BY DEF Init
<1>2. \A f \in Fd : before[f] = IF f < QueueFd THEN "other"
                                 ELSE IF f = QueueFd THEN "queue" ELSE "free"
  BY TcpAssumption DEF Fd
<1>3. server = -1 \/ (server \in Fd /\ server > QueueFd)
  <2>1. server = -1 \/ (server \in Fd /\ before[server] = "free")
    BY <1>1, ListeningFree
  <2> QED  BY <2>1, <1>2, TcpAssumption DEF Fd
<1>4. \A f \in Fd : own[f] = IF f = server THEN "server"
                              ELSE IF f < QueueFd THEN "other"
                              ELSE IF f = QueueFd THEN "queue" ELSE "free"
  BY <1>1, <1>2 DEF WithServer
<1>5. TypeOK
  <2>1. own \in [Fd -> Use]
    <3>1. \A f \in Fd : before[f] \in Use
      BY <1>2 DEF Use
    <3> HIDE DEF before
    <3> QED  BY <1>1, <3>1, WithServerType
  <2>2. refset \subseteq Fd /\ fdmax \in Fd
    BY <1>3, TcpAssumption DEF Init, Selected, Highest, Fd
  <2>3. /\ server \in Fd \cup {-1} /\ msgs \in 0 .. MaxMsg
        /\ next \in 0 .. MaxFd + 2 /\ sending = -1
    BY <1>3, TcpAssumption DEF Init
  <2> QED  BY <2>1, <2>2, <2>3 DEF Init, TypeOK, Use
<1>6. FdmaxCovers
  BY <1>3, TcpAssumption DEF Init, FdmaxCovers, Selected, Highest, Fd
<1>7. RefsetExact
  BY <1>3, <1>4, TcpAssumption DEF Init, RefsetExact, Selected, Fd
<1>8. OwnExact
  BY <1>3, <1>4, TcpAssumption DEF OwnExact, Fd
<1>9. StillReady
  BY DEF Init, StillReady
<1> QED  BY <1>5, <1>6, <1>7, <1>8, <1>9 DEF Inv

-----------------------------------------------------------------------------
(***************************************************************************)
(* Each action preserves the invariant.                                    *)
(***************************************************************************)
\* What the visit of a number means to the members of the round.
LEMMA VisitFacts ==
    ASSUME Inv, NEW f \in Fd, Visit(f)
    PROVE  /\ f \in Todo /\ f + 1 \in 0 .. MaxFd + 2
           /\ QueueFd \in refset /\ own[QueueFd] = "queue"
           /\ f <= fdmax /\ next <= f
<1>1. Todo \in SUBSET Fd /\ Todo # {} /\ f = Min(Todo)
  BY DEF Visit, Todo, Inv, TypeOK
<1>2. f \in Todo
  BY <1>1, MinFd
<1>3. QueueFd \in Fd
  BY TcpAssumption DEF Fd
<1> QED  BY <1>2, <1>3, TcpAssumption DEF Visit, Todo, Inv, RefsetExact, OwnExact, Fd

LEMMA OthersInv ==
    ASSUME Inv, Others
    PROVE  Inv'
<1> USE TcpAssumption DEF Inv, sets
<1>1. ASSUME NEW p \in Port, WritePort(p) PROVE Inv'
  BY <1>1 DEF WritePort, TypeOK, FdmaxCovers, RefsetExact, OwnExact,
              StillReady, Ready
<1>2. ASSUME SendConfigStart PROVE Inv'
  BY <1>2 DEF SendConfigStart, TypeOK, FdmaxCovers, RefsetExact, OwnExact,
              StillReady, Ready
<1>3. ASSUME OtherOpens PROVE Inv'
  <2> DEFINE new == Min(Free(own))
  <2>1. new \in Fd /\ own[new] = "free"
    BY <1>3, MinFd DEF OtherOpens, Free
  <2>2. own' = [own EXCEPT ![new] = "other"]
    BY <1>3 DEF OtherOpens
  <2> HIDE DEF new
  <2> QED  BY <1>3, <2>1, <2>2 DEF OtherOpens, TypeOK, FdmaxCovers, RefsetExact, OwnExact,
              StillReady, Ready
<1>4. ASSUME NEW f \in Fd, OtherCloses(f) PROVE Inv'
  BY <1>4 DEF OtherCloses, TypeOK, FdmaxCovers, RefsetExact, OwnExact,
              StillReady, Ready
<1>5. ASSUME Connect PROVE Inv'
  BY <1>5 DEF Connect, TypeOK, FdmaxCovers, RefsetExact, OwnExact,
              StillReady, Ready
<1>6. ASSUME NEW f \in Fd, ClientSends(f) PROVE Inv'
  BY <1>6 DEF ClientSends, TypeOK, FdmaxCovers, RefsetExact, OwnExact,
              StillReady, Ready
<1>7. ASSUME NEW f \in Fd, ClientReads(f) PROVE Inv'
  BY <1>7 DEF ClientReads, TypeOK, FdmaxCovers, RefsetExact, OwnExact,
              StillReady, Ready
<1> QED  BY <1>1, <1>2, <1>3, <1>4, <1>5, <1>6, <1>7 DEF Others

LEMMA SelectInv ==
    ASSUME Inv, Select
    PROVE  Inv'
<1>1. TypeOK'
  <2>1. rdset' \subseteq refset /\ next' = 0
    BY DEF Select
  <2>2. rdset' \subseteq Fd /\ next' \in 0 .. MaxFd + 2
    BY <2>1, TcpAssumption DEF Inv, TypeOK
  <2> QED  BY <2>1, <2>2 DEF Inv, Select, TypeOK
<1>3. FdmaxCovers' /\ RefsetExact' /\ OwnExact'
  BY DEF Inv, Select, FdmaxCovers, RefsetExact, OwnExact
<1>2. StillReady'
  BY DEF Inv, Select, StillReady, Ready
<1> QED  BY <1>1, <1>2, <1>3 DEF Inv

LEMMA AcceptInv ==
    ASSUME Inv, NEW f \in Fd, Accept(f)
    PROVE  Inv'
<1>1. /\ f \in Nat /\ next' = f + 1 /\ next' \in 0 .. MaxFd + 2
      /\ f = server /\ next \in Nat /\ next <= f
      /\ UNCHANGED <<rdset, server, port, sending, reg, msgs, sent, full>>
  <2>1. Visit(f) /\ f = server /\ next' = f + 1
    BY DEF Accept
  <2>2. f \in Nat /\ next \in Nat
    BY <2>1, TcpAssumption DEF Inv, TypeOK, Fd
  <2>3. UNCHANGED <<rdset, server, port, sending, reg, msgs, sent, full>>
    BY DEF Accept, sets
  <2> QED  BY <2>1, <2>2, <2>3, VisitFacts
<1>3. CASE Free(own) = {}
  <2>1. UNCHANGED <<own, refset, fdmax, calls>>
    BY <1>3 DEF Accept, sets
  <2>2. TypeOK' /\ FdmaxCovers' /\ RefsetExact' /\ OwnExact'
    BY <1>1, <2>1 DEF Inv, TypeOK, FdmaxCovers, RefsetExact, OwnExact
  <2>3. StillReady'
    BY <1>1, <2>1 DEF Inv, TypeOK, StillReady, Ready, Fd
  <2> QED  BY <2>2, <2>3 DEF Inv
<1>4. CASE Free(own) # {}
  <2> DEFINE new == Min(Free(own))
  <2>1. new \in Fd /\ own[new] = "free"
    BY <1>4, MinFd DEF Free
  <2>2. /\ own' = [own EXCEPT ![new] = "client"]
        /\ refset' = refset \cup {new}
        /\ fdmax' = IF new > fdmax THEN new ELSE fdmax
        /\ calls' = FALSE
    BY <1>4 DEF Accept
  <2> HIDE DEF new
  <2>3. fdmax' \in Fd /\ fdmax' >= fdmax /\ fdmax' >= new
    BY <2>1, <2>2 DEF Inv, TypeOK, Fd
  <2>4. TypeOK'
    BY <1>1, <2>1, <2>2, <2>3 DEF Inv, TypeOK
  <2>5. FdmaxCovers'
    BY <2>1, <2>2, <2>3 DEF Inv, TypeOK, FdmaxCovers, Fd
  <2>6. RefsetExact'
    BY <2>1, <2>2 DEF Inv, TypeOK, RefsetExact
  <2>7. OwnExact'
    BY <1>1, <2>1, <2>2 DEF Inv, TypeOK, OwnExact
  <2>8. StillReady'
    <3> SUFFICES ASSUME NEW g \in rdset, f + 1 <= g
                 PROVE  g <= fdmax' /\ Ready(g)'
      BY <1>1 DEF StillReady
    <3>1. g \in Fd /\ g <= fdmax /\ Ready(g)
      BY <1>1 DEF Inv, TypeOK, StillReady, Fd
    <3>2. g # new /\ own[g] # "server"
      BY <1>1, <2>1, <3>1 DEF Inv, OwnExact, Ready, Fd
    <3>3. own'[g] = own[g]
      BY <2>2, <3>1, <3>2 DEF Inv, TypeOK
    <3> QED  BY <1>1, <2>3, <3>1, <3>2, <3>3 DEF Ready, Inv, TypeOK, Fd
  <2> QED  BY <2>4, <2>5, <2>6, <2>7, <2>8 DEF Inv
<1> QED  BY <1>3, <1>4

\* After the server socket and the readable clients have been closed, and the
\* others forgotten, only the queue is left of what refset is for.
LEMMA ClosedFacts ==
    ASSUME Inv
    PROVE  \A f \in Fd : /\ Closed[f] \in Use
                         /\ Closed[f] = "queue" <=> f = QueueFd
                         /\ Closed[f] \notin {"server", "client"}
<1> DEFINE readable == {f \in rdset : f <= fdmax} \ {QueueFd}
<1> SUFFICES ASSUME NEW f \in Fd
             PROVE  /\ Closed[f] \in Use
                    /\ Closed[f] = "queue" <=> f = QueueFd
                    /\ Closed[f] \notin {"server", "client"}
  OBVIOUS
<1>1. Closed[f] = IF f \in readable \cup {server} THEN "free"
                  ELSE IF own[f] = "client" THEN "lost" ELSE own[f]
  BY DEF Closed
<1>2. QueueFd \in Fd
  BY TcpAssumption DEF Fd
<1>3. f = QueueFd => f \notin readable \cup {server}
  BY <1>2 DEF Inv, OwnExact
<1> HIDE DEF readable
<1> QED  BY <1>1, <1>2, <1>3 DEF Inv, OwnExact, TypeOK, Use

LEMMA ReceiveMessageInv ==
    ASSUME Inv, ReceiveMessage
    PROVE  Inv'
<1>1. QueueFd \in Fd /\ Visit(QueueFd) /\ QueueFd \in Nat
  BY TcpAssumption DEF ReceiveMessage, Fd
<1>2. /\ QueueFd \in Todo /\ own[QueueFd] = "queue" /\ next <= QueueFd
      /\ QueueFd + 1 \in 0 .. MaxFd + 2 /\ next \in Nat /\ QueueFd <= fdmax
  BY <1>1, VisitFacts DEF Inv, TypeOK
<1>3. msgs > 0
  BY <1>1, <1>2 DEF Inv, StillReady, Todo, Ready
<1>4. msgs' \in 0 .. MaxMsg
  BY <1>3, TcpAssumption DEF ReceiveMessage, Inv, TypeOK
<1>5. reg' = reg /\ rdset' = rdset /\ sending' = sending
  BY DEF ReceiveMessage, Reset, sets
<1>7. CASE reg = port
  <2>1. next' = QueueFd + 1 /\ UNCHANGED <<own, sets, server, port, calls, sent, full>>
    BY <1>7 DEF ReceiveMessage
  <2>2. TypeOK' /\ FdmaxCovers' /\ RefsetExact' /\ OwnExact'
    BY <1>2, <1>4, <1>5, <2>1 DEF Inv, TypeOK, FdmaxCovers, RefsetExact, OwnExact, sets
  <2>3. StillReady'
    <3> SUFFICES ASSUME NEW g \in rdset, QueueFd + 1 <= g
                 PROVE  g <= fdmax /\ Ready(g)'
      BY <1>2, <2>1 DEF StillReady, sets
    <3>1. g \in Fd /\ g <= fdmax /\ Ready(g) /\ g # QueueFd
      BY <1>1, <1>2, <1>3 DEF Inv, TypeOK, StillReady, Fd
    <3>2. own[g] # "queue"
      BY <3>1 DEF Inv, OwnExact
    <3> QED  BY <2>1, <3>1, <3>2 DEF Ready
  <2> QED  BY <2>2, <2>3 DEF Inv
<1>8. CASE reg # port
  <2>1. PICK s \in Listening(Closed) :
          /\ server' = s /\ own' = WithServer(Closed, s)
          /\ refset' = Selected(s) /\ fdmax' = Highest(s)
    BY <1>8 DEF ReceiveMessage, Reset
  <2>2. /\ port' = reg /\ next' = fdmax + 2
        /\ calls' = FALSE /\ sent' = {} /\ full' = {}
    BY <1>8 DEF ReceiveMessage, Reset
  <2>3. s = -1 \/ (s \in Fd /\ Closed[s] = "free")
    BY ListeningFree
  <2>4. s # QueueFd
    BY <1>1, <2>3, ClosedFacts
  <2>5. own' \in [Fd -> Use]
    BY <2>1, ClosedFacts, WithServerType
  <2>6. \A f \in Fd : own'[f] = IF f = s THEN "server" ELSE Closed[f]
    BY <2>1 DEF WithServer
  <2>7. /\ refset' \subseteq Fd /\ fdmax' \in Fd
        /\ refset' \subseteq 0 .. fdmax'
    BY <1>1, <2>1, <2>3, TcpAssumption DEF Selected, Highest, Fd
  <2>8. TypeOK'
    <3>1. next' \in 0 .. MaxFd + 2
      BY <2>2, TcpAssumption DEF Inv, TypeOK, Fd
    <3> QED  BY <3>1, <1>2, <1>4, <1>5, <2>1, <2>2, <2>3, <2>5, <2>7 DEF TypeOK, Use, Inv
  <2>9. OwnExact'
    BY <2>1, <2>4, <2>6, ClosedFacts DEF OwnExact
  <2>10. RefsetExact'
    BY <1>1, <2>1, <2>4, <2>6, ClosedFacts DEF RefsetExact, Selected
  <2>11. StillReady'
    <3> SUFFICES ASSUME NEW g \in rdset PROVE ~(fdmax + 2 <= g)
      BY <1>5, <2>2 DEF StillReady
    <3>1. g \in Nat /\ fdmax \in Nat
      BY DEF Inv, TypeOK, Fd
    <3>2. CASE next <= g
      BY <3>1, <3>2 DEF Inv, StillReady
    <3>3. CASE g < next
      BY <1>1, <1>2, <3>1, <3>3
    <3> QED  BY <1>2, <3>1, <3>2, <3>3
  <2> QED  BY <2>7, <2>8, <2>9, <2>10, <2>11 DEF Inv, FdmaxCovers
<1> QED  BY <1>7, <1>8

LEMMA ServeInv ==
    ASSUME Inv, NEW f \in Fd, Serve(f)
    PROVE  Inv'
<1>1. /\ f \in Nat /\ next' = f + 1 /\ next' \in 0 .. MaxFd + 2
      /\ next \in Nat /\ next <= f /\ f <= fdmax
      /\ f # QueueFd /\ f # server
      /\ UNCHANGED <<rdset, server, port, reg, msgs, calls>>
      /\ sent' = sent \ {f}
  <2>1. Visit(f) /\ next' = f + 1
    BY DEF Serve
  <2>2. f \in Nat /\ next \in Nat
    BY <2>1, TcpAssumption DEF Inv, TypeOK, Fd
  <2> QED  BY <2>1, <2>2, VisitFacts DEF Serve
<1>3. CASE sending' = f /\ UNCHANGED <<own, refset, fdmax, full>>
  <2>1. TypeOK' /\ FdmaxCovers' /\ RefsetExact' /\ OwnExact'
    BY <1>1, <1>3 DEF Inv, TypeOK, FdmaxCovers, RefsetExact, OwnExact
  <2>2. StillReady'
    BY <1>1, <1>3 DEF Inv, TypeOK, StillReady, Ready, Fd
  <2> QED  BY <2>1, <2>2 DEF Inv
<1>4. CASE Drop(f) /\ UNCHANGED sending
  <2>1. /\ own' = [own EXCEPT ![f] = "free"]
        /\ refset' = refset \ {f} /\ full' = full \ {f} /\ sending' = sending
        /\ fdmax' = IF f = fdmax THEN fdmax - 1 ELSE fdmax
    BY <1>4 DEF Drop
  <2>2. QueueFd \in refset /\ fdmax \in Nat
    BY VisitFacts DEF Serve, Inv, TypeOK, Fd
  <2>3. FdmaxCovers'
    BY <2>1, <2>2 DEF Inv, TypeOK, FdmaxCovers, Fd
  <2>4. fdmax' \in Fd
    BY <1>1, <2>1, <2>2, TcpAssumption DEF Inv, TypeOK, FdmaxCovers, Fd
  <2>5. TypeOK'
    BY <1>1, <2>1, <2>4 DEF Inv, TypeOK
  <2>6. RefsetExact' /\ OwnExact'
    BY <1>1, <2>1 DEF Inv, TypeOK, RefsetExact, OwnExact
  <2>7. StillReady'
    <3> SUFFICES ASSUME NEW g \in rdset, f + 1 <= g
                 PROVE  g <= fdmax' /\ Ready(g)'
      BY <1>1 DEF StillReady
    <3>1. g \in Fd /\ g \in Nat /\ g <= fdmax /\ Ready(g) /\ g # f
      BY <1>1 DEF Inv, TypeOK, StillReady, Fd
    <3>2. own'[g] = own[g] /\ g <= fdmax'
      BY <1>1, <2>1, <2>2, <3>1 DEF Inv, TypeOK
    <3> QED  BY <1>1, <3>1, <3>2 DEF Ready
  <2> QED  BY <2>3, <2>5, <2>6, <2>7 DEF Inv
<1> QED  BY <1>3, <1>4 DEF Serve

LEMMA ReplyInv ==
    ASSUME Inv, Reply
    PROVE  Inv'
<1>1. /\ full' \in {full, full \cup {sending}} /\ sending # -1 /\ sending' = -1
      /\ UNCHANGED <<own, sets, server, port, next, reg, msgs, calls, sent>>
  BY DEF Reply
<1>2. TypeOK'
  BY <1>1 DEF Inv, TypeOK, sets
<1> QED  BY <1>1, <1>2 DEF Inv, FdmaxCovers, RefsetExact, OwnExact, StillReady, Ready, sets

LEMMA NextInv == Inv /\ [Next]_vars => Inv'
<1> SUFFICES ASSUME Inv, [Next]_vars PROVE Inv'
  OBVIOUS
<1>1. CASE UNCHANGED vars
  BY <1>1 DEF vars, sets, Inv, TypeOK, FdmaxCovers, RefsetExact, OwnExact,
              StillReady, Ready
<1>2. CASE Thread
  BY <1>2, SelectInv, ReceiveMessageInv, AcceptInv, ServeInv, ReplyInv DEF Thread
<1>3. CASE Others
  BY <1>3, OthersInv
<1> QED  BY <1>1, <1>2, <1>3 DEF Next

-----------------------------------------------------------------------------
(***************************************************************************)
(* The loop of thread_tcp_server keeps its bookkeeping of descriptors      *)
(* right: every variable has its type, select looks at all of refset, and  *)
(* refset holds what it should.                                            *)
(***************************************************************************)
THEOREM Invariance == Spec => []Inv
BY InitInv, NextInv, PTL DEF Spec

\* Every state of the server thread is well typed.
THEOREM TypeCorrect == Spec => []TypeOK
<1>1. Inv => TypeOK
  BY DEF Inv
<1> QED  BY <1>1, Invariance, PTL

\* fdmax, lowered when the highest client is dropped and recomputed by
\* msg_handler, is never below a member of refset.
THEOREM SelectCoversAll == Spec => []FdmaxCovers
<1>1. Inv => FdmaxCovers
  BY DEF Inv
<1> QED  BY <1>1, Invariance, PTL

\* refset never names a number that was closed or belongs to another thread,
\* and misses no client that was accepted and not dropped.
THEOREM SelectsOwnOnly == Spec => []RefsetExact
<1>1. Inv => RefsetExact
  BY DEF Inv
<1> QED  BY <1>1, Invariance, PTL

\* The thread never gets stuck in an accept or a receive: a number that is
\* visited is the one that select found ready.
THEOREM NeverStuckInReceive == Spec => []NeverWaits
<1>1. Inv => NeverWaits
  <2> SUFFICES ASSUME Inv, Waits PROVE FALSE
    BY DEF NeverWaits
  <2> DEFINE f == Min(Todo)
  <2>1. f \in Todo
    BY MinFd DEF Waits, Todo, Inv, TypeOK
  <2>2. f \in Fd /\ Ready(f)
    BY <2>1 DEF Todo, Inv, TypeOK, StillReady
  <2>3. (f = server /\ ~calls) \/ (own[f] = "client" /\ f \notin sent)
    BY DEF Waits
  <2> HIDE DEF f
  <2> QED  BY <2>2, <2>3 DEF Inv, OwnExact, Ready
<1> QED  BY <1>1, Invariance, PTL

-----------------------------------------------------------------------------
\* The thread starts without a connection, about to read its addresses.
LEMMA ClientInitInv == ClientInit => ClientInv
<1> SUFFICES ASSUME ClientInit PROVE ClientInv
  OBVIOUS
<1>1. ClientTypeOK
  <2>1. 0 \in 0 .. MaxOrders /\ 0 \in 0 .. MaxIdle + 1
    BY ClientAssumption
  <2> QED  BY <2>1 DEF ClientInit, ClientTypeOK, Which
<1>2. WatchesConnection /\ AddressCurrent /\ FirstRead /\ ConnectedToNode
  BY DEF ClientInit, WatchesConnection, AddressCurrent, Settled, FirstRead,
         ConnectedToNode
<1>3. ClosedForReading /\ ReadyHolds /\ IdleIsItsOwn
  BY DEF ClientInit, ClosedForReading, ReadyHolds, IdleIsItsOwn
<1> QED  BY <1>1, <1>2, <1>3 DEF ClientInv

\* Another thread's store is not announced yet; an announcement leaves a
\* message; the peer changes nothing the invariant speaks of.
LEMMA ClientOthersInv == ClientInv /\ ClientOthers => ClientInv'
<1> SUFFICES ASSUME ClientInv, ClientOthers PROVE ClientInv'
  OBVIOUS
<1> USE ClientAssumption
    DEF ClientInv, ClientTypeOK, WatchesConnection, AddressCurrent, Settled, FirstRead,
        ConnectedToNode, ClosedForReading, ReadyHolds, IdleIsItsOwn, conn
<1>1. ASSUME NEW k \in Which, NEW a \in Addr, WriteAddress(k, a)
      PROVE  ClientInv'
  BY <1>1 DEF WriteAddress
<1>2. CASE SendConfigStartToClient
  BY <1>2 DEF SendConfigStartToClient
<1>3. CASE PeerActs
  BY <1>3 DEF PeerActs, settings
<1> QED  BY <1>1, <1>2, <1>3 DEF ClientOthers

\* Each step of the loop keeps the types ...
LEMMA ThreadTypeOK == ClientInv /\ ClientThread => ClientTypeOK'
<1> SUFFICES ASSUME ClientInv, ClientThread PROVE ClientTypeOK'
  OBVIOUS
<1>0. ClientTypeOK
  BY DEF ClientInv
<1> USE ClientAssumption DEF Which, conn, settings
<1>1. CASE ConnectToMaster
  <2>1. node[turn] \in Addr
    BY <1>0 DEF ClientTypeOK
  <2>2. sock' = sock \/ sock' = {node[turn]}
    BY <1>1 DEF ConnectToMaster
  <2>3. (sock = {} \/ \E a \in Addr : sock = {a})'
    BY <1>0, <2>1, <2>2 DEF ClientTypeOK
  <2>4. UNCHANGED <<regs, orders, told, node, turn, ready>> /\ pc' = "select"
    BY <1>1 DEF ConnectToMaster
  <2>5. /\ idle' = idle \/ idle' = 0
        /\ silent' = silent \/ silent' = 0
        /\ watched' = watched \/ watched' = TRUE
        /\ peer' = peer \/ peer' = "quiet"
    BY <1>1 DEF ConnectToMaster
  <2>6. 0 \in 0 .. MaxIdle + 1
    OBVIOUS
  <2> QED  BY <1>0, <2>3, <2>4, <2>5, <2>6 DEF ClientTypeOK
<1>2. CASE SelectClient
  BY <1>0, <1>2 DEF SelectClient, Readable, ClientTypeOK
<1>3. CASE TimeOut
  <2>1. Counted(idle) \in 0 .. MaxIdle + 1 /\ Counted(silent) \in 0 .. MaxIdle + 1
    BY <1>0 DEF ClientTypeOK, Counted
  <2>2. UNCHANGED <<sock, watched, peer>> \/ Close
    BY <1>3 DEF TimeOut
  <2>3. 1 - turn \in {0, 1}
    BY <1>0 DEF ClientTypeOK
  <2> QED  BY <1>0, <1>3, <2>1, <2>2, <2>3 DEF TimeOut, Close, NextRound, ClientTypeOK
<1>4. CASE Receive
  <2>1. sock' = sock \/ sock' = {}
    BY <1>4 DEF Receive, Close
  <2>2. (sock = {} \/ \E a \in Addr : sock = {a})'
    BY <1>0, <2>1 DEF ClientTypeOK
  <2>3. UNCHANGED <<regs, orders, told, node, turn, ready>> /\ pc' = "message"
    BY <1>4 DEF Receive
  <2>4. /\ idle' = idle \/ idle' = 0
        /\ silent' = silent \/ silent' = 0
        /\ watched' = watched \/ watched' = FALSE
        /\ peer' = peer \/ peer' = "quiet"
    BY <1>4 DEF Receive, Close
  <2>5. 0 \in 0 .. MaxIdle + 1
    OBVIOUS
  <2> QED  BY <1>0, <2>2, <2>3, <2>4, <2>5 DEF ClientTypeOK
<1>5. CASE ConfigStart
  <2>1. orders > 0
    BY <1>5 DEF ConfigStart, ClientInv, ReadyHolds
  <2>2. orders' \in 0 .. MaxOrders
    BY <1>0, <1>5, <2>1 DEF ConfigStart, ClientTypeOK
  <2>3. sock' = {} /\ watched' = FALSE /\ peer' = "quiet" /\ pc' = "read0"
    BY <1>5 DEF ConfigStart, Close
  <2>4. UNCHANGED <<regs, told, node, turn, ready, idle, silent>>
    BY <1>5 DEF ConfigStart
  <2> QED  BY <1>0, <2>2, <2>3, <2>4 DEF ClientTypeOK
<1>6. CASE NoMessage
  BY <1>0, <1>6 DEF NoMessage, NextRound, ClientTypeOK
<1>7. ASSUME NEW k \in Which, ReadAddress(k)
      PROVE  ClientTypeOK'
  <2>1. CASE k = 0
    BY <1>0, <1>7, <2>1 DEF ReadAddress, NextRound, ClientTypeOK
  <2>2. CASE k = 1
    BY <1>0, <1>7, <2>2 DEF ReadAddress, NextRound, ClientTypeOK
  <2> QED  BY <2>1, <2>2
<1> QED  BY <1>1, <1>2, <1>3, <1>4, <1>5, <1>6, <1>7 DEF ClientThread

\* ... and the rest of the invariant.
LEMMA ThreadInv == ClientInv /\ ClientThread => ClientInv'
<1> SUFFICES ASSUME ClientInv, ClientThread PROVE ClientInv'
  OBVIOUS
<1>0. ClientTypeOK /\ ClientTypeOK'
  BY ThreadTypeOK DEF ClientInv
<1> USE ClientAssumption
    DEF ClientInv, WatchesConnection, AddressCurrent, Settled, FirstRead,
        ConnectedToNode, ClosedForReading, ReadyHolds, IdleIsItsOwn, conn, settings
<1>1. CASE ConnectToMaster
  <2>1. turn \in Which
    BY <1>0 DEF ClientTypeOK
  <2>2. UNCHANGED <<regs, orders, told, node, turn, ready>>
    BY <1>1 DEF ConnectToMaster
  <2>3. \/ UNCHANGED <<sock, watched, idle, silent>>
        \/ sock = {} /\ UNCHANGED <<sock, watched>>
        \/ sock' = {node[turn]} /\ watched' = TRUE /\ idle' = 0 /\ silent' = 0
    BY <1>1 DEF ConnectToMaster
  <2>4. pc = "connect" /\ pc' = "select"
    BY <1>1 DEF ConnectToMaster
  <2>5. watched \in BOOLEAN
    BY <1>0 DEF ClientTypeOK
  <2> QED  BY <1>0, <2>1, <2>2, <2>3, <2>4, <2>5
<1>2. CASE SelectClient
  BY <1>0, <1>2 DEF SelectClient, Readable, ClientTypeOK
<1>3. CASE TimeOut
  <2>1. UNCHANGED <<sock, watched>> \/ Close
    BY <1>3 DEF TimeOut
  <2>2. idle' = Counted(idle) /\ silent' = Counted(silent)
    BY <1>3 DEF TimeOut
  <2>3. UNCHANGED <<regs, orders, told, node, ready>> /\ pc' = "connect"
    BY <1>3 DEF TimeOut, NextRound
  <2>4. pc = "timeout"
    BY <1>3 DEF TimeOut
  <2> QED  BY <1>0, <2>1, <2>2, <2>3, <2>4 DEF Close
<1>4. CASE Receive
  <2>1. \/ UNCHANGED <<sock, watched, idle, silent>>
        \/ UNCHANGED <<sock, watched>> /\ idle' = 0 /\ silent' = 0
        \/ Close
    BY <1>4 DEF Receive
  <2> QED  BY <1>0, <1>4, <2>1 DEF Receive, Close
<1>5. CASE ConfigStart
  BY <1>0, <1>5 DEF ConfigStart, Close
<1>6. CASE NoMessage
  BY <1>0, <1>6 DEF NoMessage, NextRound
<1>7. ASSUME NEW k \in Which, ReadAddress(k)
      PROVE  ClientInv'
  <2>1. CASE k = 0
    BY <1>0, <1>7, <2>1 DEF ReadAddress, Which, ClientTypeOK
  <2>2. CASE k = 1
    <3>1. node' = [node EXCEPT ![1] = regs[1]] /\ pc = "read1" /\ pc' = "connect"
      BY <1>7, <2>2 DEF ReadAddress, NextRound
    <3>2. UNCHANGED <<regs, orders, told, ready, sock, watched>> /\ sock = {}
      BY <1>7, <3>1 DEF ReadAddress
    <3>3. ASSUME told, orders = 0
          PROVE  node' = regs
      BY <1>0, <3>1, <3>3 DEF ClientTypeOK, Which
    <3> QED  BY <1>0, <3>1, <3>2, <3>3
  <2> QED  BY <2>1, <2>2 DEF Which
<1> QED  BY <1>1, <1>2, <1>3, <1>4, <1>5, <1>6, <1>7 DEF ClientThread

\* The addresses and the connection are always as the invariant says.
THEOREM ClientInvariance == ClientSpec => []ClientInv
<1>1. ClientInv /\ UNCHANGED clientVars => ClientInv'
  BY DEF ClientInv, ClientTypeOK, WatchesConnection, AddressCurrent, Settled, FirstRead,
         ConnectedToNode, ClosedForReading, ReadyHolds, IdleIsItsOwn, clientVars,
         conn, settings
<1>2. ClientInv /\ [ClientNext]_clientVars => ClientInv'
  BY <1>1, ThreadInv, ClientOthersInv DEF ClientNext
<1> QED  BY <1>2, ClientInitInv, PTL DEF ClientSpec

-----------------------------------------------------------------------------
\* Every state of the client is well typed: i % 2 names an address, and a
\* message is only received when there is one.
THEOREM ClientTypeCorrect == ClientSpec => []ClientTypeOK
<1>1. ClientInv => ClientTypeOK
  BY DEF ClientInv
<1> QED  BY <1>1, ClientInvariance, PTL

\* fdset0 of thread_tcp_client has the connection exactly while it is open.
THEOREM SelectsOpenOnly == ClientSpec => []WatchesConnection
<1>1. ClientInv => WatchesConnection
  BY DEF ClientInv
<1> QED  BY <1>1, ClientInvariance, PTL

\* Announced addresses are used, though msg_handler reads them one after the
\* other while they may be written, and a full queue drops announcements.
THEOREM ConnectsToCurrent == ClientSpec => []AddressCurrent
<1>1. ClientInv => AddressCurrent
  BY DEF ClientInv
<1> QED  BY <1>1, ClientInvariance, PTL

\* The thread gives a connection up only when select has timed out more than
\* MaxIdle times in a row since it was opened or last served.
THEOREM GivesUpSilentOnly == ClientSpec => GivenUpWhenSilent
<1>1. ClientInv /\ [ClientNext]_clientVars =>
        [pc = "timeout" /\ sock # {} /\ sock' = {} => silent >= MaxIdle]_clientVars
  <2> SUFFICES ASSUME ClientInv, ClientNext, pc = "timeout", sock # {}, sock' = {}
               PROVE  silent >= MaxIdle
    OBVIOUS
  <2>1. ~ClientOthers
    BY DEF ClientOthers, WriteAddress, SendConfigStartToClient, PeerActs, conn
  <2>2. TimeOut
    BY <2>1 DEF ClientNext, ClientThread, ConnectToMaster, SelectClient, Receive, ConfigStart,
                NoMessage, ReadAddress, Which
  <2>3. Counted(idle) > MaxIdle
    BY <2>2 DEF TimeOut
  <2>4. idle = silent /\ idle \in 0 .. MaxIdle + 1
    BY DEF ClientInv, IdleIsItsOwn, ClientTypeOK
  <2> QED  BY <2>3, <2>4, ClientAssumption DEF Counted
<1> QED  BY <1>1, ClientInvariance, PTL DEF ClientSpec, GivenUpWhenSilent

=============================================================================
