--------------------------- MODULE UdpServerProofs ---------------------------
(***************************************************************************)
(* Proofs about UdpServer, for any settings, least intervals, queues and   *)
(* settings of the clock.                                                  *)
(***************************************************************************)
EXTENDS UdpServer, TLAPS

(***************************************************************************)
(* What has been waited is in the reading of the clock, or has been taken  *)
(* from it; nothing is waited for that is not wanted; and once a turn has  *)
(* found no heartbeat due, the interval is over by no more than select has *)
(* waited since.                                                           *)
(***************************************************************************)
Reckoned ==
    /\ 0 <= since + back /\ age <= since + back
    /\ used.on \/ age = 0

NotOver ==
    IF pc = "beat"
    THEN age <= Limit + MaxWait + back
    ELSE age <= Limit + waited + back

Within == used.short + MaxWait < MaxSince /\ used.long + MaxWait < MaxSince

Inv == TypeOK /\ Within /\ Reckoned /\ NotOver

-----------------------------------------------------------------------------
\* Settings that the thread takes up are in order.
LEMMA ClampedType ==
    ASSUME NEW s \in Setting
    PROVE  /\ Clamped(s).port = s.port /\ s.port \in Ports
           /\ Clamped(s).on \in BOOLEAN /\ Clamped(s).remote \subseteq Remote
           /\ Clamped(s).short \in Nat /\ Clamped(s).short >= MinShort
           /\ Clamped(s).long \in Nat /\ Clamped(s).long >= MinLong
           /\ Clamped(s).short + MaxWait < MaxSince
           /\ Clamped(s).long + MaxWait < MaxSince
<1>1. s \in [port : Ports, on : BOOLEAN, short : Nat, long : Nat, remote : SUBSET Remote]
  BY UdpAssumption
<1>2. /\ Clamped(s).port = s.port /\ Clamped(s).on = s.on /\ Clamped(s).remote = s.remote
      /\ Clamped(s).short = AtLeast(s.short, MinShort)
      /\ Clamped(s).long = AtLeast(s.long, MinLong)
  BY <1>1 DEF Clamped
<1>3. MinShort \in Nat /\ MinLong \in Nat /\ MaxSince \in Nat /\ MaxWait \in Nat
  BY UdpAssumption
<1>4. /\ MinShort + MaxWait < MaxSince /\ MinLong + MaxWait < MaxSince
      /\ s.short + MaxWait < MaxSince /\ s.long + MaxWait < MaxSince
  BY UdpAssumption
<1> QED  BY <1>1, <1>2, <1>3, <1>4 DEF AtLeast

\* The limit of the wait is a number below the bound of the clock.
LEMMA LimitType ==
    ASSUME TypeOK, Within
    PROVE  /\ MaxSince \in Nat /\ MaxWait \in Nat /\ Limit \in Nat /\ Interval \in Nat
           /\ Interval <= Limit /\ Limit + MaxWait < MaxSince
<1>1. MaxSince \in Nat /\ MaxWait \in Nat
  BY UdpAssumption
<1>2. /\ used.short \in Nat /\ used.long \in Nat /\ hasBeat \in BOOLEAN
      /\ used.short + MaxWait < MaxSince /\ used.long + MaxWait < MaxSince
  BY DEF TypeOK, Within
<1> QED  BY <1>1, <1>2 DEF Limit, Interval, AtLeast

\* The numbers of a state.
LEMMA Numbers ==
    ASSUME TypeOK
    PROVE  /\ since \in Int /\ since <= MaxSince /\ age \in Nat /\ back \in Nat
           /\ MaxWait \in Nat /\ waited \in Nat /\ waited <= MaxWait
           /\ pc # "select" => waited = 0
  BY UdpAssumption DEF TypeOK

\* At the start nothing has been waited for.
LEMMA InitInv == Init => Inv
<1> SUFFICES ASSUME Init PROVE Inv
  OBVIOUS
<1>0. PICK s \in Setting : want = s /\ used = Clamped(s)
  BY DEF Init
<1>1. TypeOK
  <2>1. /\ want \in Setting /\ used.port \in Ports /\ used.on \in BOOLEAN
        /\ used.remote \subseteq Remote
        /\ used.short \in Nat /\ used.short >= MinShort
        /\ used.long \in Nat /\ used.long >= MinLong
    BY <1>0, ClampedType
  <2>2. sock \in {used.port, "none"}
    BY <1>0, ClampedType DEF Init
  <2>3. /\ 0 \in 0 .. MaxWait /\ 0 \in 0 .. MaxMsg /\ 0 \in 0 .. MaxEvent /\ 0 \in Int /\ 0 <= MaxSince /\ 0 \in Nat
        /\ << >> \in Seq(Datagram) /\ Len(<< >>) <= MaxRx
    BY UdpAssumption
  <2> QED  BY <2>1, <2>2, <2>3 DEF Init, TypeOK
<1>2. Within
  BY <1>0, ClampedType DEF Within
<1>3. Reckoned /\ NotOver
  BY <1>1, <1>2, LimitType DEF Init, Reckoned, NotOver
<1> QED  BY <1>1, <1>2, <1>3 DEF Inv

-----------------------------------------------------------------------------
\* What the clock and the wait for a heartbeat depend on is left alone.
waiting == <<used, hasBeat, since, age, back, waited>>

LEMMA WaitKept ==
    ASSUME Inv, TypeOK', UNCHANGED waiting, pc' = pc
    PROVE  Inv'
<1>1. Within' /\ Reckoned'
  BY DEF Inv, waiting, Within, Reckoned
<1>2. Limit' = Limit /\ Limit \in Nat
  BY LimitType DEF Inv, waiting, Limit
<1>3. NotOver'
  <2>1. age \in Nat /\ back \in Nat
    BY Numbers DEF Inv
  <2> QED  BY <1>2, <2>1 DEF Inv, NotOver, waiting
<1> QED  BY <1>1, <1>3 DEF Inv

\* Registers, messages and datagrams.
LEMMA OutsideInv ==
    ASSUME Inv,
           \/ \E s \in Setting : Store(s)
           \/ Announce
           \/ \E d \in Datagram : DatagramComes(d)
    PROVE  Inv'
<1> USE DEF thread, clock, waiting
<1>1. ASSUME NEW s \in Setting, Store(s)
      PROVE  Inv'
  <2>1. TypeOK' /\ UNCHANGED waiting /\ pc' = pc
    BY <1>1 DEF Store, Inv, TypeOK
  <2> QED  BY <2>1, WaitKept
<1>2. CASE Announce
  <2>1. msgs' \in 0 .. MaxMsg /\ msgs' > 0
    BY <1>2, UdpAssumption DEF Announce, Inv, TypeOK
  <2>2. TypeOK' /\ UNCHANGED waiting /\ pc' = pc
    BY <1>2, <2>1 DEF Announce, Inv, TypeOK
  <2> QED  BY <2>2, WaitKept
<1>3. ASSUME NEW d \in Datagram, DatagramComes(d)
      PROVE  Inv'
  <2>1. rx \in Seq(Datagram) /\ Len(rx) < MaxRx /\ MaxRx \in Nat
    BY <1>3, UdpAssumption DEF DatagramComes, Inv, TypeOK
  <2>2. rx' \in Seq(Datagram) /\ Len(rx') <= MaxRx /\ rx' # << >>
    <3>1. rx' = Append(rx, d)
      BY <1>3 DEF DatagramComes
    <3>2. Append(rx, d) \in Seq(Datagram) /\ Len(Append(rx, d)) = Len(rx) + 1
      BY <2>1
    <3>3. Len(rx) \in Nat
      BY <2>1
    <3>4. Append(rx, d) # << >>
      <4>1. Len(Append(rx, d)) > 0
        BY <3>2, <3>3
      <4> QED  BY <4>1
    <3> QED  BY <2>1, <3>1, <3>2, <3>3, <3>4
  <2>3. TypeOK' /\ UNCHANGED waiting /\ pc' = pc
    BY <1>3, <2>2 DEF DatagramComes, Inv, TypeOK
  <2> QED  BY <2>3, WaitKept
<1> QED  BY <1>1, <1>2, <1>3

\* A second is waited in a select only, after a turn that found no heartbeat
\* due.
LEMMA TickInv == Inv /\ Tick => Inv'
<1> SUFFICES ASSUME Inv, Tick PROVE Inv'
  OBVIOUS
<1>0. TypeOK /\ Within /\ Reckoned /\ NotOver
  BY DEF Inv
<1>1. /\ since \in Int /\ since <= MaxSince /\ age \in Nat /\ back \in Nat
      /\ MaxSince \in Nat /\ Limit \in Nat /\ Limit + MaxWait < MaxSince
      /\ MaxWait \in Nat /\ waited \in Nat /\ pc = "select" /\ pc' = "select"
      /\ waited < MaxWait /\ waited' = waited + 1
  BY <1>0, Numbers, LimitType DEF Tick, thread
<1>2. /\ since' \in Int /\ since' <= MaxSince /\ since <= since'
      /\ since' = since + 1 \/ (since' = since /\ since = MaxSince)
      /\ age' \in Nat /\ age' <= age + 1 /\ back' = back
  <2>1. since' = IF since < MaxSince THEN since + 1 ELSE since
    BY DEF Tick
  <2>2. (age' = age + 1 /\ used.on) \/ age' = 0
    BY DEF Tick, Beating
  <2>3. back' = back
    BY DEF Tick
  <2>4. age' \in Nat /\ age' <= age + 1
    BY <1>1, <2>2
  <2> QED  BY <1>1, <2>1, <2>3, <2>4
<1>3. TypeOK'
  BY <1>0, <1>1, <1>2 DEF Tick, TypeOK, thread
<1>4. Within' /\ Limit' = Limit
  BY <1>0 DEF Tick, thread, Within, Limit
<1>5. age <= Limit + waited + back
  BY <1>0, <1>1 DEF NotOver
<1>6. Reckoned'
  <2>1. used' = used
    BY DEF Tick, thread
  <2>2. 0 <= since + back /\ age <= since + back
    BY <1>0 DEF Reckoned
  <2>3. ASSUME since' = since + 1
        PROVE  0 <= since' + back' /\ age' <= since' + back'
    BY <1>1, <1>2, <2>2, <2>3
  <2>4. ASSUME since' = since, since = MaxSince
        PROVE  0 <= since' + back' /\ age' <= since' + back'
    BY <1>1, <1>2, <1>5, <2>2, <2>4
  <2>5. 0 <= since' + back' /\ age' <= since' + back'
    BY <1>2, <2>3, <2>4
  <2>6. used'.on \/ age' = 0
    BY <2>1 DEF Tick, Beating
  <2> QED  BY <2>5, <2>6 DEF Reckoned
<1>7. NotOver'
  <2>1. age' <= Limit' + waited' + back'
    BY <1>1, <1>2, <1>4, <1>5
  <2> QED  BY <1>1, <2>1 DEF NotOver
<1> QED  BY <1>3, <1>4, <1>6, <1>7 DEF Inv

\* What the clock is set back by is reckoned.
LEMMA SetClockInv ==
    ASSUME Inv, NEW d \in (-MaxSet .. MaxSet) \ {0}, SetClock(d)
    PROVE  Inv'
<1>0. TypeOK /\ Within /\ Reckoned /\ NotOver
  BY DEF Inv
<1>1. /\ since \in Int /\ age \in Nat /\ back \in Nat /\ d \in Int
      /\ MaxSince \in Nat /\ Limit \in Nat /\ MaxEvent \in Nat
      /\ MaxWait \in Nat /\ waited \in Nat
  BY <1>0, Numbers, LimitType, UdpAssumption
<1>2. /\ since' = since + d /\ since' \in Int /\ since' <= MaxSince
      /\ back' = (IF d < 0 THEN back - d ELSE back)
      /\ back' \in Nat /\ back <= back' /\ since + back <= since' + back'
      /\ age' = age /\ waited' = waited /\ pc' = pc
  BY <1>1 DEF SetClock, thread
<1>3. events' \in 0 .. MaxEvent
  BY <1>0, <1>1 DEF SetClock, TypeOK
<1>4. TypeOK'
  BY <1>0, <1>1, <1>2, <1>3 DEF SetClock, TypeOK, thread
<1>5. Within' /\ Limit' = Limit
  BY <1>0 DEF SetClock, thread, Within, Limit
<1>6. Reckoned'
  <2>1. used' = used
    BY DEF SetClock, thread
  <2> QED  BY <1>0, <1>1, <1>2, <2>1 DEF Reckoned
<1>7. NotOver'
  BY <1>0, <1>1, <1>2, <1>5 DEF NotOver
<1> QED  BY <1>4, <1>5, <1>6, <1>7 DEF Inv

-----------------------------------------------------------------------------
\* A turn begins: its heartbeat is still to come.
LEMMA SelectInv == Inv /\ Select => Inv'
<1> SUFFICES ASSUME Inv, Select PROVE Inv'
  OBVIOUS
<1>0. TypeOK /\ Within /\ Reckoned /\ NotOver
  BY DEF Inv
<1>1. /\ age \in Nat /\ back \in Nat /\ Limit \in Nat
      /\ MaxWait \in Nat /\ waited \in Nat /\ waited <= MaxWait
      /\ pc = "select" /\ pc' = "beat" /\ waited' = 0
  BY <1>0, Numbers, LimitType DEF Select
<1>2. TypeOK'
  <2>0. 0 \in 0 .. MaxWait
    BY <1>1
  <2>1. ready' \subseteq {"sock", "msg"} /\ ("sock" \in ready' => rx # << >>)
        /\ ("msg" \in ready' => msgs > 0)
    BY DEF Select
  <2> QED  BY <1>0, <2>0, <2>1 DEF Select, TypeOK
<1>3. Within' /\ Limit' = Limit /\ Reckoned'
  BY <1>0 DEF Select, Within, Limit, Reckoned
<1>4. NotOver'
  <2>1. age <= Limit + waited + back
    BY <1>0, <1>1 DEF NotOver
  <2>2. age <= Limit + MaxWait + back
    BY <1>1, <2>1
  <2>3. age' = age /\ back' = back
    BY DEF Select
  <2> QED  BY <1>1, <1>3, <2>2, <2>3 DEF NotOver
<1> QED  BY <1>2, <1>3, <1>4 DEF Inv

\* A heartbeat that is due ends the wait; one that is not shows that the
\* interval is not over.
LEMMA BeatInv == Inv /\ Beat => Inv'
<1> SUFFICES ASSUME Inv, Beat PROVE Inv'
  OBVIOUS
<1>0. TypeOK /\ Within /\ Reckoned /\ NotOver
  BY DEF Inv
<1>1. /\ since \in Int /\ age \in Nat /\ back \in Nat /\ MaxSince \in Nat
      /\ Limit \in Nat /\ Interval \in Nat /\ Interval <= Limit
  BY <1>0, Numbers, LimitType
<1>2. /\ pc = "beat" /\ pc' \in {"select", "recv"} /\ waited = 0 /\ waited' = 0
      /\ want' = want /\ msgs' = msgs /\ used' = used /\ sock' = sock
      /\ ready' = ready /\ rx' = rx /\ events' = events
  BY <1>0, Numbers DEF Beat, AfterBeat
<1>3. CASE Due
  <2>1. since' = 0 /\ age' = 0 /\ back' = 0
    BY <1>3 DEF Beat
  <2>2. TypeOK'
    <3>1. hasBeat' \in BOOLEAN
      BY <1>3 DEF Beat
    <3> QED  BY <1>0, <1>1, <1>2, <2>1, <3>1 DEF TypeOK
  <2>3. Within' /\ Reckoned'
    BY <1>0, <1>2, <2>1 DEF Within, Reckoned
  <2>4. Limit' \in Nat
    <3>1. used.short \in Nat /\ used.long \in Nat
      BY <1>0 DEF TypeOK
    <3> QED  BY <1>2, <3>1 DEF Limit, AtLeast
  <2>5. NotOver'
    <3>1. \A n \in Nat : 0 <= n + 0 + 0
      OBVIOUS
    <3>2. 0 <= Limit' + 0 + 0
      BY <2>4, <3>1
    <3> QED  BY <1>2, <2>1, <3>2 DEF NotOver
  <2> QED  BY <2>2, <2>3, <2>5 DEF Inv
<1>4. CASE ~Due
  <2>1. UNCHANGED <<hasBeat, since, age, back>>
    BY <1>4 DEF Beat
  <2>2. TypeOK'
    BY <1>0, <1>1, <1>2, <2>1 DEF TypeOK
  <2>3. Within' /\ Reckoned' /\ Limit' = Limit
    BY <1>0, <1>2, <2>1 DEF Within, Reckoned, Limit
  <2>4. NotOver'
    <3>1. CASE used.on
      <4>1. since <= Interval
        BY <1>1, <1>4, <3>1 DEF Due
      <4>2. age <= Limit + back
        BY <1>0, <1>1, <4>1 DEF Reckoned
      <4> QED  BY <1>1, <1>2, <2>1, <2>3, <4>2 DEF NotOver
    <3>2. CASE ~used.on
      <4>1. age = 0
        BY <1>0, <3>2 DEF Reckoned
      <4> QED  BY <1>1, <1>2, <2>1, <2>3, <4>1 DEF NotOver
    <3> QED  BY <3>1, <3>2
  <2> QED  BY <2>2, <2>3, <2>4 DEF Inv
<1> QED  BY <1>3, <1>4

\* A datagram may make the interval a longer one, never the limit a shorter.
LEMMA RecvInv == Inv /\ Recv => Inv'
<1> SUFFICES ASSUME Inv, Recv PROVE Inv'
  OBVIOUS
<1>0. TypeOK /\ Within /\ Reckoned /\ NotOver
  BY DEF Inv
<1>1. /\ age \in Nat /\ back \in Nat /\ Limit \in Nat
      /\ used.short \in Nat /\ used.long \in Nat
  BY <1>0, Numbers, LimitType DEF TypeOK
<1>2. /\ pc = "recv" /\ pc' = "msg" /\ UNCHANGED <<want, msgs, used, sock, ready, clock, events>>
  BY DEF Recv
<1>3. rx' \in Seq(Datagram) /\ Len(rx') <= MaxRx /\ (rx = << >> => rx' = << >>)
  <2>1. CASE "sock" \in ready
    <3>1. rx # << >> /\ rx \in Seq(Datagram) /\ Len(rx) <= MaxRx /\ MaxRx \in Nat
      BY <1>0, <1>2, <2>1, UdpAssumption DEF TypeOK
    <3>2. rx' = Tail(rx)
      BY <2>1 DEF Recv
    <3>3. Tail(rx) \in Seq(Datagram) /\ Len(Tail(rx)) = Len(rx) - 1
      BY <3>1
    <3>4. Len(rx) \in Nat
      BY <3>1
    <3> QED  BY <3>1, <3>2, <3>3, <3>4
  <2>2. CASE "sock" \notin ready
    BY <1>0, <2>2 DEF Recv, TypeOK
  <2> QED  BY <2>1, <2>2
<1>4. hasBeat' \in BOOLEAN /\ (hasBeat => hasBeat')
  BY <1>0 DEF Recv, TypeOK
<1>5. TypeOK'
  BY <1>0, <1>2, <1>3, <1>4 DEF TypeOK, clock
<1>6. Within' /\ Reckoned'
  BY <1>0, <1>2 DEF Within, Reckoned, clock
<1>7. Limit' \in Nat /\ Limit <= Limit'
  <2>1. used' = used
    BY <1>2
  <2>2. CASE hasBeat
    BY <1>1, <1>4, <2>1, <2>2 DEF Limit, AtLeast
  <2>3. CASE ~hasBeat
    BY <1>1, <1>4, <2>1, <2>3 DEF Limit, AtLeast
  <2> QED  BY <2>2, <2>3
<1>8. NotOver'
  <2>1. age' = age /\ back' = back
    BY <1>2 DEF clock
  <2>2. \A a, b, w \in Nat : \A m, n \in Nat :
            m <= n /\ a <= m + w + b => a <= n + w + b
    OBVIOUS
  <2>4. waited' = waited /\ waited \in Nat
    BY <1>0, <1>2, Numbers DEF clock
  <2>3. age <= Limit + waited + back => age <= Limit' + waited + back
    BY <1>1, <1>7, <2>2, <2>4
  <2> QED  BY <1>0, <1>2, <2>1, <2>3, <2>4 DEF NotOver
<1> QED  BY <1>5, <1>6, <1>8 DEF Inv

\* Settings that are new begin the wait anew.
LEMMA MsgInv == Inv /\ Msg => Inv'
<1> SUFFICES ASSUME Inv, Msg PROVE Inv'
  OBVIOUS
<1>0. TypeOK /\ Within /\ Reckoned /\ NotOver
  BY DEF Inv
<1>1. /\ pc = "msg" /\ pc' = "select"
      /\ UNCHANGED <<want, hasBeat, ready, since, waited, back, events>>
  BY DEF Msg
<1>2. CASE "msg" \in ready
  <2>1. PICK s \in Setting : want = s /\ used' = Clamped(s)
    BY <1>0, <1>2 DEF Msg, TypeOK
  <2>2. /\ used'.port = s.port /\ used'.port \in Ports
        /\ used'.on \in BOOLEAN /\ used'.remote \subseteq Remote
        /\ used'.short \in Nat /\ used'.short >= MinShort
        /\ used'.long \in Nat /\ used'.long >= MinLong
        /\ used'.short + MaxWait < MaxSince /\ used'.long + MaxWait < MaxSince
    BY <2>1, ClampedType
  <2>3. msgs' \in 0 .. MaxMsg
    <3>1. msgs > 0 /\ msgs \in 0 .. MaxMsg /\ MaxMsg \in Nat
      BY <1>0, <1>1, <1>2, UdpAssumption DEF TypeOK
    <3>2. msgs' = msgs - 1
      BY <1>2 DEF Msg
    <3> QED  BY <3>1, <3>2
  <2>4. /\ sock' \in {used'.port, "none"}
        /\ rx' \in Seq(Datagram) /\ Len(rx') <= MaxRx /\ (sock' = "none" => rx' = << >>)
    <3>1. CASE s.port = used.port
      <4>1. sock' = sock /\ rx' = rx
        BY <1>2, <2>1, <3>1 DEF Msg, NewSocket
      <4> QED  BY <1>0, <2>2, <3>1, <4>1 DEF TypeOK
    <3>2. CASE s.port # used.port
      <4>1. sock' \in {s.port, "none"} /\ rx' = << >>
        BY <1>2, <2>1, <3>2 DEF Msg, NewSocket, Listen
      <4>2. << >> \in Seq(Datagram) /\ Len(<< >>) <= MaxRx
        BY UdpAssumption
      <4> QED  BY <2>2, <4>1, <4>2
    <3> QED  BY <3>1, <3>2
  <2>5. age' = age \/ age' = 0
    BY <1>2 DEF Msg
  <2>6. TypeOK'
    <3>1. age' \in Nat
      BY <1>0, <2>5 DEF TypeOK
    <3> QED  BY <1>0, <1>1, <2>2, <2>3, <2>4, <3>1 DEF TypeOK
  <2>7. Within'
    BY <2>2 DEF Within
  <2>8. CASE used' = used
    <3>1. age' = age
      BY <1>2, <2>8 DEF Msg
    <3> QED  BY <1>0, <1>1, <2>6, <2>7, <2>8, <3>1 DEF Inv, Reckoned, NotOver, Limit
  <2>9. CASE used' # used
    <3>1. age' = 0
      BY <1>2, <2>9 DEF Msg
    <3>2. Reckoned'
      BY <1>0, <1>1, <3>1 DEF Reckoned
    <3>3. Limit' \in Nat
      BY <2>2 DEF Limit, AtLeast
    <3>4. \A m, n, w \in Nat : 0 <= m + w + n
      OBVIOUS
    <3>5. back' \in Nat /\ waited' = waited /\ waited \in Nat /\ MaxWait \in Nat
      BY <1>0, <1>1, <2>6, Numbers DEF TypeOK
    <3>6. 0 <= Limit' + waited' + back' /\ 0 <= Limit' + MaxWait + back'
      BY <3>3, <3>4, <3>5
    <3>7. NotOver'
      BY <3>1, <3>6 DEF NotOver
    <3> QED  BY <2>6, <2>7, <3>2, <3>7 DEF Inv
  <2> QED  BY <2>8, <2>9
<1>3. CASE "msg" \notin ready
  <2>1. UNCHANGED <<msgs, used, sock, rx, age>>
    BY <1>3 DEF Msg
  <2> QED  BY <1>0, <1>1, <2>1 DEF Inv, TypeOK, Within, Reckoned, NotOver, Limit
<1> QED  BY <1>2, <1>3

-----------------------------------------------------------------------------
\* Every reachable state is in order.
LEMMA Invariance == Spec => []Inv
<1>1. Init => Inv
  BY InitInv
<1>2. Inv /\ [Next]_vars => Inv'
  <2>1. Inv /\ Next => Inv'
    BY OutsideInv, TickInv, SetClockInv, SelectInv, BeatInv, RecvInv, MsgInv
       DEF Next, Thread, Others
  <2>2. Inv /\ UNCHANGED vars => Inv'
    BY DEF Inv, vars, thread, clock, TypeOK, Within, Reckoned, NotOver, Limit
  <2> QED  BY <2>1, <2>2
<1> QED  BY <1>1, <1>2, PTL DEF Spec

(***************************************************************************)
(* Type correctness of the UDP server: the socket is that of port_str or   *)
(* none, and what select has found to read is still there when it is read. *)
(***************************************************************************)
THEOREM Types == Spec => []TypeOK
<1>1. Inv => TypeOK
  BY DEF Inv
<1> QED  BY <1>1, Invariance, PTL

(***************************************************************************)
(* The heartbeat is never late by more than one wait of select and what    *)
(* the clock was set back, whatever the intervals and the traffic.         *)
(***************************************************************************)
THEOREM HeartbeatInTime == Spec => []BeatInTime
<1>1. Inv => BeatInTime
  <2>1. Inv => /\ age \in Nat /\ back \in Nat /\ Limit \in Nat
               /\ waited \in Nat /\ MaxWait \in Nat /\ waited <= MaxWait
    BY Numbers, LimitType DEF Inv
  <2>2. Inv => age <= Limit + waited + back \/ age <= Limit + MaxWait + back
    BY DEF Inv, NotOver
  <2> QED  BY <2>1, <2>2 DEF BeatInTime
<1> QED  BY <1>1, Invariance, PTL

=============================================================================
