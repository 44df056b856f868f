------------------------------ MODULE UdpServer ------------------------------
(***************************************************************************)
(* The UDP server (network/udp_server.c): it answers Modbus requests that  *)
(* come as datagrams, and tells the remote servers with a heartbeat that   *)
(* the RTU is there: after a long interval if one of them has answered the *)
(* last heartbeat, else after a short one.                                 *)
(*                                                                         *)
(* One turn of its loop: select for at most 3 s, a heartbeat if it is due, *)
(* one datagram, one message.  The time of the last heartbeat is a reading *)
(* of the clock, which a server may set; a message makes the thread read   *)
(* its settings again, and open the socket again if the port is another.   *)
(***************************************************************************)
EXTENDS Integers, Sequences

CONSTANTS Setting,   \* what the registers may hold
          MinShort,  \* 5 s
          MinLong,   \* 10 s
          MaxWait,   \* the time-out of select, 3 s
          MaxMsg,    \* PMSG_MAXMSG
          MaxRx,     \* bound: datagrams in the socket
          MaxSince,  \* bound: seconds since the last heartbeat
          MaxSet,    \* bound: how far the clock is set at once
          MaxEvent   \* bound: times it is set

VARIABLES
    want,     \* the registers: port, status and intervals, remote servers
    msgs,     \* MSG_CONFIG_START in udp_server_msg_fd
    used,     \* port_str, heart_beat_info and the addresses looked up
    sock,     \* the port server_socket_pi is bound to, or "none"
    rx,       \* datagrams in it
    hasBeat,  \* has_beat
    since,    \* time(NULL) - time0
    pc, ready,
    waited,   \* seconds this select has waited
    age,      \* seconds the heartbeat has been waited for
    back,     \* seconds the clock has been set back since the last one
    events

thread == <<used, sock, hasBeat, pc, ready>>
clock == <<since, waited, age, back>>
vars == <<want, msgs, thread, rx, clock, events>>

Remote == UNION {s.remote : s \in Setting}
Ports == {s.port : s \in Setting}
Datagram == {"request", "beat", "short"}

ASSUME UdpAssumption ==
    /\ Setting \subseteq [port : Ports, on : BOOLEAN, short : Nat, long : Nat,
                          remote : SUBSET Remote]
    /\ {MinShort, MinLong, MaxWait, MaxMsg, MaxRx, MaxSince, MaxSet, MaxEvent} \subseteq Nat
    /\ "none" \notin Ports
    /\ MinShort + MaxWait < MaxSince /\ MinLong + MaxWait < MaxSince
    /\ \A s \in Setting : s.short + MaxWait < MaxSince /\ s.long + MaxWait < MaxSince

AtLeast(n, m) == IF n < m THEN m ELSE n

\* The intervals have a least value.
Clamped(s) == [s EXCEPT !.short = AtLeast(@, MinShort), !.long = AtLeast(@, MinLong)]

Interval == IF hasBeat THEN used.long ELSE used.short

\* Heartbeats are wanted and can be sent.
Beating == used.on /\ used.remote # {} /\ sock # "none"

TypeOK ==
    /\ want \in Setting
    /\ msgs \in 0 .. MaxMsg
    /\ used.port \in Ports /\ used.on \in BOOLEAN /\ used.remote \subseteq Remote
    /\ used.short \in Nat /\ used.short >= MinShort
    /\ used.long \in Nat /\ used.long >= MinLong
    /\ sock \in {used.port, "none"}
    /\ rx \in Seq(Datagram) /\ Len(rx) <= MaxRx /\ (sock = "none" => rx = << >>)
    /\ hasBeat \in BOOLEAN
    /\ waited \in 0 .. MaxWait /\ (pc # "select" => waited = 0)
    /\ since \in Int /\ since <= MaxSince /\ age \in Nat /\ back \in Nat
    /\ pc \in {"select", "beat", "recv", "msg"}
    /\ ready \subseteq {"sock", "msg"}
    /\ pc \in {"beat", "recv"} /\ "sock" \in ready => rx # << >>
    /\ pc # "select" /\ "msg" \in ready => msgs > 0
    /\ events \in 0 .. MaxEvent

\* The socket is opened; modbus_tcp_pi_udp_listen may fail.
Listen(port) == sock' = port \/ sock' = "none"

Init ==
    /\ want \in Setting /\ used = Clamped(want) /\ sock \in {want.port, "none"}
    /\ msgs = 0 /\ rx = << >>
    /\ hasBeat = FALSE
    /\ since = 0 /\ waited = 0 /\ age = 0 /\ back = 0
    /\ pc = "select" /\ ready = {}
    /\ events = 0

-----------------------------------------------------------------------------
(***************************************************************************)
(* The rest of the RTU, the network and the clock.                         *)
(***************************************************************************)
Store(s) ==
    /\ want' = s
    /\ UNCHANGED <<msgs, thread, rx, clock, events>>

Announce ==
    /\ msgs < MaxMsg /\ msgs' = msgs + 1
    /\ UNCHANGED <<want, thread, rx, clock, events>>

DatagramComes(d) ==
    /\ sock # "none" /\ Len(rx) < MaxRx
    /\ rx' = Append(rx, d)
    /\ UNCHANGED <<want, msgs, thread, clock, events>>

\* A second goes by in select; the rest of a turn takes no time that counts.
Tick ==
    /\ pc = "select" /\ waited < MaxWait
    /\ waited' = waited + 1
    /\ since' = IF since < MaxSince THEN since + 1 ELSE since
    /\ age' = IF Beating THEN age + 1 ELSE 0
    /\ UNCHANGED <<want, msgs, thread, rx, back, events>>

\* rtu_set_time, on behalf of any server.
SetClock(d) ==
    /\ events < MaxEvent /\ events' = events + 1
    /\ since + d <= MaxSince /\ since' = since + d
    /\ back' = IF d < 0 THEN back - d ELSE back
    /\ UNCHANGED <<want, msgs, thread, rx, waited, age>>

-----------------------------------------------------------------------------
(***************************************************************************)
(* The loop.                                                               *)
(***************************************************************************)
\* select returns when there is something to read, or after its time-out.
Select ==
    /\ pc = "select" /\ pc' = "beat"
    /\ ready' = (IF rx # << >> THEN {"sock"} ELSE {}) \cup (IF msgs > 0 THEN {"msg"} ELSE {})
    /\ ready' # {} \/ waited = MaxWait
    /\ waited' = 0
    /\ UNCHANGED <<want, msgs, used, sock, hasBeat, rx, since, age, back, events>>

Due == used.on /\ since > Interval

AfterBeat == pc' = IF ready = {} THEN "select" ELSE "recv"

\* Mutant: the time is renewed whether a heartbeat was sent or not.
Beat_Renew ==
    /\ pc = "beat" /\ AfterBeat
    /\ IF Due
       THEN /\ age' = 0 /\ back' = 0
            /\ hasBeat' = (hasBeat /\ used.remote = {})
       ELSE UNCHANGED <<hasBeat, age, back>>
    /\ since' = 0
    /\ UNCHANGED <<want, msgs, used, sock, ready, rx, waited, events>>

\* A heartbeat to every server whose address is known.  The result of a
\* sendto takes the place of that of select, and is never 0.
Beat ==
    /\ pc = "beat" /\ AfterBeat
    /\ IF Due
       THEN /\ since' = 0 /\ age' = 0 /\ back' = 0
            /\ hasBeat' = (hasBeat /\ used.remote = {})
       ELSE UNCHANGED <<hasBeat, since, age, back>>
    /\ UNCHANGED <<want, msgs, used, sock, ready, rx, waited, events>>

\* Mutant: what is too short is left in the socket.
Recv_Left ==
    /\ pc = "recv" /\ pc' = "msg"
    /\ IF "sock" \in ready
       THEN /\ rx' = IF Head(rx) = "short" THEN rx ELSE Tail(rx)
            /\ hasBeat' = (hasBeat \/ Head(rx) = "beat")
       ELSE UNCHANGED <<rx, hasBeat>>
    /\ UNCHANGED <<want, msgs, used, sock, ready, clock, events>>

\* One datagram: the answer to a heartbeat, a request for modbus_reply, or
\* too short for either.
Recv ==
    /\ pc = "recv" /\ pc' = "msg"
    /\ IF "sock" \in ready
       THEN rx' = Tail(rx) /\ hasBeat' = (hasBeat \/ Head(rx) = "beat")
       ELSE UNCHANGED <<rx, hasBeat>>
    /\ UNCHANGED <<want, msgs, used, sock, ready, clock, events>>

\* The socket is left alone if the port is that of port_str, even if there
\* is none.
NewSocket ==
    IF want.port = used.port
    THEN UNCHANGED <<sock, rx>>
    ELSE Listen(want.port) /\ rx' = << >>

\* Mutant: other settings are read with another port only.
Msg_Port ==
    /\ pc = "msg" /\ pc' = "select"
    /\ IF "msg" \in ready
       THEN /\ msgs' = msgs - 1
            /\ used' = IF want.port = used.port THEN used ELSE Clamped(want)
            /\ NewSocket
            /\ age' = IF used' = used THEN age ELSE 0
       ELSE UNCHANGED <<msgs, used, sock, rx, age>>
    /\ UNCHANGED <<want, hasBeat, ready, since, waited, back, events>>

\* One message, and msg_handler.
Msg ==
    /\ pc = "msg" /\ pc' = "select"
    /\ IF "msg" \in ready
       THEN /\ msgs' = msgs - 1
            /\ used' = Clamped(want)
            /\ NewSocket
            /\ age' = IF used' = used THEN age ELSE 0
       ELSE UNCHANGED <<msgs, used, sock, rx, age>>
    /\ UNCHANGED <<want, hasBeat, ready, since, waited, back, events>>

-----------------------------------------------------------------------------
Thread == Select \/ Beat \/ Recv \/ Msg

Others ==
    \/ \E s \in Setting : Store(s)
    \/ Announce
    \/ \E d \in Datagram : DatagramComes(d)
    \/ Tick
    \/ \E d \in (-MaxSet .. MaxSet) \ {0} : SetClock(d)

Next == Thread \/ Others

Spec == Init /\ [][Next]_vars

\* select has a timeout, and nothing else in the loop waits.
FairSpec == Spec /\ WF_vars(Thread)

-----------------------------------------------------------------------------
(***************************************************************************)
(* While heartbeats are wanted and can be sent, one is sent within the     *)
(* interval and one wait of select, which may have begun just before the   *)
(* interval was over; requests, answers and messages notwithstanding, but  *)
(* for the time the clock has been set back.  An answer that is late may   *)
(* find the short interval over, and the long one too if the registers     *)
(* make it the shorter of the two.                                         *)
(***************************************************************************)
Limit == IF hasBeat THEN AtLeast(used.long, used.short) ELSE used.short

BeatInTime == Beating => age <= Limit + MaxWait + back

(***************************************************************************)
(* Every datagram is read, or goes with its socket: heartbeats and         *)
(* messages do not keep the loop from the requests.                        *)
(***************************************************************************)
Served == rx # << >> ~> rx = << >>

(***************************************************************************)
(* Settings are taken up when they are announced, whatever the requests.   *)
(***************************************************************************)
TakenUp == msgs > 0 ~> used = Clamped(want)

=============================================================================
