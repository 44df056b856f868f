-------------------------- MODULE ConfigBroadcast --------------------------
(***************************************************************************)
(* The configuration broadcast of the RTU.  A server thread (Modbus over   *)
(* TCP, UDP, RS485 or RS232, or the reset button) stores registers of the  *)
(* flash1 area one by one and then writes 1 to MAP_CONFIG1, upon which     *)
(* rtu_reset_flash1 sends MSG_CONFIG_START to the message queues of the    *)
(* six configurable threads, one after the other.  The queues are POSIX    *)
(* message queues opened O_NONBLOCK with room for PMSG_MAXMSG messages: a  *)
(* send to a full queue fails, and nobody looks at the failure.            *)
(*                                                                         *)
(* A thread that receives MSG_CONFIG_START reads its registers again, one  *)
(* by one, with no lock: writers go on storing meanwhile.                  *)
(*                                                                         *)
(* The two TCP threads also answer requests.  The send of an answer blocks *)
(* with no time-out, as long as the other end of the connection does not   *)
(* read; the thread takes no message then.                                 *)
(*                                                                         *)
(* ver[r]        number of stores to register r                            *)
(* queue[c]      the message queue of thread c                             *)
(* todo[c]       registers thread c still has to read in its handler, or   *)
(*               while it starts; {} when it waits in select               *)
(* seen[c][r]    the store whose value thread c last read                  *)
(* announced[c]  ver when MSG_CONFIG_START was last sent (or dropped) to   *)
(*               c: a history variable                                     *)
(* sending[w]    the place in SendOrder writer w has reached; 0 when it is *)
(*               not in rtu_reset_flash1                                   *)
(* held          the threads whose send of an answer blocks                *)
(***************************************************************************)
EXTENDS Naturals, Sequences

CONSTANTS Writer,       \* threads that execute register writes
          Consumer,     \* threads with a message queue
          Shared,       \* consumers whose queue carries other messages too
          Blocking,     \* consumers that answer over TCP
          Register,     \* configuration registers
          Reads,        \* the registers each consumer's handler reads
          SendOrder,    \* the order of the sends in rtu_reset_flash1
          MaxMsg,       \* PMSG_MAXMSG
          MaxVer        \* bound: how often each register is stored

ASSUME ConstantsType ==
    /\ Shared \subseteq Consumer
    /\ Blocking \subseteq Consumer
    /\ Reads \in [Consumer -> SUBSET Register]
    /\ SendOrder \in Seq(Consumer)
    /\ MaxMsg \in Nat \ {0}
    /\ MaxVer \in Nat

VARIABLES ver, queue, todo, seen, announced, sending, held

broadcastVars == <<ver, queue, todo, seen, announced, sending, held>>

Message == {"MSG_CONFIG_START", "OTHER"}

\* Consumers that are sent nothing but MSG_CONFIG_START: of the six, all but
\* rtu_client and zigbee.
Dedicated == Consumer \ Shared

BroadcastTypeOK ==
    /\ ver \in [Register -> 0 .. MaxVer]
    /\ queue \in [Consumer -> Seq(Message)]
    /\ todo \in [Consumer -> SUBSET Register]
    /\ seen \in [Consumer -> [Register -> 0 .. MaxVer]]
    /\ announced \in [Consumer -> [Register -> 0 .. MaxVer]]
    /\ sending \in [Writer -> 0 .. Len(SendOrder)]
    /\ held \subseteq Blocking

\* main removes and opens the queues, then starts the threads, each of which
\* reads its registers before its first select.
BroadcastInit ==
    /\ ver = [r \in Register |-> 0]
    /\ queue = [c \in Consumer |-> << >>]
    /\ todo = Reads
    /\ seen = [c \in Consumer |-> [r \in Register |-> 0]]
    /\ announced = [c \in Consumer |-> ver]
    /\ sending = [w \in Writer |-> 0]
    /\ held = {}

\* pmsg_q_send: mq_send on a non-blocking queue; a full queue drops m.
Sent(q, m) == IF Len(q) < MaxMsg THEN Append(q, m) ELSE q

\* A register of the FLASH1 area is stored by zigbee_write_registers.
StoreRegister(w, r) ==
    /\ sending[w] = 0
    /\ ver[r] < MaxVer
    /\ ver' = [ver EXCEPT ![r] = @ + 1]
    /\ UNCHANGED <<queue, todo, seen, announced, sending, held>>

\* 1 is written to MAP_CONFIG1: the sends begin.
WriteConfig1(w) ==
    /\ sending[w] = 0
    /\ SendOrder # << >>
    /\ sending' = [sending EXCEPT ![w] = 1]
    /\ UNCHANGED <<ver, queue, todo, seen, announced, held>>

\* Mutant: no message for a thread whose handler runs already.
SendConfigStart_SkipBusy(w) ==
    /\ sending[w] # 0
    /\ LET c == SendOrder[sending[w]] IN
         /\ queue' = [queue EXCEPT ![c] =
                        IF todo[c] = {} THEN Sent(@, "MSG_CONFIG_START") ELSE @]
         /\ announced' = [announced EXCEPT ![c] = ver]
    /\ sending' = [sending EXCEPT ![w] =
                     IF @ = Len(SendOrder) THEN 0 ELSE @ + 1]
    /\ UNCHANGED <<ver, todo, seen, held>>

\* The next pmsg_q_send of rtu_reset_flash1.
SendConfigStart(w) ==
    /\ sending[w] # 0
    /\ LET c == SendOrder[sending[w]] IN
         /\ queue' = [queue EXCEPT ![c] = Sent(@, "MSG_CONFIG_START")]
         /\ announced' = [announced EXCEPT ![c] = ver]
    /\ sending' = [sending EXCEPT ![w] =
                     IF @ = Len(SendOrder) THEN 0 ELSE @ + 1]
    /\ UNCHANGED <<ver, todo, seen, held>>

\* Some thread sends c one of the messages that share its queue:
\* MSG_LOAD_ELEC_SYSN to rtu_client or zigbee, MSG_CONFIG2_START to rtu_client.
SendOther(c) ==
    /\ c \in Shared
    /\ queue' = [queue EXCEPT ![c] = Sent(@, "OTHER")]
    /\ UNCHANGED <<ver, todo, seen, announced, sending, held>>

\* Mutant of Receive: a message is served inside the handler of another.
Receive_Nested(c) ==
    /\ c \notin held
    /\ queue[c] # << >>
    /\ queue' = [queue EXCEPT ![c] = Tail(@)]
    /\ todo' = [todo EXCEPT ![c] =
                  IF Head(queue[c]) = "MSG_CONFIG_START" THEN Reads[c] ELSE {}]
    /\ UNCHANGED <<ver, seen, announced, sending, held>>

\* Thread c, in select, finds its queue readable, takes the oldest message
\* and enters its handler.
Receive(c) ==
    /\ todo[c] = {}
    /\ c \notin held
    /\ queue[c] # << >>
    /\ queue' = [queue EXCEPT ![c] = Tail(@)]
    /\ todo' = [todo EXCEPT ![c] =
                  IF Head(queue[c]) = "MSG_CONFIG_START" THEN Reads[c] ELSE {}]
    /\ UNCHANGED <<ver, seen, announced, sending, held>>

\* zigbee_read_registers: thread c reads one of the registers it needs.
ReadRegister(c, r) ==
    /\ r \in todo[c]
    /\ seen' = [seen EXCEPT ![c][r] = ver[r]]
    /\ todo' = [todo EXCEPT ![c] = @ \ {r}]
    /\ UNCHANGED <<ver, queue, announced, sending, held>>

\* modbus_reply of thread c: the answer does not fit, send blocks.
Hold(c) ==
    /\ c \in Blocking \ held
    /\ todo[c] = {}
    /\ held' = held \union {c}
    /\ UNCHANGED <<ver, queue, todo, seen, announced, sending>>

\* The other end reads, or its connection fails: send returns.
Release(c) ==
    /\ c \in held
    /\ held' = held \ {c}
    /\ UNCHANGED <<ver, queue, todo, seen, announced, sending>>

\* The RTU loses power and starts again from what flash1 holds.
PowerCycle ==
    /\ queue' = [c \in Consumer |-> << >>]
    /\ todo' = Reads
    /\ seen' = [c \in Consumer |-> [r \in Register |-> 0]]
    /\ announced' = [c \in Consumer |-> ver]
    /\ sending' = [w \in Writer |-> 0]
    /\ held' = {}
    /\ UNCHANGED ver

WriterStep(w) ==
    \/ \E r \in Register : StoreRegister(w, r)
    \/ WriteConfig1(w)
    \/ SendConfigStart(w)

ConsumerStep(c) ==
    \/ Receive(c)
    \/ \E r \in Register : ReadRegister(c, r)

Running ==
    \/ \E w \in Writer : WriterStep(w)
    \/ \E c \in Consumer :
          ConsumerStep(c) \/ SendOther(c) \/ Hold(c) \/ Release(c)

BroadcastNext == Running \/ PowerCycle

BroadcastSpec == BroadcastInit /\ [][BroadcastNext]_broadcastVars

(***************************************************************************)
(* A writer that has entered rtu_reset_flash1 comes out of it, since no    *)
(* send to a queue blocks, and a thread runs its handler to the end.       *)
(* Every round of a thread's loop looks at its queue: a thread whose sends *)
(* all end takes its message in the end, however often they block.  That   *)
(* is strong fairness.  Nothing obliges a client to read its answers, and  *)
(* nothing obliges anybody to write.                                       *)
(***************************************************************************)
BroadcastFairness ==
    /\ \A w \in Writer : WF_broadcastVars(SendConfigStart(w))
    /\ \A c \in Consumer : SF_broadcastVars(ConsumerStep(c))

BroadcastFairSpec == BroadcastSpec /\ BroadcastFairness

-----------------------------------------------------------------------------
Holds(q, m) == \E i \in 1 .. Len(q) : q[i] = m

(***************************************************************************)
(* The non-blocking queue never loses the news.  A store announced to a    *)
(* thread with a queue of its own is read by the thread, or will be: a     *)
(* MSG_CONFIG_START is still queued, or the handler that serves one has    *)
(* not read that register yet.  A MSG_CONFIG_START dropped because the     *)
(* queue is full does no harm.                                             *)
(***************************************************************************)
NoLostConfig ==
    \A c \in Dedicated : \A r \in Reads[c] :
        \/ seen[c][r] >= announced[c][r]
        \/ Holds(queue[c], "MSG_CONFIG_START")
        \/ r \in todo[c]

\* The inductive strengthening: a dedicated queue holds nothing else, and only
\* what has been stored is announced.
OneKindOnly == \A c \in Dedicated : queue[c] \in Seq({"MSG_CONFIG_START"})

AnnouncedIsStored ==
    \A c \in Consumer : \A r \in Register : announced[c][r] <= ver[r]

BroadcastInv ==
    BroadcastTypeOK /\ OneKindOnly /\ AnnouncedIsStored /\ NoLostConfig

(***************************************************************************)
(* Every announced store reaches every thread with a queue of its own,     *)
(* whatever other writers do in the meantime: the thread comes to have     *)
(* read that store or a later one, unless power is lost again and again or *)
(* the send of an answer blocks the thread for ever.                       *)
(***************************************************************************)
PowerStays == <>[][~PowerCycle]_broadcastVars

EventuallyApplied ==
    PowerStays =>
    \A c \in Dedicated :
        \/ <>[](c \in held)
        \/ \A r \in Register : \A n \in 1 .. MaxVer :
              (r \in Reads[c] /\ announced[c][r] >= n) ~> (seen[c][r] >= n)

(***************************************************************************)
(* The bounded, dropping queues implement sticky notification flags.       *)
(***************************************************************************)
Notification == INSTANCE ConfigNotify WITH
    Consumer  <- Dedicated,
    Reads     <- [c \in Dedicated |-> Reads[c]],
    announced <- [c \in Dedicated |-> announced[c]],
    seen      <- [c \in Dedicated |-> seen[c]],
    todo      <- [c \in Dedicated |-> todo[c]],
    flag      <- [c \in Dedicated |-> queue[c] # << >>]

ImplementsNotification == Notification!Spec

=============================================================================
