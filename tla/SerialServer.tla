----------------------------- MODULE SerialServer -----------------------------
(***************************************************************************)
(* The servers of the serial lines: the RS485 slave, which takes up new    *)
(* port settings while it runs (modbus_485/modbus485_slave.c), and the     *)
(* RS232 server, which gets no messages (modbus_232/modbus232_server.c),   *)
(* on the receive_msg of libmodbus (modbus.c, modbus-rtu.c).               *)
(*                                                                         *)
(* The line carries bytes without marks between the frames.  receive_msg   *)
(* finds the end of a request from what it has read of it; nothing it has  *)
(* read or left is thrown away on an error, and only a silence of          *)
(* byte_timeout inside what it takes for a frame makes it begin anew.  Its *)
(* select also watches the message queue: a message ends the receive.      *)
(*                                                                         *)
(* A byte is a token <<kind, position>>: what it tells receive_msg when it *)
(* is read at another position, or is a disturbed byte, is left open.      *)
(***************************************************************************)
EXTENDS Integers, Sequences, SequencesExt, FiniteSetsExt

CONSTANTS Code,      \* what the port's registers can say
          Invalid,   \* ... the codes init_port_info has no case for
          Conf,      \* the settings the configuration file starts with
          Default,   \* 9600 8N1
          Own,       \* requests to the RTU, of functions the code knows
          Alien,     \* other frames: of other slaves, of functions unknown
          Shape,     \* Shape[k]: class of the function, bytes of data, size
          MaxAdu,    \* MODBUS_RTU_MAX_ADU_LENGTH
          MaxMsg,    \* PMSG_MAXMSG, 0 for the RS232 server
          MaxRx,     \* bound: bytes the thread is behind the line
          MaxEvent   \* bound: disturbances and messages

Classes == {"single", "multiple", "rw", "none"}
Kind == Own \cup Alien

ASSUME SerialAssumption ==
    /\ Own \cap Alien = {} /\ "noise" \notin Kind /\ "nobody" \notin Kind
    /\ Shape \in [Kind -> [class : Classes, data : Nat, size : 1 .. MaxAdu]]
    /\ MaxAdu \in Nat /\ MaxAdu >= 11
    /\ {MaxMsg, MaxRx, MaxEvent} \subseteq Nat
    /\ Invalid \notin {Conf, Default}

Port == (Code \ {Invalid}) \cup {Conf, Default}
Frame(k) == [i \in 1 .. Shape[k].size |-> <<k, i>>]
Noise == <<"noise", 0>>
Byte == {Noise} \cup {<<k, i>> : k \in Kind, i \in 1 .. MaxAdu}

VARIABLES
    want,     \* the registers of the port
    msgs,     \* MSG_CONFIG_START in rtu_server_msg_fd
    port,     \* rate, data_flag, stop_flag and ver_flag
    up,       \* ctx->s is an open port
    asking,   \* the master's request that has no answer yet
    line,     \* bytes on the line
    silent,   \* nothing has been on it for byte_timeout
    rx,       \* bytes in the input of the port
    pc,       \* in select, before the read, or in the handler's sleep
    step,     \* _STEP_FUNCTION, _STEP_META by class, _STEP_DATA
    got,      \* msg
    need,     \* length_to_read
    deaf,     \* select has taken the port out of rfds
    events

config == <<want, msgs, port, up>>
master == <<asking, line, silent>>
receive == <<pc, step, got, need, deaf>>
vars == <<config, master, rx, receive, events>>

TypeOK ==
    /\ want \in Code /\ msgs \in 0 .. MaxMsg
    /\ port \in Port /\ up \in BOOLEAN
    /\ asking \in Own \cup {"nobody"}
    /\ line \in Seq(Byte) /\ rx \in Seq(Byte) /\ silent \in BOOLEAN
    /\ pc \in {"wait", "read", "sleep"}
    /\ step \in Classes \cup {"function", "data"}
    /\ got \in Seq(Byte) /\ need \in 1 .. MaxAdu /\ Len(got) + need <= MaxAdu
    /\ deaf \in BOOLEAN
    /\ deaf => got # << >> \/ pc # "wait"
    /\ events \in 0 .. MaxEvent

\* init_port_info: a code without a case leaves what was there before.
Meant(c, otherwise) == IF c = Invalid THEN otherwise ELSE c

\* receive_msg is called: first it wants the slave and the function.
Fresh ==
    /\ pc' = "wait" /\ step' = "function" /\ got' = << >> /\ need' = 2
    /\ deaf' = FALSE

Init ==
    /\ want \in Code /\ msgs = 0
    /\ port = Meant(want, Conf) /\ up = TRUE
    /\ asking = "nobody" /\ line = << >> /\ silent = TRUE
    /\ rx = << >>
    /\ pc = "wait" /\ step = "function" /\ got = << >> /\ need = 2 /\ deaf = FALSE
    /\ events = 0

-----------------------------------------------------------------------------
(***************************************************************************)
(* The rest of the RTU, and the line.                                      *)
(***************************************************************************)
Event == events < MaxEvent /\ events' = events + 1

\* A server stores other settings; rtu_reset_flash1 announces a change of
\* some register, of the port or not.
Store(c) ==
    /\ Event /\ MaxMsg > 0 /\ want' = c /\ c # want
    /\ UNCHANGED <<msgs, port, up, master, rx, receive>>

Announce ==
    /\ Event /\ msgs < MaxMsg /\ msgs' = msgs + 1
    /\ UNCHANGED <<want, port, up, master, rx, receive>>

\* The thread has done all it does in a silence, but for the second it may
\* sleep.
Settled == pc = "sleep" \/ (pc = "wait" /\ msgs = 0 /\ got = << >> /\ rx = << >>)

PutOnLine(k) ==
    /\ line = << >> /\ (silent => Settled)
    /\ line' = Frame(k) /\ silent' = FALSE

\* The master asks; without an answer it asks again after a silence.
Ask(k) ==
    /\ asking = "nobody" \/ (asking = k /\ silent)
    /\ PutOnLine(k) /\ asking' = k
    /\ UNCHANGED <<config, rx, receive, events>>

\* A frame not for the RTU.
Foreign(k) ==
    /\ Event /\ PutOnLine(k)
    /\ UNCHANGED <<config, asking, rx, receive>>

\* The next byte comes in, if there is a port.
ByteComes ==
    /\ line # << >> /\ line' = Tail(line) /\ Len(rx) < MaxRx
    /\ rx' = IF up THEN Append(rx, Head(line)) ELSE rx
    /\ UNCHANGED <<config, asking, silent, receive, events>>

\* It is lost, or disturbed.
ByteDisturbed ==
    /\ Event
    /\ line # << >> /\ line' = Tail(line) /\ Len(rx) < MaxRx
    /\ rx' \in {rx, IF up THEN Append(rx, Noise) ELSE rx}
    /\ UNCHANGED <<config, asking, silent, receive>>

Silence ==
    /\ line = << >> /\ ~silent /\ silent' = TRUE
    /\ UNCHANGED <<config, asking, line, rx, receive, events>>

-----------------------------------------------------------------------------
(***************************************************************************)
(* msg_handler, called by _modbus_rtu_select.                              *)
(***************************************************************************)
\* Mutant: nothing is done in the middle of a request.
ServeMessage_Busy ==
    /\ pc = "wait" /\ msgs > 0 /\ msgs' = msgs - 1
    /\ deaf' = (deaf \/ rx = << >>)
    /\ IF Meant(want, Default) = port \/ got # << >>
       THEN pc' = "read" /\ UNCHANGED port
       ELSE pc' = "sleep" /\ port' = Meant(want, Default)
    /\ UNCHANGED <<want, up, master, rx, step, got, need, events>>

\* Settings that have not changed are left alone; others are set after a
\* second.
ServeMessage ==
    /\ pc = "wait" /\ msgs > 0 /\ msgs' = msgs - 1
    /\ deaf' = (deaf \/ rx = << >>)
    /\ IF Meant(want, Default) = port
       THEN pc' = "read" /\ UNCHANGED port
       ELSE pc' = "sleep" /\ port' = Meant(want, Default)
    /\ UNCHANGED <<want, up, master, rx, step, got, need, events>>

\* The port is closed and opened, which may fail; the receive goes on with a
\* freed context, which is the new one or one it can read nothing from.
Reopen ==
    /\ pc = "sleep"
    /\ rx' = << >>
    /\ \/ up' = TRUE /\ UNCHANGED events
       \/ up' = FALSE /\ Event
    /\ \/ pc' = "read" /\ UNCHANGED <<step, got, need, deaf>>
       \/ Fresh
    /\ UNCHANGED <<want, msgs, port, master>>

-----------------------------------------------------------------------------
(***************************************************************************)
(* receive_msg and the loop of the thread.                                 *)
(***************************************************************************)
\* compute_meta_length_after_function
MetaLength(class) ==
    CASE class = "single" -> 4 [] class = "multiple" -> 5
      [] class = "rw" -> 9 [] OTHER -> 0

\* A request to the RTU is as long as its function and its number of data say.
ASSUME OwnAssumption ==
    \A k \in Own :
        /\ Shape[k].class # "none"
        /\ Shape[k].class = "single" => Shape[k].data = 0
        /\ Shape[k].size = 2 + MetaLength(Shape[k].class) + Shape[k].data + 2

\* Where a request carries the number of its data bytes.
CountAt(class) == IF class = "multiple" THEN 7 ELSE 11

\* What a function byte may be taken for, and a byte that tells a length.
ClassOf(b) == IF b[1] \in Kind /\ b[2] = 2 THEN {Shape[b[1]].class} ELSE Classes

DataLength(class, s) ==
    IF class \notin {"multiple", "rw"} THEN {0}
    ELSE LET b == s[CountAt(class)]
         IN IF b[1] \in Kind /\ Shape[b[1]].class = class /\ b[2] = CountAt(class)
            THEN {Shape[b[1]].data} ELSE {0, 2, MaxAdu}

Ready == pc = "read" \/ (pc = "wait" /\ msgs = 0 /\ ~deaf /\ rx # << >>)

\* The checksum is right of a frame that was sent, and no other; modbus_reply
\* answers the slaves 1 to 8.
Finish(s) ==
    /\ Fresh
    /\ asking' = IF \E k \in Own : s = Frame(k) THEN "nobody" ELSE asking

\* Mutant: the data of a request for several registers are not counted.
NextStep_NoCount(s) ==
    \/ /\ step = "function"
       /\ \E class \in ClassOf(s[2]) :
             /\ step' = IF class = "none" THEN "data" ELSE class
             /\ need' = IF class = "none" THEN 2 ELSE 5
       /\ got' = s /\ pc' = "wait" /\ UNCHANGED <<asking, deaf>>
    \/ /\ step \in Classes
       /\ got' = s /\ pc' = "wait" /\ step' = "data" /\ need' = 2
       /\ UNCHANGED <<asking, deaf>>
    \/ step = "data" /\ Finish(s)

\* length_to_read has come to 0: the message is s so far.
NextStep(s) ==
    \/ /\ step = "function"
       /\ \E class \in ClassOf(s[2]) :
             /\ step' = IF class = "none" THEN "data" ELSE class
             /\ need' = IF class = "none" THEN 2 ELSE MetaLength(class)
       /\ got' = s /\ pc' = "wait" /\ UNCHANGED <<asking, deaf>>
    \/ /\ step \in Classes
       /\ \E n \in DataLength(step, s) :
             IF Len(s) + n + 2 > MaxAdu
             THEN Fresh
             ELSE got' = s /\ pc' = "wait" /\ step' = "data" /\ need' = n + 2 /\ UNCHANGED deaf
       /\ UNCHANGED asking
    \/ step = "data" /\ Finish(s)

\* The read, after select: what is there is read, up to length_to_read;
\* nothing at all is an error, and the receive is over.
Read ==
    /\ Ready
    /\ LET n == Min({Len(rx), need})
           s == got \o SubSeq(rx, 1, n)
       IN /\ rx' = SubSeq(rx, n + 1, Len(rx))
          /\ IF n = 0 THEN Fresh /\ UNCHANGED asking
             ELSE IF n = need THEN NextStep(s)
             ELSE /\ got' = s /\ need' = need - n /\ pc' = "wait"
                  /\ UNCHANGED <<step, deaf, asking>>
    /\ UNCHANGED <<config, line, silent, events>>

\* Mutant: the receive goes on after it.
Timeout_GoOn ==
    /\ pc = "wait" /\ msgs = 0 /\ got # << >>
    /\ deaf \/ (rx = << >> /\ silent)
    /\ UNCHANGED vars

\* byte_timeout, which there is once something has been read.
Timeout ==
    /\ pc = "wait" /\ msgs = 0 /\ got # << >>
    /\ deaf \/ (rx = << >> /\ silent)
    /\ Fresh
    /\ UNCHANGED <<config, master, rx, events>>

-----------------------------------------------------------------------------
Thread == ServeMessage \/ Reopen \/ Read \/ Timeout

Others ==
    \/ \E c \in Code : Store(c)
    \/ Announce
    \/ \E k \in Own : Ask(k)
    \/ \E k \in Alien : Foreign(k)
    \/ ByteComes \/ ByteDisturbed \/ Silence

Next == Thread \/ Others

Spec == Init /\ [][Next]_vars

\* The thread waits for the line and the messages only; the master does not
\* give up a request.
FairSpec ==
    /\ Spec /\ WF_vars(Thread)
    /\ WF_vars(ByteComes) /\ WF_vars(Silence)
    /\ \A k \in Own : WF_vars(asking = k /\ Ask(k))

-----------------------------------------------------------------------------
(***************************************************************************)
(* A receive that began at the beginning of a request to the RTU wants no  *)
(* byte beyond its end: it never swallows a part of the next frame.        *)
(***************************************************************************)
NoOverrun ==
    \A k \in Own :
        got # << >> /\ IsPrefix(got, Frame(k)) => Len(got) + need <= Shape[k].size

(***************************************************************************)
(* A master that leaves a silence before it asks again gets its answer,    *)
(* whatever was on the line before, and whatever messages broke its        *)
(* requests; or the port could not be opened.                              *)
(***************************************************************************)
Answered == \A k \in Own : asking = k ~> asking = "nobody" \/ ~up

(***************************************************************************)
(* New settings of the port are taken up when they are announced.          *)
(***************************************************************************)
TakenUp == msgs > 0 ~> port = Meant(want, Default)

=============================================================================
