---------------------------- MODULE ZigbeeConfig ----------------------------
(***************************************************************************)
(* The thread of the ZigBee radio (zigbee/zigbee_tty_server.c, zigbee.c):  *)
(* how it keeps the radio's settings equal to the registers.               *)
(*                                                                         *)
(* set_zigbee_para is a dialogue with the radio: orders that make it talk  *)
(* in frames, then for each setting, for its storing (WR) and for the      *)
(* restart of its network (NR) an exchange of a frame and a reply, tried   *)
(* RESEND_NUM times and then given up with a line on stderr.  The wait for *)
(* a reply watches the message queue too and calls msg_handler, which may  *)
(* start a dialogue of its own: dialogues nest.  A message ends the wait,  *)
(* and what is read then may be nothing, or a frame of a meter.  A reply   *)
(* names its setting, not the value; of the late ones the orders at the    *)
(* beginning of a call use up some.                                        *)
(***************************************************************************)
EXTENDS Integers, Sequences, SequencesExt

CONSTANTS Param,     \* the values of the nine ZigBee registers
          Setting,   \* the settings in order: ID, SC, EE, KY
          Resend,    \* RESEND_NUM
          MaxMsg,    \* PMSG_MAXMSG
          Taken,     \* the replies that the nine orders of a call can take
          MaxRx,     \* bound: frames on the way to the thread
          MaxEvent   \* bound: changes of the registers, and restarts

ASSUME ZigbeeAssumption ==
    /\ Setting \in Seq(STRING)
    /\ \A i \in 1 .. Len(Setting) : Setting[i] \notin {"at", "WR", "NR", "junk"}
    /\ {Resend, MaxMsg, Taken, MaxRx} \subseteq Nat \ {0} /\ MaxEvent \in Nat

Settings == ToSet(Setting)
Steps == <<"at">> \o Setting \o <<"WR", "NR">>

VARIABLES
    want,     \* the nine registers
    queue,    \* zigbee_msg_fd
    saved,    \* zigbee_conf_buf
    stack,    \* the running calls of set_zigbee_para, the innermost last
    pc,       \* of the innermost call, or of the loop if there is none
    api,      \* the radio talks in frames
    radio,    \* radio[s]: setting s as it works
    kept,     \* ... and as the radio has stored it
    line,     \* replies of the radio that have not come in yet
    rx,       \* frames in the input of the serial port
    gaveUp,   \* since the last call began, a call has given up an exchange
    stale,    \* ... or sent a setting of another call's parameters
    leftover, \* ... or replies were left over when its orders had been sent
    events

radios == <<api, radio, kept>>
input == <<line, rx>>
ghosts == <<gaveUp, stale, leftover>>
calls == <<stack, pc>>
vars == <<want, queue, saved, calls, radios, input, ghosts, events>>

\* back: where the thread goes on when the call returns.
Call == [par : Param, step : DOMAIN Steps, tries : 0 .. Resend, back : {"wait", "read"}]

TypeOK ==
    /\ want \in Param /\ saved \in Param
    /\ queue \in Seq({"start", "sync"}) /\ Len(queue) <= MaxMsg
    /\ stack \in Seq(Call)
    /\ pc \in {"send", "wait", "read"}
    /\ pc = "send" => stack # << >>
    /\ api \in BOOLEAN
    /\ radio \in [Settings -> Param] /\ kept \in [Settings -> Param]
    /\ line \in Seq(ToSet(Steps)) /\ rx \in Seq(ToSet(Steps) \cup {"junk"})
    /\ Len(line) + Len(rx) <= MaxRx
    /\ gaveUp \in BOOLEAN /\ stale \in BOOLEAN /\ leftover \in BOOLEAN
    /\ events \in 0 .. MaxEvent

Top == Last(stack)
Step == Steps[Top.step]

\* set_zigbee_para is called with the parameters p.
NewCall(p, back) == [par |-> p, step |-> 1, tries |-> 0, back |-> back]

\* The thread applies the registers once when it starts.
Init ==
    /\ want \in Param /\ saved = want
    /\ queue = << >>
    /\ stack = <<NewCall(want, "wait")>> /\ pc = "send"
    /\ api = FALSE
    /\ \E p \in Param : radio = [s \in Settings |-> p]
    /\ kept = radio
    /\ line = << >> /\ rx = << >>
    /\ gaveUp = FALSE /\ stale = FALSE /\ leftover = FALSE
    /\ events = 0

-----------------------------------------------------------------------------
(***************************************************************************)
(* The rest of the RTU, the radio and the meters.                          *)
(***************************************************************************)
\* A server stores other parameters.
Store(p) ==
    /\ events < MaxEvent /\ p # want
    /\ want' = p /\ events' = events + 1
    /\ UNCHANGED <<queue, saved, calls, radios, input, ghosts>>

\* rtu_reset_flash1 sends "start", the first packet of a load diagram "sync";
\* pmsg_q_send to a full queue loses the message.
Send(m) ==
    /\ Len(queue) < MaxMsg
    /\ queue' = Append(queue, m)
    /\ UNCHANGED <<want, saved, calls, radios, input, ghosts, events>>

\* A reply of the radio, or a frame of a meter (junk to a call), comes in.
ReplyComes ==
    /\ line # << >>
    /\ rx' = Append(rx, Head(line)) /\ line' = Tail(line)
    /\ UNCHANGED <<want, queue, saved, calls, radios, ghosts, events>>

Junk ==
    /\ Len(line) + Len(rx) < MaxRx
    /\ rx' = Append(rx, "junk")
    /\ UNCHANGED <<want, queue, saved, calls, radios, line, ghosts, events>>

\* The RTU starts again; the radio goes on as it is.
Restart ==
    /\ events < MaxEvent /\ events' = events + 1
    /\ queue' = << >> /\ saved' = want
    /\ stack' = <<NewCall(want, "wait")>> /\ pc' = "send"
    /\ line' = << >> /\ rx' = << >>
    /\ gaveUp' = FALSE /\ stale' = FALSE /\ leftover' = FALSE
    /\ UNCHANGED <<want, radios>>

-----------------------------------------------------------------------------
(***************************************************************************)
(* msg_handler.                                                            *)
(***************************************************************************)
\* Mutant: nothing is done in the middle of a call.
Start_Busy ==
    IF saved = want \/ stack # << >>
    THEN pc' = "read" /\ UNCHANGED <<saved, stack, ghosts>>
    ELSE /\ saved' = want
         /\ stack' = Append(stack, NewCall(want, "read")) /\ pc' = "send"
         /\ gaveUp' = FALSE /\ stale' = FALSE /\ leftover' = FALSE

\* Mutant: the parameters are remembered only when they have been set.
Start_Unsaved ==
    IF saved = want
    THEN pc' = "read" /\ UNCHANGED <<saved, stack, ghosts>>
    ELSE /\ UNCHANGED saved
         /\ stack' = Append(stack, NewCall(want, "read")) /\ pc' = "send"
         /\ gaveUp' = FALSE /\ stale' = FALSE /\ leftover' = FALSE

\* MSG_CONFIG_START: parameters that have changed are remembered and set.
Start ==
    IF saved = want
    THEN pc' = "read" /\ UNCHANGED <<saved, stack, ghosts>>
    ELSE /\ saved' = want
         /\ stack' = Append(stack, NewCall(want, "read")) /\ pc' = "send"
         /\ gaveUp' = FALSE /\ stale' = FALSE /\ leftover' = FALSE

\* MSG_LOAD_ELEC_SYSN: a frame for the electrical meter is sent.
Sync == pc' = "read" /\ UNCHANGED <<saved, stack, ghosts>>

\* The select of a receive, in the loop or in a call, finds a message.
ServeMessage ==
    /\ pc = "wait" /\ queue # << >>
    /\ queue' = Tail(queue)
    /\ \/ Head(queue) = "start" /\ Start
       \/ Head(queue) = "sync" /\ Sync
    /\ UNCHANGED <<want, radios, input, events>>

-----------------------------------------------------------------------------
(***************************************************************************)
(* set_zigbee_para.                                                        *)
(***************************************************************************)
SetTop(c) == stack' = [stack EXCEPT ![Len(stack)] = c]

\* The nine orders of set_at_order, which the radio may or may not have
\* heard: their failure is never noticed (u8 is never -1).  Meanwhile the first
\* n of the late replies come in.  Each order takes at most three bytes, a third
\* of a reply, of what is in the input, which is one broken frame then and what
\* is beyond; a frame of a meter may be longer or shorter.  Answers to orders
\* that are left in it are junk, too.
AtOrders ==
    /\ pc = "send" /\ Step = "at"
    /\ api' \in {api, TRUE}
    /\ \E n \in 0 .. Len(line) :
         LET in == rx \o SubSeq(line, 1, n)
         IN  /\ line' = SubSeq(line, n + 1, Len(line))
             /\ \E m \in 0 .. Len(in) :
                  /\ m <= Taken \/ "junk" \in ToSet(SubSeq(in, 1, m))
                  /\ m >= Taken \/ m >= Len(rx) \/ "junk" \in ToSet(rx)
                  /\ \/ rx' = SubSeq(in, m + 1, Len(in))
                     \/ m > 0 /\ rx' = <<"junk">> \o SubSeq(in, m + 1, Len(in))
    /\ leftover' = (leftover \/ ~(ToSet(line') \cup ToSet(rx') \subseteq {"junk"}))
    /\ SetTop([Top EXCEPT !.step = 2])
    /\ UNCHANGED <<want, queue, saved, pc, radio, kept, gaveUp, stale, events>>

\* What the radio makes of the frame.
Obey ==
    /\ radio' = IF Step \in Settings THEN [radio EXCEPT ![Step] = Top.par] ELSE radio
    /\ kept' = IF Step = "WR" THEN radio ELSE kept

\* A frame goes out, and the radio obeys; or it does not hear it, or none is
\* made (of a channel out of range).  The reply may be lost.
SendFrame ==
    /\ pc = "send" /\ Step # "at" /\ pc' = "wait"
    /\ SetTop([Top EXCEPT !.tries = @ + 1])
    /\ \/ /\ api /\ Obey
          /\ \/ Len(line) + Len(rx) < MaxRx /\ line' = Append(line, Step)
             \/ UNCHANGED line
       \/ UNCHANGED <<radio, kept, line>>
    /\ stale' = (stale \/ (Step \in Settings /\ Top.par # saved))
    /\ UNCHANGED <<want, queue, saved, api, rx, gaveUp, leftover, events>>

\* The next step, or the return from the call: to the read of the receive
\* that called msg_handler, or from the first call to the loop.
NextStep ==
    IF Top.step < Len(Steps)
    THEN pc' = "send" /\ SetTop([Top EXCEPT !.step = @ + 1, !.tries = 0])
    ELSE pc' = Top.back /\ stack' = Front(stack)

\* Mutant: the exchange is tried again without end.
Failed_Forever == pc' = "send" /\ SetTop([Top EXCEPT !.tries = 0]) /\ UNCHANGED gaveUp

\* The exchange is tried again, or given up.
Failed ==
    IF Top.tries < Resend
    THEN pc' = "send" /\ UNCHANGED <<stack, gaveUp>>
    ELSE gaveUp' = TRUE /\ NextStep

\* Nothing comes in time.
Timeout ==
    /\ pc = "wait" /\ stack # << >> /\ queue = << >> /\ rx = << >>
    /\ Failed
    /\ UNCHANGED <<want, queue, saved, radios, input, stale, leftover, events>>

\* A receive reads what is there: after a message, or when a frame comes.
Reading == pc = "read" \/ (pc = "wait" /\ queue = << >> /\ rx # << >>)

\* Mutant: any frame is taken for the reply.
Read_Any ==
    /\ Reading /\ stack # << >>
    /\ rx' = IF rx = << >> THEN rx ELSE Tail(rx)
    /\ IF rx # << >>
       THEN NextStep /\ UNCHANGED gaveUp
       ELSE Failed
    /\ UNCHANGED <<want, queue, saved, radios, line, stale, leftover, events>>

\* The read of an exchange: the first frame, if there is one, is used up.
Read ==
    /\ Reading /\ stack # << >>
    /\ rx' = IF rx = << >> THEN rx ELSE Tail(rx)
    /\ IF rx # << >> /\ Head(rx) = Step
       THEN NextStep /\ UNCHANGED gaveUp
       ELSE Failed
    /\ UNCHANGED <<want, queue, saved, radios, line, stale, leftover, events>>

\* The read of the loop: a frame goes to analysis_zigbee_rcv_data.
ReadLoop ==
    /\ Reading /\ stack = << >>
    /\ pc' = "wait"
    /\ rx' = IF rx = << >> THEN rx ELSE Tail(rx)
    /\ UNCHANGED <<want, queue, saved, stack, radios, line, ghosts, events>>

-----------------------------------------------------------------------------
Thread ==
    \/ ServeMessage \/ AtOrders \/ SendFrame
    \/ Timeout \/ Read \/ ReadLoop

Others ==
    \/ \E p \in Param : Store(p)
    \/ \E m \in {"start", "sync"} : Send(m)
    \/ ReplyComes \/ Junk \/ Restart

Next == Thread \/ Others

Spec == Init /\ [][Next]_vars

\* Every wait in a call has a timeout, and that of the loop ends when a
\* message is in the queue.
FairSpec == Spec /\ WF_vars(Thread)

-----------------------------------------------------------------------------
(***************************************************************************)
(* The radio has the settings the thread thinks it has, and has stored     *)
(* them, unless since the last change an exchange was given up, a call     *)
(* went on with older settings, or the orders did not use up the replies   *)
(* to an earlier call.  So the acknowledgements the code relies on, a name *)
(* without a value, suffice though its own replies come late or twice, and *)
(* messages and frames of meters come in between.                          *)
(***************************************************************************)
Acknowledged ==
    stack = << >> /\ ~gaveUp /\ ~stale /\ ~leftover =>
        \A s \in Settings : radio[s] = saved /\ kept[s] = saved

(***************************************************************************)
(* The stack of the thread holds no more calls than the settings have      *)
(* changed, or the RTU has started, however many messages a call serves:   *)
(* each call remembers its parameters before it begins.                    *)
(***************************************************************************)
NestingBounded == Len(stack) <= 1 + events

(***************************************************************************)
(* Calls end, however they nest and whatever the radio loses, so that the  *)
(* thread gets back to its loop and to the frames of the meters.           *)
(***************************************************************************)
CallsEnd == []<>(stack = << >>)

(***************************************************************************)
(* New settings are taken up when they are announced, also while a call    *)
(* sets other ones.                                                        *)
(***************************************************************************)
TakenUp == "start" \in ToSet(queue) ~> saved = want

=============================================================================
