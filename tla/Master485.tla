----------------------------- MODULE Master485 -----------------------------
(***************************************************************************)
(* The thread that is the Modbus master of the wired meters                *)
(* (modbus_485/modbus485_master.c and meter/wired_*.c).  It runs one job   *)
(* at a time: the periodic sampling of the electrical meter, that of the   *)
(* two actuators, or the sampling of one pumping cycle that a load meter   *)
(* asks for with a SYNC message.  A job is a row of exchanges with a meter *)
(* over one serial line.                                                   *)
(*                                                                         *)
(* Messages are served between jobs, and also inside an exchange: the      *)
(* select that waits for the answer (libmodbus) watches the message queue  *)
(* and calls msg_handler.  The answer may then not be there yet; the       *)
(* exchange fails, and the answer comes in before that of the next one.    *)
(* Nothing throws a late answer away, and nothing in it names its request. *)
(*                                                                         *)
(* The slave address, the values read and the clock are not kept: a job is *)
(* due, and the time for a cycle is over, at any moment.                   *)
(***************************************************************************)
EXTENDS Integers, Sequences

CONSTANTS Writer,     \* server threads that write a sampling interval
          Msg,        \* the messages the other threads send
          Value,      \* what they write to an interval register
          MaxMsg,     \* PMSG_MAXMSG
          Resend,     \* tries of an exchange of a periodic job (3)
          SyncFail,   \* failures in a row that end the sampling of a cycle (6)
          Points,     \* samples of a cycle
          MaxLate     \* bound: answers in the input of the serial port

ASSUME MasterAssumption ==
    /\ Msg \subseteq {"start", "config2", "sync", "badsync"} /\ "config2" \in Msg
    /\ Value \subseteq Nat
    /\ {MaxMsg, Resend, SyncFail, Points} \subseteq Nat \ {0} /\ MaxLate \in Nat

VARIABLES
    queue,     \* rtu_client_msg_fd
    ctrl,      \* master_485_ctrl
    syn,       \* syn_along_info: that of a "sync" or of a "badsync"
    intervals, \* wired_electrical_sample_interval, wired_actuator_sample_interval
    reg,       \* the registers ELEC_INTERVAL_ADDR and ACTUATOR_INTERVAL_ADDR
    writing,   \* writing[w]: the register thread w is about to store
    pc,        \* where the thread is
    job,       \* the job it runs
    stage,     \* the number of the exchange of the job
    tries,     \* failures in a row
    line,      \* the last request, if it has not been answered yet
    rx,        \* the answers in the input of the serial port
    owed       \* a SYNC came outside the sampling of a cycle, not yet acted upon

meters == <<line, rx>>
settings == <<intervals, reg, writing>>
run == <<job, stage, tries>>

masterVars == <<queue, ctrl, syn, settings, pc, run, meters, owed>>

Job == {"default", "elec", "act", "sync"}
Periodic == {"elec", "act"}

\* The exchanges of deal_wired_electrical, deal_wired_actuator and
\* time_handle_fun.
Exchanges ==
    [elec |-> <<"scale", "ratio", "quantity", "param">>,
     act |-> <<"set1", "data1", "set2", "data2">>,
     sync |-> [i \in 1 .. Points |-> "cycle"]]

\* What a request and its answer have in common: function and number of
\* registers, or the function code and address of an actuator.
Shape ==
    [scale |-> <<3, 2>>, ratio |-> <<16, 2>>, quantity |-> <<3, 4>>,
     param |-> <<3, 10>>, cycle |-> <<3, 4>>,
     set1 |-> <<2, "actuator1">>, data1 |-> <<1, "actuator1">>,
     set2 |-> <<2, "actuator2">>, data2 |-> <<1, "actuator2">>]
Request == DOMAIN Shape

\* An interval out of 10 .. 600 s becomes 30 s.
Clip(v) == IF v > 600 \/ v < 10 THEN 30 ELSE v

\* Failures in a row that end an exchange, or the sampling of a cycle.
MaxTries(j) == IF j = "sync" THEN SyncFail ELSE Resend

MasterTypeOK ==
    /\ queue \in Seq(Msg) /\ Len(queue) <= MaxMsg
    /\ ctrl \in Job /\ job \in Job /\ syn \in {"sync", "badsync"}
    /\ intervals \in [Periodic -> 10 .. 600]
    /\ reg \in [Periodic -> Value]
    /\ writing \in [Writer -> {<< >>} \cup Periodic \X Value]
    /\ pc \in {"select", "schedule", "dispatch", "send", "wait", "read", "fail", "over"}
    /\ pc \in {"send", "wait", "read", "fail"} =>
         /\ job \in DOMAIN Exchanges /\ stage \in DOMAIN Exchanges[job]
         /\ tries < MaxTries(job)
    /\ tries \in Nat
    /\ line \in {<< >>} \cup {<<r>> : r \in Request}
    /\ rx \in Seq(Request) /\ Len(rx) <= MaxLate
    /\ owed \in BOOLEAN

MasterInit ==
    /\ queue = << >>
    /\ ctrl = "default" /\ job = "default" /\ syn = "sync"
    /\ reg \in [Periodic -> Value]
    /\ intervals = [s \in Periodic |-> Clip(reg[s])]
    /\ writing = [w \in Writer |-> << >>]
    /\ pc = "select" /\ stage = 1 /\ tries = 0
    /\ line = << >> /\ rx = << >>
    /\ owed = FALSE

-----------------------------------------------------------------------------
(***************************************************************************)
(* The other threads and the meters.                                       *)
(***************************************************************************)
\* pmsg_q_send to a full queue loses the message.
Queued(m) == IF Len(queue) < MaxMsg THEN Append(queue, m) ELSE queue

\* rtu_reset_flash1 sends "start", a load meter's first packet "sync".
Send(m) ==
    /\ m # "config2"
    /\ queue' = Queued(m)
    /\ UNCHANGED <<ctrl, syn, settings, pc, run, meters, owed>>

\* map_map_fun_write of an interval: the message first ...
WriteIntervalRegister(w, s, v) ==
    /\ writing[w] = << >>
    /\ writing' = [writing EXCEPT ![w] = <<s, v>>]
    /\ queue' = Queued("config2")
    /\ UNCHANGED <<ctrl, syn, intervals, reg, pc, run, meters, owed>>

\* ... then the register.
StoreInterval(w) ==
    /\ writing[w] # << >>
    /\ reg' = [reg EXCEPT ![writing[w][1]] = writing[w][2]]
    /\ writing' = [writing EXCEPT ![w] = << >>]
    /\ UNCHANGED <<queue, ctrl, syn, intervals, pc, run, meters, owed>>

\* A meter answers a request at any time before the next one, or not at all.
MeterAnswers ==
    /\ line # << >> /\ Len(rx) < MaxLate
    /\ line' = << >>
    /\ rx' = Append(rx, Head(line))
    /\ UNCHANGED <<queue, ctrl, syn, settings, pc, run, owed>>

-----------------------------------------------------------------------------
(***************************************************************************)
(* msg_handler, for the message m.  "start" opens the serial port anew if  *)
(* its parameters have changed: what is on the line is lost.               *)
(***************************************************************************)
Start ==
    /\ \/ UNCHANGED meters
       \/ line' = << >> /\ rx' = << >>
    /\ UNCHANGED <<ctrl, syn, intervals, owed>>

Config2 ==
    /\ intervals' = [s \in Periodic |-> Clip(reg[s])]
    /\ UNCHANGED <<ctrl, syn, meters, owed>>

Sync(m) ==
    /\ ctrl' = "sync" /\ syn' = m
    /\ owed' = (owed \/ job # "sync")
    /\ UNCHANGED <<intervals, meters>>

Handle(m) ==
    \/ m = "start" /\ Start
    \/ m = "config2" /\ Config2
    \/ m \in {"sync", "badsync"} /\ Sync(m)

Receive ==
    /\ queue # << >> /\ queue' = Tail(queue)
    /\ Handle(Head(queue))

-----------------------------------------------------------------------------
(***************************************************************************)
(* The loop of thread_modbus485_master.                                    *)
(***************************************************************************)
\* select waits for 5 s at most; it is skipped if a cycle is to be sampled.
Select ==
    /\ pc = "select" /\ pc' = "schedule"
    /\ \/ ctrl # "sync" /\ Receive
       \/ /\ ctrl = "sync" \/ queue = << >>
          /\ UNCHANGED <<queue, ctrl, syn, intervals, meters, owed>>
    /\ UNCHANGED <<reg, writing, run>>

\* Mutant: a periodic job that is due becomes the next job, whatever
\* master_485_ctrl holds.
Schedule_Any ==
    /\ pc = "schedule" /\ pc' = "dispatch"
    /\ ctrl' \in {ctrl} \cup Periodic
    /\ UNCHANGED <<queue, syn, settings, run, meters, owed>>

\* A periodic job that is due becomes the next job.
Schedule ==
    /\ pc = "schedule" /\ pc' = "dispatch"
    /\ ctrl' \in IF ctrl = "default" THEN {"default"} \cup Periodic ELSE {ctrl}
    /\ UNCHANGED <<queue, syn, settings, run, meters, owed>>

\* deal_master_485_packet starts the job.  It ends at once if the well number
\* of the electrical meter, or the cycle time in the SYNC, is out of range.
Dispatch ==
    /\ pc = "dispatch"
    /\ job' = ctrl /\ stage' = 1 /\ tries' = 0
    /\ pc' \in CASE ctrl = "default" -> {"over"}
                 [] ctrl = "elec" -> {"send", "over"}
                 [] ctrl = "act" -> {"send"}
                 [] ctrl = "sync" -> {IF syn = "sync" THEN "send" ELSE "over"}
    /\ owed' = (owed /\ ctrl # "sync")
    /\ UNCHANGED <<queue, ctrl, syn, settings, meters>>

\* Mutant: the end of a job always resets master_485_ctrl.
JobOver_Always ==
    /\ pc = "over" /\ pc' = "select"
    /\ ctrl' = "default"
    /\ job' = "default"
    /\ UNCHANGED <<queue, syn, settings, stage, tries, meters, owed>>

\* The end of deal_master_485_packet: a SYNC that came meanwhile stands,
\* unless it came during the sampling of another cycle.
JobOver ==
    /\ pc = "over" /\ pc' = "select"
    /\ ctrl' = IF ctrl = job THEN "default" ELSE ctrl
    /\ job' = "default"
    /\ UNCHANGED <<queue, syn, settings, stage, tries, meters, owed>>

-----------------------------------------------------------------------------
(***************************************************************************)
(* An exchange.                                                            *)
(***************************************************************************)
Asked == Exchanges[job][stage]

\* The request goes out, or its write fails, as it does if msg_handler has
\* closed the port and freed the context in use.
SendRequest ==
    /\ pc = "send"
    /\ \/ /\ pc' = "wait"
          /\ line' = <<Asked>>
       \/ pc' = "fail" /\ UNCHANGED line
    /\ UNCHANGED <<queue, ctrl, syn, settings, run, rx, owed>>

\* The time for the cycle is over (looked at before each request).
CycleOver ==
    /\ pc = "send" /\ job = "sync"
    /\ pc' = "over"
    /\ UNCHANGED <<queue, ctrl, syn, settings, run, meters, owed>>

\* _modbus_rtu_select: an answer is there, or a message, or neither in time.
WaitAnswer ==
    /\ pc = "wait"
    /\ \/ queue # << >> /\ Receive /\ pc' = "read"
       \/ /\ queue = << >>
          /\ pc' = IF rx # << >> THEN "read" ELSE "fail"
          /\ UNCHANGED <<queue, ctrl, syn, intervals, meters, owed>>
    /\ UNCHANGED <<reg, writing, run>>

\* check_confirmation, and the tests of an actuator's answer.
Fits(request, answer) == Shape[request] = Shape[answer]

\* The last exchange of a job ends it.
NextExchange ==
    IF stage < Len(Exchanges[job])
    THEN pc' = "send" /\ stage' = stage + 1
    ELSE pc' = "over" /\ UNCHANGED stage

\* Nothing has come in; or the first answer fits and is taken; or the read
\* fails and has used up the first answer, maybe others with it (an answer
\* of the other framing has another length, or the line is disturbed).
Read ==
    /\ pc = "read"
    /\ \/ /\ rx = << >> /\ pc' = "fail"
          /\ UNCHANGED <<rx, stage, tries>>
       \/ /\ rx # << >> /\ Fits(Asked, Head(rx))
          /\ rx' = Tail(rx)
          /\ tries' = 0
          /\ NextExchange
       \/ /\ rx # << >>
          /\ \E n \in 2 .. Len(rx) + 1 : rx' = SubSeq(rx, n, Len(rx))
          /\ pc' = "fail"
          /\ UNCHANGED <<stage, tries>>
    /\ UNCHANGED <<queue, ctrl, syn, settings, job, line, owed>>

\* Mutant: the tries of a periodic job are not counted.
Fail_Uncounted ==
    /\ pc = "fail"
    /\ IF job # "sync" \/ tries + 1 < MaxTries(job)
       THEN /\ pc' = "send" /\ UNCHANGED stage
            /\ tries' = IF job = "sync" THEN tries + 1 ELSE 0
       ELSE pc' = "over" /\ tries' = 0 /\ UNCHANGED stage
    /\ UNCHANGED <<queue, ctrl, syn, settings, job, meters, owed>>

\* An exchange of a periodic job is given up after Resend tries, which ends
\* the job, except that the second actuator follows the first.  The sampling
\* of a cycle is given up after SyncFail failures in a row.
Fail ==
    /\ pc = "fail"
    /\ IF tries + 1 < MaxTries(job)
       THEN pc' = "send" /\ tries' = tries + 1 /\ UNCHANGED stage
       ELSE /\ tries' = 0
            /\ IF job = "act" /\ stage <= 2
               THEN pc' = "send" /\ stage' = 3
               ELSE pc' = "over" /\ UNCHANGED stage
    /\ UNCHANGED <<queue, ctrl, syn, settings, job, meters, owed>>

-----------------------------------------------------------------------------
Master ==
    \/ Select \/ Schedule \/ Dispatch \/ JobOver
    \/ SendRequest \/ CycleOver \/ WaitAnswer \/ Read \/ Fail

Others ==
    \/ \E m \in Msg : Send(m)
    \/ \E w \in Writer :
         \/ \E s \in Periodic, v \in Value : WriteIntervalRegister(w, s, v)
         \/ StoreInterval(w)
    \/ MeterAnswers

MasterNext == Master \/ Others

MasterSpec == MasterInit /\ [][MasterNext]_masterVars

\* Every select of the thread has a timeout.
MasterFairSpec == MasterSpec /\ WF_masterVars(Master)

-----------------------------------------------------------------------------
(***************************************************************************)
(* A SYNC that came while no cycle was being sampled stands in             *)
(* master_485_ctrl until its cycle is sampled: no job that ends, periodic  *)
(* job that comes due or message takes it away.                            *)
(***************************************************************************)
SyncStands == owed => ctrl = "sync" /\ job # "sync"

(***************************************************************************)
(* A load meter's request to sample a cycle that comes in while another    *)
(* job talks to its meter is not forgotten when that job ends: the thread  *)
(* gets to it, however often an exchange fails and whatever messages come  *)
(* in meanwhile.                                                           *)
(***************************************************************************)
SyncServed == owed ~> ~owed

(***************************************************************************)
(* Every job comes to an end, so that the watchdog's time of the thread is *)
(* updated and messages are served: failures are counted in every job.     *)
(***************************************************************************)
JobsEnd == []<>(pc = "select")

=============================================================================
