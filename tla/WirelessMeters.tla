--------------------------- MODULE WirelessMeters ---------------------------
(***************************************************************************)
(* The real-time data of the wireless meters.  The ZigBee thread analyses  *)
(* a meter's routine packet (meter/pressure_meter_analysis.c,              *)
(* load_meter_analysis.c, electrical_param_analysis.c): it answers with    *)
(* the time the meter may sleep, stamps the meter's sample time and stores *)
(* the data.  main (rtu_a118.c) wakes up every 20 s and fills the data of  *)
(* each meter that has been silent for ten of its intervals with 0xFFFF    *)
(* (meter/meter.c, clear_meter_rtdata).  The two threads share the sample  *)
(* times and the registers, the latter under a lock, the former without.   *)
(*                                                                         *)
(* A meter is an entry of the table of a well; Kind tells which intervals  *)
(* and which slot of the table it has:                                     *)
(*   "sensor"  pressure, temperature, torque and wireless electric meters; *)
(*   "load"    the load meter, whose interval is in minutes;               *)
(*   "flow"    the flow meter: its packets are stamped in a slot of their  *)
(*             own, which main does not look at.                           *)
(***************************************************************************)
EXTENDS Integers

CONSTANTS
    N,            \* meters, in the order of the loop of clear_meter_rtdata
    Kind,         \* of each meter
    Registers,    \* what a server may write into a meter's interval register
    MaxSleep,     \* the longest sleep of a sensor (1800 s)
    Minute,       \* seconds in a minute (60)
    MaxMinutes,   \* the longest interval of a load meter, in minutes (60)
    Minutes,      \* what it is told instead of more (10)
    Word,         \* 2^16
    Cnt,          \* CLEAR_RTDATA_CNT (10)
    Period,       \* of clear_meter_rtdata (20 s)
    Day,          \* PER_DAY_SECONDS
    Jumps,        \* by how much the clock is set forward or back
    Grace,        \* bound: how late a meter that is up sends its packet
    MaxTime,      \* bound: the last time of the clock
    MaxEvent      \* bound: how often the clock or an interval is set or a meter
                  \* falls silent

Meters == 1..N

ASSUME MetersAssumption ==
    /\ N \in Nat \ {0}
    /\ Kind \in [Meters -> {"sensor", "load", "flow"}]
    /\ Registers \in [Meters -> SUBSET (1..(Word - 1))]
    /\ {MaxSleep, Minute, MaxMinutes, Minutes, Word, Cnt, Period, Day} \subseteq Nat \ {0}
    /\ {Grace, MaxTime, MaxEvent} \subseteq Nat
    /\ Day < MaxTime /\ Minutes <= MaxMinutes
    /\ Jumps \subseteq Int

\* A meter that is up is not later than main's limit leaves room for.
ASSUME PunctualAssumption == Grace < 2 * (Cnt - 1)

VARIABLES
    clock,      \* time()
    interval,   \* the interval register of each meter
    sample,     \* rtu_a118_t.meter_sample_time, where main looks for the meter
    asked,      \* rtu_a118_t.equ_meter_para_time
    data,       \* data[m]: the registers of m hold data, not 0xFFFF
    main,       \* main: its place, the meter, the time and intervals it has read
    thread,     \* the ZigBee thread: its place and the meter it serves
    meter,      \* the meters: up, the sleep they were told, what is left of it
    quiet,      \* history: seconds since the last stamp of each meter
    steady,     \* history: clock and register are as at the last stamp
    row,        \* history: packets stamped since the meter came up, both were last
                \* changed and it sleeps as its interval says, up to 3
    events      \* how many of the bounded events have happened

vars == <<clock, interval, sample, asked, data, main, thread, meter, quiet,
          steady, row, events>>

-----------------------------------------------------------------------------
(* The interval main goes by, a u16, and the sleep a meter is told.        *)

Meant(m, v) == IF Kind[m] = "load" THEN (v * Minute) % Word ELSE v

Told(m, v) ==
    IF Kind[m] = "load"
    THEN Minute * (IF v > MaxMinutes THEN Minutes ELSE v)
    ELSE IF v > MaxSleep THEN MaxSleep ELSE v

Sleeps == {Told(m, v) : m \in Meters, v \in 1..(Word - 1)}

(* The tables of rtu_a118_t are 0, a date long past; the registers are     *)
(* 0xFFFF; a meter that was set up before sleeps as it was told then.      *)
Init ==
    /\ clock = Day + 1
    /\ interval \in {f \in [Meters -> UNION {Registers[m] : m \in Meters}] :
                       \A m \in Meters : f[m] \in Registers[m]}
    /\ sample = [m \in Meters |-> 0]
    /\ asked = [m \in Meters |-> 0]
    /\ data = [m \in Meters |-> FALSE]
    /\ main = [pc |-> "sleep", left |-> 0, i |-> 1, now |-> 0, late |-> FALSE,
               read |-> [m \in Meters |-> 0]]
    /\ thread = [pc |-> "idle", m |-> 1]
    /\ meter = [m \in Meters |->
                  [up |-> TRUE, told |-> Told(m, interval[m]), left |-> 0]]
    /\ quiet = [m \in Meters |-> 0]
    /\ steady = [m \in Meters |-> FALSE]
    /\ row = [m \in Meters |-> 0]
    /\ events = 0

-----------------------------------------------------------------------------
(* Time and the world.  The analysis of a packet is over within the second *)
(* and a pass of main before the second after it; a meter that is up sends *)
(* at most Grace seconds after it wakes up.                                *)

Tick ==
    /\ clock < MaxTime
    /\ thread.pc = "idle" /\ ~main.late
    /\ \A m \in Meters : meter[m].up => meter[m].left > -Grace
    /\ main.pc = "sleep" => main.left > 0
    /\ clock' = clock + 1
    /\ main' = IF main.pc = "sleep" THEN [main EXCEPT !.left = @ - 1]
                                    ELSE [main EXCEPT !.late = TRUE]
    /\ meter' = [m \in Meters |->
                   [meter[m] EXCEPT !.left =
                      IF meter[m].up \/ @ > 0 THEN @ - 1 ELSE @]]
    /\ quiet' = [m \in Meters |-> quiet[m] + 1]
    /\ UNCHANGED <<interval, sample, asked, data, thread, steady, row, events>>

(* A server sets the clock.                                                *)
SetClock(d) ==
    /\ events < MaxEvent
    /\ clock + d \in 0..MaxTime
    /\ clock' = clock + d
    /\ steady' = [m \in Meters |-> FALSE]
    /\ row' = [m \in Meters |-> 0]
    /\ events' = events + 1
    /\ UNCHANGED <<interval, sample, asked, data, main, thread, meter, quiet>>

(* A server writes an interval register.                                   *)
WriteInterval(m, v) ==
    /\ events < MaxEvent
    /\ v # interval[m]
    /\ interval' = [interval EXCEPT ![m] = v]
    /\ steady' = [steady EXCEPT ![m] = FALSE]
    /\ row' = [row EXCEPT ![m] = 0]
    /\ events' = events + 1
    /\ UNCHANGED <<clock, sample, asked, data, main, thread, meter, quiet>>

(* A meter does not send the packets it should, or is back and sends as    *)
(* soon as it wakes up.                                                    *)
FallSilent(m) ==
    /\ events < MaxEvent
    /\ meter[m].up
    /\ ~(thread.pc # "idle" /\ thread.m = m)
    /\ meter' = [meter EXCEPT ![m].up = FALSE]
    /\ row' = [row EXCEPT ![m] = 0]
    /\ events' = events + 1
    /\ UNCHANGED <<clock, interval, sample, asked, data, main, thread, quiet,
                   steady>>

ComeBack(m) ==
    /\ ~meter[m].up
    /\ meter' = [meter EXCEPT ![m].up = TRUE]
    /\ UNCHANGED <<clock, interval, sample, asked, data, main, thread, quiet,
                   steady, row, events>>

-----------------------------------------------------------------------------
(* The ZigBee thread.                                                      *)

(* A meter that has woken up sends its packet, and the thread gets it.     *)
Packet(m) ==
    /\ thread.pc = "idle"
    /\ meter[m].up /\ meter[m].left <= 0
    /\ thread' = [pc |-> "answer", m |-> m]
    /\ UNCHANGED <<clock, interval, sample, asked, data, main, meter, quiet,
                   steady, row, events>>

(* Once a day the answer asks for the meter's parameters (judge_eq_meter_  *)
(* para); else it says how long to sleep.  Either may get lost; the meter  *)
(* then sleeps as it did before.                                           *)
Answer(heard) ==
    LET m == thread.m
        ask == clock - asked[m] > Day
    IN /\ thread.pc = "answer"
       /\ asked' = [asked EXCEPT ![m] = IF ask THEN clock ELSE @]
       /\ meter' = [meter EXCEPT ![m] =
                      LET told == IF heard /\ ~ask THEN Told(m, interval[m]) ELSE @.told
                      IN [@ EXCEPT !.told = told, !.left = told]]
       /\ thread' = [thread EXCEPT !.pc = "stamp"]
       /\ UNCHANGED <<clock, interval, sample, data, main, quiet, steady, row, events>>

(* Mutant: the slot of the next meter, the index taken from 1.             *)
Stamp_OffByOne ==
    LET m == thread.m
    IN /\ thread.pc = "stamp"
       /\ sample' = [sample EXCEPT ![IF m < N THEN m + 1 ELSE m] = clock]
       /\ quiet' = [quiet EXCEPT ![m] = 0]
       /\ steady' = [steady EXCEPT ![m] = main.now <= clock]
       /\ row' = [row EXCEPT ![m] =
                    CASE meter[m].told # Told(m, interval[m]) -> 0
                      [] meter[m].told = Told(m, interval[m]) -> IF @ < 3 THEN @ + 1 ELSE @]
       /\ thread' = [thread EXCEPT !.pc = "store"]
       /\ UNCHANGED <<clock, interval, asked, data, main, meter, events>>

(* time(&rtu_a118_t.meter_sample_time[well][number]).                      *)
Stamp ==
    LET m == thread.m
    IN /\ thread.pc = "stamp"
       /\ sample' = [sample EXCEPT ![m] = IF Kind[m] = "flow" THEN @ ELSE clock]
       /\ quiet' = [quiet EXCEPT ![m] = 0]
       /\ steady' = [steady EXCEPT ![m] = main.now <= clock]
       /\ row' = [row EXCEPT ![m] =
                    CASE meter[m].told # Told(m, interval[m]) -> 0
                      [] meter[m].told = Told(m, interval[m]) -> IF @ < 3 THEN @ + 1 ELSE @]
       /\ thread' = [thread EXCEPT !.pc = "store"]
       /\ UNCHANGED <<clock, interval, asked, data, main, meter, events>>

(* zigbee_write_registers of the data.                                     *)
Store ==
    LET m == thread.m
    IN /\ thread.pc = "store"
       /\ data' = [data EXCEPT ![m] = TRUE]
       /\ thread' = [thread EXCEPT !.pc = "idle", !.m = 1]
       /\ UNCHANGED <<clock, interval, sample, asked, main, meter, quiet, steady,
                      row, events>>

-----------------------------------------------------------------------------
(* main.  A pass for which the clock was read, then the intervals, then    *)
(* the rest, differs from one that reads them at once only in the order of *)
(* independent steps.                                                      *)

(* sleep(20) is over: clear_meter_rtdata reads the clock and the intervals.*)
Wake ==
    /\ main.pc = "sleep" /\ main.left = 0
    /\ main' = [main EXCEPT !.pc = "check", !.now = clock,
                            !.read = [m \in Meters |-> Meant(m, interval[m])]]
    /\ UNCHANGED <<clock, interval, sample, asked, data, thread, meter, quiet,
                   steady, row, events>>

(* The next meter of the loop, or the end of the pass.                     *)
Advance(next) ==
    IF main.i < N
    THEN [next EXCEPT !.pc = "check", !.i = @ + 1]
    ELSE [next EXCEPT !.pc = "sleep", !.left = Period, !.i = 1, !.late = FALSE,
                      !.now = 0, !.read = [m \in Meters |-> 0]]

(* Mutant: each pass stamps every meter, silent or not.                    *)
Check_Stamp ==
    /\ main.pc = "check"
    /\ main' = IF main.now > main.read[main.i] * Cnt + sample[main.i]
               THEN [main EXCEPT !.pc = "mark"]
               ELSE Advance(main)
    /\ sample' = [sample EXCEPT ![main.i] = main.now]
    /\ UNCHANGED <<clock, interval, asked, data, thread, meter, quiet, steady,
                   row, events>>

(* It compares, ...                                                         *)
Check ==
    /\ main.pc = "check"
    /\ main' = IF main.now > main.read[main.i] * Cnt + sample[main.i]
               THEN [main EXCEPT !.pc = "mark"]
               ELSE Advance(main)
    /\ UNCHANGED <<clock, interval, sample, asked, data, thread, meter, quiet,
                   steady, row, events>>

(* ... stamps a silent meter itself, so as to clear it no more than once   *)
(* per ten intervals, ...                                                  *)
Mark ==
    /\ main.pc = "mark"
    /\ sample' = [sample EXCEPT ![main.i] = main.now]
    /\ main' = [main EXCEPT !.pc = "clear"]
    /\ UNCHANGED <<clock, interval, asked, data, thread, meter, quiet, steady,
                   row, events>>

(* ... and fills its registers with 0xFFFF.                                *)
Clear ==
    /\ main.pc = "clear"
    /\ data' = [data EXCEPT ![main.i] = FALSE]
    /\ main' = Advance(main)
    /\ UNCHANGED <<clock, interval, sample, asked, thread, meter, quiet, steady,
                   row, events>>

-----------------------------------------------------------------------------
Thread == (\E heard \in BOOLEAN : Answer(heard)) \/ Stamp \/ Store

Main == Wake \/ Check \/ Mark \/ Clear

World ==
    \/ Tick
    \/ \E d \in Jumps : SetClock(d)
    \/ \E m \in Meters :
         \/ \E v \in Registers[m] : WriteInterval(m, v)
         \/ FallSilent(m)
         \/ ComeBack(m)
         \/ Packet(m)

Next == Thread \/ Main \/ World

Spec == Init /\ [][Next]_vars

-----------------------------------------------------------------------------
(* Types, and: main sleeps with nothing in hand, and the thread works on   *)
(* the packet of a meter that is in the table.                             *)
TypeOK ==
    /\ clock \in 0..MaxTime
    /\ interval \in [Meters -> 1..(Word - 1)]
    /\ sample \in [Meters -> 0..MaxTime] /\ asked \in [Meters -> 0..MaxTime]
    /\ data \in [Meters -> BOOLEAN]
    /\ main \in [pc : {"sleep", "check", "mark", "clear"}, left : 0..Period,
                 i : Meters, now : 0..MaxTime, late : BOOLEAN,
                 read : [Meters -> 0..(Word - 1)]]
    /\ main.pc = "sleep" => ~main.late /\ main.i = 1
    /\ thread \in [pc : {"idle", "answer", "stamp", "store"}, m : Meters]
    /\ meter \in [Meters -> [up : BOOLEAN, told : Sleeps, left : Int]]
    /\ \A m \in Meters : meter[m].left \in (-Grace)..meter[m].told
    /\ quiet \in [Meters -> Nat] /\ steady \in [Meters -> BOOLEAN]
    /\ row \in [Meters -> 0..3] /\ events \in 0..MaxEvent

(* What main would call silence, had it infinite registers.                *)
Limit(m) == Cnt * (IF Kind[m] = "load" THEN interval[m] * Minute ELSE interval[m])

(* rtu_a118.c, "clear meter information (if no data is uploaded within the *)
(* prescribed time)": no server reads the data of a meter that has been    *)
(* silent for longer than the limit, the rest until main's next pass and   *)
(* the second that pass may take, whatever packets come during the passes, *)
(* unless the clock or the interval was changed since.  (The flow meter's  *)
(* data go by main's stamps alone.)                                        *)
ClearedInTime ==
    \A m \in Meters :
        Kind[m] # "flow" /\ data[m] /\ steady[m]
            => quiet[m] <= Limit(m) + Period + 2

(* A meter that does as it is told: it is up, sleeps as its interval says, *)
(* has sent three packets since anything changed, no two of them within    *)
(* one pass of main, and its interval fits into a u16 of seconds.  (main   *)
(* may write over the stamp of the first one, with a time read before the  *)
(* clock was set, and clear the data of the second one, silent by that     *)
(* stamp.)                                                                 *)
Live(m) ==
    /\ Kind[m] # "flow"
    /\ row[m] = 3
    /\ meter[m].told > 1
    /\ Kind[m] = "load" => interval[m] * Minute < Word

(* The data of such a meter are never cleared, even if the packet, main's  *)
(* reading of the times and its stamp interleave.                          *)
LiveKept ==
    [][\A m \in Meters : Live(m) /\ data[m] => data'[m]]_vars
=============================================================================
