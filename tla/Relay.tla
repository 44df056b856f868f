------------------------------- MODULE Relay -------------------------------
(***************************************************************************)
(* One latching relay of the RTU (DO0 or DO1 of hardware version 2) and    *)
(* the threads that write its register.  gpio_set_do energises coil A to   *)
(* switch the relay off, or coil B to switch it on, sleeps 5 ms, and lets  *)
(* both coils go; a coil has to be energised for 4 ms to be sure that the  *)
(* relay has moved.  map_map_fun_write then stores the register.  Nothing  *)
(* keeps two threads from doing this at the same time.                     *)
(*                                                                         *)
(* At power-up main alone repeats the last write, as the register has it.  *)
(* A new type of well 1 stores the default of the register, with no pulse. *)
(***************************************************************************)
EXTENDS Naturals

CONSTANTS Server,   \* threads that write the register for a Modbus master
          Main,     \* the thread that runs main
          Value     \* what is written

ASSUME RelayAssumption == Main \notin Server /\ {0, 1} \subseteq Value

Thread == Server \cup {Main}

VARIABLES
    pinA, pinB,   \* the coil is energised
    closed,       \* the relay is on
    reg, disk,    \* the register in the mapped page, and on the disk
    starting,     \* only main runs yet
    pc, val,      \* where each thread is, and what it writes
    steady,       \* sleeping threads since whose first moment no pin changed
    solo,         \* writing threads since whose start no other one wrote
    parted        \* two writes overlapped, or the register was stored without
                  \* a pulse, and no write was solo since

pins == <<pinA, pinB>>
store == <<reg, disk>>
overlap == <<solo, parted>>
vars == <<pins, closed, store, starting, pc, val, steady, overlap>>

\* The place in gpio_set_do, then in map_map_fun_write.
Pc == {"idle", "A", "B", "sleep", "restA", "restB", "store", "sync"}

TypeOK ==
    /\ pinA \in BOOLEAN /\ pinB \in BOOLEAN /\ closed \in BOOLEAN
    /\ reg \in Value /\ disk \in Value
    /\ starting \in BOOLEAN
    /\ pc \in [Thread -> Pc] /\ val \in [Thread -> Value]
    /\ val[Main] \in {0, 1}
    /\ steady \subseteq Thread /\ solo \subseteq Thread
    /\ parted \in BOOLEAN

\* Power is on: the pins and the relay are as they happen to be.
PowerUp ==
    /\ pinA' \in BOOLEAN /\ pinB' \in BOOLEAN
    /\ starting' = TRUE
    /\ pc' = [t \in Thread |-> "idle"]
    /\ val' = [t \in Thread |-> 0]
    /\ steady' = {} /\ solo' = {}
    /\ parted' = TRUE

Init ==
    /\ pinA \in BOOLEAN /\ pinB \in BOOLEAN /\ closed \in BOOLEAN
    /\ reg \in Value /\ disk = reg
    /\ starting = TRUE
    /\ pc = [t \in Thread |-> "idle"]
    /\ val = [t \in Thread |-> 0]
    /\ steady = {} /\ solo = {}
    /\ parted = TRUE

At(t, p) == pc[t] = p
Goto(t, p) == pc' = [pc EXCEPT ![t] = p]
Writing(t) == pc[t] # "idle"

\* Thread t is about to write v.
Enter(t, v) ==
    /\ At(t, "idle") /\ Goto(t, "A")
    /\ val' = [val EXCEPT ![t] = v]
    /\ IF \E u \in Thread : Writing(u)
          THEN solo' = {} /\ parted' = TRUE
          ELSE solo' = {t} /\ UNCHANGED parted
    /\ UNCHANGED <<pins, closed, store, starting, steady>>

\* gpio_do_init: anything but 1 counts as 0.
Start ==
    /\ starting
    /\ Enter(Main, IF reg = 1 THEN 1 ELSE 0)

\* A Modbus master writes the register.
Request(t, v) ==
    /\ ~starting /\ t \in Server
    /\ Enter(t, v)

\* A pin is set: the sleeping threads are disturbed if it changes.
SetA(high) ==
    /\ pinA' = high /\ UNCHANGED pinB
    /\ steady' = IF high = pinA THEN steady ELSE {}
SetB(high, sleeper) ==
    /\ pinB' = high /\ UNCHANGED pinA
    /\ steady' = (IF high = pinB THEN steady ELSE {}) \cup sleeper

\* Mutant: any value but 0 switches the relay on.
SwitchA_NonZero(t) ==
    /\ At(t, "A") /\ Goto(t, "B")
    /\ SetA(val[t] = 0)
    /\ UNCHANGED <<closed, store, starting, val, overlap>>

\* Coil A switches off, unless the value is IO_HIGH ...
SwitchA(t) ==
    /\ At(t, "A") /\ Goto(t, "B")
    /\ SetA(val[t] # 1)
    /\ UNCHANGED <<closed, store, starting, val, overlap>>

\* ... and coil B switches on; then thread t sleeps.
SwitchB(t) ==
    /\ At(t, "B") /\ Goto(t, "sleep")
    /\ SetB(val[t] = 1, {t})
    /\ UNCHANGED <<closed, store, starting, val, overlap>>

\* What the relay may be moved to by the coils.
Pull == {p \in BOOLEAN : IF p THEN pinB ELSE pinA}

\* A coil may move the relay from the first moment on ...
Move ==
    /\ closed' \in Pull
    /\ UNCHANGED <<pins, store, starting, pc, val, steady, overlap>>

\* ... and has moved it when it was energised for the whole sleep.
Slept(t) ==
    /\ At(t, "sleep") /\ Goto(t, "restA")
    /\ closed' \in IF t \in steady /\ Pull # {} THEN Pull ELSE {closed}
    /\ steady' = steady \ {t}
    /\ UNCHANGED <<pins, store, starting, val, overlap>>

RestA(t) ==
    /\ At(t, "restA") /\ Goto(t, "restB")
    /\ SetA(FALSE)
    /\ UNCHANGED <<closed, store, starting, val, overlap>>

\* Mutant: coil B is not let go.
RestB_NoB(t) ==
    /\ At(t, "restB") /\ Goto(t, "store")
    /\ UNCHANGED <<pins, steady, closed, store, starting, val, overlap>>

RestB(t) ==
    /\ At(t, "restB") /\ Goto(t, "store")
    /\ SetB(FALSE, {})
    /\ UNCHANGED <<closed, store, starting, val, overlap>>

\* The register is stored in the mapped page ...
Store(t) ==
    /\ At(t, "store") /\ Goto(t, "sync")
    /\ reg' = val[t]
    /\ parted' = (parted /\ t \notin solo)
    /\ UNCHANGED <<pins, closed, disk, starting, val, steady, solo>>

\* ... and msync brings it to the disk, or fails, which is only printed.  In
\* main, the threads are started next.
Sync(t) ==
    /\ At(t, "sync") /\ Goto(t, "idle")
    /\ disk' \in {reg, disk}
    /\ starting' = FALSE
    /\ solo' = solo \ {t}
    /\ UNCHANGED <<pins, closed, reg, val, steady, parted>>

\* A master gives well 1 another type: map_item_remap stores the default of the
\* register, 0, and the relay stays.
Remap(t) ==
    /\ ~starting /\ t \in Server /\ At(t, "idle")
    /\ reg' = 0 /\ disk' \in {0, disk}
    /\ parted' = TRUE
    /\ UNCHANGED <<pins, closed, starting, pc, val, steady, solo>>

\* Power is lost; the page may or may not have been written back before.
PowerLoss ==
    /\ disk' \in {reg, disk} /\ reg' = disk'
    /\ PowerUp
    /\ UNCHANGED closed

Pulse(t) ==
    \/ SwitchA(t) \/ SwitchB(t) \/ Slept(t) \/ RestA(t) \/ RestB(t)
    \/ Store(t) \/ Sync(t)

Running ==
    \/ Start
    \/ \E t \in Thread : Pulse(t) \/ Remap(t) \/ \E v \in Value : Request(t, v)
    \/ Move

Next == Running \/ PowerLoss

Spec == Init /\ [][Next]_vars

\* main goes on with its start, and a thread with a write it has begun.
FairSpec ==
    Spec /\ WF_vars(Start) /\ \A t \in Thread : WF_vars(Pulse(t))

-----------------------------------------------------------------------------
(***************************************************************************)
(* No coil is left energised.  Once main has gone through the relays,      *)
(* whatever the pins were at power-up, a coil is only energised while some *)
(* thread is in the write that will let it go, in spite of the threads     *)
(* setting each other's pins.                                              *)
(***************************************************************************)
Holds(t) == [A |-> pc[t] \in {"B", "sleep", "restA"},
             B |-> pc[t] \in {"sleep", "restA", "restB"}]

CoilsRest ==
    ~starting => /\ pinA => \E t \in Thread : Holds(t).A
                 /\ pinB => \E t \in Thread : Holds(t).B

(***************************************************************************)
(* The relay is as its register says when no write is under way, if no     *)
(* writes have overlapped and the type of well 1 was not changed since the *)
(* last write that was alone, or the last start.  So one write that is     *)
(* alone puts right what overlapping writes and changes of the type have   *)
(* parted, in whatever state they have left the coils and the relay.       *)
(***************************************************************************)
RelayFollows ==
    ~parted /\ (\A t \in Thread : pc[t] \in {"idle", "sync"}) =>
        closed = (reg = 1)

\* The inductive strengthening: who holds a coil while main is starting, that a
\* solo write has the relay to itself, and how far it has got.
CoilsHeld ==
    /\ pinA => \/ \E t \in Thread : Holds(t).A
               \/ starting /\ pc[Main] \in {"idle", "A"}
    /\ pinB => \/ \E t \in Thread : Holds(t).B
               \/ starting /\ pc[Main] \in {"idle", "A", "B"}

StartsAlone ==
    starting => /\ \A t \in Server : ~Writing(t)
                /\ pc[Main] # "sync" => parted

SoloAlone ==
    /\ \A t \in solo : Writing(t) /\ \A u \in Thread : Writing(u) => u = t
    /\ ~parted => \A t \in Thread : Writing(t) => t \in solo

SoloProgress ==
    \A t \in solo :
        /\ pc[t] \in {"B", "sleep", "restA"} => pinA = (val[t] # 1)
        /\ pc[t] \in {"sleep", "restA", "restB"} => pinB = (val[t] = 1)
        /\ pc[t] \in {"restB", "store"} => ~pinA
        /\ pc[t] = "store" => ~pinB
        /\ pc[t] = "sleep" => t \in steady
        /\ pc[t] \in {"restA", "restB", "store"} => closed = (val[t] = 1)

Inv ==
    /\ TypeOK /\ CoilsHeld /\ StartsAlone /\ SoloAlone /\ SoloProgress
    /\ RelayFollows

(***************************************************************************)
(* Each coil is let go in the end, even if writes overlap for ever, unless *)
(* power is lost again and again: gpio_do_init, too, is cut short then.    *)
(***************************************************************************)
CoilsReleased ==
    <>[][~PowerLoss]_vars => (pinA ~> ~pinA) /\ (pinB ~> ~pinB)

=============================================================================
