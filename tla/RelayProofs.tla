---------------------------- MODULE RelayProofs ----------------------------
(***************************************************************************)
(* Proofs about Relay, for any number of server threads and values.        *)
(***************************************************************************)
EXTENDS Relay, TLAPS

-----------------------------------------------------------------------------
\* main starts with the servers idle, and nothing known of pins and relay.
LEMMA InitInv == Init => Inv
BY RelayAssumption
DEF Init, Inv, TypeOK, CoilsHeld, StartsAlone, SoloAlone, SoloProgress,
    RelayFollows, Thread, Writing, Pc

\* The same after a loss of power.
LEMMA PowerLossInv == Inv /\ PowerLoss => Inv'
BY RelayAssumption
DEF PowerLoss, PowerUp, Inv, TypeOK, CoilsHeld, StartsAlone, SoloAlone,
    SoloProgress, RelayFollows, Thread, Writing, Pc

\* A write begins: it is solo if no other is under way.
LEMMA EnterInv ==
    ASSUME Inv, NEW t \in Thread, NEW v \in Value, Enter(t, v),
           t = Main => v \in {0, 1}, starting => t = Main
    PROVE  Inv'
<1> USE DEF Inv, Enter, At, Goto, pins, store, overlap
<1>1. TypeOK'
  BY RelayAssumption DEF TypeOK, Pc, Thread
<1>2. CoilsHeld'
  <2>1. \A u \in Thread : u # t => pc'[u] = pc[u]
    BY DEF TypeOK
  <2>2. pc[t] = "idle" /\ pc'[t] = "A" /\ UNCHANGED <<pinA, pinB, starting>>
    BY DEF TypeOK
  <2>3. \A u \in Thread : Holds(u)' = Holds(u)
    BY <2>1, <2>2 DEF Holds
  <2>4. ASSUME starting
        PROVE  pc'[Main] = "A"
    BY <2>2, <2>4
  <2> QED  BY <2>2, <2>3, <2>4 DEF CoilsHeld
<1>3. StartsAlone'
  <2>1. CASE starting
    BY <2>1, RelayAssumption DEF TypeOK, StartsAlone, Thread, Writing
  <2>2. CASE ~starting
    BY <2>2 DEF StartsAlone
  <2> QED  BY <2>1, <2>2
<1>4. SoloAlone'
  BY DEF TypeOK, SoloAlone, Writing
<1>5. SoloProgress'
  BY DEF TypeOK, SoloProgress
<1>6. RelayFollows'
  BY DEF RelayFollows, TypeOK
<1> QED  BY <1>1, <1>2, <1>3, <1>4, <1>5, <1>6

\* gpio_set_do sets coil A, with the value in hand.
LEMMA SwitchAInv == ASSUME Inv, NEW t \in Thread, SwitchA(t) PROVE Inv'
<1> USE DEF Inv, SwitchA, SetA, At, Goto, store, overlap
<1>1. TypeOK'
  BY DEF TypeOK, Pc
<1>2. CoilsHeld'
  BY DEF TypeOK, CoilsHeld, StartsAlone, Thread, Writing, Holds
<1>3. StartsAlone'
  BY DEF TypeOK, StartsAlone, Thread, Writing
<1>4. SoloAlone'
  BY DEF TypeOK, SoloAlone, Writing
<1>5. SoloProgress'
  BY DEF TypeOK, SoloProgress, SoloAlone, Writing
<1>6. RelayFollows'
  BY DEF TypeOK, RelayFollows
<1> QED  BY <1>1, <1>2, <1>3, <1>4, <1>5, <1>6

\* It sets coil B and begins to sleep; no pin has changed since.
LEMMA SwitchBInv == ASSUME Inv, NEW t \in Thread, SwitchB(t) PROVE Inv'
<1> USE DEF Inv, SwitchB, SetB, At, Goto, store, overlap
<1>1. TypeOK'
  BY DEF TypeOK, Pc
<1>2. CoilsHeld'
  BY DEF TypeOK, CoilsHeld, StartsAlone, Thread, Writing, Holds
<1>3. StartsAlone'
  BY DEF TypeOK, StartsAlone, Thread, Writing
<1>4. SoloAlone'
  BY DEF TypeOK, SoloAlone, Writing
<1>5. SoloProgress'
  BY DEF TypeOK, SoloProgress, SoloAlone, Writing
<1>6. RelayFollows'
  BY DEF TypeOK, RelayFollows
<1> QED  BY <1>1, <1>2, <1>3, <1>4, <1>5, <1>6

\* A write that was alone while it slept has moved the relay.
LEMMA SleptInv == ASSUME Inv, NEW t \in Thread, Slept(t) PROVE Inv'
<1> USE DEF Inv, Slept, At, Goto, pins, store, overlap, Pull
<1>1. TypeOK'
  BY DEF TypeOK, Pc
<1>2. CoilsHeld'
  BY DEF TypeOK, CoilsHeld, StartsAlone, Thread, Writing, Holds
<1>3. StartsAlone'
  BY DEF TypeOK, StartsAlone, Thread, Writing
<1>4. SoloAlone'
  BY DEF TypeOK, SoloAlone, Writing
<1>5. SoloProgress'
  BY DEF TypeOK, SoloProgress, SoloAlone, Writing
<1>6. RelayFollows'
  BY DEF TypeOK, RelayFollows, SoloAlone, SoloProgress, Writing
<1> QED  BY <1>1, <1>2, <1>3, <1>4, <1>5, <1>6

\* It lets coil A go ...
LEMMA RestAInv == ASSUME Inv, NEW t \in Thread, RestA(t) PROVE Inv'
<1> USE DEF Inv, RestA, At, Goto, SetA, store, overlap
<1>1. TypeOK'
  BY DEF TypeOK, Pc
<1>2. CoilsHeld'
  BY DEF TypeOK, CoilsHeld, StartsAlone, Thread, Writing, Holds
<1>3. StartsAlone'
  BY DEF TypeOK, StartsAlone, Thread, Writing
<1>4. SoloAlone'
  BY DEF TypeOK, SoloAlone, Writing
<1>5. SoloProgress'
  BY DEF TypeOK, SoloProgress, SoloAlone, Writing
<1>6. RelayFollows'
  BY DEF TypeOK, RelayFollows, SoloAlone, SoloProgress, Writing
<1> QED  BY <1>1, <1>2, <1>3, <1>4, <1>5, <1>6

\* ... and coil B.
LEMMA RestBInv == ASSUME Inv, NEW t \in Thread, RestB(t) PROVE Inv'
<1> USE DEF Inv, RestB, At, Goto, SetB, store, overlap
<1>1. TypeOK'
  BY DEF TypeOK, Pc
<1>2. CoilsHeld'
  BY DEF TypeOK, CoilsHeld, StartsAlone, Thread, Writing, Holds
<1>3. StartsAlone'
  BY DEF TypeOK, StartsAlone, Thread, Writing
<1>4. SoloAlone'
  BY DEF TypeOK, SoloAlone, Writing
<1>5. SoloProgress'
  BY DEF TypeOK, SoloProgress, SoloAlone, Writing
<1>6. RelayFollows'
  BY DEF TypeOK, RelayFollows, SoloAlone, SoloProgress, Writing
<1> QED  BY <1>1, <1>2, <1>3, <1>4, <1>5, <1>6

\* A solo write stores the register of the relay it has moved.
LEMMA StoreInv == ASSUME Inv, NEW t \in Thread, Store(t) PROVE Inv'
<1> USE DEF Inv, Store, At, Goto, pins
<1>1. TypeOK'
  BY DEF TypeOK, Pc
<1>2. CoilsHeld'
  BY DEF TypeOK, CoilsHeld, StartsAlone, Thread, Writing, Holds
<1>3. StartsAlone'
  BY DEF TypeOK, StartsAlone, Thread, Writing
<1>4. SoloAlone'
  BY DEF TypeOK, SoloAlone, Writing
<1>5. SoloProgress'
  BY DEF TypeOK, SoloProgress, SoloAlone, Writing
<1>6. RelayFollows'
  BY DEF TypeOK, RelayFollows, SoloAlone, SoloProgress, Writing
<1> QED  BY <1>1, <1>2, <1>3, <1>4, <1>5, <1>6

\* Nothing but the disk changes at the end of a write; main starts the threads.
LEMMA SyncInv == ASSUME Inv, NEW t \in Thread, Sync(t) PROVE Inv'
<1> USE DEF Inv, Sync, At, Goto, pins
<1>1. TypeOK'
  BY DEF TypeOK, Pc
<1>2. CoilsHeld'
  BY DEF TypeOK, CoilsHeld, StartsAlone, Thread, Writing, Holds
<1>3. StartsAlone'
  BY DEF TypeOK, StartsAlone, Thread, Writing
<1>4. SoloAlone'
  BY DEF TypeOK, SoloAlone, Writing
<1>5. SoloProgress'
  BY DEF TypeOK, SoloProgress, SoloAlone, Writing
<1>6. RelayFollows'
  BY DEF TypeOK, RelayFollows, SoloAlone, SoloProgress, Writing
<1> QED  BY <1>1, <1>2, <1>3, <1>4, <1>5, <1>6

\* A coil may move the relay at any moment it is energised: a solo write has
\* energised the right one, and none is when nobody writes.
LEMMA MoveInv == ASSUME Inv, Move PROVE Inv'
<1> USE DEF Inv, Move, pins, store, overlap, Pull
<1>1. TypeOK' /\ CoilsHeld' /\ StartsAlone' /\ SoloAlone'
  BY DEF TypeOK, CoilsHeld, StartsAlone, SoloAlone, Writing, Holds
<1>2. SoloProgress'
  BY DEF TypeOK, SoloProgress
<1>3. RelayFollows'
  <2> SUFFICES ASSUME ~parted, \A t \in Thread : pc[t] \in {"idle", "sync"}
               PROVE  ~pinA /\ ~pinB
    BY DEF RelayFollows
  <2>1. \A t \in Thread : ~Holds(t).A /\ ~Holds(t).B
    BY DEF Holds
  <2>2. starting => pc[Main] = "sync"
    BY DEF StartsAlone
  <2> QED  BY <2>1, <2>2 DEF TypeOK, CoilsHeld
<1> QED  BY <1>1, <1>2, <1>3

\* The default is stored: the coils and the writes are left alone, and nothing
\* is said of the relay until a solo write stores the register again.
LEMMA RemapInv == ASSUME Inv, NEW t \in Thread, Remap(t) PROVE Inv'
<1> USE DEF Inv, Remap, At, pins
<1>1. TypeOK'
  BY RelayAssumption DEF TypeOK
<1>2. CoilsHeld' /\ StartsAlone' /\ SoloProgress'
  BY DEF CoilsHeld, StartsAlone, SoloProgress, Writing, Holds
<1>3. SoloAlone' /\ RelayFollows'
  BY DEF SoloAlone, RelayFollows, Writing
<1> QED  BY <1>1, <1>2, <1>3

\* Every step keeps the invariant.
LEMMA NextInv == Inv /\ [Next]_vars => Inv'
<1> SUFFICES ASSUME Inv, [Next]_vars PROVE Inv'
  OBVIOUS
<1>1. CASE UNCHANGED vars
  BY <1>1
  DEF vars, pins, store, overlap, Inv, TypeOK, CoilsHeld, StartsAlone,
      SoloAlone, SoloProgress, RelayFollows, Writing, Holds
<1>2. CASE Start
  BY <1>2, EnterInv, RelayAssumption DEF Start, Thread
<1>3. ASSUME NEW t \in Thread, NEW v \in Value, Request(t, v)
      PROVE  Inv'
  BY <1>3, EnterInv, RelayAssumption DEF Request
<1>4. ASSUME NEW t \in Thread, Pulse(t)
      PROVE  Inv'
  BY <1>4, SwitchAInv, SwitchBInv, SleptInv, RestAInv, RestBInv, StoreInv,
     SyncInv DEF Pulse
<1>5. CASE Move
  BY <1>5, MoveInv
<1>6. CASE PowerLoss
  BY <1>6, PowerLossInv
<1>7. ASSUME NEW t \in Thread, Remap(t)
      PROVE  Inv'
  BY <1>7, RemapInv
<1> QED  BY <1>1, <1>2, <1>3, <1>4, <1>5, <1>6, <1>7 DEF Next, Running

\* The pins, the relay, the register and the threads of gpio_set_do are always
\* as the invariant says.
THEOREM Invariance == Spec => []Inv
BY InitInv, NextInv, PTL DEF Spec

-----------------------------------------------------------------------------
\* Every state is well typed: in particular gpio_do_init writes 0 or 1.
THEOREM TypeCorrect == Spec => []TypeOK
<1>1. Inv => TypeOK
  BY DEF Inv
<1> QED  BY <1>1, Invariance, PTL

\* Once main has started the threads, gpio_set_do leaves no coil energised,
\* however many threads call it at once.
THEOREM NoCoilLeftOn == Spec => []CoilsRest
<1>1. Inv => CoilsRest
  BY DEF Inv, CoilsHeld, CoilsRest
<1> QED  BY <1>1, Invariance, PTL

\* After a write that no other overlapped, the relay is as map_map_fun_write
\* has stored its register, whatever overlapping writes and stores of the
\* default by map_item_remap have left before it, until the next of these.
THEOREM RelayFollowsRegister == Spec => []RelayFollows
<1>1. Inv => RelayFollows
  BY DEF Inv
<1> QED  BY <1>1, Invariance, PTL

=============================================================================
