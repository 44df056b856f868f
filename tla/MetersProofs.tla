---------------------------- MODULE MetersProofs ----------------------------
(***************************************************************************)
(* What is proved of the threads that talk to the meters: of               *)
(* WirelessMeters, for any meters, registers, intervals, settings of the   *)
(* clock and delays; and of Master485, for any number of writers, tries,   *)
(* samples, queue slots and late answers.                                  *)
(***************************************************************************)
EXTENDS Master485, WirelessMeters, TLAPS

(***************************************************************************)
(* While clock and register of a meter are as they were at its stamp:      *)
(*   - a pass that began after the stamp has read both as they are;        *)
(*   - the sample time is no later than the stamp, unless main has found   *)
(*     the meter silent and is about to clear it;                          *)
(*   - a pass that has dealt with the meter, or the last one, has left no  *)
(*     data older than the limit.                                          *)
(***************************************************************************)
Lag == IF main.late THEN 1 ELSE 0

Reported(m) == thread.pc = "store" /\ thread.m = m

Current(m) ==
    main.pc # "sleep" =>
        quiet[m] <= Lag
        \/ (main.read[m] = Meant(m, interval[m]) /\ clock = main.now + Lag)

Sampled(m) ==
    /\ Reported(m) => quiet[m] = 0 /\ sample[m] <= clock /\ main.now <= clock
    /\ data[m] => sample[m] + quiet[m] <= clock \/ (main.pc = "clear" /\ main.i = m)

Bound(m) ==
    IF main.pc = "sleep" THEN Limit(m) + 1 + Period - main.left
    ELSE IF m < main.i THEN Limit(m) + Lag
    ELSE Limit(m) + 1 + Period + Lag

Seen(m) == data[m] => quiet[m] <= Bound(m)

Timely(m) == Kind[m] # "flow" /\ steady[m] => Current(m) /\ Sampled(m) /\ Seen(m)

Inv == TypeOK /\ \A m \in Meters : Timely(m)

-----------------------------------------------------------------------------
\* A remainder is below the divisor, and no more than the number.
LEMMA Remainder ==
    ASSUME NEW a \in Nat, NEW b \in Nat \ {0}
    PROVE  a % b \in 0 .. (b - 1) /\ a % b <= a
  OBVIOUS

\* A product is no less if a factor is no less.
LEMMA Product ==
    ASSUME NEW a \in Nat, NEW b \in Nat, NEW c \in Nat, a <= b
    PROVE  a * c \in Nat /\ a * c <= b * c /\ a * c = c * a /\ b * c = c * b
  OBVIOUS

\* What main goes by is a u16, and ten of it no more than the limit.
LEMMA MeantType ==
    ASSUME NEW m \in Meters, NEW v \in 1 .. (Word - 1)
    PROVE  /\ Meant(m, v) \in 0 .. (Word - 1)
           /\ interval[m] = v => Meant(m, v) * Cnt <= Limit(m) /\ Limit(m) \in Nat
<1>1. /\ Word \in Nat \ {0} /\ Minute \in Nat /\ Cnt \in Nat
      /\ v \in Nat /\ v * Minute \in Nat
  <2>1. Word \in Nat \ {0} /\ Minute \in Nat /\ Cnt \in Nat
    BY MetersAssumption
  <2>2. v \in Nat
    BY <2>1
  <2> QED  BY <2>1, <2>2, Product
<1>2. CASE Kind[m] = "load"
  <2>1. Meant(m, v) = (v * Minute) % Word
    BY <1>2 DEF Meant
  <2>2. Meant(m, v) \in 0 .. (Word - 1) /\ Meant(m, v) <= v * Minute
    BY <1>1, <2>1, Remainder
  <2>3. Meant(m, v) * Cnt <= (v * Minute) * Cnt /\ (v * Minute) * Cnt = Cnt * (v * Minute)
        /\ (v * Minute) * Cnt \in Nat
    BY <1>1, <2>2, Product
  <2>4. interval[m] = v => Limit(m) = Cnt * (v * Minute)
    BY <1>2 DEF Limit
  <2> QED  BY <2>2, <2>3, <2>4
<1>3. CASE Kind[m] # "load"
  <2>1. Meant(m, v) = v /\ (interval[m] = v => Limit(m) = Cnt * v)
    BY <1>3 DEF Meant, Limit
  <2> QED  BY <1>1, <2>1, Product
<1> QED  BY <1>2, <1>3

\* The numbers of a state.
LEMMA Numbers ==
    ASSUME TypeOK, NEW m \in Meters
    PROVE  /\ clock \in Nat /\ quiet[m] \in Nat /\ sample[m] \in Nat
           /\ Limit(m) \in Nat /\ Meant(m, interval[m]) * Cnt <= Limit(m)
           /\ interval[m] \in 1 .. (Word - 1)
           /\ Lag \in {0, 1} /\ Period \in Nat /\ N \in Nat /\ m \in Nat
           /\ main.left \in Nat /\ main.left <= Period
           /\ main.i \in Nat /\ main.now \in Nat
           /\ Meant(m, interval[m]) * Cnt \in Int
<1>0. /\ N \in Nat /\ MaxTime \in Nat /\ Period \in Nat /\ Cnt \in Nat /\ Word \in Nat
      /\ Meters \subseteq Nat
  BY MetersAssumption DEF Meters
<1>1. interval[m] \in 1 .. (Word - 1) /\ Period \in Nat /\ N \in Nat /\ m \in Nat
      /\ Cnt \in Nat /\ Word \in Nat
  <2>1. interval \in [Meters -> 1 .. (Word - 1)]
    BY DEF TypeOK
  <2> QED  BY <1>0, <2>1
<1>2. /\ clock \in Nat /\ quiet[m] \in Nat /\ sample[m] \in Nat
      /\ main.left \in 0 .. Period /\ main.i \in Nat /\ main.now \in Nat
      /\ main.late \in BOOLEAN
  <2>1. clock \in 0 .. MaxTime /\ quiet \in [Meters -> Nat] /\ sample \in [Meters -> 0 .. MaxTime]
    BY DEF TypeOK
  <2>2. main.left \in 0 .. Period /\ main.i \in Meters /\ main.now \in 0 .. MaxTime
        /\ main.late \in BOOLEAN
    BY DEF TypeOK
  <2>3. quiet[m] \in Nat /\ sample[m] \in 0 .. MaxTime
    BY <2>1
  <2>4. \A x : x \in 0 .. MaxTime \/ x \in 0 .. Period => x \in Nat
    BY <1>0
  <2>5. clock \in Nat /\ sample[m] \in Nat /\ main.now \in Nat /\ main.i \in Nat
    BY <1>0, <2>1, <2>2, <2>3, <2>4
  <2> QED  BY <2>2, <2>3, <2>5
<1>3. Meant(m, interval[m]) \in 0 .. (Word - 1) /\ Meant(m, interval[m]) * Cnt <= Limit(m)
      /\ Limit(m) \in Nat
  BY <1>1, MeantType
<1>4. Lag \in {0, 1}
  BY <1>2 DEF Lag
<1>5. Meant(m, interval[m]) * Cnt \in Int
  BY <1>1, <1>3
<1> QED  BY <1>1, <1>2, <1>3, <1>4, <1>5

-----------------------------------------------------------------------------
(***************************************************************************)
(* Types.                                                                  *)
(***************************************************************************)
\* A sleep a meter is told for a register of its own is one of Sleeps.
LEMMA SleepType ==
    ASSUME NEW m \in Meters, NEW v \in 1 .. (Word - 1)
    PROVE  Told(m, v) \in Sleeps
  BY DEF Sleeps

\* Sleeps are numbers.
LEMMA SleepsNat == Sleeps \subseteq Nat
<1>1. ASSUME NEW m \in Meters, NEW v \in 1 .. (Word - 1)
      PROVE  Told(m, v) \in Nat
  <2>1. /\ Word \in Nat /\ Minute \in Nat /\ Minutes \in Nat /\ MaxSleep \in Nat
        /\ MaxMinutes \in Nat
    BY MetersAssumption
  <2>2. v \in Nat
    BY <2>1
  <2>3. v * Minute \in Nat /\ Minute * v = v * Minute
        /\ Minutes * Minute \in Nat /\ Minute * Minutes = Minutes * Minute
    BY <2>1, <2>2, Product
  <2> QED  BY <2>1, <2>2, <2>3 DEF Told
<1> QED  BY <1>1 DEF Sleeps

\* The start is well typed.
LEMMA InitType == Init => TypeOK
<1> SUFFICES ASSUME Init PROVE TypeOK
  OBVIOUS
<1>0. /\ N \in Nat \ {0} /\ MaxTime \in Nat /\ Period \in Nat /\ Word \in Nat \ {0}
      /\ Grace \in Nat /\ MaxEvent \in Nat /\ Day \in Nat /\ Day < MaxTime
  BY MetersAssumption
<1>1. interval \in [Meters -> 1 .. (Word - 1)]
  <2>1. \A m \in Meters : Registers[m] \subseteq 1 .. (Word - 1)
    BY MetersAssumption
  <2>2. PICK f \in [Meters -> UNION {Registers[m] : m \in Meters}] :
             interval = f /\ \A m \in Meters : f[m] \in Registers[m]
    BY DEF Init
  <2>3. \A m \in Meters : f[m] \in 1 .. (Word - 1)
    BY <2>1, <2>2
  <2> QED  BY <2>2, <2>3
<1>2. clock \in 0 .. MaxTime /\ 0 \in 0 .. MaxTime /\ 0 \in 0 .. Period /\ 1 \in Meters
      /\ 0 \in 0 .. (Word - 1) /\ 0 \in 0 .. MaxEvent /\ 0 \in 0 .. 3 /\ 0 \in Nat
  BY <1>0 DEF Init, Meters
<1>3. meter \in [Meters -> [up : BOOLEAN, told : Sleeps, left : Int]]
  <2>1. \A m \in Meters : Told(m, interval[m]) \in Sleeps
    BY <1>1, SleepType
  <2> QED  BY <2>1 DEF Init
<1>4. \A m \in Meters : meter[m].left \in (-Grace) .. meter[m].told
  <2>1. \A m \in Meters : meter[m].left = 0 /\ meter[m].told \in Nat
    BY <1>3, SleepsNat DEF Init
  <2> QED  BY <1>0, <2>1
<1>5. /\ main \in [pc : {"sleep", "check", "mark", "clear"}, left : 0..Period,
                  i : Meters, now : 0..MaxTime, late : BOOLEAN,
                  read : [Meters -> 0..(Word - 1)]]
      /\ main.pc = "sleep" => ~main.late /\ main.i = 1
  BY <1>2 DEF Init
<1>6. thread \in [pc : {"idle", "answer", "stamp", "store"}, m : Meters]
  BY <1>2 DEF Init
<1>7. /\ sample \in [Meters -> 0..MaxTime] /\ asked \in [Meters -> 0..MaxTime]
      /\ data \in [Meters -> BOOLEAN]
      /\ quiet \in [Meters -> Nat] /\ steady \in [Meters -> BOOLEAN]
      /\ row \in [Meters -> 0..3] /\ events \in 0..MaxEvent
  BY <1>2 DEF Init
<1> QED  BY <1>1, <1>2, <1>3, <1>4, <1>5, <1>6, <1>7 DEF TypeOK

\* The type of main.
Mains == [pc : {"sleep", "check", "mark", "clear"}, left : 0..Period,
          i : Meters, now : 0..MaxTime, late : BOOLEAN,
          read : [Meters -> 0..(Word - 1)]]

\* The loop goes to a meter, or ends with nothing in hand.
LEMMA AdvanceType ==
    ASSUME main \in Mains
    PROVE  /\ Advance(main) \in Mains
           /\ Advance(main).pc = "sleep" => ~Advance(main).late /\ Advance(main).i = 1
<1>0. N \in Nat \ {0} /\ MaxTime \in Nat /\ Period \in Nat /\ Word \in Nat \ {0}
  BY MetersAssumption
<1>1. /\ 1 \in Meters /\ 0 \in 0 .. MaxTime /\ Period \in 0 .. Period
      /\ 0 \in 0 .. (Word - 1) /\ main.i \in Nat
      /\ main.i < N => main.i + 1 \in Meters
  BY <1>0 DEF Meters, Mains
<1>2. CASE main.i < N
  BY <1>1, <1>2 DEF Advance, Mains
<1>3. CASE ~(main.i < N)
  BY <1>1, <1>3 DEF Advance, Mains
<1> QED  BY <1>2, <1>3

\* The world keeps the types.
LEMMA WorldType ==
    ASSUME TypeOK, World
    PROVE  TypeOK'
<1> USE DEF Mains
<1>0. /\ N \in Nat \ {0} /\ MaxTime \in Nat /\ Period \in Nat /\ Word \in Nat \ {0}
      /\ Grace \in Nat /\ MaxEvent \in Nat
  BY MetersAssumption
<1>1. CASE Tick
  <2>1. clock' \in 0 .. MaxTime
    BY <1>0, <1>1 DEF Tick, TypeOK
  <2>2. main' \in Mains /\ (main'.pc = "sleep" => ~main'.late /\ main'.i = 1)
    <3>1. main \in Mains /\ (main.pc = "sleep" => ~main.late /\ main.i = 1)
      BY DEF TypeOK
    <3>2. CASE main.pc = "sleep"
      <4>1. main.left > 0 /\ main' = [main EXCEPT !.left = @ - 1]
        BY <1>1, <3>2 DEF Tick
      <4>2. main.left - 1 \in 0 .. Period
        BY <1>0, <3>1, <4>1
      <4> QED  BY <3>1, <3>2, <4>1, <4>2
    <3>3. CASE main.pc # "sleep"
      <4>1. main' = [main EXCEPT !.late = TRUE]
        BY <1>1, <3>3 DEF Tick
      <4> QED  BY <3>1, <3>3, <4>1
    <3> QED  BY <3>2, <3>3
  <2>3. /\ meter' \in [Meters -> [up : BOOLEAN, told : Sleeps, left : Int]]
        /\ \A m \in Meters : meter'[m].left \in (-Grace) .. meter'[m].told
    <3>1. ASSUME NEW m \in Meters
          PROVE  /\ meter'[m] \in [up : BOOLEAN, told : Sleeps, left : Int]
                 /\ meter'[m].left \in (-Grace) .. meter'[m].told
      <4>1. meter[m] \in [up : BOOLEAN, told : Sleeps, left : Int]
            /\ meter[m].left \in (-Grace) .. meter[m].told /\ meter[m].told \in Nat
        BY SleepsNat DEF TypeOK
      <4>2. meter'[m] = [meter[m] EXCEPT !.left =
                           IF meter[m].up \/ @ > 0 THEN @ - 1 ELSE @]
        BY <1>1 DEF Tick
      <4>3. meter[m].up => meter[m].left > -Grace
        BY <1>1 DEF Tick
      <4>4. meter[m].up \/ meter[m].left > 0
            => meter[m].left - 1 \in (-Grace) .. meter[m].told
        BY <1>0, <4>1, <4>3
      <4> QED  BY <4>1, <4>2, <4>4
    <3>2. meter' = [m \in Meters |-> meter'[m]]
      BY <1>1 DEF Tick
    <3> QED  BY <3>1, <3>2
  <2>4. quiet' \in [Meters -> Nat]
    <3>1. \A m \in Meters : quiet[m] + 1 \in Nat
      BY DEF TypeOK
    <3> QED  BY <1>1, <3>1 DEF Tick
  <2>5. /\ interval' \in [Meters -> 1..(Word - 1)]
        /\ sample' \in [Meters -> 0..MaxTime] /\ asked' \in [Meters -> 0..MaxTime]
        /\ data' \in [Meters -> BOOLEAN] /\ steady' \in [Meters -> BOOLEAN]
        /\ thread' \in [pc : {"idle", "answer", "stamp", "store"}, m : Meters]
        /\ row' \in [Meters -> 0..3] /\ events' \in 0..MaxEvent
    BY <1>1 DEF Tick, TypeOK
  <2> QED  BY <2>1, <2>2, <2>3, <2>4, <2>5 DEF TypeOK
<1>2. ASSUME NEW d \in Jumps, SetClock(d)
      PROVE  TypeOK'
  <2>1. clock' \in 0 .. MaxTime /\ events' \in 0 .. MaxEvent
    BY <1>0, <1>2 DEF SetClock, TypeOK
  <2>2. steady' \in [Meters -> BOOLEAN] /\ row' \in [Meters -> 0 .. 3]
    BY <1>2 DEF SetClock
  <2> QED  BY <1>2, <2>1, <2>2 DEF SetClock, TypeOK
<1>3. ASSUME NEW m \in Meters, NEW v \in Registers[m], WriteInterval(m, v)
      PROVE  TypeOK'
  <2>1. v \in 1 .. (Word - 1)
    BY MetersAssumption
  <2>2. events' \in 0 .. MaxEvent
    BY <1>0, <1>3 DEF WriteInterval, TypeOK
  <2>3. interval' \in [Meters -> 1 .. (Word - 1)]
    BY <1>3, <2>1 DEF WriteInterval, TypeOK
  <2>4. steady' \in [Meters -> BOOLEAN] /\ row' \in [Meters -> 0 .. 3]
    BY <1>3 DEF WriteInterval, TypeOK
  <2> QED  BY <1>3, <2>2, <2>3, <2>4 DEF WriteInterval, TypeOK
<1>4. ASSUME NEW m \in Meters, FallSilent(m)
      PROVE  TypeOK'
  <2>1. events' \in 0 .. MaxEvent
    BY <1>0, <1>4 DEF FallSilent, TypeOK
  <2>2. row' \in [Meters -> 0 .. 3]
    BY <1>4 DEF FallSilent, TypeOK
  <2>3. /\ meter' \in [Meters -> [up : BOOLEAN, told : Sleeps, left : Int]]
        /\ \A n \in Meters : meter'[n].left \in (-Grace) .. meter'[n].told
    <3>1. meter' = [meter EXCEPT ![m].up = FALSE]
      BY <1>4 DEF FallSilent
    <3>2. /\ meter \in [Meters -> [up : BOOLEAN, told : Sleeps, left : Int]]
          /\ \A n \in Meters : meter[n].left \in (-Grace) .. meter[n].told
      BY DEF TypeOK
    <3> HIDE DEF Mains
    <3> QED  BY ONLY <3>1, <3>2, m \in Meters
  <2> QED  BY <1>4, <2>1, <2>2, <2>3 DEF FallSilent, TypeOK
<1>5. ASSUME NEW m \in Meters, ComeBack(m)
      PROVE  TypeOK'
  <2>1. /\ meter' \in [Meters -> [up : BOOLEAN, told : Sleeps, left : Int]]
        /\ \A n \in Meters : meter'[n].left \in (-Grace) .. meter'[n].told
    <3>1. meter' = [meter EXCEPT ![m].up = TRUE]
      BY <1>5 DEF ComeBack
    <3>2. /\ meter \in [Meters -> [up : BOOLEAN, told : Sleeps, left : Int]]
          /\ \A n \in Meters : meter[n].left \in (-Grace) .. meter[n].told
      BY DEF TypeOK
    <3> HIDE DEF Mains
    <3> QED  BY ONLY <3>1, <3>2, m \in Meters
  <2> QED  BY <1>5, <2>1 DEF ComeBack, TypeOK
<1>6. ASSUME NEW m \in Meters, Packet(m)
      PROVE  TypeOK'
  <2>1. thread' \in [pc : {"idle", "answer", "stamp", "store"}, m : Meters]
    BY <1>6 DEF Packet
  <2> QED  BY <1>6, <2>1 DEF Packet, TypeOK
<1> QED  BY <1>1, <1>2, <1>3, <1>4, <1>5, <1>6 DEF World

\* The ZigBee thread keeps the types.
LEMMA ThreadType ==
    ASSUME TypeOK, Thread
    PROVE  TypeOK'
<1>0. thread \in [pc : {"idle", "answer", "stamp", "store"}, m : Meters] /\ thread.m \in Meters
  BY DEF TypeOK
<1>1. ASSUME NEW heard \in BOOLEAN, Answer(heard)
      PROVE  TypeOK'
  <2> DEFINE m == thread.m
             ask == clock - asked[m] > Day
             told == IF heard /\ ~ask THEN Told(m, interval[m]) ELSE meter[m].told
  <2>1. told \in Sleeps /\ told \in Nat
    <3>1. interval[m] \in 1 .. (Word - 1) /\ meter[m].told \in Sleeps
      BY <1>0 DEF TypeOK
    <3>2. Told(m, interval[m]) \in Sleeps
      BY <1>0, <3>1, SleepType
    <3> QED  BY <3>1, <3>2, SleepsNat
  <2>2. meter' = [meter EXCEPT ![m] = [meter[m] EXCEPT !.told = told, !.left = told]]
    BY <1>1 DEF Answer
  <2>3. /\ meter' \in [Meters -> [up : BOOLEAN, told : Sleeps, left : Int]]
        /\ \A n \in Meters : meter'[n].left \in (-Grace) .. meter'[n].told
    <3>0. Grace \in Nat
      BY MetersAssumption
    <3>1. told \in Int /\ told \in (-Grace) .. told
      BY <2>1, <3>0
    <3> HIDE DEF told
    <3>2. meter' \in [Meters -> [up : BOOLEAN, told : Sleeps, left : Int]]
      <4>1. meter \in [Meters -> [up : BOOLEAN, told : Sleeps, left : Int]]
        BY DEF TypeOK
      <4>2. m \in Meters /\ told \in Sleeps /\ told \in Int
        BY <1>0, <2>1, <3>1
      <4> HIDE DEF m
      <4> QED  BY ONLY <2>2, <4>1, <4>2
    <3>3. meter'[m].left = told /\ meter'[m].told = told
      BY <1>0, <2>2 DEF TypeOK
    <3>4. \A n \in Meters : n # m => meter'[n] = meter[n]
      BY <1>0, <2>2 DEF TypeOK
    <3> QED  BY <3>1, <3>2, <3>3, <3>4 DEF TypeOK
  <2>4. asked' \in [Meters -> 0 .. MaxTime]
    BY <1>0, <1>1 DEF Answer, TypeOK
  <2>5. thread' \in [pc : {"idle", "answer", "stamp", "store"}, m : Meters]
    BY <1>0, <1>1 DEF Answer
  <2> QED  BY <1>1, <2>3, <2>4, <2>5 DEF Answer, TypeOK
<1>2. CASE Stamp
  <2>1. /\ sample' \in [Meters -> 0 .. MaxTime] /\ quiet' \in [Meters -> Nat]
        /\ steady' \in [Meters -> BOOLEAN]
    <3>1. (main.now <= clock) \in BOOLEAN
      OBVIOUS
    <3>2. steady' \in [Meters -> BOOLEAN]
      BY <1>0, <1>2, <3>1, Zenon DEF Stamp, TypeOK
    <3>3. sample' \in [Meters -> 0 .. MaxTime] /\ quiet' \in [Meters -> Nat]
      BY <1>0, <1>2 DEF Stamp, TypeOK
    <3> QED  BY <3>2, <3>3
  <2>2. row' \in [Meters -> 0 .. 3]
    <3>1. row[thread.m] \in 0 .. 3 /\ row \in [Meters -> 0 .. 3]
      BY <1>0 DEF TypeOK
    <3> QED  BY <1>0, <1>2, <3>1 DEF Stamp
  <2>3. thread' \in [pc : {"idle", "answer", "stamp", "store"}, m : Meters]
    BY <1>0, <1>2 DEF Stamp
  <2> QED  BY <1>2, <2>1, <2>2, <2>3 DEF Stamp, TypeOK
<1>3. CASE Store
  <2>1. data' \in [Meters -> BOOLEAN]
    BY <1>0, <1>3 DEF Store, TypeOK
  <2>2. thread' \in [pc : {"idle", "answer", "stamp", "store"}, m : Meters]
    <3>1. 1 \in Meters
      BY MetersAssumption DEF Meters
    <3> QED  BY <1>0, <1>3, <3>1 DEF Store
  <2> QED  BY <1>3, <2>1, <2>2 DEF Store, TypeOK
<1> QED  BY <1>1, <1>2, <1>3 DEF Thread

\* main keeps the types.
LEMMA MainType ==
    ASSUME TypeOK, Main
    PROVE  TypeOK'
<1>0. main \in Mains /\ main.i \in Meters /\ main.now \in 0 .. MaxTime
      /\ (main.pc = "sleep" => ~main.late /\ main.i = 1)
  BY DEF TypeOK, Mains
<1>1. CASE Wake
  <2>1. [m \in Meters |-> Meant(m, interval[m])] \in [Meters -> 0 .. (Word - 1)]
    <3>1. \A m \in Meters : interval[m] \in 1 .. (Word - 1)
      BY DEF TypeOK
    <3> QED  BY <3>1, MeantType
  <2>2. main' \in Mains /\ main'.pc = "check"
    BY <1>0, <1>1, <2>1 DEF Wake, Mains, TypeOK
  <2> QED  BY <1>1, <2>2 DEF Wake, TypeOK, Mains
<1>2. CASE Check
  <2>1. main' = Advance(main) \/ main' = [main EXCEPT !.pc = "mark"]
    BY <1>2 DEF Check
  <2>2. main' \in Mains /\ (main'.pc = "sleep" => ~main'.late /\ main'.i = 1)
    <3>1. CASE main' = Advance(main)
      BY <1>0, <3>1, AdvanceType
    <3>2. CASE main' = [main EXCEPT !.pc = "mark"]
      BY <1>0, <3>2 DEF Mains
    <3> QED  BY <2>1, <3>1, <3>2
  <2> QED  BY <1>2, <2>2 DEF Check, TypeOK, Mains
<1>3. CASE Mark
  <2>1. main' \in Mains /\ main'.pc = "clear"
    BY <1>0, <1>3 DEF Mark, Mains
  <2>2. sample' \in [Meters -> 0 .. MaxTime]
    BY <1>0, <1>3 DEF Mark, TypeOK
  <2> QED  BY <1>3, <2>1, <2>2 DEF Mark, TypeOK, Mains
<1>4. CASE Clear
  <2>1. main' \in Mains /\ (main'.pc = "sleep" => ~main'.late /\ main'.i = 1)
    BY <1>0, <1>4, AdvanceType DEF Clear
  <2>2. data' \in [Meters -> BOOLEAN]
    BY <1>0, <1>4 DEF Clear, TypeOK
  <2> QED  BY <1>4, <2>1, <2>2 DEF Clear, TypeOK, Mains
<1> QED  BY <1>1, <1>2, <1>3, <1>4 DEF Main

-----------------------------------------------------------------------------
(***************************************************************************)
(* Timely.                                                                 *)
(***************************************************************************)
\* The world, time aside, either leaves a meter's times alone or makes it
\* one whose data are out of account.
LEMMA TimesKept ==
    ASSUME NEW m \in Meters, Timely(m),
           UNCHANGED <<sample, data, main, thread, quiet>>,
           steady'[m] => UNCHANGED <<clock, interval>> /\ steady[m]
    PROVE  Timely(m)'
<1> SUFFICES ASSUME Kind[m] # "flow", steady'[m]
             PROVE  Current(m)' /\ Sampled(m)' /\ Seen(m)'
  BY DEF Timely
<1>1. UNCHANGED <<clock, interval>> /\ Current(m) /\ Sampled(m) /\ Seen(m)
  BY DEF Timely
<1>2. Lag' = Lag /\ Limit(m)' = Limit(m)
  BY <1>1 DEF Lag, Limit
<1>3. Bound(m)' = Bound(m)
  BY <1>2 DEF Bound
<1>4. Current(m)'
  BY <1>1, <1>2 DEF Current
<1>5. Sampled(m)'
  BY <1>1 DEF Sampled, Reported
<1>6. Seen(m)'
  BY <1>1, <1>3 DEF Seen
<1> QED  BY <1>4, <1>5, <1>6

\* A second more of silence: in a pass it is the only one.
LEMMA TickTimely ==
    ASSUME TypeOK, NEW m \in Meters, Timely(m), Tick
    PROVE  Timely(m)'
<1> SUFFICES ASSUME Kind[m] # "flow", steady'[m]
             PROVE  Current(m)' /\ Sampled(m)' /\ Seen(m)'
  BY DEF Timely
<1>1. Current(m) /\ Sampled(m) /\ Seen(m)
  BY DEF Timely, Tick
<1>2. /\ clock' = clock + 1 /\ quiet'[m] = quiet[m] + 1 /\ thread.pc = "idle"
      /\ ~main.late /\ UNCHANGED <<interval, sample, data, thread, steady>>
  BY DEF Tick
<1>3. Limit(m)' = Limit(m) /\ Lag = 0
  BY <1>2 DEF Limit, Lag
<1>4. /\ clock \in Nat /\ quiet[m] \in Nat /\ sample[m] \in Nat /\ Limit(m) \in Nat
      /\ Period \in Nat /\ main.left \in Nat /\ main.now \in Nat
  BY Numbers
<1>5. main \in Mains
  BY DEF TypeOK, Mains
<1>6. CASE main.pc = "sleep"
  <2>1. main' = [main EXCEPT !.left = @ - 1]
    BY <1>6 DEF Tick
  <2>2. main'.pc = "sleep" /\ main'.left = main.left - 1
    BY <1>5, <1>6, <2>1 DEF Mains
  <2>3. Current(m)'
    BY <2>2 DEF Current
  <2>4. Sampled(m)'
    <3>1. data[m] => sample[m] + quiet[m] <= clock
      BY <1>1, <1>6 DEF Sampled
    <3>2. data'[m] => sample'[m] + quiet'[m] <= clock'
      BY <1>2, <1>4, <3>1
    <3> QED  BY <1>2, <3>2 DEF Sampled, Reported
  <2>5. Seen(m)'
    <3>1. data[m] => quiet[m] <= Limit(m) + 1 + Period - main.left
      BY <1>1, <1>6 DEF Seen, Bound
    <3>2. Bound(m)' = Limit(m) + 1 + Period - (main.left - 1)
      BY <1>3, <2>2 DEF Bound
    <3>3. data[m] => quiet[m] + 1 <= Limit(m) + 1 + Period - (main.left - 1)
      BY <1>4, <3>1
    <3> QED  BY <1>2, <3>2, <3>3 DEF Seen
  <2> QED  BY <2>3, <2>4, <2>5
<1>7. CASE main.pc # "sleep"
  <2>1. main' = [main EXCEPT !.late = TRUE]
    BY <1>7 DEF Tick
  <2>2. /\ main'.pc = main.pc /\ main'.late /\ main'.read = main.read
        /\ main'.now = main.now /\ main'.i = main.i
    BY <1>5, <2>1 DEF Mains
  <2>3. Lag' = 1
    BY <2>2 DEF Lag
  <2>4. Current(m)'
    <3>1. quiet[m] <= 0 \/ (main.read[m] = Meant(m, interval[m]) /\ clock = main.now + 0)
      BY <1>1, <1>3, <1>7 DEF Current
    <3>2. quiet'[m] <= 1
          \/ (main'.read[m] = Meant(m, interval'[m]) /\ clock' = main'.now + 1)
      BY <1>2, <1>4, <2>2, <3>1
    <3> QED  BY <2>3, <3>2 DEF Current
  <2>5. Sampled(m)'
    <3>1. data[m] => sample[m] + quiet[m] <= clock \/ (main.pc = "clear" /\ main.i = m)
      BY <1>1 DEF Sampled
    <3>2. data'[m] => sample'[m] + quiet'[m] <= clock' \/ (main'.pc = "clear" /\ main'.i = m)
      BY <1>2, <1>4, <2>2, <3>1
    <3> QED  BY <1>2, <3>2 DEF Sampled, Reported
  <2>6. Seen(m)'
    <3>1. data[m] => quiet[m] <= IF m < main.i THEN Limit(m) + 0 ELSE Limit(m) + 1 + Period + 0
      BY <1>1, <1>3, <1>7 DEF Seen, Bound
    <3>2. Bound(m)' = IF m < main.i THEN Limit(m) + 1 ELSE Limit(m) + 1 + Period + 1
      BY <1>3, <1>7, <2>2, <2>3 DEF Bound
    <3>3. data[m] => quiet[m] + 1 <= IF m < main.i THEN Limit(m) + 1
                                                   ELSE Limit(m) + 1 + Period + 1
      BY <1>4, <3>1
    <3> QED  BY <1>2, <3>2, <3>3 DEF Seen
  <2> QED  BY <2>4, <2>5, <2>6
<1> QED  BY <1>6, <1>7

\* The world.
LEMMA WorldTimely ==
    ASSUME TypeOK, NEW m \in Meters, Timely(m), World
    PROVE  Timely(m)'
<1>1. CASE Tick
  BY <1>1, TickTimely
<1>2. ASSUME NEW d \in Jumps, SetClock(d)
      PROVE  Timely(m)'
  <2>1. ~steady'[m]
    BY <1>2 DEF SetClock
  <2> QED  BY <2>1 DEF Timely
<1>3. ASSUME NEW n \in Meters, NEW v \in Registers[n], WriteInterval(n, v)
      PROVE  Timely(m)'
  <2>1. CASE n = m
    <3>1. ~steady'[m]
      BY <1>3, <2>1 DEF WriteInterval, TypeOK
    <3> QED  BY <3>1 DEF Timely
  <2>2. CASE n # m
    <3>1. steady'[m] = steady[m] /\ interval'[m] = interval[m]
      BY <1>3, <2>2 DEF WriteInterval, TypeOK
    <3>2. UNCHANGED <<clock, sample, data, main, thread, quiet>>
      BY <1>3 DEF WriteInterval
    <3>3. Lag' = Lag /\ Limit(m)' = Limit(m) /\ Bound(m)' = Bound(m)
      BY <3>1, <3>2 DEF Lag, Limit, Bound
    <3>4. /\ Current(m) => Current(m)'
          /\ Sampled(m) => Sampled(m)'
          /\ Seen(m) => Seen(m)'
      BY <3>1, <3>2, <3>3 DEF Current, Sampled, Seen, Reported
    <3> QED  BY <3>1, <3>4 DEF Timely
  <2> QED  BY <2>1, <2>2
<1>4. ASSUME NEW n \in Meters, FallSilent(n) \/ ComeBack(n)
      PROVE  Timely(m)'
  BY <1>4, TimesKept DEF FallSilent, ComeBack
<1>5. ASSUME NEW n \in Meters, Packet(n)
      PROVE  Timely(m)'
  <2>1. /\ ~Reported(m)'
        /\ UNCHANGED <<clock, interval, sample, data, main, quiet, steady>>
    BY <1>5 DEF Packet, Reported
  <2>2. Lag' = Lag /\ Limit(m)' = Limit(m) /\ Bound(m)' = Bound(m)
    BY <2>1 DEF Lag, Limit, Bound
  <2>3. /\ Current(m) => Current(m)'
        /\ Sampled(m) => Sampled(m)'
        /\ Seen(m) => Seen(m)'
    BY <2>1, <2>2 DEF Current, Sampled, Seen
  <2> QED  BY <2>1, <2>3 DEF Timely
<1> QED  BY <1>1, <1>2, <1>3, <1>4, <1>5 DEF World

\* The ZigBee thread: a stamp makes the meter's silence begin anew.
LEMMA ThreadTimely ==
    ASSUME TypeOK, NEW m \in Meters, Timely(m), Thread
    PROVE  Timely(m)'
<1> SUFFICES ASSUME Kind[m] # "flow", steady'[m]
             PROVE  Current(m)' /\ Sampled(m)' /\ Seen(m)'
  BY DEF Timely
<1>0. /\ clock \in Nat /\ quiet[m] \in Nat /\ sample[m] \in Nat /\ Limit(m) \in Nat
      /\ Period \in Nat /\ main.left \in Nat /\ main.left <= Period /\ Lag \in {0, 1}
  BY Numbers
<1>1. Bound(m) \in Nat /\ Bound(m) >= 0
  <2>1. Limit(m) + 1 + Period - main.left \in Nat /\ Limit(m) + Lag \in Nat
        /\ Limit(m) + 1 + Period + Lag \in Nat
    BY <1>0
  <2> QED  BY <2>1 DEF Bound
<1>2. ASSUME NEW heard \in BOOLEAN, Answer(heard)
      PROVE  Current(m)' /\ Sampled(m)' /\ Seen(m)'
  <2>1. /\ ~Reported(m)'
        /\ UNCHANGED <<clock, interval, sample, data, main, quiet, steady>>
    BY <1>2 DEF Answer, Reported, TypeOK
  <2>2. Lag' = Lag /\ Limit(m)' = Limit(m) /\ Bound(m)' = Bound(m)
    BY <2>1 DEF Lag, Limit, Bound
  <2>3. Current(m) /\ Sampled(m) /\ Seen(m)
    BY <2>1 DEF Timely
  <2> QED  BY <2>1, <2>2, <2>3 DEF Current, Sampled, Seen
<1>3. CASE Stamp
  <2>1. UNCHANGED <<clock, interval, data, main>>
    BY <1>3 DEF Stamp
  <2>2. Lag' = Lag /\ Limit(m)' = Limit(m) /\ Bound(m)' = Bound(m)
    BY <2>1 DEF Lag, Limit, Bound
  <2>3. CASE thread.m = m
    <3>1. quiet'[m] = 0 /\ sample'[m] = clock /\ (steady'[m] <=> main.now <= clock)
      BY <1>3, <2>3 DEF Stamp, TypeOK
    <3>2. sample'[m] + quiet'[m] <= clock /\ sample'[m] <= clock /\ quiet'[m] <= Lag
          /\ quiet'[m] <= Bound(m)
      BY <1>0, <1>1, <3>1
    <3> QED  BY <2>1, <2>2, <3>1, <3>2 DEF Current, Sampled, Seen
  <2>4. CASE thread.m # m
    <3>1. quiet'[m] = quiet[m] /\ sample'[m] = sample[m] /\ steady'[m] = steady[m]
      BY <1>3, <2>4 DEF Stamp, TypeOK
    <3>2. ~Reported(m)'
      BY <1>3, <2>4 DEF Stamp, Reported, TypeOK
    <3>3. Current(m) /\ Sampled(m) /\ Seen(m)
      BY <3>1 DEF Timely
    <3> QED  BY <2>1, <2>2, <3>1, <3>2, <3>3 DEF Current, Sampled, Seen
  <2> QED  BY <2>3, <2>4
<1>4. CASE Store
  <2>1. /\ ~Reported(m)' /\ thread.pc = "store"
        /\ UNCHANGED <<clock, interval, sample, main, quiet, steady>>
    BY <1>4 DEF Store, Reported, TypeOK
  <2>2. Lag' = Lag /\ Limit(m)' = Limit(m) /\ Bound(m)' = Bound(m)
    BY <2>1 DEF Lag, Limit, Bound
  <2>3. Current(m) /\ Sampled(m) /\ Seen(m)
    BY <2>1 DEF Timely
  <2>4. CASE thread.m = m
    <3>1. quiet[m] = 0 /\ sample[m] <= clock
      BY <2>1, <2>3, <2>4 DEF Sampled, Reported
    <3>2. sample'[m] + quiet'[m] <= clock' /\ quiet'[m] <= Bound(m)
      BY <1>0, <1>1, <2>1, <3>1
    <3> QED  BY <2>1, <2>2, <2>3, <3>2 DEF Current, Sampled, Seen
  <2>5. CASE thread.m # m
    <3>1. data'[m] = data[m]
      BY <1>4, <2>5 DEF Store, TypeOK
    <3> QED  BY <2>1, <2>2, <2>3, <3>1 DEF Current, Sampled, Seen
  <2> QED  BY <2>4, <2>5
<1> QED  BY <1>2, <1>3, <1>4 DEF Thread

\* The loop goes on past a meter whose data are no older than the limit, or
\* have been cleared.
LEMMA AdvanceTimely ==
    ASSUME TypeOK, NEW m \in Meters, main.pc # "sleep", main' = Advance(main),
           UNCHANGED <<clock, interval, sample, thread, quiet, steady>>,
           Current(m), Sampled(m), Seen(m),
           data'[m] => data[m],
           main.i = m /\ data'[m] => quiet[m] <= Limit(m) + Lag
                                     /\ sample[m] + quiet[m] <= clock
    PROVE  Current(m)' /\ Sampled(m)' /\ Seen(m)'
<1>0. /\ clock \in Nat /\ quiet[m] \in Nat /\ sample[m] \in Nat /\ Limit(m) \in Nat
      /\ Period \in Nat /\ main.left \in Nat /\ Lag \in {0, 1} /\ N \in Nat /\ m \in Nat
      /\ main.i \in Nat
  BY Numbers
<1>1. Limit(m)' = Limit(m) /\ main \in Mains /\ m <= N
  BY DEF Limit, TypeOK, Mains, Meters
<1>2. data'[m] => sample[m] + quiet[m] <= clock
  BY DEF Sampled
<1>3. CASE main.i < N
  <2>1. main' = [main EXCEPT !.pc = "check", !.i = @ + 1]
    BY <1>3 DEF Advance
  <2>2. /\ main'.pc = "check" /\ main'.i = main.i + 1 /\ main'.late = main.late
        /\ main'.read = main.read /\ main'.now = main.now
    BY <1>1, <2>1 DEF Mains
  <2>3. Lag' = Lag
    BY <2>2 DEF Lag
  <2>4. Current(m)'
    BY <2>2, <2>3 DEF Current
  <2>5. Sampled(m)'
    BY <1>2, <2>2 DEF Sampled, Reported
  <2>6. Seen(m)'
    <3>1. Bound(m)' = IF m < main.i + 1 THEN Limit(m) + Lag ELSE Limit(m) + 1 + Period + Lag
      BY <1>1, <2>2, <2>3 DEF Bound
    <3>2. data[m] => quiet[m] <= IF m < main.i THEN Limit(m) + Lag
                                               ELSE Limit(m) + 1 + Period + Lag
      BY DEF Seen, Bound
    <3>3. data'[m] => quiet[m] <= IF m < main.i + 1 THEN Limit(m) + Lag
                                                    ELSE Limit(m) + 1 + Period + Lag
      BY <1>0, <3>2
    <3> QED  BY <3>1, <3>3 DEF Seen
  <2> QED  BY <2>4, <2>5, <2>6
<1>4. CASE ~(main.i < N)
  <2>1. main'.pc = "sleep" /\ main'.left = Period /\ main'.now = 0
    BY <1>1, <1>4 DEF Advance, Mains
  <2>2. Current(m)'
    BY <2>1 DEF Current
  <2>3. Sampled(m)'
    BY <1>0, <1>2, <2>1 DEF Sampled, Reported
  <2>4. Seen(m)'
    <3>1. Bound(m)' = Limit(m) + 1 + Period - Period
      BY <1>1, <2>1 DEF Bound
    <3>2. data[m] => quiet[m] <= IF m < main.i THEN Limit(m) + Lag
                                               ELSE Limit(m) + 1 + Period + Lag
      BY DEF Seen, Bound
    <3>3. data'[m] => quiet[m] <= Limit(m) + Lag
      BY <1>0, <1>1, <1>4, <3>2
    <3>4. data'[m] => quiet[m] <= Limit(m) + 1 + Period - Period
      BY <1>0, <3>3
    <3> QED  BY <3>1, <3>4 DEF Seen
  <2> QED  BY <2>2, <2>3, <2>4
<1> QED  BY <1>3, <1>4

\* main.
LEMMA MainTimely ==
    ASSUME TypeOK, NEW m \in Meters, Timely(m), Main
    PROVE  Timely(m)'
<1> SUFFICES ASSUME Kind[m] # "flow", steady'[m]
             PROVE  Current(m)' /\ Sampled(m)' /\ Seen(m)'
  BY DEF Timely
<1>0. /\ clock \in Nat /\ quiet[m] \in Nat /\ sample[m] \in Nat /\ Limit(m) \in Nat
      /\ Period \in Nat /\ main.left \in Nat /\ Lag \in {0, 1} /\ main.now \in Nat
      /\ Meant(m, interval[m]) * Cnt \in Int
      /\ Meant(m, interval[m]) * Cnt <= Limit(m)
      /\ m \in Nat /\ main.i \in Nat
  BY Numbers
<1>1. main \in Mains
  BY DEF TypeOK, Mains
<1>2. Current(m) /\ Sampled(m) /\ Seen(m)
  BY DEF Timely, Main, Wake, Check, Mark, Clear
<1>3. CASE Wake
  <2>1. /\ main.left = 0 /\ main.pc = "sleep" /\ main'.pc = "check" /\ main'.now = clock
        /\ main'.read[m] = Meant(m, interval[m]) /\ main'.late = main.late
        /\ main'.i = main.i
        /\ UNCHANGED <<clock, interval, sample, data, thread, quiet>>
    BY <1>1, <1>3 DEF Wake, Mains
  <2>2. Lag = 0 /\ Lag' = 0 /\ Limit(m)' = Limit(m) /\ ~(m < main.i)
    <3>1. ~main.late /\ main.i = 1
      BY <2>1 DEF TypeOK
    <3>2. m >= 1
      BY MetersAssumption DEF Meters
    <3> QED  BY <1>0, <2>1, <3>1, <3>2 DEF Lag, Limit
  <2>3. Current(m)'
    <3>1. clock' = main'.now + 0
      BY <1>0, <2>1
    <3> QED  BY <2>1, <2>2, <3>1 DEF Current
  <2>4. Sampled(m)'
    <3>1. main'.now <= clock'
      BY <1>0, <2>1
    <3>2. data[m] => sample[m] + quiet[m] <= clock
      BY <1>2, <2>1 DEF Sampled
    <3>3. Reported(m)' => Reported(m)
      BY <2>1 DEF Reported
    <3> QED  BY <1>2, <2>1, <3>1, <3>2, <3>3 DEF Sampled
  <2>5. Seen(m)'
    <3>1. data[m] => quiet[m] <= Limit(m) + 1 + Period - 0
      BY <1>2, <2>1 DEF Seen, Bound
    <3>2. Bound(m)' = Limit(m) + 1 + Period + 0
      BY <2>1, <2>2 DEF Bound
    <3> QED  BY <1>0, <2>1, <3>1, <3>2 DEF Seen
  <2> QED  BY <2>3, <2>4, <2>5
<1>4. CASE Check
  <2>0. main.pc = "check" /\ main.pc # "sleep"
        /\ UNCHANGED <<clock, interval, sample, data, thread, quiet, steady>>
    BY <1>4 DEF Check
  <2>1. CASE main' = [main EXCEPT !.pc = "mark"]
    <3>1. /\ main'.pc = "mark" /\ main'.i = main.i /\ main'.late = main.late
          /\ main'.now = main.now /\ main'.read = main.read
      BY <1>1, <2>1 DEF Mains
    <3>2. Lag' = Lag /\ Limit(m)' = Limit(m) /\ Bound(m)' = Bound(m)
      BY <2>0, <3>1 DEF Lag, Limit, Bound
    <3> QED  BY <1>2, <2>0, <3>1, <3>2 DEF Current, Sampled, Seen, Reported
  <2>2. CASE /\ ~(main.now > main.read[main.i] * Cnt + sample[main.i])
             /\ main' = Advance(main)
    <3>1. ASSUME main.i = m, data'[m]
          PROVE  quiet[m] <= Limit(m) + Lag /\ sample[m] + quiet[m] <= clock
      <4>1. sample[m] + quiet[m] <= clock
        BY <1>2, <2>0, <3>1 DEF Sampled
      <4>2. CASE quiet[m] <= Lag
        BY <1>0, <4>1, <4>2
      <4>3. CASE main.read[m] = Meant(m, interval[m]) /\ clock = main.now + Lag
        <5>1. ~(main.now > Meant(m, interval[m]) * Cnt + sample[m])
          BY <2>2, <3>1, <4>3
        <5> QED  BY <1>0, <4>1, <4>3, <5>1
      <4> QED  BY <1>2, <2>0, <4>2, <4>3 DEF Current
    <3> QED  BY <1>2, <2>0, <2>2, <3>1, AdvanceTimely
  <2> QED  BY <1>4, <2>1, <2>2 DEF Check
<1>5. CASE Mark
  <2>1. /\ main.pc = "mark" /\ main'.pc = "clear" /\ main'.i = main.i
        /\ main'.late = main.late /\ main'.now = main.now /\ main'.read = main.read
        /\ UNCHANGED <<clock, interval, data, thread, quiet>>
        /\ sample'[m] = IF main.i = m THEN main.now ELSE sample[m]
    BY <1>1, <1>5 DEF Mark, Mains, TypeOK
  <2>2. Lag' = Lag /\ Limit(m)' = Limit(m) /\ Bound(m)' = Bound(m)
    BY <2>1 DEF Lag, Limit, Bound
  <2>3. Current(m)' /\ Seen(m)'
    BY <1>2, <2>1, <2>2 DEF Current, Seen
  <2>4. Sampled(m)'
    BY <1>2, <2>1 DEF Sampled, Reported
  <2> QED  BY <2>3, <2>4
<1>6. CASE Clear
  <2>1. /\ main.pc = "clear" /\ main' = Advance(main) /\ main.pc # "sleep"
        /\ UNCHANGED <<clock, interval, sample, thread, quiet, steady>>
        /\ data'[m] = IF main.i = m THEN FALSE ELSE data[m]
    BY <1>6 DEF Clear, TypeOK
  <2> QED  BY <1>2, <2>1, AdvanceTimely
<1> QED  BY <1>3, <1>4, <1>5, <1>6 DEF Main

-----------------------------------------------------------------------------
\* No meter has been stamped.
LEMMA InitInv == Init => Inv
  BY InitType DEF Inv, Init, Timely

\* A step keeps what is known of each meter.
LEMMA StepInv ==
    ASSUME Inv, [Next]_vars
    PROVE  Inv'
<1>1. TypeOK /\ \A m \in Meters : Timely(m)
  BY DEF Inv
<1>2. CASE Thread
  BY <1>1, <1>2, ThreadType, ThreadTimely DEF Inv
<1>3. CASE Main
  BY <1>1, <1>3, MainType, MainTimely DEF Inv
<1>4. CASE World
  BY <1>1, <1>4, WorldType, WorldTimely DEF Inv
<1>5. CASE UNCHANGED vars
  <2>1. TypeOK'
    BY <1>1, <1>5 DEF TypeOK, vars
  <2>2. ASSUME NEW m \in Meters
        PROVE  Timely(m)'
    BY <1>1, <1>5, TimesKept DEF vars
  <2> QED  BY <2>1, <2>2 DEF Inv
<1> QED  BY <1>2, <1>3, <1>4, <1>5 DEF Next

LEMMA Invariance == Spec => []Inv
<1>1. Init => Inv
  BY InitInv
<1>2. Inv /\ [Next]_vars => Inv'
  BY StepInv
<1> QED  BY <1>1, <1>2, PTL DEF Spec

(***************************************************************************)
(* Type correctness of the wireless meters: no pass of main begins with a  *)
(* meter in hand, and the thread serves a meter of the table.              *)
(***************************************************************************)
THEOREM Types == Spec => []TypeOK
<1>1. Inv => TypeOK
  BY DEF Inv
<1> QED  BY <1>1, Invariance, PTL

(***************************************************************************)
(* Whatever the meters send and main finds in between, the data of a meter *)
(* that has gone silent are gone after ten of its intervals and one pass,  *)
(* unless the clock or its interval was set.                               *)
(***************************************************************************)
THEOREM SilentCleared == Spec => []ClearedInTime
<1>1. Inv => ClearedInTime
  <2> SUFFICES ASSUME Inv, NEW m \in Meters, Kind[m] # "flow", data[m], steady[m]
               PROVE  quiet[m] <= Limit(m) + Period + 2
    BY DEF ClearedInTime
  <2>1. quiet[m] <= Bound(m)
    BY DEF Inv, Timely, Seen
  <2>2. /\ quiet[m] \in Nat /\ Limit(m) \in Nat /\ Period \in Nat /\ main.left \in Nat
        /\ Lag \in {0, 1}
    BY Numbers DEF Inv
  <2> QED  BY <2>1, <2>2 DEF Bound
<1> QED  BY <1>1, Invariance, PTL

-----------------------------------------------------------------------------
(***************************************************************************)
(* The data of a meter that does as it is told.  Since its first packet in *)
(* step,                                                                   *)
(*   - it is up and sleeps as its interval says, and its silence and what  *)
(*     is left of its sleep add up to that;                                *)
(*   - a pass of main that is under way has read its interval and the      *)
(*     clock as they are, or it has sent its first packet during the pass; *)
(*   - its sample time, from the second packet on, is no more than a       *)
(*     second before its stamp;                                            *)
(*   - main finds it silent only before its second packet: what is left of *)
(*     that when the packet comes is over before the next one.             *)
(***************************************************************************)
With(m, place) == thread.m = m /\ thread.pc = place

Awake(m) ==
    /\ With(m, "answer") => meter[m].up /\ meter[m].left <= 0
    /\ With(m, "stamp") => meter[m].up /\ meter[m].left = meter[m].told

Obeys(m) ==
    row[m] >= 1 => meter[m].up /\ meter[m].told = Told(m, interval[m])

Fit(m) ==
    /\ Kind[m] # "flow" /\ Told(m, interval[m]) > 1
    /\ Kind[m] = "load" => interval[m] * Minute < Word

InStep(m) ==
    IF With(m, "stamp")
    THEN quiet[m] >= meter[m].told /\ quiet[m] <= meter[m].told + Grace
    ELSE quiet[m] + meter[m].left = meter[m].told

Fresh(m) ==
    main.pc # "sleep" =>
        \/ row[m] = 1 /\ quiet[m] <= Lag
        \/ main.read[m] = Meant(m, interval[m]) /\ clock = main.now + Lag

Stamped(m) == row[m] >= 2 => sample[m] + quiet[m] + 1 >= clock

Spared(m) ==
    main.pc \in {"mark", "clear"} /\ main.i = m =>
        \/ row[m] = 1
        \/ row[m] = 2 /\ quiet[m] <= Lag /\ ~With(m, "answer") /\ ~With(m, "stamp")

Regular(m) == InStep(m) /\ Fresh(m) /\ Stamped(m) /\ Spared(m)

Lively(m) ==
    /\ Awake(m) /\ Obeys(m)
    /\ Fit(m) /\ row[m] >= 1 => Regular(m)

\* The numbers of a meter's sleep.
LEMMA SleepNumbers ==
    ASSUME TypeOK, NEW m \in Meters
    PROVE  /\ row[m] \in 0 .. 3 /\ Grace \in Nat
           /\ meter[m].told \in Nat /\ meter[m].left \in Int
           /\ -Grace <= meter[m].left /\ meter[m].left <= meter[m].told
           /\ Told(m, interval[m]) \in Nat
<1>1. row[m] \in 0 .. 3 /\ Grace \in Nat
  BY MetersAssumption DEF TypeOK
<1>2. meter[m].told \in Sleeps /\ meter[m].left \in Int
      /\ meter[m].left \in (-Grace) .. meter[m].told
  BY DEF TypeOK
<1>3. Told(m, interval[m]) \in Sleeps
  <2>1. interval[m] \in 1 .. (Word - 1)
    BY DEF TypeOK
  <2> QED  BY <2>1, SleepType
<1>4. meter[m].told \in Nat /\ Told(m, interval[m]) \in Nat
  BY <1>2, <1>3, SleepsNat
<1> QED  BY <1>1, <1>2, <1>4

\* Ten intervals as main reads them are longer than the sleep, the delay of
\* the packet and a second.
LEMMA Limits ==
    ASSUME TypeOK, NEW m \in Meters, Fit(m)
    PROVE  Told(m, interval[m]) + Grace + 1 <= Meant(m, interval[m]) * Cnt
<1> DEFINE v == interval[m]
           told == Told(m, v)
           meant == Meant(m, v)
<1>0. /\ Word \in Nat /\ Minute \in Nat \ {0} /\ Minutes \in Nat /\ MaxMinutes \in Nat
      /\ MaxSleep \in Nat /\ Minutes <= MaxMinutes /\ Cnt \in Nat \ {0} /\ Grace \in Nat
  BY MetersAssumption
<1>1. v \in Nat /\ told \in Nat /\ told >= 2
  <2>1. v \in 1 .. (Word - 1)
    BY DEF TypeOK
  <2>2. told \in Nat
    BY SleepNumbers
  <2>3. told > 1
    BY DEF Fit
  <2> QED  BY <1>0, <2>1, <2>2, <2>3
<1>2. meant \in Nat /\ told <= meant
  <2>1. CASE Kind[m] = "load"
    <3> DEFINE w == IF v > MaxMinutes THEN Minutes ELSE v
    <3>1. w \in Nat /\ w <= v
      BY <1>0, <1>1
    <3>2. told = Minute * w
      BY <2>1 DEF Told
    <3>3. v * Minute \in Nat /\ v * Minute < Word
      <4>1. v * Minute \in Nat
        BY <1>0, <1>1, Product
      <4> QED  BY <2>1, <4>1 DEF Fit
    <3>4. meant = v * Minute
      <4>1. meant = (v * Minute) % Word
        BY <2>1 DEF Meant
      <4>2. \A a, b \in Nat : a < b => a % b = a
        OBVIOUS
      <4> HIDE DEF v
      <4> QED  BY <1>0, <3>3, <4>1, <4>2
    <3>5. w * Minute <= v * Minute /\ w * Minute = Minute * w
      <4> HIDE DEF w, v
      <4> QED  BY <1>0, <1>1, <3>1, Product
    <3> QED  BY <3>2, <3>3, <3>4, <3>5
  <2>2. CASE Kind[m] # "load"
    BY <1>0, <1>1, <2>2 DEF Told, Meant
  <2> QED  BY <2>1, <2>2
<1>3. Grace + 1 <= 2 * (Cnt - 1)
  <2>1. Grace < 2 * (Cnt - 1)
    BY PunctualAssumption
  <2> QED  BY <1>0, <2>1
<1>4. 2 * (Cnt - 1) <= meant * (Cnt - 1) /\ meant * (Cnt - 1) + meant = meant * Cnt
      /\ meant * (Cnt - 1) \in Nat
  <2>1. Cnt - 1 \in Nat /\ meant >= 2
    BY <1>0, <1>1, <1>2
  <2>2. 2 * (Cnt - 1) <= meant * (Cnt - 1) /\ meant * (Cnt - 1) \in Nat
    <3> HIDE DEF meant
    <3> QED  BY <1>2, <2>1, Product
  <2>3. \A a, b \in Nat : a * (b - 1) + a = a * b
    OBVIOUS
  <2> HIDE DEF meant
  <2> QED  BY <1>0, <1>2, <2>2, <2>3
<1> HIDE DEF told, meant
<1>5. told + Grace + 1 <= meant * Cnt
  BY <1>0, <1>1, <1>2, <1>3, <1>4
<1> QED  BY <1>5 DEF told, meant

\* What a step does not concern.
LEMMA LivelyKept ==
    ASSUME NEW m \in Meters, Lively(m),
           main' = main, meter'[m] = meter[m],
           With(m, "answer")' = With(m, "answer"), With(m, "stamp")' = With(m, "stamp"),
           \/ row'[m] = 0
           \/ /\ row'[m] = row[m] /\ clock' = clock /\ interval'[m] = interval[m]
              /\ sample'[m] = sample[m] /\ quiet'[m] = quiet[m]
    PROVE  Lively(m)'
<1>1. Awake(m)' /\ Lag' = Lag
  BY DEF Lively, Awake, Lag
<1>2. CASE row'[m] = 0
  BY <1>1, <1>2 DEF Lively, Obeys
<1>3. CASE /\ row'[m] = row[m] /\ clock' = clock /\ interval'[m] = interval[m]
           /\ sample'[m] = sample[m] /\ quiet'[m] = quiet[m]
  <2>1. Told(m, interval[m])' = Told(m, interval[m])
        /\ Meant(m, interval[m])' = Meant(m, interval[m])
    BY <1>3 DEF Told, Meant
  <2>2. Obeys(m)' = Obeys(m) /\ (Fit(m)' <=> Fit(m))
    BY <1>3, <2>1 DEF Obeys, Fit
  <2>3. /\ InStep(m) => InStep(m)'
        /\ Fresh(m) => Fresh(m)'
        /\ Stamped(m) => Stamped(m)'
        /\ Spared(m) => Spared(m)'
    BY <1>1, <1>3, <2>1 DEF InStep, Fresh, Stamped, Spared
  <2> QED  BY <1>1, <1>3, <2>2, <2>3 DEF Lively, Regular
<1> QED  BY <1>2, <1>3

\* A second more of silence is one less of sleep; in a pass it is the only one.
LEMMA TickLively ==
    ASSUME TypeOK, NEW m \in Meters, Lively(m), Tick
    PROVE  Lively(m)'
<1>0. /\ clock \in Nat /\ quiet[m] \in Nat /\ sample[m] \in Nat /\ main.now \in Nat
      /\ meter[m].told \in Nat /\ meter[m].left \in Int /\ row[m] \in 0 .. 3
  BY Numbers, SleepNumbers
<1>1. /\ clock' = clock + 1 /\ quiet'[m] = quiet[m] + 1 /\ thread.pc = "idle"
      /\ ~main.late /\ UNCHANGED <<interval, sample, thread, row>>
  BY DEF Tick
<1>2. meter'[m] = [meter[m] EXCEPT !.left = IF meter[m].up \/ @ > 0 THEN @ - 1 ELSE @]
  BY DEF Tick
<1>3. /\ meter'[m].up = meter[m].up /\ meter'[m].told = meter[m].told
      /\ meter[m].up => meter'[m].left = meter[m].left - 1
  BY <1>2 DEF TypeOK
<1>4. ~With(m, "answer") /\ ~With(m, "stamp") /\ ~With(m, "answer")' /\ ~With(m, "stamp")'
  BY <1>1 DEF With
<1>5. /\ main'.pc = main.pc /\ main'.now = main.now /\ main'.read = main.read
      /\ main'.i = main.i
      /\ main.pc # "sleep" => main'.late
  BY DEF Tick, TypeOK
<1>6. Lag = 0 /\ (main.pc # "sleep" => Lag' = 1)
  BY <1>1, <1>5 DEF Lag
<1>7. Awake(m)' /\ Obeys(m)'
  BY <1>1, <1>3, <1>4 DEF Awake, Lively, Obeys, Told
<1>8. ASSUME Fit(m)', row'[m] >= 1
      PROVE  Regular(m)'
  <2>1. /\ meter[m].up /\ InStep(m) /\ Fresh(m) /\ Stamped(m) /\ Spared(m)
    BY <1>1, <1>8 DEF Lively, Fit, Regular, Obeys, Told
  <2>2. InStep(m)'
    <3>1. quiet[m] + meter[m].left = meter[m].told
      BY <1>4, <2>1 DEF InStep
    <3>2. quiet'[m] + meter'[m].left = meter'[m].told
      BY <1>0, <1>1, <1>3, <2>1, <3>1
    <3> QED  BY <1>4, <3>2 DEF InStep
  <2>3. Fresh(m)'
    <3> SUFFICES ASSUME main.pc # "sleep"
                 PROVE  \/ row[m] = 1 /\ quiet[m] + 1 <= 1
                        \/ main.read[m] = Meant(m, interval[m]) /\ clock + 1 = main.now + 1
      BY <1>1, <1>5, <1>6 DEF Fresh, Meant
    <3>1. \/ row[m] = 1 /\ quiet[m] <= 0
          \/ main.read[m] = Meant(m, interval[m]) /\ clock = main.now + 0
      BY <1>6, <2>1 DEF Fresh
    <3> QED  BY <1>0, <3>1
  <2>4. Stamped(m)'
    <3>1. row[m] >= 2 => sample[m] + (quiet[m] + 1) + 1 >= clock + 1
      BY <1>0, <2>1 DEF Stamped
    <3> QED  BY <1>1, <3>1 DEF Stamped
  <2>5. Spared(m)'
    <3>1. main.pc \in {"mark", "clear"} /\ main.i = m =>
             row[m] = 1 \/ (row[m] = 2 /\ quiet[m] + 1 <= 1)
      BY <1>0, <1>6, <2>1 DEF Spared
    <3> QED  BY <1>1, <1>4, <1>5, <1>6, <3>1 DEF Spared
  <2> QED  BY <2>2, <2>3, <2>4, <2>5 DEF Regular
<1> QED  BY <1>7, <1>8 DEF Lively

\* A meter that is to send its packet has slept more than a second, and no
\* longer than it was told and may be late.
LEMMA Rested ==
    ASSUME TypeOK, NEW m \in Meters, Lively(m), Fit(m), row[m] >= 1
    PROVE  /\ quiet[m] <= meter[m].told + Grace
           /\ With(m, "stamp") \/ meter[m].left <= 0 => quiet[m] >= 2 /\ quiet[m] > Lag
<1>1. /\ meter[m].told = Told(m, interval[m]) /\ InStep(m) /\ Told(m, interval[m]) > 1
  BY DEF Lively, Obeys, Regular, Fit
<1>2. /\ quiet[m] \in Nat /\ meter[m].told \in Nat /\ meter[m].left \in Int
      /\ Grace \in Nat /\ -Grace <= meter[m].left /\ Lag \in {0, 1}
  BY Numbers, SleepNumbers
<1>3. CASE With(m, "stamp")
  BY <1>1, <1>2, <1>3 DEF InStep
<1>4. CASE ~With(m, "stamp")
  <2>1. quiet[m] + meter[m].left = meter[m].told
    BY <1>1, <1>4 DEF InStep
  <2> QED  BY <1>1, <1>2, <1>4, <2>1
<1> QED  BY <1>3, <1>4

\* The world.
LEMMA WorldLively ==
    ASSUME TypeOK, NEW m \in Meters, Lively(m), World
    PROVE  Lively(m)'
<1>1. CASE Tick
  BY <1>1, TickLively
<1>2. ASSUME NEW d \in Jumps, SetClock(d)
      PROVE  Lively(m)'
  <2>1. row'[m] = 0 /\ UNCHANGED <<main, meter, thread>>
    BY <1>2 DEF SetClock
  <2> QED  BY <2>1, LivelyKept DEF With
<1>3. ASSUME NEW n \in Meters, NEW v \in Registers[n], WriteInterval(n, v)
      PROVE  Lively(m)'
  <2>1. UNCHANGED <<clock, sample, main, meter, thread, quiet>>
    BY <1>3 DEF WriteInterval
  <2>2. row'[m] = 0 \/ (row'[m] = row[m] /\ interval'[m] = interval[m])
    BY <1>3 DEF WriteInterval, TypeOK
  <2> QED  BY <2>1, <2>2, LivelyKept DEF With
<1>4. ASSUME NEW n \in Meters, FallSilent(n)
      PROVE  Lively(m)'
  <2>1. UNCHANGED <<clock, interval, sample, main, thread, quiet>>
    BY <1>4 DEF FallSilent
  <2>2. CASE n = m
    <3>1. row'[m] = 0 /\ ~With(m, "answer")' /\ ~With(m, "stamp")'
      BY <1>4, <2>1, <2>2 DEF FallSilent, TypeOK, With
    <3> QED  BY <3>1 DEF Lively, Awake, Obeys
  <2>3. CASE n # m
    <3>1. meter'[m] = meter[m] /\ row'[m] = row[m]
      BY <1>4, <2>3 DEF FallSilent, TypeOK
    <3> QED  BY <2>1, <3>1, LivelyKept DEF With
  <2> QED  BY <2>2, <2>3
<1>5. ASSUME NEW n \in Meters, ComeBack(n)
      PROVE  Lively(m)'
  <2>1. UNCHANGED <<clock, interval, sample, main, thread, quiet, row>>
    BY <1>5 DEF ComeBack
  <2>2. CASE n = m
    <3>1. ~meter[m].up
      BY <1>5, <2>2 DEF ComeBack
    <3>2. ~With(m, "answer") /\ ~With(m, "stamp") /\ ~(row[m] >= 1)
      BY <3>1 DEF Lively, Awake, Obeys
    <3>3. ~With(m, "answer")' /\ ~With(m, "stamp")' /\ ~(row'[m] >= 1)
      BY <2>1, <3>2 DEF With
    <3> QED  BY <3>3 DEF Lively, Awake, Obeys
  <2>3. CASE n # m
    <3>1. meter'[m] = meter[m]
      BY <1>5, <2>3 DEF ComeBack, TypeOK
    <3> QED  BY <2>1, <3>1, LivelyKept DEF With
  <2> QED  BY <2>2, <2>3
<1>6. ASSUME NEW n \in Meters, Packet(n)
      PROVE  Lively(m)'
  <2>1. /\ UNCHANGED <<clock, interval, sample, main, meter, quiet, row>>
        /\ thread.pc = "idle" /\ thread' = [pc |-> "answer", m |-> n]
        /\ meter[n].up /\ meter[n].left <= 0
    BY <1>6 DEF Packet
  <2>2. /\ ~With(m, "answer") /\ ~With(m, "stamp") /\ ~With(m, "stamp")'
        /\ With(m, "answer")' <=> n = m
    BY <2>1 DEF With
  <2>3. CASE n = m
    <3>1. Awake(m)' /\ Obeys(m)' /\ Lag' = Lag
      BY <2>1, <2>2, <2>3 DEF Lively, Awake, Obeys, Told, Lag
    <3>2. ASSUME Fit(m)', row'[m] >= 1
          PROVE  Regular(m)'
      <4>1. Fit(m) /\ row[m] >= 1
        BY <2>1, <3>2 DEF Fit, Told
      <4>2. InStep(m) /\ Fresh(m) /\ Stamped(m) /\ Spared(m)
        BY <4>1 DEF Lively, Regular
      <4>3. quiet[m] > Lag
        BY <2>1, <2>3, <4>1, Rested
      <4>4. InStep(m)' /\ Fresh(m)' /\ Stamped(m)'
        BY <2>1, <2>2, <3>1, <4>2 DEF InStep, Fresh, Stamped, Meant
      <4>5. main.pc \in {"mark", "clear"} /\ main.i = m => row[m] = 1
        <5>1. ~(quiet[m] <= Lag)
          BY <4>3, Numbers
        <5> QED  BY <4>2, <5>1 DEF Spared
      <4> QED  BY <2>1, <4>4, <4>5 DEF Regular, Spared
    <3> QED  BY <3>1, <3>2 DEF Lively
  <2>4. CASE n # m
    <3>1. With(m, "answer")' = With(m, "answer") /\ With(m, "stamp")' = With(m, "stamp")
      BY <2>1, <2>4 DEF With
    <3> QED  BY <2>1, <3>1, LivelyKept
  <2> QED  BY <2>3, <2>4
<1> QED  BY <1>1, <1>2, <1>3, <1>4, <1>5, <1>6 DEF World

\* The ZigBee thread: a stamp that is not the first one comes when the pass
\* under way, if any, has nothing against the meter.
LEMMA ThreadLively ==
    ASSUME TypeOK, NEW m \in Meters, Lively(m), Thread
    PROVE  Lively(m)'
<1>0. /\ clock \in Nat /\ quiet[m] \in Nat /\ sample[m] \in Nat /\ main.now \in Nat
      /\ meter[m].told \in Nat /\ meter[m].left \in Int /\ row[m] \in 0 .. 3
      /\ Lag \in {0, 1} /\ Grace \in Nat /\ -Grace <= meter[m].left
  BY Numbers, SleepNumbers
<1>1. thread \in [pc : {"idle", "answer", "stamp", "store"}, m : Meters] /\ thread.m \in Meters
  BY DEF TypeOK
<1>2. ASSUME NEW heard \in BOOLEAN, Answer(heard)
      PROVE  Lively(m)'
  <2>1. /\ UNCHANGED <<clock, interval, sample, main, quiet, row>>
        /\ thread.pc = "answer" /\ thread'.pc = "stamp" /\ thread'.m = thread.m
    BY <1>1, <1>2 DEF Answer
  <2>2. CASE thread.m = m
    <3>1. /\ meter'[m].up = meter[m].up /\ meter'[m].left = meter'[m].told
          /\ meter'[m].told = Told(m, interval[m]) \/ meter'[m].told = meter[m].told
      BY <1>2, <2>2 DEF Answer, TypeOK
    <3>2. /\ With(m, "answer") /\ ~With(m, "stamp")
          /\ ~With(m, "answer")' /\ With(m, "stamp")' /\ Lag' = Lag
      BY <2>1, <2>2 DEF With, Lag
    <3>3. meter[m].up /\ meter[m].left <= 0
      BY <3>2 DEF Lively, Awake
    <3>4. Awake(m)' /\ Obeys(m)'
      BY <2>1, <3>1, <3>2, <3>3 DEF Lively, Awake, Obeys, Told
    <3>5. ASSUME Fit(m)', row'[m] >= 1
          PROVE  Regular(m)'
      <4>1. Fit(m) /\ row[m] >= 1
        BY <2>1, <3>5 DEF Fit, Told
      <4>2. InStep(m) /\ Fresh(m) /\ Stamped(m) /\ Spared(m)
            /\ meter[m].told = Told(m, interval[m])
        BY <4>1 DEF Lively, Regular, Obeys
      <4>3. meter'[m].told = meter[m].told
        BY <3>1, <4>2
      <4>4. quiet[m] >= meter[m].told /\ quiet[m] <= meter[m].told + Grace
        <5>1. quiet[m] + meter[m].left = meter[m].told
          BY <3>2, <4>2 DEF InStep
        <5> QED  BY <1>0, <3>3, <5>1
      <4>5. InStep(m)'
        BY <2>1, <3>2, <4>3, <4>4 DEF InStep
      <4>6. Fresh(m)' /\ Stamped(m)'
        BY <2>1, <3>2, <4>2 DEF Fresh, Stamped, Meant
      <4>7. Spared(m)'
        BY <2>1, <3>2, <4>2 DEF Spared
      <4> QED  BY <4>5, <4>6, <4>7 DEF Regular
    <3> QED  BY <3>4, <3>5 DEF Lively
  <2>3. CASE thread.m # m
    <3>1. meter'[m] = meter[m]
      BY <1>2, <2>3 DEF Answer, TypeOK
    <3>2. With(m, "answer")' = With(m, "answer") /\ With(m, "stamp")' = With(m, "stamp")
      BY <2>1, <2>3 DEF With
    <3> QED  BY <2>1, <3>1, <3>2, LivelyKept
  <2> QED  BY <2>2, <2>3
<1>3. CASE Stamp
  <2>1. /\ UNCHANGED <<clock, interval, main, meter>>
        /\ thread.pc = "stamp" /\ thread'.pc = "store" /\ thread'.m = thread.m
    BY <1>1, <1>3 DEF Stamp
  <2>2. ~With(m, "answer")' /\ ~With(m, "stamp")' /\ Lag' = Lag
    BY <2>1 DEF With, Lag
  <2>3. CASE thread.m = m
    <3>1. /\ quiet'[m] = 0
          /\ Kind[m] # "flow" => sample'[m] = clock
          /\ meter[m].told # Told(m, interval[m]) => row'[m] = 0
          /\ meter[m].told = Told(m, interval[m]) =>
               row'[m] = IF row[m] < 3 THEN row[m] + 1 ELSE row[m]
      BY <1>3, <2>3 DEF Stamp, TypeOK
    <3>2. With(m, "stamp") /\ meter[m].up /\ meter[m].left = meter[m].told
      BY <2>1, <2>3 DEF With, Lively, Awake
    <3>3. Awake(m)' /\ Obeys(m)'
      BY <2>1, <2>2, <3>1, <3>2 DEF Awake, Obeys, Told
    <3>4. ASSUME Fit(m)', row'[m] >= 1
          PROVE  Regular(m)'
      <4>1. Fit(m) /\ meter[m].told = Told(m, interval[m])
        BY <2>1, <3>1, <3>4 DEF Fit, Told
      <4>2. row'[m] = IF row[m] < 3 THEN row[m] + 1 ELSE row[m]
        BY <3>1, <4>1
      <4>3. InStep(m)'
        BY <1>0, <2>1, <2>2, <3>1, <3>2 DEF InStep
      <4>4. Stamped(m)'
        <5>1. sample'[m] = clock
          BY <3>1, <4>1 DEF Fit
        <5> QED  BY <1>0, <2>1, <3>1, <5>1 DEF Stamped
      <4>5. CASE row[m] = 0
        <5>1. row'[m] = 1 /\ quiet'[m] <= Lag
          BY <1>0, <3>1, <4>2, <4>5
        <5> QED  BY <2>2, <4>3, <4>4, <5>1 DEF Regular, Fresh, Spared
      <4>6. CASE row[m] >= 1
        <5>1. Fresh(m) /\ Spared(m) /\ quiet[m] > Lag
          BY <3>2, <4>1, <4>6, Rested DEF Lively, Regular
        <5>2. ~(quiet[m] <= Lag)
          BY <1>0, <5>1
        <5>3. Fresh(m)'
          BY <2>1, <2>2, <5>1, <5>2 DEF Fresh, Meant
        <5>4. Spared(m)'
          <6>1. main.pc \in {"mark", "clear"} /\ main.i = m => row[m] = 1
            BY <3>2, <5>1 DEF Spared
          <6>2. row[m] = 1 => row'[m] = 2 /\ quiet'[m] <= Lag
            BY <1>0, <3>1, <4>2
          <6> QED  BY <2>1, <2>2, <6>1, <6>2 DEF Spared
        <5> QED  BY <4>3, <4>4, <5>3, <5>4 DEF Regular
      <4> QED  BY <1>0, <4>5, <4>6
    <3> QED  BY <3>3, <3>4 DEF Lively
  <2>4. CASE thread.m # m
    <3>1. sample'[m] = sample[m] /\ quiet'[m] = quiet[m] /\ row'[m] = row[m]
      BY <1>3, <2>4 DEF Stamp, TypeOK
    <3>2. With(m, "answer")' = With(m, "answer") /\ With(m, "stamp")' = With(m, "stamp")
      BY <2>1, <2>4 DEF With
    <3> QED  BY <2>1, <3>1, <3>2, LivelyKept
  <2> QED  BY <2>3, <2>4
<1>4. CASE Store
  <2>1. /\ UNCHANGED <<clock, interval, sample, main, meter, quiet, row>>
        /\ thread.pc = "store" /\ thread'.pc = "idle"
    BY <1>1, <1>4 DEF Store
  <2>2. With(m, "answer")' = With(m, "answer") /\ With(m, "stamp")' = With(m, "stamp")
    BY <2>1 DEF With
  <2> QED  BY <2>1, <2>2, LivelyKept
<1> QED  BY <1>2, <1>3, <1>4 DEF Thread

\* main: a pass does not find a meter silent that has sent two packets.
LEMMA MainLively ==
    ASSUME TypeOK, NEW m \in Meters, Lively(m), Main
    PROVE  Lively(m)'
<1>0. /\ clock \in Nat /\ quiet[m] \in Nat /\ sample[m] \in Nat /\ main.now \in Nat
      /\ meter[m].told \in Nat /\ row[m] \in 0 .. 3
      /\ Lag \in {0, 1} /\ Grace \in Nat /\ Meant(m, interval[m]) * Cnt \in Int
  BY Numbers, SleepNumbers
<1>1. /\ UNCHANGED <<clock, interval, thread, meter, quiet, row>>
      /\ Meant(m, interval[m])' = Meant(m, interval[m])
      /\ With(m, "answer")' = With(m, "answer") /\ With(m, "stamp")' = With(m, "stamp")
  BY DEF Main, Wake, Check, Mark, Clear, Meant, With
<1>2. Awake(m)' /\ Obeys(m)' /\ (Fit(m)' <=> Fit(m))
  BY <1>1 DEF Lively, Awake, Obeys, Fit, Told
<1>3. SUFFICES ASSUME Fit(m), row[m] >= 1
               PROVE  InStep(m)' /\ Fresh(m)' /\ Stamped(m)' /\ Spared(m)'
  BY <1>1, <1>2 DEF Lively, Regular
<1>4. InStep(m) /\ Fresh(m) /\ Stamped(m) /\ Spared(m)
  BY <1>3 DEF Lively, Regular
<1>5. InStep(m)'
  BY <1>1, <1>4 DEF InStep
<1>6. main \in Mains
  BY DEF TypeOK, Mains
<1>7. ASSUME main' = Advance(main), main.pc # "sleep", sample' = sample
      PROVE  Fresh(m)' /\ Stamped(m)' /\ Spared(m)'
  <2>1. \/ main'.pc = "sleep"
        \/ /\ main'.pc = "check" /\ main'.late = main.late
           /\ main'.read = main.read /\ main'.now = main.now
    BY <1>6, <1>7 DEF Advance, Mains
  <2>2. main'.pc # "sleep" => Lag' = Lag
    BY <2>1 DEF Lag
  <2>3. Fresh(m)'
    BY <1>1, <1>4, <1>7, <2>1, <2>2 DEF Fresh
  <2> QED  BY <1>1, <1>4, <1>7, <2>1, <2>3 DEF Stamped, Spared
<1>8. CASE Wake
  <2>1. /\ main'.pc = "check" /\ main'.now = clock /\ main'.late = main.late
        /\ main'.read[m] = Meant(m, interval[m]) /\ sample' = sample
        /\ ~main.late
    BY <1>6, <1>8 DEF Wake, Mains, TypeOK
  <2>2. Lag' = 0 /\ clock = clock + 0
    BY <1>0, <2>1 DEF Lag
  <2>3. Fresh(m)'
    BY <1>1, <2>1, <2>2 DEF Fresh
  <2> QED  BY <1>1, <1>4, <1>5, <2>1, <2>3 DEF Stamped, Spared
<1>9. CASE Check
  <2>1. main.pc = "check" /\ sample' = sample
    BY <1>9 DEF Check
  <2>2. CASE main' = Advance(main)
    BY <1>5, <1>7, <2>1, <2>2
  <2>3. CASE /\ main.now > main.read[main.i] * Cnt + sample[main.i]
             /\ main' = [main EXCEPT !.pc = "mark"]
    <3>1. /\ main'.pc = "mark" /\ main'.i = main.i /\ main'.late = main.late
          /\ main'.now = main.now /\ main'.read = main.read /\ Lag' = Lag
      BY <1>6, <2>3 DEF Mains, Lag
    <3>2. Fresh(m)' /\ Stamped(m)'
      BY <1>1, <1>4, <2>1, <3>1 DEF Fresh, Stamped
    <3>3. main.i = m => row[m] = 1
      <4> SUFFICES ASSUME main.i = m, row[m] >= 2
                   PROVE  FALSE
        BY <1>0, <1>3
      <4>1. main.read[m] = Meant(m, interval[m]) /\ clock = main.now + Lag
        BY <1>0, <1>4, <2>1 DEF Fresh
      <4>2. sample[m] + quiet[m] + 1 >= clock
        BY <1>4 DEF Stamped
      <4>3. quiet[m] <= meter[m].told + Grace /\ meter[m].told = Told(m, interval[m])
        BY <1>3, Rested DEF Lively, Obeys
      <4>4. Told(m, interval[m]) + Grace + 1 <= Meant(m, interval[m]) * Cnt
        BY <1>3, Limits
      <4>5. main.now > Meant(m, interval[m]) * Cnt + sample[m]
        BY <2>3, <4>1
      <4>6. meter[m].told + Grace + 1 <= Meant(m, interval[m]) * Cnt
        BY <4>3, <4>4
      <4> QED  BY <1>0, <4>1, <4>2, <4>3, <4>5, <4>6
    <3>4. Spared(m)'
      BY <1>1, <3>1, <3>3 DEF Spared
    <3> QED  BY <1>5, <3>2, <3>4
  <2> QED  BY <1>9, <2>2, <2>3 DEF Check
<1>10. CASE Mark
  <2>1. /\ main.pc = "mark" /\ main'.pc = "clear" /\ main'.i = main.i
        /\ main'.late = main.late /\ main'.now = main.now /\ main'.read = main.read
        /\ sample'[m] = IF main.i = m THEN main.now ELSE sample[m]
        /\ Lag' = Lag
    BY <1>6, <1>10 DEF Mark, Mains, TypeOK, Lag
  <2>2. Fresh(m)' /\ Spared(m)'
    BY <1>1, <1>4, <2>1 DEF Fresh, Spared
  <2>3. row[m] >= 2 => sample'[m] + quiet[m] + 1 >= clock
    <3>1. CASE main.i # m
      BY <1>4, <2>1, <3>1 DEF Stamped
    <3>2. CASE main.i = m /\ row[m] >= 2
      <4>1. clock = main.now + Lag
        BY <1>0, <1>4, <2>1, <3>2 DEF Fresh
      <4> QED  BY <1>0, <2>1, <3>2, <4>1
    <3> QED  BY <3>1, <3>2
  <2> QED  BY <1>1, <1>5, <2>2, <2>3 DEF Stamped
<1>11. CASE Clear
  BY <1>5, <1>7, <1>11 DEF Clear
<1> QED  BY <1>8, <1>9, <1>10, <1>11 DEF Main

\* Every step keeps it, and no step of a state where it holds clears the data
\* of a live meter.
LInv == TypeOK /\ \A m \in Meters : Lively(m)

LEMMA LivelyStep ==
    ASSUME LInv, [Next]_vars
    PROVE  LInv'
<1>1. TypeOK /\ \A m \in Meters : Lively(m)
  BY DEF LInv
<1>2. CASE Thread
  BY <1>1, <1>2, ThreadType, ThreadLively DEF LInv
<1>3. CASE Main
  BY <1>1, <1>3, MainType, MainLively DEF LInv
<1>4. CASE World
  BY <1>1, <1>4, WorldType, WorldLively DEF LInv
<1>5. CASE UNCHANGED vars
  <2>1. TypeOK'
    BY <1>1, <1>5 DEF TypeOK, vars
  <2>2. ASSUME NEW m \in Meters
        PROVE  Lively(m)'
    BY <1>1, <1>5, LivelyKept DEF vars, With
  <2> QED  BY <2>1, <2>2 DEF LInv
<1> QED  BY <1>2, <1>3, <1>4, <1>5 DEF Next

LEMMA LivelySpared ==
    ASSUME LInv, [Next]_vars, NEW m \in Meters, Live(m), data[m]
    PROVE  data'[m]
<1>1. TypeOK /\ Lively(m) /\ row[m] = 3
  BY DEF LInv, Live
<1>2. Fit(m)
  BY <1>1 DEF Live, Fit, Lively, Obeys
<1>3. ~(main.pc \in {"mark", "clear"} /\ main.i = m)
  BY <1>1, <1>2 DEF Lively, Regular, Spared
<1>4. CASE Clear
  BY <1>1, <1>3, <1>4 DEF Clear, TypeOK
<1>5. CASE Store
  BY <1>1, <1>5 DEF Store, TypeOK
<1>6. CASE UNCHANGED data
  BY <1>6
<1>7. Clear \/ Store \/ UNCHANGED data
  BY DEF Next, Thread, Main, World, Answer, Stamp, Wake, Check, Mark, Tick, SetClock,
         WriteInterval, FallSilent, ComeBack, Packet, vars
<1> QED  BY <1>4, <1>5, <1>6, <1>7

(***************************************************************************)
(* The data of a meter that does as it is told are never cleared, however  *)
(* its packets, main's reading of the clock, of the interval and of the    *)
(* sample time, and main's own stamp interleave.                           *)
(***************************************************************************)
THEOREM LiveDataKept == Spec => LiveKept
<1>1. Init => LInv
  BY InitType DEF LInv, Init, Lively, Awake, Obeys, With
<1>2. LInv /\ [Next]_vars => LInv'
  BY LivelyStep
<1>3. LInv /\ [Next]_vars => [\A m \in Meters : Live(m) /\ data[m] => data'[m]]_vars
  BY LivelySpared
<1> QED  BY <1>1, <1>2, <1>3, PTL DEF Spec, LiveKept

-----------------------------------------------------------------------------
(***************************************************************************)
(* Master485: the types, and that a SYNC stands until it is served.  Both  *)
(* are inductive: SyncStands says also that no job "sync" runs while a     *)
(* SYNC is owed, without which the end of that job could take it away.     *)
(***************************************************************************)
MasterInv == MasterTypeOK /\ SyncStands

\* The states inside an exchange with a meter.
Exchanging == {"send", "wait", "read", "fail"}

(***************************************************************************)
(* How a job comes to its end: each step the thread takes inside a job     *)
(* ends it, or takes it to a later exchange, to another try of the same    *)
(* exchange, or nearer to the end of the try.  Exchanges and tries are     *)
(* limited, and messages, which arrive in any number, are served without   *)
(* any of this being set back; the other threads never touch it.           *)
(***************************************************************************)
ToGo == [send |-> 3, wait |-> 2, read |-> 1, fail |-> 0]

Nearer ==
    /\ pc' \in Exchanging /\ job' = job
    /\ stage' <= Len(Exchanges[job]) /\ tries' < MaxTries(job)
    /\ \/ stage' > stage
       \/ stage' = stage /\ tries' > tries
       \/ UNCHANGED <<stage, tries>> /\ ToGo[pc'] < ToGo[pc]

JobAdvances ==
    pc \in Exchanging =>
        IF Master THEN pc' = "over" \/ Nearer ELSE UNCHANGED <<pc, run>>

\* A job that talks to a meter has at least one exchange, and each of them is
\* one of the requests.
LEMMA ExchangesType ==
    ASSUME NEW j \in DOMAIN Exchanges
    PROVE  /\ Exchanges[j] \in Seq(Request) /\ Len(Exchanges[j]) \in Nat
           /\ DOMAIN Exchanges[j] = 1 .. Len(Exchanges[j])
           /\ 1 \in DOMAIN Exchanges[j]
<1>1. Request = {"scale", "ratio", "quantity", "param", "cycle", "set1", "data1",
                 "set2", "data2"}
  BY DEF Request, Shape
<1>2. DOMAIN Exchanges = {"elec", "act", "sync"}
  BY DEF Exchanges
<1>3. CASE j = "elec"
  <2>1. Exchanges[j] = <<"scale", "ratio", "quantity", "param">>
    BY <1>3 DEF Exchanges
  <2> QED BY <2>1, <1>1
<1>4. CASE j = "act"
  <2>1. Exchanges[j] = <<"set1", "data1", "set2", "data2">>
    BY <1>4 DEF Exchanges
  <2> QED BY <2>1, <1>1
<1>5. CASE j = "sync"
  <2>1. Exchanges[j] = [i \in 1 .. Points |-> "cycle"]
    BY <1>5 DEF Exchanges
  <2>2. Points \in Nat \ {0}
    BY MasterAssumption
  <2> HIDE DEF Exchanges
  <2> QED BY <2>1, <2>2, <1>1
<1> QED BY <1>2, <1>3, <1>4, <1>5

\* The sampling of the actuators has a third exchange.
LEMMA SecondActuator == "act" \in DOMAIN Exchanges /\ 3 \in DOMAIN Exchanges["act"]
BY DEF Exchanges

\* An interval that msg_handler takes is in range.
LEMMA ClipType == \A v \in Nat : Clip(v) \in 10 .. 600
BY DEF Clip

\* pmsg_q_send leaves a queue a queue that is not over its limit.
LEMMA QueuedType ==
    ASSUME MasterTypeOK, NEW m \in Msg
    PROVE  Queued(m) \in Seq(Msg) /\ Len(Queued(m)) <= MaxMsg
BY MasterAssumption DEF MasterTypeOK, Queued

\* msg_handler keeps the types of what it changes, takes one message off the
\* queue, and never lets a SYNC go.
LEMMA ReceiveKeeps ==
    ASSUME MasterInv, Receive, UNCHANGED <<reg, job>>
    PROVE  /\ queue' \in Seq(Msg) /\ Len(queue') <= MaxMsg
           /\ ctrl' \in Job /\ syn' \in {"sync", "badsync"}
           /\ intervals' \in [Periodic -> 10 .. 600]
           /\ line' \in {<< >>} \cup {<<r>> : r \in Request}
           /\ rx' \in Seq(Request) /\ Len(rx') <= MaxLate
           /\ owed' \in BOOLEAN
           /\ SyncStands'
<1> USE DEF MasterInv
<1> DEFINE Kept == /\ ctrl' \in Job /\ syn' \in {"sync", "badsync"}
                   /\ intervals' \in [Periodic -> 10 .. 600]
                   /\ line' \in {<< >>} \cup {<<r>> : r \in Request}
                   /\ rx' \in Seq(Request) /\ Len(rx') <= MaxLate
                   /\ owed' \in BOOLEAN
                   /\ SyncStands'
<1>1. queue' \in Seq(Msg) /\ Len(queue') <= MaxMsg
  BY MasterAssumption DEF Receive, MasterTypeOK
<1>2. Handle(Head(queue))
  BY DEF Receive
<1>3. ASSUME Start PROVE Kept
  <2>1. rx' \in Seq(Request) /\ Len(rx') <= MaxLate
    <3>1. rx' = rx \/ rx' = << >>
      BY <1>3 DEF Start, meters
    <3>2. << >> \in Seq(Request) /\ Len(<< >>) <= MaxLate
      BY MasterAssumption
    <3>3. rx \in Seq(Request) /\ Len(rx) <= MaxLate
      BY DEF MasterTypeOK
    <3> QED BY <3>1, <3>2, <3>3
  <2>2. line' \in {<< >>} \cup {<<r>> : r \in Request}
    BY <1>3 DEF Start, MasterTypeOK, meters
  <2> QED BY <1>3, <2>1, <2>2 DEF Start, MasterTypeOK, SyncStands
<1>4. ASSUME Config2 PROVE Kept
  <2>1. intervals' \in [Periodic -> 10 .. 600]
    <3>1. \A s \in Periodic : reg[s] \in Nat
      BY MasterAssumption DEF MasterTypeOK
    <3>2. \A s \in Periodic : Clip(reg[s]) \in 10 .. 600
      BY <3>1, ClipType
    <3> QED BY <1>4, <3>2 DEF Config2
  <2> QED BY <1>4, <2>1 DEF Config2, MasterTypeOK, SyncStands, meters
<1>5. ASSUME NEW m \in {"sync", "badsync"}, Sync(m) PROVE Kept
  BY <1>5 DEF Sync, MasterTypeOK, SyncStands, meters, Job
<1>6. Kept
  BY <1>2, <1>3, <1>4, <1>5 DEF Handle
<1> QED BY <1>1, <1>6

-----------------------------------------------------------------------------
\* The thread starts with no job and nothing owed.
LEMMA MasterInitInv == MasterInit => MasterInv
<1> SUFFICES ASSUME MasterInit PROVE MasterInv
  OBVIOUS
<1>1. intervals \in [Periodic -> 10 .. 600]
  BY ClipType, MasterAssumption DEF MasterInit
<1>2. /\ queue \in Seq(Msg) /\ Len(queue) <= MaxMsg
      /\ rx \in Seq(Request) /\ Len(rx) <= MaxLate
  BY MasterAssumption DEF MasterInit
<1>3. writing \in [Writer -> {<< >>} \cup Periodic \X Value]
  BY DEF MasterInit
<1> QED
  BY <1>1, <1>2, <1>3 DEF MasterInit, MasterInv, MasterTypeOK, SyncStands, Job

\* The steps of the thread keep the invariant.
LEMMA MasterKeeps == MasterInv /\ Master => MasterInv'
<1> SUFFICES ASSUME MasterInv, Master PROVE MasterInv'
  OBVIOUS
<1> USE MasterAssumption DEF MasterInv, settings, run, meters
<1>1. CASE Select
  <2>1. CASE Receive
    BY <1>1, <2>1, ReceiveKeeps DEF Select, MasterTypeOK
  <2>2. CASE UNCHANGED <<queue, ctrl, syn, intervals, meters, owed>>
    BY <1>1, <2>2 DEF Select, MasterTypeOK, SyncStands
  <2> QED BY <1>1, <2>1, <2>2 DEF Select
<1>2. CASE Schedule
  BY <1>2 DEF Schedule, MasterTypeOK, SyncStands, Job, Periodic
<1>3. CASE Dispatch
  <2>1. pc' \in {"send", "over"} /\ job' \in Job /\ stage' = 1 /\ tries' = 0
    BY <1>3 DEF Dispatch, MasterTypeOK, Job
  <2>2. pc' = "send" => job' \in DOMAIN Exchanges
    BY <1>3 DEF Dispatch, MasterTypeOK, Job, Exchanges
  <2>3. tries' < MaxTries(job')
    BY <2>1 DEF MaxTries
  <2>4. pc' = "send" => stage' \in DOMAIN Exchanges[job']
    BY <2>1, <2>2, ExchangesType
  <2>5. MasterTypeOK'
    <3>1. /\ UNCHANGED <<queue, ctrl, syn, intervals, reg, writing, line, rx>>
          /\ owed' \in BOOLEAN
      BY <1>3 DEF Dispatch, MasterTypeOK
    <3>2. /\ pc' \in {"send", "over"} /\ tries' \in Nat
          /\ pc' \in {"send", "wait", "read", "fail"} =>
               /\ job' \in DOMAIN Exchanges /\ stage' \in DOMAIN Exchanges[job']
               /\ tries' < MaxTries(job')
      BY <2>1, <2>2, <2>3, <2>4
    <3> QED  BY <2>1, <3>1, <3>2 DEF MasterTypeOK, MaxTries
  <2>6. SyncStands'
    BY <1>3 DEF Dispatch, SyncStands
  <2> QED BY <2>5, <2>6
<1>4. CASE JobOver
  BY <1>4 DEF JobOver, MasterTypeOK, SyncStands, Job
<1>5. CASE SendRequest
  <2>1. Asked \in Request
    BY <1>5, ExchangesType DEF SendRequest, MasterTypeOK, Asked
  <2> QED BY <1>5, <2>1 DEF SendRequest, MasterTypeOK, SyncStands
<1>6. CASE CycleOver
  BY <1>6 DEF CycleOver, MasterTypeOK, SyncStands
<1>7. CASE WaitAnswer
  <2>1. CASE Receive
    BY <1>7, <2>1, ReceiveKeeps DEF WaitAnswer, MasterTypeOK
  <2>2. CASE UNCHANGED <<queue, ctrl, syn, intervals, meters, owed>>
    BY <1>7, <2>2 DEF WaitAnswer, MasterTypeOK, SyncStands
  <2> QED BY <1>7, <2>1, <2>2 DEF WaitAnswer
<1>8. CASE Read
  <2>1. /\ job \in DOMAIN Exchanges /\ stage \in DOMAIN Exchanges[job]
        /\ tries < MaxTries(job) /\ tries \in Nat /\ MaxTries(job) \in Nat \ {0}
    BY <1>8 DEF Read, MasterTypeOK, MaxTries
  <2>2. /\ rx' \in Seq(Request) /\ Len(rx') <= MaxLate
    <3>1. rx \in Seq(Request) /\ Len(rx) \in Nat /\ Len(rx) <= MaxLate
      BY DEF MasterTypeOK
    <3>2. \/ rx' = rx
          \/ rx # << >> /\ rx' = Tail(rx)
          \/ \E n \in 2 .. Len(rx) + 1 : rx' = SubSeq(rx, n, Len(rx))
      BY <1>8 DEF Read
    <3>3. ASSUME NEW n \in 2 .. Len(rx) + 1
          PROVE  /\ SubSeq(rx, n, Len(rx)) \in Seq(Request)
                 /\ Len(SubSeq(rx, n, Len(rx))) <= Len(rx)
      BY <3>1
    <3>4. rx # << >> => Tail(rx) \in Seq(Request) /\ Len(Tail(rx)) <= Len(rx)
      BY <3>1
    <3>5. rx' \in Seq(Request) /\ Len(rx') <= Len(rx) /\ Len(rx') \in Nat
      <4>1. CASE rx' = rx
        BY <3>1, <4>1
      <4>2. CASE rx # << >> /\ rx' = Tail(rx)
        BY <3>1, <3>4, <4>2
      <4>3. ASSUME NEW n \in 2 .. Len(rx) + 1, rx' = SubSeq(rx, n, Len(rx))
            PROVE  rx' \in Seq(Request) /\ Len(rx') <= Len(rx) /\ Len(rx') \in Nat
        BY <3>3, <4>3
      <4> QED BY ONLY <3>2, <4>1, <4>2, <4>3
    <3>6. MaxLate \in Nat
      BY MasterAssumption
    <3> QED BY <3>1, <3>5, <3>6
  <2>3. /\ pc' \in {"send", "fail", "over"} /\ tries' \in {tries, 0}
        /\ pc' = "fail" => stage' = stage
    BY <1>8 DEF Read, NextExchange
  <2>4. pc' # "over" => stage' \in DOMAIN Exchanges[job]
    BY <1>8, <2>1, ExchangesType DEF Read, NextExchange
  <2>5. MasterTypeOK'
    <3>1. /\ UNCHANGED <<queue, ctrl, syn, intervals, reg, writing, job, line, owed>>
          /\ pc' \in {"send", "fail", "over"} /\ tries' \in Nat
          /\ tries' < MaxTries(job')
      BY <1>8, <2>1, <2>3 DEF Read
    <3> QED BY <3>1, <2>1, <2>2, <2>4 DEF MasterTypeOK
  <2>6. SyncStands'
    BY <1>8 DEF Read, SyncStands
  <2> QED BY <2>5, <2>6
<1>9. CASE Fail
  <2>1. /\ job \in DOMAIN Exchanges /\ stage \in DOMAIN Exchanges[job]
        /\ tries < MaxTries(job) /\ tries \in Nat /\ MaxTries(job) \in Nat \ {0}
    BY <1>9 DEF Fail, MasterTypeOK, MaxTries
  <2>2. /\ pc' \in {"send", "over"} /\ tries' \in Nat /\ tries' < MaxTries(job)
        /\ job' = job
    BY <1>9, <2>1 DEF Fail
  <2>3. pc' = "send" => stage' \in DOMAIN Exchanges[job]
    BY <1>9, <2>1, SecondActuator DEF Fail
  <2>4. MasterTypeOK'
    BY <1>9, <2>1, <2>2, <2>3 DEF Fail, MasterTypeOK, MaxTries
  <2>5. SyncStands'
    BY <1>9 DEF Fail, SyncStands
  <2> QED BY <2>4, <2>5
<1> QED BY <1>1, <1>2, <1>3, <1>4, <1>5, <1>6, <1>7, <1>8, <1>9 DEF Master

\* So do those of the servers and the meters.
LEMMA OtherMastersKeep == MasterInv /\ Others => MasterInv'
<1> SUFFICES ASSUME MasterInv, Others PROVE MasterInv'
  OBVIOUS
<1> USE MasterAssumption DEF MasterInv, settings, run, meters
<1>1. ASSUME NEW m \in Msg, Send(m)
      PROVE  MasterInv'
  BY <1>1, QueuedType DEF Send, MasterTypeOK, SyncStands
<1>2. ASSUME NEW w \in Writer, NEW s \in Periodic, NEW v \in Value,
             WriteIntervalRegister(w, s, v)
      PROVE  MasterInv'
  <2>1. "config2" \in Msg
    BY MasterAssumption
  <2>2. writing' \in [Writer -> {<< >>} \cup Periodic \X Value]
    BY <1>2 DEF WriteIntervalRegister, MasterTypeOK
  <2> QED
    BY <1>2, <2>1, <2>2, QueuedType
    DEF WriteIntervalRegister, MasterTypeOK, SyncStands
<1>3. ASSUME NEW w \in Writer, StoreInterval(w)
      PROVE  MasterInv'
  <2>1. writing[w] \in Periodic \X Value
    BY <1>3 DEF StoreInterval, MasterTypeOK
  <2>2. writing' \in [Writer -> {<< >>} \cup Periodic \X Value]
    BY <1>3 DEF StoreInterval, MasterTypeOK
  <2>3. reg' \in [Periodic -> Value]
    BY <1>3, <2>1 DEF StoreInterval, MasterTypeOK
  <2> QED BY <1>3, <2>2, <2>3 DEF StoreInterval, MasterTypeOK, SyncStands
<1>4. CASE MeterAnswers
  <2>1. Head(line) \in Request
    BY <1>4 DEF MeterAnswers, MasterTypeOK
  <2>2. rx' \in Seq(Request) /\ Len(rx') <= MaxLate
    BY <1>4, <2>1 DEF MeterAnswers, MasterTypeOK
  <2> QED BY <1>4, <2>2 DEF MeterAnswers, MasterTypeOK, SyncStands
<1> QED BY <1>1, <1>2, <1>3, <1>4 DEF Others

\* Every step keeps the invariant.
LEMMA MasterNextInv == MasterInv /\ [MasterNext]_masterVars => MasterInv'
<1> SUFFICES ASSUME MasterInv, [MasterNext]_masterVars PROVE MasterInv'
  OBVIOUS
<1>1. CASE UNCHANGED masterVars
  BY <1>1 DEF masterVars, settings, run, meters, MasterInv, MasterTypeOK, SyncStands
<1> QED BY <1>1, MasterKeeps, OtherMastersKeep DEF MasterNext

\* A step of the thread inside a job.
LEMMA MasterAdvances ==
    ASSUME MasterTypeOK, MasterTypeOK', Master, pc \in Exchanging, pc' # "over"
    PROVE  Nearer
<1>1. /\ job \in DOMAIN Exchanges /\ stage \in DOMAIN Exchanges[job]
      /\ tries < MaxTries(job) /\ tries \in Nat
  BY DEF MasterTypeOK, Exchanging
<1>2. stage \in Nat /\ Len(Exchanges[job]) \in Nat /\ stage <= Len(Exchanges[job])
  BY <1>1, ExchangesType
<1>3. ASSUME pc' \in Exchanging, job' = job
      PROVE  stage' <= Len(Exchanges[job]) /\ tries' < MaxTries(job)
  <2>1. stage' \in DOMAIN Exchanges[job] /\ tries' < MaxTries(job')
    BY <1>3 DEF MasterTypeOK, Exchanging
  <2>2. DOMAIN Exchanges[job] = 1 .. Len(Exchanges[job])
    BY <1>1, ExchangesType
  <2> QED BY <1>2, <1>3, <2>1, <2>2 DEF MaxTries
<1>4. SUFFICES /\ pc' \in Exchanging /\ job' = job
               /\ \/ stage' > stage
                  \/ stage' = stage /\ tries' > tries
                  \/ UNCHANGED <<stage, tries>> /\ ToGo[pc'] < ToGo[pc]
  BY <1>3 DEF Nearer
<1>5. CASE SendRequest
  BY <1>5 DEF SendRequest, run, Exchanging, ToGo
<1>6. CASE WaitAnswer
  <2>1. pc = "wait" /\ pc' \in {"read", "fail"} /\ UNCHANGED run
    BY <1>6 DEF WaitAnswer
  <2> QED BY <2>1 DEF run, Exchanging, ToGo
<1>7. CASE Read
  <2>1. pc = "read" /\ job' = job
    BY <1>7 DEF Read
  <2>2. CASE pc' = "fail" /\ UNCHANGED <<stage, tries>>
    BY <2>1, <2>2 DEF Exchanging, ToGo
  <2>3. CASE NextExchange
    <3>1. pc' = "send" /\ stage' = stage + 1
      BY <2>3 DEF NextExchange
    <3> QED BY <1>2, <2>1, <3>1 DEF Exchanging
  <2> QED BY <1>7, <2>2, <2>3 DEF Read
<1>8. CASE Fail
  <2>1. pc' = "send" /\ job' = job
    BY <1>8 DEF Fail
  <2>2. CASE tries + 1 < MaxTries(job)
    <3>1. tries' = tries + 1 /\ stage' = stage
      BY <1>8, <2>2 DEF Fail
    <3> QED BY <1>1, <2>1, <3>1 DEF Exchanging
  <2>3. CASE ~(tries + 1 < MaxTries(job))
    <3>1. stage <= 2 /\ stage' = 3
      BY <1>8, <2>1, <2>3 DEF Fail
    <3> QED BY <1>2, <2>1, <3>1 DEF Exchanging
  <2> QED BY <2>2, <2>3
<1>9. ~Select /\ ~Schedule /\ ~Dispatch /\ ~JobOver /\ ~CycleOver
  BY DEF Select, Schedule, Dispatch, JobOver, CycleOver, Exchanging
<1> QED BY <1>5, <1>6, <1>7, <1>8, <1>9 DEF Master

-----------------------------------------------------------------------------
\* In no state has a job been left with an exchange it does not have, or an
\* exchange been tried more often than the code tries it.
THEOREM MasterTypeCorrect == MasterSpec => []MasterTypeOK
<1>1. MasterInv => MasterTypeOK
  BY DEF MasterInv
<1> QED BY <1>1, MasterInitInv, MasterNextInv, PTL DEF MasterSpec

\* A SYNC that came while no cycle was sampled keeps the control of the
\* master until its cycle is sampled, whatever job it came in.
THEOREM SyncNotForgotten == MasterSpec => []SyncStands
<1>1. MasterInv => SyncStands
  BY DEF MasterInv
<1> QED BY <1>1, MasterInitInv, MasterNextInv, PTL DEF MasterSpec

\* deal_wired_electrical, deal_wired_actuator and time_handle_fun: a job has
\* no step that could be repeated for ever, whatever messages msg_handler
\* serves in between; what JobsEnd needs beyond this is that the thread runs.
THEOREM JobsAdvance == MasterSpec => [][JobAdvances]_masterVars
<1>1. MasterInv /\ MasterInv' /\ [MasterNext]_masterVars => [JobAdvances]_masterVars
  <2> SUFFICES ASSUME MasterInv, MasterInv', MasterNext, pc \in Exchanging
               PROVE  IF Master THEN pc' = "over" \/ Nearer ELSE UNCHANGED <<pc, run>>
    BY DEF JobAdvances
  <2>1. CASE Master
    BY <2>1, MasterAdvances DEF MasterInv
  <2>2. CASE ~Master
    <3>1. Others
      BY <2>2 DEF MasterNext
    <3>2. UNCHANGED <<pc, run>>
      BY <3>1 DEF Others, Send, WriteIntervalRegister, StoreInterval, MeterAnswers
    <3> QED BY <2>2, <3>2
  <2> QED BY <2>1, <2>2
<1> QED BY <1>1, MasterInitInv, MasterNextInv, PTL DEF MasterSpec

=============================================================================
