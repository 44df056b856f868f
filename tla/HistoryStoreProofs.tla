------------------------- MODULE HistoryStoreProofs -------------------------
(***************************************************************************)
(* Proofs about HistoryStore, for any interval, limits, queue and number   *)
(* of failures.                                                            *)
(***************************************************************************)
EXTENDS HistoryStore, TLAPS

(***************************************************************************)
(* What the thread counts differs from the table by at most the inserts    *)
(* that failed, and a deletion is only begun above the limit.              *)
(***************************************************************************)
CountedClosely ==
    /\ count <= Len(rows) + failedRows
    /\ pc = "delete" => count > MaxRows

Inv ==
    /\ TypeOK
    /\ TableBounded
    /\ RecentKept
    /\ FirstIsOldest
    /\ CountedClosely

-----------------------------------------------------------------------------
\* A table without its oldest n rows.
LEMMA Rest ==
    ASSUME NEW table \in Seq(Time), NEW n \in Nat
    PROVE  /\ SubSeq(table, n + 1, Len(table)) \in Seq(Time)
           /\ Len(SubSeq(table, n + 1, Len(table))) =
                  IF n <= Len(table) THEN Len(table) - n ELSE 0
  OBVIOUS

\* A row at the end of a table leaves its oldest row the oldest.
LEMMA OneMore ==
    ASSUME NEW table \in Seq(Time), NEW t \in Time
    PROVE  /\ Append(table, t) \in Seq(Time)
           /\ Len(Append(table, t)) = Len(table) + 1
           /\ Append(table, t) # << >>
           /\ table # << >> => Head(Append(table, t)) = Head(table)
<1>1. Append(table, t) \in Seq(Time) /\ Len(Append(table, t)) = Len(table) + 1
  OBVIOUS
<1>2. Append(table, t) # << >>
  <2>1. Len(table) \in Nat /\ Len(Append(table, t)) > 0
    BY <1>1
  <2> QED  BY <2>1
<1>3. ASSUME table # << >>
      PROVE  Head(Append(table, t)) = Head(table)
  <2>1. Len(table) \in Nat /\ Len(table) >= 1
    BY <1>3
  <2>2. Append(table, t)[1] = table[1]
    BY <2>1
  <2> QED  BY <1>1, <1>2, <1>3, <2>2
<1> QED  BY <1>1, <1>2, <1>3

\* What the thread keeps as the time of the oldest row is one.
LEMMA OldestOf ==
    ASSUME NEW table \in Seq(Time), NEW t \in FirstOf(table)
    PROVE  /\ t \in Time \cup {Default}
           /\ t = Default \/ (table # << >> /\ t = Head(table))
<1>1. CASE table = << >>
  BY <1>1 DEF FirstOf
<1>2. CASE table # << >>
  <2>1. Head(table) \in Time
    BY <1>2
  <2>2. t \in {Default, Head(table)}
    BY <1>2 DEF FirstOf
  <2> QED  BY <1>2, <2>1, <2>2
<1> QED  BY <1>1, <1>2

\* The numbers the thread works with are natural ones.
LEMMA Numbers ==
    ASSUME TypeOK
    PROVE  /\ MaxRows \in Nat /\ DelRows \in Nat /\ MaxFail \in Nat
           /\ DelRows >= 1 /\ DelRows <= MaxRows
           /\ rows \in Seq(Time) /\ Len(rows) \in Nat /\ count \in Nat
           /\ failedRows \in 0 .. MaxFail /\ failedDels \in 0 .. MaxFail
           /\ starts \in 0 .. MaxFail /\ stored \in 0 .. MaxRows + 1
<1>1. rows \in Seq(Time)
  BY DEF TypeOK
<1>2. Len(rows) \in Nat
  BY <1>1
<1>3. /\ MaxRows \in Nat /\ DelRows \in Nat /\ MaxFail \in Nat
      /\ DelRows >= 1 /\ DelRows <= MaxRows
  BY HistoryAssumption
<1>4. count \in Nat
  BY <1>3 DEF TypeOK
<1>5. /\ failedRows \in 0 .. MaxFail /\ failedDels \in 0 .. MaxFail
      /\ starts \in 0 .. MaxFail /\ stored \in 0 .. MaxRows + 1
  BY DEF TypeOK
<1> QED  BY <1>1, <1>2, <1>3, <1>4, <1>5

-----------------------------------------------------------------------------
\* A table that is empty at the start is in order.
LEMMA InitInv == Init => Inv
<1> SUFFICES ASSUME Init PROVE Inv
  OBVIOUS
<1>1. TypeOK
  <2>1. 0 \in Time /\ Minute(0) \in Minutes /\ << >> \in Seq(Time) /\ 0 \in 0 .. MaxMsg /\ 0 \in 0 .. Interval
    BY HistoryAssumption DEF Time, Minutes
  <2>2. 0 \in 0 .. MaxFail /\ 0 \in 0 .. MaxRows + 1 /\ 0 \in 0 .. MaxRows + 2 * MaxFail + 1
    BY HistoryAssumption
  <2> QED  BY <2>1, <2>2 DEF Init, TypeOK
<1>2. TableBounded /\ RecentKept /\ FirstIsOldest /\ CountedClosely
  BY HistoryAssumption
     DEF Init, TableBounded, RecentKept, FirstIsOldest, CountedClosely
<1> QED  BY <1>1, <1>2 DEF Inv

\* The table and what the thread knows of it are left alone.
tables == <<rows, pc, count, first, failedRows, failedDels, starts, stored>>

LEMMA TablesKept == Inv /\ TypeOK' /\ UNCHANGED tables => Inv'
  BY DEF Inv, tables, TableBounded, RecentKept, FirstIsOldest, CountedClosely

\* The clock and the registers of a request do not touch the table.
LEMMA OutsideInv ==
    ASSUME Inv, Tick \/ (\E t \in Time : SetClock(t)) \/ (\E m \in Minutes : Request(m))
    PROVE  Inv'
<1> USE HistoryAssumption DEF Time, requests, timer, failures, tables
<1>1. CASE Tick
  <2>1. UNCHANGED tables
    BY <1>1 DEF Tick
  <2>2. clock' \in Time
    <3>1. clock \in 0 .. MaxTime /\ MaxTime \in Nat
      BY DEF Inv, TypeOK
    <3> QED  BY <1>1, <3>1 DEF Tick
  <2>3. TypeOK'
    BY <1>1, <2>1, <2>2 DEF Inv, TypeOK, Tick, tables
  <2> QED  BY <2>1, <2>3, TablesKept
<1>2. ASSUME NEW t \in Time, SetClock(t)
      PROVE  Inv'
  <2>1. TypeOK' /\ UNCHANGED tables
    BY <1>2 DEF Inv, TypeOK, SetClock
  <2> QED  BY <2>1, TablesKept
<1>3. ASSUME NEW m \in Minutes, Request(m)
      PROVE  Inv'
  <2>1. UNCHANGED tables
    BY <1>3 DEF Request
  <2>2. queue' \in 0 .. MaxMsg /\ asked' \in Minutes
    <3>1. queue \in 0 .. MaxMsg /\ MaxMsg \in Nat
      BY DEF Inv, TypeOK
    <3>2. asked' = m /\ queue' = IF queue < MaxMsg THEN queue + 1 ELSE queue
      BY <1>3 DEF Request
    <3> QED  BY <3>1, <3>2
  <2>3. TypeOK'
    BY <1>3, <2>1, <2>2 DEF Inv, TypeOK, Request
  <2> QED  BY <2>1, <2>3, TablesKept
<1> QED  BY <1>1, <1>2, <1>3

\* A restart counts the rows and reads the oldest one again; between an
\* insert and its deletion it leaves one row more than the limit.
LEMMA StartInv == Inv /\ Start => Inv'
<1> SUFFICES ASSUME Inv, Start PROVE Inv'
  OBVIOUS
<1>0. TypeOK /\ TableBounded /\ RecentKept /\ CountedClosely
  BY DEF Inv
<1>1. /\ starts < MaxFail /\ starts' = starts + 1
      /\ count' = Len(rows) /\ first' \in FirstOf(rows) /\ pc' \in {"wait", "ended"}
      /\ UNCHANGED <<rows, failedRows, failedDels, stored>>
  BY DEF Start
<1>2. rows \in Seq(Time)
  BY <1>0, Numbers
<1>3. first' \in Time \cup {Default} /\ FirstIsOldest'
  BY <1>1, <1>2, OldestOf DEF FirstIsOldest
<1>4. Len(rows) <= count /\ count <= MaxRows + failedDels + starts + 1
  BY <1>0, Numbers DEF TableBounded
<1>5. TableBounded'
  BY <1>0, <1>1, <1>4, Numbers DEF TableBounded
<1>6. RecentKept' /\ CountedClosely'
  BY <1>0, <1>1, Numbers DEF RecentKept, CountedClosely
<1>7. TypeOK'
  <2>1. count' \in 0 .. MaxRows + 2 * MaxFail + 1
    BY SMTT(30), <1>0, <1>1, <1>4, Numbers
  <2>2. starts' \in 0 .. MaxFail
    BY <1>0, <1>1, Numbers
  <2>3. /\ clock' \in Time /\ time0' \in Time /\ timeCount' = 0
        /\ asked' = Minute(0) /\ answer' = Default /\ queue' = 0
        /\ failedReads' \in 0 .. MaxFail
    BY <1>0 DEF Start, TypeOK
  <2>4. Minute(0) \in Minutes /\ 0 \in 0 .. Interval /\ 0 \in 0 .. MaxMsg
    BY HistoryAssumption DEF Time, Minutes
  <2> QED  BY <1>0, <1>1, <1>3, <2>1, <2>2, <2>3, <2>4 DEF TypeOK
<1> QED  BY <1>3, <1>5, <1>6, <1>7 DEF Inv

-----------------------------------------------------------------------------
\* A turn answers with the minute of a row of the table, or not at all.
LEMMA WaitType ==
    ASSUME TypeOK, Wait
    PROVE  /\ queue' \in 0 .. MaxMsg /\ answer' \in Minutes \cup {Default}
           /\ failedReads' \in 0 .. MaxFail
<1>0. /\ queue \in 0 .. MaxMsg /\ MaxMsg \in Nat
      /\ answer \in Minutes \cup {Default}
      /\ failedReads \in 0 .. MaxFail /\ MaxFail \in Nat
  BY HistoryAssumption DEF TypeOK
<1>1. CASE queue > 0 /\ queue' = queue - 1 /\ Serve
  <2>1. queue' \in 0 .. MaxMsg
    BY <1>0, <1>1
  <2>2. \A i \in DOMAIN rows : Minute(rows[i]) \in Minutes
    <3>1. ASSUME NEW i \in DOMAIN rows PROVE rows[i] \in Time
      <4>1. rows \in Seq(Time)
        BY DEF TypeOK
      <4> QED  BY <4>1
    <3> QED  BY <3>1 DEF Minutes
  <2>3. CASE Answer(Later)
    <3>1. Later \subseteq DOMAIN rows
      BY DEF Later
    <3>2. answer' = answer \/ \E i \in DOMAIN rows : answer' = Minute(rows[i])
      BY <2>3, <3>1 DEF Answer
    <3>3. answer' \in Minutes \cup {Default}
      BY <1>0, <2>2, <3>2
    <3>4. failedReads' = failedReads
      BY <2>3 DEF Answer
    <3> QED  BY <1>0, <2>1, <3>3, <3>4
  <2>4. CASE AnswerFails
    <3>1. answer' = answer /\ failedReads < MaxFail /\ failedReads' = failedReads + 1
      BY <2>4 DEF AnswerFails
    <3>2. failedReads' \in 0 .. MaxFail
      BY <1>0, <3>1
    <3> QED  BY <1>0, <2>1, <3>1, <3>2
  <2> QED  BY <1>1, <2>3, <2>4 DEF Serve
<1>2. CASE queue = 0 /\ UNCHANGED <<queue, answer, failedReads>>
  BY <1>0, <1>2
<1> QED  BY <1>1, <1>2 DEF Wait

LEMMA TurnInv == Inv /\ (TurnIdle \/ TurnDue) => Inv'
<1> SUFFICES ASSUME Inv, TurnIdle \/ TurnDue PROVE Inv'
  OBVIOUS
<1> USE HistoryAssumption DEF failures
<1>0. TypeOK
  BY DEF Inv
<1>1. /\ queue' \in 0 .. MaxMsg /\ answer' \in Minutes \cup {Default}
      /\ failedReads' \in 0 .. MaxFail
  BY <1>0, WaitType DEF TurnIdle, TurnDue
<1>2. CASE TurnIdle
  <2>1. timeCount' \in 0 .. Interval
    BY <1>0, <1>2 DEF TurnIdle, Due, TypeOK
  <2>2. TypeOK' /\ UNCHANGED tables
    BY <1>0, <1>1, <1>2, <2>1 DEF TurnIdle, TypeOK, tables
  <2> QED  BY <2>2, TablesKept
<1>3. CASE TurnDue
  <2>1. TypeOK'
    BY <1>0, <1>1, <1>3 DEF TurnDue, TypeOK
  <2>2. TableBounded' /\ RecentKept' /\ FirstIsOldest' /\ CountedClosely'
    BY <1>3 DEF Inv, TurnDue, TableBounded, RecentKept, FirstIsOldest, CountedClosely
  <2> QED  BY <2>1, <2>2 DEF Inv
<1> QED  BY <1>2, <1>3

LEMMA InsertInv == Inv /\ (Insert \/ InsertFails) => Inv'
<1> SUFFICES ASSUME Inv, Insert \/ InsertFails PROVE Inv'
  OBVIOUS
<1> USE DEF requests, timer, failures
<1>0. TypeOK /\ TableBounded /\ RecentKept /\ FirstIsOldest /\ CountedClosely
  BY DEF Inv
<1>1. /\ pc = "insert" /\ count' = count + 1
      /\ pc' = IF count + 1 > MaxRows THEN "delete" ELSE "wait"
  BY DEF Insert, InsertFails, Counted
<1>2. count <= MaxRows + failedDels + starts
  BY <1>0, <1>1, Numbers DEF TableBounded
<1>3. count' \in 0 .. MaxRows + 2 * MaxFail + 1
  <2>1. /\ count \in Nat /\ failedDels \in 0 .. MaxFail /\ starts \in 0 .. MaxFail
        /\ MaxRows \in Nat /\ MaxFail \in Nat /\ count' = count + 1
    BY <1>0, <1>1, Numbers
  <2> QED  BY <1>2, <2>1
<1>4. CASE Insert
  <2>1. rows' = Append(rows, clock) /\ clock \in Time /\ rows \in Seq(Time)
    BY <1>0, <1>4, Numbers DEF Insert, TypeOK
  <2>2. /\ rows' \in Seq(Time) /\ Len(rows') = Len(rows) + 1 /\ rows' # << >>
        /\ rows # << >> => Head(rows') = Head(rows)
    BY <2>1, OneMore
  <2>3. stored' \in 0 .. MaxRows + 1 /\ stored' <= stored + 1
    BY <1>0, <1>4, Numbers DEF Insert
  <2>4. UNCHANGED <<first, failedRows, failedDels, starts>>
    BY <1>4 DEF Insert
  <2>5. TypeOK'
    BY <1>0, <1>1, <1>3, <1>4, <2>2, <2>3 DEF Insert, TypeOK
  <2>6. TableBounded' /\ CountedClosely'
    <3>1. TableBounded'
      BY SMTT(30), <1>0, <1>1, <1>2, <2>2, <2>4, Numbers DEF TableBounded
    <3>2. CountedClosely'
      BY SMTT(30), <1>0, <1>1, <1>2, <2>2, <2>4, Numbers DEF CountedClosely
    <3> QED  BY <3>1, <3>2
  <2>7. RecentKept'
    <3>1. Len(rows) >= stored => Len(rows') >= stored'
      BY <1>0, <2>2, <2>3, Numbers
    <3>2. Len(rows) + failedRows >= MaxRows + 1 - DelRows
            => Len(rows') + failedRows' >= MaxRows + 1 - DelRows
      BY <1>0, <2>2, <2>4, Numbers
    <3> QED  BY <1>0, <3>1, <3>2 DEF RecentKept
  <2>8. FirstIsOldest'
    BY <1>0, <2>2, <2>4 DEF FirstIsOldest
  <2> QED  BY <2>5, <2>6, <2>7, <2>8 DEF Inv
<1>5. CASE InsertFails
  <2>1. TypeOK'
    <3>1. failedRows' \in 0 .. MaxFail
      BY <1>0, <1>5, Numbers DEF InsertFails
    <3> QED  BY <1>0, <1>1, <1>3, <1>5, <3>1 DEF InsertFails, TypeOK
  <2>2. /\ failedRows' = failedRows + 1
        /\ UNCHANGED <<rows, first, failedDels, starts, stored>>
    BY <1>5 DEF InsertFails
  <2>3. TableBounded' /\ CountedClosely'
    BY SMTT(30), <1>0, <1>1, <1>2, <2>2, Numbers DEF TableBounded, CountedClosely
  <2>4. RecentKept' /\ FirstIsOldest'
    BY <1>0, <2>2, Numbers DEF RecentKept, FirstIsOldest
  <2> QED  BY <2>1, <2>3, <2>4 DEF Inv
<1> QED  BY <1>4, <1>5

\* A deletion leaves the count above the rows there are, because it takes the
\* same from both, or more from the count when the table is short.
LEMMA DeleteInv == Inv /\ (Delete \/ DeleteFails) => Inv'
<1> SUFFICES ASSUME Inv, Delete \/ DeleteFails PROVE Inv'
  OBVIOUS
<1> USE HistoryAssumption DEF requests, timer, failures
<1>0. TypeOK /\ TableBounded /\ RecentKept /\ FirstIsOldest /\ CountedClosely
  BY DEF Inv
<1>1. CASE Delete
  <2>1. /\ rows' \in Seq(Time) /\ Len(rows) \in Nat
        /\ Len(rows') = IF DelRows <= Len(rows) THEN Len(rows) - DelRows ELSE 0
    <3>1. rows \in Seq(Time) /\ DelRows \in Nat /\ Len(rows) \in Nat
      BY <1>0 DEF TypeOK
    <3>2. rows' = SubSeq(rows, DelRows + 1, Len(rows))
      BY <1>1 DEF Delete
    <3> QED  BY <3>1, <3>2, Rest
  <2>2. count' = count - DelRows /\ count > MaxRows /\ pc = "delete" /\ pc' = "wait"
    BY <1>0, <1>1 DEF Delete, CountedClosely
  <2>3. first' \in Time \cup {Default} /\ FirstIsOldest'
    BY <1>1, <2>1, OldestOf DEF Delete, FirstIsOldest
  <2>4. /\ MaxRows \in Nat /\ DelRows \in Nat /\ MaxFail \in Nat /\ DelRows <= MaxRows
        /\ count \in 0 .. MaxRows + 2 * MaxFail + 1
        /\ failedRows \in Nat /\ failedDels \in Nat /\ starts \in Nat
    BY <1>0 DEF TypeOK
  <2>5. count' \in 0 .. MaxRows + 2 * MaxFail + 1
    BY <2>2, <2>4
  <2>6. TypeOK'
    BY <1>0, <1>1, <2>1, <2>2, <2>3, <2>5 DEF Delete, TypeOK
  <2>7. UNCHANGED <<failedRows, failedDels, starts, stored>>
    BY <1>1 DEF Delete
  <2>8. TableBounded' /\ CountedClosely' /\ RecentKept'
    <3>1. /\ Len(rows) <= count /\ count <= Len(rows) + failedRows
          /\ count <= MaxRows + failedDels + starts + 1
      BY <1>0, <2>2 DEF TableBounded, CountedClosely
    <3>2. Len(rows') \in Nat /\ Len(rows') >= Len(rows) - DelRows
      BY <2>1, <2>4
    <3>3. Len(rows') <= count'
      BY <2>1, <2>2, <2>4, <3>1
    <3>4. count' <= Len(rows') + failedRows
      BY <2>1, <2>2, <2>4, <3>1, <3>2
    <3>5. count' <= MaxRows + failedDels + starts
      <4>1. DelRows >= 1
        OBVIOUS
      <4> QED  BY <2>2, <2>4, <3>1, <4>1
    <3>6. Len(rows') + failedRows >= MaxRows + 1 - DelRows
      BY <2>1, <2>2, <2>4, <3>4
    <3>7. TableBounded'
      BY <2>2, <2>4, <2>7, <3>3, <3>5 DEF TableBounded
    <3>8. CountedClosely'
      BY <2>2, <2>7, <3>4 DEF CountedClosely
    <3>9. RecentKept'
      BY <2>7, <3>6 DEF RecentKept
    <3> QED  BY <3>7, <3>8, <3>9
  <2> QED  BY <2>3, <2>6, <2>8 DEF Inv
<1>2. CASE DeleteFails
  <2>1. TypeOK'
    BY <1>0, <1>2 DEF DeleteFails, TypeOK
  <2>2. TableBounded' /\ CountedClosely' /\ RecentKept' /\ FirstIsOldest'
    <3>1. TableBounded'
      <4>1. Len(rows) \in Nat /\ count \in Nat /\ failedDels \in Nat /\ starts \in Nat
        BY <1>0, HistoryAssumption DEF TypeOK
      <4> QED  BY <1>0, <1>2, <4>1 DEF DeleteFails, TableBounded
    <3>2. CountedClosely'
      BY SMTT(30), <1>0, <1>2 DEF DeleteFails, TypeOK, CountedClosely
    <3>3. RecentKept'
      BY SMTT(30), <1>0, <1>2 DEF DeleteFails, TypeOK, RecentKept
    <3>4. FirstIsOldest'
      BY SMTT(30), <1>0, <1>2 DEF DeleteFails, TypeOK, FirstIsOldest
    <3> QED  BY <3>1, <3>2, <3>3, <3>4
  <2> QED  BY <2>1, <2>2 DEF Inv
<1> QED  BY <1>1, <1>2

-----------------------------------------------------------------------------
LEMMA Invariance == Spec => []Inv
<1>1. Inv /\ [Next]_vars => Inv'
  <2> SUFFICES ASSUME Inv, [Next]_vars PROVE Inv'
    OBVIOUS
  <2>1. CASE UNCHANGED vars
    BY <2>1 DEF vars, requests, timer, failures, Inv, TypeOK, TableBounded,
       RecentKept, FirstIsOldest, CountedClosely
  <2>2. CASE Others
    BY <2>2, OutsideInv, StartInv DEF Others
  <2>3. CASE Thread
    BY <2>3, TurnInv, InsertInv, DeleteInv DEF Thread
  <2> QED  BY <2>1, <2>2, <2>3 DEF Next
<1> QED  BY <1>1, InitInv, PTL DEF Spec

(***************************************************************************)
(* The counters and registers of the thread stay in their ranges: the      *)
(* count never falls below 0, though a deletion takes off DelRows whatever *)
(* it finds.                                                               *)
(***************************************************************************)
THEOREM Types == Spec => []TypeOK
<1>1. Inv => TypeOK
  BY DEF Inv
<1> QED  BY <1>1, Invariance, PTL

(***************************************************************************)
(* The table never grows past its limit by more than the deletions that    *)
(* failed or were cut off by a restart.                                    *)
(***************************************************************************)
THEOREM TableStaysBounded == Spec => []TableBounded
<1>1. Inv => TableBounded
  BY DEF Inv
<1> QED  BY <1>1, Invariance, PTL

(***************************************************************************)
(* Deletions cost recent rows only as far as inserts have failed.          *)
(***************************************************************************)
THEOREM RecentRowsKept == Spec => []RecentKept
<1>1. Inv => RecentKept
  BY DEF Inv
<1> QED  BY <1>1, Invariance, PTL

(***************************************************************************)
(* The announced oldest time is never that of a row that is gone.          *)
(***************************************************************************)
THEOREM FirstStaysOldest == Spec => []FirstIsOldest
<1>1. Inv => FirstIsOldest
  BY DEF Inv
<1> QED  BY <1>1, Invariance, PTL

=============================================================================
