---------------------------- MODULE HistoryStore ----------------------------
(***************************************************************************)
(* The thread that stores a snapshot of the registers every ten minutes    *)
(* and answers requests for stored ones (data/data.c, sqlite_utils.c).     *)
(*                                                                         *)
(* One turn of the loop waits up to a second for a message.  A snapshot is *)
(* due when the wall clock says so, which a server may set, or when as     *)
(* many turns have passed.  The thread counts the rows of the table itself *)
(* and, when it counts too many, deletes the oldest ones.  It does not     *)
(* learn that an insert failed.  The time of the oldest row is kept in a   *)
(* variable.  A row stands for its time in seconds; the registers of a     *)
(* request and of its answer hold minutes.  Requests ask with an offset of *)
(* 0 for one well.                                                         *)
(***************************************************************************)
EXTENDS Integers, Sequences

CONSTANTS Interval,   \* HISTORY_DATA_TIMEOUT
          MaxRows,    \* MAX_H_DATA_ITEM_LEN
          DelRows,    \* MAX_H_DATA_DEL_ITEM_LEN
          MaxMsg,     \* PMSG_MAXMSG
          PerMinute,  \* the seconds of a minute
          MaxTime,    \* bound: the clock
          MaxFail     \* bound: inserts, deletions and answers that fail, starts

ASSUME HistoryAssumption ==
    /\ {Interval, MaxRows, DelRows, MaxMsg, PerMinute} \subseteq Nat \ {0} /\ DelRows <= MaxRows
    /\ {MaxTime, MaxFail} \subseteq Nat

Time == 0 .. MaxTime
Minute(t) == t \div PerMinute
Minutes == {Minute(t) : t \in Time}
Default == -1   \* 2015-01-01, and no answer yet

VARIABLES
    clock,
    asked,       \* the registers of a request: rows later than this minute's start
    answer,      \* the registers of the answer: the minute of a row
    queue,       \* data_msg_fd: the number of requests in it
    rows,        \* the table, the oldest row first
    pc,          \* "wait", "insert", "delete", or "ended": the thread is gone
    time0,       \* when the last snapshot was due
    timeCount,   \* time_count
    count,       \* h_data_len
    first,       \* first_data_time
    failedRows,  \* how many inserts have failed
    failedDels,  \* ... and deletions
    failedReads, \* ... and answers
    starts,      \* how often the RTU has started again
    stored       \* how many rows were ever stored, as far as MaxRows + 1

requests == <<asked, answer, queue, failedReads>>
timer == <<time0, timeCount>>
failures == <<failedRows, failedDels, starts>>
vars == <<clock, requests, rows, pc, timer, count, first, failures, stored>>

TypeOK ==
    /\ clock \in Time /\ asked \in Minutes
    /\ answer \in Minutes \cup {Default}
    /\ queue \in 0 .. MaxMsg
    /\ rows \in Seq(Time)
    /\ pc \in {"wait", "insert", "delete", "ended"}
    /\ time0 \in Time /\ timeCount \in 0 .. Interval
    /\ count \in 0 .. MaxRows + 2 * MaxFail + 1
    /\ first \in Time \cup {Default}
    /\ failedRows \in 0 .. MaxFail /\ failedDels \in 0 .. MaxFail
    /\ failedReads \in 0 .. MaxFail /\ starts \in 0 .. MaxFail
    /\ stored \in 0 .. MaxRows + 1

\* The time of the oldest row, or the default when there is none or the
\* query for it fails.
FirstOf(table) == {Default} \cup (IF table = << >> THEN {} ELSE {Head(table)})

Init ==
    /\ clock \in Time /\ time0 = clock
    /\ asked = Minute(0) /\ answer = Default /\ queue = 0
    /\ rows = << >> /\ count = 0 /\ first = Default
    /\ pc = "wait" /\ timeCount = 0
    /\ failedRows = 0 /\ failedDels = 0 /\ failedReads = 0 /\ starts = 0 /\ stored = 0

-----------------------------------------------------------------------------
(***************************************************************************)
(* The servers, the clock, and the RTU as a whole.                         *)
(***************************************************************************)
Tick ==
    /\ clock < MaxTime /\ clock' = clock + 1
    /\ UNCHANGED <<requests, rows, pc, timer, count, first, failures, stored>>

\* A server writes the clock registers.
SetClock(t) ==
    /\ clock' = t
    /\ UNCHANGED <<requests, rows, pc, timer, count, first, failures, stored>>

\* The registers of a request are written, the last of which sends a message,
\* lost if the queue is full.
Request(m) ==
    /\ asked' = m
    /\ queue' = IF queue < MaxMsg THEN queue + 1 ELSE queue
    /\ UNCHANGED <<clock, answer, failedReads, rows, pc, timer, count, first, failures, stored>>

\* Mutant: the rows are not counted.
Start_Uncounted ==
    /\ starts < MaxFail /\ starts' = starts + 1
    /\ time0' = clock /\ timeCount' = 0
    /\ asked' = Minute(0) /\ answer' = Default /\ queue' = 0
    /\ count' = 0 /\ first' \in FirstOf(rows) /\ pc' = "wait"
    /\ UNCHANGED <<clock, rows, failedRows, failedDels, failedReads, stored>>

\* The RTU starts again, at any point.  The thread ends if the query for the
\* number of rows fails.
Start ==
    /\ starts < MaxFail /\ starts' = starts + 1
    /\ time0' = clock /\ timeCount' = 0
    /\ asked' = Minute(0) /\ answer' = Default /\ queue' = 0
    /\ count' = Len(rows) /\ first' \in FirstOf(rows)
    /\ pc' \in {"wait", "ended"}
    /\ UNCHANGED <<clock, rows, failedRows, failedDels, failedReads, stored>>

-----------------------------------------------------------------------------
(***************************************************************************)
(* The loop.                                                               *)
(***************************************************************************)
\* The rows that are later than the start of the minute asked for: some may be
\* of that minute itself.
Later == {i \in DOMAIN rows : rows[i] > asked * PerMinute}

\* The answer is the minute of the first of the rows at the places found; if
\* there is none, the query fails and the answer stays.
Answer(found) ==
    /\ UNCHANGED failedReads
    /\ \/ found = {} /\ UNCHANGED answer
       \/ \E i \in found : (\A j \in found : i <= j) /\ answer' = Minute(rows[i])

\* There is no memory, or the query fails, or the row cannot be unpacked: the
\* answer stays.
AnswerFails ==
    /\ failedReads < MaxFail /\ failedReads' = failedReads + 1
    /\ UNCHANGED answer

\* Mutant: rows of the asked time itself are taken.
Serve_From ==
    \/ Answer({i \in DOMAIN rows : rows[i] >= asked * PerMinute})
    \/ AnswerFails

\* MSG_REQUEST_H_DATA: the registers are read now, whatever they were when the
\* message was sent.  The sender does not learn that the handler failed.
Serve == Answer(Later) \/ AnswerFails

\* A message, or a second without one.
Wait ==
    \/ queue > 0 /\ queue' = queue - 1 /\ Serve
    \/ queue = 0 /\ UNCHANGED <<queue, answer, failedReads>>

Due == clock - Interval >= time0 \/ timeCount >= Interval

\* Mutant: turns are not counted.
TurnIdle_Uncounted ==
    /\ pc = "wait" /\ Wait /\ ~Due
    /\ UNCHANGED <<clock, asked, rows, pc, timer, count, first, failures, stored>>

\* A turn without a snapshot.
TurnIdle ==
    /\ pc = "wait" /\ Wait /\ ~Due
    /\ timeCount' = timeCount + 1
    /\ UNCHANGED <<clock, asked, rows, pc, time0, count, first, failures, stored>>

\* A snapshot is due; without memory it is skipped.
TurnDue ==
    /\ pc = "wait" /\ Wait /\ Due
    /\ timeCount' = 0 /\ time0' = clock
    /\ pc' \in {"insert", "wait"}
    /\ UNCHANGED <<clock, asked, rows, count, first, failures, stored>>

Counted ==
    /\ count' = count + 1
    /\ pc' = IF count' > MaxRows THEN "delete" ELSE "wait"

Insert ==
    /\ pc = "insert"
    /\ rows' = Append(rows, clock)
    /\ stored' = IF stored > MaxRows THEN stored ELSE stored + 1
    /\ Counted
    /\ UNCHANGED <<clock, requests, timer, first, failures>>

\* sqlite_data_store_bin_data returns 0 whatever happens.
InsertFails ==
    /\ pc = "insert" /\ failedRows < MaxFail
    /\ failedRows' = failedRows + 1
    /\ Counted
    /\ UNCHANGED <<clock, requests, rows, timer, first, failedDels, starts, stored>>

\* Mutant: the rows left are not counted down.
Delete_Recount ==
    /\ pc = "delete" /\ pc' = "wait"
    /\ rows' = SubSeq(rows, DelRows + 1, Len(rows))
    /\ UNCHANGED count
    /\ first' \in FirstOf(rows')
    /\ UNCHANGED <<clock, requests, timer, failures, stored>>

\* Mutant: the oldest row is not read again.
Delete_KeepFirst ==
    /\ pc = "delete" /\ pc' = "wait"
    /\ rows' = SubSeq(rows, DelRows + 1, Len(rows))
    /\ count' = count - DelRows
    /\ UNCHANGED <<clock, requests, timer, first, failures, stored>>

\* The DelRows oldest rows are deleted, and the oldest one left is read.
Delete ==
    /\ pc = "delete" /\ pc' = "wait"
    /\ rows' = SubSeq(rows, DelRows + 1, Len(rows))
    /\ count' = count - DelRows
    /\ first' \in FirstOf(rows')
    /\ UNCHANGED <<clock, requests, timer, failures, stored>>

\* The deletion fails, and is tried again after the next snapshot.
DeleteFails ==
    /\ pc = "delete" /\ pc' = "wait"
    /\ failedDels < MaxFail /\ failedDels' = failedDels + 1
    /\ UNCHANGED <<clock, requests, rows, timer, count, first, failedRows, starts, stored>>

-----------------------------------------------------------------------------
Thread ==
    \/ TurnIdle \/ TurnDue
    \/ Insert \/ InsertFails
    \/ Delete \/ DeleteFails

Others ==
    \/ Tick
    \/ \E t \in Time : SetClock(t)
    \/ \E m \in Minutes : Request(m)
    \/ Start

Next == Thread \/ Others

Spec == Init /\ [][Next]_vars

\* The select of the loop waits a second at most; memory comes back.
FairSpec == Spec /\ WF_vars(Thread) /\ SF_vars(TurnDue /\ pc' = "insert")

-----------------------------------------------------------------------------
(***************************************************************************)
(* The table stays small: the count never falls below the rows there are,  *)
(* whatever fails, and only deletions that fail, or that a restart comes   *)
(* before, let it pass the limit.                                          *)
(***************************************************************************)
TableBounded ==
    /\ Len(rows) <= count
    /\ count <= MaxRows + failedDels + starts + (IF pc = "delete" THEN 1 ELSE 0)

(***************************************************************************)
(* A deletion, and all that was counted and never stored, costs recent     *)
(* rows only as far as inserts have failed: of the rows ever stored, all   *)
(* or the latest MaxRows + 1 - DelRows are there.                          *)
(***************************************************************************)
RecentKept ==
    \/ Len(rows) >= stored
    \/ Len(rows) + failedRows >= MaxRows + 1 - DelRows

(***************************************************************************)
(* The oldest time the registers announce is that of the oldest row, or    *)
(* the default, across deletions and restarts.                             *)
(***************************************************************************)
FirstIsOldest == first = Default \/ (rows # << >> /\ first = Head(rows))

(***************************************************************************)
(* Snapshots go on being stored while the thread is there, though the      *)
(* clock stands still or is set back again and again.                      *)
(***************************************************************************)
StoresGoOn == []<>(pc = "insert") \/ <>[](pc = "ended")

(***************************************************************************)
(* A message in the queue is followed by the answer to what is asked then, *)
(* once the handler fails no more: the minute of the oldest row later than *)
(* the start of the asked one.  It need not be a later minute than the one *)
(* that is asked for.  A restart forgets the request, and there may be no  *)
(* such row or no thread any more; a message sent to a full queue is lost, *)
(* but what it asks is answered by the one in the queue.                   *)
(***************************************************************************)
Answered ==
    queue > 0 /\ failedReads = MaxFail ~>
        \/ \E i \in Later : (\A j \in Later : i <= j) /\ answer = Minute(rows[i])
        \/ Later = {}
        \/ queue = 0 /\ asked = Minute(0) /\ answer = Default   \* after a start
        \/ pc = "ended"

=============================================================================
