---------------------------- MODULE ConfigNotify ----------------------------
(***************************************************************************)
(* What the configuration broadcast promises to one thread of the RTU,     *)
(* whatever the queue between them looks like: a notification is a sticky  *)
(* flag.  Once a register change has been notified, the thread reads the   *)
(* register again after the notification, however many notifications were  *)
(* merged into one.                                                        *)
(*                                                                         *)
(* ver[r]        number of stores to configuration register r so far       *)
(* announced[c]  ver as it was when c was last notified                    *)
(* seen[c]       for each register, the store that c last read             *)
(* flag[c]       c has been notified and has not begun to react            *)
(* todo[c]       the registers that c still has to read before it is done  *)
(***************************************************************************)
EXTENDS Naturals

CONSTANTS Consumer,     \* the threads that listen for MSG_CONFIG_START
          Register,     \* the configuration registers, in flash1
          Reads         \* Reads[c]: the set of registers thread c reads

VARIABLES ver, announced, seen, flag, todo

vars == <<ver, announced, seen, flag, todo>>

TypeOK ==
    /\ ver \in [Register -> Nat]
    /\ announced \in [Consumer -> [Register -> Nat]]
    /\ seen \in [Consumer -> [Register -> Nat]]
    /\ flag \in [Consumer -> BOOLEAN]
    /\ todo \in [Consumer -> SUBSET Register]

\* Every thread starts by reading its registers.
Init ==
    /\ ver = [r \in Register |-> 0]
    /\ announced = [c \in Consumer |-> ver]
    /\ seen = [c \in Consumer |-> [r \in Register |-> 0]]
    /\ flag = [c \in Consumer |-> FALSE]
    /\ todo = Reads

\* A register is stored; nobody is told.
Store(r) ==
    /\ ver' = [ver EXCEPT ![r] = @ + 1]
    /\ UNCHANGED <<announced, seen, flag, todo>>

\* Consumer c is told that the configuration is complete.
Notify(c) ==
    /\ announced' = [announced EXCEPT ![c] = ver]
    /\ flag' = [flag EXCEPT ![c] = TRUE]
    /\ UNCHANGED <<ver, seen, todo>>

\* Consumer c begins to react.  The flag may stay up: a notification that was
\* not merged with the one being served makes c read everything once more.
Begin(c) ==
    /\ flag[c]
    /\ todo[c] = {}
    /\ \E again \in BOOLEAN : flag' = [flag EXCEPT ![c] = again]
    /\ todo' = [todo EXCEPT ![c] = Reads[c]]
    /\ UNCHANGED <<ver, announced, seen>>

\* Consumer c reads one register.
Read(c, r) ==
    /\ r \in todo[c]
    /\ seen' = [seen EXCEPT ![c][r] = ver[r]]
    /\ todo' = [todo EXCEPT ![c] = @ \ {r}]
    /\ UNCHANGED <<ver, announced, flag>>

\* Power is lost; every thread starts again and reads the stored registers.
Restart ==
    /\ announced' = [c \in Consumer |-> ver]
    /\ seen' = [c \in Consumer |-> [r \in Register |-> 0]]
    /\ flag' = [c \in Consumer |-> FALSE]
    /\ todo' = Reads
    /\ UNCHANGED ver

Next ==
    \/ \E r \in Register : Store(r)
    \/ \E c \in Consumer : Notify(c) \/ Begin(c) \/ \E r \in Register : Read(c, r)
    \/ Restart

Spec == Init /\ [][Next]_vars

-----------------------------------------------------------------------------
(***************************************************************************)
(* No store that was announced to a thread is missed by it: either the     *)
(* thread has read the register since (or read a newer value), or it is    *)
(* still going to read it.                                                 *)
(***************************************************************************)
NothingMissed ==
    \A c \in Consumer : \A r \in Reads[c] :
        seen[c][r] >= announced[c][r] \/ flag[c] \/ r \in todo[c]

=============================================================================
