---------------------------- MODULE MCSerialServer ----------------------------
(***************************************************************************)
(* Instances of SerialServer for TLC.                                      *)
(***************************************************************************)
EXTENDS SerialServer

S(class, data, size) == [class |-> class, data |-> data, size |-> size]

\* Requests to read, and to write one register with function 16; the answer
\* of another slave with one register, and a request of function 22.
MCShape == [read   |-> S("single", 0, 8), write |-> S("multiple", 2, 11),
            answer |-> S("single", 0, 7), mask  |-> S("none", 0, 10)]

===============================================================================
