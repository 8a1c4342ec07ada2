---------------------------- MODULE MCConnection ----------------------------
(***************************************************************************)
(* Small instances of Connection.                                          *)
(***************************************************************************)
EXTENDS Connection

\* A call to one process, and one to the same process or to another.
TwoProcesses == {"api1", "api2"}
TwoCalls == {"c1", "c2"}
MCServedBy == [c \in Calls |-> IF c = "c1" THEN {"api1"} ELSE Processes]
=============================================================================
