--------------------------- MODULE MCSyscallFilter ----------------------------
(* A small instance of SyscallFilter: every combination of two ABIs, listed *)
(* and other calls, and arguments that look like each other's.             *)
EXTENDS SyscallFilter

AllowedCalls   == <<10, 11, 12>>
FcntlCommands  == <<1, 3>>
AnyCall ==
    [arch : {1, 2}, nr : {1, 7, 10, 11, 12, 13, 20, 21}, arg0 : {7, 8}, arg1 : 1..4]
=============================================================================
