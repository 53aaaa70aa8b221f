-------------------------------- MODULE MCShell --------------------------------
(***************************************************************************)
(* A small instance of Shell for TLC: one program, next to one job of up   *)
(* to two processes.  There is memory for one object, so a program that is *)
(* debugged twice ends the shell as it allocates.                          *)
(***************************************************************************)
EXTENDS Shell, TLC

I(op, val, name, line) == [op |-> op, value |-> val, name |-> name, line |-> line]

\* var x;
Code == {<< I("LOAD_CONST", 0, "", 1), I("STORE_VAR", 0, "x", 1) >>}

Symmetry == Permutations(Pids) \cup Permutations(Directories)
===============================================================================
