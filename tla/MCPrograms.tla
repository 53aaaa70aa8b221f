------------------------------ MODULE MCPrograms ------------------------------
(***************************************************************************)
(* Small instances of Programs for TLC.  The constants are the code that   *)
(* the compiler makes of short source files; jumps are resolved.           *)
(***************************************************************************)
EXTENDS Programs, TLC

I(op, val, name, line) == [op |-> op, value |-> val, name |-> name, line |-> line]

\* var x = 1;
\* x = x + 1;
Increment ==
  << I("LOAD_CONST", 1, "", 1), I("STORE_VAR", 0, "x", 1),
     I("LOAD_VAR", 0, "x", 2), I("LOAD_CONST", 1, "", 2), I("ADD", 0, "", 2),
     I("STORE_VAR", 0, "x", 2) >>

\* var x = 1;
\* while (x) ;
Spin ==
  << I("LOAD_CONST", 1, "", 1), I("STORE_VAR", 0, "x", 1),
     I("LABEL", 0, "", 2), I("LOAD_VAR", 0, "x", 2), I("JZ", 6, "", 2),
     I("JMP", 2, "", 2), I("LABEL", 1, "", 2) >>

\* var x;
\* if (x) ; else x = 1 / x;
Divide ==
  << I("LOAD_CONST", 0, "", 1), I("STORE_VAR", 0, "x", 1),
     I("LOAD_VAR", 0, "x", 2), I("JZ", 5, "", 2), I("JMP", 10, "", 2),
     I("LABEL", 0, "", 2), I("LOAD_CONST", 1, "", 2), I("LOAD_VAR", 0, "x", 2),
     I("DIV", 0, "", 2), I("STORE_VAR", 0, "x", 2), I("LABEL", 1, "", 2) >>

\* var x = x;   (x is declared before its initial value is looked at)
Self == << I("LOAD_VAR", 0, "x", 1), I("STORE_VAR", 0, "x", 1) >>

\* var x = 1;
Set == << I("LOAD_CONST", 1, "", 1), I("STORE_VAR", 0, "x", 1) >>

\* var x = 1; var y = x;
Two == Set \o << I("LOAD_VAR", 0, "x", 1), I("STORE_VAR", 0, "y", 1) >>

\* ;
Nothing == << >>

SharedCode == {Set, Self}
OneCode == {Increment, Spin, Divide, Two, Nothing}

\* As all code that gen_program makes (StackDiscipline of CompiledPrograms)
ASSUME CodeIsBalanced == \A ir \in SharedCode \cup OneCode : Balanced(ir)

Symmetry == Permutations(Objects)
===============================================================================
