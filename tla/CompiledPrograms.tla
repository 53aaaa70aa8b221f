--------------------------- MODULE CompiledPrograms ---------------------------
(***************************************************************************)
(* Sessions of the compiler and the machine: files are compiled one after  *)
(* the other, and the code of a file is executed by the ValueMachine,      *)
(* which the programs of the shell implement (module Meaning).             *)
(***************************************************************************)
EXTENDS Compilations, SourceScope

CONSTANT PIDs

VARIABLES
  who, code, pc, stack, store,   \* the machine
  source     \* auxiliary: the text the parser was given last

Machine == INSTANCE ValueMachine WITH IRs <- {}

machine == <<who, code, pc, stack, store>>
sessionVars == <<vars, machine, source>>

SessionInit == Init /\ Machine!Nobody /\ source = << >>

AtEnd == who # 0 /\ pc = Len(code)

\* The shell is at its prompt and the program, if there was one, is gone.
NoProgram ==
  /\ who' = 0
  /\ code' = << >>
  /\ pc' = 0
  /\ stack' = << >>
  /\ store' = [n \in {} |-> 0]

\* compile, at the shell's prompt; the file may be missing
Compile ==
  /\ who = 0 \/ AtEnd
  /\ \/ NoFile /\ source' = << >>
     \/ \E f \in FilesAfter(file) : compile_program(f) /\ source' = Content(f)
  /\ NoProgram

\* run, of a program that has not run yet
Run ==
  /\ who = 0 /\ result.ok
  /\ who' \in PIDs
  /\ code' = result.ir
  /\ UNCHANGED <<vars, source, pc, stack, store>>

Execute == who # 0 /\ Machine!Step /\ UNCHANGED <<vars, source>>

SessionNext == Compile \/ Run \/ Execute
SessionSpec == SessionInit /\ [][SessionNext]_sessionVars

(***************************************************************************)
(* Properties.                                                             *)
(***************************************************************************)

\* The compiler accepts the sources in which every name is declared once and
\* before it is used, and no others, in the order of the text but for the step of
\* a for, which counts as behind its body, and of a declared name, which counts as
\* before its initial value (semantic_check).
AcceptsWellScoped ==
  who = 0 /\ compilations > 0 /\ ErrorsIn(source) = {} =>
    (result.ok <=> source # << >> /\ WellScoped(source))

\* Between two statements the stack is empty, no instruction lacks an operand,
\* and the stack is never deeper than the deepest expression needs: push can
\* pass STACK_SIZE only for an expression nested that deep (gen_expr, vm_step).
\* The code shows it, for the ways that are not taken as well.
StackDiscipline ==
  who # 0 =>
    /\ Balanced(code)
    /\ pc \in 0 .. Len(code)
    /\ stack # << >> => \E n \in NeedsOf(source) : Machine!Depth <= n
    /\ pc = Len(code) => stack = << >>
    /\ pc < Len(code) =>
         /\ Machine!Depth >= Pops(Machine!Instr.op)
         /\ Machine!Instr.op = "LABEL" => stack = << >>
         /\ Machine!Instr.op \in {"STORE_VAR", "JZ"} => Machine!Depth = 1

\* Whatever earlier compilations left in the label counter, no two labels of
\* the code have the same id and every jump goes to a label
\* (new_label, gen_stmt, ir_resolve_labels; the machines take it for granted).
JumpsAreLinked ==
  who # 0 =>
    /\ Linked(code)
    /\ \A i, j \in DOMAIN code :
         IsLabel(code[i]) /\ IsLabel(code[j]) /\ code[i].value = code[j].value => i = j
    /\ \A i \in DOMAIN code : IsJump(code[i]) => IsLabel(code[code[i].value + 1])
===============================================================================
