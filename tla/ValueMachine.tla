----------------------------- MODULE ValueMachine -----------------------------
(***************************************************************************)
(* What the programmer of an EDM program may believe: there is one program *)
(* at a time, its stack and its variables hold numbers, and nothing but    *)
(* its own instructions changes them.  No heap, no collector, no addresses *)
(* and no other programs.                                                  *)
(***************************************************************************)
EXTENDS Instructions

CONSTANTS
  PIDs,   \* the programs
  IRs     \* linked code

VARIABLES
  who,    \* the program, 0 when there is none
  code,
  pc,
  stack,  \* of numbers
  store   \* name -> number

vars == <<who, code, pc, stack, store>>

Nobody ==
  /\ who = 0
  /\ code = << >>
  /\ pc = 0
  /\ stack = << >>
  /\ store = [n \in {} |-> 0]

\* A program starts with nothing on the stack and no variables.
Start ==
  /\ who' \in PIDs
  /\ code' \in IRs
  /\ pc' = 0
  /\ stack' = << >>
  /\ store' = [n \in {} |-> 0]

\* It is killed, or loses its variables.
End == Nobody'

Instr == code[pc + 1]
Depth == Len(stack)
Top == stack[Depth]
Below == stack[Depth - 1]

\* The operands go, n is pushed.
Push(n) ==
  /\ stack' = Append(SubSeq(stack, 1, Depth - Pops(Instr.op)), n)
  /\ pc' = pc + 1
  /\ UNCHANGED store

Constant == Instr.op = "LOAD_CONST" /\ Push(Instr.value)

Operation ==
  /\ Instr.op \in BinaryOps
  /\ ~ Traps(Instr.op, Below, Top)
  /\ Push(Evaluate(Instr.op, Below, Top))

\* A variable that was never stored is 0.
Load ==
  /\ Instr.op = "LOAD_VAR"
  /\ Push(IF Instr.name \in DOMAIN store THEN store[Instr.name] ELSE 0)

Store ==
  /\ Instr.op = "STORE_VAR"
  /\ store' = [n \in DOMAIN store \cup {Instr.name} |->
                 IF n = Instr.name THEN Top ELSE store[n]]
  /\ stack' = SubSeq(stack, 1, Depth - 1)
  /\ pc' = pc + 1

Jump ==
  /\ Instr.op \in {"JMP", "LABEL"}
  /\ pc' = IF Instr.op = "JMP" THEN Instr.value ELSE pc + 1
  /\ UNCHANGED <<stack, store>>

Branch ==
  /\ Instr.op = "JZ"
  /\ pc' = IF Top = 0 THEN Instr.value ELSE pc + 1
  /\ stack' = SubSeq(stack, 1, Depth - 1)
  /\ UNCHANGED store

Step ==
  /\ pc < Len(code)
  /\ Depth >= Pops(Instr.op)
  /\ Constant \/ Operation \/ Load \/ Store \/ Jump \/ Branch
  /\ UNCHANGED <<who, code>>

Next == Start \/ End \/ Step

Spec == Nobody /\ [][Next]_vars
===============================================================================
