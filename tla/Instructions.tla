----------------------------- MODULE Instructions -----------------------------
(***************************************************************************)
(* The instruction set of src/core/ir.h and the arithmetic of vm_step in   *)
(* src/debugger/vm_debug.c: what an instruction does to numbers, whatever  *)
(* machine keeps them.                                                     *)
(***************************************************************************)
EXTENDS Integers, Sequences

CONSTANT INT_MAX   \* the largest int; the least one is -INT_MAX - 1

INT_MIN == -INT_MAX - 1
Ints == INT_MIN .. INT_MAX

BinaryOps == {"ADD", "SUB", "MUL", "DIV", "EQ", "NE", "LT", "GT", "LE", "GE"}
IROp == BinaryOps \cup {"LOAD_CONST", "LOAD_VAR", "STORE_VAR", "JMP", "JZ", "LABEL"}

NoName == ""   \* of an instruction or a node without one; a string, as TLC knows
IRInstr == [op : IROp, value : Int, name : STRING \cup {NoName}, line : Nat]

Wrap(n) == ((n - INT_MIN) % (2 * (INT_MAX + 1))) + INT_MIN
Magnitude(n) == IF n < 0 THEN -n ELSE n
Truth(b) == IF b THEN 1 ELSE 0

\* C's integer division truncates towards zero
Quotient(a, b) ==
  LET q == Magnitude(a) \div Magnitude(b)
  IN  IF (a < 0) = (b < 0) THEN q ELSE -q

Evaluate(op, a, b) ==
  CASE op = "ADD" -> Wrap(a + b)
    [] op = "SUB" -> Wrap(a - b)
    [] op = "MUL" -> Wrap(a * b)
    [] op = "DIV" -> Quotient(a, b)
    [] op = "EQ"  -> Truth(a = b)
    [] op = "NE"  -> Truth(a # b)
    [] op = "LT"  -> Truth(a < b)
    [] op = "GT"  -> Truth(a > b)
    [] op = "LE"  -> Truth(a <= b)
    [] op = "GE"  -> Truth(a >= b)

\* exit(1) on a zero divisor, SIGFPE when the quotient is no int
Traps(op, a, b) == op = "DIV" /\ (b = 0 \/ (a = INT_MIN /\ b = -1))

Pops(op) == IF op \in BinaryOps THEN 2 ELSE IF op \in {"JZ", "STORE_VAR"} THEN 1 ELSE 0
Pushes(op) == op \in BinaryOps \cup {"LOAD_CONST", "LOAD_VAR"}

Change(op) == (IF Pushes(op) THEN 1 ELSE 0) - Pops(op)

(***************************************************************************)
(* What properties of code are stated with.                                *)
(***************************************************************************)

\* d is how deep the stack is before each instruction of ir and at its end: the
\* same whatever way the jumps take, enough for the instruction, and nothing at
\* the two ends.
AreDepths(d, ir) ==
  /\ d \in [1 .. Len(ir) + 1 -> Nat]
  /\ d[1] = 0 /\ d[Len(ir) + 1] = 0
  /\ \A i \in DOMAIN ir :
       /\ d[i] >= Pops(ir[i].op)
       /\ ir[i].op # "JMP" => d[i + 1] = d[i] + Change(ir[i].op)
       /\ ir[i].op \in {"JMP", "JZ"} => d[ir[i].value + 1] = d[i] + Change(ir[i].op)

\* The depths along the code, as if no jump were taken
DepthsOf(ir) ==
  LET d[i \in 1 .. Len(ir) + 1] == IF i = 1 THEN 0 ELSE d[i - 1] + Change(ir[i - 1].op)
  IN  d

Balanced(ir) == AreDepths(DepthsOf(ir), ir)
===============================================================================
