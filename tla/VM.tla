---------------------------------- MODULE VM ----------------------------------
(***************************************************************************)
(* The stack machine of src/debugger/vm_debug.c: its heap, its mark and    *)
(* sweep collector, and vm_step.  Every program of the shell has its own   *)
(* VM, but the variables are in one static array vars[] that all VMs       *)
(* share, so the module models all the VMs together.                       *)
(*                                                                         *)
(* Memory is a partial function: value has in its DOMAIN the addresses of  *)
(* the Objects that are allocated, and vm the PIDs whose VM is allocated.  *)
(* malloc may return any free address, one that was used before included,  *)
(* so a pointer that outlives its object may alias a new one.              *)
(***************************************************************************)
EXTENDS Instructions, FiniteSets, Functions

CONSTANTS
  MAX_PID,     \* bound: the number of programs a session submits
  Objects,     \* the addresses malloc can return for an Object
  STACK_SIZE,  \* the length of VM.stack
  MAX_VARS,    \* the length of vars[]
  MAX_STEPS,   \* instructions a VM executes before it refuses to go on
  IRs          \* linked code, as compile_program can leave it in a Program

PIDs == 1 .. MAX_PID
NoPID == 0

ASSUME BoundsAssumption ==
  /\ MAX_PID \in Nat \ {0}
  /\ INT_MAX \in Nat \ {0}
  /\ STACK_SIZE \in Nat
  /\ MAX_VARS \in Nat
  /\ MAX_STEPS \in Nat

\* After ir_resolve_labels every jump has an index of the code as its value,
\* and a constant fits in an int.
ASSUME IRsAssumption ==
  \A ir \in IRs :
    /\ ir \in Seq(IRInstr)
    /\ \A i \in DOMAIN ir :
         /\ ir[i].op \in {"JMP", "JZ"} => ir[i].value \in 0 .. Len(ir) - 1
         /\ ir[i].op = "LOAD_CONST" => ir[i].value \in Ints

VARIABLES
  value,    \* Object.value of the allocated objects
  marked,   \* the allocated objects whose Object.marked is true
  globals,  \* vars[0 .. var_count-1]: the Object each name refers to
  vm,       \* the allocated VMs: [ir, pc, stack, heap, breakpoints, steps]
  owner     \* auxiliary: the VM that vm_init last emptied vars[] for, until
            \* another one stores a variable or the VM is destroyed

vmVars == <<value, marked, globals, vm, owner>>

Live == DOMAIN value

\* a partial function f with x mapped to y
Bind(f, x, y) == [z \in DOMAIN f \cup {x} |-> IF z = x THEN y ELSE f[z]]

(***************************************************************************)
(* Allocation and collection.                                              *)
(***************************************************************************)

\* heap_alloc, but for the heap list of the VM, which its callers extend
heap_alloc(o, n) ==
  /\ o \in Objects \ Live
  /\ value' = Bind(value, o, n)
  /\ UNCHANGED marked

Roots(v) == Range(vm[v].stack) \cup Range(globals)

\* Mutants of Kept, Dead and MarksLeft: the variables are not marked, the sweep
\* takes objects off other heaps, survivors keep their mark
Kept_StackOnly(v) == marked \cup (Range(vm[v].stack) \cap Live)
Dead_Anywhere(v) == Live \ (marked \cup Roots(v))
MarksLeft_All(v) == marked \cup (Roots(v) \cap Live)

\* gc_collect marks what v's stack and every variable refer to, whoever
\* allocated it, ...
Kept(v) == marked \cup (Roots(v) \cap Live)

\* ... and sweeps the heap of v alone ...
Dead(v) == vm[v].heap \ Kept(v)

\* ... where the survivors get their mark cleared.
MarksLeft(v) == Kept(v) \ vm[v].heap

gc_collect(v) ==
  /\ value' = Restrict(value, Live \ Dead(v))
  /\ marked' = MarksLeft(v)
  /\ vm' = [vm EXCEPT ![v].heap = @ \ Dead(v)]
  /\ UNCHANGED <<globals, owner>>

\* mark() writes to a freed object: the allocator's own data may be damaged
MarksFreedMemory(v) == ~ (Roots(v) \subseteq Live)

\* Mutant of vm_init: var_count is not reset
vm_init_KeepsVars(v, ir) ==
  /\ vm' = Bind(vm, v, [ir |-> ir, pc |-> 0, stack |-> <<>>, heap |-> {},
                        breakpoints |-> {}, steps |-> 0])
  /\ owner' = v
  /\ UNCHANGED <<value, marked, globals>>

\* vm_init forgets the heap list without freeing what is on it
vm_init(v, ir) ==
  /\ vm' = Bind(vm, v, [ir |-> ir, pc |-> 0, stack |-> <<>>, heap |-> {},
                        breakpoints |-> {}, steps |-> 0])
  /\ globals' = [n \in {} |-> NoPID]
  /\ owner' = v
  /\ UNCHANGED <<value, marked>>

\* vm_destroy and the free of the VM that follows it in program_destroy.
\* vars[] keeps its pointers.
vm_destroy(v) ==
  /\ value' = Restrict(value, Live \ vm[v].heap)
  /\ marked' = marked \ vm[v].heap
  /\ vm' = Restrict(vm, DOMAIN vm \ {v})
  /\ owner' = IF owner = v THEN NoPID ELSE owner
  /\ UNCHANGED globals

(***************************************************************************)
(* One instruction.                                                        *)
(***************************************************************************)

AtEnd(v) == vm[v].pc >= Len(vm[v].ir)
AtBreakpoint(v) == vm[v].pc \in vm[v].breakpoints

\* vm_step returns false and executes nothing.  (It counts a step that it
\* refuses because of MAX_STEPS; steps stops at the limit here, because from
\* there on every step is refused whatever the count.)
Refuses(v) == AtEnd(v) \/ AtBreakpoint(v) \/ vm[v].steps = MAX_STEPS

Instr(v) == vm[v].ir[vm[v].pc + 1]

\* Reading an object that was freed gives whatever the memory holds.
Read(o) == IF o \in Live THEN {value[o]} ELSE Ints

Depth(v) == Len(vm[v].stack)
Top(v) == vm[v].stack[Depth(v)]
Below(v) == vm[v].stack[Depth(v) - 1]

\* The stack without the operands of the instruction at the pc
Popped(v) == SubSeq(vm[v].stack, 1, Depth(v) - Pops(Instr(v).op))

\* push, pop and set_var check no bound: the access is outside its array
Overruns(v) ==
  LET i == Instr(v)
  IN  \/ Depth(v) < Pops(i.op)
      \/ Pushes(i.op) /\ Depth(v) - Pops(i.op) >= STACK_SIZE
      \/ /\ i.op = "STORE_VAR"
         /\ i.name \notin DOMAIN globals
         /\ Cardinality(DOMAIN globals) >= MAX_VARS

Allocates(v) ==
  \/ Instr(v).op \in BinaryOps \cup {"LOAD_CONST"}
  \/ Instr(v).op = "LOAD_VAR" /\ Instr(v).name \notin DOMAIN globals

\* Mutant of Advance: the step is not counted
Advance_Uncounted(v, pc, stack, new) ==
  vm' = [vm EXCEPT ![v].pc = pc, ![v].stack = stack, ![v].heap = @ \cup new]

\* v goes on at pc with this stack and these objects added to its heap
Advance(v, pc, stack, new) ==
  vm' = [vm EXCEPT ![v].pc = pc, ![v].stack = stack,
                   ![v].heap = @ \cup new, ![v].steps = @ + 1]

PushNew(v, n) ==
  \E o \in Objects :
    /\ heap_alloc(o, n)
    /\ Advance(v, vm[v].pc + 1, Append(Popped(v), o), {o})
    /\ UNCHANGED <<globals, owner>>

LoadConst(v) ==
  /\ Instr(v).op = "LOAD_CONST"
  /\ PushNew(v, Instr(v).value)

Binary(v) ==
  /\ Instr(v).op \in BinaryOps
  /\ \E a \in Read(Below(v)), b \in Read(Top(v)) :
       /\ ~ Traps(Instr(v).op, a, b)
       /\ PushNew(v, Evaluate(Instr(v).op, a, b))

Jump(v) ==
  /\ Instr(v).op \in {"JMP", "LABEL"}
  /\ Advance(v, IF Instr(v).op = "JMP" THEN Instr(v).value ELSE vm[v].pc + 1,
             vm[v].stack, {})
  /\ UNCHANGED <<value, marked, globals, owner>>

JumpIfZero(v) ==
  /\ Instr(v).op = "JZ"
  /\ \E a \in Read(Top(v)) :
       Advance(v, IF a = 0 THEN Instr(v).value ELSE vm[v].pc + 1, Popped(v), {})
  /\ UNCHANGED <<value, marked, globals, owner>>

\* A variable that was never stored reads as a new object with value 0.
LoadUnset(v) ==
  /\ Instr(v).op = "LOAD_VAR"
  /\ Instr(v).name \notin DOMAIN globals
  /\ PushNew(v, 0)

LoadVar(v) ==
  /\ Instr(v).op = "LOAD_VAR"
  /\ Instr(v).name \in DOMAIN globals
  /\ Advance(v, vm[v].pc + 1, Append(vm[v].stack, globals[Instr(v).name]), {})
  /\ UNCHANGED <<value, marked, globals, owner>>

\* Mutant of StoreVar: the object that the variable refers to is overwritten
StoreVar_InPlace(v) ==
  LET n == Instr(v).name
  IN  /\ Instr(v).op = "STORE_VAR"
      /\ IF n \in DOMAIN globals
         THEN value' = [value EXCEPT ![globals[n]] = value[Top(v)]] /\ UNCHANGED globals
         ELSE globals' = Bind(globals, n, Top(v)) /\ UNCHANGED value
      /\ Advance(v, vm[v].pc + 1, Popped(v), {})
      /\ UNCHANGED <<marked, owner>>

StoreVar(v) ==
  /\ Instr(v).op = "STORE_VAR"
  /\ globals' = Bind(globals, Instr(v).name, Top(v))
  /\ owner' = IF owner = v THEN v ELSE NoPID
  /\ Advance(v, vm[v].pc + 1, Popped(v), {})
  /\ UNCHANGED <<value, marked>>

\* A call of vm_step that returns true
vm_step(v) ==
  /\ ~ Refuses(v)
  /\ ~ Overruns(v)
  /\ \/ LoadConst(v)
     \/ Binary(v)
     \/ Jump(v)
     \/ JumpIfZero(v)
     \/ LoadUnset(v)
     \/ LoadVar(v)
     \/ StoreVar(v)

\* A call of vm_step that ends the shell: a division that traps, or a malloc
\* that returns NULL, which heap_alloc does not test
StepIsFatal(v) ==
  /\ ~ Refuses(v)
  /\ ~ Overruns(v)
  /\ \/ Allocates(v) /\ Objects \subseteq Live
     \/ /\ Instr(v).op \in BinaryOps
        /\ \E a \in Read(Below(v)), b \in Read(Top(v)) : Traps(Instr(v).op, a, b)

\* A call of vm_step whose outcome C does not define
StepIsUndefined(v) == ~ Refuses(v) /\ Overruns(v)
===============================================================================
