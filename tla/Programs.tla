------------------------------- MODULE Programs -------------------------------
(***************************************************************************)
(* The program manager: handle_program_commands of                         *)
(* src/shell/src/builtins.cpp over program_table and next_pid of main.cpp, *)
(* with the Program life cycle of src/core/program.c, the part of          *)
(* compile_program that a Program sees, and the executor and debugger      *)
(* loops of vm_debug.c.  The shell has one thread: while at is not         *)
(* "prompt" the command that was typed has not returned yet.               *)
(***************************************************************************)
EXTENDS VM

States == {"SUBMITTED", "READY", "RUNNING", "PAUSED", "TERMINATED"}

CONSTANT NoIR   \* the null pointer of a Program that is not compiled

ASSUME NoIRAssumption == NoIR \notin IRs

VARIABLES
  program_table,  \* PID -> [state, ir] of the Programs in the map
  next_pid,       \* the PID of the next submit
  at,             \* where the shell's thread is
  cur             \* the program that run or debug was called for

vars == <<value, marked, globals, vm, owner, program_table, next_pid, at, cur>>

\* "run" and "continue" are the loop of vm_executor, called by run and by the
\* debugger; "dbg" is the debugger's prompt.  "exited" is the shell's own exit
\* or one a program forced, "undefined" an access C does not define.
Locations == {"prompt", "run", "dbg", "continue", "exited", "undefined"}

Init ==
  /\ value = [o \in {} |-> 0]
  /\ marked = {}
  /\ globals = [n \in {} |-> NoPID]
  /\ vm = [p \in {} |-> NoPID]
  /\ owner = NoPID
  /\ program_table = [p \in {} |-> NoPID]
  /\ next_pid = 1
  /\ at = "prompt"
  /\ cur = NoPID

\* The code a command that needs code works with: what is there, or what
\* compile_program makes of the file now.  When the compiler rejects the file
\* the command returns and nothing has changed.
CodeFor(p) == IF program_table[p].ir = NoIR THEN IRs ELSE {program_table[p].ir}

SetProgram(p, state, ir) ==
  program_table' = [program_table EXCEPT ![p] = [state |-> state, ir |-> ir]]

(***************************************************************************)
(* Commands at the shell's prompt.                                         *)
(***************************************************************************)

Submit ==
  /\ at = "prompt"
  /\ next_pid <= MAX_PID
  /\ program_table' = Bind(program_table, next_pid, [state |-> "SUBMITTED", ir |-> NoIR])
  /\ next_pid' = next_pid + 1
  /\ UNCHANGED <<vmVars, at, cur>>

\* Mutant of Compile: the state is left as it was
Compile_KeepsState(p) ==
  /\ at = "prompt"
  /\ \E ir \in IRs : SetProgram(p, program_table[p].state, ir)
  /\ UNCHANGED <<vmVars, next_pid, at, cur>>

\* The file may have changed since it was last compiled.  The Program gets
\* the new code, its VM keeps the pointer to the code it was made with.
Compile(p) ==
  /\ at = "prompt"
  /\ \E ir \in IRs : SetProgram(p, "READY", ir)
  /\ UNCHANGED <<vmVars, next_pid, at, cur>>

\* run, up to the call of vm_executor: the first run makes the VM, a later
\* one goes on with it
Run(p) ==
  /\ at = "prompt"
  /\ \E ir \in CodeFor(p) :
       /\ SetProgram(p, "RUNNING", ir)
       /\ IF p \in DOMAIN vm THEN UNCHANGED vmVars ELSE vm_init(p, ir)
  /\ at' = "run"
  /\ cur' = p
  /\ UNCHANGED next_pid

\* The gc command
Gc(p) ==
  /\ at = "prompt"
  /\ p \in DOMAIN vm
  /\ gc_collect(p)
  /\ UNCHANGED <<program_table, next_pid, at, cur>>

\* Mutant of program_destroy: the VM is not freed
program_destroy_LeavesVM(p) == UNCHANGED vmVars

program_destroy(p) == IF p \in DOMAIN vm THEN vm_destroy(p) ELSE UNCHANGED vmVars

\* kill: program_destroy and the erase from the table
Kill(p) ==
  /\ at = "prompt"
  /\ program_destroy(p)
  /\ program_table' = Restrict(program_table, DOMAIN program_table \ {p})
  /\ UNCHANGED <<next_pid, at, cur>>

\* debug, up to the call of vm_debug: a VM that exists is reset
Debug(p) ==
  /\ at = "prompt"
  /\ \E ir \in CodeFor(p) : SetProgram(p, "PAUSED", ir) /\ vm_init(p, ir)
  /\ at' = "dbg"
  /\ cur' = p
  /\ UNCHANGED next_pid

\* The exit builtin, or the end of the input
Exit ==
  /\ at = "prompt"
  /\ at' = "exited"
  /\ UNCHANGED <<vmVars, program_table, next_pid, cur>>

(***************************************************************************)
(* The executor, called by run or by the debugger's continue.              *)
(***************************************************************************)

Execute ==
  /\ at \in {"run", "continue"}
  /\ vm_step(cur)
  /\ UNCHANGED <<program_table, next_pid, at, cur>>

\* vm_step was refused in a run: gc, and the program is TERMINATED whatever
\* the reason was
RunEnd ==
  /\ at = "run"
  /\ Refuses(cur)
  /\ gc_collect(cur)
  /\ program_table' = [program_table EXCEPT ![cur].state = "TERMINATED"]
  /\ at' = "prompt"
  /\ cur' = NoPID
  /\ UNCHANGED next_pid

\* What debug does after vm_debug has returned
LeaveDebugger ==
  /\ at' = "prompt"
  /\ cur' = NoPID
  /\ program_table' = [program_table EXCEPT ![cur].state =
       IF vm[cur].pc >= Len(program_table[cur].ir) THEN "TERMINATED" ELSE "PAUSED"]
  /\ UNCHANGED next_pid

\* vm_step was refused in a continue: gc, and the debugger is left only when
\* the program is at its end
ContinueEnd ==
  /\ at = "continue"
  /\ Refuses(cur)
  /\ gc_collect(cur)
  /\ IF AtEnd(cur)
     THEN LeaveDebugger
     ELSE at' = "dbg" /\ UNCHANGED <<program_table, next_pid, cur>>

(***************************************************************************)
(* Commands at the debugger's prompt.                                      *)
(***************************************************************************)

DbgStep ==
  /\ at = "dbg"
  /\ vm_step(cur)
  /\ UNCHANGED <<program_table, next_pid, at, cur>>

\* A refused step leaves the debugger
DbgStepRefused ==
  /\ at = "dbg"
  /\ Refuses(cur)
  /\ LeaveDebugger
  /\ UNCHANGED vmVars

DbgContinue ==
  /\ at = "dbg"
  /\ at' = "continue"
  /\ UNCHANGED <<vmVars, program_table, next_pid, cur>>

\* break: the index of the first instruction of the source line
FirstOfLine(ir, i) == \A j \in 1 .. i - 1 : ir[j].line # ir[i].line

DbgBreak ==
  /\ at = "dbg"
  /\ \E i \in DOMAIN vm[cur].ir :
       /\ FirstOfLine(vm[cur].ir, i)
       /\ vm' = [vm EXCEPT ![cur].breakpoints = @ \cup {i - 1}]
  /\ UNCHANGED <<value, marked, globals, owner, program_table, next_pid, at, cur>>

DbgGc ==
  /\ at = "dbg"
  /\ gc_collect(cur)
  /\ UNCHANGED <<program_table, next_pid, at, cur>>

\* quit, or the end of the input
DbgQuit ==
  /\ at = "dbg"
  /\ LeaveDebugger
  /\ UNCHANGED vmVars

(***************************************************************************)
(* The ways a command does not return.                                     *)
(***************************************************************************)

\* The whole shell ends with the program it was executing.
Die ==
  /\ at \in {"run", "dbg", "continue"}
  /\ StepIsFatal(cur)
  /\ at' = "exited"
  /\ UNCHANGED <<vmVars, program_table, next_pid, cur>>

Overrun ==
  /\ at \in {"run", "dbg", "continue"}
  /\ StepIsUndefined(cur)
  /\ at' = "undefined"
  /\ UNCHANGED <<vmVars, program_table, next_pid, cur>>

\* A collection that follows a root to freed memory may also do no harm,
\* which is what Gc, RunEnd, ContinueEnd and DbgGc describe.
Collecting(p) ==
  \/ at = "prompt"
  \/ p = cur /\ at = "dbg"
  \/ p = cur /\ at \in {"run", "continue"} /\ Refuses(p)

CorruptingGc(p) ==
  /\ p \in DOMAIN vm
  /\ Collecting(p)
  /\ MarksFreedMemory(p)
  /\ at' = "undefined"
  /\ UNCHANGED <<vmVars, program_table, next_pid, cur>>

Command(p) ==
  \/ Compile(p)
  \/ Run(p)
  \/ Gc(p)
  \/ Kill(p)
  \/ Debug(p)

Executor == Execute \/ RunEnd \/ ContinueEnd

Debugger == DbgStep \/ DbgStepRefused \/ DbgContinue \/ DbgBreak \/ DbgGc \/ DbgQuit

NoReturn == Die \/ Overrun \/ \E p \in DOMAIN vm : CorruptingGc(p)

Next ==
  \/ Submit
  \/ Exit
  \/ \E p \in DOMAIN program_table : Command(p)
  \/ Executor
  \/ Debugger
  \/ NoReturn

\* The loop of vm_executor goes on until it returns or the shell ends.  Nothing
\* makes the user type a command, at either prompt.
Fairness == WF_vars(at \in {"run", "continue"} /\ (Executor \/ NoReturn))

Spec == Init /\ [][Next]_vars
FairSpec == Spec /\ Fairness

(***************************************************************************)
(* Properties.                                                             *)
(***************************************************************************)

VMs == [ir : IRs, pc : Nat, stack : Seq(Objects), heap : SUBSET Objects,
        breakpoints : SUBSET Nat, steps : 0 .. MAX_STEPS]

\* Type invariant: what every variable holds; a mark is only ever on an object
\* that is allocated, and a Program that has a VM is in the table.
TypeOK ==
  /\ DOMAIN value \subseteq Objects
  /\ \A o \in Live : value[o] \in Ints
  /\ marked \subseteq Live
  /\ DOMAIN globals \subseteq STRING \cup {NoName}
  /\ Range(globals) \subseteq Objects
  /\ DOMAIN vm \subseteq DOMAIN program_table
  /\ \A p \in DOMAIN vm : vm[p] \in VMs
  /\ owner \in DOMAIN vm \cup {NoPID}
  /\ DOMAIN program_table = PIDs \cap DOMAIN program_table
  /\ \A p \in DOMAIN program_table :
       program_table[p] \in [state : States, ir : IRs \cup {NoIR}]
  /\ next_pid \in 1 .. MAX_PID + 1
  /\ at \in Locations
  /\ cur \in DOMAIN program_table \cup {NoPID}

\* No double free: the heap lists of the VMs hold allocated objects only, and
\* no object is on two of them, so that a sweep or a kill frees each object
\* once, although malloc reuses addresses and every collection marks through
\* the variables that all VMs share (gc_collect, vm_destroy).
HeapsPartition ==
  /\ \A p \in DOMAIN vm : vm[p].heap \subseteq Live
  /\ \A p, q \in DOMAIN vm : p # q => vm[p].heap \cap vm[q].heap = {}

\* No use after free, as long as the program that last had vars[] emptied is
\* the only one that stores: everything its stack and the variables refer to
\* is on its own heap, whatever the other programs load, collect or free
\* meanwhile (vm_init, gc_collect, set_var).
OwnedRoots == owner # NoPID => Roots(owner) \subseteq vm[owner].heap

\* The state in the table agrees with what the Program has and with what the
\* shell is doing: code from READY on, a VM from RUNNING on, RUNNING only
\* inside run, and PAUSED with a VM whose code is the Program's, so that run
\* goes on with what the debugger showed (handle_program_commands).
LifecycleConsistent ==
  /\ \A p \in DOMAIN program_table :
       LET state == program_table[p].state
       IN  /\ (state = "SUBMITTED") <=> (program_table[p].ir = NoIR)
           /\ state \in {"RUNNING", "PAUSED", "TERMINATED"} => p \in DOMAIN vm
           /\ state = "RUNNING" => cur = p /\ at \in {"run", "exited", "undefined"}
           /\ state = "PAUSED" => vm[p].ir = program_table[p].ir
  /\ at = "prompt" => cur = NoPID
  /\ at = "run" => cur # NoPID /\ program_table[cur].state = "RUNNING"
  /\ at \in {"dbg", "continue"} => cur # NoPID /\ program_table[cur].state = "PAUSED"

\* In a session of one program, when the executor stops at the end of the code
\* the heap holds the values of the variables and nothing else: the temporaries
\* are gone and what memstat calls leaked are the globals (the gc_collect that
\* vm_executor ends with).
LeaksAreVariables ==
  [][(RunEnd \/ ContinueEnd) /\ next_pid = 2 /\ AtEnd(cur)
       => vm'[cur].heap = Range(globals)]_vars

\* An object is never changed after it was made, so a variable and the stack may
\* share it; only its release ends it (heap_alloc is the only writer of value).
ObjectsAreImmutable ==
  [][\A o \in Live : o \in DOMAIN value' => value'[o] = value[o]]_vars

\* Whatever the program is, run and continue come back to a prompt or end the
\* shell: an endless loop is cut by MAX_STEPS (vm_step, vm_executor).
ExecutorReturns == at \in {"run", "continue"} ~> at \notin {"run", "continue"}
===============================================================================
