----------------------------- MODULE ShellProofs -----------------------------
(***************************************************************************)
(* Proofs about Shell.  The shell implements both of its parts, so what    *)
(* ProgramsProofs and JobControlProofs prove of the program manager and of *)
(* job control holds of the shell, whatever is typed and however the two   *)
(* are interleaved; and three things that neither part says alone.         *)
(***************************************************************************)
EXTENDS Shell, TLAPS

\* A step of each part, or a stutter of it
ProgramsStep == P!Next \/ UNCHANGED programVars
JobsStep == J!Next \/ UNCHANGED jobVars

(***************************************************************************)
(* What the actions of the shell do to its parts.                          *)
(***************************************************************************)

LEMMA TogetherSteps ==
  ASSUME EndsTogether
  PROVE  J!Exit \/ UNCHANGED jobVars
BY DEF EndsTogether

LEMMA EndSteps ==
  ASSUME ShellEnds
  PROVE  ProgramsStep /\ J!Exit
BY DEF ShellEnds, ProgramsStep, P!Next

LEMMA OnProgramSteps ==
  ASSUME NEW line, NEW p \in DOMAIN program_table, OnProgram(line, p)
  PROVE  P!Next
<1>1. CASE P!Command(p)
  BY <1>1 DEF P!Next
<1>2. CASE P!CorruptingGc(p)
  <2>1. p \in DOMAIN vm
    BY <1>2 DEF P!CorruptingGc
  <2> QED
    BY <1>2, <2>1 DEF P!Next, P!NoReturn
<1> QED
  BY <1>1, <1>2 DEF OnProgram, P!Command

\* A program command leaves job control alone, or ends it with the shell.
LEMMA ProgramCommandSteps ==
  ASSUME NEW line, ProgramCommand(line)
  PROVE  ProgramsStep /\ (J!Exit \/ UNCHANGED jobVars)
<1>1. CASE NothingHappens
  BY <1>1 DEF NothingHappens, ProgramsStep
<1>2. CASE P!Submit /\ UNCHANGED jobVars
  BY <1>2 DEF ProgramsStep, P!Next
<1>3. CASE ShellEnds
  BY <1>3, EndSteps
<1>4. CASE /\ line.arg.number \in DOMAIN program_table
           /\ OnProgram(line, line.arg.number) /\ EndsTogether
  BY <1>4, OnProgramSteps, TogetherSteps DEF ProgramsStep
<1> QED
  BY <1>1, <1>2, <1>3, <1>4 DEF ProgramCommand

\* fg and bg are given a job of the table or none.
LEMMA JobBuiltinSteps ==
  ASSUME NEW line, JobBuiltin(line)
  PROVE  J!Builtin
BY DEF JobBuiltin, J!Builtin

LEMMA BuiltinSteps ==
  ASSUME NEW line, run_builtin(line)
  PROVE  ProgramsStep /\ J!Next
<1>1. CASE line.word = "exit" /\ ShellEnds
  BY <1>1, EndSteps DEF J!Next, J!Builtin
<1>2. CASE JobBuiltin(line) /\ UNCHANGED programVars
  BY <1>2, JobBuiltinSteps DEF J!Next, ProgramsStep
<1>3. CASE J!OtherBuiltin /\ UNCHANGED programVars
  BY <1>3 DEF J!Next, J!Builtin, ProgramsStep
<1> QED
  BY <1>1, <1>2, <1>3 DEF run_builtin

LEMMA DispatchSteps ==
  ASSUME NEW line, Dispatch(line)
  PROVE  ProgramsStep /\ JobsStep
<1>1. CASE ProgramCommand(line)
  BY <1>1, ProgramCommandSteps DEF JobsStep, J!Next, J!Builtin
<1>2. CASE run_builtin(line)
  BY <1>2, BuiltinSteps DEF JobsStep
<1>3. CASE Pipeline(line)
  BY <1>3 DEF Pipeline, ProgramsStep, JobsStep, J!Next
<1> QED
  BY <1>1, <1>2, <1>3 DEF Dispatch

LEMMA InProgramSteps ==
  ASSUME InProgram
  PROVE  ProgramsStep /\ (J!Exit \/ UNCHANGED jobVars)
<1>1. P!Next
  <2>1. CASE P!Executor \/ P!Debugger \/ P!Die \/ P!Overrun
    BY <2>1 DEF P!Next, P!NoReturn
  <2>2. CASE P!CorruptingGc(cur)
    <3>1. cur \in DOMAIN vm
      BY <2>2 DEF P!CorruptingGc
    <3> QED
      BY <2>2, <3>1 DEF P!Next, P!NoReturn
  <2> QED
    BY <2>1, <2>2 DEF InProgram
<1> QED
  BY <1>1, TogetherSteps DEF InProgram, ProgramsStep

LEMMA OutsideSteps ==
  ASSUME InJobControl \/ Kernel
  PROVE  UNCHANGED programVars /\ J!Next
BY DEF InJobControl, Kernel, J!Next

\* Every step of the shell is a step of each part, or leaves it alone.
LEMMA StepsOfTheParts ==
  ASSUME [Next]_vars
  PROVE  ProgramsStep /\ JobsStep
<1>1. ASSUME NEW line \in Line, Dispatch(line) PROVE ProgramsStep /\ JobsStep
  BY <1>1, DispatchSteps
<1>2. CASE EndOfInput
  BY <1>2, EndSteps DEF EndOfInput, JobsStep, J!Next, J!Builtin
<1>3. CASE InProgram
  BY <1>3, InProgramSteps DEF JobsStep, J!Next, J!Builtin
<1>4. CASE InJobControl \/ Kernel
  BY <1>4, OutsideSteps DEF ProgramsStep, JobsStep
<1>5. CASE UNCHANGED vars
  BY <1>5 DEF vars, ProgramsStep, JobsStep
<1> QED
  BY <1>1, <1>2, <1>3, <1>4, <1>5 DEF Next
(***************************************************************************)
(* The terminal at the prompts.                                            *)
(***************************************************************************)

Executing == pat \in {"run", "dbg", "continue"}

\* While a program is executed or debugged job control waits at its prompt, and
\* outside the wait for a job the terminal is the shell's.
IInv ==
  /\ Executing => jat = "prompt"
  /\ shell_interactive /\ jat # "wait" => terminal = shell_pgid

\* A program that ends the shell is not being executed any more.
LEMMA TogetherEnds ==
  ASSUME EndsTogether, jat = "prompt"
  PROVE  Executing' => jat' = "prompt"
BY DEF EndsTogether, Executing, jobVars

\* Only the wait for a job, and the way into it, moves the terminal.
LEMMA JobsKeepTerminal ==
  ASSUME JobsStep, shell_interactive, jat # "wait" => terminal = shell_pgid
  PROVE  jat' # "wait" => terminal' = shell_pgid
<1>1. ASSUME NEW p \in DOMAIN procs, J!Process(p) PROVE UNCHANGED <<jat, terminal>>
  BY <1>1 DEF J!Process, J!Stop, J!Continue, J!End
<1>2. ASSUME NEW p \in DOMAIN procs, J!AbortReap(p) \/ J!Reap(p)
      PROVE UNCHANGED <<jat, terminal>>
  BY <1>2 DEF J!AbortReap, J!Reap
<1>3. ASSUME NEW p \in DOMAIN procs, J!Wait(p) PROVE jat' # "wait" => terminal' = shell_pgid
  BY <1>3 DEF J!Wait, J!LeaveWait, J!give_terminal_to
<1>4. CASE J!Execute \/ J!Spawn \/ J!SpawnFails \/ J!AbortEnd \/ J!ReapEnd
  BY <1>4 DEF J!Execute, J!Spawn, J!SpawnFails, J!AbortEnd, J!ReapEnd, J!kernel
<1>5. CASE J!Register
  BY <1>5 DEF J!Register
<1>6. ASSUME NEW j \in DOMAIN jobs, J!Fg(j) \/ J!Bg(j)
      PROVE jat' # "wait" => terminal' = shell_pgid
  BY <1>6 DEF J!Fg, J!Bg
<1>7. CASE J!OtherBuiltin \/ J!Exit \/ UNCHANGED jobVars
  BY <1>7 DEF J!OtherBuiltin, J!Exit, J!kernel, jobVars
<1> QED
  BY <1>1, <1>2, <1>3, <1>4, <1>5, <1>6, <1>7
     DEF JobsStep, J!Next, J!Status, J!Spawning, J!Builtin

\* A program is executed only when job control stays at its prompt.
LEMMA ExecutingKeepsPrompt ==
  ASSUME IInv, [Next]_vars
  PROVE  Executing' => jat' = "prompt"
<1>1. CASE ShellEnds
  BY <1>1 DEF ShellEnds, P!Exit, Executing
<1>2. ASSUME NEW line \in Line, Dispatch(line) PROVE Executing' => jat' = "prompt"
  <2>1. pat = "prompt" /\ jat = "prompt"
    BY <1>2 DEF Dispatch, AtPrompt
  <2>2. CASE ProgramCommand(line)
    BY <1>1, <2>1, <2>2, TogetherEnds DEF ProgramCommand, NothingHappens, jobVars
  <2>3. CASE run_builtin(line) \/ Pipeline(line)
    <3>1. ShellEnds \/ UNCHANGED programVars
      BY <2>3 DEF run_builtin, Pipeline
    <3> QED
      BY <1>1, <2>1, <3>1 DEF programVars, Executing
  <2> QED
    BY <1>2, <2>2, <2>3 DEF Dispatch
<1>3. CASE EndOfInput
  BY <1>1, <1>3 DEF EndOfInput
<1>4. CASE InProgram
  BY <1>4, TogetherEnds DEF InProgram, IInv, Executing
<1>5. CASE InJobControl
  <2>1. jat # "prompt" /\ UNCHANGED pat
    BY <1>5 DEF InJobControl, programVars, J!Spawning, J!Spawn, J!SpawnFails, J!Register,
         J!AbortEnd, J!Status, J!AbortReap, J!Wait, J!Reap, J!ReapEnd
  <2> QED
    BY <2>1 DEF IInv, Executing
<1>6. CASE Kernel
  BY <1>6 DEF Kernel, programVars, J!Process, J!Stop, J!Continue, J!End, IInv, Executing
<1>7. CASE UNCHANGED vars
  BY <1>7 DEF vars, programVars, jobVars, IInv, Executing
<1> QED
  BY <1>2, <1>3, <1>4, <1>5, <1>6, <1>7 DEF Next

LEMMA Invariance == Spec => []IInv
<1>1. Init => IInv
  BY DEF Init, P!Init, J!Init, IInv, Executing
<1>2. IInv /\ [Next]_vars => IInv'
  BY ExecutingKeepsPrompt, StepsOfTheParts, JobsKeepTerminal DEF IInv
<1> QED
  BY <1>1, <1>2, PTL DEF Spec

(***************************************************************************)
(* Theorems.                                                               *)
(***************************************************************************)

\* To the program manager, the virtual machines and the debugger the shell is
\* what Programs says: dispatch, job control and the children add no step of
\* theirs, so every theorem of ProgramsProofs holds in the shell.
THEOREM ProgramsImplemented == Spec => P!Spec
<1>1. Init => P!Init
  BY DEF Init
<1>2. [Next]_vars => [P!Next]_(P!vars)
  BY StepsOfTheParts DEF ProgramsStep, programVars, P!vars
<1> QED
  BY <1>1, <1>2, PTL DEF Spec, P!Spec

\* To the jobs, their processes and the terminal the shell is what JobControl
\* says, whatever programs are executed meanwhile, so every theorem of
\* JobControlProofs holds in the shell.
THEOREM JobControlImplemented == Spec => J!Spec
<1>1. Init => J!Init
  BY DEF Init
<1>2. [Next]_vars => [J!Next]_(J!vars)
  BY StepsOfTheParts DEF JobsStep, jobVars, J!vars
<1> QED
  BY <1>1, <1>2, PTL DEF Spec, J!Spec

\* The shell's prompt and the debugger's read from a terminal the shell owns, in
\* every interleaving of programs, jobs and children.
THEOREM PromptsAreInForeground == Spec => []PromptsOwnTerminal
<1>1. IInv => PromptsOwnTerminal
  BY DEF IInv, PromptsOwnTerminal, AtPrompt, Executing
<1> QED
  BY <1>1, Invariance, PTL

\* cd and exit in a pipeline of several commands do nothing to the shell itself
\* (is_builtin, handle_program_commands and the order in which main asks them).
THEOREM LongLinesKeepShell == Spec => PipelinesKeepShell
<1>1. ASSUME NEW line \in LongLines, Dispatch(line)
      PROVE  ~ Ended' /\ UNCHANGED shellState
  <2>1. Pipeline(line)
    BY <1>1 DEF LongLines, Dispatch, is_builtin, ProgramCommands, WithPid
  <2> QED
    BY <2>1 DEF Pipeline, J!Execute, Ended, shellState
<1>2. [Next]_vars =>
        (AtPrompt /\ (Ended' \/ ~ UNCHANGED shellState) =>
           \A line \in LongLines : ~ Dispatch(line))
  BY <1>1
<1> QED
  BY <1>2, PTL DEF Spec, PipelinesKeepShell
\* fg and bg are answered by job control, which has a job for them or does nothing.
LEMMA JobLinesAsk ==
  ASSUME NEW line \in JobLines, Dispatch(line)
  PROVE  JobBuiltin(line) /\ UNCHANGED programVars
BY DEF JobLines, Dispatch, is_builtin, Builtins, ProgramCommands, WithPid, run_builtin

\* Whatever follows fg and bg, the shell stays and no program notices; a number of
\* no job changes no job, no process and not the terminal (parse_job_id and what
\* run_builtin does with its answer).
THEOREM BadJobsChangeNothing == Spec => BadJobsAreRefused
<1>1. ASSUME NEW line \in JobLines, Dispatch(line)
      PROVE  ~ Ended' /\ UNCHANGED programVars
  <2>1. J!OtherBuiltin \/ \E j \in DOMAIN jobs : J!Fg(j) \/ J!Bg(j)
    BY <1>1, JobLinesAsk DEF JobBuiltin
  <2> QED
    BY <1>1, <2>1, JobLinesAsk DEF J!OtherBuiltin, J!Fg, J!Bg, Ended
<1>2. ASSUME NEW line \in RefusedLines, Dispatch(line)
      PROVE  UNCHANGED <<jobTable, procs>>
  <2>1. line \in JobLines /\ parse_job_id(line) \notin DOMAIN jobs
    BY <1>2 DEF RefusedLines, parse_job_id
  <2>2. J!OtherBuiltin
    BY <1>2, <2>1, JobLinesAsk DEF JobBuiltin
  <2> QED
    BY <2>2 DEF J!OtherBuiltin, J!kernel, J!table, jobTable
<1>3. [Next]_vars =>
        (AtPrompt =>
           /\ Ended' \/ ~ UNCHANGED programVars => \A line \in JobLines : ~ Dispatch(line)
           /\ ~ UNCHANGED <<jobTable, procs>> => \A line \in RefusedLines : ~ Dispatch(line))
  BY <1>1, <1>2
<1> QED
  BY <1>3, PTL DEF Spec, BadJobsAreRefused
===============================================================================
