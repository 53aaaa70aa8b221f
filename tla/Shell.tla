--------------------------------- MODULE Shell ---------------------------------
(***************************************************************************)
(* The shell as a whole: the loop of src/shell/src/main.cpp with the       *)
(* dispatch of builtins.cpp, over the program manager (Programs) and job   *)
(* control (JobControl).  Both wait at the same prompt; a line that was    *)
(* parsed goes to one of them.  Whatever ends the process ends both.       *)
(*                                                                         *)
(* A line is what the dispatch looks at: the first word, its argument, how *)
(* many commands the pipeline has, and whether it ends in &.               *)
(***************************************************************************)
EXTENDS Integers, Sequences, FiniteSets, Functions, FiniteSetsExt

CONSTANTS
  MAX_PID, Objects, INT_MAX, STACK_SIZE, MAX_VARS, MAX_STEPS, IRs, NoIR,
  Pids, shell_pgid, shell_interactive, MAX_JOBS, MAX_PIPE,
  Directories  \* where cd can go

VARIABLES
  value, marked, globals, vm, owner, program_table, next_pid, pat, cur,
  procs, terminal, jobs, next_job_id, spawned, command, jat, waited,
  cwd          \* the working directory, which commands inherit

programVars == <<value, marked, globals, vm, owner, program_table, next_pid, pat, cur>>
jobVars == <<procs, terminal, jobs, next_job_id, spawned, command, jat, waited>>
vars == <<programVars, jobVars, cwd>>

jobTable == <<jobs, terminal, waited>>
shellState == <<programVars, cwd>>

P == INSTANCE Programs WITH at <- pat
J == INSTANCE JobControl WITH at <- jat

\* The constants are those of the parts.
ASSUME ShellAssumption ==
  P!BoundsAssumption /\ P!IRsAssumption /\ P!NoIRAssumption /\ J!JobAssumption

(***************************************************************************)
(* Lines.                                                                  *)
(***************************************************************************)

\* The words handle_program_commands knows, with history, which main answers
\* before, those run_builtin knows, and the README's quit, which stands for
\* every other command.
Builtins == {"cd", "exit", "jobs", "fg", "bg", "export"}
OnlyPrinting == {"history", "list", "ir", "memstat", "leaks"}
WithPid == {"compile", "ir", "run", "memstat", "leaks", "gc", "kill", "debug"}
ProgramCommands == WithPid \cup {"submit", "list", "history"}
Words == Builtins \cup ProgramCommands \cup {"quit"}

\* The argument: none, digits that are an int or are not, or something else.
None == [is |-> "none", number |-> 0]

Argument ==
  {[is |-> kind, number |-> 0] : kind \in {"word", "too big"}}
    \cup {[is |-> "number", number |-> n] : n \in 1 .. 1 + Max({MAX_PID, MAX_JOBS})}

\* & is nothing to the commands that look at an argument.
Line ==
  [word : Words, arg : {None}, length : 1 .. MAX_PIPE, background : BOOLEAN]
    \cup [word : WithPid \cup {"submit", "cd", "fg", "bg"}, arg : Argument,
          length : 1 .. MAX_PIPE, background : {FALSE}]

(***************************************************************************)
(* The end of the process.                                                 *)
(***************************************************************************)

AtPrompt == pat = "prompt" /\ jat = "prompt"

\* exit, the end of the input, or an exception of stoi that nobody catches;
\* the children live on
ShellEnds == P!Exit /\ J!Exit

\* A program that the shell executes takes the shell with it.
EndsTogether == IF pat' \in {"exited", "undefined"} THEN J!Exit ELSE UNCHANGED jobVars

(***************************************************************************)
(* handle_program_commands, which looks at the first command only: the     *)
(* rest of a pipeline and & are ignored.  Nothing is reaped after it.      *)
(***************************************************************************)

NothingHappens == UNCHANGED <<programVars, jobVars>>

\* stoi of the argument, after the usage line; kill tests for digits before,
\* but digits may be too many
Throws(line) ==
  /\ line.word \in WithPid
  /\ \/ line.arg.is = "too big"
     \/ line.arg.is = "word" /\ line.word # "kill"

Usage(line) == line.word \in WithPid \cup {"submit"} /\ line.arg = None

\* A compilation may be needed, and fail
MayFail(line, p) ==
  \/ line.word = "compile"
  \/ line.word \in {"run", "debug"} /\ program_table[p].ir = NoIR

OnProgram(line, p) ==
  \/ line.word = "compile" /\ P!Compile(p)
  \/ line.word = "run" /\ P!Run(p)
  \/ line.word = "debug" /\ P!Debug(p)
  \/ line.word = "kill" /\ P!Kill(p)
  \/ line.word = "gc" /\ (P!Gc(p) \/ P!CorruptingGc(p))

ProgramCommand(line) ==
  /\ line.word \in ProgramCommands
  /\ UNCHANGED cwd
  /\ IF Usage(line) \/ (line.word \in OnlyPrinting /\ ~ Throws(line)) THEN NothingHappens
     ELSE IF line.word = "submit" THEN P!Submit /\ UNCHANGED jobVars
     ELSE IF Throws(line) THEN ShellEnds
     ELSE IF line.arg.number \notin DOMAIN program_table THEN NothingHappens
     ELSE \/ OnProgram(line, line.arg.number) /\ EndsTogether
          \/ MayFail(line, line.arg.number) /\ NothingHappens

(***************************************************************************)
(* run_builtin                                                             *)
(***************************************************************************)

\* Mutant of is_builtin: the number of commands is not looked at
is_builtin_First(line) == line.word \in Builtins

\* & is not looked at
is_builtin(line) == line.length = 1 /\ line.word \in Builtins

\* Mutant of parse_job_id: what is no number is taken for the latest job
parse_job_id_Lenient(line) ==
  IF line.arg.is = "number" THEN line.arg.number ELSE Max({0} \cup DOMAIN jobs)

\* The number of a job, by its argument or the latest, or 0 for none.  stoi's
\* exceptions are caught.
parse_job_id(line) ==
  IF line.arg = None THEN Max({0} \cup DOMAIN jobs) ELSE line.arg.number

\* fg and bg
JobBuiltin(line) ==
  LET j == parse_job_id(line)
  IN  IF j \notin DOMAIN jobs THEN J!OtherBuiltin
      ELSE \/ line.word = "fg" /\ J!Fg(j)
           \/ line.word = "bg" /\ J!Bg(j)

\* A directory may be missing
ChangeDirectory(line) == cwd' \in IF line.word = "cd" THEN Directories ELSE {cwd}

run_builtin(line) ==
  /\ ChangeDirectory(line)
  /\ \/ line.word = "exit" /\ ShellEnds
     \/ line.word \in {"fg", "bg"} /\ JobBuiltin(line) /\ UNCHANGED programVars
     \/ line.word \in {"cd", "jobs", "export"} /\ J!OtherBuiltin /\ UNCHANGED programVars

(***************************************************************************)
(* The loop.                                                               *)
(***************************************************************************)

\* execute_command gets the pipeline and the & of the line.
Pipeline(line) ==
  /\ J!Execute
  /\ command' = [length |-> line.length, background |-> line.background]
  /\ UNCHANGED <<programVars, cwd>>

Dispatch(line) ==
  /\ AtPrompt
  /\ IF line.word \in ProgramCommands THEN ProgramCommand(line)
     ELSE IF is_builtin(line) THEN run_builtin(line)
     ELSE Pipeline(line)

EndOfInput == ShellEnds /\ UNCHANGED cwd

\* run and debug have not returned yet
InProgram ==
  /\ pat \in {"run", "dbg", "continue"}
  /\ P!Executor \/ P!Debugger \/ P!Die \/ P!Overrun \/ P!CorruptingGc(cur)
  /\ EndsTogether
  /\ UNCHANGED cwd

\* A pipeline is spawned, waited for or reaped.
InJobControl ==
  /\ J!Spawning \/ (\E p \in DOMAIN procs : J!Status(p)) \/ J!ReapEnd
  /\ UNCHANGED <<programVars, cwd>>

\* The children go on all the time.
Kernel ==
  /\ \E p \in DOMAIN procs : J!Process(p)
  /\ UNCHANGED <<programVars, cwd>>

Init == P!Init /\ J!Init /\ cwd \in Directories

Next ==
  \/ \E line \in Line : Dispatch(line)
  \/ EndOfInput
  \/ InProgram
  \/ InJobControl
  \/ Kernel

Spec == Init /\ [][Next]_vars

(***************************************************************************)
(* Properties.                                                             *)
(***************************************************************************)

Ended == jat = "exited"

\* A prompt, the shell's or the debugger's, reads from a terminal the shell
\* owns: no way to it leaves the keyboard with a job (LeaveWait before it,
\* and no program command while a job is waited for).
PromptsOwnTerminal ==
  shell_interactive /\ (AtPrompt \/ pat = "dbg") => terminal = shell_pgid

\* executor.cpp:119 "do NOT exit the shell", for the pipelines it speaks of:
\* cd and exit in a pipeline of several commands change nothing of the shell.
LongLines == {line \in Line : line.word \in {"cd", "exit"} /\ line.length > 1}

PipelinesKeepShell ==
  [][AtPrompt /\ (Ended' \/ ~ UNCHANGED shellState) =>
       \A line \in LongLines : ~ Dispatch(line)]_vars

\* Whatever is typed after fg and bg, the shell and its programs survive it,
\* and a number of no job changes no job (parse_job_id).
JobLines == {line \in Line : line.word \in {"fg", "bg"} /\ line.length = 1}

RefusedLines == {line \in JobLines : line.arg # None /\ line.arg.number \notin DOMAIN jobs}

BadJobsAreRefused ==
  [][AtPrompt =>
       /\ Ended' \/ ~ UNCHANGED programVars => \A line \in JobLines : ~ Dispatch(line)
       /\ ~ UNCHANGED <<jobTable, procs>> => \A line \in RefusedLines : ~ Dispatch(line)]_vars
===============================================================================
