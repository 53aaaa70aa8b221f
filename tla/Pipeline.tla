------------------------------- MODULE Pipeline -------------------------------
(***************************************************************************)
(* The descriptors of a pipeline: spawn_pipeline, run_child and            *)
(* setup_redirections of src/shell/src/executor.cpp.  Process groups, jobs *)
(* and waiting are in module JobControl.                                   *)
(*                                                                         *)
(* Process 0 is the shell, process p the child of command p, and pipe p    *)
(* leads from command p to the next one.  The programs are modelled by     *)
(* what they do to their standard input and output; each of them dies of   *)
(* SIGPIPE and SIGTERM, which the shell leaves at their default.           *)
(***************************************************************************)
EXTENDS Integers, Sequences, Functions

CONSTANTS
  Pipelines,   \* the pipelines that are typed: sequences of commands
  MAX_PIPE,    \* bound: commands of a pipeline
  MAX_FD,      \* bound: the largest descriptor
  CAPACITY,    \* items a pipe holds
  DATA         \* items echo writes

\* "cd" stands for the two commands that run_child does itself.
Programs == {"echo", "cat", "head", "yes", "cd"}

ASSUME PipelineAssumption ==
  /\ Pipelines \subseteq Seq([program : Programs, input : BOOLEAN, output : BOOLEAN])
  /\ \A c \in Pipelines : Len(c) \in 1 .. MAX_PIPE
  /\ MAX_PIPE \in Nat /\ MAX_FD \in Nat /\ CAPACITY \in Nat \ {0} /\ DATA \in Nat

VARIABLES
  commands,
  fds,            \* process -> its table: descriptor -> open file
  i,              \* the command spawn_pipeline is at
  at,             \* the shell: "pipe", "fork", "close", "done", "failed"
  pipefd,         \* <<read, write>> of the pipe behind command i, or NoPipe
  prev_read_fd,   \* the descriptor to read the pipe before it from, or NoFd
  child,          \* command -> "none", "forked", "inherited", "running", "exited"
  inherited,      \* command -> pipefd and prev_read_fd when it was forked
  content,        \* pipe -> items in it
  todo,           \* command -> items to write before it reads again
  reads           \* command -> it goes on reading its input

shell == <<i, at, pipefd, prev_read_fd>>
programs == <<content, todo, reads>>
vars == <<commands, fds, shell, child, inherited, programs>>

NoFd == -1
NoPipe == <<NoFd, NoFd>>
Kids == DOMAIN commands

Std == 0 .. 2
StdTable == [n \in Std |-> <<"std", n>>]
Closed == [n \in {} |-> <<"std", 0>>]

Init ==
  /\ commands \in Pipelines
  /\ fds = [p \in 0 .. Len(commands) |-> IF p = 0 THEN StdTable ELSE Closed]
  /\ i = 1
  /\ at = "pipe"
  /\ pipefd = NoPipe
  /\ prev_read_fd = NoFd
  /\ child = [p \in Kids |-> "none"]
  /\ inherited = [p \in Kids |-> [pipefd |-> NoPipe, prev |-> NoFd]]
  /\ content = [p \in Kids |-> 0]
  /\ todo = [p \in Kids |-> CASE commands[p].program = "echo" -> DATA
                              [] commands[p].program = "yes" -> 1
                              [] OTHER -> 0]
  /\ reads = [p \in Kids |-> commands[p].program \in {"cat", "head"}]

(***************************************************************************)
(* The system calls, as functions of a table.                              *)
(***************************************************************************)

\* The lowest free descriptor, if there is one
Free(t) == {n \in 0 .. MAX_FD : n \notin DOMAIN t /\ 0 .. n - 1 \subseteq DOMAIN t}

Opened(t, n, file) == [m \in DOMAIN t \cup {n} |-> IF m = n THEN file ELSE t[m]]
dup2(t, old, new) == Opened(t, new, t[old])

\* close, of a descriptor that may be NoFd; the code tests for that
close(t, n) == Restrict(t, DOMAIN t \ {n})

\* dup2 to a standard descriptor and close of the old one, when there is one
Moved(t, old, new) == IF old = NoFd THEN t ELSE close(dup2(t, old, new), old)

(***************************************************************************)
(* The shell: spawn_pipeline.                                              *)
(***************************************************************************)

need_pipe == i < Len(commands)

MakePipe ==
  /\ at = "pipe" /\ need_pipe
  /\ \E r \in Free(fds[0]) : \E w \in Free(Opened(fds[0], r, <<"read", i>>)) :
       /\ fds' = [fds EXCEPT ![0] = Opened(Opened(@, r, <<"read", i>>), w, <<"write", i>>)]
       /\ pipefd' = <<r, w>>
  /\ at' = "fork"
  /\ UNCHANGED <<commands, i, prev_read_fd, child, inherited, programs>>

LastCommand ==
  /\ at = "pipe" /\ ~ need_pipe
  /\ pipefd' = NoPipe
  /\ at' = "fork"
  /\ UNCHANGED <<commands, fds, i, prev_read_fd, child, inherited, programs>>

Fork ==
  /\ at = "fork"
  /\ fds' = [fds EXCEPT ![i] = fds[0]]
  /\ child' = [child EXCEPT ![i] = "forked"]
  /\ inherited' = [inherited EXCEPT ![i] = [pipefd |-> pipefd, prev |-> prev_read_fd]]
  /\ at' = "close"
  /\ UNCHANGED <<commands, i, pipefd, prev_read_fd, programs>>

\* Mutant of ShellTable: the shell keeps the end it gave to the child before
ShellTable_Reads == close(fds[0], pipefd[2])

ShellTable == close(close(fds[0], pipefd[2]), prev_read_fd)

\* What the parent does after the fork
CloseEnds ==
  /\ at = "close"
  /\ fds' = [fds EXCEPT ![0] = ShellTable]
  /\ prev_read_fd' = pipefd[1]
  /\ pipefd' = NoPipe
  /\ i' = i + 1
  /\ at' = IF need_pipe THEN "pipe" ELSE "done"
  /\ UNCHANGED <<commands, child, inherited, programs>>

\* Mutant of FailedTable: only the new pipe is closed
FailedTable_KeepsPrevious == close(close(fds[0], pipefd[1]), pipefd[2])

FailedTable == close(close(close(fds[0], pipefd[1]), pipefd[2]), prev_read_fd)

\* pipe or fork fails, and terminate_group kills the children there are.
SpawnFails ==
  /\ at = "fork" \/ (at = "pipe" /\ need_pipe)
  /\ fds' = [p \in DOMAIN fds |-> IF p = 0 THEN FailedTable ELSE Closed]
  /\ child' = [p \in Kids |-> IF child[p] = "none" THEN "none" ELSE "exited"]
  /\ at' = "failed"
  /\ UNCHANGED <<commands, i, pipefd, prev_read_fd, inherited, programs>>

(***************************************************************************)
(* The children: run_child.                                                *)
(***************************************************************************)

\* Mutant of Inherited: the reading end of the child's own pipe stays open
Inherited_Reads(p) ==
  Moved(Moved(fds[p], inherited[p].prev, 0), inherited[p].pipefd[2], 1)

Inherited(p) ==
  Moved(Moved(close(fds[p], inherited[p].pipefd[1]), inherited[p].prev, 0),
        inherited[p].pipefd[2], 1)

Inherit(p) ==
  /\ child[p] = "forked"
  /\ fds' = [fds EXCEPT ![p] = Inherited(p)]
  /\ child' = [child EXCEPT ![p] = "inherited"]
  /\ UNCHANGED <<commands, shell, inherited, programs>>

\* open, which returns the lowest free descriptor, then Moved
OpenedOn(t, wanted, file, new) ==
  IF wanted THEN {Moved(Opened(t, n, file), n, new) : n \in Free(t)} ELSE {t}

\* setup_redirections, when the files can be opened
Redirected(p) ==
  UNION {OpenedOn(t, commands[p].output, <<"output", p>>, 1) :
         t \in OpenedOn(fds[p], commands[p].input, <<"input", p>>, 0)}

\* The program starts.
Exec(p) ==
  /\ child[p] = "inherited"
  /\ commands[p].program # "cd"
  /\ \E t \in Redirected(p) : fds' = [fds EXCEPT ![p] = t]
  /\ child' = [child EXCEPT ![p] = "running"]
  /\ UNCHANGED <<commands, shell, inherited, programs>>

Exited(p) ==
  /\ child' = [child EXCEPT ![p] = "exited"]
  /\ fds' = [fds EXCEPT ![p] = Closed]
  /\ UNCHANGED <<commands, shell, inherited, programs>>

\* _exit: a file cannot be opened, there is no such program, or it is cd or exit.
DoNotExec(p) == child[p] = "inherited" /\ Exited(p)

(***************************************************************************)
(* The programs (external).                                                *)
(***************************************************************************)

Holds(p, file) == \E n \in DOMAIN fds[p] : fds[p][n] = file
Held(file) == \E p \in DOMAIN fds : Holds(p, file)

\* The pipes p reads from and writes to: one or none
Source(p) == {k \in Kids : 0 \in DOMAIN fds[p] /\ fds[p][0] = <<"read", k>>}
Sink(p) == {k \in Kids : 1 \in DOMAIN fds[p] /\ fds[p][1] = <<"write", k>>}

Writes(p) == child[p] = "running" /\ todo[p] > 0
Reads(p) == child[p] = "running" /\ todo[p] = 0 /\ reads[p]

\* write returns: there is room in the pipe, or it is a file
Write(p) ==
  /\ Writes(p)
  /\ \A k \in Sink(p) : Held(<<"read", k>>) /\ content[k] < CAPACITY
  /\ content' = [k \in Kids |-> IF k \in Sink(p) THEN content[k] + 1 ELSE content[k]]
  /\ todo' = [todo EXCEPT ![p] = IF commands[p].program = "yes" THEN @ ELSE @ - 1]
  /\ UNCHANGED <<commands, fds, shell, child, inherited, reads>>

\* SIGPIPE: nobody can read it
BrokenPipe(p) ==
  /\ Writes(p)
  /\ \E k \in Sink(p) : ~ Held(<<"read", k>>)
  /\ Exited(p)

\* read returns an item
Read(p) ==
  /\ Reads(p)
  /\ \E k \in Source(p) : content[k] > 0 /\ content' = [content EXCEPT ![k] = @ - 1]
  /\ todo' = [todo EXCEPT ![p] = 1]
  /\ reads' = [reads EXCEPT ![p] = commands[p].program = "cat"]
  /\ UNCHANGED <<commands, fds, shell, child, inherited>>

\* read returns 0: nobody can write to the pipe any more, or the file is empty
EndOfFile(p) ==
  /\ Reads(p)
  /\ \A k \in Source(p) : content[k] = 0 /\ ~ Held(<<"write", k>>)
  /\ reads' = [reads EXCEPT ![p] = FALSE]
  /\ UNCHANGED <<commands, fds, shell, child, inherited, content, todo>>

Finish(p) ==
  /\ child[p] = "running" /\ todo[p] = 0 /\ ~ reads[p]
  /\ Exited(p)

Shell == MakePipe \/ LastCommand \/ Fork \/ CloseEnds \/ SpawnFails
Child(p) == \/ Inherit(p) \/ Exec(p) \/ DoNotExec(p)
            \/ Write(p) \/ BrokenPipe(p) \/ Read(p) \/ EndOfFile(p) \/ Finish(p)

Next == Shell \/ \E p \in Kids : Child(p)

Spec == Init /\ [][Next]_vars

\* The shell and every child get to run; a blocked one is disabled.
FairSpec == Spec /\ WF_vars(Shell) /\ \A p \in 1 .. MAX_PIPE : WF_vars(p \in Kids /\ Child(p))

(***************************************************************************)
(* Properties.                                                             *)
(***************************************************************************)

\* What the standard input and output of command p should be: the file it was
\* redirected to, else the pipe, else what the shell was started with
ExpectedInput(p) == IF commands[p].input THEN <<"input", p>>
                    ELSE IF p = 1 THEN <<"std", 0>> ELSE <<"read", p - 1>>
ExpectedOutput(p) == IF commands[p].output THEN <<"output", p>>
                     ELSE IF p = Len(commands) THEN <<"std", 1>> ELSE <<"write", p>>

\* A program runs with the input and output its command asks for and with
\* no other descriptor: a redirection wins over the pipe, and no end of any
\* pipe leaks into a program, however long the pipeline (run_child).
ChildEnds ==
  \A p \in Kids : child[p] = "running" =>
    fds[p] = [n \in Std |-> CASE n = 0 -> ExpectedInput(p)
                              [] n = 1 -> ExpectedOutput(p)
                              [] OTHER -> <<"std", 2>>]

\* When spawn_pipeline returns, the shell is left with the descriptors it was
\* started with, whichever pipe or fork failed: none leaks with a command.
ShellKeepsNone == at \in {"done", "failed"} => fds[0] = StdTable

\* Every pipeline of programs that stop at the end of their input or when nobody
\* reads their output comes to an end: neither the shell nor a child
\* holds an end of a pipe that a program waits to see closed.
PipelineFinishes ==
  <>[](at \in {"done", "failed"} /\ \A p \in Kids : child[p] \in {"none", "exited"})
===============================================================================
