------------------------------ MODULE JobControl ------------------------------
(***************************************************************************)
(* Job control: src/shell/src/executor.cpp, as the loop of main.cpp and    *)
(* the fg, bg and jobs builtins call it.  The shell forks one process per  *)
(* command of a pipeline, puts them in a process group of their own, and   *)
(* follows them with waitpid.                                              *)
(*                                                                         *)
(* The kernel is modelled from how the code uses it: the shell's children  *)
(* it has not reaped, the group of each, one note per child that a waitpid *)
(* can pick up, and the group that owns the terminal.  Processes run       *)
(* between any two steps of the shell.                                     *)
(***************************************************************************)
EXTENDS Integers, Sequences, FiniteSets, Functions

CONSTANTS
  Pids,               \* process ids the kernel gives to the shell's children
  shell_pgid,         \* the shell's own process group
  shell_interactive,  \* standard input is a terminal
  MAX_JOBS,           \* bound: jobs registered in a session
  MAX_PIPE            \* bound: commands of a pipeline

ASSUME JobAssumption ==
  /\ shell_pgid \notin Pids
  /\ shell_interactive \in BOOLEAN
  /\ MAX_JOBS \in Nat
  /\ MAX_PIPE \in Nat \ {0}

VARIABLES
  procs,        \* the kernel: pid -> [st, pg, note] of the unreaped children
  terminal,     \* the kernel: the foreground process group of the terminal
  jobs,         \* id -> [pgid, pids, state, background]; ids only grow, so
                \* the order of the vector is that of the ids
  next_job_id,
  spawned,      \* result.pids while spawn_pipeline runs
  command,      \* the Command being executed: its length and background
  at,           \* where the shell's thread is
  waited        \* the job of put_job_in_foreground_internal

vars == <<procs, terminal, jobs, next_job_id, spawned, command, at, waited>>
kernel == <<procs, terminal>>
table == <<jobs, next_job_id>>

NoJob == 0
Ids == 1 .. MAX_JOBS

Bind(f, x, y) == [z \in DOMAIN f \cup {x} |-> IF z = x THEN y ELSE f[z]]

Init ==
  /\ procs = [p \in {} |-> NoJob]
  /\ terminal = shell_pgid
  /\ jobs = [j \in {} |-> NoJob]
  /\ next_job_id = 1
  /\ spawned = << >>
  /\ command = [length |-> 1, background |-> FALSE]
  /\ at = "prompt"
  /\ waited = NoJob

(***************************************************************************)
(* The kernel and the processes.                                           *)
(***************************************************************************)

Children(pg) == {p \in DOMAIN procs : procs[p].pg = pg}

\* A pid is not given out again while it names a child or a group of children.
FreePids == Pids \ UNION {{p, procs[p].pg} : p \in DOMAIN procs}

Zombie(p) == procs[p].st = "zombie"

\* What waitpid returns for p: with WUNTRACED stops too, with WCONTINUED
\* continuations too
Reportable(p, notes) == Zombie(p) \/ procs[p].note \in notes

\* kill(-pg, SIGCONT): a stop that was not reported yet never will be
Continued(pg) ==
  [p \in DOMAIN procs |->
     IF procs[p].pg = pg /\ procs[p].st = "stopped"
     THEN [procs[p] EXCEPT !.st = "running", !.note = "continued"]
     ELSE procs[p]]

\* waitpid has returned p
Collected(p) ==
  IF Zombie(p) THEN Restrict(procs, DOMAIN procs \ {p})
               ELSE [procs EXCEPT ![p].note = "none"]

give_terminal_to(pg) == terminal' = IF shell_interactive THEN pg ELSE terminal

\* A child stops, on a signal from the keyboard, from another process, or as
\* it uses the terminal in the background.
Stop(p) ==
  /\ procs[p].st = "running"
  /\ procs' = [procs EXCEPT ![p].st = "stopped", ![p].note = "stopped"]
  /\ UNCHANGED <<terminal, table, spawned, command, at, waited>>

\* Somebody else continues it.
Continue(p) ==
  /\ procs[p].st = "stopped"
  /\ procs' = [procs EXCEPT ![p].st = "running", ![p].note = "continued"]
  /\ UNCHANGED <<terminal, table, spawned, command, at, waited>>

\* It exits or is killed.
End(p) ==
  /\ ~ Zombie(p)
  /\ procs' = [procs EXCEPT ![p].st = "zombie", ![p].note = "none"]
  /\ UNCHANGED <<terminal, table, spawned, command, at, waited>>

(***************************************************************************)
(* Executing a command.                                                    *)
(***************************************************************************)

Execute ==
  /\ at = "prompt"
  /\ next_job_id \in Ids
  /\ command' \in [length : 1 .. MAX_PIPE, background : BOOLEAN]
  /\ spawned' = << >>
  /\ at' = "spawn"
  /\ UNCHANGED <<kernel, table, waited>>

\* Mutant of ChildGroup: every child gets a group of its own
ChildGroup_Own(p) == p

\* the group of the next child p: that of the first one
ChildGroup(p) == IF spawned = << >> THEN p ELSE spawned[1]

\* One iteration of spawn_pipeline.  Parent and child both call setpgid, so
\* the child is in the group of the first one before anything else happens.
Spawn ==
  /\ at = "spawn"
  /\ Len(spawned) < command.length
  /\ \E p \in FreePids :
       /\ spawned' = Append(spawned, p)
       /\ procs' = Bind(procs, p, [st |-> "running", pg |-> ChildGroup(p), note |-> "none"])
  /\ UNCHANGED <<terminal, table, command, at, waited>>

\* pipe or fork fails.  terminate_group has a group to signal when a child
\* was forked; that SIGTERM is one of the reasons for End.
SpawnFails ==
  /\ at = "spawn"
  /\ Len(spawned) < command.length
  /\ at' = IF spawned = << >> THEN "reap" ELSE "abort"
  /\ UNCHANGED <<kernel, table, spawned, command, waited>>

\* The waitpid of terminate_group, which does not wait for the children that
\* are still there
AbortReap(p) ==
  /\ at = "abort"
  /\ procs[p].pg = spawned[1]
  /\ Reportable(p, {})
  /\ procs' = Collected(p)
  /\ UNCHANGED <<terminal, table, spawned, command, at, waited>>

AbortEnd ==
  /\ at = "abort"
  /\ \A p \in Children(spawned[1]) : ~ Reportable(p, {})
  /\ at' = "reap"
  /\ UNCHANGED <<kernel, table, spawned, command, waited>>

\* register_job; a background job is left alone, another one gets the
\* terminal and is waited for.
Register ==
  /\ at = "spawn"
  /\ Len(spawned) = command.length
  /\ jobs' = Bind(jobs, next_job_id,
                  [pgid |-> spawned[1], pids |-> Range(spawned), state |-> "Running",
                   background |-> command.background])
  /\ next_job_id' = next_job_id + 1
  /\ IF command.background
     THEN at' = "reap" /\ UNCHANGED <<terminal, waited>>
     ELSE at' = "wait" /\ waited' = next_job_id /\ give_terminal_to(spawned[1])
  /\ UNCHANGED <<procs, spawned, command>>

(***************************************************************************)
(* Status changes.                                                         *)
(***************************************************************************)

\* Mutant of JobsOf: the job is looked up by its group
JobsOf_Leader(p) == {j \in DOMAIN jobs : jobs[j].pgid = p}

\* find_job_by_pid: the jobs that have p among their processes
JobsOf(p) == {j \in DOMAIN jobs : p \in jobs[j].pids}

\* Mutants: a job without processes stays listed, the stop of a background job
\* and a continuation are not looked at
remove_job_Keeps(j) == [jobs EXCEPT ![j].pids = {}]
StoppedJob_Foreground(job) == IF job.background THEN job ELSE [job EXCEPT !.state = "Stopped"]
ContinuedJob_Ignored(job) == job

remove_job(j) == Restrict(jobs, DOMAIN jobs \ {j})
StoppedJob(job) == [job EXCEPT !.state = "Stopped", !.background = FALSE]
ContinuedJob(job) == [job EXCEPT !.state = "Running"]

\* handle_child_status of what waitpid returned for p.  A process of no job
\* (one of a pipeline that could not be completed) is ignored.
handle_child_status(p) ==
  IF JobsOf(p) = {} THEN UNCHANGED jobs
  ELSE \E j \in JobsOf(p) :
         jobs' = IF Zombie(p) /\ jobs[j].pids = {p} THEN remove_job(j)
                 ELSE IF Zombie(p) THEN [jobs EXCEPT ![j].pids = @ \ {p}]
                 ELSE IF procs[p].note = "stopped" THEN [jobs EXCEPT ![j] = StoppedJob(@)]
                 ELSE [jobs EXCEPT ![j] = ContinuedJob(@)]

\* Mutants: the loop goes on when the job is gone; the terminal is not taken back
WaitIsOver_Stopped == waited \in DOMAIN jobs' /\ jobs'[waited].state = "Stopped"
LeaveWait_NoTerminal == at' = "reap" /\ waited' = NoJob /\ UNCHANGED terminal

WaitIsOver == waited \notin DOMAIN jobs' \/ jobs'[waited].state = "Stopped"
LeaveWait == at' = "reap" /\ waited' = NoJob /\ give_terminal_to(shell_pgid)

\* An iteration of wait_for_job.  When the job is gone or stopped the shell
\* takes the terminal back.  (The waitpid has a child of the group to wait for
\* as long as the job is listed, see JobsAreGroups, so it never fails.)
Wait(p) ==
  /\ at = "wait"
  /\ procs[p].pg = jobs[waited].pgid
  /\ Reportable(p, {"stopped"})
  /\ handle_child_status(p)
  /\ procs' = Collected(p)
  /\ IF WaitIsOver THEN LeaveWait ELSE UNCHANGED <<at, waited, terminal>>
  /\ UNCHANGED <<next_job_id, spawned, command>>

\* An iteration of reap_background_jobs, which follows every command but the
\* program commands and history
Reap(p) ==
  /\ at = "reap"
  /\ Reportable(p, {"stopped", "continued"})
  /\ handle_child_status(p)
  /\ procs' = Collected(p)
  /\ UNCHANGED <<terminal, next_job_id, spawned, command, at, waited>>

\* Mutant of NothingToReport: waitpid waits for the children that are left
NothingToReport_Blocks == DOMAIN procs = {}

NothingToReport == \A p \in DOMAIN procs : ~ Reportable(p, {"stopped", "continued"})

ReapEnd ==
  /\ at = "reap"
  /\ NothingToReport
  /\ at' = "prompt"
  /\ UNCHANGED <<kernel, table, spawned, command, waited>>

(***************************************************************************)
(* Builtins.                                                               *)
(***************************************************************************)

\* Mutant of ForegroundJob: it stays a background job
ForegroundJob_Keeps(job) == [job EXCEPT !.state = "Running"]

ForegroundJob(job) == [job EXCEPT !.background = FALSE, !.state = "Running"]

\* foreground_job
Fg(j) ==
  /\ at = "prompt"
  /\ jobs' = [jobs EXCEPT ![j] = ForegroundJob(@)]
  /\ give_terminal_to(jobs[j].pgid)
  /\ procs' = Continued(jobs[j].pgid)
  /\ at' = "wait"
  /\ waited' = j
  /\ UNCHANGED <<next_job_id, spawned, command>>

\* background_job
Bg(j) ==
  /\ at = "prompt"
  /\ jobs' = [jobs EXCEPT ![j].background = TRUE, ![j].state = "Running"]
  /\ procs' = Continued(jobs[j].pgid)
  /\ at' = "reap"
  /\ UNCHANGED <<terminal, next_job_id, spawned, command, waited>>

\* jobs, cd, export, and fg or bg of no job: the builtin, then the reaping
OtherBuiltin ==
  /\ at = "prompt"
  /\ at' = "reap"
  /\ UNCHANGED <<kernel, table, spawned, command, waited>>

\* exit or the end of the input; the children live on without the shell
Exit ==
  /\ at = "prompt"
  /\ at' = "exited"
  /\ UNCHANGED <<kernel, table, spawned, command, waited>>

Process(p) == Stop(p) \/ Continue(p) \/ End(p)
Status(p) == AbortReap(p) \/ Wait(p) \/ Reap(p)
Spawning == Spawn \/ SpawnFails \/ Register \/ AbortEnd
Builtin == (\E j \in DOMAIN jobs : Fg(j) \/ Bg(j)) \/ OtherBuiltin \/ Exit

Next ==
  \/ \E p \in DOMAIN procs : Process(p) \/ Status(p)
  \/ Execute
  \/ Spawning
  \/ ReapEnd
  \/ Builtin

\* The shell's thread goes on when it is inside waitpid and there is something
\* to return, and outside the wait always.  Neither the user nor a process has
\* to do anything.
Working == Spawning \/ ReapEnd \/ \E p \in DOMAIN procs : AbortReap(p) \/ Reap(p)

Fairness == WF_vars(\E p \in DOMAIN procs : Wait(p)) /\ WF_vars(Working)

Spec == Init /\ [][Next]_vars
FairSpec == Spec /\ Fairness

(***************************************************************************)
(* Properties.                                                             *)
(***************************************************************************)

Proc == [st : {"running", "stopped", "zombie"}, pg : Pids,
         note : {"none", "stopped", "continued"}]
Job == [pgid : Pids, pids : SUBSET Pids, state : {"Running", "Stopped"}, background : BOOLEAN]

\* Type invariant: what every variable holds, and where the shell can be.
TypeOK ==
  /\ DOMAIN procs \subseteq Pids
  /\ \A p \in DOMAIN procs : procs[p] \in Proc
  /\ terminal \in Pids \cup {shell_pgid}
  /\ DOMAIN jobs \subseteq 1 .. next_job_id - 1
  /\ \A j \in DOMAIN jobs : jobs[j] \in Job
  /\ next_job_id \in 1 .. MAX_JOBS + 1
  /\ at = "spawn" => next_job_id \in Ids
  /\ spawned \in Seq(Pids)
  /\ command \in [length : 1 .. MAX_PIPE, background : BOOLEAN]
  /\ at \in {"prompt", "spawn", "abort", "wait", "reap", "exited"}
  /\ waited \in DOMAIN jobs \cup {NoJob}

\* A job's processes are the unreaped children of its group, and it has some:
\* the SIGCONT of fg and bg and the waitpid of wait_for_job reach exactly that
\* job, although pids are reused and children die at any moment, and a job
\* whose last process was reaped is not listed.
JobsAreGroups ==
  \A j \in DOMAIN jobs : jobs[j].pids # {} /\ jobs[j].pids = Children(jobs[j].pgid)

\* No two jobs share a group, and the pipeline that is being made has a group
\* that is no job's and has exactly the children forked for it: when a later
\* fork fails, the SIGTERM of terminate_group reaches them and nobody else.
GroupsAreDisjoint ==
  /\ \A i, j \in DOMAIN jobs : i # j => jobs[i].pgid # jobs[j].pgid
  /\ at = "spawn" /\ spawned # << >> => Range(spawned) = Children(spawned[1])
  /\ at \in {"spawn", "abort"} /\ spawned # << >> =>
       \A j \in DOMAIN jobs : jobs[j].pgid # spawned[1]
  /\ at = "abort" => spawned # << >>

\* The terminal belongs to the job that is waited for and otherwise to the
\* shell, so a prompt never stands in the background and no other job gets
\* the keyboard (put_job_in_foreground_internal).
TerminalOwner ==
  terminal = IF at = "wait" /\ shell_interactive THEN jobs[waited].pgid ELSE shell_pgid

\* A job of the longest pipeline, so one none of whose processes has ended, is
\* listed as Stopped when they are all stopped and that was collected: no order
\* in which stops and continuations are collected hides it.
\* (handle_child_status, fg, bg.  It is not so once a process ended: a job can
\* be listed as Running with nothing left in it but a stopped process.)
StoppedIsListed ==
  \A j \in DOMAIN jobs :
    /\ Cardinality(jobs[j].pids) = MAX_PIPE
    /\ \A p \in jobs[j].pids : procs[p].st = "stopped" /\ procs[p].note = "none"
    => jobs[j].state = "Stopped"

\* Such a job whose processes are all running, with nothing left to collect, is
\* listed as Running: no stop that is over sticks to it.  Of a job of one process
\* both together say that the listed state is the process's.
RunningIsListed ==
  \A j \in DOMAIN jobs :
    /\ Cardinality(jobs[j].pids) = MAX_PIPE
    /\ \A p \in jobs[j].pids : procs[p].st = "running" /\ procs[p].note = "none"
    => jobs[j].state = "Running"

\* While the shell waits the job counts as running in the foreground, so it is
\* never announced as a background job that is done.
WaitedIsForeground ==
  IF at = "wait"
  THEN waited # NoJob /\ ~ jobs[waited].background /\ jobs[waited].state = "Running"
  ELSE waited = NoJob

\* When all the processes of the job in the foreground have ended, the shell
\* comes back from waiting for it, in whatever order they are reported.
ForegroundReturns ==
  (at = "wait" /\ \A p \in Children(jobs[waited].pgid) : Zombie(p)) ~> at # "wait"

\* Unless processes stop and go on for ever, the shell gets through spawning,
\* giving up and reaping to its prompt, or to the wait for a job: the loops end
\* although children are left that have nothing to report (WNOHANG), and a fork
\* that cannot succeed is given up.
PromptReturns ==
  <>[][\A p \in DOMAIN procs : ~ (Stop(p) \/ Continue(p))]_vars
    => (at \in {"spawn", "abort", "reap"} ~> at \in {"prompt", "wait"})
===============================================================================
