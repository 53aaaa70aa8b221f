---------------------------- MODULE TerminalStartup ----------------------------
(***************************************************************************)
(* initialize_executor of src/shell/src/executor.cpp, on a terminal: the   *)
(* shell waits until its group is in the foreground, ignores the job       *)
(* control signals and takes the terminal.  Until then it is a job of the  *)
(* shell that started it, whose user moves jobs between foreground and     *)
(* background and types Ctrl-Z.                                            *)
(*                                                                         *)
(* The loop signals whatever group is in the foreground, so it stops other *)
(* jobs, and the shell itself when it is not the leader of its group: then *)
(* its pid is no group and the loop never ends.                            *)
(***************************************************************************)
EXTENDS Integers

CONSTANT MAX_SUSPENDS  \* bound: how often Ctrl-Z is typed

ASSUME StartupAssumption == MAX_SUSPENDS \in Nat

VARIABLES
  leader,    \* the shell was started as the leader of its process group
  step,      \* where initialize_executor is
  fg,        \* its local variable
  terminal,  \* the foreground process group
  stopped,   \* the jobs of the login shell that are stopped
  suspends,  \* how often Ctrl-Z was typed, for its bound
  behind     \* auxiliary: the shell was stopped after its test and continued in
             \* the background, and was not called to the foreground since

startupVars == <<leader, step, fg, terminal, stopped, suspends, behind>>

\* The groups: of the shell, of another job, and of the login shell, which
\* ignores the signals of job control.
Jobs == {"shell", "other"}
Groups == Jobs \cup {"login"}

\* getpid(), which is the number of no group unless the shell leads one
shell_pgid == IF leader THEN "shell" ELSE "pid"

StartupInit ==
  /\ leader \in BOOLEAN
  /\ step = "read"
  /\ fg = "login"
  /\ terminal \in Groups
  /\ stopped = {}
  /\ suspends = 0
  /\ behind = FALSE

Running == "shell" \notin stopped

\* Mutants: the loop does not ask again, and it is left at once
Foreground_Kept == IF step = "read" THEN terminal ELSE fg
Arrived_Always == TRUE

\* tcgetpgrp
Foreground == terminal

Arrived == fg' = shell_pgid

\* fg = tcgetpgrp, before the loop and at its end, and the test of the loop
Read ==
  /\ step \in {"read", "again"}
  /\ Running
  /\ fg' = Foreground
  /\ step' = IF Arrived THEN "ignore" ELSE "signal"
  /\ UNCHANGED <<leader, terminal, stopped, suspends, behind>>

\* kill(-fg, SIGTTIN) stops the job that was in the foreground when fg was read.
Signal ==
  /\ step = "signal"
  /\ Running
  /\ stopped' = stopped \cup ({fg} \cap Jobs)
  /\ step' = "again"
  /\ UNCHANGED <<leader, fg, terminal, suspends, behind>>

\* SIGTTOU, SIGTTIN and SIGTSTP are ignored from here on.
Ignore ==
  /\ step = "ignore"
  /\ Running
  /\ step' = "take"
  /\ UNCHANGED <<leader, fg, terminal, stopped, suspends, behind>>

\* setpgid, which changes nothing for the leader, and give_terminal_to
Take ==
  /\ step = "take"
  /\ step' = "ready"
  /\ terminal' = shell_pgid
  /\ UNCHANGED <<leader, fg, stopped, suspends, behind>>

(***************************************************************************)
(* The login shell and its user.                                           *)
(***************************************************************************)

\* The job in the foreground has stopped, or it is the other one and has ended:
\* the login shell is back.
LoginReturns ==
  /\ terminal \in stopped \cup {"other"}
  /\ terminal' = "login"
  /\ UNCHANGED <<leader, step, fg, stopped, suspends, behind>>

UserForeground(g) ==
  /\ terminal = "login"
  /\ terminal' = g
  /\ stopped' = stopped \ {g}
  /\ behind' = (behind /\ g # "shell")
  /\ UNCHANGED <<leader, step, fg, suspends>>

UserBackground(g) ==
  /\ terminal = "login"
  /\ g \in stopped
  /\ stopped' = stopped \ {g}
  /\ behind' = (behind \/ (g = "shell" /\ step = "ignore"))
  /\ UNCHANGED <<leader, step, fg, terminal, suspends>>

\* Ctrl-Z
UserSuspends ==
  /\ suspends < MAX_SUSPENDS
  /\ terminal \in Jobs
  /\ terminal = "shell" => step \notin {"take", "ready"}
  /\ stopped' = stopped \cup {terminal}
  /\ suspends' = suspends + 1
  /\ UNCHANGED <<leader, step, fg, terminal, behind>>

Startup == Read \/ Signal \/ Ignore \/ Take

Environment ==
  \/ LoginReturns
  \/ \E g \in Jobs : UserForeground(g) \/ UserBackground(g)
  \/ UserSuspends

StartupNext == Startup \/ Environment

\* The shell is scheduled, other jobs end and the login shell notices, and a user
\* who wants to use the shell calls it to the foreground again and again.
Fairness ==
  /\ WF_startupVars(Startup)
  /\ WF_startupVars(LoginReturns)
  /\ SF_startupVars(UserForeground("shell"))

StartupSpec == StartupInit /\ [][StartupNext]_startupVars /\ Fairness

(***************************************************************************)
(* Properties.                                                             *)
(***************************************************************************)

\* Started as a job of its own, in the foreground or not, the shell becomes
\* ready once it is called to the foreground, although the group it has read
\* may be stale when it sends the signal.
LeadersBecomeReady == leader => <>(step = "ready")

\* The loop waits for the terminal: the shell takes it only when it has it,
\* however often jobs were stopped with Ctrl-Z and moved, the shell itself between
\* its test and signal() among them, unless it is stopped just there and then
\* continued in the background (initialize_executor, give_terminal_to).
NothingIsTaken == [][Take /\ ~ behind => UNCHANGED terminal]_startupVars
===============================================================================
