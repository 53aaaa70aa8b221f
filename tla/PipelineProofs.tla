---------------------------- MODULE PipelineProofs ----------------------------
(***************************************************************************)
(* For pipelines of every length: the descriptors of the shell and of its  *)
(* children are those they should have.                                    *)
(***************************************************************************)
EXTENDS Pipeline, TLAPS

\* A descriptor the shell can hold besides the standard ones, or none
Fd == (Nat \ Std) \cup {NoFd}

\* The table of the shell, and of a child just forked, at command k: prev reads
\* the pipe before it, pf is the pipe behind it.
Table(prev, pf, k) ==
  [n \in Std \cup ({prev, pf[1], pf[2]} \ {NoFd}) |->
     IF n \in Std THEN <<"std", n>>
     ELSE IF n = prev THEN <<"read", k - 1>>
     ELSE IF n = pf[1] THEN <<"read", k>> ELSE <<"write", k>>]

\* The descriptors differ, and there are those that command k needs.
EndsAre(prev, pf, k) ==
  /\ prev \in Fd /\ pf \in Fd \X Fd
  /\ prev = NoFd <=> k = 1
  /\ pf[1] = NoFd <=> pf[2] = NoFd
  /\ pf # NoPipe => pf[1] # pf[2] /\ prev \notin {pf[1], pf[2]}

\* The table of a child that has taken its ends of the pipes
StdWith(in, out) ==
  [n \in Std |-> IF n = 0 THEN in ELSE IF n = 1 THEN out ELSE <<"std", 2>>]

PipeIn(p) == IF p = 1 THEN <<"std", 0>> ELSE <<"read", p - 1>>
PipeOut(p) == IF p = Len(commands) THEN <<"std", 1>> ELSE <<"write", p>>

ShellOK ==
  /\ at \in {"pipe", "fork", "close"} =>
       /\ i \in Kids
       /\ EndsAre(prev_read_fd, pipefd, i)
       /\ fds[0] = Table(prev_read_fd, pipefd, i)
  /\ at = "pipe" => pipefd = NoPipe
  /\ at \in {"fork", "close"} => (pipefd = NoPipe <=> i = Len(commands))
  /\ at \in {"done", "failed"} => fds[0] = StdTable

ChildOK(p) ==
  /\ child[p] = "forked" =>
       /\ EndsAre(inherited[p].prev, inherited[p].pipefd, p)
       /\ inherited[p].pipefd = NoPipe <=> p = Len(commands)
       /\ fds[p] = Table(inherited[p].prev, inherited[p].pipefd, p)
  /\ child[p] = "inherited" => fds[p] = StdWith(PipeIn(p), PipeOut(p))
  /\ child[p] = "running" => fds[p] = StdWith(ExpectedInput(p), ExpectedOutput(p))

Shape ==
  /\ commands \in Pipelines
  /\ at \in {"pipe", "fork", "close", "done", "failed"}
  /\ DOMAIN fds = 0 .. Len(commands)
  /\ DOMAIN child = Kids
  /\ DOMAIN inherited = Kids

IInv == Shape /\ ShellOK /\ \A p \in Kids : ChildOK(p)

LEMMA Commands ==
  ASSUME commands \in Pipelines
  PROVE  /\ Kids = 1 .. Len(commands) /\ Len(commands) \in Nat \ {0}
         /\ \A p \in Kids : p # 0 /\ p \in 0 .. Len(commands) /\ p \in Nat
  BY PipelineAssumption DEF Kids

(***************************************************************************)
(* What the system calls make of these tables.                             *)
(***************************************************************************)

\* pipe: the two new descriptors are free, so they are not among the others.
LEMMA PipeTable ==
  ASSUME NEW k \in Nat, NEW prev, EndsAre(prev, NoPipe, k),
         NEW t, t = Table(prev, NoPipe, k),
         NEW r \in Free(t), NEW w \in Free(Opened(t, r, <<"read", k>>))
  PROVE  /\ EndsAre(prev, <<r, w>>, k) /\ <<r, w>> # NoPipe
         /\ Opened(Opened(t, r, <<"read", k>>), w, <<"write", k>>) = Table(prev, <<r, w>>, k)
<1>1. DOMAIN t = Std \cup ({prev} \ {NoFd})
  BY DEF Table, NoPipe
<1>2. r \in Nat /\ r \notin DOMAIN t
  BY PipelineAssumption DEF Free
<1>3. w \in Nat /\ w \notin DOMAIN t /\ w # r
  BY PipelineAssumption DEF Free, Opened
<1>4. r \notin Std /\ w \notin Std /\ r # NoFd /\ w # NoFd /\ (prev # NoFd => r # prev /\ w # prev)
  BY <1>1, <1>2, <1>3 DEF NoFd
<1>5. EndsAre(prev, <<r, w>>, k) /\ <<r, w>> # NoPipe
  BY <1>2, <1>3, <1>4 DEF EndsAre, Fd, NoPipe
<1>6. Opened(Opened(t, r, <<"read", k>>), w, <<"write", k>>) = Table(prev, <<r, w>>, k)
  BY <1>1, <1>2, <1>3, <1>4 DEF Opened, Table, NoPipe, NoFd
<1> QED BY <1>5, <1>6

\* The closes of the parent leave what reads the new pipe.
LEMMA ClosedTable ==
  ASSUME NEW k \in Nat, NEW prev, NEW pf, EndsAre(prev, pf, k)
  PROVE  close(close(Table(prev, pf, k), pf[2]), prev) = Table(pf[1], NoPipe, k + 1)
  BY DEF close, Restrict, Table, EndsAre, Fd, NoPipe, NoFd, Std

\* Without a pipe behind the command, or after a failure, nothing is left.
LEMMA NothingLeft ==
  ASSUME NEW k \in Nat, NEW prev, NEW pf, EndsAre(prev, pf, k)
  PROVE  /\ Table(NoFd, NoPipe, k) = StdTable
         /\ close(close(close(Table(prev, pf, k), pf[1]), pf[2]), prev) = StdTable
<1>1. Table(NoFd, NoPipe, k) = StdTable
  BY DEF Table, NoPipe, NoFd, Std, StdTable
<1>2. \A n \in Std : n \notin {pf[1], pf[2], prev}
  BY DEF EndsAre, Fd, NoFd, Std
<1>3. close(close(close(Table(prev, pf, k), pf[1]), pf[2]), prev)
        = [n \in Std \ {NoFd} |-> Table(prev, pf, k)[n]]
  BY <1>2 DEF close, Restrict, Table, NoFd, Std
<1> QED BY <1>1, <1>3 DEF Table, StdTable, Std, NoFd

\* The child ends with its standard descriptors.
LEMMA InheritedTable ==
  ASSUME NEW k \in Nat, NEW prev, NEW pf, EndsAre(prev, pf, k)
  PROVE  Moved(Moved(close(Table(prev, pf, k), pf[1]), prev, 0), pf[2], 1)
           = StdWith(IF k = 1 THEN <<"std", 0>> ELSE <<"read", k - 1>>,
                     IF pf = NoPipe THEN <<"std", 1>> ELSE <<"write", k>>)
<1> DEFINE t == close(Table(prev, pf, k), pf[1])
           u == Moved(t, prev, 0)
<1>1. t = [n \in Std \cup ({prev, pf[2]} \ {NoFd}) |->
             IF n \in Std THEN <<"std", n>>
             ELSE IF n = prev THEN <<"read", k - 1>> ELSE <<"write", k>>]
  BY DEF close, Restrict, Table, EndsAre, Fd, NoPipe, NoFd, Std
<1> HIDE DEF t
<1>2. u = [n \in Std \cup ({pf[2]} \ {NoFd}) |->
             IF n = 0 THEN IF k = 1 THEN <<"std", 0>> ELSE <<"read", k - 1>>
             ELSE IF n \in Std THEN <<"std", n>> ELSE <<"write", k>>]
  <2>1. CASE prev = NoFd
    BY <1>1, <2>1 DEF Moved, EndsAre, Std, NoFd
  <2>2. CASE prev # NoFd
    <3>1. prev \in DOMAIN t /\ prev # 0 /\ prev \notin Std /\ prev # pf[2] /\ k # 1
      BY <1>1, <2>2 DEF EndsAre, Fd, Std, NoFd, NoPipe
    <3>2. u = [n \in (DOMAIN t \cup {0}) \ {prev} |-> IF n = 0 THEN t[prev] ELSE t[n]]
      BY <2>2, <3>1 DEF Moved, close, dup2, Opened, Restrict
    <3>3. (DOMAIN t \cup {0}) \ {prev} = Std \cup ({pf[2]} \ {NoFd})
      BY <1>1, <3>1 DEF Std
    <3>4. t[prev] = <<"read", k - 1>>
      BY <1>1, <3>1
    <3>5. \A n \in Std \cup ({pf[2]} \ {NoFd}) :
            n # prev /\ t[n] = IF n \in Std THEN <<"std", n>> ELSE <<"write", k>>
      BY <1>1, <3>1
    <3> QED BY <3>1, <3>2, <3>3, <3>4, <3>5
  <2> QED BY <2>1, <2>2
<1> HIDE DEF u
<1>3. Moved(u, pf[2], 1) =
        StdWith(IF k = 1 THEN <<"std", 0>> ELSE <<"read", k - 1>>,
                IF pf = NoPipe THEN <<"std", 1>> ELSE <<"write", k>>)
  <2>1. CASE pf[2] = NoFd
    <3>1. pf = NoPipe
      BY <2>1 DEF EndsAre, NoPipe
    <3> QED BY <1>2, <2>1, <3>1 DEF Moved, StdWith, Std
  <2>2. CASE pf[2] # NoFd
    <3>1. pf[2] \in DOMAIN u /\ pf[2] # 1 /\ pf[2] \notin Std /\ pf # NoPipe
      BY <1>2, <2>2 DEF EndsAre, Fd, Std, NoFd, NoPipe
    <3>2. Moved(u, pf[2], 1) =
            [n \in (DOMAIN u \cup {1}) \ {pf[2]} |-> IF n = 1 THEN u[pf[2]] ELSE u[n]]
      BY <2>2, <3>1 DEF Moved, close, dup2, Opened, Restrict
    <3> QED BY <1>2, <3>1, <3>2 DEF StdWith, Std
  <2> QED BY <2>1, <2>2
<1> QED BY <1>3 DEF u, t

\* A redirection takes the place of one standard descriptor.
LEMMA OpenedTable ==
  ASSUME NEW in, NEW out, NEW wanted \in BOOLEAN, NEW file
  PROVE  /\ \A t \in OpenedOn(StdWith(in, out), wanted, file, 0) :
              t = StdWith(IF wanted THEN file ELSE in, out)
         /\ \A t \in OpenedOn(StdWith(in, out), wanted, file, 1) :
              t = StdWith(in, IF wanted THEN file ELSE out)
<1> DEFINE s == StdWith(in, out)
<1>1. CASE ~ wanted
  BY <1>1 DEF OpenedOn
<1>2. CASE wanted
  <2>1. ASSUME NEW n \in Free(s), NEW new \in {0, 1}
        PROVE  Moved(Opened(s, n, file), n, new) =
                 [m \in Std |-> IF m = new THEN file ELSE s[m]]
    <3>1. n \in Nat /\ n \notin Std /\ n # NoFd /\ n # new
      BY <2>1, PipelineAssumption DEF Free, StdWith, Std, NoFd
    <3>2. DOMAIN Opened(s, n, file) = Std \cup {n} /\ Opened(s, n, file)[n] = file
          /\ \A m \in Std : Opened(s, n, file)[m] = s[m]
      BY <3>1 DEF Opened, StdWith
    <3>3. Moved(Opened(s, n, file), n, new) =
            [m \in ((Std \cup {n}) \cup {new}) \ {n} |->
               IF m = new THEN file ELSE Opened(s, n, file)[m]]
      BY <3>1, <3>2 DEF Moved, close, dup2, Opened, Restrict
    <3> QED BY <3>1, <3>2, <3>3 DEF Std
  <2>2. /\ [m \in Std |-> IF m = 0 THEN file ELSE s[m]] = StdWith(file, out)
        /\ [m \in Std |-> IF m = 1 THEN file ELSE s[m]] = StdWith(in, file)
    BY DEF StdWith, Std
  <2> QED BY <1>2, <2>1, <2>2 DEF OpenedOn
<1> QED BY <1>1, <1>2

(***************************************************************************)
(* The invariant.                                                          *)
(***************************************************************************)

LEMMA InitOK == Init => IInv
<1> SUFFICES ASSUME Init PROVE IInv
  OBVIOUS
<1> USE DEF Init
<1>1. Kids = 1 .. Len(commands) /\ Len(commands) \in Nat \ {0}
  BY Commands
<1>2. Shape
  BY DEF Shape
<1>3. EndsAre(NoFd, NoPipe, 1)
  BY DEF EndsAre, Fd, NoPipe
<1>4. ShellOK
  BY <1>1, <1>3, NothingLeft DEF ShellOK
<1>5. \A p \in Kids : ChildOK(p)
  BY DEF ChildOK
<1> QED BY <1>2, <1>4, <1>5 DEF IInv

\* A step that leaves the shell and the tables alone
LEMMA SameTables ==
  ASSUME IInv, UNCHANGED <<commands, fds, shell, child, inherited>>
  PROVE  IInv'
  BY DEF IInv, Shape, ShellOK, ChildOK, shell, Kids, PipeIn, PipeOut, ExpectedInput,
         ExpectedOutput

\* A step that leaves child p alone
LEMMA SameChild ==
  ASSUME NEW p, ChildOK(p), commands' = commands, fds'[p] = fds[p], child'[p] = child[p],
         inherited'[p] = inherited[p]
  PROVE  ChildOK(p)'
  BY DEF ChildOK, PipeIn, PipeOut, ExpectedInput, ExpectedOutput

\* A step of the shell that leaves the children alone
LEMMA ShellStep ==
  ASSUME IInv, UNCHANGED <<commands, child, inherited>>,
         NEW t, fds' = [fds EXCEPT ![0] = t],
         at' \in {"pipe", "fork", "close", "done", "failed"}, ShellOK'
  PROVE  IInv'
<1>1. Shape'
  BY DEF IInv, Shape, Kids
<1>2. \A p \in Kids : fds'[p] = fds[p]
  BY Commands DEF IInv, Shape
<1>3. \A p \in Kids' : ChildOK(p)'
  BY <1>2, SameChild DEF IInv, Kids
<1> QED BY <1>1, <1>3 DEF IInv

\* A step of one child
LEMMA ChildStep ==
  ASSUME IInv, UNCHANGED <<commands, shell, inherited>>,
         NEW p \in Kids, NEW t, fds' = [fds EXCEPT ![p] = t],
         NEW c, child' = [child EXCEPT ![p] = c], ChildOK(p)'
  PROVE  IInv'
<1>1. Shape'
  BY DEF IInv, Shape, Kids, shell
<1>2. fds'[0] = fds[0]
  BY Commands DEF IInv, Shape
<1>3. ShellOK'
  BY <1>2 DEF IInv, ShellOK, Kids, shell
<1>4. \A q \in Kids : q # p => fds'[q] = fds[q] /\ child'[q] = child[q]
  BY Commands DEF IInv, Shape
<1>5. \A q \in Kids' : ChildOK(q)'
  BY <1>4, SameChild DEF IInv, Kids
<1> QED BY <1>1, <1>3, <1>5 DEF IInv

LEMMA ShellKeeps == IInv /\ Shell => IInv'
<1> SUFFICES ASSUME IInv, Shell PROVE IInv'
  OBVIOUS
<1>1. Kids = 1 .. Len(commands) /\ Len(commands) \in Nat \ {0}
      /\ \A p \in Kids : p # 0 /\ p \in 0 .. Len(commands) /\ p \in Nat
  BY Commands DEF IInv, Shape
<1>2. CASE MakePipe
  <2>1. PICK r \in Free(fds[0]) : \E w \in Free(Opened(fds[0], r, <<"read", i>>)) :
          /\ fds' = [fds EXCEPT ![0] = Opened(Opened(@, r, <<"read", i>>), w, <<"write", i>>)]
          /\ pipefd' = <<r, w>>
    BY <1>2 DEF MakePipe
  <2>2. PICK w \in Free(Opened(fds[0], r, <<"read", i>>)) :
          /\ fds' = [fds EXCEPT ![0] =
                       Opened(Opened(fds[0], r, <<"read", i>>), w, <<"write", i>>)]
          /\ pipefd' = <<r, w>>
    BY <2>1
  <2>3. i \in Kids /\ EndsAre(prev_read_fd, NoPipe, i)
        /\ fds[0] = Table(prev_read_fd, NoPipe, i)
    BY <1>2 DEF MakePipe, IInv, ShellOK
  <2>4. /\ EndsAre(prev_read_fd, <<r, w>>, i) /\ <<r, w>> # NoPipe
        /\ Opened(Opened(fds[0], r, <<"read", i>>), w, <<"write", i>>)
             = Table(prev_read_fd, <<r, w>>, i)
    BY <1>1, <2>3, PipeTable
  <2>5. fds'[0] = Table(prev_read_fd, <<r, w>>, i)
    BY <1>1, <2>2, <2>4 DEF IInv, Shape
  <2>6. ShellOK'
    BY <1>1, <1>2, <2>2, <2>3, <2>4, <2>5 DEF ShellOK, MakePipe, need_pipe, Kids
  <2> QED BY <1>2, <2>2, <2>6, ShellStep DEF MakePipe
<1>3. CASE LastCommand
  <2>1. i \in Kids /\ i = Len(commands)
    BY <1>1, <1>3 DEF LastCommand, need_pipe, IInv, ShellOK
  <2>2. ShellOK'
    BY <1>3, <2>1 DEF LastCommand, IInv, ShellOK, Kids
  <2>3. fds' = [fds EXCEPT ![0] = fds[0]]
    BY <1>3 DEF LastCommand, IInv, Shape
  <2>4. at' = "fork" /\ UNCHANGED <<commands, child, inherited>>
    BY <1>3 DEF LastCommand
  <2> QED BY <2>2, <2>3, <2>4, ShellStep
<1>4. CASE Fork
  <2>1. i \in Kids /\ at = "fork"
    BY <1>4 DEF Fork, IInv, ShellOK
  <2>2. Shape'
    BY <1>4 DEF Fork, IInv, Shape, Kids
  <2>3. fds'[0] = fds[0] /\ fds'[i] = fds[0] /\ \A q \in Kids : q # i => fds'[q] = fds[q]
    BY <1>1, <1>4, <2>1 DEF Fork, IInv, Shape
  <2>4. ShellOK'
    BY <1>4, <2>3 DEF Fork, IInv, ShellOK, Kids
  <2>5. ChildOK(i)'
    BY <1>4, <2>1, <2>3 DEF Fork, IInv, Shape, ShellOK, ChildOK
  <2>6. ASSUME NEW q \in Kids, q # i PROVE ChildOK(q)'
    BY <1>4, <2>1, <2>3, <2>6 DEF Fork, IInv, Shape, ChildOK, PipeIn, PipeOut, ExpectedInput,
       ExpectedOutput
  <2> QED BY <1>4, <2>2, <2>4, <2>5, <2>6 DEF Fork, IInv, Kids
<1>5. CASE CloseEnds
  <2>1. i \in Kids /\ EndsAre(prev_read_fd, pipefd, i)
        /\ fds[0] = Table(prev_read_fd, pipefd, i) /\ (pipefd = NoPipe <=> i = Len(commands))
    BY <1>5 DEF CloseEnds, IInv, ShellOK
  <2>2. fds'[0] = Table(pipefd[1], NoPipe, i + 1)
    BY <1>1, <1>5, <2>1, ClosedTable DEF CloseEnds, ShellTable, IInv, Shape
  <2>3. CASE i = Len(commands)
    <3>1. fds'[0] = StdTable
      BY <1>1, <2>1, <2>2, <2>3, NothingLeft DEF NoPipe, EndsAre, Fd, Table, StdTable
    <3>2. ShellOK'
      BY <1>5, <2>3, <3>1 DEF ShellOK, CloseEnds, need_pipe
    <3> QED BY <1>5, <3>2, ShellStep DEF CloseEnds
  <2>4. CASE i # Len(commands)
    <3>1. pipefd # NoPipe /\ pipefd[1] # NoFd /\ pipefd[1] \in Fd
      BY <2>1, <2>4 DEF EndsAre, NoPipe
    <3>2. i + 1 \in Kids /\ i + 1 # 1 /\ i < Len(commands)
      BY <1>1, <2>1, <2>4
    <3>3. EndsAre(pipefd[1], NoPipe, i + 1)
      BY <3>1, <3>2 DEF EndsAre, NoPipe, Fd
    <3>4. ShellOK'
      BY <1>5, <2>2, <3>2, <3>3 DEF ShellOK, CloseEnds, need_pipe, Kids
    <3> QED BY <1>5, <3>4, ShellStep DEF CloseEnds
  <2> QED BY <2>3, <2>4
<1>6. CASE SpawnFails
  <2>1. fds'[0] = StdTable
    BY <1>1, <1>6, NothingLeft DEF SpawnFails, FailedTable, IInv, Shape, ShellOK
  <2>2. Shape' /\ ShellOK'
    BY <1>6, <2>1 DEF SpawnFails, IInv, Shape, ShellOK, Kids
  <2>3. \A p \in Kids : child'[p] \in {"none", "exited"}
    BY <1>6 DEF SpawnFails
  <2> QED BY <1>6, <2>2, <2>3 DEF SpawnFails, IInv, ChildOK, Kids
<1> QED BY <1>2, <1>3, <1>4, <1>5, <1>6 DEF Shell

LEMMA ChildKeeps == ASSUME IInv, NEW p \in Kids, Child(p) PROVE IInv'
<1>1. p \in Nat /\ p \in DOMAIN fds /\ p \in DOMAIN child
  BY Commands DEF IInv, Shape
<1>2. CASE Inherit(p)
  <2>1. EndsAre(inherited[p].prev, inherited[p].pipefd, p)
        /\ (inherited[p].pipefd = NoPipe <=> p = Len(commands))
        /\ fds[p] = Table(inherited[p].prev, inherited[p].pipefd, p)
    BY <1>2 DEF Inherit, IInv, ChildOK
  <2>2. Inherited(p) = StdWith(PipeIn(p), PipeOut(p))
    BY <1>1, <2>1, InheritedTable DEF Inherited, PipeIn, PipeOut
  <2>3. ChildOK(p)'
    BY <1>1, <1>2, <2>2 DEF Inherit, ChildOK, PipeIn, PipeOut
  <2> QED BY <1>2, <2>3, ChildStep DEF Inherit
<1>3. CASE Exec(p)
  <2>1. PICK t \in Redirected(p) : fds' = [fds EXCEPT ![p] = t]
    BY <1>3 DEF Exec
  <2>2. fds[p] = StdWith(PipeIn(p), PipeOut(p))
    BY <1>3 DEF Exec, IInv, ChildOK
  <2>3. commands[p].input \in BOOLEAN /\ commands[p].output \in BOOLEAN
    <3> DEFINE R == [program : Programs, input : BOOLEAN, output : BOOLEAN]
    <3>1. commands \in Seq(R) /\ p \in 1 .. Len(commands)
      BY PipelineAssumption, Commands DEF IInv, Shape
    <3> HIDE DEF R
    <3>2. commands[p] \in R
      BY <3>1
    <3> QED BY <3>2 DEF R
  <2>4. PICK u \in OpenedOn(fds[p], commands[p].input, <<"input", p>>, 0) :
          t \in OpenedOn(u, commands[p].output, <<"output", p>>, 1)
    BY <2>1 DEF Redirected
  <2>5. u = StdWith(ExpectedInput(p), PipeOut(p))
    BY <2>2, <2>3, <2>4, OpenedTable DEF ExpectedInput, PipeIn
  <2>6. t = StdWith(ExpectedInput(p), ExpectedOutput(p))
    BY <2>3, <2>4, <2>5, OpenedTable DEF ExpectedOutput, PipeOut
  <2>7. ChildOK(p)'
    BY <1>1, <1>3, <2>1, <2>6 DEF Exec, ChildOK, ExpectedInput, ExpectedOutput
  <2> QED BY <1>3, <2>1, <2>7, ChildStep DEF Exec
<1>4. CASE DoNotExec(p) \/ BrokenPipe(p) \/ Finish(p)
  <2>1. Exited(p)
    BY <1>4 DEF DoNotExec, BrokenPipe, Finish
  <2>2. ChildOK(p)'
    BY <1>1, <2>1 DEF Exited, ChildOK
  <2> QED BY <2>1, <2>2, ChildStep DEF Exited
<1>5. CASE Write(p) \/ Read(p) \/ EndOfFile(p)
  BY <1>5, SameTables DEF Write, Read, EndOfFile
<1> QED BY <1>2, <1>3, <1>4, <1>5 DEF Child

LEMMA NextOK == IInv /\ [Next]_vars => IInv'
<1> SUFFICES ASSUME IInv, [Next]_vars PROVE IInv'
  OBVIOUS
<1>1. CASE Shell
  BY <1>1, ShellKeeps
<1>2. ASSUME NEW p \in Kids, Child(p) PROVE IInv'
  BY <1>2, ChildKeeps
<1>3. CASE UNCHANGED vars
  BY <1>3, SameTables DEF vars, shell
<1> QED BY <1>1, <1>2, <1>3 DEF Next

LEMMA Invariant == Spec => []IInv
  BY InitOK, NextOK, PTL DEF Spec

(***************************************************************************)
(* The properties.                                                         *)
(***************************************************************************)

\* A program starts with the input and output its command asks for and with no
\* other descriptor, in pipelines of every length (run_child).
THEOREM ProgramsHaveTheirEnds == Spec => []ChildEnds
<1>1. ASSUME NEW p PROVE
        StdWith(ExpectedInput(p), ExpectedOutput(p))
          = [n \in Std |-> CASE n = 0 -> ExpectedInput(p)
                             [] n = 1 -> ExpectedOutput(p)
                             [] OTHER -> <<"std", 2>>]
  BY DEF StdWith
<1>2. IInv => ChildEnds
  BY <1>1 DEF IInv, ChildOK, ChildEnds
<1> QED BY <1>2, Invariant, PTL

\* No command leaves a descriptor behind in the shell, whatever failed
\* (spawn_pipeline).
THEOREM ShellIsLeftClean == Spec => []ShellKeepsNone
<1>1. IInv => ShellKeepsNone
  BY DEF IInv, ShellOK, ShellKeepsNone
<1> QED BY <1>1, Invariant, PTL
===============================================================================
